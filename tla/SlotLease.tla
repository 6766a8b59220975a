------------------------------- MODULE SlotLease -------------------------------
(* What the session limit of the server promises, without saying how it is    *)
(* counted: at most Cap clients hold a lease at any time, and a lease is      *)
(* taken and given back by one client in one step.  Module Server (the atomic *)
(* counter _activeSessions, the accept callback and the release in the        *)
(* destructor of SlotRelease) is shown to implement it.                       *)
EXTENDS Naturals, FiniteSets

CONSTANTS Clients,   \* the possible holders of a lease
          Cap        \* the number of leases

VARIABLE held        \* the clients that hold a lease

LeaseInit == held = {}

Acquire(c) == /\ c \notin held
              /\ Cardinality(held) < Cap
              /\ held' = held \cup {c}

Release(c) == /\ c \in held
              /\ held' = held \ {c}

LeaseNext == \E c \in Clients : Acquire(c) \/ Release(c)

LeaseSpec == LeaseInit /\ [][LeaseNext]_held
================================================================================
