----------------------------- MODULE ServerProofs -----------------------------
(* Proofs about the server, for every set of sessions, every session limit and *)
(* any number of calls of start() and stop(); after them, about the registries *)
(* it asks where a request goes (module Routing), for every set of paths,      *)
(* patterns and languages; and about its configuration (module Config), for    *)
(* every environment and every .env file.                                      *)
EXTENDS Server, Routing, Config, DataLemmas

(* The counted sets are finite, so their cardinalities are numbers. *)
LEMMA CountedSetsFinite ==
    /\ IsFiniteSet(Held) /\ IsFiniteSet(Admits) /\ IsFiniteSet(Rejects)
    /\ Cardinality(Held) \in Nat /\ Cardinality(Admits) \in Nat /\ Cardinality(Rejects) \in Nat
<1>1. IsFiniteSet(Chains)
  BY BoundAssumption, FS_Interval DEF Chains
<1>2. Held \subseteq Sessions /\ Admits \subseteq Chains /\ Rejects \subseteq Chains
  BY DEF Held, Admits, Rejects
<1>3. IsFiniteSet(Held) /\ IsFiniteSet(Admits) /\ IsFiniteSet(Rejects)
  BY <1>1, <1>2, SlotAssumption, FS_Subset
<1> QED BY <1>3, FS_CardinalityType

(* The inductive invariant behind the session limit: the counter can only be   *)
(* compared with the limit because it counts exactly the owners of slots.      *)
SlotInv == TypeOK /\ SlotAccounting /\ CapRespected

(* startWorkers() posts an accept loop that did not exist before, so it does    *)
(* not overwrite a callback that holds a slot.                                 *)
ChainFresh ==
    \A c \in Chains : c > starts \/ (c = starts /\ main \in {"loaded", "flagged"}) => chain[c] = "none"

(* Actions that touch neither the sessions nor a counting accept callback. *)
LEMMA CountsUnchanged ==
    ASSUME TypeOK, session' = session,
           chain' \in [Chains -> ChainStates],
           \A c \in Chains : (chain[c] = "admit") = (chain'[c] = "admit"),
           \A c \in Chains : (chain[c] = "reject") = (chain'[c] = "reject")
    PROVE  Held' = Held /\ Admits' = Admits /\ Rejects' = Rejects
BY DEF Held, Admits, Rejects

LEMMA TypeStep == SlotInv /\ [Next]_vars => TypeOK'
<1> SUFFICES ASSUME SlotInv, [Next]_vars PROVE TypeOK'
  OBVIOUS
<1> USE DEF SlotInv, TypeOK, netVars, slotVars, callVars, ioVars
<1> USE BoundAssumption, SlotAssumption
<1>1. CASE UNCHANGED vars
  BY <1>1 DEF vars
<1>2. CASE InitListen \/ StartLoad \/ RunDry
  <2>1. CASE InitListen
    BY <2>1 DEF InitListen, Disarmed, ChainStates, MainStates
  <2>2. CASE StartLoad
    BY <2>2 DEF StartLoad, ChainStates, MainStates
  <2>3. CASE RunDry
    BY <2>3 DEF RunDry, ChainStates, MainStates
  <2> QED BY <1>2, <2>1, <2>2, <2>3
<1>3. CASE MainStep
  <2>1. CASE StartFlag
    BY <2>1 DEF StartFlag, ChainStates, MainStates
  <2>2. CASE StartWorkers
    BY <2>2 DEF StartWorkers, ChainStates, MainStates
  <2>3. CASE SpawnStatus
    BY <2>3 DEF SpawnStatus, ChainStates, MainStates
  <2>4. CASE StopWorkers
    BY <2>4 DEF StopWorkers, CloseAcceptor, Disarmed, ChainStates, MainStates
  <2>5. CASE JoinWorkers
    BY <2>5 DEF JoinWorkers, ChainStates, MainStates
  <2>6. CASE JoinStatus
    BY <2>6 DEF JoinStatus, ChainStates, MainStates
  <2>7. CASE FinalSave
    BY <2>7 DEF FinalSave, ChainStates, MainStates
  <2> QED BY <1>3, <2>1, <2>2, <2>3, <2>4, <2>5, <2>6, <2>7 DEF MainStep
<1>4. CASE StopFlag \/ StopStep
  <2>1. CASE StopFlag
    <3>1. stops + 1 \in 0..MaxStops BY <2>1 DEF StopFlag
    <3> QED BY <2>1, <3>1 DEF StopFlag
  <2>2. CASE StopClose
    BY <2>2 DEF StopClose, CloseAcceptor, Disarmed, ChainStates, MainStates
  <2>3. CASE StopTimer
    BY <2>3 DEF StopTimer, ChainStates, MainStates
  <2>4. CASE StopGuard
    BY <2>4 DEF StopGuard, ChainStates, MainStates
  <2>5. CASE StopIo
    BY <2>5 DEF StopIo, ChainStates, MainStates
  <2> QED BY <1>4, <2>1, <2>2, <2>3, <2>4, <2>5 DEF StopStep
<1>5. ASSUME NEW c \in Chains, AcceptStep(c) \/ AcceptCompletes(c) PROVE TypeOK'
  <2>1. CASE DoAccept(c) \/ AcceptCompletes(c) \/ AcceptFailed(c) \/ RetryExpires(c)
    BY <2>1 DEF DoAccept, Rearmed, AcceptCompletes,
                AcceptFailed, RetryExpires, ChainStates
  <2>2. CASE AcceptCount(c)
    BY <2>2 DEF AcceptCount, ChainStates
  <2>3. CASE AcceptReject(c)
    <3>1. c \in Rejects BY <2>3, <1>5 DEF AcceptReject, Rejects
    <3>2. Cardinality(Rejects) > 0
      BY <3>1, CountedSetsFinite, FS_EmptySet
    <3>3. active - 1 \in Nat
      BY <3>2, CountedSetsFinite DEF SlotAccounting
    <3> QED BY <2>3, <3>3 DEF AcceptReject, ChainStates
  <2>4. ASSUME NEW s \in Sessions, AcceptAdmit(c, s) PROVE TypeOK'
    BY <2>4 DEF AcceptAdmit, ChainStates, SessionStates
  <2> QED BY <1>5, <2>1, <2>2, <2>3, <2>4 DEF AcceptStep
<1>6. ASSUME NEW s \in Sessions, SessionStep(s) \/ SessionEnd(s) PROVE TypeOK'
  <2>1. CASE SessionStart(s) \/ SessionEnd(s)
    BY <2>1 DEF SessionStart, SessionEnd, SessionStates
  <2>2. CASE SessionRelease(s)
    <3>1. s \in Held BY <2>2, <1>6 DEF SessionRelease, Held
    <3>2. Cardinality(Held) > 0
      BY <3>1, CountedSetsFinite, FS_EmptySet
    <3>3. active - 1 \in Nat
      BY <3>2, CountedSetsFinite DEF SlotAccounting
    <3> QED BY <2>2, <3>3 DEF SessionRelease, SessionStates
  <2> QED BY <1>6, <2>1, <2>2 DEF SessionStep
<1>7. CASE StatusExit
  BY <1>7 DEF StatusExit
<1> QED BY <1>1, <1>2, <1>3, <1>4, <1>5, <1>6, <1>7 DEF Next

LEMMA FreshStep == TypeOK /\ ChainFresh /\ [Next]_vars => ChainFresh'
<1> SUFFICES ASSUME TypeOK, ChainFresh, [Next]_vars PROVE ChainFresh'
  OBVIOUS
<1> USE DEF netVars, slotVars, callVars, ioVars, ChainFresh, TypeOK
<1> USE BoundAssumption
<1>1. CASE UNCHANGED vars
  BY <1>1 DEF vars
<1>2. CASE InitListen \/ StartLoad \/ RunDry
  BY <1>2 DEF InitListen, StartLoad, RunDry, Disarmed, Chains
<1>3. CASE MainStep
  <2>1. CASE StartFlag \/ SpawnStatus
    BY <2>1 DEF StartFlag, SpawnStatus
  <2>3. CASE StartWorkers
    <3>1. main \in {"loaded", "flagged"} /\ main' \notin {"loaded", "flagged"} /\ starts' = starts
      BY <2>3 DEF StartWorkers
    <3>2. \A c \in Chains : c # starts => chain'[c] = chain[c]
      BY <2>3 DEF StartWorkers
    <3> QED BY <3>1, <3>2 DEF Chains
  <2>2. CASE StopWorkers \/ JoinWorkers \/ JoinStatus \/ FinalSave
    BY <2>2 DEF StopWorkers, JoinWorkers, JoinStatus, FinalSave, CloseAcceptor, Disarmed
  <2> QED BY <1>3, <2>1, <2>2, <2>3 DEF MainStep
<1>4. CASE StopFlag \/ StopStep
  BY <1>4 DEF StopStep, StopFlag, StopClose, StopTimer, StopGuard, StopIo, CloseAcceptor, Disarmed
<1>5. ASSUME NEW c \in Chains, AcceptStep(c) \/ AcceptCompletes(c) PROVE ChainFresh'
  BY <1>5 DEF AcceptStep, DoAccept, AcceptCompletes, AcceptCount, AcceptReject, AcceptAdmit,
     AcceptFailed, RetryExpires
<1>6. ASSUME NEW s \in Sessions, SessionStep(s) \/ SessionEnd(s) PROVE ChainFresh'
  BY <1>6 DEF SessionStep, SessionStart, SessionEnd, SessionRelease
<1>7. CASE StatusExit
  BY <1>7 DEF StatusExit
<1> QED BY <1>1, <1>2, <1>3, <1>4, <1>5, <1>6, <1>7 DEF Next

(* The counter and the counted sets move together in every step. *)
LEMMA SlotStep == SlotInv /\ ChainFresh /\ TypeOK' /\ [Next]_vars => SlotAccounting' /\ CapRespected'
<1> SUFFICES ASSUME SlotInv, ChainFresh, TypeOK', [Next]_vars PROVE SlotAccounting' /\ CapRespected'
  OBVIOUS
<1> USE DEF netVars, slotVars, callVars, ioVars
<1>0. TypeOK /\ SlotAccounting /\ CapRespected
  BY DEF SlotInv
<1>a. SUFFICES \/ active' = active /\ Held' = Held /\ Admits' = Admits /\ Rejects' = Rejects
               \/ SlotAccounting' /\ CapRespected'
  BY <1>0 DEF SlotAccounting, CapRespected
<1>1. CASE UNCHANGED vars
  BY <1>0, <1>1 DEF vars, Held, Admits, Rejects
<1>2. CASE InitListen \/ StartLoad \/ RunDry
  BY <1>0, <1>2, CountsUnchanged DEF InitListen, StartLoad, RunDry, Disarmed, TypeOK
<1>3. CASE MainStep
  <2>1. CASE StartWorkers
    <3>1. starts \in Chains => chain[starts] = "none"
      BY <2>1 DEF StartWorkers, ChainFresh
    <3> QED BY <1>0, <2>1, <3>1, CountsUnchanged DEF StartWorkers, TypeOK
  <2>2. CASE StartFlag \/ SpawnStatus \/ StopWorkers \/ JoinWorkers \/ JoinStatus \/ FinalSave
    BY <1>0, <2>2, CountsUnchanged DEF StartFlag, SpawnStatus, StopWorkers, JoinWorkers, JoinStatus,
       FinalSave, CloseAcceptor, Disarmed, TypeOK
  <2> QED BY <1>3, <2>1, <2>2 DEF MainStep
<1>4. CASE StopFlag \/ StopStep
  BY <1>0, <1>4, CountsUnchanged DEF StopStep, StopFlag, StopClose, StopTimer, StopGuard, StopIo,
     CloseAcceptor, Disarmed, TypeOK
<1>5. ASSUME NEW c \in Chains, AcceptStep(c) \/ AcceptCompletes(c)
      PROVE  \/ active' = active /\ Held' = Held /\ Admits' = Admits /\ Rejects' = Rejects
             \/ SlotAccounting' /\ CapRespected'
  <2>1. CASE DoAccept(c) \/ AcceptCompletes(c) \/ AcceptFailed(c) \/ RetryExpires(c)
    BY <1>0, <2>1, CountsUnchanged DEF DoAccept, Rearmed, AcceptCompletes, AcceptFailed, RetryExpires, TypeOK
  <2>2. CASE AcceptCount(c)
    <3>1. CASE ~running
      BY <1>0, <2>2, <3>1, CountsUnchanged DEF AcceptCount, TypeOK
    <3>2. CASE running /\ active >= MaxQueueSize
      <4>1. Held' = Held /\ Admits' = Admits /\ Rejects' = Rejects \cup {c} /\ c \notin Rejects
        BY <1>0, <2>2, <3>2 DEF AcceptCount, TypeOK, Held, Admits, Rejects
      <4>2. Cardinality(Rejects') = Cardinality(Rejects) + 1
        BY <4>1, CountedSetsFinite, FS_AddElement
      <4>3. active' = active + 1
        BY <2>2, <3>2 DEF AcceptCount
      <4> QED BY <1>0, <4>1, <4>2, <4>3, CountedSetsFinite DEF SlotAccounting, CapRespected
    <3>3. CASE running /\ ~(active >= MaxQueueSize)
      <4>1. Held' = Held /\ Rejects' = Rejects /\ Admits' = Admits \cup {c} /\ c \notin Admits
        BY <1>0, <2>2, <3>3 DEF AcceptCount, TypeOK, Held, Admits, Rejects
      <4>2. Cardinality(Admits') = Cardinality(Admits) + 1
        BY <4>1, CountedSetsFinite, FS_AddElement
      <4>3. active' = active + 1 /\ active < MaxQueueSize
        BY <1>0, <2>2, <3>3, SlotAssumption DEF AcceptCount, TypeOK
      <4> QED BY <1>0, <4>1, <4>2, <4>3, CountedSetsFinite, SlotAssumption
              DEF SlotAccounting, CapRespected, TypeOK
    <3> QED BY <3>1, <3>2, <3>3
  <2>3. CASE AcceptReject(c)
    <3>1. Held' = Held /\ Admits' = Admits /\ Rejects' = Rejects \ {c} /\ c \in Rejects
      BY <1>0, <2>3 DEF AcceptReject, TypeOK, Held, Admits, Rejects
    <3>2. Cardinality(Rejects') = Cardinality(Rejects) - 1
      BY <3>1, CountedSetsFinite, FS_RemoveElement
    <3>3. active' = active - 1
      BY <2>3 DEF AcceptReject
    <3> QED BY <1>0, <3>1, <3>2, <3>3, CountedSetsFinite DEF SlotAccounting, CapRespected
  <2>4. ASSUME NEW s \in Sessions, AcceptAdmit(c, s) PROVE SlotAccounting' /\ CapRespected'
    <3>1. /\ Held' = Held \cup {s} /\ s \notin Held
          /\ Admits' = Admits \ {c} /\ c \in Admits
          /\ Rejects' = Rejects
      BY <1>0, <2>4 DEF AcceptAdmit, TypeOK, Held, Admits, Rejects
    <3>2. Cardinality(Held') = Cardinality(Held) + 1
      BY <3>1, CountedSetsFinite, FS_AddElement
    <3>3. Cardinality(Admits') = Cardinality(Admits) - 1
      BY <3>1, CountedSetsFinite, FS_RemoveElement
    <3>4. active' = active
      BY <2>4 DEF AcceptAdmit
    <3> QED BY <1>0, <3>1, <3>2, <3>3, <3>4, CountedSetsFinite DEF SlotAccounting, CapRespected
  <2> QED BY <1>5, <2>1, <2>2, <2>3, <2>4 DEF AcceptStep
<1>6. ASSUME NEW s \in Sessions, SessionStep(s) \/ SessionEnd(s)
      PROVE  \/ active' = active /\ Held' = Held /\ Admits' = Admits /\ Rejects' = Rejects
             \/ SlotAccounting' /\ CapRespected'
  <2>1. CASE SessionStart(s) \/ SessionEnd(s)
    BY <1>0, <2>1 DEF SessionStart, SessionEnd, TypeOK, Held, Admits, Rejects
  <2>2. CASE SessionRelease(s)
    <3>1. Held' = Held \ {s} /\ s \in Held /\ Admits' = Admits /\ Rejects' = Rejects
      BY <1>0, <2>2 DEF SessionRelease, TypeOK, Held, Admits, Rejects
    <3>2. Cardinality(Held') = Cardinality(Held) - 1
      BY <3>1, CountedSetsFinite, FS_RemoveElement
    <3>3. active' = active - 1
      BY <2>2 DEF SessionRelease
    <3> QED BY <1>0, <3>1, <3>2, <3>3, CountedSetsFinite, SlotAssumption DEF SlotAccounting, CapRespected
  <2> QED BY <1>6, <2>1, <2>2 DEF SessionStep
<1>7. CASE StatusExit
  BY <1>0, <1>7 DEF StatusExit, Held, Admits, Rejects
<1> QED BY <1>1, <1>2, <1>3, <1>4, <1>5, <1>6, <1>7 DEF Next

LEMMA SlotInit == Init => SlotInv /\ ChainFresh
<1> SUFFICES ASSUME Init PROVE SlotInv /\ ChainFresh
  OBVIOUS
<1>1. TypeOK
  <2>1. starts \in 0..MaxStarts /\ stops \in 0..MaxStops
    BY BoundAssumption DEF Init
  <2>2. chain \in [Chains -> ChainStates] /\ session \in [Sessions -> SessionStates]
    BY DEF Init, ChainStates, SessionStates
  <2>3. running \in BOOLEAN /\ ioStopped \in BOOLEAN /\ guard \in BOOLEAN /\ workers \in BOOLEAN
    BY DEF Init
  <2>4. active \in Nat /\ activeHandlers \in Int /\ (main # "idle" => starts > 0)
    BY DEF Init
  <2>5. /\ acceptor \in {"none", "open", "closed"} /\ main \in MainStates
        /\ stopper \in {"idle", "close", "timer", "guard", "io"}
        /\ status \in {"none", "loop", "done"}
    BY DEF Init, MainStates
  <2> QED BY <2>1, <2>2, <2>3, <2>4, <2>5 DEF TypeOK
<1>2. Held = {} /\ Admits = {} /\ Rejects = {}
  BY DEF Init, Held, Admits, Rejects
<1>3. SlotAccounting /\ CapRespected
  BY <1>2, FS_EmptySet, SlotAssumption DEF Init, SlotAccounting, CapRespected
<1> QED BY <1>1, <1>3 DEF Init, SlotInv, ChainFresh

(* The invariant that gives the three theorems that follow.                    *)
THEOREM SlotInvariant == Spec => [](SlotInv /\ ChainFresh)
<1>1. SlotInv /\ ChainFresh /\ [Next]_vars => (SlotInv /\ ChainFresh)'
  BY TypeStep, SlotStep, FreshStep DEF SlotInv
<1> QED BY SlotInit, <1>1, PTL DEF Spec

(* Type correctness of the server, for any number of sessions, starts and      *)
(* stops: in particular _activeSessions never drops below zero.                *)
THEOREM TypeCorrect == Spec => []TypeOK
<1>1. SlotInv => TypeOK BY DEF SlotInv
<1> QED BY <1>1, SlotInvariant, PTL

(* _activeSessions counts exactly the owners of slots.                         *)
THEOREM SlotsAccounted == Spec => []SlotAccounting
<1>1. SlotInv => SlotAccounting BY DEF SlotInv
<1> QED BY <1>1, SlotInvariant, PTL

(* The session limit of setMaxQueueSize is never exceeded, however many accept *)
(* loops and restarts there are.                                               *)
THEOREM SessionLimit == Spec => []CapRespected
<1>1. SlotInv => CapRespected BY DEF SlotInv
<1> QED BY <1>1, SlotInvariant, PTL
--------------------------------------------------------------------------------
(* A step of the server takes one lease, gives one back, or leaves them alone. *)
LEMMA LeaseStep == SlotInv /\ [Next]_vars => [Lease!LeaseNext]_Held
<1> SUFFICES ASSUME SlotInv, [Next]_vars PROVE Held' = Held \/ Lease!LeaseNext
  OBVIOUS
<1> USE DEF netVars, slotVars, callVars, ioVars
<1>0. TypeOK /\ CapRespected
  BY DEF SlotInv
<1>1. CASE session' = session
  BY <1>1 DEF Held
<1>2. ASSUME NEW c \in Chains, NEW s \in Sessions, AcceptAdmit(c, s) PROVE Lease!LeaseNext
  <2>1. s \notin Held /\ Held' = Held \cup {s} /\ c \in Admits
    BY <1>0, <1>2 DEF AcceptAdmit, TypeOK, Held, Admits
  <2>2. Cardinality(Admits) > 0
    BY <2>1, CountedSetsFinite, FS_EmptySet
  <2>3. Cardinality(Held) < MaxQueueSize
    BY <1>0, <2>2, CountedSetsFinite, SlotAssumption DEF CapRespected
  <2>4. Lease!Acquire(s)
    BY <2>1, <2>3 DEF Lease!Acquire, Lease!Cardinality, Cardinality
  <2> QED BY <2>4 DEF Lease!LeaseNext
<1>3. ASSUME NEW s \in Sessions, SessionRelease(s) PROVE Lease!LeaseNext
  <2>1. s \in Held /\ Held' = Held \ {s}
    BY <1>0, <1>3 DEF SessionRelease, TypeOK, Held
  <2>2. Lease!Release(s)
    BY <2>1 DEF Lease!Release
  <2> QED BY <2>2 DEF Lease!LeaseNext
<1>4. ASSUME NEW s \in Sessions, SessionStart(s) \/ SessionEnd(s) PROVE Held' = Held
  BY <1>0, <1>4 DEF SessionStart, SessionEnd, TypeOK, Held
<1>5. CASE MainStep \/ InitListen \/ StartLoad \/ RunDry \/ StopFlag \/ StopStep \/ StatusExit
  <2>1. session' = session
    BY <1>5 DEF MainStep, StartFlag, StartWorkers, SpawnStatus, StopWorkers, JoinWorkers, JoinStatus,
       FinalSave, InitListen, StartLoad, RunDry, StopFlag, StopStep, StopClose, StopTimer, StopGuard,
       StopIo, StatusExit
  <2> QED BY <2>1, <1>1
<1>6. ASSUME NEW c \in Chains, AcceptStep(c) \/ AcceptCompletes(c),
             ~ \E s \in Sessions : AcceptAdmit(c, s)
      PROVE  session' = session
  <2>1. \/ DoAccept(c) \/ AcceptCompletes(c) \/ AcceptCount(c)
        \/ AcceptReject(c) \/ AcceptFailed(c) \/ RetryExpires(c)
    BY <1>6 DEF AcceptStep
  <2> QED BY <2>1 DEF DoAccept, AcceptCompletes, AcceptCount, AcceptReject, AcceptFailed, RetryExpires
<1>7. CASE UNCHANGED vars
  BY <1>7, <1>1 DEF vars
<1> QED BY <1>1, <1>2, <1>3, <1>4, <1>5, <1>6, <1>7 DEF Next, SessionStep

(* The accept callback, the counter and the release in runCoro implement a     *)
(* lease of MaxQueueSize places (module SlotLease).                            *)
THEOREM ImplementsLease == Spec => LeaseRefinement
<1>1. Init => Lease!LeaseInit
  BY DEF Init, Lease!LeaseInit, Held
<1> QED BY <1>1, LeaseStep, SlotInvariant, PTL DEF Spec, LeaseRefinement, Lease!LeaseSpec
--------------------------------------------------------------------------------
(* Closing or replacing the acceptor disarms every accept loop, and doAccept() *)
(* looks at the acceptor before it arms one again.                             *)
THEOREM AcceptorClosedForGood == Spec => []NoAcceptAfterClose
<1> USE DEF netVars, slotVars, callVars, ioVars
<1>1. Init => NoAcceptAfterClose
  BY DEF Init, NoAcceptAfterClose
<1>2. TypeOK /\ NoAcceptAfterClose /\ [Next]_vars => NoAcceptAfterClose'
  <2> SUFFICES ASSUME TypeOK, NoAcceptAfterClose, [Next]_vars PROVE NoAcceptAfterClose'
    OBVIOUS
  <2> USE DEF NoAcceptAfterClose, TypeOK
  <2>1. CASE UNCHANGED vars
    BY <2>1 DEF vars
  <2>2. CASE InitListen \/ StartLoad \/ RunDry \/ StatusExit
    BY <2>2 DEF InitListen, StartLoad, RunDry, StatusExit, Disarmed
  <2>3. CASE MainStep
    BY <2>3 DEF MainStep, StartFlag, StartWorkers, SpawnStatus, StopWorkers, JoinWorkers, JoinStatus,
       FinalSave, CloseAcceptor, Disarmed
  <2>4. CASE StopFlag \/ StopStep
    BY <2>4 DEF StopFlag, StopStep, StopClose, StopTimer, StopGuard, StopIo, CloseAcceptor, Disarmed
  <2>5. ASSUME NEW c \in Chains, AcceptStep(c) \/ AcceptCompletes(c) PROVE NoAcceptAfterClose'
    BY <2>5 DEF AcceptStep, DoAccept, Rearmed, AcceptCompletes, AcceptCount, AcceptReject, AcceptAdmit,
       AcceptFailed, RetryExpires
  <2>6. ASSUME NEW s \in Sessions, SessionStep(s) \/ SessionEnd(s) PROVE NoAcceptAfterClose'
    BY <2>6 DEF SessionStep, SessionStart, SessionEnd, SessionRelease
  <2> QED BY <2>1, <2>2, <2>3, <2>4, <2>5, <2>6 DEF Next
<1> QED BY <1>1, <1>2, TypeCorrect, PTL DEF Spec
--------------------------------------------------------------------------------
(* Why nothing records while start() saves: only io threads enter a handler,   *)
(* they are joined with no handler left in the middle, and only start() makes  *)
(* new ones; the persistence thread exists only between its creation and join. *)
JoinInv ==
    /\ ~workers => ~Busy
    /\ main \in {"joinStatus", "saving"} => ~workers
    /\ main \notin {"run", "joinWorkers", "joinStatus"} => status = "none"

LEMMA JoinStep == TypeOK /\ JoinInv /\ [Next]_vars => JoinInv'
<1> SUFFICES ASSUME TypeOK, JoinInv, [Next]_vars PROVE JoinInv'
  OBVIOUS
<1> USE DEF netVars, slotVars, callVars, ioVars, JoinInv, TypeOK
<1>1. CASE UNCHANGED vars
  BY <1>1 DEF vars, Busy
<1>2. CASE InitListen \/ StartLoad \/ RunDry \/ StatusExit
  BY <1>2 DEF InitListen, StartLoad, RunDry, StatusExit, Disarmed, Busy, MainStates
<1>3. CASE MainStep
  <2>1. CASE StartFlag \/ SpawnStatus \/ JoinWorkers \/ JoinStatus \/ FinalSave
    BY <2>1 DEF StartFlag, SpawnStatus, JoinWorkers, JoinStatus, FinalSave, Busy
  <2>2. CASE StartWorkers
    BY <2>2 DEF StartWorkers, Busy
  <2>3. CASE StopWorkers
    BY <2>3 DEF StopWorkers, CloseAcceptor, Disarmed, Busy
  <2> QED BY <1>3, <2>1, <2>2, <2>3 DEF MainStep
<1>4. CASE StopFlag \/ StopStep
  BY <1>4 DEF StopFlag, StopStep, StopClose, StopTimer, StopGuard, StopIo, CloseAcceptor, Disarmed, Busy
<1>5. ASSUME NEW c \in Chains, AcceptStep(c) \/ AcceptCompletes(c) PROVE JoinInv'
  BY <1>5 DEF AcceptStep, DoAccept, Rearmed, AcceptCompletes, AcceptCount, AcceptReject, AcceptAdmit,
     AcceptFailed, RetryExpires, Busy, IoLive
<1>6. ASSUME NEW s \in Sessions, SessionStep(s) \/ SessionEnd(s) PROVE JoinInv'
  BY <1>6 DEF SessionStep, SessionStart, SessionEnd, SessionRelease, Busy, IoLive
<1> QED BY <1>1, <1>2, <1>3, <1>4, <1>5, <1>6 DEF Next

(* The save at the end of start() sees every recorded event: no thread that    *)
(* records is left.                                                            *)
THEOREM SaveIsQuiescent == Spec => []QuiescentSave
<1>1. Init => JoinInv
  BY DEF Init, JoinInv, Busy
<1>2. JoinInv => QuiescentSave
  BY DEF JoinInv, QuiescentSave
<1> QED BY <1>1, <1>2, JoinStep, TypeCorrect, PTL DEF Spec

(* No std::thread is overwritten while it is joinable.                         *)
THEOREM StatusThreadJoined == Spec => []ThreadNotOverwritten
<1>1. Init => JoinInv
  BY DEF Init, JoinInv, Busy
<1>2. JoinInv => ThreadNotOverwritten
  BY DEF JoinInv, ThreadNotOverwritten
<1> QED BY <1>1, <1>2, JoinStep, TypeCorrect, PTL DEF Spec

(* Every run of start() ends with its threads joined and begins without those  *)
(* of an earlier one, however often it is started and stopped.                 *)
THEOREM RunsLeaveNoThread == Spec => []ThreadsJoined
  BY SaveIsQuiescent, StatusThreadJoined, PTL DEF ThreadsJoined
--------------------------------------------------------------------------------
(* Why requests.active is exact up to the second start(): before the first one *)
(* there is no accept loop, hence no session under a counter that loading the  *)
(* metrics could zero.                                                         *)
NoSessionYet == starts = 0 => Held = {}
HandlerInv == NoSessionYet /\ HandlersCounted

LEMMA ServingFinite == IsFiniteSet(Serving) /\ Cardinality(Serving) \in Nat
<1>1. Serving \subseteq Sessions
  BY DEF Serving
<1> QED BY <1>1, SlotAssumption, FS_Subset, FS_CardinalityType

LEMMA HandlerStep == TypeOK /\ ChainFresh /\ HandlerInv /\ [Next]_vars => HandlerInv'
<1> SUFFICES ASSUME TypeOK, ChainFresh, HandlerInv, [Next]_vars PROVE HandlerInv'
  OBVIOUS
<1> USE DEF netVars, slotVars, callVars, ioVars
<1>0. NoSessionYet /\ HandlersCounted
  BY DEF HandlerInv
<1>1. ASSUME session' = session, activeHandlers' = activeHandlers, starts' = starts
      PROVE  HandlerInv'
  BY <1>0, <1>1 DEF HandlerInv, NoSessionYet, HandlersCounted, Held, Serving
<1>2. CASE UNCHANGED vars
  BY <1>1, <1>2 DEF vars
<1>3. CASE StartLoad
  <2>1. starts' = starts + 1 /\ session' = session /\ starts \in Nat
        /\ activeHandlers' \in {activeHandlers, 0}
    BY <1>3, BoundAssumption DEF StartLoad, TypeOK
  <2>2. NoSessionYet'
    BY <2>1 DEF NoSessionYet
  <2>3. ASSUME starts' <= 1 PROVE activeHandlers' = Cardinality(Serving')
    <3>1. starts = 0 /\ Serving = {} /\ Serving' = Serving
      BY <1>0, <2>1, <2>3 DEF NoSessionYet, Held, Serving
    <3>2. Cardinality(Serving) = 0
      BY <3>1, FS_EmptySet
    <3>3. activeHandlers = 0
      BY <1>0, <3>1, <3>2 DEF HandlersCounted
    <3> QED BY <2>1, <3>1, <3>2, <3>3
  <2> QED BY <2>2, <2>3 DEF HandlerInv, HandlersCounted
<1>4. CASE MainStep \/ InitListen \/ RunDry \/ StopFlag \/ StopStep \/ StatusExit
  <2>1. session' = session /\ activeHandlers' = activeHandlers /\ starts' = starts
    BY <1>4 DEF MainStep, StartFlag, StartWorkers, SpawnStatus, StopWorkers, JoinWorkers, JoinStatus,
       FinalSave, InitListen, RunDry, StopFlag, StopStep, StopClose, StopTimer, StopGuard, StopIo,
       StatusExit
  <2> QED BY <1>1, <2>1
<1>5. ASSUME NEW c \in Chains, AcceptStep(c) \/ AcceptCompletes(c) PROVE HandlerInv'
  <2>1. CASE DoAccept(c) \/ AcceptCompletes(c) \/ AcceptCount(c) \/ AcceptReject(c)
             \/ AcceptFailed(c) \/ RetryExpires(c)
    BY <1>1, <2>1 DEF DoAccept, AcceptCompletes, AcceptCount, AcceptReject, AcceptFailed, RetryExpires
  <2>2. ASSUME NEW s \in Sessions, AcceptAdmit(c, s) PROVE HandlerInv'
    <3>1. c <= starts /\ starts # 0
      BY <2>2, BoundAssumption DEF AcceptAdmit, ChainFresh, Chains, TypeOK
    <3>2. Serving' = Serving /\ starts' = starts /\ activeHandlers' = activeHandlers
      BY <2>2 DEF AcceptAdmit, Serving, TypeOK
    <3> QED BY <1>0, <3>1, <3>2 DEF HandlerInv, NoSessionYet, HandlersCounted
  <2> QED BY <1>5, <2>1, <2>2 DEF AcceptStep
<1>6. ASSUME NEW s \in Sessions, SessionStep(s) \/ SessionEnd(s) PROVE HandlerInv'
  <2>1. s \in Held /\ starts' = starts /\ starts # 0
    BY <1>0, <1>6 DEF SessionStep, SessionStart, SessionEnd, SessionRelease, Held, NoSessionYet
  <2>2. CASE SessionStart(s)
    <3>1. Serving' = Serving \cup {s} /\ s \notin Serving
      BY <2>2 DEF SessionStart, Serving, TypeOK
    <3>2. Cardinality(Serving') = Cardinality(Serving) + 1
      BY <3>1, ServingFinite, FS_AddElement
    <3>3. activeHandlers' = activeHandlers + 1
      BY <2>2 DEF SessionStart
    <3> QED BY <1>0, <2>1, <3>2, <3>3 DEF HandlerInv, NoSessionYet, HandlersCounted
  <2>3. CASE SessionEnd(s)
    <3>1. Serving' = Serving \ {s} /\ s \in Serving
      BY <2>3 DEF SessionEnd, Serving, TypeOK
    <3>2. Cardinality(Serving') = Cardinality(Serving) - 1
      BY <3>1, ServingFinite, FS_RemoveElement
    <3>3. activeHandlers' = activeHandlers - 1
      BY <2>3 DEF SessionEnd
    <3> QED BY <1>0, <2>1, <3>2, <3>3 DEF HandlerInv, NoSessionYet, HandlersCounted
  <2>4. CASE SessionRelease(s)
    <3>1. Serving' = Serving /\ activeHandlers' = activeHandlers
      BY <2>4 DEF SessionRelease, Serving, TypeOK
    <3> QED BY <1>0, <2>1, <3>1 DEF HandlerInv, NoSessionYet, HandlersCounted
  <2> QED BY <1>6, <2>2, <2>3, <2>4 DEF SessionStep
<1> QED BY <1>2, <1>3, <1>4, <1>5, <1>6 DEF Next

(* Both counters of sessions are exact: _activeSessions in every state,        *)
(* _activeHandlers until a second start() may reload it.                       *)
THEOREM CountersExact == Spec => []CountersMatch
<1>1. Init => HandlerInv
  <2> SUFFICES ASSUME Init PROVE HandlerInv
    OBVIOUS
  <2>1. Held = {} /\ Serving = {} /\ activeHandlers = 0
    BY DEF Init, Held, Serving
  <2> QED BY <2>1, FS_EmptySet DEF HandlerInv, NoSessionYet, HandlersCounted
<1>2. HandlerInv => HandlersCounted
  BY DEF HandlerInv
<1>3. SlotInv => TypeOK /\ SlotAccounting
  BY DEF SlotInv
<1> QED BY <1>1, <1>2, <1>3, HandlerStep, SlotInvariant, PTL DEF Spec, CountersMatch

--------------------------------------------------------------------------------
(* The tokens are ordered as their places in Letters.                          *)
LEMMA RanksDiffer ==
    ASSUME NEW a \in Range(Letters), NEW b \in Range(Letters)
    PROVE  Rank(a) \in Nat /\ (Rank(a) = Rank(b) => a = b)
<1>1. Letters \in [1..Len(Letters) -> STRING] /\ Len(Letters) \in Nat
  BY RoutingAssumption, LenProperties
<1>2. (\E i \in DOMAIN Letters : Letters[i] = a) /\ (\E i \in DOMAIN Letters : Letters[i] = b)
  BY DEF Range
<1>3. Rank(a) \in DOMAIN Letters /\ Letters[Rank(a)] = a
  BY <1>2 DEF Rank
<1>4. Rank(b) \in DOMAIN Letters /\ Letters[Rank(b)] = b
  BY <1>2 DEF Rank
<1> QED BY <1>1, <1>3, <1>4

(* The length of a path is a number.                                           *)
LEMMA SizeIsNumber == ASSUME NEW p \in Seq(Range(Letters)) PROVE Size(p) \in Nat
<1> DEFINE n == Len(p)
           d == [k \in 1..n |-> Width[p[k]]]
           IsUpto(w) == w = [k \in 0..n |-> IF k = 0 THEN 0 ELSE w[k - 1] + Width[p[k]]]
           upto == CHOOSE w : IsUpto(w)
<1>1. n \in Nat /\ \A k \in 1..n : Width[p[k]] \in Nat
  BY RoutingAssumption, LenProperties, ElementOfSeq
<1>2. PICK w : IsRunningSum(w, d, n)
  <2> HIDE DEF n, d
  <2> QED BY <1>1, RunningSumExists
<1>3. IsUpto(w)
  <2>1. \A k \in 0..n : k # 0 => k \in 1..n /\ d[k] = Width[p[k]]
    BY <1>1
  <2> HIDE DEF n, d
  <2> QED BY <1>2, <2>1 DEF IsRunningSum
<1>4. IsUpto(upto)
  <2> HIDE DEF IsUpto
  <2> QED BY <1>3
<1>5. Size(p) = upto[n]
  BY Zenon DEF Size
<1> HIDE DEF upto, n
<1> DEFINE Bad == {k \in 0..n : upto[k] \notin Nat}
<1>6. upto[0] = 0 /\ \A k \in 1..n : upto[k] = upto[k - 1] + Width[p[k]]
  <2>1. 0 \in 0..n /\ \A k \in 1..n : k \in 0..n /\ k # 0
    BY <1>1
  <2> QED BY <1>4, <2>1
<1> HIDE DEF IsUpto
<1>7. ASSUME Bad # {} PROVE FALSE
  <2>1. Bad \in SUBSET Nat
    BY <1>1
  <2>2. PICK m \in Bad : \A k \in Bad : m <= k
    <3> HIDE DEF Bad
    <3> QED BY <1>7, <2>1, LeastNumber
  <2>3. m \in 0..n /\ upto[m] \notin Nat /\ m # 0
    BY <1>6
  <2>4. m \in 1..n /\ m - 1 \in 0..n /\ ~(m <= m - 1)
    BY <1>1, <2>3
  <2>5. upto[m - 1] \in Nat
    BY <2>2, <2>4
  <2> QED BY <1>1, <1>6, <2>3, <2>4, <2>5
<1>8. n \in 0..n
  BY <1>1
<1> QED BY <1>5, <1>7, <1>8

(* operator< is a strict order of all paths.                                   *)
LEMMA BeforeOrders ==
    ASSUME NEW p \in Seq(Range(Letters)), NEW q \in Seq(Range(Letters)), NEW r \in Seq(Range(Letters))
    PROVE  /\ ~Before(p, p)
           /\ Before(p, q) /\ Before(q, r) => Before(p, r)
           /\ p # q => Before(p, q) \/ Before(q, p)
<1>1. /\ Len(p) \in Nat /\ \A i \in 1..Len(p) : p[i] \in Range(Letters) /\ Rank(p[i]) \in Nat
      /\ Len(q) \in Nat /\ \A i \in 1..Len(q) : q[i] \in Range(Letters) /\ Rank(q[i]) \in Nat
      /\ Len(r) \in Nat /\ \A i \in 1..Len(r) : r[i] \in Range(Letters) /\ Rank(r[i]) \in Nat
  BY LenProperties, ElementOfSeq, RanksDiffer
<1>2. ~Before(p, p)
  BY <1>1 DEF Before
<1>3. ASSUME Before(p, q), Before(q, r) PROVE Before(p, r)
  <2>1. PICK k \in 1..(Len(p) + 1) : /\ k <= Len(q) /\ \A j \in 1..(k - 1) : p[j] = q[j]
                                     /\ k = Len(p) + 1 \/ Rank(p[k]) < Rank(q[k])
    BY <1>3 DEF Before
  <2>2. PICK m \in 1..(Len(q) + 1) : /\ m <= Len(r) /\ \A j \in 1..(m - 1) : q[j] = r[j]
                                     /\ m = Len(q) + 1 \/ Rank(q[m]) < Rank(r[m])
    BY <1>3 DEF Before
  <2> DEFINE x == IF k <= m THEN k ELSE m
  <2>3. x \in 1..(Len(p) + 1) /\ x <= Len(r)
    BY <1>1, <2>1, <2>2
  <2>4. \A j \in 1..(x - 1) : p[j] = r[j]
    BY <1>1, <2>1, <2>2
  <2>5. x = Len(p) + 1 \/ Rank(p[x]) < Rank(r[x])
    <3>1. CASE k < m
      <4>1. x = k /\ k \in 1..(m - 1) /\ q[k] = r[k]
        BY <1>1, <2>1, <2>2, <3>1
      <4> QED BY <2>1, <4>1
    <3>2. CASE k = m
      <4>1. x = k /\ k # Len(q) + 1 /\ k \in 1..Len(q) /\ k \in 1..Len(r)
        BY <1>1, <2>1, <2>2, <3>2
      <4>2. CASE k = Len(p) + 1
        BY <4>1, <4>2
      <4>3. CASE k # Len(p) + 1
        <5>1. k \in 1..Len(p) /\ Rank(p[k]) < Rank(q[k]) /\ Rank(q[k]) < Rank(r[k])
          BY <1>1, <2>1, <2>2, <3>2, <4>1, <4>3
        <5>2. Rank(p[k]) \in Nat /\ Rank(q[k]) \in Nat /\ Rank(r[k]) \in Nat
          BY <1>1, <4>1, <5>1
        <5> QED BY <4>1, <5>1, <5>2
      <4> QED BY <4>2, <4>3
    <3>3. CASE m < k
      <4>1. x = m /\ m \in 1..(k - 1) /\ p[m] = q[m] /\ m # Len(q) + 1
        BY <1>1, <2>1, <2>2, <3>3
      <4> QED BY <2>2, <4>1
    <3> QED BY <1>1, <2>1, <2>2, <3>1, <3>2, <3>3
  <2> HIDE DEF x
  <2> QED BY <2>3, <2>4, <2>5 DEF Before
<1>4. ASSUME p # q PROVE Before(p, q) \/ Before(q, p)
  <2> DEFINE D == {k \in Nat : k > 0 /\ (k > Len(p) \/ k > Len(q) \/ p[k] # q[k])}
  <2>1. Len(p) + 1 \in D
    BY <1>1
  <2>2. PICK k \in D : \A j \in D : k <= j
    <3>1. D \in SUBSET Nat
      OBVIOUS
    <3> HIDE DEF D
    <3> QED BY <2>1, <3>1, LeastNumber
  <2>3. k \in Nat /\ k > 0 /\ (k > Len(p) \/ k > Len(q) \/ p[k] # q[k])
    OBVIOUS
  <2>4. ASSUME NEW j \in 1..(k - 1) PROVE j <= Len(p) /\ j <= Len(q) /\ p[j] = q[j]
    <3>1. j \notin D
      <4>1. ~(k <= j)
        BY <2>3
      <4> HIDE DEF D
      <4> QED BY <2>2, <4>1
    <3> QED BY <1>1, <2>3, <3>1
  <2> HIDE DEF D
  <2>5. k <= Len(p) + 1 /\ k <= Len(q) + 1
    <3>1. ASSUME k > Len(p) + 1 PROVE FALSE
      <4>1. Len(p) + 1 \in 1..(k - 1)
        BY <1>1, <2>3, <3>1
      <4> QED BY <1>1, <2>4, <4>1
    <3>2. ASSUME k > Len(q) + 1 PROVE FALSE
      <4>1. Len(q) + 1 \in 1..(k - 1)
        BY <1>1, <2>3, <3>2
      <4> QED BY <1>1, <2>4, <4>1
    <3> QED BY <1>1, <2>3, <3>1, <3>2
  <2>6. ~(k = Len(p) + 1 /\ k = Len(q) + 1)
    <3>1. SUFFICES ASSUME k = Len(p) + 1, k = Len(q) + 1 PROVE FALSE
      OBVIOUS
    <3>2. Len(p) = Len(q) /\ \A i \in 1..Len(p) : p[i] = q[i]
      BY <1>1, <2>4, <3>1
    <3> QED BY <1>4, <3>2, SeqEqual
  <2>7. k \in 1..(Len(p) + 1) /\ k \in 1..(Len(q) + 1)
    BY <1>1, <2>3, <2>5
  <2>8. CASE k = Len(p) + 1
    <3>1. k <= Len(q)
      BY <1>1, <2>5, <2>6, <2>8
    <3> QED BY <2>4, <2>7, <2>8, <3>1 DEF Before
  <2>9. CASE k = Len(q) + 1
    <3>1. k <= Len(p)
      BY <1>1, <2>5, <2>6, <2>9
    <3> QED BY <2>4, <2>7, <2>9, <3>1 DEF Before
  <2>10. CASE k # Len(p) + 1 /\ k # Len(q) + 1
    <3>1. k \in 1..Len(p) /\ k \in 1..Len(q) /\ p[k] # q[k]
      BY <1>1, <2>3, <2>5, <2>10
    <3>2. Rank(p[k]) # Rank(q[k]) /\ Rank(p[k]) \in Nat /\ Rank(q[k]) \in Nat
      BY <1>1, <3>1, RanksDiffer
    <3>3. Rank(p[k]) < Rank(q[k]) \/ Rank(q[k]) < Rank(p[k])
      BY <3>2
    <3>4. k <= Len(p) /\ k <= Len(q)
      BY <3>1
    <3> QED BY <2>4, <2>7, <3>3, <3>4 DEF Before
  <2> QED BY <2>8, <2>9, <2>10
<1> QED BY <1>2, <1>3, <1>4

(* So is the precedence of wildcards, the longer one first.                    *)
LEMMA BetterOrders ==
    ASSUME NEW p \in Seq(Range(Letters)), NEW q \in Seq(Range(Letters)), NEW r \in Seq(Range(Letters))
    PROVE  /\ ~Better(p, p)
           /\ Better(p, q) /\ Better(q, r) => Better(p, r)
           /\ p # q => Better(p, q) \/ Better(q, p)
<1>1. Size(p) \in Nat /\ Size(q) \in Nat /\ Size(r) \in Nat
  BY SizeIsNumber
<1>2. /\ ~Before(p, p)
      /\ Before(p, q) /\ Before(q, r) => Before(p, r)
      /\ p # q => Before(p, q) \/ Before(q, p)
  BY BeforeOrders
<1> QED BY <1>1, <1>2 DEF Better

(* Of finitely many wildcards one is better than all others.                   *)
LEMMA OneIsBest ==
    ASSUME NEW S \in SUBSET Seq(Range(Letters)), IsFiniteSet(S), S # {}
    PROVE  \E w \in S : \A v \in S \ {w} : Better(w, v)
<1> DEFINE Has(X) == \E w \in X : \A v \in X \ {w} : Better(w, v)
           Bad == {X \in SUBSET S : X # {} /\ ~Has(X)}
<1>1. ASSUME Bad # {} PROVE FALSE
  <2>1. PICK X \in Bad : \A Y \in SUBSET X : Y # X => Y \notin Bad
    <3>1. Bad \in SUBSET (SUBSET S)
      OBVIOUS
    <3> HIDE DEF Bad
    <3> QED BY <1>1, <3>1, SmallestSet
  <2>2. X \in SUBSET S /\ X # {} /\ ~Has(X)
    OBVIOUS
  <2>3. PICK x \in X : TRUE
    BY <2>2
  <2> DEFINE Y == X \ {x}
  <2>4. Y \in SUBSET S /\ Y \in SUBSET X /\ Y # X
    BY <2>2, <2>3
  <2>5. Y # {} => Has(Y)
    <3>1. Y \notin Bad
      <4> HIDE DEF Bad, Y
      <4> QED BY <2>1, <2>4
    <3> HIDE DEF Has
    <3> QED BY <2>4, <3>1
  <2>6. CASE Y = {}
    <3>1. X \ {x} = {}
      BY <2>6
    <3> QED BY <2>2, <2>3, <3>1
  <2>7. CASE Y # {}
    <3>1. PICK w \in Y : \A v \in Y \ {w} : Better(w, v)
      BY <2>5, <2>7
    <3>2. w \in X /\ x \in X /\ w # x /\ w \in Seq(Range(Letters)) /\ x \in Seq(Range(Letters))
      BY <2>2, <2>3, <3>1
    <3>3. CASE Better(w, x)
      <4>1. \A v \in X \ {w} : Better(w, v)
        BY <3>1, <3>3
      <4> QED BY <2>2, <3>2, <4>1
    <3>4. CASE Better(x, w)
      <4>1. \A v \in X \ {x} : v = w \/ (v \in Y \ {w} /\ Better(w, v) /\ v \in Seq(Range(Letters)))
        BY <2>2, <3>1
      <4>2. \A v \in X \ {x} : Better(x, v)
        BY <3>2, <3>4, <4>1, BetterOrders
      <4> QED BY <2>2, <2>3, <4>2
    <3> QED BY <3>2, <3>3, <3>4, BetterOrders
  <2> QED BY <2>6, <2>7
<1> QED BY <1>1

Matching(rules, path) == {w \in rules : Wild(w) /\ matchWildcard(w, path)}

LEMMA BestIsBest ==
    ASSUME NEW rules \in SUBSET (Seq(Range(Letters)) \ {None}), IsFiniteSet(rules), NEW path
    PROVE  /\ Matching(rules, path) = {} => Best(rules, path) = None
           /\ Matching(rules, path) # {} =>
                /\ Best(rules, path) \in Matching(rules, path) /\ Best(rules, path) # None
                /\ \A v \in Matching(rules, path) \ {Best(rules, path)} : Better(Best(rules, path), v)
<1> DEFINE match == Matching(rules, path)
<1>1. match \subseteq rules /\ match \in SUBSET Seq(Range(Letters)) /\ None \notin match
  BY DEF Matching
<1>2. IsFiniteSet(match)
  BY <1>1, FS_Subset
<1>3. Best(rules, path) = IF match = {} THEN None ELSE CHOOSE w \in match : \A v \in match \ {w} : Better(w, v)
  BY DEF Best, Matching
<1> HIDE DEF match
<1>4. match # {} => \E w \in match : \A v \in match \ {w} : Better(w, v)
  BY <1>1, <1>2, OneIsBest
<1>5. match # {} => /\ Best(rules, path) \in match
                    /\ \A v \in match \ {Best(rules, path)} : Better(Best(rules, path), v)
  BY <1>3, <1>4
<1> QED BY <1>1, <1>3, <1>5 DEF match

--------------------------------------------------------------------------------
(* What the registries hold: finitely many rules, of the patterns there are.   *)
RegistriesFit ==
    /\ languages \in Seq(Speech) /\ firstMade \in BOOLEAN
    /\ DOMAIN redirects \subseteq Sources /\ IsFiniteSet(DOMAIN redirects)
    /\ \A s \in DOMAIN redirects : redirects[s] \in Targets
    /\ routes \in SUBSET (Kinds \X Patterns) /\ IsFiniteSet(routes)
    /\ gates \in SUBSET (Kinds \X Patterns) /\ IsFiniteSet(gates)

LEMMA OneMoreRule ==
    ASSUME NEW registry \in SUBSET (Kinds \X Patterns), IsFiniteSet(registry),
           NEW kind \in Kinds, NEW pattern \in Patterns
    PROVE  /\ registry \cup {<<kind, pattern>>} \in SUBSET (Kinds \X Patterns)
           /\ IsFiniteSet(registry \cup {<<kind, pattern>>})
<1>1. IsFiniteSet(registry \cup {<<kind, pattern>>})
  BY FS_AddElement
<1>2. <<kind, pattern>> \in Kinds \X Patterns
  OBVIOUS
<1> QED BY <1>1, <1>2

LEMMA RegistriesStayFit == RegistriesFit /\ [RoutingNext]_routingVars => RegistriesFit'
<1> SUFFICES ASSUME RegistriesFit, [RoutingNext]_routingVars PROVE RegistriesFit'
  OBVIOUS
<1>1. ASSUME NEW from \in Sources, NEW to \in Targets, addRedirect(from, to) PROVE RegistriesFit'
  <2> DEFINE added == With(redirects, from, to)
             kept  == Without(added, from)
  <2>1. redirects' = added \/ redirects' = kept
    BY <1>1 DEF addRedirect
  <2>2. /\ DOMAIN added = DOMAIN redirects \cup {from} /\ DOMAIN kept = DOMAIN added \ {from}
        /\ \A s \in DOMAIN added : added[s] \in Targets
        /\ \A s \in DOMAIN kept : kept[s] = added[s]
    BY DEF With, Without, RegistriesFit
  <2>3. IsFiniteSet(DOMAIN added)
    BY <2>2, FS_AddElement DEF RegistriesFit
  <2>4. IsFiniteSet(DOMAIN kept)
    BY <2>2, <2>3, FS_Subset
  <2>5. DOMAIN added \subseteq Sources /\ DOMAIN kept \subseteq Sources
    BY <2>2 DEF RegistriesFit
  <2> HIDE DEF added, kept
  <2>6. /\ DOMAIN redirects' \subseteq Sources /\ IsFiniteSet(DOMAIN redirects')
        /\ \A s \in DOMAIN redirects' : redirects'[s] \in Targets
    BY <2>1, <2>2, <2>3, <2>4, <2>5
  <2> QED BY <1>1, <2>6 DEF addRedirect, RegistriesFit
<1>2. ASSUME NEW kind \in Kinds, NEW p \in Patterns, NEW gateKind \in Kinds \cup {"none"},
             addRoute(kind, p, gateKind)
      PROVE  RegistriesFit'
  <2>1. routes' \in SUBSET (Kinds \X Patterns) /\ IsFiniteSet(routes')
    BY <1>2, OneMoreRule DEF RegistriesFit, addRoute
  <2>2. gates' \in SUBSET (Kinds \X Patterns) /\ IsFiniteSet(gates')
    <3>1. CASE gateKind = "none"
      BY <1>2, <3>1 DEF RegistriesFit, addRoute
    <3>2. CASE gateKind # "none"
      <4>1. gateKind \in Kinds /\ gates' = gates \cup {<<gateKind, p>>}
        BY <1>2, <3>2 DEF addRoute
      <4> QED BY <4>1, OneMoreRule DEF RegistriesFit
    <3> QED BY <3>1, <3>2
  <2> QED BY <1>2, <2>1, <2>2 DEF RegistriesFit, addRoute
<1>3. ASSUME NEW k \in Kinds, NEW p \in Patterns, addGate(k, p) PROVE RegistriesFit'
  <2>1. gates' \in SUBSET (Kinds \X Patterns) /\ IsFiniteSet(gates')
    BY <1>3, OneMoreRule DEF RegistriesFit, addGate
  <2> QED BY <1>3, <2>1 DEF RegistriesFit, addGate
<1>4. ASSUME NEW p \in Patterns, removeGate(p) PROVE RegistriesFit'
  <2>1. gates' \subseteq gates
    BY <1>4 DEF removeGate
  <2>2. IsFiniteSet(gates')
    BY <2>1, FS_Subset DEF RegistriesFit
  <2> QED BY <1>4, <2>1, <2>2 DEF RegistriesFit, removeGate
<1>5. ASSUME clearGates PROVE RegistriesFit'
  BY <1>5, FS_EmptySet DEF clearGates, RegistriesFit
<1>6. ASSUME NEW l \in Speech, setAvailableLanguages(<<l>>) PROVE RegistriesFit'
  BY <1>6 DEF setAvailableLanguages, RegistriesFit
<1>7. CASE UNCHANGED routingVars
  BY <1>7 DEF routingVars, RegistriesFit
<1> QED BY <1>1, <1>2, <1>3, <1>4, <1>5, <1>6, <1>7 DEF RoutingNext, Kinds

LEMMA RegistriesInitially == RoutingInit => RegistriesFit
<1> SUFFICES ASSUME RoutingInit PROVE RegistriesFit
  OBVIOUS
<1>1. languages \in Seq(Speech)
  <2>1. languages = << >> \/ \E l \in Speech : languages = <<l>>
    BY DEF RoutingInit
  <2>2. << >> \in Seq(Speech) /\ \A l \in Speech : <<l>> \in Seq(Speech)
    BY EmptySeq
  <2> QED BY <2>1, <2>2
<1>2. DOMAIN redirects = {}
  BY DEF RoutingInit
<1> QED BY <1>1, <1>2, FS_EmptySet DEF RoutingInit, RegistriesFit
--------------------------------------------------------------------------------
(* The gates: the lookup returns the first pattern in the documented order.    *)

LEMMA GuardedFit == RegistriesFit => Guarded \in SUBSET Patterns /\ IsFiniteSet(Guarded)
<1> SUFFICES ASSUME RegistriesFit PROVE Guarded \in SUBSET Patterns /\ IsFiniteSet(Guarded)
  OBVIOUS
<1> DEFINE f == [g \in gates |-> g[2]]
<1>1. f \in Surjection(gates, Guarded)
  BY DEF Surjection, Guarded
<1>2. IsFiniteSet(Guarded)
  <2> HIDE DEF f
  <2> QED BY <1>1, FS_Surjection DEF RegistriesFit
<1> QED BY <1>2 DEF Guarded, RegistriesFit

LEMMA OfFits ==
    ASSUME NEW registry \in SUBSET (Kinds \X Patterns), IsFiniteSet(registry), NEW kind
    PROVE  Of(kind, registry) \in SUBSET Patterns /\ IsFiniteSet(Of(kind, registry))
<1> DEFINE R == {g \in registry : g[1] = kind}
           f == [g \in R |-> g[2]]
<1>1. IsFiniteSet(R)
  BY FS_Subset
<1>2. f \in Surjection(R, Of(kind, registry))
  BY DEF Surjection, Of
<1>3. IsFiniteSet(Of(kind, registry))
  <2> HIDE DEF f, R
  <2> QED BY <1>1, <1>2, FS_Surjection
<1> QED BY <1>3 DEF Of

(* p stands before q in one registry.                                          *)
Ahead(p, q) ==
    \/ ~Wild(p) /\ Wild(q)
    \/ /\ Wild(p) = Wild(q)
       /\ Size(p) > Size(q) \/ (Size(p) = Size(q) /\ Before(p, q))

LEMMA AtIsFirst ==
    ASSUME NEW rules \in SUBSET Patterns, IsFiniteSet(rules), NEW path
    PROVE  /\ At(rules, path) = None => \A p \in rules : ~matchesWildcardPattern(p, path)
           /\ At(rules, path) # None =>
                /\ At(rules, path) \in rules /\ matchesWildcardPattern(At(rules, path), path)
                /\ \A p \in rules \ {At(rules, path)} :
                     matchesWildcardPattern(p, path) => Ahead(At(rules, path), p)
<1>1. rules \in SUBSET (Seq(Range(Letters)) \ {None})
  BY RoutingAssumption
<1> DEFINE match == Matching(rules, path)
           best  == Best(rules, path)
<1>2. /\ match = {} => best = None
      /\ match # {} => best \in match /\ best # None /\ \A v \in match \ {best} : Better(best, v)
  BY <1>1, BestIsBest
<1>3. \A p : p \in match <=> p \in rules /\ Wild(p) /\ matchWildcard(p, path)
  BY DEF Matching
<1> HIDE DEF match, best
<1>4. CASE Exact(rules, path)
  <2>1. At(rules, path) = path /\ path \in rules /\ ~Wild(path) /\ path # None
    BY <1>1, <1>4 DEF At, Exact
  <2>2. matchesWildcardPattern(path, path)
    BY <2>1 DEF matchesWildcardPattern
  <2>3. ASSUME NEW p \in rules \ {path}, matchesWildcardPattern(p, path) PROVE Ahead(path, p)
    BY <2>1, <2>3 DEF matchesWildcardPattern, Ahead
  <2> QED BY <2>1, <2>2, <2>3
<1>5. CASE ~Exact(rules, path)
  <2>1. At(rules, path) = best
    BY <1>5 DEF At, best
  <2>2. \A p \in rules : matchesWildcardPattern(p, path) => p \in match /\ Wild(p)
    BY <1>3, <1>5 DEF matchesWildcardPattern, Exact
  <2>3. match # {} => matchesWildcardPattern(best, path) /\ best \in rules /\ Wild(best)
    BY <1>2, <1>3 DEF matchesWildcardPattern
  <2>4. CASE match = {}
    BY <1>2, <2>1, <2>2, <2>4
  <2>5. CASE match # {}
    <3>1. ASSUME NEW p \in rules \ {best}, matchesWildcardPattern(p, path) PROVE Ahead(best, p)
      <4>1. p \in match \ {best} /\ Wild(p) /\ Wild(best)
        BY <2>2, <2>3, <2>5, <3>1
      <4>2. Better(best, p)
        BY <1>2, <2>5, <4>1
      <4> QED BY <4>1, <4>2 DEF Better, Ahead
    <3> QED BY <1>2, <2>1, <2>3, <2>5, <3>1
  <2> QED BY <2>4, <2>5
<1> QED BY <1>4, <1>5

LEMMA GatesInOrder == RegistriesFit => GatePrecedence
<1> SUFFICES ASSUME RegistriesFit, NEW p \in Paths
             PROVE  LET match == {r \in Rules(p) : Applies(r, p)} IN
                    IF match = {} THEN ~Gated(p)
                    ELSE \E r \in match : /\ Resolved(p) = <<r.kind, r.pattern>>
                                          /\ \A o \in match \ {r} : Precedes(r, o)
  BY DEF GatePrecedence
<1> DEFINE match == {r \in Rules(p) : Applies(r, p)}
           c == canonicalRequestPath(p)
           s == stripSupportedLanguagePrefix(c)
           b == At(Guarded, c) = None /\ Prefixed(c)
           pattern == Lookup(Guarded, c)
           kind == IF <<"async", pattern>> \in gates THEN "async" ELSE "sync"
           first == [bare |-> b, kind |-> kind, pattern |-> pattern]
<1>1. Guarded \in SUBSET Patterns /\ IsFiniteSet(Guarded)
  BY GuardedFit
<1>2. \A x : /\ At(Guarded, x) = None => \A q \in Guarded : ~matchesWildcardPattern(q, x)
             /\ At(Guarded, x) # None =>
                  /\ At(Guarded, x) \in Guarded /\ matchesWildcardPattern(At(Guarded, x), x)
                  /\ \A q \in Guarded \ {At(Guarded, x)} :
                       matchesWildcardPattern(q, x) => Ahead(At(Guarded, x), q)
  BY <1>1, AtIsFirst
<1>3. Resolved(p) = <<kind, pattern>> /\ (Gated(p) <=> pattern # None)
  BY DEF Resolved, Gated
<1>4. pattern = IF b THEN At(Guarded, s) ELSE At(Guarded, c)
  BY DEF Lookup
<1>5. \A r : r \in match <=>
        \E o \in BOOLEAN, g \in gates :
          /\ r = [bare |-> o, kind |-> g[1], pattern |-> g[2]]
          /\ o => Prefixed(c)
          /\ matchesWildcardPattern(g[2], IF o THEN s ELSE c)
  BY DEF Rules, Applies
<1>6. \A g \in gates : g = <<g[1], g[2]>> /\ g[1] \in Kinds /\ g[2] \in Guarded
  BY DEF Guarded, RegistriesFit
<1>7. b \in BOOLEAN /\ (b => Prefixed(c))
  OBVIOUS
<1> HIDE DEF match
<1>8. CASE pattern = None
  <2>1. match = {}
    <3> SUFFICES ASSUME NEW r \in match PROVE FALSE
      OBVIOUS
    <3>1. PICK o \in BOOLEAN, g \in gates : /\ o => Prefixed(c)
                                            /\ matchesWildcardPattern(g[2], IF o THEN s ELSE c)
      BY <1>5
    <3>2. At(Guarded, c) = None /\ (Prefixed(c) => At(Guarded, s) = None)
      BY <1>4, <1>8
    <3> HIDE DEF c, s, pattern
    <3> QED BY <1>2, <1>6, <3>1, <3>2
  <2> QED BY <1>3, <1>8, <2>1 DEF match
<1>9. CASE pattern # None
  <2>1. /\ pattern \in Guarded /\ matchesWildcardPattern(pattern, IF b THEN s ELSE c)
        /\ \A q \in Guarded \ {pattern} :
             matchesWildcardPattern(q, IF b THEN s ELSE c) => Ahead(pattern, q)
    <3> HIDE DEF c, s, b, pattern
    <3> QED BY <1>2, <1>4, <1>9
  <2>2. <<kind, pattern>> \in gates /\ kind \in Kinds
    <3>1. PICK g \in gates : g[2] = pattern
      BY <2>1 DEF Guarded
    <3> HIDE DEF c, s, b, pattern
    <3> QED BY <1>6, <3>1 DEF Kinds
  <2>3. first \in match
    <3>1. <<kind, pattern>>[1] = kind /\ <<kind, pattern>>[2] = pattern
      OBVIOUS
    <3> HIDE DEF c, s, b, pattern, kind
    <3> QED BY <1>5, <1>7, <2>1, <2>2, <3>1
  <2>4. ASSUME NEW r \in match \ {first} PROVE Precedes(first, r)
    <3>1. PICK o \in BOOLEAN, g \in gates : /\ r = [bare |-> o, kind |-> g[1], pattern |-> g[2]]
                                            /\ o => Prefixed(c)
                                            /\ matchesWildcardPattern(g[2], IF o THEN s ELSE c)
      BY <1>5
    <3>2. b => At(Guarded, c) = None
      OBVIOUS
    <3>3. kind = IF <<"async", pattern>> \in gates THEN "async" ELSE "sync"
      OBVIOUS
    <3> HIDE DEF c, s, b, pattern, kind
    <3>4. first.bare = b /\ first.kind = kind /\ first.pattern = pattern
      OBVIOUS
    <3>5. r.bare = o /\ r.kind = g[1] /\ r.pattern = g[2]
      BY <3>1
    <3>6. CASE o # b
      <4>1. b => FALSE
        BY <1>2, <1>6, <3>1, <3>2, <3>6
      <4> QED BY <1>7, <3>4, <3>5, <3>6, <4>1 DEF Precedes
    <3>7. CASE o = b /\ g[2] # pattern
      <4>1. Ahead(pattern, g[2])
        BY <1>6, <2>1, <3>1, <3>7
      <4> HIDE DEF first
      <4> QED BY <3>4, <3>5, <3>7, <4>1 DEF Precedes, Ahead
    <3>8. CASE o = b /\ g[2] = pattern
      <4>1. g[1] # kind
        BY <3>1, <3>8
      <4>2. kind = "async" /\ g[1] = "sync"
        BY <1>6, <3>3, <3>8, <4>1 DEF Kinds
      <4> HIDE DEF first
      <4> QED BY <3>4, <3>5, <3>8, <4>2 DEF Precedes
    <3> QED BY <3>6, <3>7, <3>8
  <2> HIDE DEF c, s, b
  <2>5. first.kind = kind /\ first.pattern = pattern
    OBVIOUS
  <2> HIDE DEF first
  <2> QED BY <1>3, <2>3, <2>4, <2>5 DEF match
<1> QED BY <1>8, <1>9
--------------------------------------------------------------------------------
(* Routes are looked up in two registries, gates in one of both kinds.         *)

LEMMA AtOfEither ==
    ASSUME NEW A \in SUBSET Patterns, NEW S \in SUBSET Patterns, IsFiniteSet(A), IsFiniteSet(S), NEW x
    PROVE  /\ At(A \cup S, x) = None => At(A, x) = None /\ At(S, x) = None
           /\ At(A \cup S, x) # None => At(A \cup S, x) \in {At(A, x), At(S, x)}
<1> DEFINE U == A \cup S
<1>1. U \in SUBSET Patterns /\ IsFiniteSet(U)
  BY FS_Union
<1>2. /\ A \in SUBSET (Seq(Range(Letters)) \ {None}) /\ S \in SUBSET (Seq(Range(Letters)) \ {None})
      /\ U \in SUBSET (Seq(Range(Letters)) \ {None})
  BY RoutingAssumption
<1>3. ASSUME NEW B \in SUBSET U, IsFiniteSet(B)
      PROVE  /\ At(U, x) = None => At(B, x) = None
             /\ At(U, x) # None /\ At(U, x) \in B => At(U, x) = At(B, x)
  <2>1. B \in SUBSET Patterns /\ B \in SUBSET (Seq(Range(Letters)) \ {None})
    BY <1>1, <1>2
  <2>2. ASSUME At(U, x) = None, At(B, x) # None PROVE FALSE
    <3>1. At(B, x) \in B /\ matchesWildcardPattern(At(B, x), x)
      BY <1>3, <2>1, <2>2, AtIsFirst
    <3>2. At(B, x) \in U
      BY <3>1
    <3> HIDE DEF U
    <3> QED BY <1>1, <2>2, <3>1, <3>2, AtIsFirst
  <2>3. ASSUME At(U, x) # None, At(U, x) \in B PROVE At(U, x) = At(B, x)
    <3>1. CASE Exact(U, x)
      <4>1. At(U, x) = x /\ ~Wild(x)
        BY <3>1 DEF At, Exact
      <4> QED BY <2>3, <4>1 DEF At, Exact
    <3>2. CASE ~Exact(U, x)
      <4>1. At(U, x) = Best(U, x) /\ At(B, x) = Best(B, x)
        BY <3>2 DEF At, Exact
      <4>2. Matching(B, x) \subseteq Matching(U, x)
        BY DEF Matching
      <4> HIDE DEF U
      <4>3. Matching(U, x) # {}
        BY <1>1, <1>2, <2>3, <4>1, BestIsBest
      <4>4. /\ Best(U, x) \in Matching(U, x)
            /\ \A v \in Matching(U, x) \ {Best(U, x)} : Better(Best(U, x), v)
        BY <1>1, <1>2, <4>3, BestIsBest
      <4>5. Best(U, x) \in Matching(B, x)
        BY <2>3, <4>1, <4>4 DEF Matching
      <4>6. /\ Best(B, x) \in Matching(B, x)
            /\ \A v \in Matching(B, x) \ {Best(B, x)} : Better(Best(B, x), v)
        BY <1>3, <2>1, <4>5, BestIsBest
      <4>7. ASSUME Best(U, x) # Best(B, x) PROVE FALSE
        <5>1. Better(Best(U, x), Best(B, x)) /\ Better(Best(B, x), Best(U, x))
          BY <4>2, <4>4, <4>5, <4>6, <4>7
        <5>2. Best(U, x) \in Seq(Range(Letters)) /\ Best(B, x) \in Seq(Range(Letters))
          BY <1>2, <4>2, <4>4, <4>6 DEF Matching
        <5> QED BY <5>1, <5>2, BetterOrders
      <4> QED BY <4>1, <4>7
    <3> QED BY <3>1, <3>2
  <2> QED BY <2>2, <2>3
<1>4. At(U, x) # None => At(U, x) \in U
  <2> HIDE DEF U
  <2> QED BY <1>1, AtIsFirst
<1>5. A \in SUBSET U /\ S \in SUBSET U
  OBVIOUS
<1> QED BY <1>3, <1>4, <1>5

LEMMA GateFitsRoute == RegistriesFit => GateOfRoute
<1> SUFFICES ASSUME RegistriesFit, Guarded = {r[2] : r \in routes}, NEW p \in Paths
             PROVE  \/ Resolved(p)[2] = Dispatched(p)[2]
                    \/ Dispatched(p)[1] = "async" /\ Resolved(p)[2] = findMatchingRoute("sync", p)
  BY DEF GateOfRoute
<1> DEFINE A == Of("async", routes)
           S == Of("sync", routes)
           c == canonicalRequestPath(p)
           s == stripSupportedLanguagePrefix(c)
<1>1. A \in SUBSET Patterns /\ S \in SUBSET Patterns /\ IsFiniteSet(A) /\ IsFiniteSet(S)
  BY OfFits DEF RegistriesFit
<1>2. Guarded = A \cup S
  BY DEF RegistriesFit, Of, Kinds
<1>3. Resolved(p)[2] = Lookup(A \cup S, c)
  BY <1>2 DEF Resolved
<1>4. /\ findMatchingRoute("async", p) = Lookup(A, c) /\ findMatchingRoute("sync", p) = Lookup(S, c)
      /\ Dispatched(p) = IF Lookup(A, c) # None THEN <<"async", Lookup(A, c)>>
                         ELSE <<"sync", Lookup(S, c)>>
  BY DEF Dispatched, findMatchingRoute
<1> HIDE DEF A, S, c
<1>5. \A x : /\ At(A \cup S, x) = None => At(A, x) = None /\ At(S, x) = None
             /\ At(A \cup S, x) # None => At(A \cup S, x) \in {At(A, x), At(S, x)}
  BY <1>1, AtOfEither
<1>6. Lookup(A \cup S, c) \in {Lookup(A, c), Lookup(S, c)}
  BY <1>5 DEF Lookup
<1>7. Lookup(A, c) = None => Lookup(A \cup S, c) = Lookup(S, c)
  BY <1>5 DEF Lookup
<1> QED BY <1>3, <1>4, <1>6, <1>7

--------------------------------------------------------------------------------
(* The spellings of a page.  A path that ends in ".html" has a name before it,
   which is not that of a language: "/a.html", "/en/a.html", but neither
   "/a/.html" nor "/en.html".                                                  *)
PagesAreNamed ==
    \A p \in Paths :
        /\ p[1] = "/"
        /\ p[Len(p)] = ".html" => p[Len(p) - 1] # "/" /\ ~(Len(p) = 3 /\ p[2] \in Speech)

\* The part of a path that canonicalRequestPath() keeps, and the name of a page.
Keeps(p, n) == /\ n \in 1..Len(p) /\ \A j \in (n + 1)..Len(p) : p[j] = "/"
               /\ n = 1 \/ p[n] # "/"
PageName(p) == IF p[Len(p)] = ".html" THEN SubSeq(p, 1, Len(p) - 1) ELSE p

Texts == Range(Letters) \cup {"/", "html", ".html", "assets", "images", "css", "index"}

LEMMA ShortTexts ==
    ASSUME NEW a \in Texts, NEW b \in Texts, NEW c \in Texts, NEW d \in Texts
    PROVE  <<a>> \in Seq(Texts) /\ <<a, b>> \in Seq(Texts) /\ <<a, b, c, d>> \in Seq(Texts)
<1>1. <<a>> \in Seq(Texts)
  OBVIOUS
<1>2. <<a, b>> \in Seq(Texts)
  OBVIOUS
<1>3. <<a, b, c, d>> \in Seq(Texts)
  OBVIOUS
<1> QED BY <1>1, <1>2, <1>3

LEMMA Joined ==
    ASSUME NEW a \in Seq(Texts), NEW b \in Seq(Texts), NEW c \in Seq(Texts)
    PROVE  (a \o b) \o c = a \o (b \o c)
  BY ConcatAssociative

LEMMA KeepsOnce ==
    ASSUME NEW p \in Seq(Texts), p # None
    PROVE  /\ \E n : Keeps(p, n)
           /\ \A n, m : Keeps(p, n) /\ Keeps(p, m) => n = m
<1>1. Len(p) \in Nat \ {0}
  BY EmptySeq DEF None
<1>2. \A n, m : Keeps(p, n) /\ Keeps(p, m) => n = m
  <2> SUFFICES ASSUME NEW n, NEW m, Keeps(p, n), Keeps(p, m), n # m PROVE FALSE
    OBVIOUS
  <2>1. n \in 1..Len(p) /\ m \in 1..Len(p)
    BY DEF Keeps
  <2>2. n < m \/ m < n
    BY <1>1, <2>1
  <2>3. CASE n < m
    <3>1. m \in (n + 1)..Len(p) /\ m # 1
      BY <1>1, <2>1, <2>3
    <3> QED BY <3>1 DEF Keeps
  <2>4. CASE m < n
    <3>1. n \in (m + 1)..Len(p) /\ n # 1
      BY <1>1, <2>1, <2>4
    <3> QED BY <3>1 DEF Keeps
  <2> QED BY <2>2, <2>3, <2>4
<1>3. \E n : Keeps(p, n)
  <2> DEFINE T == {n \in 1..Len(p) : n = 1 \/ p[n] # "/"}
  <2>1. T \in SUBSET (1..Len(p)) /\ 1 \in T
    BY <1>1
  <2>2. PICK n \in T : \A k \in T : n >= k
    <3> HIDE DEF T
    <3> QED BY <1>1, <2>1, GreatestNumber
  <2>3. n \in 1..Len(p) /\ (n = 1 \/ p[n] # "/")
    OBVIOUS
  <2>4. ASSUME NEW j \in (n + 1)..Len(p) PROVE p[j] = "/"
    <3>1. j \in 1..Len(p) /\ ~(n >= j)
      BY <1>1, <2>3
    <3>2. j \notin T
      <4> HIDE DEF T
      <4> QED BY <2>2, <3>1
    <3> QED BY <3>1, <3>2
  <2> QED BY <2>3, <2>4 DEF Keeps
<1> QED BY <1>2, <1>3

LEMMA CanonicalOf ==
    ASSUME NEW p \in Seq(Texts), p # None, NEW n, Keeps(p, n)
    PROVE  canonicalRequestPath(p) =
             IF n > 1 /\ p[n] = ".html" THEN SubSeq(p, 1, n - 1) ELSE SubSeq(p, 1, n)
<1> DEFINE keep == CHOOSE m \in 1..Len(p) :
                     /\ \A j \in (m + 1)..Len(p) : p[j] = "/"
                     /\ m = 1 \/ p[m] # "/"
<1>1. keep = n
  <2>1. \A m : Keeps(p, m) => m = n
    BY KeepsOnce
  <2>2. \E m \in 1..Len(p) : /\ \A j \in (m + 1)..Len(p) : p[j] = "/"
                             /\ m = 1 \/ p[m] # "/"
    BY DEF Keeps
  <2>3. Keeps(p, keep)
    <3>1. /\ keep \in 1..Len(p) /\ \A j \in (keep + 1)..Len(p) : p[j] = "/"
          /\ keep = 1 \/ p[keep] # "/"
      BY <2>2
    <3> HIDE DEF keep
    <3> QED BY <3>1 DEF Keeps
  <2> HIDE DEF keep
  <2> QED BY <2>1, <2>3
<1>2. canonicalRequestPath(p) =
        IF keep > 1 /\ p[keep] = ".html" THEN Front(SubSeq(p, 1, keep)) ELSE SubSeq(p, 1, keep)
  BY DEF canonicalRequestPath
<1> HIDE DEF keep
<1>3. n \in 1..Len(p) /\ Len(p) \in Nat
  BY LenProperties DEF Keeps
<1>4. \A i \in 1..n : p[i] \in Texts
  BY <1>3, ElementOfSeq
<1>5. /\ SubSeq(p, 1, n) \in Seq(Texts) /\ Len(SubSeq(p, 1, n)) = n
      /\ \A i \in 1..n : SubSeq(p, 1, n)[i] = p[i]
  BY <1>3, <1>4, SubSeqProperties
<1>6. n > 1 => Front(SubSeq(p, 1, n)) = SubSeq(p, 1, n - 1)
  <2> SUFFICES ASSUME n > 1 PROVE Front(SubSeq(p, 1, n)) = SubSeq(p, 1, n - 1)
    OBVIOUS
  <2>1. Front(SubSeq(p, 1, n)) = SubSeq(SubSeq(p, 1, n), 1, n - 1)
    BY <1>5 DEF Front
  <2>2. 1 \in 1..Len(p) /\ n \in 1..Len(p) /\ 1 \in 1..(n - 1 + 1) /\ n - 1 \in 1..(n - 1 + 1)
    BY <1>3
  <2>3. SubSeq(SubSeq(p, 1, n), 1, n - 1) = SubSeq(p, 1 + 1 - 1, 1 + (n - 1) - 1)
    BY <2>2, SubSeqOfSubSeq
  <2> QED BY <1>3, <2>1, <2>3
<1> QED BY <1>1, <1>2, <1>6

LEMMA PathsAreTexts ==
    ASSUME PagesAreNamed, NEW p \in Paths
    PROVE  p \in Seq(Texts) /\ p # None /\ Len(p) \in Nat \ {0} /\ DOMAIN p = 1..Len(p)
<1>1. Range(Letters) \subseteq Texts
  BY DEF Texts
<1>2. p \in Seq(Range(Letters)) /\ p # None
  BY RoutingAssumption
<1>3. p \in Seq(Texts)
  BY <1>1, <1>2, SeqMonotonic
<1> QED BY <1>2, <1>3, EmptySeq, LenProperties DEF None

LEMMA SuffixOf ==
    ASSUME NEW p \in Seq(Texts), p # None
    PROVE  /\ Suffix(p) \in {".html", ".css", ".png", "unknown"}
           /\ Suffix(p) = ".html" /\ p[Len(p)] # ".html" => \A i \in 1..Len(p) : p[i] \notin Dots
           /\ Suffix(p) # ".html" => \E i \in 1..Len(p) : p[i] \in Dots
<1> DEFINE I == {i \in 1..Len(p) : p[i] \in Dots}
           dot == IF I # {} THEN Min(I) ELSE 0
<1>1. Len(p) \in Nat \ {0}
  BY EmptySeq DEF None
<1>2. Suffix(p) = IF dot = 0 THEN ".html" ELSE IF dot = Len(p) THEN p[dot] ELSE "unknown"
  BY DEF Suffix, SelectInSeq
<1>3. I # {} => dot \in I
  <2> SUFFICES ASSUME I # {} PROVE dot \in I
    OBVIOUS
  <2>1. I \in SUBSET Nat
    BY <1>1
  <2>2. \E m \in I : \A k \in I : m <= k
    <3> HIDE DEF I
    <3> QED BY <2>1, LeastNumber
  <2>3. Min(I) = CHOOSE x \in I : \A y \in I : x <= y
    BY DEF Min
  <2> HIDE DEF I
  <2> QED BY <2>2, <2>3
<1>4. I # {} => dot \in 1..Len(p) /\ p[dot] \in Dots
  BY <1>3
<1>5. I = {} => dot = 0 /\ \A i \in 1..Len(p) : p[i] \notin Dots
  OBVIOUS
<1> HIDE DEF I, dot
<1> QED BY <1>1, <1>2, <1>4, <1>5 DEF Dots

LEMMA CanonicalPage ==
    ASSUME PagesAreNamed, NEW p \in Paths, Suffix(p) = ".html", NEW n, Keeps(PageName(p), n)
    PROVE  canonicalRequestPath(p) = SubSeq(PageName(p), 1, n)
<1>1. p \in Seq(Texts) /\ p # None /\ Len(p) \in Nat \ {0} /\ p[1] = "/"
  BY PathsAreTexts DEF PagesAreNamed
<1>2. \A i \in 1..Len(p) : p[i] \in Texts
  BY <1>1, ElementOfSeq
<1>3. CASE p[Len(p)] = ".html"
  <2> DEFINE L == Len(p) - 1
  <2>1. L \in Nat \ {0} /\ L + 1 = Len(p) /\ p[L] # "/"
    BY <1>1, <1>3 DEF PagesAreNamed
  <2>2. PageName(p) = SubSeq(p, 1, L)
    BY <1>3 DEF PageName
  <2> HIDE DEF L
  <2>3. /\ SubSeq(p, 1, L) \in Seq(Texts) /\ Len(SubSeq(p, 1, L)) = L
        /\ \A i \in 1..L : SubSeq(p, 1, L)[i] = p[i]
    <3>1. \A i \in 1..L : p[i] \in Texts
      BY <1>1, <1>2, <2>1
    <3> QED BY <2>1, <3>1, SubSeqProperties
  <2>4. n = L
    <3>1. SubSeq(p, 1, L) # None
      BY <2>1, <2>3, EmptySeq DEF None
    <3>2. Keeps(SubSeq(p, 1, L), L)
      BY <2>1, <2>3 DEF Keeps
    <3> QED BY <2>2, <2>3, <3>1, <3>2, KeepsOnce
  <2>5. Keeps(p, L + 1)
    BY <1>1, <1>3, <2>1 DEF Keeps
  <2>6. canonicalRequestPath(p) = SubSeq(p, 1, Len(p) - 1)
    <3>1. Len(p) > 1 /\ p[Len(p)] = ".html" /\ Keeps(p, Len(p))
      BY <1>3, <2>1, <2>5
    <3> DEFINE m == Len(p)
    <3>2. m > 1 /\ p[m] = ".html" /\ Keeps(p, m)
      BY <3>1
    <3> HIDE DEF m
    <3>3. canonicalRequestPath(p) = SubSeq(p, 1, m - 1)
      BY <1>1, <3>2, CanonicalOf
    <3> QED BY <3>3 DEF m
  <2>7. SubSeq(SubSeq(p, 1, L), 1, L) = SubSeq(p, 1, L)
    BY <2>3, SubSeqFull
  <2>8. Len(p) - 1 = L
    BY <2>1
  <2> QED BY <2>2, <2>4, <2>6, <2>7, <2>8
<1>4. CASE p[Len(p)] # ".html"
  <2>1. PageName(p) = p
    BY <1>4 DEF PageName
  <2>2. n \in 1..Len(p) /\ p[n] \notin Dots
    BY <1>1, <1>4, <2>1, SuffixOf DEF Keeps
  <2> QED BY <1>1, <2>1, <2>2, CanonicalOf DEF Dots
<1> QED BY <1>3, <1>4

Mount(p, l) == IF languages = << >> \/ Prefixed(p) THEN <<"/", "html">> ELSE <<"/", "html", "/", l>>

\* A page is looked for under its name; the index page, at the end of a path, is
\* the exception.
LEMMA FileOfPage ==
    ASSUME PagesAreNamed, NEW p \in Paths, NEW l \in Texts, Suffix(p) = ".html",
           p # <<"/">>, ~(Prefixed(p) /\ Len(p) = 3)
    PROVE  /\ PageName(p) \in Seq(Texts) /\ Len(PageName(p)) \in Nat \ {0}
           /\ \A i \in 1..Len(PageName(p)) : PageName(p)[i] = p[i]
           /\ Len(PageName(p)) <= Len(p)
           /\ buildPath(p, l) = (Mount(p, l) \o PageName(p)) \o <<".html">>
<1>1. p \in Seq(Texts) /\ p # None /\ Len(p) \in Nat \ {0} /\ p[1] = "/"
  BY PathsAreTexts DEF PagesAreNamed
<1>2. \A i \in 1..Len(p) : p[i] \in Texts
  BY <1>1, ElementOfSeq
<1>3. Last(p) = p[Len(p)]
  BY DEF Last
<1>4. buildPath(p, l) = Mount(p, l) \o p \o (IF Last(p) = ".html" THEN << >> ELSE <<".html">>)
  BY DEF buildPath, Mount
<1>5. Mount(p, l) \in Seq(Texts)
  <2>1. "/" \in Texts /\ "html" \in Texts
    BY DEF Texts
  <2>2. <<"/", "html">> \in Seq(Texts) /\ <<"/", "html", "/", l>> \in Seq(Texts)
    BY <2>1, ShortTexts
  <2> QED BY <2>2 DEF Mount
<1>6. CASE p[Len(p)] = ".html"
  <2> DEFINE L == Len(p) - 1
  <2>1. L \in Nat \ {0} /\ L + 1 = Len(p)
    BY <1>1, <1>6 DEF PagesAreNamed
  <2>2. PageName(p) = SubSeq(p, 1, L)
    BY <1>6 DEF PageName
  <2> HIDE DEF L
  <2>3. /\ SubSeq(p, 1, L) \in Seq(Texts) /\ Len(SubSeq(p, 1, L)) = L
        /\ \A i \in 1..L : SubSeq(p, 1, L)[i] = p[i]
    <3>1. \A i \in 1..L : p[i] \in Texts
      BY <1>1, <1>2, <2>1
    <3> QED BY <2>1, <3>1, SubSeqProperties
  <2>4. p = SubSeq(p, 1, L) \o <<".html">>
    <3>1. 1 \in 1..Len(p) /\ Len(p) \in 1..Len(p) /\ Len(p) - 1 = L
      BY <2>1
    <3>2. SubSeq(p, 1, Len(p)) = SubSeq(p, 1, Len(p) - 1) \o <<p[Len(p)]>>
      BY <1>1, <3>1, SubSeqRecursiveSecond
    <3> QED BY <1>1, <1>6, <3>1, <3>2, SubSeqFull
  <2>5. Mount(p, l) \o p \in Seq(Texts)
    BY <1>1, <1>5, ConcatProperties
  <2>6. (Mount(p, l) \o p) \o << >> = Mount(p, l) \o p
    BY <2>5, ConcatEmptySeq
  <2>7. <<".html">> \in Seq(Texts)
    <3>1. ".html" \in Texts
      BY DEF Texts
    <3> QED BY <3>1, ShortTexts
  <2>8. Mount(p, l) \o (SubSeq(p, 1, L) \o <<".html">>) = (Mount(p, l) \o SubSeq(p, 1, L)) \o <<".html">>
    <3> DEFINE a == Mount(p, l)
               b == SubSeq(p, 1, L)
               c == <<".html">>
    <3>1. a \in Seq(Texts) /\ b \in Seq(Texts) /\ c \in Seq(Texts)
      BY <1>5, <2>3, <2>7
    <3> HIDE DEF a, b, c
    <3>2. (a \o b) \o c = a \o (b \o c)
      BY <3>1, Joined
    <3> QED BY <3>2 DEF a, b, c
  <2>9. buildPath(p, l) = (Mount(p, l) \o p) \o << >>
    BY <1>3, <1>4, <1>6
  <2>10. buildPath(p, l) = (Mount(p, l) \o PageName(p)) \o <<".html">>
    BY <2>2, <2>4, <2>6, <2>8, <2>9
  <2> QED BY <2>1, <2>2, <2>3, <2>10
<1>7. CASE p[Len(p)] # ".html"
  <2>1. PageName(p) = p
    BY <1>7 DEF PageName
  <2>2. buildPath(p, l) = (Mount(p, l) \o p) \o <<".html">>
    BY <1>3, <1>4, <1>7
  <2> QED BY <1>1, <2>1, <2>2
<1> QED BY <1>6, <1>7

LEMMA Beginning ==
    ASSUME NEW a \in Seq(Texts), NEW b \in Seq(Texts), Len(a) >= 2
    PROVE  Len(a \o b) >= 2 /\ (a \o b)[2] = a[2] /\ a \o b # None
<1>1. Len(a) \in Nat /\ Len(b) \in Nat
  BY LenProperties
<1>2. /\ Len(a \o b) = Len(a) + Len(b)
      /\ \A i \in 1..(Len(a) + Len(b)) : (a \o b)[i] = IF i <= Len(a) THEN a[i] ELSE b[i - Len(a)]
  BY ConcatProperties
<1>3. Len(a \o b) >= 2 /\ (a \o b)[2] = a[2]
  BY <1>1, <1>2
<1> QED BY <1>3 DEF None

LEMMA EndOf ==
    ASSUME NEW a \in Seq(Texts), NEW b \in Seq(Texts), Len(b) # 0
    PROVE  (a \o b)[Len(a \o b)] = b[Len(b)]
<1>1. Len(a) \in Nat /\ Len(b) \in Nat
  BY LenProperties
<1>2. /\ Len(a \o b) = Len(a) + Len(b)
      /\ \A i \in 1..(Len(a) + Len(b)) : (a \o b)[i] = IF i <= Len(a) THEN a[i] ELSE b[i - Len(a)]
  BY ConcatProperties
<1> DEFINE n == Len(a) + Len(b)
<1>3. n \in 1..(Len(a) + Len(b)) /\ ~(n <= Len(a)) /\ n - Len(a) = Len(b)
  BY <1>1
<1> HIDE DEF n
<1>4. (a \o b)[n] = b[Len(b)]
  BY <1>2, <1>3
<1> QED BY <1>2, <1>4 DEF n

LEMMA NoFrontEqual ==
    ASSUME NEW a \in Seq(Texts), NEW b \in Seq(Texts), NEW c \in Seq(Texts)
    PROVE  /\ a \o b = a \o c => b = c
           /\ a \o c = b \o c => a = b
<1>1. Len(a) \in Nat /\ Len(b) \in Nat /\ Len(c) \in Nat
  BY LenProperties
<1>2. ASSUME a \o b = a \o c PROVE b = c
  <2>1. /\ Len(a \o b) = Len(a) + Len(b)
        /\ \A i \in 1..(Len(a) + Len(b)) : (a \o b)[i] = IF i <= Len(a) THEN a[i] ELSE b[i - Len(a)]
    BY ConcatProperties
  <2>2. /\ Len(a \o c) = Len(a) + Len(c)
        /\ \A i \in 1..(Len(a) + Len(c)) : (a \o c)[i] = IF i <= Len(a) THEN a[i] ELSE c[i - Len(a)]
    BY ConcatProperties
  <2>3. Len(b) = Len(c)
    BY <1>1, <1>2, <2>1, <2>2
  <2>4. ASSUME NEW i \in 1..Len(b) PROVE b[i] = c[i]
    <3>1. i + Len(a) \in 1..(Len(a) + Len(b)) /\ ~(i + Len(a) <= Len(a)) /\ i + Len(a) - Len(a) = i
      BY <1>1
    <3>2. (a \o b)[i + Len(a)] = b[i]
      BY <2>1, <3>1
    <3>3. (a \o c)[i + Len(a)] = c[i]
      BY <2>2, <2>3, <3>1
    <3> QED BY <1>2, <3>2, <3>3
  <2> QED BY <2>3, <2>4, SeqEqual
<1>3. ASSUME a \o c = b \o c PROVE a = b
  <2>1. /\ Len(a \o c) = Len(a) + Len(c)
        /\ \A i \in 1..(Len(a) + Len(c)) : (a \o c)[i] = IF i <= Len(a) THEN a[i] ELSE c[i - Len(a)]
    BY ConcatProperties
  <2>2. /\ Len(b \o c) = Len(b) + Len(c)
        /\ \A i \in 1..(Len(b) + Len(c)) : (b \o c)[i] = IF i <= Len(b) THEN b[i] ELSE c[i - Len(b)]
    BY ConcatProperties
  <2>3. Len(a) = Len(b)
    BY <1>1, <1>3, <2>1, <2>2
  <2>4. \A i \in 1..Len(a) : a[i] = b[i]
    BY <1>1, <1>3, <2>1, <2>2, <2>3
  <2> QED BY <2>3, <2>4, SeqEqual
<1> QED BY <1>2, <1>3

\* Only pages are looked for below html.
LEMMA OthersAreAssets ==
    ASSUME PagesAreNamed, NEW p \in Paths, NEW l \in Texts, Suffix(p) # ".html"
    PROVE  buildPath(p, l) = None \/ (Len(buildPath(p, l)) >= 2 /\ buildPath(p, l)[2] = "assets")
<1>1. p \in Seq(Texts) /\ p # None /\ Len(p) \in Nat \ {0} /\ p[1] = "/"
  BY PathsAreTexts DEF PagesAreNamed
<1>2. \A i \in 1..Len(p) : p[i] \in Texts
  BY <1>1, ElementOfSeq
<1>3. Suffix(p) \in {".css", ".png", "unknown"}
  BY <1>1, SuffixOf
<1>9. p # <<"/">>
  BY <1>1, SuffixOf DEF Dots
<1>4. \A x \in Texts : /\ <<"/", "assets", "/", x>> \in Seq(Texts) /\ Len(<<"/", "assets", "/", x>>) >= 2
                       /\ <<"/", "assets", "/", x>>[2] = "assets"
  BY ShortTexts DEF Texts
<1>5. "css" \in Texts /\ "images" \in Texts
  BY DEF Texts
<1>6. CASE Suffix(p) = "unknown"
  BY <1>6, <1>9 DEF buildPath
<1>7. CASE Suffix(p) = ".css"
  <2> DEFINE rest == IF Prefixed(p) THEN stripSupportedLanguagePrefix(p) ELSE p
             top == <<"/", "assets", "/", "css">>
  <2>1. rest \in Seq(Texts)
    <3>1. <<"/">> \in Seq(Texts)
      BY ShortTexts DEF Texts
    <3>2. SubSeq(p, 3, Len(p)) \in Seq(Texts)
      <4>1. Len(p) \in Int /\ 3 \in Int /\ \A i \in 3..Len(p) : p[i] \in Texts
        BY <1>1, <1>2
      <4> QED BY <4>1, SubSeqProperties
    <3> QED BY <1>1, <3>1, <3>2 DEF stripSupportedLanguagePrefix
  <2>2. buildPath(p, l) = top \o rest
    BY <1>7, <1>9 DEF buildPath
  <2>3. top \in Seq(Texts) /\ Len(top) >= 2 /\ top[2] = "assets"
    BY <1>4, <1>5
  <2> HIDE DEF rest, top
  <2> QED BY <2>1, <2>2, <2>3, Beginning
<1>8. CASE Suffix(p) = ".png"
  <2> DEFINE I == {i \in 1..Len(p) : p[i] = "/"}
             x == IF I # {} THEN Max(I) ELSE 0
             top == <<"/", "assets", "/", "images">>
  <2>1. buildPath(p, l) = IF IsPrefix(<<"/", "assets", "/">>, p) THEN p ELSE top \o SubSeq(p, x, Len(p))
    BY <1>8, <1>9 DEF buildPath, SelectLastInSeq
  <2>2. x \in 1..Len(p)
    <3>1. 1 \in I /\ I \in SUBSET (1..Len(p))
      BY <1>1
    <3>2. Max(I) = CHOOSE m \in I : \A k \in I : m >= k
      BY DEF Max
    <3> HIDE DEF I
    <3>3. \E m \in I : \A k \in I : m >= k
      BY <1>1, <3>1, GreatestNumber
    <3> QED BY <3>1, <3>2, <3>3
  <2>3. top \in Seq(Texts) /\ Len(top) >= 2 /\ top[2] = "assets"
    BY <1>4, <1>5
  <2> HIDE DEF x
  <2>4. SubSeq(p, x, Len(p)) \in Seq(Texts)
    <3>1. Len(p) \in Int /\ x \in Int /\ \A i \in x..Len(p) : p[i] \in Texts
      BY <1>1, <1>2, <2>2
    <3> QED BY <3>1, SubSeqProperties
  <2>5. IsPrefix(<<"/", "assets", "/">>, p) => Len(p) >= 2 /\ p[2] = "assets"
    <3> SUFFICES ASSUME IsPrefix(<<"/", "assets", "/">>, p) PROVE Len(p) >= 2 /\ p[2] = "assets"
      OBVIOUS
    <3>1. 3 <= Len(p) /\ SubSeq(<<"/", "assets", "/">>, 1, 3) = SubSeq(p, 1, 3)
      BY DEF IsPrefix
    <3>2. SubSeq(<<"/", "assets", "/">>, 1, 3)[2] = "assets"
      OBVIOUS
    <3>3. SubSeq(p, 1, 3)[2] = p[2]
      BY <1>1, <3>1
    <3> QED BY <1>1, <3>1, <3>2, <3>3
  <2> DEFINE rest == SubSeq(p, x, Len(p))
  <2>6. rest \in Seq(Texts) /\ buildPath(p, l) \in {p, top \o rest}
    BY <2>1, <2>4
  <2>7. buildPath(p, l) = p => Len(p) >= 2 /\ p[2] = "assets"
    <3>1. ASSUME ~IsPrefix(<<"/", "assets", "/">>, p), buildPath(p, l) = p PROVE Len(p) >= 2 /\ p[2] = "assets"
      <4>1. p = top \o rest
        BY <2>1, <3>1
      <4> HIDE DEF top, rest
      <4> QED BY <2>3, <2>6, <4>1, Beginning
    <3> QED BY <2>5, <3>1
  <2> HIDE DEF top, rest
  <2> QED BY <2>3, <2>6, <2>7, Beginning
<1> QED BY <1>3, <1>6, <1>7, <1>8

LEMMA MountIsText ==
    ASSUME NEW p, NEW l \in Texts
    PROVE  Mount(p, l) \in Seq(Texts) /\ Len(Mount(p, l)) >= 2 /\ Mount(p, l)[2] = "html"
<1>1. <<"/", "html">> \in Seq(Texts) /\ <<"/", "html", "/", l>> \in Seq(Texts)
  BY ShortTexts DEF Texts
<1> QED BY <1>1 DEF Mount

\* What two pages that are one file have in common.
LEMMA PagesOfFile ==
    ASSUME PagesAreNamed, NEW p \in Paths, NEW q \in Paths, NEW l \in Texts,
           Suffix(p) = ".html", ~Prefixed(p), ~Index(p), buildPath(p, l) = buildPath(q, l)
    PROVE  /\ Suffix(q) = ".html" /\ q # <<"/">> /\ ~(Prefixed(q) /\ Len(q) = 3)
           /\ Mount(p, l) \o PageName(p) = Mount(q, l) \o PageName(q)
<1> DEFINE m == Mount(p, l)
           n == Mount(q, l)
           x == PageName(p)
           y == PageName(q)
           h == <<".html">>
<1>1. /\ x \in Seq(Texts) /\ Len(x) \in Nat \ {0} /\ (\A i \in 1..Len(x) : x[i] = p[i])
      /\ Len(x) <= Len(p) /\ buildPath(p, l) = (m \o x) \o h
  <2>1. p # <<"/">>
    BY DEF Index
  <2> QED BY <2>1, FileOfPage
<1>2. m \in Seq(Texts) /\ n \in Seq(Texts) /\ Len(m) >= 2 /\ m[2] = "html"
  BY MountIsText
<1>3. h \in Seq(Texts)
  BY ShortTexts DEF Texts
<1>4. Len(p) \in Nat \ {0} /\ DOMAIN p = 1..Len(p) /\ q \in Seq(Texts) /\ Len(q) \in Nat \ {0} /\ DOMAIN q = 1..Len(q)
  BY PathsAreTexts
<1>5. Suffix(q) = ".html"
  <2> SUFFICES ASSUME Suffix(q) # ".html" PROVE FALSE
    OBVIOUS
  <2>1. buildPath(q, l) = None \/ buildPath(q, l)[2] = "assets"
    BY OthersAreAssets
  <2> HIDE DEF m, x, h
  <2>2. m \o x \in Seq(Texts) /\ Len(m \o x) >= 2 /\ (m \o x)[2] = "html"
    BY <1>1, <1>2, Beginning, ConcatProperties
  <2> DEFINE mx == m \o x
  <2>3. mx \in Seq(Texts) /\ Len(mx) >= 2 /\ mx[2] = "html" /\ buildPath(p, l) = mx \o h
    BY <1>1, <2>2
  <2> HIDE DEF mx
  <2>4. (mx \o h)[2] = "html" /\ mx \o h # None
    BY <1>3, <2>3, Beginning
  <2> QED BY <2>1, <2>3, <2>4
<1>6. ASSUME NEW z \in Seq(Texts), Len(z) \in Nat \ {0}, z[Len(z)] = "index",
             buildPath(q, l) = (n \o z) \o h
      PROVE  FALSE
  <2> HIDE DEF m, n, x, h
  <2> DEFINE mx == m \o x
             nz == n \o z
  <2>1. mx \in Seq(Texts) /\ nz \in Seq(Texts) /\ mx \o h = nz \o h
    BY <1>1, <1>2, <1>6, ConcatProperties
  <2> HIDE DEF mx, nz
  <2>2. mx = nz
    BY <1>3, <2>1, NoFrontEqual
  <2>3. Len(x) > 0 /\ Len(z) > 0 /\ m \o x = n \o z
    BY <1>1, <1>6, <2>2 DEF mx, nz
  <2>4. x[Len(x)] = "index"
    <3>1. x \in Seq(Texts) /\ m \in Seq(Texts) /\ n \in Seq(Texts)
      BY <1>1, <1>2
    <3>2. x[Len(x)] = z[Len(z)]
      <4>1. Len(x) # 0 /\ Len(z) # 0 /\ m \o x = n \o z
        BY <1>1, <1>6, <2>3
      <4>2. (m \o x)[Len(m \o x)] = x[Len(x)]
        BY <3>1, <4>1, EndOf
      <4>3. (n \o z)[Len(n \o z)] = z[Len(z)]
        BY <3>1, <4>1, EndOf
      <4> QED BY <4>1, <4>2, <4>3
    <3> QED BY <1>6, <3>2
  <2>5. Len(x) \in 1..Len(x) /\ Len(x) \in DOMAIN p
    BY <1>1, <1>4
  <2>6. "index" \in Range(p)
    BY <1>1, <2>4, <2>5 DEF Range
  <2> QED BY <2>6 DEF Index
<1>7. q # <<"/">>
  <2> SUFFICES ASSUME q = <<"/">> PROVE FALSE
    OBVIOUS
  <2> DEFINE z == <<"/", "index">>
  <2>1. z \in Seq(Texts) /\ Len(z) = 2 /\ z[2] = "index"
    BY ShortTexts DEF Texts
  <2>2. ~Prefixed(q)
    BY DEF Prefixed
  <2>3. buildPath(q, l) = n \o <<"/", "index", ".html">>
    BY <1>5, <2>2 DEF buildPath, Mount
  <2>4. <<"/", "index", ".html">> = z \o h
    OBVIOUS
  <2> HIDE DEF z, h, n
  <2>5. buildPath(q, l) = (n \o z) \o h
    <3>1. n \in Seq(Texts) /\ z \in Seq(Texts)
      BY <1>2, <2>1
    <3>2. (n \o z) \o h = n \o (z \o h)
      BY <1>3, <3>1, Joined
    <3> QED BY <2>3, <2>4, <3>2
  <2>6. Len(z) \in Nat \ {0} /\ z[Len(z)] = "index"
    BY <2>1
  <2> QED BY <1>6, <2>1, <2>5, <2>6
<1>8. ~(Prefixed(q) /\ Len(q) = 3)
  <2> SUFFICES ASSUME Prefixed(q), Len(q) = 3 PROVE FALSE
    OBVIOUS
  <2> DEFINE z == SubSeq(q, 1, 2) \o <<"/", "index">>
  <2>1. SubSeq(q, 1, 2) \in Seq(Texts) /\ <<"/", "index">> \in Seq(Texts)
    <3>1. \A i \in 1..3 : q[i] \in Texts
      BY <1>4, ElementOfSeq
    <3>2. SubSeq(q, 1, 2) \in Seq(Texts)
      <4>1. 1 \in Int /\ 2 \in Int /\ \A i \in 1..2 : q[i] \in Texts
        BY <3>1
      <4> QED BY <4>1, SubSeqProperties
    <3> QED BY <3>2, ShortTexts DEF Texts
  <2>2. z \in Seq(Texts) /\ Len(z) = 4 /\ z[4] = "index"
    <3>1. Len(SubSeq(q, 1, 2)) = 2
      BY <1>4
    <3> DEFINE a == SubSeq(q, 1, 2)
               b == <<"/", "index">>
    <3>2. a \in Seq(Texts) /\ b \in Seq(Texts) /\ Len(a) = 2 /\ Len(b) = 2 /\ b[2] = "index"
      BY <2>1, <3>1
    <3>3. z = a \o b
      OBVIOUS
    <3> HIDE DEF a, b, z
    <3>4. /\ a \o b \in Seq(Texts) /\ Len(a \o b) = Len(a) + Len(b)
          /\ \A i \in 1..(Len(a) + Len(b)) : (a \o b)[i] = IF i <= Len(a) THEN a[i] ELSE b[i - Len(a)]
      BY <3>2, ConcatProperties
    <3> QED BY <3>2, <3>3, <3>4
  <2>3. Last(q) # ".html"
    BY DEF Prefixed, Last
  <2>4. buildPath(q, l) = (n \o z) \o h
    BY <1>5, <1>7, <2>3 DEF buildPath, Mount
  <2> HIDE DEF z, h, n
  <2>5. Len(z) \in Nat \ {0} /\ z[Len(z)] = "index"
    BY <2>2
  <2> QED BY <1>6, <2>2, <2>4, <2>5
<1>9. y \in Seq(Texts) /\ buildPath(q, l) = (n \o y) \o h
  BY <1>5, <1>7, <1>8, FileOfPage
<1>10. m \o x = n \o y
  <2> HIDE DEF m, n, x, y, h
  <2> DEFINE mx == m \o x
             ny == n \o y
  <2>1. mx \in Seq(Texts) /\ ny \in Seq(Texts) /\ mx \o h = ny \o h
    BY <1>1, <1>2, <1>9, ConcatProperties
  <2> HIDE DEF mx, ny
  <2>2. mx = ny
    BY <1>3, <2>1, NoFrontEqual
  <2> QED BY <2>2 DEF mx, ny
<1> QED BY <1>5, <1>7, <1>8, <1>10

\* The path by which gates are looked up does not name a language unless the
\* path of the request does.
LEMMA BareStaysBare ==
    ASSUME PagesAreNamed, languages \in Seq(Speech), NEW p \in Paths, NEW l \in Texts,
           Suffix(p) = ".html", ~Prefixed(p), ~Index(p), NEW n, Keeps(PageName(p), n)
    PROVE  /\ ~Prefixed(SubSeq(PageName(p), 1, n))
           /\ SubSeq(PageName(p), 1, n) \in Seq(Texts) /\ Len(SubSeq(PageName(p), 1, n)) = n
           /\ \A i \in 1..n : SubSeq(PageName(p), 1, n)[i] = PageName(p)[i]
<1> DEFINE N == PageName(p)
           T == SubSeq(N, 1, n)
<1>1. /\ N \in Seq(Texts) /\ Len(N) \in Nat \ {0} /\ (\A i \in 1..Len(N) : N[i] = p[i]) /\ Len(N) <= Len(p)
  <2>1. p # <<"/">>
    BY DEF Index
  <2> QED BY <2>1, FileOfPage
<1>2. Len(p) \in Nat \ {0} /\ p[1] = "/"
  BY PathsAreTexts DEF PagesAreNamed
<1>3. n \in 1..Len(N) /\ \A j \in (n + 1)..Len(N) : N[j] = "/"
  BY DEF Keeps
<1>4. N = p \/ (Len(p) # 0 /\ p[Len(p)] = ".html" /\ Len(N) = Len(p) - 1)
  <2>1. CASE p[Len(p)] = ".html"
    <3>1. N = SubSeq(p, 1, Len(p) - 1)
      BY <2>1 DEF PageName
    <3>2. Len(SubSeq(p, 1, Len(p) - 1)) = Len(p) - 1
      <4>1. p \in Seq(Texts)
        BY PathsAreTexts
      <4>2. Len(p) - 1 \in Int /\ 1 \in Int /\ \A i \in 1..(Len(p) - 1) : i \in 1..Len(p)
        BY <1>2
      <4>3. \A i \in 1..(Len(p) - 1) : p[i] \in Texts
        BY <4>1, <4>2, ElementOfSeq
      <4> DEFINE L == Len(p) - 1
      <4>4. L \in Int /\ 1 \in Int /\ L >= 0 /\ \A i \in 1..L : p[i] \in Texts
        BY <1>2, <4>3
      <4> HIDE DEF L
      <4>5. Len(SubSeq(p, 1, L)) = IF 1 <= L THEN L - 1 + 1 ELSE 0
        BY <4>4, SubSeqProperties
      <4>6. Len(SubSeq(p, 1, L)) = L
        BY <4>4, <4>5
      <4> QED BY <4>6 DEF L
    <3> QED BY <1>2, <2>1, <3>1, <3>2
  <2>2. CASE p[Len(p)] # ".html"
    BY <2>2 DEF PageName
  <2> QED BY <2>1, <2>2
<1> HIDE DEF N
<1>5. T \in Seq(Texts) /\ Len(T) = n /\ \A i \in 1..n : T[i] = N[i]
  <2>1. 1 \in Int /\ n \in Int /\ \A i \in 1..n : N[i] \in Texts
    BY <1>1, <1>3, ElementOfSeq
  <2> QED BY <1>3, <2>1, SubSeqProperties
<1>6. Range(languages) \subseteq Speech
  BY LenProperties, ElementOfSeq DEF Range
<1>7. ASSUME Prefixed(T) PROVE FALSE
  <2>1. n >= 2 /\ T[2] \in Range(languages) /\ (n = 2 \/ T[3] = "/")
    BY <1>5, <1>7 DEF Prefixed
  <2>2. Len(p) >= 2 /\ p[2] = T[2] /\ (n >= 3 => Len(p) >= 3 /\ p[3] = T[3])
    BY <1>1, <1>2, <1>3, <1>5, <2>1
  <2>3. n = 2 /\ Len(p) >= 3 /\ p[3] # "/"
    <3>1. n \in Nat /\ (n = 2 \/ n >= 3)
      BY <1>1, <1>3, <2>1
    <3>2. ~(Len(p) = 2) /\ p[3] # "/"
      BY <1>2, <2>1, <2>2 DEF Prefixed
    <3>3. n = 2
      <4>1. ASSUME n >= 3 PROVE FALSE
        <5>1. n # 2
          BY <3>1, <4>1
        <5> QED BY <2>1, <2>2, <3>2, <4>1, <5>1
      <4> QED BY <3>1, <4>1
    <3>4. Len(p) >= 3
      <4> DEFINE k == Len(p)
      <4>1. k \in Nat /\ k >= 2 /\ k # 2
        BY <1>2, <2>2, <3>2
      <4> HIDE DEF k
      <4>2. k >= 3
        BY <4>1
      <4> QED BY <4>2 DEF k
    <3> QED BY <3>2, <3>3, <3>4
  <2>4. Len(N) = 2
    <3>1. ~(Len(N) >= 3)
      <4> SUFFICES ASSUME Len(N) >= 3 PROVE FALSE
        OBVIOUS
      <4>1. 3 \in (n + 1)..Len(N) /\ 3 \in 1..Len(N)
        BY <1>1, <2>3
      <4> QED BY <1>1, <1>3, <2>3, <4>1
    <3>2. Len(N) \in Nat /\ 2 <= Len(N)
      BY <1>1, <1>3, <2>3
    <3> DEFINE k == Len(N)
    <3>3. k \in Nat /\ 2 <= k /\ ~(k >= 3)
      BY <3>1, <3>2
    <3> HIDE DEF k
    <3>4. k = 2
      BY <3>3
    <3> QED BY <3>4 DEF k
  <2>5. Len(p) = 3 /\ p[Len(p)] = ".html" /\ p[2] \in Speech
    BY <1>2, <1>4, <1>6, <2>1, <2>2, <2>3, <2>4
  <2> QED BY <2>5 DEF PagesAreNamed
<1> QED BY <1>5, <1>7 DEF N

\* The same name behind a language.
LEMMA NameBehindLanguage ==
    ASSUME NEW l \in Texts, l # "/", l \in Range(languages),
           NEW N \in Seq(Texts), NEW n, Keeps(N, n), N[1] = "/",
           NEW M \in Seq(Texts), M = <<"/", l>> \o N
    PROVE  \E m : /\ Keeps(M, m) /\ Prefixed(SubSeq(M, 1, m))
                  /\ stripSupportedLanguagePrefix(SubSeq(M, 1, m)) = SubSeq(N, 1, n)
<1> DEFINE m == IF n = 1 THEN 2 ELSE n + 2
           U == SubSeq(M, 1, m)
           T == SubSeq(N, 1, n)
<1>1. n \in 1..Len(N) /\ Len(N) \in Nat /\ (\A j \in (n + 1)..Len(N) : N[j] = "/") /\ (n = 1 \/ N[n] # "/")
  BY LenProperties DEF Keeps
<1>2. Len(M) = Len(N) + 2 /\ M[1] = "/" /\ M[2] = l /\ \A i \in 1..Len(N) : M[i + 2] = N[i]
  <2> DEFINE a == <<"/", l>>
  <2>1. a \in Seq(Texts) /\ Len(a) = 2 /\ a[1] = "/" /\ a[2] = l
    BY ShortTexts DEF Texts
  <2>2. M = a \o N
    OBVIOUS
  <2> HIDE DEF a
  <2>3. /\ Len(M) = Len(a) + Len(N)
        /\ \A i \in 1..(Len(a) + Len(N)) : M[i] = IF i <= Len(a) THEN a[i] ELSE N[i - Len(a)]
    BY <2>1, <2>2, ConcatProperties
  <2>4. ASSUME NEW i \in 1..Len(N) PROVE M[i + 2] = N[i]
    <3>1. i + 2 \in 1..(Len(a) + Len(N)) /\ ~(i + 2 <= Len(a)) /\ i + 2 - Len(a) = i
      BY <1>1, <2>1
    <3> QED BY <2>3, <3>1
  <2>5. 1 \in 1..(Len(a) + Len(N)) /\ 2 \in 1..(Len(a) + Len(N))
    BY <1>1, <2>1
  <2> QED BY <1>1, <2>1, <2>3, <2>4, <2>5
<1>3. m \in 1..Len(M) /\ m >= 2 /\ Len(M) \in Nat
  BY <1>1, <1>2
<1>4. Keeps(M, m)
  <2>1. ASSUME NEW j \in (m + 1)..Len(M) PROVE M[j] = "/"
    <3>1. j - 2 \in 1..Len(N) /\ j - 2 + 2 = j /\ (j - 2 = 1 \/ j - 2 \in (n + 1)..Len(N))
      BY <1>1, <1>2, <1>3
    <3>2. M[j] = N[j - 2]
      BY <1>2, <3>1
    <3> QED BY <1>1, <3>1, <3>2
  <2>2. M[m] # "/"
    <3>1. CASE n = 1
      BY <1>2, <3>1
    <3>2. CASE n # 1
      BY <1>1, <1>2, <3>2
    <3> QED BY <3>1, <3>2
  <2> HIDE DEF m
  <2> QED BY <1>3, <2>1, <2>2 DEF Keeps
<1>5. U \in Seq(Texts) /\ Len(U) = m /\ \A i \in 1..m : U[i] = M[i]
  <2> HIDE DEF m
  <2>1. 1 \in Int /\ m \in Int /\ \A i \in 1..m : M[i] \in Texts
    BY <1>3, ElementOfSeq
  <2> QED BY <1>3, <2>1, SubSeqProperties
<1>6. T \in Seq(Texts) /\ Len(T) = n /\ \A i \in 1..n : T[i] = N[i]
  <2>1. 1 \in Int /\ n \in Int /\ \A i \in 1..n : N[i] \in Texts
    BY <1>1, ElementOfSeq
  <2> QED BY <1>1, <2>1, SubSeqProperties
<1> HIDE DEF U, T
<1>7. Prefixed(U)
  <2>1. U[1] = "/" /\ U[2] = l
    BY <1>2, <1>3, <1>5
  <2>2. m = 2 \/ U[3] = "/"
    <3>1. CASE n = 1
      BY <3>1
    <3>2. CASE n # 1
      <4>1. 3 \in 1..m /\ 1 \in 1..Len(N) /\ 1 + 2 = 3
        BY <1>1, <3>2
      <4> QED BY <1>2, <1>5, <4>1
    <3> QED BY <3>1, <3>2
  <2> QED BY <1>3, <1>5, <2>1, <2>2 DEF Prefixed
<1>8. stripSupportedLanguagePrefix(U) = T
  <2>1. CASE n = 1
    <3>1. stripSupportedLanguagePrefix(U) = <<"/">>
      BY <1>5, <2>1 DEF stripSupportedLanguagePrefix
    <3>2. T[1] = "/" /\ Len(T) = 1
      BY <1>6, <2>1
    <3>3. <<"/">> \in Seq(Texts) /\ Len(<<"/">>) = 1 /\ <<"/">>[1] = "/"
      BY ShortTexts DEF Texts
    <3> DEFINE S == <<"/">>
    <3>4. S \in Seq(Texts) /\ Len(S) = 1 /\ S[1] = "/"
      BY <3>3
    <3> HIDE DEF S
    <3>5. Len(S) = Len(T) /\ \A i \in 1..Len(S) : S[i] = T[i]
      BY <3>2, <3>4
    <3>6. S = T
      BY <1>6, <3>4, <3>5, SeqEqual
    <3> QED BY <3>1, <3>6 DEF S
  <2>2. CASE n # 1
    <3>1. m = n + 2 /\ m # 2
      BY <1>1, <2>2
    <3> HIDE DEF m
    <3> DEFINE S == SubSeq(U, 3, m)
    <3>2. stripSupportedLanguagePrefix(U) = S
      BY <1>5, <3>1 DEF stripSupportedLanguagePrefix
    <3>3. S \in Seq(Texts) /\ Len(S) = n /\ \A i \in 1..n : S[i] = U[i + 2]
      <4>1. 3 \in Int /\ m \in Int /\ \A i \in 3..m : U[i] \in Texts
        BY <1>3, <1>5, ElementOfSeq
      <4>2. /\ S \in Seq(Texts) /\ Len(S) = IF 3 <= m THEN m - 3 + 1 ELSE 0
            /\ \A i \in 1..m - 3 + 1 : S[i] = U[3 + i - 1]
        BY <4>1, SubSeqProperties
      <4>3. 3 <= m /\ m - 3 + 1 = n /\ \A i \in 1..n : 3 + i - 1 = i + 2
        BY <1>1, <2>2, <3>1
      <4> HIDE DEF S
      <4> QED BY <4>2, <4>3
    <3> HIDE DEF S
    <3>4. ASSUME NEW i \in 1..n PROVE S[i] = T[i]
      <4>1. i + 2 \in 1..m /\ i \in 1..Len(N)
        BY <1>1, <3>1
      <4> QED BY <1>2, <1>5, <1>6, <3>3, <4>1
    <3>5. S = T
      BY <1>6, <3>3, <3>4, SeqEqual
    <3> QED BY <3>2, <3>5
  <2> QED BY <2>1, <2>2
<1> HIDE DEF m
<1> QED BY <1>4, <1>7, <1>8 DEF U, T

LEMMA SpellingsAreGated == ASSUME PagesAreNamed PROVE RegistriesFit => GateCoversSpellings
<1> SUFFICES ASSUME RegistriesFit, NEW p \in Paths, Gated(p), ~Prefixed(p), ~Index(p), Suffix(p) = ".html",
                    NEW l \in Speech, NEW q \in Paths, buildPath(p, l) = buildPath(q, l)
             PROVE  Gated(q)
  BY DEF GateCoversSpellings
<1> DEFINE N == PageName(p)
           M == PageName(q)
<1>1. l \in Texts /\ l # "/" /\ languages \in Seq(Speech)
  BY RoutingAssumption DEF Texts, RegistriesFit
<1>2. /\ Suffix(q) = ".html" /\ q # <<"/">> /\ ~(Prefixed(q) /\ Len(q) = 3)
      /\ Mount(p, l) \o N = Mount(q, l) \o M
  BY <1>1, PagesOfFile
<1>3. N \in Seq(Texts) /\ Len(N) \in Nat \ {0} /\ \A i \in 1..Len(N) : N[i] = p[i]
  <2>1. p # <<"/">>
    BY DEF Index
  <2> QED BY <1>1, <2>1, FileOfPage
<1>4. M \in Seq(Texts) /\ Len(M) \in Nat \ {0} /\ Len(M) <= Len(q) /\ \A i \in 1..Len(M) : M[i] = q[i]
  BY <1>1, <1>2, FileOfPage
<1>5. PICK n : Keeps(N, n)
  <2>1. N # None
    BY <1>3 DEF None
  <2> HIDE DEF N
  <2> QED BY <1>3, <2>1, KeepsOnce
<1> DEFINE T == SubSeq(N, 1, n)
<1>6. canonicalRequestPath(p) = T
  BY <1>5, CanonicalPage
<1>7. ~Prefixed(T)
  BY <1>1, <1>5, BareStaysBare
<1>8. At(Guarded, T) # None
  <2>1. Lookup(Guarded, T) # None
    BY <1>6 DEF Gated, Resolved
  <2> HIDE DEF T
  <2> QED BY <1>7, <2>1 DEF Lookup
<1>9. N[1] = "/"
  <2>1. p[1] = "/" /\ 1 \in 1..Len(N)
    BY <1>3 DEF PagesAreNamed
  <2> QED BY <1>3, <2>1
<1>10. CASE ~Prefixed(q)
  <2>1. Mount(p, l) = Mount(q, l)
    BY <1>10 DEF Mount
  <2>2. Mount(q, l) \in Seq(Texts)
    BY <1>1, MountIsText
  <2>3. N = M
    <3> DEFINE a == Mount(q, l)
    <3>1. a \in Seq(Texts) /\ a \o N = a \o M
      BY <1>2, <2>1, <2>2
    <3> HIDE DEF a, N, M
    <3> QED BY <1>3, <1>4, <3>1, NoFrontEqual
  <2>4. Keeps(M, n)
    BY <1>5, <2>3
  <2>5. canonicalRequestPath(q) = T
    <3>1. canonicalRequestPath(q) = SubSeq(PageName(q), 1, n)
      BY <1>2, <2>4, CanonicalPage
    <3> QED BY <2>3, <3>1
  <2> HIDE DEF T
  <2>6. Lookup(Guarded, T) # None
    BY <1>8 DEF Lookup
  <2> QED BY <2>5, <2>6 DEF Gated, Resolved
<1>11. CASE Prefixed(q)
  <2> DEFINE a == <<"/", "html">>
             b == <<"/", l>>
  <2>1. Mount(q, l) = a
    BY <1>11 DEF Mount
  <2>2. languages # << >> /\ q[2] \in Range(languages) /\ Len(q) >= 2
    BY <1>11 DEF Prefixed, Range
  <2>3. Mount(p, l) = <<"/", "html", "/", l>>
    BY <2>2 DEF Mount
  <2>4. a \in Seq(Texts) /\ b \in Seq(Texts)
    BY <1>1, ShortTexts DEF Texts
  <2>5. <<"/", "html", "/", l>> = a \o b
    OBVIOUS
  <2>6. b \o N = M
    <3> HIDE DEF a, b, N, M
    <3>1. (a \o b) \o N = a \o M
      BY <1>2, <2>1, <2>3, <2>5
    <3>2. (a \o b) \o N = a \o (b \o N)
      BY <1>3, <2>4, Joined
    <3> DEFINE c == b \o N
    <3>3. c \in Seq(Texts) /\ a \o c = a \o M
      BY <1>3, <2>4, <3>1, <3>2, ConcatProperties
    <3> HIDE DEF c
    <3>4. c = M
      BY <1>4, <2>4, <3>3, NoFrontEqual
    <3> QED BY <3>4 DEF c
  <2>7. Len(M) >= 2 /\ M[2] = l
    <3>1. b[2] = l /\ Len(b) = 2
      OBVIOUS
    <3> HIDE DEF b, N, M
    <3>2. Len(b) >= 2
      BY <3>1
    <3> QED BY <1>3, <2>4, <2>6, <3>1, <3>2, Beginning
  <2>8. l \in Range(languages)
    <3>1. 2 \in 1..Len(M)
      BY <1>4, <2>7
    <3> QED BY <1>4, <2>2, <2>7, <3>1
  <2>9. PICK m : /\ Keeps(M, m) /\ Prefixed(SubSeq(M, 1, m))
                 /\ stripSupportedLanguagePrefix(SubSeq(M, 1, m)) = SubSeq(N, 1, n)
    <3>1. M = <<"/", l>> \o N
      BY <2>6
    <3> HIDE DEF M, N
    <3> QED BY <1>1, <1>3, <1>4, <1>5, <1>9, <2>8, <3>1, NameBehindLanguage
  <2> DEFINE U == SubSeq(M, 1, m)
  <2>10. canonicalRequestPath(q) = U
    BY <1>2, <2>9, CanonicalPage
  <2>11. Prefixed(U) /\ stripSupportedLanguagePrefix(U) = T
    BY <2>9
  <2> HIDE DEF U, T
  <2>12. Lookup(Guarded, U) # None
    BY <1>8, <2>11 DEF Lookup
  <2> QED BY <2>10, <2>12 DEF Gated, Resolved
<1> QED BY <1>10, <1>11

(* Type correctness of the registries: whatever is registered, in whatever     *)
(* order of calls, every table holds finitely many rules of the patterns there *)
(* are, so that a lookup has a best rule to find.                              *)
THEOREM RegistriesInv == RoutingSpec => []RegistriesFit
<1>1. RoutingInit => RegistriesFit
  BY RegistriesInitially
<1>2. RegistriesFit /\ [RoutingNext]_routingVars => RegistriesFit'
  BY RegistriesStayFit
<1> QED BY <1>1, <1>2, PTL DEF RoutingSpec

(* The gate that GateRegistry finds for a request is the first by the          *)
(* documented precedence of all that match its canonical path, as it is or      *)
(* without its language; a page that is gated is gated under every spelling     *)
(* that StaticFileResolver sends the same file for; and where the gates are on  *)
(* the patterns of the routes, the gate that is asked is that of the route that *)
(* RouteDispatcher runs, or of a sync route it passed over.                     *)
THEOREM GatesAreInOrder == ASSUME PagesAreNamed PROVE RoutingSpec => []GatesApply
<1>1. RegistriesFit => GatesApply
  BY GatesInOrder, SpellingsAreGated, GateFitsRoute DEF GatesApply
<1> QED BY <1>1, RegistriesInv, PTL

--------------------------------------------------------------------------------
(* Redirects.  The rules that the probe is exact for are those with no star and
   no language in source or target: a set of them is closed if each leads to a
   source in it.                                                               *)
PlainRules(table) ==
    {s \in DOMAIN table : Plain(s) /\ Range(table[s]) \cap Speech = {} /\ Internal(s)}
NoneClosed(table) ==
    \A X \in SUBSET PlainRules(table) : X # {} => \E s \in X : table[s] \notin X

\* Following redirects, hop by hop.
LEMMA Following ==
    ASSUME NEW table, NEW path, NEW n \in Nat
    PROVE  \E w : /\ After(table, path, n) = w[n] /\ w[0] = path
                  /\ \A k \in 1..n : w[k] = Hop(table, w[k - 1])
<1> DEFINE IsWay(w, m) == w = [k \in 0..m |-> IF k = 0 THEN path ELSE Hop(table, w[k - 1])]
           Bad == {m \in Nat : ~\E w : IsWay(w, m)}
<1>1. ASSUME Bad # {} PROVE FALSE
  <2>1. PICK m \in Bad : \A k \in Bad : m <= k
    <3>1. Bad \in SUBSET Nat
      OBVIOUS
    <3> HIDE DEF Bad
    <3> QED BY <1>1, <3>1, LeastNumber
  <2>2. m \in Nat /\ ~\E w : IsWay(w, m)
    OBVIOUS
  <2>3. m # 0
    <3> SUFFICES ASSUME m = 0 PROVE FALSE
      OBVIOUS
    <3> DEFINE w == [k \in 0..0 |-> path]
    <3>1. IsWay(w, 0)
      OBVIOUS
    <3> HIDE DEF w, IsWay
    <3> QED BY <2>2, <3>1
  <2>4. m - 1 \in Nat /\ m - 1 \notin Bad
    <3>1. m - 1 \in Nat /\ ~(m <= m - 1)
      BY <2>2, <2>3
    <3> HIDE DEF Bad
    <3> QED BY <2>1, <3>1
  <2>5. PICK w : IsWay(w, m - 1)
    <3> HIDE DEF IsWay
    <3> QED BY <2>4
  <2> DEFINE v == [k \in 0..m |-> IF k = m THEN Hop(table, w[m - 1]) ELSE w[k]]
  <2>6. \A k \in 0..m : v[k] = IF k = 0 THEN path ELSE Hop(table, v[k - 1])
    <3> TAKE k \in 0..m
    <3> HIDE DEF Bad
    <3>1. k \in Nat /\ k <= m /\ m \in Nat /\ m # 0
      BY <2>2, <2>3
    <3>2. CASE k = m
      <4>1. m - 1 \in 0..m /\ m - 1 # m
        BY <3>1
      <4> QED BY <3>1, <3>2, <4>1
    <3>3. CASE k # m
      <4>1. k \in 0..m - 1 /\ (k # 0 => k - 1 \in 0..m /\ k - 1 # m)
        BY <3>1, <3>3
      <4>2. w[k] = IF k = 0 THEN path ELSE Hop(table, w[k - 1])
        BY <2>5, <4>1
      <4> QED BY <3>1, <3>3, <4>1, <4>2
    <3> QED BY <3>2, <3>3
  <2>7. IsWay(v, m)
    <3>1. v = [k \in 0..m |-> v[k]]
      OBVIOUS
    <3> HIDE DEF v, Bad
    <3> QED BY <2>6, <3>1
  <2> HIDE DEF IsWay, v
  <2> QED BY <2>2, <2>7
<1>2. PICK w : IsWay(w, n)
  <2> HIDE DEF IsWay
  <2> QED BY <1>1
<1> DEFINE after == CHOOSE u : IsWay(u, n)
<1>3. IsWay(after, n)
  <2> HIDE DEF IsWay
  <2> QED BY <1>2
<1>4. After(table, path, n) = after[n]
  BY Zenon DEF After
<1> HIDE DEF after
<1>5. after[0] = path /\ \A k \in 1..n : after[k] = Hop(table, after[k - 1])
  <2>1. 0 \in 0..n /\ \A k \in 1..n : k \in 0..n /\ k # 0
    OBVIOUS
  <2> QED BY <1>3, <2>1
<1> QED BY <1>4, <1>5

\* A path without a language is looked up as it is.
LEMMA PlainIsBare ==
    ASSUME languages \in Seq(Speech), NEW S, NEW p \in Seq(S), Range(p) \cap Speech = {}
    PROVE  ~Prefixed(p)
<1>1. Range(languages) \subseteq Speech
  BY LenProperties, ElementOfSeq DEF Range
<1>2. Len(p) >= 2 => p[2] \in Range(p)
  BY LenProperties DEF Range
<1> QED BY <1>1, <1>2 DEF Prefixed

\* In a closed set of rules the way goes on for ever.
LEMMA ClosedGoesOn ==
    ASSUME languages \in Seq(Speech), NEW table, DOMAIN table \subseteq Sources,
           NEW X \in SUBSET PlainRules(table), \A s \in X : table[s] \in X,
           NEW from \in X, NEW n \in Nat
    PROVE  After(table, from, n) # None
<1>1. ASSUME NEW x \in X PROVE Hop(table, x) \in X /\ x # None
  <2>1. x \in DOMAIN table /\ Plain(x) /\ Internal(x) /\ x \in Seq(Range(Letters)) /\ x # None
    BY RoutingAssumption DEF PlainRules
  <2>2. RedirectAt(table, x) = x
    BY <2>1 DEF RedirectAt, Exact, Plain
  <2>3. ~Prefixed(x)
    BY <2>1, PlainIsBare DEF Plain
  <2>4. findMatchingRedirect(table, x) = table[x]
    BY <2>1, <2>2, <2>3 DEF findMatchingRedirect, Redirected, Plain, normalizeRedirectTargetLanguage
  <2>5. table[x] \in X /\ Internal(table[x])
    BY DEF PlainRules
  <2> QED BY <2>1, <2>4, <2>5 DEF Hop
<1>2. PICK w : /\ After(table, from, n) = w[n] /\ w[0] = from
               /\ \A k \in 1..n : w[k] = Hop(table, w[k - 1])
  BY Following
<1> DEFINE Bad == {k \in 0..n : w[k] \notin X}
<1>3. ASSUME Bad # {} PROVE FALSE
  <2>1. PICK m \in Bad : \A k \in Bad : m <= k
    <3>1. Bad \in SUBSET Nat
      OBVIOUS
    <3> HIDE DEF Bad
    <3> QED BY <1>3, <3>1, LeastNumber
  <2>2. m \in 0..n /\ w[m] \notin X /\ m # 0
    BY <1>2
  <2>3. m \in 1..n /\ m - 1 \in 0..n /\ ~(m <= m - 1)
    BY <2>2
  <2>4. w[m - 1] \in X
    BY <2>1, <2>3
  <2> QED BY <1>1, <1>2, <2>2, <2>3, <2>4
<1>4. w[n] \in X
  <2>1. n \in 0..n
    OBVIOUS
  <2> QED BY <1>3, <2>1
<1> QED BY <1>1, <1>2, <1>4

\* addRedirect() never closes a set of plain rules: what it keeps was probed.
LEMMA NoneClosedByAdding ==
    ASSUME RegistriesFit, NoneClosed(redirects), NEW from \in Sources, NEW to \in Targets,
           addRedirect(from, to)
    PROVE  NoneClosed(redirects')
<1> DEFINE added == With(redirects, from, to)
           kept  == Without(added, from)
<1>1. /\ DOMAIN added = DOMAIN redirects \cup {from} /\ DOMAIN kept = DOMAIN added \ {from}
      /\ \A s \in DOMAIN redirects \ {from} : added[s] = redirects[s]
      /\ \A s \in DOMAIN kept : kept[s] = added[s]
  BY DEF With, Without
<1>2. redirects' = IF hasRedirectLoop(added, Probe(from)) THEN kept ELSE added
  BY DEF addRedirect
<1> HIDE DEF added, kept
<1>3. ASSUME NEW table, table \in {added, kept}, NEW X \in SUBSET PlainRules(table), X # {}, from \notin X
      PROVE  \E s \in X : table[s] \notin X
  <2>1. X \in SUBSET PlainRules(redirects) /\ \A s \in X : table[s] = redirects[s]
    <3>1. \A s \in X : s \in DOMAIN redirects /\ table[s] = redirects[s]
      BY <1>1, <1>3 DEF PlainRules
    <3> QED BY <1>3, <3>1 DEF PlainRules
  <2>2. PICK s \in X : redirects[s] \notin X
    BY <1>3, <2>1 DEF NoneClosed
  <2> QED BY <2>1, <2>2
<1>4. NoneClosed(kept)
  <2>1. \A X \in SUBSET PlainRules(kept) : from \notin X
    BY <1>1 DEF PlainRules
  <2> QED BY <1>3, <2>1 DEF NoneClosed
<1>5. ASSUME ~hasRedirectLoop(added, Probe(from)), NEW X \in SUBSET PlainRules(added), from \in X,
             \A s \in X : added[s] \in X
      PROVE  FALSE
  <2>1. from \in Seq(Range(Letters)) /\ ~Wild(from)
    BY <1>5, RoutingAssumption DEF PlainRules, Plain
  <2>2. Probe(from) = from
    <3>1. from = [i \in DOMAIN from |-> from[i]] /\ \A i \in DOMAIN from : from[i] # "*"
      BY <2>1 DEF Wild, Range
    <3> QED BY <3>1 DEF Probe
  <2>3. DOMAIN added \subseteq Sources
    BY <1>1 DEF RegistriesFit
  <2>4. After(added, from, MaxHops) # None
    <3>1. MaxHops \in Nat /\ languages \in Seq(Speech)
      BY RoutingAssumption DEF RegistriesFit
    <3> QED BY <1>5, <2>3, <3>1, ClosedGoesOn
  <2> QED BY <1>5, <2>2, <2>4 DEF hasRedirectLoop
<1>6. CASE hasRedirectLoop(added, Probe(from))
  BY <1>2, <1>4, <1>6
<1>7. CASE ~hasRedirectLoop(added, Probe(from))
  <2>1. NoneClosed(added)
    BY <1>3, <1>5, <1>7 DEF NoneClosed
  <2> QED BY <1>2, <1>7, <2>1
<1> QED BY <1>6, <1>7

LEMMA NoneEverClosed == RegistriesFit /\ NoneClosed(redirects) /\ [RoutingNext]_routingVars => NoneClosed(redirects')
<1> SUFFICES ASSUME RegistriesFit, NoneClosed(redirects), [RoutingNext]_routingVars PROVE NoneClosed(redirects')
  OBVIOUS
<1>1. CASE \E from \in Sources, to \in Targets : addRedirect(from, to)
  BY <1>1, NoneClosedByAdding
<1>2. CASE redirects' = redirects
  BY <1>2
<1>3. \/ \E from \in Sources, to \in Targets : addRedirect(from, to)
      \/ redirects' = redirects
  BY DEF RoutingNext, addRoute, addGate, removeGate, clearGates, setAvailableLanguages, routingVars
<1> QED BY <1>1, <1>2, <1>3
--------------------------------------------------------------------------------
(* The rule that is used for a path.                                           *)
RuleFor(path) == IF path \in DOMAIN redirects THEN path ELSE stripSupportedLanguagePrefix(path)

AllPlain == \A s \in DOMAIN redirects : Plain(s) /\ Range(redirects[s]) \cap Speech = {}

LEMMA RuleOfHop ==
    ASSUME AllPlain, NEW x, Hop(redirects, x) # None
    PROVE  /\ RuleFor(x) \in DOMAIN redirects /\ (x \in DOMAIN redirects \/ Prefixed(x))
           /\ Hop(redirects, x) = normalizeRedirectTargetLanguage(redirects[RuleFor(x)], x)
           /\ Internal(Hop(redirects, x))
<1> DEFINE D == DOMAIN redirects
<1>1. \A y : findMatchingWildcardRedirect(redirects, y) = None
  BY DEF findMatchingWildcardRedirect, AllPlain, Plain
<1>2. \A y : RedirectAt(redirects, y) = IF y \in D THEN y ELSE None
  BY <1>1 DEF RedirectAt, Exact, AllPlain, Plain
<1>3. x # None /\ Hop(redirects, x) = findMatchingRedirect(redirects, x) /\ Internal(findMatchingRedirect(redirects, x))
  BY DEF Hop, Internal
<1>4. \A s \in D : ~Wild(s)
  BY DEF AllPlain, Plain
<1>5. findMatchingRedirect(redirects, x) # None
  BY <1>3
<1> DEFINE b == stripSupportedLanguagePrefix(x)
<1>6. findMatchingRedirect(redirects, x) =
        IF RedirectAt(redirects, x) # None THEN Redirected(redirects, RedirectAt(redirects, x), x, x)
        ELSE IF Prefixed(x) /\ RedirectAt(redirects, b) # None
          THEN Redirected(redirects, RedirectAt(redirects, b), b, x)
        ELSE None
  BY DEF findMatchingRedirect
<1> HIDE DEF b
<1>7. CASE x \in D
  <2>1. RedirectAt(redirects, x) = x /\ ~Wild(x)
    BY <1>2, <1>4, <1>7
  <2>2. findMatchingRedirect(redirects, x) = normalizeRedirectTargetLanguage(redirects[x], x)
    BY <1>3, <1>6, <2>1 DEF Redirected
  <2> QED BY <1>3, <1>7, <2>2 DEF RuleFor
<1>8. CASE x \notin D
  <2>1. RedirectAt(redirects, x) = None
    BY <1>2, <1>8
  <2>2. Prefixed(x) /\ RedirectAt(redirects, b) # None
    BY <1>5, <1>6, <2>1
  <2>3. b \in D /\ RedirectAt(redirects, b) = b /\ ~Wild(b)
    BY <1>2, <1>4, <2>2
  <2>4. findMatchingRedirect(redirects, x) = normalizeRedirectTargetLanguage(redirects[b], x)
    BY <1>6, <2>1, <2>2, <2>3 DEF Redirected
  <2> QED BY <1>3, <1>8, <2>2, <2>3, <2>4 DEF RuleFor, b
<1> QED BY <1>7, <1>8

\* The target of one rule is the source of the next.
LEMMA RulesFollow ==
    ASSUME RegistriesFit, AllPlain, NEW x, Hop(redirects, x) # None, Hop(redirects, Hop(redirects, x)) # None
    PROVE  LET y == Hop(redirects, x)
           IN  redirects[RuleFor(x)] = RuleFor(y) /\ Internal(RuleFor(y))
<1> DEFINE y == Hop(redirects, x)
           t == redirects[RuleFor(x)]
<1>1. /\ RuleFor(x) \in DOMAIN redirects /\ y = normalizeRedirectTargetLanguage(t, x) /\ Internal(y)
  BY RuleOfHop
<1>2. RuleFor(y) \in DOMAIN redirects /\ (y \in DOMAIN redirects \/ Prefixed(y))
  BY RuleOfHop
<1>3. t \in Seq(Range(Letters)) /\ t # None /\ Range(t) \cap Speech = {}
  BY <1>1, RoutingAssumption DEF RegistriesFit, AllPlain
<1>4. Len(t) \in Nat \ {0}
  BY <1>3, EmptySeq DEF None
<1> HIDE DEF y, t
<1>5. ~Prefixed(t)
  BY <1>3, PlainIsBare DEF RegistriesFit
<1>6. \/ y = t
      \/ Internal(t) /\ Prefixed(x) /\ y = <<"/", x[2]>> \o t
  BY <1>1 DEF normalizeRedirectTargetLanguage
<1>7. CASE y = t
  <2>1. y \in DOMAIN redirects
    BY <1>2, <1>5, <1>7
  <2> QED BY <1>1, <1>7, <2>1 DEF RuleFor, y, t
<1>8. CASE Internal(t) /\ Prefixed(x) /\ y = <<"/", x[2]>> \o t
  <2>1. x[2] \in Speech /\ x[2] \in Range(Letters)
    <3>1. Range(languages) \subseteq Speech
      BY LenProperties, ElementOfSeq DEF Range, RegistriesFit
    <3> QED BY <1>8, <3>1, RoutingAssumption DEF Prefixed
  <2> DEFINE a == <<"/", x[2]>>
  <2>2. a \in Seq(Texts) /\ Len(a) = 2 /\ a[2] = x[2]
    <3>1. x[2] \in Texts /\ "/" \in Texts
      BY <2>1 DEF Texts
    <3> QED BY <3>1, ShortTexts
  <2>3. t \in Seq(Texts)
    <3>1. Range(Letters) \subseteq Texts
      BY DEF Texts
    <3> QED BY <1>3, <3>1, SeqMonotonic
  <2>4. y = a \o t
    BY <1>8
  <2> HIDE DEF a
  <2>5. /\ y \in Seq(Texts) /\ Len(y) = Len(t) + 2
        /\ \A i \in 1..(2 + Len(t)) : y[i] = IF i <= 2 THEN a[i] ELSE t[i - 2]
    <3>1. /\ a \o t \in Seq(Texts) /\ Len(a \o t) = Len(a) + Len(t)
          /\ \A i \in 1..(Len(a) + Len(t)) : (a \o t)[i] = IF i <= Len(a) THEN a[i] ELSE t[i - Len(a)]
      BY <2>2, <2>3, ConcatProperties
    <3> QED BY <1>4, <2>2, <2>4, <3>1
  <2>6. y[2] = x[2] /\ 2 \in DOMAIN y
    <3>1. 2 \in 1..(2 + Len(t)) /\ 2 \in 1..Len(y)
      BY <1>4, <2>5
    <3> QED BY <2>2, <2>5, <3>1, LenProperties
  <2>7. y \notin DOMAIN redirects
    BY <2>1, <2>6 DEF AllPlain, Plain, Range
  <2>8. stripSupportedLanguagePrefix(y) = SubSeq(y, 3, Len(y))
    BY <1>4, <2>5 DEF stripSupportedLanguagePrefix
  <2> DEFINE m == Len(y)
             S == SubSeq(y, 3, m)
  <2>9. m = Len(t) + 2 /\ m \in Nat /\ m >= 3
    BY <1>4, <2>5
  <2> HIDE DEF m
  <2>10. S = t
    <3>1. 3 \in Int /\ m \in Int /\ \A i \in 3..m : y[i] \in Texts
      <4>1. \A i \in 3..m : i \in 1..Len(y)
        BY <2>9 DEF m
      <4>2. \A i \in 3..m : y[i] \in Texts
        BY <2>5, <4>1, ElementOfSeq
      <4> QED BY <2>9, <4>2
    <3>2. /\ S \in Seq(Texts) /\ Len(S) = IF 3 <= m THEN m - 3 + 1 ELSE 0
          /\ \A i \in 1..m - 3 + 1 : S[i] = y[3 + i - 1]
      BY <3>1, SubSeqProperties
    <3> HIDE DEF S
    <3>3. 3 <= m /\ m - 3 + 1 = Len(t)
      BY <1>4, <2>9
    <3>4. ASSUME NEW i \in 1..Len(t) PROVE S[i] = t[i]
      <4>1. 3 + i - 1 \in 1..(2 + Len(t)) /\ ~(3 + i - 1 <= 2) /\ 3 + i - 1 - 2 = i
        BY <1>4
      <4> QED BY <2>5, <3>2, <3>3, <4>1
    <3> QED BY <2>3, <3>2, <3>3, <3>4, SeqEqual
  <2>11. RuleFor(y) = t
    BY <2>7, <2>8, <2>10 DEF RuleFor, m
  <2> QED BY <1>8, <2>11 DEF t, y
<1> QED BY <1>6, <1>7, <1>8

LEMMA WaysEnd == RegistriesFit /\ NoneClosed(redirects) => ExactRedirectsEnd
<1> DEFINE D == DOMAIN redirects
           c == Cardinality(D)
<1> SUFFICES ASSUME RegistriesFit, NoneClosed(redirects), AllPlain, NEW p \in Paths,
                    After(redirects, p, c + 1) # None
             PROVE  FALSE
  BY DEF ExactRedirectsEnd, AllPlain
<1>1. IsFiniteSet(D) /\ c \in Nat
  BY FS_CardinalityType DEF RegistriesFit
<1> DEFINE n == c + 1
<1>2. n \in Nat /\ n # 0 /\ c \in 0..n /\ n = c + 1
  BY <1>1
<1> HIDE DEF n
<1>3. After(redirects, p, n) # None
  BY <1>2
<1>4. PICK w : /\ After(redirects, p, n) = w[n] /\ w[0] = p
               /\ \A k \in 1..n : w[k] = Hop(redirects, w[k - 1])
  BY <1>2, Following
<1>5. Hop(redirects, None) = None
  BY DEF Hop, Internal
<1>6. \A k \in 1..n : w[k] # None
  <2> DEFINE Bad == {k \in 1..n : w[k] = None}
  <2> SUFFICES ASSUME Bad # {} PROVE FALSE
    OBVIOUS
  <2>1. PICK m \in Bad : \A k \in Bad : m >= k
    <3>1. Bad \in SUBSET (1..n)
      OBVIOUS
    <3> HIDE DEF Bad
    <3> QED BY <1>2, <3>1, GreatestNumber
  <2>2. m \in 1..n /\ w[m] = None
    OBVIOUS
  <2>3. m # n
    BY <1>3, <1>4, <2>2
  <2>4. m + 1 \in 1..n /\ m + 1 - 1 = m /\ ~(m >= m + 1)
    BY <1>2, <2>2, <2>3
  <2>5. w[m + 1] = None
    BY <1>4, <1>5, <2>2, <2>4
  <2>6. m + 1 \in Bad
    BY <2>4, <2>5
  <2> HIDE DEF Bad
  <2> QED BY <2>1, <2>4, <2>6
<1> DEFINE f == [k \in 0..c |-> RuleFor(w[k])]
<1>7. ASSUME NEW k \in 0..c PROVE w[k + 1] = Hop(redirects, w[k]) /\ Hop(redirects, w[k]) # None
  <2>1. k + 1 \in 1..n /\ k + 1 - 1 = k
    BY <1>1, <1>2
  <2> QED BY <1>4, <1>6, <2>1
<1>8. \A k \in 0..c : f[k] \in D
  BY <1>7, RuleOfHop
<1>9. ASSUME NEW k \in 0..c, k + 1 \in 0..c PROVE redirects[f[k]] = f[k + 1] /\ Internal(f[k + 1])
  <2>1. Hop(redirects, w[k]) # None /\ Hop(redirects, w[k + 1]) # None /\ w[k + 1] = Hop(redirects, w[k])
    BY <1>7, <1>9
  <2>2. redirects[RuleFor(w[k])] = RuleFor(w[k + 1]) /\ Internal(RuleFor(w[k + 1]))
    BY <2>1, RulesFollow
  <2> QED BY <1>9, <2>2
<1>10. f \in [0..c -> D]
  BY <1>8
<1> HIDE DEF f
<1>11. PICK i, j \in 0..c : i # j /\ f[i] = f[j]
  <2>1. IsFiniteSet(0..c) /\ Cardinality(0..c) = c + 1
    BY <1>1, FS_Interval
  <2>2. Cardinality(D) < Cardinality(0..c)
    BY <1>1, <2>1
  <2> QED BY <1>1, <1>10, <2>1, <2>2, FS_PigeonHole
<1>12. ASSUME NEW a \in 0..c, NEW b \in 0..c, a < b, f[a] = f[b] PROVE FALSE
  <2> DEFINE X == {f[k] : k \in a..(b - 1)}
  <2>1. ASSUME NEW k \in a..(b - 1) PROVE redirects[f[k]] \in X /\ Internal(f[k]) /\ f[k] \in D
    <3>1. k \in 0..c /\ k + 1 \in 0..c
      BY <1>1, <1>12
    <3>2. redirects[f[k]] = f[k + 1]
      BY <1>9, <3>1
    <3>3. f[k + 1] \in X
      <4>1. CASE k + 1 = b
        <5>1. a \in a..(b - 1)
          BY <1>1, <1>12
        <5> QED BY <1>12, <4>1, <5>1
      <4>2. CASE k + 1 # b
        <5>1. k + 1 \in a..(b - 1)
          BY <1>1, <1>12, <4>2
        <5> QED BY <5>1
      <4> QED BY <4>1, <4>2
    <3>4. Internal(f[k])
      <4>1. CASE k # a
        <5>1. k - 1 \in 0..c /\ k - 1 + 1 = k
          BY <1>1, <1>12, <4>1
        <5> QED BY <1>9, <3>1, <5>1
      <4>2. CASE k = a
        <5>1. b - 1 \in 0..c /\ b - 1 + 1 = b
          BY <1>1, <1>12
        <5>2. Internal(f[b])
          BY <1>9, <5>1
        <5> QED BY <1>12, <4>2, <5>2
      <4> QED BY <4>1, <4>2
    <3> QED BY <1>8, <3>1, <3>2, <3>3, <3>4
  <2>2. X \in SUBSET PlainRules(redirects) /\ \A s \in X : redirects[s] \in X
    BY <2>1 DEF PlainRules, AllPlain
  <2>3. X # {}
    <3>1. a \in a..(b - 1)
      BY <1>1, <1>12
    <3> QED BY <3>1
  <2> HIDE DEF X
  <2> QED BY <2>2, <2>3 DEF NoneClosed
<1>13. i < j \/ j < i
  BY <1>1, <1>11
<1> QED BY <1>11, <1>12, <1>13

(* addRedirect() takes back a rule when hasRedirectLoop() finds that it closes  *)
(* a loop.  While no source has a star and no rule names a language, a client  *)
(* that follows redirects therefore meets no rule twice, in whatever order the *)
(* rules were added, replaced and refused, and whatever languages were set     *)
(* between them.                                                               *)
THEOREM RedirectsEnd == RoutingSpec => []ExactRedirectsEnd
<1>1. RoutingInit => RegistriesFit /\ NoneClosed(redirects)
  <2> SUFFICES ASSUME RoutingInit PROVE RegistriesFit /\ NoneClosed(redirects)
    OBVIOUS
  <2>1. DOMAIN redirects = {}
    BY DEF RoutingInit
  <2>2. NoneClosed(redirects)
    BY <2>1 DEF NoneClosed, PlainRules
  <2> QED BY <2>2, RegistriesInitially
<1>2. RegistriesFit /\ NoneClosed(redirects) /\ [RoutingNext]_routingVars
        => (RegistriesFit /\ NoneClosed(redirects))'
  BY RegistriesStayFit, NoneEverClosed
<1>3. RegistriesFit /\ NoneClosed(redirects) => ExactRedirectsEnd
  BY WaysEnd
<1> QED BY <1>1, <1>2, <1>3, PTL DEF RoutingSpec

--------------------------------------------------------------------------------
(* The configuration.  A setting whose value and lock neither a call nor a load
   makes depend on another setting is treated alone: its part of two servers is
   the same if they agree on both.                                             *)
IsServer(s) == /\ s = [value |-> s.value, locked |-> s.locked, client |-> s.client]
               /\ s.value = [k \in Settings |-> s.value[k]]
SameOf(k, s, t) == s.value[k] = t.value[k] /\ (k \in s.locked <=> k \in t.locked)
Ordered == Settings \ Unordered

LEMMA PutSets ==
    ASSUME NEW s, IsServer(s), NEW k \in Settings, NEW x
    PROVE  /\ IsServer(Put(s, k, x)) /\ Put(s, k, x).locked = s.locked
           /\ Put(s, k, x).value[k] = x /\ \A j \in Settings \ {k} : Put(s, k, x).value[j] = s.value[j]
<1> DEFINE v == [s.value EXCEPT ![k] = x]
<1>1. Put(s, k, x) = [value |-> v, locked |-> s.locked, client |-> s.client]
  BY DEF Put, IsServer
<1>2. v = [j \in Settings |-> IF j = k THEN x ELSE s.value[j]]
  BY DEF IsServer
<1> HIDE DEF v
<1> QED BY <1>1, <1>2 DEF IsServer

LEMMA FlagSets ==
    ASSUME NEW s, IsServer(s), NEW k
    PROVE  /\ IsServer(Flag(s, k)) /\ Flag(s, k).locked = s.locked \cup {k}
           /\ Flag(s, k).value = s.value
<1>1. Flag(s, k) = [value |-> s.value, locked |-> s.locked \cup {k}, client |-> s.client]
  BY DEF Flag, IsServer
<1> QED BY <1>1 DEF IsServer

LEMMA LockSets ==
    ASSUME NEW s, IsServer(s), NEW k \in Settings, NEW x
    PROVE  /\ IsServer(Lock(s, k, x)) /\ Lock(s, k, x).locked = s.locked \cup {k}
           /\ Lock(s, k, x).value[k] = x /\ \A j \in Settings \ {k} : Lock(s, k, x).value[j] = s.value[j]
<1> DEFINE p == Put(s, k, x)
<1>1. /\ IsServer(p) /\ p.locked = s.locked
      /\ p.value[k] = x /\ \A j \in Settings \ {k} : p.value[j] = s.value[j]
  BY PutSets
<1>2. Lock(s, k, x) = Flag(p, k)
  BY DEF Lock
<1> HIDE DEF p
<1> QED BY <1>1, <1>2, FlagSets

LEMMA DevModeSets ==
    ASSUME NEW s, IsServer(s)
    PROVE  /\ IsServer(enableDevMode(s)) /\ enableDevMode(s).locked = s.locked
           /\ enableDevMode(s).value["devMode"] = TRUE
           /\ \A k \in Limits : enableDevMode(s).value[k] = 0
           /\ \A k \in Ordered \ {"devMode"} : enableDevMode(s).value[k] = s.value[k]
<1> DEFINE v == [k \in Settings |-> CASE k \in Limits -> 0 [] k = "devMode" -> TRUE
                                     [] k = "removeComments" -> FALSE
                                     [] k = "logLevel" -> "debug" [] OTHER -> s.value[k]]
<1>1. enableDevMode(s) = [value |-> v, locked |-> s.locked, client |-> s.client]
  <2>1. enableDevMode(s) = [s EXCEPT !.value = v]
    BY Zenon DEF enableDevMode
  <2> HIDE DEF v
  <2> QED BY <2>1 DEF IsServer
<1>2. v = [k \in Settings |-> v[k]]
  OBVIOUS
<1>3. "devMode" \in Settings /\ Limits \subseteq Settings
  BY DEF Settings
<1>4. v["devMode"] = TRUE /\ \A k \in Limits : v[k] = 0
  BY <1>3 DEF Limits
<1>5. \A k \in Ordered \ {"devMode"} : v[k] = s.value[k]
  BY DEF Ordered, Unordered
<1> HIDE DEF v
<1> QED BY <1>1, <1>2, <1>4, <1>5 DEF IsServer

LEMMA EmailSets ==
    ASSUME NEW s, IsServer(s), NEW port
    PROVE  /\ IsServer(initEmail(s, port)) /\ initEmail(s, port).locked = s.locked \cup {"sender"}
           /\ initEmail(s, port).value["sender"] = port
           /\ \A k \in Settings \ (EmailLimits \cup {"sender"}) : initEmail(s, port).value[k] = s.value[k]
<1> DEFINE t == [s EXCEPT !.value = [k \in Settings |-> IF k \in EmailLimits THEN Default[k] ELSE @[k]]]
           v == [k \in Settings |-> IF k \in EmailLimits THEN Default[k] ELSE s.value[k]]
<1>1. t = [value |-> v, locked |-> s.locked, client |-> s.client]
  BY DEF IsServer
<1>2. IsServer(t) /\ t.locked = s.locked /\ \A k \in Settings \ EmailLimits : t.value[k] = s.value[k]
  BY <1>1 DEF IsServer
<1>3. initEmail(s, port) = Lock(t, "sender", port) /\ "sender" \in Settings
  BY DEF initEmail, Settings
<1> HIDE DEF t
<1> QED BY <1>2, <1>3, LockSets

LEMMA CalledArms ==
    ASSUME NEW s, NEW j, NEW x
    PROVE  /\ j = "devMode" => Called(s, j, x) = Flag(enableDevMode(s), j)
           /\ j \in Sizes => Called(s, j, x) = SetSize(s, j, x)
           /\ j = "webpQuality" => Called(s, j, x) = Lock(s, j, Percent(x))
           /\ j = "sender" => Called(s, j, x) = initEmail(s, x)
           /\ j \in EmailLimits => Called(s, j, x) = SetEmailLimit(s, j, x)
           /\ j \in PoolSizes => Called(s, j, x) = SetPoolSize(s, j, x)
           /\ j \in NameLists => Called(s, j, x) = AddName(s, j, x)
           /\ j \in Strictness \cup {"autoBracketKeys"} => Called(s, j, x) = Put(s, j, x)
           /\ j \notin {"devMode", "webpQuality", "sender", "autoBracketKeys"} \cup Sizes \cup EmailLimits
                       \cup PoolSizes \cup NameLists \cup Strictness
              => Called(s, j, x) = Lock(s, j, x)
<1> USE DEF Called, Sizes, EmailLimits, PoolSizes, NameLists, Strictness
<1>1. j = "devMode" => Called(s, j, x) = Flag(enableDevMode(s), j)
  OBVIOUS
<1>2. j \in Sizes => Called(s, j, x) = SetSize(s, j, x)
  OBVIOUS
<1>3. j = "webpQuality" => Called(s, j, x) = Lock(s, j, Percent(x))
  OBVIOUS
<1>4. j = "sender" => Called(s, j, x) = initEmail(s, x)
  OBVIOUS
<1>5. j \in EmailLimits => Called(s, j, x) = SetEmailLimit(s, j, x)
  OBVIOUS
<1>6. j \in PoolSizes => Called(s, j, x) = SetPoolSize(s, j, x)
  OBVIOUS
<1>7. j \in NameLists => Called(s, j, x) = AddName(s, j, x)
  OBVIOUS
<1>8. j \in Strictness \cup {"autoBracketKeys"} => Called(s, j, x) = Put(s, j, x)
  OBVIOUS
<1>9. j \notin {"devMode", "webpQuality", "sender", "autoBracketKeys"} \cup Sizes \cup EmailLimits
               \cup PoolSizes \cup NameLists \cup Strictness
      => Called(s, j, x) = Lock(s, j, x)
  OBVIOUS
<1> HIDE DEF Called, Sizes, EmailLimits, PoolSizes, NameLists, Strictness
<1> QED BY <1>1, <1>2, <1>3, <1>4, <1>5, <1>6, <1>7, <1>8, <1>9

\* What a setter of k makes of it.
Own(k, x) == IF k = "devMode" THEN TRUE
             ELSE IF k \in Sizes THEN AtLeastOne(x)
             ELSE IF k = "webpQuality" THEN Percent(x) ELSE x

LEMMA CalledElsewhere ==
    ASSUME NEW s, IsServer(s), NEW j \in Settings, NEW x
    PROVE  /\ IsServer(Called(s, j, x))
           /\ \A k \in Ordered \ {j} : SameOf(k, Called(s, j, x), s)
<1>0. Ordered \subseteq Settings /\ Ordered \cap EmailLimits = {}
  BY DEF Ordered, Unordered
<1>1. ASSUME NEW t, t \in {Lock(s, j, y) : y \in {x, AtLeastOne(x), Percent(x)}} \cup {Put(s, j, x), s}
      PROVE  IsServer(t) /\ \A k \in Ordered \ {j} : SameOf(k, t, s)
  <2>1. CASE t = s
    BY <2>1 DEF SameOf
  <2>2. CASE t = Put(s, j, x)
    BY <2>2, <1>0, PutSets DEF SameOf
  <2>3. ASSUME NEW y, t = Lock(s, j, y) PROVE IsServer(t) /\ \A k \in Ordered \ {j} : SameOf(k, t, s)
    BY <2>3, <1>0, LockSets DEF SameOf
  <2> QED BY <1>1, <2>1, <2>2, <2>3
<1>2. CASE j = "devMode"
  <2> DEFINE t == enableDevMode(s)
  <2>1. Called(s, j, x) = Flag(t, j)
    BY <1>2, CalledArms
  <2>2. IsServer(t) /\ t.locked = s.locked /\ \A k \in Ordered \ {j} : t.value[k] = s.value[k]
    BY <1>2, DevModeSets
  <2> HIDE DEF t
  <2> QED BY <2>1, <2>2, <1>0, FlagSets DEF SameOf
<1>3. CASE j = "sender"
  <2>1. Called(s, j, x) = initEmail(s, x)
    BY <1>3, CalledArms
  <2> QED BY <2>1, <1>3, <1>0, EmailSets DEF SameOf
<1>4. CASE j \in EmailLimits
  <2>1. Called(s, j, x) = SetEmailLimit(s, j, x)
    BY <1>4, CalledArms
  <2>2. SetEmailLimit(s, j, x) \in {s, Lock(s, j, x)}
    BY DEF SetEmailLimit
  <2> QED BY <2>1, <2>2, <1>1
<1>5. CASE j \in PoolSizes
  <2>1. Called(s, j, x) = SetPoolSize(s, j, x)
    BY <1>5, CalledArms
  <2>2. SetPoolSize(s, j, x) \in {s, Lock(s, j, x)}
    BY DEF SetPoolSize
  <2> QED BY <2>1, <2>2, <1>1
<1>6. CASE j \in NameLists
  <2> DEFINE y == s.value[j] \cup {x}
  <2>1. Called(s, j, x) = Put(s, j, y)
    <3>1. Called(s, j, x) = AddName(s, j, x)
      BY <1>6, CalledArms
    <3> QED BY <3>1 DEF AddName
  <2> HIDE DEF y
  <2> QED BY <2>1, <1>0, PutSets DEF SameOf
<1>7. CASE j \notin {"devMode", "sender"} \cup EmailLimits \cup PoolSizes \cup NameLists
  <2>1. Called(s, j, x) \in {Lock(s, j, y) : y \in {x, AtLeastOne(x), Percent(x)}} \cup {Put(s, j, x), s}
    <3>1. CASE j \in Sizes
      BY <3>1, CalledArms DEF SetSize
    <3>2. CASE j \notin Sizes /\ j = "webpQuality"
      BY <3>2, CalledArms
    <3>3. CASE j \notin Sizes /\ j # "webpQuality" /\ j \in Strictness \cup {"autoBracketKeys"}
      BY <3>3, CalledArms
    <3>4. CASE j \notin Sizes /\ j # "webpQuality" /\ j \notin Strictness \cup {"autoBracketKeys"}
      BY <1>7, <3>4, CalledArms
    <3> QED BY <3>1, <3>2, <3>3, <3>4
  <2> QED BY <2>1, <1>1
<1> QED BY <1>2, <1>3, <1>4, <1>5, <1>6, <1>7

LEMMA CalledHere ==
    ASSUME NEW s, IsServer(s), NEW k \in Ordered, NEW x
    PROVE  LET t == Called(s, k, x) IN
           \/ k \in PoolSizes /\ x = 0 /\ t = s
           \/ k \in NameLists /\ t.value[k] = s.value[k] \cup {x} /\ (k \in t.locked <=> k \in s.locked)
           \/ k \notin NameLists /\ ~(k \in PoolSizes /\ x = 0) /\ t.value[k] = Own(k, x) /\ k \in t.locked
<1>0. k \in Settings /\ k \notin EmailLimits \cup Strictness \cup {"autoBracketKeys"}
  BY DEF Ordered, Unordered
<1> DEFINE t == Called(s, k, x)
<1>1. CASE k = "devMode"
  <2> DEFINE d == enableDevMode(s)
  <2>1. t = Flag(d, k)
    BY <1>1, CalledArms
  <2>2. IsServer(d) /\ d.value[k] = TRUE
    BY <1>1, DevModeSets
  <2> HIDE DEF d, t
  <2>3. t.value[k] = TRUE /\ k \in t.locked
    BY <2>1, <2>2, FlagSets
  <2>4. Own(k, x) = TRUE /\ k \notin NameLists \cup PoolSizes
    BY <1>1 DEF Own, NameLists, PoolSizes
  <2>5. t.value[k] = Own(k, x)
    BY <2>3, <2>4, Zenon
  <2>6. k \notin NameLists /\ ~(k \in PoolSizes /\ x = 0)
    BY <2>4
  <2> QED BY <2>3, <2>5, <2>6, Zenon DEF t
<1>2. CASE k = "sender"
  <2>1. t = initEmail(s, x)
    BY <1>2, CalledArms
  <2>2. Own(k, x) = x /\ k \notin NameLists \cup PoolSizes
    BY <1>2 DEF Own, Sizes, NameLists, PoolSizes
  <2> QED BY <2>1, <2>2, <1>2, EmailSets
<1>3. CASE k \in PoolSizes
  <2>1. t = SetPoolSize(s, k, x)
    BY <1>3, CalledArms
  <2>2. Own(k, x) = x /\ k \notin NameLists
    BY <1>3 DEF Own, Sizes, NameLists, PoolSizes
  <2> QED BY <2>1, <2>2, <1>3, <1>0, LockSets DEF SetPoolSize
<1>4. CASE k \in NameLists
  <2>1. t = Put(s, k, s.value[k] \cup {x})
    <3>1. t = AddName(s, k, x)
      BY <1>4, CalledArms
    <3> QED BY <3>1 DEF AddName
  <2> QED BY <2>1, <1>4, <1>0, PutSets
<1>5. CASE k \notin {"devMode", "sender"} \cup PoolSizes \cup NameLists
  <2>1. t = Lock(s, k, Own(k, x))
    <3>1. CASE k \in Sizes
      BY <1>5, <3>1, CalledArms DEF SetSize, Own
    <3>2. CASE k \notin Sizes /\ k = "webpQuality"
      BY <1>5, <3>2, CalledArms DEF Own
    <3>3. CASE k \notin Sizes /\ k # "webpQuality"
      BY <1>5, <1>0, <3>3, CalledArms DEF Own
    <3> QED BY <3>1, <3>2, <3>3
  <2> QED BY <2>1, <1>5, <1>0, LockSets
<1> QED BY <1>1, <1>2, <1>3, <1>4, <1>5

(* What development mode and the sender of a load leave of a server.            *)
MadeOf(s, m, c) ==
    /\ IsServer(m)
    /\ \A k \in Ordered \ {"sender"} : k \in m.locked <=> k \in s.locked
    /\ \A k \in Ordered \ {"devMode", "sender"} : m.value[k] = s.value[k]
    /\ "devMode" \notin s.locked /\ getBool(c, "devMode", FALSE) => m.value["devMode"] = TRUE
    /\ "devMode" \in s.locked \/ ~getBool(c, "devMode", FALSE) => m.value["devMode"] = s.value["devMode"]
    /\ "sender" \notin s.locked /\ get(c, "sender", "") # ""
       => m.value["sender"] = <<getInt(c, "smtpPort", 587)>> /\ "sender" \in m.locked
    /\ "sender" \in s.locked \/ get(c, "sender", "") = ""
       => m.value["sender"] = s.value["sender"] /\ ("sender" \in m.locked <=> "sender" \in s.locked)

LEMMA MadeFirst ==
    ASSUME NEW s, IsServer(s), NEW c
    PROVE  MadeOf(s, LoadSender(LoadDevMode(s, c), c), c)
<1> DEFINE d == LoadDevMode(s, c)
           m == LoadSender(d, c)
<1>1. IsServer(d) /\ d.locked = s.locked /\ \A k \in Ordered \ {"devMode"} : d.value[k] = s.value[k]
  BY DevModeSets DEF LoadDevMode
<1>2. /\ "devMode" \notin s.locked /\ getBool(c, "devMode", FALSE) => d.value["devMode"] = TRUE
      /\ "devMode" \in s.locked \/ ~getBool(c, "devMode", FALSE) => d = s
  BY DevModeSets DEF LoadDevMode
<1> HIDE DEF d
<1>3. Ordered \subseteq Settings \ EmailLimits /\ "sender" \in Ordered /\ "devMode" \in Ordered
  BY DEF Ordered, Unordered, Settings, Limits, EmailLimits, Strictness
<1>4. /\ IsServer(m) /\ \A k \in Ordered \ {"sender"} : m.value[k] = d.value[k] /\ (k \in m.locked <=> k \in d.locked)
      /\ "sender" \notin d.locked /\ get(c, "sender", "") # ""
         => m.value["sender"] = <<getInt(c, "smtpPort", 587)>> /\ "sender" \in m.locked
      /\ "sender" \in d.locked \/ get(c, "sender", "") = "" => m = d
  <2>1. CASE "sender" \notin d.locked /\ get(c, "sender", "") # ""
    <3> DEFINE port == <<getInt(c, "smtpPort", 587)>>
    <3>1. m = initEmail(d, port)
      BY <2>1 DEF LoadSender
    <3> HIDE DEF m, port
    <3>2. /\ IsServer(m) /\ m.locked = d.locked \cup {"sender"} /\ m.value["sender"] = port
          /\ \A k \in Settings \ (EmailLimits \cup {"sender"}) : m.value[k] = d.value[k]
      BY <3>1, <1>1, EmailSets
    <3>3. \A k \in Ordered \ {"sender"} : m.value[k] = d.value[k] /\ (k \in m.locked <=> k \in d.locked)
      BY <3>2, <1>3
    <3>4. m.value["sender"] = <<getInt(c, "smtpPort", 587)>> /\ "sender" \in m.locked
      BY <3>2 DEF port
    <3> QED BY <2>1, <3>2, <3>3, <3>4, Zenon
  <2>2. CASE ~("sender" \notin d.locked /\ get(c, "sender", "") # "")
    <3>1. m = d
      BY <2>2 DEF LoadSender
    <3> HIDE DEF m
    <3> QED BY <2>2, <3>1, <1>1
  <2> QED BY <2>1, <2>2
<1> HIDE DEF m
<1>5. "sender" # "devMode"
  OBVIOUS
<1>6. \A k \in Ordered \ {"sender"} : k \in m.locked <=> k \in s.locked
  BY <1>1, <1>4
<1>7. \A k \in Ordered \ {"devMode", "sender"} : m.value[k] = s.value[k]
  BY <1>1, <1>4
<1>8. m.value["devMode"] = d.value["devMode"] /\ d.value["sender"] = s.value["sender"]
  BY <1>1, <1>3, <1>4, <1>5
<1>9. IsServer(m) /\ d.locked = s.locked
  BY <1>1, <1>4
<1>10. /\ "devMode" \notin s.locked /\ getBool(c, "devMode", FALSE) => m.value["devMode"] = TRUE
       /\ "devMode" \in s.locked \/ ~getBool(c, "devMode", FALSE) => m.value["devMode"] = s.value["devMode"]
  BY <1>2, <1>8, Zenon
<1>11. /\ "sender" \notin s.locked /\ get(c, "sender", "") # ""
          => m.value["sender"] = <<getInt(c, "smtpPort", 587)>> /\ "sender" \in m.locked
       /\ "sender" \in s.locked \/ get(c, "sender", "") = ""
          => m.value["sender"] = s.value["sender"] /\ ("sender" \in m.locked <=> "sender" \in s.locked)
  BY <1>4, <1>8, <1>9, Zenon
<1> QED BY <1>6, <1>7, <1>9, <1>10, <1>11, Zenon DEF m, d, MadeOf

LEMMA LoadSets ==
    ASSUME NEW s, IsServer(s), NEW c
    PROVE  LET m == LoadSender(LoadDevMode(s, c), c)
               t == loadConfig(s, c)
           IN /\ IsServer(t) /\ t.locked = m.locked
              /\ \A k \in Settings : t.value[k] = IF k \in m.locked THEN m.value[k] ELSE Read(m, c, k)
<1> DEFINE m == LoadSender(LoadDevMode(s, c), c)
           v == [k \in Settings |-> IF k \in m.locked THEN m.value[k] ELSE Read(m, c, k)]
           r == [m EXCEPT !.value = [k \in Settings |-> IF k \in m.locked THEN @[k] ELSE Read(m, c, k)]]
           t == loadConfig(s, c)
<1>1. IsServer(m)
  BY MadeFirst DEF MadeOf
<1>2. t = initializeDatabaseFromConfig(r)
  BY DEF loadConfig
<1> HIDE DEF m, t
<1>3. r = [value |-> v, locked |-> m.locked, client |-> m.client]
  BY <1>1 DEF IsServer
<1>4. v = [k \in Settings |-> v[k]]
  OBVIOUS
<1> HIDE DEF v, r
<1>5. \E cl : t = [r EXCEPT !.client = cl]
  BY <1>2 DEF initializeDatabaseFromConfig
<1>6. \E cl : t = [value |-> v, locked |-> m.locked, client |-> cl]
  BY <1>3, <1>5
<1>7. IsServer(t) /\ t.locked = m.locked /\ t.value = v
  BY <1>6, <1>4 DEF IsServer
<1> QED BY <1>7 DEF m, t, v

LEMMA ReadArms ==
    ASSUME NEW s, NEW c, NEW k
    PROVE  /\ k \in Names \cup {"port"} => Read(s, c, k) = ReadAddress(s, c, k)
           /\ k \in Switches => Read(s, c, k) = ReadSwitch(s, c, k)
           /\ k = "webpQuality" => Read(s, c, k) = ReadQuality(s, c)
           /\ k \in Sizes => Read(s, c, k) = ReadSize(s, c, k)
           /\ k = "maxRequests" => Read(s, c, k) = ReadRequests(s, c)
           /\ k \in Limits => Read(s, c, k) = ReadLimit(s, c, k)
           /\ k \in NameLists => Read(s, c, k) = ReadObfuscation(s, c, k)
           /\ k = "backend" => Read(s, c, k) = ReadBackend(c)
           /\ k \in PoolSizes => Read(s, c, k) = ReadPoolSize(s, c, k)
           /\ k = "postgres" => Read(s, c, k) = ReadPostgres(s, c)
           /\ k = "sqlite" => Read(s, c, k) = get(c, k, s.value[k])
           /\ k \in {"devMode", "sender", "removeComments"} => Read(s, c, k) = s.value[k]
<1> USE DEF Read, Names, Switches, Sizes, Limits, EmailLimits, NameLists, Strictness, PoolSizes
<1>1. k \in Names \cup {"port"} => Read(s, c, k) = ReadAddress(s, c, k)
  OBVIOUS
<1>2. k \in Switches => Read(s, c, k) = ReadSwitch(s, c, k)
  OBVIOUS
<1>3. k = "webpQuality" => Read(s, c, k) = ReadQuality(s, c)
  OBVIOUS
<1>4. k \in Sizes => Read(s, c, k) = ReadSize(s, c, k)
  OBVIOUS
<1>5. k = "maxRequests" => Read(s, c, k) = ReadRequests(s, c)
  OBVIOUS
<1>6. k \in Limits => Read(s, c, k) = ReadLimit(s, c, k)
  OBVIOUS
<1>7. k \in NameLists => Read(s, c, k) = ReadObfuscation(s, c, k)
  OBVIOUS
<1>8. k = "backend" => Read(s, c, k) = ReadBackend(c)
  OBVIOUS
<1>9. k \in PoolSizes => Read(s, c, k) = ReadPoolSize(s, c, k)
  OBVIOUS
<1>10. k = "postgres" => Read(s, c, k) = ReadPostgres(s, c)
  OBVIOUS
<1>11. k = "sqlite" => Read(s, c, k) = get(c, k, s.value[k])
  OBVIOUS
<1>12. k \in {"devMode", "sender", "removeComments"} => Read(s, c, k) = s.value[k]
  OBVIOUS
<1> HIDE DEF Read, Names, Switches, Sizes, Limits, EmailLimits, NameLists, Strictness, PoolSizes
<1> QED BY <1>1, <1>2, <1>3, <1>4, <1>5, <1>6, <1>7, <1>8, <1>9, <1>10, <1>11, <1>12

LEMMA ReadAlike ==
    ASSUME NEW s, NEW t, NEW c, NEW k \in Ordered, s.value[k] = t.value[k]
    PROVE  Read(s, c, k) = Read(t, c, k)
<1>1. \/ k \in Names \cup {"port"} \/ k \in Switches \/ k = "webpQuality" \/ k \in Sizes
      \/ k = "maxRequests" \/ k \in NameLists \/ k = "backend" \/ k \in PoolSizes
      \/ k = "postgres" \/ k = "sqlite" \/ k \in {"devMode", "sender", "removeComments"}
  BY DEF Ordered, Unordered, Settings
<1>2. ReadAddress(s, c, k) = ReadAddress(t, c, k)
  BY DEF ReadAddress
<1>3. ReadSwitch(s, c, k) = ReadSwitch(t, c, k)
  BY DEF ReadSwitch
<1>4. k = "webpQuality" => ReadQuality(s, c) = ReadQuality(t, c)
  BY DEF ReadQuality
<1>5. ReadSize(s, c, k) = ReadSize(t, c, k)
  BY DEF ReadSize
<1>6. k = "maxRequests" => ReadRequests(s, c) = ReadRequests(t, c)
  BY DEF ReadRequests
<1>7. k \in NameLists => ReadObfuscation(s, c, k) = ReadObfuscation(t, c, k)
  BY DEF ReadObfuscation, NameLists, Strictness
<1>8. ReadPoolSize(s, c, k) = ReadPoolSize(t, c, k)
  BY DEF ReadPoolSize
<1>9. k = "postgres" => ReadPostgres(s, c) = ReadPostgres(t, c)
  BY DEF ReadPostgres
<1>10. get(c, k, s.value[k]) = get(c, k, t.value[k])
  OBVIOUS
<1> QED BY <1>1, <1>2, <1>3, <1>4, <1>5, <1>6, <1>7, <1>8, <1>9, <1>10, ReadArms

LEMMA NamesAreAdded ==
    ASSUME NEW s, NEW c, NEW k \in NameLists
    PROVE  Read(s, c, k) = s.value[k] \cup ({get(c, k, "")} \ {""})
<1>1. Read(s, c, k) = ReadObfuscation(s, c, k)
  BY ReadArms
<1> QED BY <1>1 DEF ReadObfuscation, NameLists, Strictness

(* A load does to a setting what its value and lock say.                       *)
LEMMA LoadAlike ==
    ASSUME NEW s, NEW t, IsServer(s), IsServer(t), NEW k \in Ordered, SameOf(k, s, t), NEW c
    PROVE  SameOf(k, loadConfig(s, c), loadConfig(t, c))
<1> DEFINE m == LoadSender(LoadDevMode(s, c), c)
           n == LoadSender(LoadDevMode(t, c), c)
           a == loadConfig(s, c)
           b == loadConfig(t, c)
<1>0. MadeOf(s, m, c) /\ MadeOf(t, n, c)
  BY MadeFirst
<1>3. k \in Settings
  BY DEF Ordered
<1>4. /\ a.locked = m.locked /\ a.value[k] = IF k \in m.locked THEN m.value[k] ELSE Read(m, c, k)
      /\ b.locked = n.locked /\ b.value[k] = IF k \in n.locked THEN n.value[k] ELSE Read(n, c, k)
  BY <1>3, LoadSets
<1> HIDE DEF a, b, m, n
<1>1. (k \in m.locked <=> k \in n.locked) /\ m.value[k] = n.value[k]
  <2>1. CASE k = "devMode"
    <3>1. k \in Ordered \ {"sender"}
      BY <2>1
    <3>2. (k \in m.locked <=> k \in s.locked) /\ (k \in n.locked <=> k \in t.locked)
      BY <3>1, <1>0 DEF MadeOf
    <3>3. CASE "devMode" \notin s.locked /\ getBool(c, "devMode", FALSE)
      <4>1. m.value["devMode"] = TRUE /\ n.value["devMode"] = TRUE
        BY <2>1, <3>3, <1>0 DEF SameOf, MadeOf
      <4> QED BY <2>1, <3>2, <4>1, Zenon DEF SameOf
    <3>4. CASE "devMode" \in s.locked \/ ~getBool(c, "devMode", FALSE)
      <4>1. m.value["devMode"] = s.value["devMode"] /\ n.value["devMode"] = t.value["devMode"]
        BY <2>1, <3>4, <1>0 DEF SameOf, MadeOf
      <4> QED BY <2>1, <3>2, <4>1, Zenon DEF SameOf
    <3> QED BY <3>3, <3>4, Zenon
  <2>2. CASE k = "sender"
    <3>1. CASE "sender" \notin s.locked /\ get(c, "sender", "") # ""
      <4>1. /\ m.value["sender"] = <<getInt(c, "smtpPort", 587)>> /\ "sender" \in m.locked
            /\ n.value["sender"] = <<getInt(c, "smtpPort", 587)>> /\ "sender" \in n.locked
        BY <2>2, <3>1, <1>0 DEF SameOf, MadeOf
      <4> QED BY <2>2, <4>1, Zenon
    <3>2. CASE "sender" \in s.locked \/ get(c, "sender", "") = ""
      <4>1. /\ m.value["sender"] = s.value["sender"] /\ ("sender" \in m.locked <=> "sender" \in s.locked)
            /\ n.value["sender"] = t.value["sender"] /\ ("sender" \in n.locked <=> "sender" \in t.locked)
        BY <2>2, <3>2, <1>0 DEF SameOf, MadeOf
      <4> QED BY <2>2, <4>1, Zenon DEF SameOf
    <3> QED BY <3>1, <3>2, Zenon
  <2>3. CASE k \in Ordered \ {"devMode", "sender"}
    BY <2>3, <1>0 DEF SameOf, MadeOf
  <2> QED BY <2>1, <2>2, <2>3
<1>2. Read(m, c, k) = Read(n, c, k)
  BY <1>1, ReadAlike
<1>5. SameOf(k, a, b)
  BY <1>1, <1>2, <1>4 DEF SameOf
<1> QED BY <1>5 DEF a, b

LEMMA LoadKeeps ==
    ASSUME NEW s, IsServer(s), NEW k \in Ordered, k \in s.locked, NEW c
    PROVE  SameOf(k, loadConfig(s, c), s)
<1> DEFINE m == LoadSender(LoadDevMode(s, c), c)
           a == loadConfig(s, c)
<1>0. MadeOf(s, m, c)
  BY MadeFirst
<1>2. k \in Settings
  BY DEF Ordered
<1>3. a.locked = m.locked /\ a.value[k] = IF k \in m.locked THEN m.value[k] ELSE Read(m, c, k)
  BY <1>2, LoadSets
<1> HIDE DEF a, m
<1>1. k \in m.locked /\ m.value[k] = s.value[k]
  <2>1. CASE k = "devMode"
    <3>1. k \in Ordered \ {"sender"}
      BY <2>1
    <3>2. k \in m.locked
      BY <3>1, <1>0 DEF MadeOf
    <3>3. m.value["devMode"] = s.value["devMode"]
      BY <2>1, <1>0 DEF MadeOf
    <3> QED BY <2>1, <3>2, <3>3, Zenon
  <2>2. CASE k = "sender"
    BY <2>2, <1>0 DEF MadeOf
  <2>3. CASE k \in Ordered \ {"devMode", "sender"}
    BY <2>3, <1>0 DEF MadeOf
  <2> QED BY <2>1, <2>2, <2>3
<1>4. SameOf(k, a, s)
  BY <1>1, <1>3 DEF SameOf
<1> QED BY <1>4 DEF a

LEMMA LoadAddsNames ==
    ASSUME NEW s, IsServer(s), NEW k \in NameLists, NEW c
    PROVE  /\ k \in loadConfig(s, c).locked <=> k \in s.locked
           /\ loadConfig(s, c).value[k] = s.value[k] \cup IF k \in s.locked THEN {} ELSE {get(c, k, "")} \ {""}
<1> DEFINE m == LoadSender(LoadDevMode(s, c), c)
           a == loadConfig(s, c)
<1>1. k \in Ordered \ {"devMode", "sender"}
  BY DEF Ordered, Unordered, Settings, NameLists, Limits, EmailLimits, Strictness
<1>0. MadeOf(s, m, c)
  BY MadeFirst
<1>3. k \in Settings
  BY <1>1 DEF Ordered
<1>4. a.locked = m.locked /\ a.value[k] = IF k \in m.locked THEN m.value[k] ELSE Read(m, c, k)
  BY <1>3, LoadSets
<1> HIDE DEF a, m
<1>2. (k \in m.locked <=> k \in s.locked) /\ m.value[k] = s.value[k]
  BY <1>0, <1>1 DEF MadeOf
<1>5. Read(m, c, k) = m.value[k] \cup ({get(c, k, "")} \ {""})
  BY NamesAreAdded
<1>6. /\ k \in a.locked <=> k \in s.locked
      /\ a.value[k] = s.value[k] \cup IF k \in s.locked THEN {} ELSE {get(c, k, "")} \ {""}
  BY <1>2, <1>4, <1>5
<1> QED BY <1>6 DEF a

(* A setter and a load may change places.                                      *)
LEMMA CallsCommute ==
    ASSUME NEW s, IsServer(s), NEW j \in Settings, NEW x, NEW k \in Ordered, NEW c
    PROVE  SameOf(k, loadConfig(Called(s, j, x), c), Called(loadConfig(s, c), j, x))
<1> DEFINE d == Called(s, j, x)
           l == loadConfig(s, c)
           a == loadConfig(d, c)
           b == Called(l, j, x)
<1>1. IsServer(d) /\ IsServer(l)
  BY CalledElsewhere, LoadSets
<1>2. CASE k # j
  <2>1. SameOf(k, d, s) /\ SameOf(k, b, l)
    BY <1>1, <1>2, CalledElsewhere
  <2> HIDE DEF d, b
  <2>2. SameOf(k, a, l)
    BY <1>1, <2>1, LoadAlike
  <2> HIDE DEF a, l
  <2>3. SameOf(k, a, b)
    BY <2>1, <2>2 DEF SameOf
  <2> QED BY <2>3 DEF a, b, l, d
<1>3. CASE k = j
  <2>1. \/ k \in PoolSizes /\ x = 0 /\ d = s
        \/ k \in NameLists /\ d.value[k] = s.value[k] \cup {x} /\ (k \in d.locked <=> k \in s.locked)
        \/ k \notin NameLists /\ ~(k \in PoolSizes /\ x = 0) /\ d.value[k] = Own(k, x) /\ k \in d.locked
    BY <1>3, CalledHere
  <2>2. \/ k \in PoolSizes /\ x = 0 /\ b = l
        \/ k \in NameLists /\ b.value[k] = l.value[k] \cup {x} /\ (k \in b.locked <=> k \in l.locked)
        \/ k \notin NameLists /\ ~(k \in PoolSizes /\ x = 0) /\ b.value[k] = Own(k, x) /\ k \in b.locked
    BY <1>1, <1>3, CalledHere
  <2>3. NameLists \cap PoolSizes = {}
    BY DEF NameLists, PoolSizes
  <2>4. CASE k \in PoolSizes /\ x = 0
    <3>1. d = s /\ b = l
      <4> HIDE DEF d, b, l
      <4> QED BY <2>1, <2>2, <2>3, <2>4
    <3> QED BY <3>1 DEF SameOf
  <2>5. CASE k \in NameLists
    <3>1. k \in l.locked <=> k \in s.locked
      BY <2>5, LoadAddsNames
    <3>2. l.value[k] = s.value[k] \cup IF k \in s.locked THEN {} ELSE {get(c, k, "")} \ {""}
      BY <2>5, LoadAddsNames
    <3> HIDE DEF d, l, b
    <3>3. k \in a.locked <=> k \in d.locked
      BY <1>1, <2>5, LoadAddsNames
    <3>4. a.value[k] = d.value[k] \cup IF k \in d.locked THEN {} ELSE {get(c, k, "")} \ {""}
      BY <1>1, <2>5, LoadAddsNames
    <3> HIDE DEF a
    <3>5. d.value[k] = s.value[k] \cup {x} /\ (k \in d.locked <=> k \in s.locked)
      BY <2>1, <2>3, <2>5
    <3>6. b.value[k] = l.value[k] \cup {x} /\ (k \in b.locked <=> k \in l.locked)
      BY <2>2, <2>3, <2>5
    <3>7. k \in a.locked <=> k \in b.locked
      BY <3>1, <3>3, <3>5, <3>6
    <3>8. a.value[k] = b.value[k]
      BY <3>2, <3>4, <3>5, <3>6
    <3>9. SameOf(k, a, b)
      BY <3>7, <3>8 DEF SameOf
    <3> QED BY <3>9, <1>3 DEF a, b, d, l
  <2>6. CASE k \notin NameLists /\ ~(k \in PoolSizes /\ x = 0)
    <3> HIDE DEF d, l, b
    <3>1. d.value[k] = Own(k, x) /\ k \in d.locked
      BY <2>1, <2>6
    <3>2. b.value[k] = Own(k, x) /\ k \in b.locked
      BY <2>2, <2>6
    <3>3. SameOf(k, a, d)
      BY <1>1, <3>1, LoadKeeps
    <3> HIDE DEF a
    <3>4. SameOf(k, a, b)
      BY <3>1, <3>2, <3>3 DEF SameOf
    <3> QED BY <3>4, <1>3 DEF a, b, d, l
  <2> QED BY <2>4, <2>5, <2>6
<1> QED BY <1>2, <1>3

(* What several calls make of a server, call by call.                          *)
LEMMA CallByCall ==
    ASSUME NEW s, NEW called, Len(called) \in Nat
    PROVE  \E w : /\ AppliedAll(s, called) = w[Len(called)] /\ w[0] = s
                  /\ \A k \in 1..Len(called) : w[k] = Applied(w[k - 1], called[k])
<1> DEFINE n == Len(called)
           IsWay(w, m) == w = [k \in 0..m |-> IF k = 0 THEN s ELSE Applied(w[k - 1], called[k])]
           Bad == {m \in Nat : ~\E w : IsWay(w, m)}
<1>1. ASSUME Bad # {} PROVE FALSE
  <2>1. PICK m \in Bad : \A k \in Bad : m <= k
    <3>1. Bad \in SUBSET Nat
      OBVIOUS
    <3> HIDE DEF Bad
    <3> QED BY <1>1, <3>1, LeastNumber
  <2>2. m \in Nat /\ ~\E w : IsWay(w, m)
    OBVIOUS
  <2>3. m # 0
    <3> SUFFICES ASSUME m = 0 PROVE FALSE
      OBVIOUS
    <3> DEFINE w == [k \in 0..0 |-> s]
    <3>1. IsWay(w, 0)
      OBVIOUS
    <3> HIDE DEF w, IsWay
    <3> QED BY <2>2, <3>1
  <2>4. m - 1 \in Nat /\ m - 1 \notin Bad
    <3>1. m - 1 \in Nat /\ ~(m <= m - 1)
      BY <2>2, <2>3
    <3> HIDE DEF Bad
    <3> QED BY <2>1, <3>1
  <2>5. PICK w : IsWay(w, m - 1)
    <3> HIDE DEF IsWay
    <3> QED BY <2>4
  <2> DEFINE v == [k \in 0..m |-> IF k = m THEN Applied(w[m - 1], called[m]) ELSE w[k]]
  <2>6. \A k \in 0..m : v[k] = IF k = 0 THEN s ELSE Applied(v[k - 1], called[k])
    <3> TAKE k \in 0..m
    <3> HIDE DEF Bad
    <3>1. k \in Nat /\ k <= m /\ m \in Nat /\ m # 0
      BY <2>2, <2>3
    <3>2. CASE k = m
      <4>1. m - 1 \in 0..m /\ m - 1 # m
        BY <3>1
      <4> QED BY <3>1, <3>2, <4>1
    <3>3. CASE k # m
      <4>1. k \in 0..m - 1 /\ (k # 0 => k - 1 \in 0..m /\ k - 1 # m)
        BY <3>1, <3>3
      <4>2. w[k] = IF k = 0 THEN s ELSE Applied(w[k - 1], called[k])
        BY <2>5, <4>1
      <4> QED BY <3>1, <3>3, <4>1, <4>2
    <3> QED BY <3>2, <3>3
  <2>7. IsWay(v, m)
    <3>1. v = [k \in 0..m |-> v[k]]
      OBVIOUS
    <3> HIDE DEF v, Bad
    <3> QED BY <2>6, <3>1
  <2> HIDE DEF IsWay, v
  <2> QED BY <2>2, <2>7
<1>2. PICK w : IsWay(w, n)
  <2> HIDE DEF IsWay
  <2> QED BY <1>1
<1> DEFINE so == CHOOSE u : IsWay(u, n)
<1>3. IsWay(so, n)
  <2> HIDE DEF IsWay
  <2> QED BY <1>2
<1>4. AppliedAll(s, called) = so[n]
  BY Zenon DEF AppliedAll
<1> HIDE DEF so
<1>5. so[0] = s /\ \A k \in 1..n : so[k] = Applied(so[k - 1], called[k])
  <2>1. 0 \in 0..n /\ \A k \in 1..n : k \in 0..n /\ k # 0
    OBVIOUS
  <2> QED BY <1>3, <2>1
<1> QED BY <1>4, <1>5

LEMMA NoCalls == ASSUME NEW s, NEW called, Len(called) = 0 PROVE AppliedAll(s, called) = s
BY CallByCall, SMTT(30)

LEMMA OneCallMore ==
    ASSUME NEW s, NEW S, NEW called \in Seq(S), NEW e \in S
    PROVE  AppliedAll(s, Append(called, e)) = Applied(AppliedAll(s, called), e)
<1> DEFINE n == Len(called)
           more == Append(called, e)
<1>1. n \in Nat /\ Len(more) = n + 1 /\ more[n + 1] = e /\ \A i \in 1..n : more[i] = called[i]
  BY LenProperties, AppendProperties
<1> HIDE DEF more, n
<1>2. PICK w : /\ AppliedAll(s, called) = w[n] /\ w[0] = s
               /\ \A k \in 1..n : w[k] = Applied(w[k - 1], called[k])
  BY <1>1, CallByCall, SMTT(30) DEF n
<1>3. Len(more) \in Nat
  BY <1>1
<1>4. PICK v : /\ AppliedAll(s, more) = v[n + 1] /\ v[0] = s
               /\ \A k \in 1..(n + 1) : v[k] = Applied(v[k - 1], more[k])
  <2>1. \E v : /\ AppliedAll(s, more) = v[Len(more)] /\ v[0] = s
               /\ \A k \in 1..Len(more) : v[k] = Applied(v[k - 1], more[k])
    BY <1>3, CallByCall, SMTT(30)
  <2> QED BY <1>1, <2>1
<1> DEFINE Bad == {k \in 0..n : v[k] # w[k]}
<1>5. Bad = {}
  <2> SUFFICES ASSUME Bad # {} PROVE FALSE
    OBVIOUS
  <2>1. PICK m \in Bad : \A k \in Bad : m <= k
    <3>1. Bad \in SUBSET Nat
      BY <1>1
    <3> HIDE DEF Bad
    <3> QED BY <3>1, LeastNumber
  <2>2. m \in 0..n /\ m # 0 /\ v[m] # w[m]
    BY <1>2, <1>4
  <2>3. m - 1 \in 0..n /\ m - 1 \notin Bad /\ m \in 1..n /\ m \in 1..(n + 1)
    <3>1. m - 1 \in 0..n /\ m \in 1..n /\ m \in 1..(n + 1) /\ ~(m <= m - 1)
      BY <1>1, <2>2
    <3> HIDE DEF Bad
    <3> QED BY <2>1, <3>1
  <2>4. v[m - 1] = w[m - 1] /\ more[m] = called[m]
    BY <1>1, <2>3
  <2> HIDE DEF Bad
  <2> QED BY <1>2, <1>4, <2>2, <2>3, <2>4
<1>6. v[n] = w[n]
  BY <1>1, <1>5
<1>7. v[n + 1] = Applied(v[n], e)
  <2>1. n + 1 \in 1..(n + 1) /\ (n + 1) - 1 = n
    BY <1>1
  <2> QED BY <1>1, <1>4, <2>1
<1> QED BY <1>2, <1>4, <1>6, <1>7 DEF more

LEMMA CalledAlike ==
    ASSUME NEW s, NEW t, IsServer(s), IsServer(t), NEW k \in Ordered, SameOf(k, s, t), NEW j \in Settings, NEW x
    PROVE  SameOf(k, Called(s, j, x), Called(t, j, x))
<1> DEFINE a == Called(s, j, x)
           b == Called(t, j, x)
<1>1. CASE k # j
  <2>1. SameOf(k, a, s) /\ SameOf(k, b, t)
    BY <1>1, CalledElsewhere
  <2> HIDE DEF a, b
  <2>2. SameOf(k, a, b)
    BY <2>1 DEF SameOf
  <2> QED BY <2>2 DEF a, b
<1>2. CASE k = j
  <2>1. \/ k \in PoolSizes /\ x = 0 /\ a = s
        \/ k \in NameLists /\ a.value[k] = s.value[k] \cup {x} /\ (k \in a.locked <=> k \in s.locked)
        \/ k \notin NameLists /\ ~(k \in PoolSizes /\ x = 0) /\ a.value[k] = Own(k, x) /\ k \in a.locked
    BY <1>2, CalledHere
  <2>2. \/ k \in PoolSizes /\ x = 0 /\ b = t
        \/ k \in NameLists /\ b.value[k] = t.value[k] \cup {x} /\ (k \in b.locked <=> k \in t.locked)
        \/ k \notin NameLists /\ ~(k \in PoolSizes /\ x = 0) /\ b.value[k] = Own(k, x) /\ k \in b.locked
    BY <1>2, CalledHere
  <2>3. NameLists \cap PoolSizes = {}
    BY DEF NameLists, PoolSizes
  <2> HIDE DEF a, b
  <2>4. SameOf(k, a, b)
    BY <2>1, <2>2, <2>3 DEF SameOf
  <2> QED BY <2>4 DEF a, b
<1> QED BY <1>1, <1>2

LEMMA AppliedServer ==
    ASSUME NEW s, IsServer(s), NEW e, e[1] \in Settings \cup {"load"}
    PROVE  IsServer(Applied(s, e))
BY CalledElsewhere, LoadSets DEF Applied

LEMMA AllApplied ==
    ASSUME NEW s, IsServer(s), NEW S, \A e \in S : e[1] \in Settings \cup {"load"}, NEW called \in Seq(S)
    PROVE  IsServer(AppliedAll(s, called))
<1> DEFINE n == Len(called)
<1>1. n \in Nat /\ \A i \in 1..n : called[i] \in S
  BY LenProperties, ElementOfSeq
<1>2. PICK w : /\ AppliedAll(s, called) = w[n] /\ w[0] = s
               /\ \A k \in 1..n : w[k] = Applied(w[k - 1], called[k])
  BY <1>1, CallByCall, SMTT(30)
<1> HIDE DEF n
<1> DEFINE Bad == {k \in 0..n : ~IsServer(w[k])}
<1>3. Bad = {}
  <2> SUFFICES ASSUME Bad # {} PROVE FALSE
    OBVIOUS
  <2>1. PICK m \in Bad : \A k \in Bad : m <= k
    <3>1. Bad \in SUBSET Nat
      BY <1>1
    <3> HIDE DEF Bad
    <3> QED BY <3>1, LeastNumber
  <2>2. m \in 0..n /\ m # 0 /\ ~IsServer(w[m])
    BY <1>2
  <2>3. m - 1 \in 0..n /\ m - 1 \notin Bad /\ m \in 1..n
    <3>1. m - 1 \in 0..n /\ m \in 1..n /\ ~(m <= m - 1)
      BY <1>1, <2>2
    <3> HIDE DEF Bad
    <3> QED BY <2>1, <3>1
  <2>4. IsServer(w[m - 1]) /\ called[m][1] \in Settings \cup {"load"} /\ w[m] = Applied(w[m - 1], called[m])
    BY <1>1, <1>2, <2>3
  <2> QED BY <2>2, <2>4, AppliedServer
<1> QED BY <1>1, <1>2, <1>3

(* So may a setter and all the loads after it.                                 *)
LEMMA LoadsCommute ==
    ASSUME NEW s, IsServer(s), NEW S, \A e \in S : e[1] = "load", NEW called \in Seq(S),
           NEW j \in Settings, NEW x, NEW k \in Ordered
    PROVE  SameOf(k, AppliedAll(Called(s, j, x), called), Called(AppliedAll(s, called), j, x))
<1> DEFINE n == Len(called)
           d == Called(s, j, x)
<1>1. n \in Nat /\ \A i \in 1..n : called[i] \in S
  BY LenProperties, ElementOfSeq
<1>2. PICK w : /\ AppliedAll(s, called) = w[n] /\ w[0] = s
               /\ \A i \in 1..n : w[i] = Applied(w[i - 1], called[i])
  <2>1. Len(called) \in Nat
    BY <1>1
  <2>2. \E w : /\ AppliedAll(s, called) = w[Len(called)] /\ w[0] = s
               /\ \A i \in 1..Len(called) : w[i] = Applied(w[i - 1], called[i])
    BY <2>1, CallByCall, SMTT(30)
  <2> QED BY <2>2
<1>3. PICK v : /\ AppliedAll(d, called) = v[n] /\ v[0] = d
               /\ \A i \in 1..n : v[i] = Applied(v[i - 1], called[i])
  <2> HIDE DEF d
  <2> QED BY <1>1, CallByCall, SMTT(30)
<1>4. IsServer(d)
  BY CalledElsewhere
<1> HIDE DEF n
<1> DEFINE Good(i) == IsServer(w[i]) /\ IsServer(v[i]) /\ SameOf(k, v[i], Called(w[i], j, x))
           Bad == {i \in 0..n : ~Good(i)}
<1>5. Good(0)
  <2>1. SameOf(k, v[0], Called(w[0], j, x))
    BY <1>2, <1>3, Zenon DEF SameOf
  <2> QED BY <1>2, <1>3, <1>4, <2>1
<1>6. ASSUME NEW i \in 1..n, Good(i - 1) PROVE Good(i)
  <2> DEFINE c == called[i][2]
             p == w[i - 1]
             q == v[i - 1]
  <2>1. w[i] = loadConfig(p, c) /\ v[i] = loadConfig(q, c)
    BY <1>1, <1>2, <1>3 DEF Applied
  <2> HIDE DEF c
  <2>2. IsServer(p) /\ IsServer(q) /\ SameOf(k, q, Called(p, j, x))
    BY <1>6
  <2> HIDE DEF p, q, Good
  <2>3. IsServer(w[i]) /\ IsServer(v[i]) /\ IsServer(Called(p, j, x))
    BY <2>1, <2>2, LoadSets, CalledElsewhere
  <2>4. SameOf(k, v[i], loadConfig(Called(p, j, x), c))
    BY <2>1, <2>2, <2>3, LoadAlike
  <2>5. SameOf(k, loadConfig(Called(p, j, x), c), Called(w[i], j, x))
    BY <2>1, <2>2, CallsCommute
  <2>6. SameOf(k, v[i], Called(w[i], j, x))
    BY <2>4, <2>5 DEF SameOf
  <2> QED BY <2>3, <2>6 DEF Good
<1> HIDE DEF Good
<1>7. Bad = {}
  <2> SUFFICES ASSUME Bad # {} PROVE FALSE
    OBVIOUS
  <2>1. PICK m \in Bad : \A i \in Bad : m <= i
    <3>1. Bad \in SUBSET Nat
      BY <1>1
    <3> HIDE DEF Bad
    <3> QED BY <3>1, LeastNumber
  <2>2. m \in 0..n /\ m # 0 /\ ~Good(m)
    BY <1>5
  <2>3. m - 1 \in 0..n /\ m - 1 \notin Bad /\ m \in 1..n
    <3>1. m - 1 \in 0..n /\ m \in 1..n /\ ~(m <= m - 1)
      BY <1>1, <2>2
    <3> HIDE DEF Bad
    <3> QED BY <2>1, <3>1
  <2>4. Good(m - 1)
    BY <2>3
  <2> QED BY <1>6, <2>2, <2>3, <2>4
<1>8. Good(n)
  BY <1>1, <1>7
<1>9. SameOf(k, v[n], Called(w[n], j, x))
  BY <1>8 DEF Good
<1> QED BY <1>2, <1>3, <1>9

(* The settings in force are those of the same setters, called before the same
   loads.                                                                      *)
SettingsInv ==
    /\ IsServer(server)
    /\ \E S : setters \in Seq(S) /\ \A e \in S : e[1] \in Settings \ {"load"}
    /\ \E S : loads \in Seq(S) /\ \A e \in S : e[1] = "load"
    /\ \A k \in Ordered : SameOf(k, server, Reordered)

LEMMA FreshServer == IsServer(Fresh)
<1>1. Default = [k \in Settings |-> Default[k]]
  BY DEF Default
<1> QED BY <1>1 DEF Fresh, IsServer

LEMMA SettingsStart == ConfigInit => SettingsInv
<1> SUFFICES ASSUME ConfigInit PROVE SettingsInv
  OBVIOUS
<1>1. server = Fresh /\ setters = << >> /\ loads = << >>
  BY DEF ConfigInit
<1>3. IsServer(Fresh)
  BY FreshServer
<1>4. Reordered = Fresh
  <2>1. Len(<< >>) = 0
    OBVIOUS
  <2> QED BY <1>1, <2>1, NoCalls DEF Reordered
<1>5. << >> \in Seq({})
  OBVIOUS
<1>7. \A k \in Ordered : SameOf(k, server, Reordered)
  BY <1>1, <1>4 DEF SameOf
<1>8. /\ \E S : setters \in Seq(S) /\ \A e \in S : e[1] \in Settings \ {"load"}
      /\ \E S : loads \in Seq(S) /\ \A e \in S : e[1] = "load"
  <2>1. \E S : setters \in Seq(S) /\ \A e \in S : e[1] \in Settings \ {"load"}
    <3> WITNESS {}
    <3> QED BY <1>1, <1>5
  <2>2. \E S : loads \in Seq(S) /\ \A e \in S : e[1] = "load"
    <3> WITNESS {}
    <3> QED BY <1>1, <1>5
  <2> QED BY <2>1, <2>2
<1> QED BY <1>1, <1>3, <1>7, <1>8 DEF SettingsInv

LEMMA MoreCalls ==
    ASSUME NEW S, NEW called \in Seq(S), NEW e
    PROVE  Append(called, e) \in Seq(S \cup {e}) /\ called \in Seq(S \cup {e})
<1>1. called \in Seq(S \cup {e})
  BY SeqMonotonic
<1> QED BY <1>1, AppendProperties

LEMMA SettingsStep == SettingsInv /\ [ConfigNext]_configVars => SettingsInv'
<1> SUFFICES ASSUME SettingsInv, [ConfigNext]_configVars PROVE SettingsInv'
  OBVIOUS
<1>1. PICK S : setters \in Seq(S) /\ \A e \in S : e[1] \in Settings \ {"load"}
  BY DEF SettingsInv
<1>2. PICK T : loads \in Seq(T) /\ \A e \in T : e[1] = "load"
  BY DEF SettingsInv
<1>3. Ordered \subseteq Settings /\ DOMAIN Offered \subseteq Settings \ {"load"}
  BY OfferedAssumption DEF Ordered
<1> DEFINE chosen == AppliedAll(Fresh, setters)
           reached == AppliedAll(chosen, loads)
<1>4. IsServer(chosen)
  BY <1>1, FreshServer, AllApplied
<1>5. IsServer(reached)
  <2> HIDE DEF chosen
  <2> QED BY <1>2, <1>4, AllApplied
<1>6. IsServer(server) /\ \A k \in Ordered : SameOf(k, server, reached)
  BY DEF SettingsInv, Reordered
<1>7. ASSUME NEW k \in DOMAIN Offered, NEW x \in Offered[k],
             server' = Applied(server, <<k, x>>), setters' = Append(setters, <<k, x>>), loads' = loads
      PROVE  SettingsInv'
  <2> DEFINE e == <<k, x>>
             U == S \cup {e}
  <2>1. k \in Settings /\ k # "load" /\ e[1] = k /\ e[2] = x
    BY <1>3
  <2>2. setters' = Append(setters, e) /\ server' = Applied(server, e)
    BY <1>7
  <2> HIDE DEF e
  <2>3. setters' \in Seq(U) /\ setters \in Seq(U) /\ e \in U /\ \A u \in U : u[1] \in Settings \ {"load"}
    BY <1>1, <2>1, <2>2, MoreCalls
  <2>4. server' = Called(server, k, x)
    BY <2>1, <2>2 DEF Applied
  <2>5. AppliedAll(Fresh, setters') = Called(chosen, k, x)
    <3>1. AppliedAll(Fresh, setters') = Applied(chosen, e)
      BY <2>2, <2>3, OneCallMore
    <3> HIDE DEF chosen
    <3> QED BY <2>1, <3>1 DEF Applied
  <2> DEFINE after == AppliedAll(Called(chosen, k, x), loads)
  <2>6. Reordered' = after
    <3>1. Reordered' = AppliedAll(AppliedAll(Fresh, setters'), loads')
      BY DEF Reordered
    <3> QED BY <1>7, <2>5, <3>1
  <2>7. \A i \in Ordered : SameOf(i, server', after)
    <3> TAKE i \in Ordered
    <3> HIDE DEF chosen
    <3>1. SameOf(i, after, Called(reached, k, x))
      BY <1>2, <1>4, <2>1, LoadsCommute
    <3> HIDE DEF reached, after
    <3>2. SameOf(i, server', Called(reached, k, x))
      BY <1>5, <1>6, <2>1, <2>4, CalledAlike
    <3> QED BY <3>1, <3>2 DEF SameOf
  <2>8. IsServer(server')
    BY <1>6, <2>1, <2>4, CalledElsewhere
  <2>9. \A i \in Ordered : SameOf(i, server, Reordered)'
    BY <2>6, <2>7 DEF SameOf
  <2>10. \E V : setters' \in Seq(V) /\ \A u \in V : u[1] \in Settings \ {"load"}
    BY <2>3
  <2>11. \E V : loads' \in Seq(V) /\ \A u \in V : u[1] = "load"
    BY <1>2, <1>7
  <2>12. IsServer(server)'
    BY <2>8 DEF IsServer
  <2> QED BY <2>9, <2>10, <2>11, <2>12 DEF SettingsInv
<1>8. ASSUME NEW c, loads' = Append(loads, <<"load", c>>), server' = Applied(server, <<"load", c>>),
             setters' = setters
      PROVE  SettingsInv'
  <2> DEFINE e == <<"load", c>>
             U == T \cup {e}
  <2>1. e[1] = "load" /\ e[2] = c
    OBVIOUS
  <2>2. loads' = Append(loads, e) /\ server' = Applied(server, e)
    BY <1>8
  <2> HIDE DEF e
  <2>3. loads' \in Seq(U) /\ loads \in Seq(U) /\ e \in U /\ \A u \in U : u[1] = "load"
    BY <1>2, <2>1, <2>2, MoreCalls
  <2>4. server' = loadConfig(server, c)
    BY <2>1, <2>2 DEF Applied
  <2>5. Reordered' = loadConfig(reached, c)
    <3>1. Reordered' = AppliedAll(chosen, loads')
      BY <1>8 DEF Reordered
    <3>2. AppliedAll(chosen, loads') = Applied(reached, e)
      <4> HIDE DEF chosen
      <4> QED BY <2>2, <2>3, OneCallMore
    <3> HIDE DEF reached, chosen
    <3> QED BY <2>1, <3>1, <3>2 DEF Applied
  <2>6. \A i \in Ordered : SameOf(i, server', Reordered')
    <3> HIDE DEF reached
    <3> QED BY <1>5, <1>6, <2>4, <2>5, LoadAlike
  <2>7. IsServer(server')
    BY <1>6, <2>4, LoadSets
  <2>8. \A i \in Ordered : SameOf(i, server, Reordered)'
    BY <2>6 DEF SameOf
  <2>9. \E V : loads' \in Seq(V) /\ \A u \in V : u[1] = "load"
    BY <2>3
  <2>10. \E V : setters' \in Seq(V) /\ \A u \in V : u[1] \in Settings \ {"load"}
    BY <1>1, <1>8
  <2>11. IsServer(server)'
    BY <2>7 DEF IsServer
  <2> QED BY <2>8, <2>9, <2>10, <2>11 DEF SettingsInv
<1>9. CASE Configure
  BY <1>7, <1>9 DEF Configure
<1>10. CASE Load
  <2>1. \E c : loads' = Append(loads, <<"load", c>>) /\ server' = Applied(server, Last(loads'))
    BY <1>10 DEF Load
  <2>2. PICK c : loads' = Append(loads, <<"load", c>>) /\ server' = Applied(server, Last(loads'))
    BY <2>1
  <2> DEFINE e == <<"load", c>>
  <2> HIDE DEF e
  <2>3. Last(Append(loads, e)) = e
    BY <1>2, MoreCalls, LenProperties, AppendProperties DEF Last
  <2>4. server' = Applied(server, <<"load", c>>)
    BY <2>2, <2>3 DEF e
  <2> QED BY <1>8, <1>10, <2>2, <2>4 DEF Load
<1>11. CASE UNCHANGED <<server, setters, loads>>
  BY <1>11 DEF SettingsInv, SameOf, Reordered, IsServer
<1>12. ConfigNext \/ UNCHANGED configVars
  OBVIOUS
<1> QED BY <1>9, <1>10, <1>11, <1>12 DEF ConfigNext, Clear, configVars

Uncached(s) == s.value["devMode"] => \A k \in Limits \ s.locked : s.value[k] = 0

LEMMA CalledUncached ==
    ASSUME NEW s, IsServer(s), Uncached(s), NEW j \in Settings, NEW x
    PROVE  Uncached(Called(s, j, x))
<1>0. Limits \subseteq Settings /\ "devMode" \in Settings /\ "devMode" \in Ordered
      /\ Limits \cap (EmailLimits \cup {"sender", "devMode"}) = {}
  BY DEF Limits, Settings, EmailLimits, Ordered, Unordered, Strictness
<1> DEFINE t == Called(s, j, x)
<1>1. CASE j = "devMode"
  <2> DEFINE d == enableDevMode(s)
  <2>1. t = Flag(d, j)
    BY <1>1, CalledArms
  <2>2. IsServer(d) /\ \A k \in Limits : d.value[k] = 0
    BY DevModeSets
  <2> HIDE DEF d, t
  <2>3. \A k \in Limits : t.value[k] = 0
    BY <2>1, <2>2, FlagSets
  <2> QED BY <2>3 DEF Uncached, t
<1>2. CASE j # "devMode"
  <2>1. t.value["devMode"] = s.value["devMode"]
    BY <1>0, <1>2, CalledElsewhere DEF SameOf
  <2>2. s.locked \subseteq t.locked /\ \A k \in Limits \ t.locked : t.value[k] = s.value[k]
    <3>1. CASE j = "sender"
      <4>1. t = initEmail(s, x)
        BY <3>1, CalledArms
      <4> QED BY <4>1, <1>0, EmailSets
    <3>2. CASE j \in NameLists \cup Strictness \cup {"autoBracketKeys"}
      <4>1. t = AddName(s, j, x) \/ t = Put(s, j, x)
        BY <3>2, CalledArms
      <4>2. \E y : t = Put(s, j, y)
        BY <4>1 DEF AddName
      <4>3. j \notin Limits
        BY <3>2 DEF Limits, NameLists, Strictness
      <4> HIDE DEF t
      <4> QED BY <4>2, <4>3, <1>0, PutSets
    <3>3. CASE j \notin {"sender", "autoBracketKeys"} \cup NameLists \cup Strictness
      <4>1. \/ t = SetSize(s, j, x) \/ t = Lock(s, j, Percent(x)) \/ t = SetEmailLimit(s, j, x)
            \/ t = SetPoolSize(s, j, x) \/ t = Lock(s, j, x)
        BY <1>2, <3>3, CalledArms
      <4>2. t = s \/ \E y : t = Lock(s, j, y)
        BY <4>1 DEF SetSize, SetEmailLimit, SetPoolSize
      <4> HIDE DEF t
      <4> QED BY <4>2, <1>0, LockSets
    <3> QED BY <3>1, <3>2, <3>3
  <2> HIDE DEF t
  <2>3. Uncached(t)
    BY <2>1, <2>2 DEF Uncached
  <2> QED BY <2>3 DEF t
<1> QED BY <1>1, <1>2

LEMMA LoadUncached ==
    ASSUME NEW s, IsServer(s), Uncached(s), NEW c
    PROVE  Uncached(loadConfig(s, c))
<1>0. Limits \subseteq Settings /\ "devMode" \in Settings
      /\ Limits \cap (EmailLimits \cup {"sender", "devMode"}) = {} /\ "devMode" \notin EmailLimits
  BY DEF Limits, Settings, EmailLimits
<1> DEFINE d == LoadDevMode(s, c)
           m == LoadSender(d, c)
           t == loadConfig(s, c)
<1>1. IsServer(d) /\ Uncached(d)
  <2> DEFINE q == enableDevMode(s)
  <2>1. d = s \/ d = q
    BY DEF LoadDevMode
  <2>2. IsServer(q) /\ \A k \in Limits : q.value[k] = 0
    BY DevModeSets
  <2> HIDE DEF d, q
  <2>3. Uncached(q)
    BY <2>2 DEF Uncached
  <2> QED BY <2>1, <2>2, <2>3
<1>2. m = d \/ \E port : m = initEmail(d, port)
  BY DEF LoadSender
<1>3. t.locked = m.locked /\ \A k \in Settings : t.value[k] = IF k \in m.locked THEN m.value[k] ELSE Read(m, c, k)
  BY LoadSets
<1> HIDE DEF d, m, t
<1>4. IsServer(m) /\ Uncached(m)
  <2>1. ASSUME NEW port, m = initEmail(d, port) PROVE IsServer(m) /\ Uncached(m)
    BY <1>0, <1>1, <2>1, EmailSets DEF Uncached
  <2> QED BY <1>1, <1>2, <2>1
<1>5. t.value["devMode"] = m.value["devMode"]
  BY <1>0, <1>3, ReadArms
<1>6. ASSUME m.value["devMode"], NEW k \in Limits \ t.locked PROVE t.value[k] = 0
  <2>1. t.value[k] = ReadLimit(m, c, k) /\ m.value[k] = 0
    BY <1>0, <1>3, <1>4, <1>6, ReadArms DEF Uncached
  <2>2. ReadLimit(m, c, k) = m.value[k]
    BY <1>6, Zenon DEF ReadLimit
  <2> QED BY <2>1, <2>2
<1>7. Uncached(t)
  BY <1>5, <1>6 DEF Uncached
<1> QED BY <1>7 DEF t

LEMMA FreshUncached == Uncached(Fresh)
<1>1. "devMode" \in Settings /\ "devMode" \in Off
  BY DEF Settings, Off
<1>2. Fresh.value["devMode"] = FALSE
  BY <1>1, Zenon DEF Fresh, Default
<1> QED BY <1>2, Zenon DEF Uncached

LEMMA UncachedStep == SettingsInv /\ Uncached(server) /\ [ConfigNext]_configVars => Uncached(server)'
<1> SUFFICES ASSUME SettingsInv, Uncached(server), [ConfigNext]_configVars PROVE Uncached(server)'
  OBVIOUS
<1>0. IsServer(server)
  BY DEF SettingsInv
<1>1. ASSUME NEW e, e[1] \in Settings \cup {"load"}, server' = Applied(server, e) PROVE Uncached(server')
  BY <1>0, <1>1, CalledUncached, LoadUncached DEF Applied
<1>2. CASE Configure
  <2>1. PICK k \in DOMAIN Offered : \E x \in Offered[k] : server' = Applied(server, <<k, x>>)
    BY <1>2 DEF Configure
  <2>2. PICK x : server' = Applied(server, <<k, x>>)
    BY <2>1
  <2>3. <<k, x>>[1] \in Settings
    BY OfferedAssumption
  <2>4. Uncached(server')
    BY <1>1, <2>2, <2>3
  <2> QED BY <2>4 DEF Uncached
<1>3. CASE Load
  <2>1. PICK c : loads' = Append(loads, <<"load", c>>) /\ server' = Applied(server, Last(loads'))
    BY <1>3 DEF Load
  <2>2. PICK S : loads \in Seq(S)
    BY DEF SettingsInv
  <2> DEFINE e == <<"load", c>>
  <2>3. e[1] = "load"
    OBVIOUS
  <2> HIDE DEF e
  <2>4. Last(Append(loads, e)) = e
    BY <2>2, MoreCalls, LenProperties, AppendProperties DEF Last
  <2>5. server' = Applied(server, e)
    BY <2>1, <2>4 DEF e
  <2>6. Uncached(server')
    BY <1>1, <2>3, <2>5
  <2> QED BY <2>6 DEF Uncached
<1>4. CASE UNCHANGED server
  BY <1>4 DEF Uncached
<1>5. ConfigNext \/ UNCHANGED configVars
  OBVIOUS
<1> QED BY <1>2, <1>3, <1>4, <1>5 DEF ConfigNext, Clear, configVars

(* No setter makes a database client ...                                       *)
LEMMA ClientKept ==
    ASSUME NEW s, IsServer(s), NEW j \in Settings, NEW x
    PROVE  Called(s, j, x).client = s.client
<1>1. ASSUME NEW t, IsServer(t), NEW y PROVE Put(t, j, y).client = t.client
  <2>1. Put(t, j, y) = [value |-> [t.value EXCEPT ![j] = y], locked |-> t.locked, client |-> t.client]
    BY <1>1 DEF Put, IsServer
  <2> QED BY <2>1
<1>2. ASSUME NEW t, IsServer(t), NEW k PROVE Flag(t, k).client = t.client
  <2>1. Flag(t, k) = [value |-> t.value, locked |-> t.locked \cup {k}, client |-> t.client]
    BY <1>2 DEF Flag, IsServer
  <2> QED BY <2>1
<1>3. ASSUME NEW t, IsServer(t), NEW y PROVE Lock(t, j, y).client = t.client
  <2>1. IsServer(Put(t, j, y)) /\ Lock(t, j, y) = Flag(Put(t, j, y), j)
    BY <1>3, PutSets DEF Lock
  <2> QED BY <1>1, <1>2, <1>3, <2>1
<1>4. CASE j = "devMode"
  <2> DEFINE t == enableDevMode(s)
             v == t.value
  <2>1. Called(s, j, x) = Flag(t, j) /\ IsServer(t)
    BY <1>4, CalledArms, DevModeSets
  <2>2. \E w : t = [s EXCEPT !.value = w]
    BY Zenon DEF enableDevMode
  <2>3. t.client = s.client
    BY <2>2 DEF IsServer
  <2> HIDE DEF t
  <2> QED BY <1>2, <2>1, <2>3
<1>5. CASE j = "sender"
  <2> DEFINE t == [s EXCEPT !.value = [k \in Settings |-> IF k \in EmailLimits THEN Default[k] ELSE @[k]]]
             v == [k \in Settings |-> IF k \in EmailLimits THEN Default[k] ELSE s.value[k]]
  <2>1. Called(s, j, x) = Lock(t, j, x)
    BY <1>5, CalledArms DEF initEmail
  <2>2. t = [value |-> v, locked |-> s.locked, client |-> s.client]
    BY DEF IsServer
  <2>3. IsServer(t) /\ t.client = s.client
    BY <2>2 DEF IsServer
  <2> HIDE DEF t
  <2> QED BY <1>3, <2>1, <2>3
<1>6. CASE j \in EmailLimits
  <2>1. Called(s, j, x) \in {s, Lock(s, j, x)}
    BY <1>6, CalledArms DEF SetEmailLimit
  <2> QED BY <1>3, <2>1
<1>7. CASE j \in PoolSizes
  <2>1. Called(s, j, x) \in {s, Lock(s, j, x)}
    BY <1>7, CalledArms DEF SetPoolSize
  <2> QED BY <1>3, <2>1
<1>8. CASE j \in NameLists
  <2>1. Called(s, j, x) = Put(s, j, s.value[j] \cup {x})
    BY <1>8, CalledArms DEF AddName
  <2> QED BY <1>1, <2>1
<1>9. CASE j \notin {"devMode", "sender"} \cup EmailLimits \cup PoolSizes \cup NameLists
  <2>1. CASE j \in Sizes
    BY <1>3, <2>1, CalledArms DEF SetSize
  <2>2. CASE j \notin Sizes /\ j = "webpQuality"
    BY <1>3, <2>2, CalledArms
  <2>3. CASE j \notin Sizes /\ j # "webpQuality" /\ j \in Strictness \cup {"autoBracketKeys"}
    BY <1>1, <2>3, CalledArms
  <2>4. CASE j \notin Sizes /\ j # "webpQuality" /\ j \notin Strictness \cup {"autoBracketKeys"}
    BY <1>3, <1>9, <2>4, CalledArms
  <2> QED BY <2>1, <2>2, <2>3, <2>4
<1> QED BY <1>4, <1>5, <1>6, <1>7, <1>8, <1>9

(* ... and every load makes the one its settings ask for.                      *)
LEMMA LoadMakesClient ==
    ASSUME NEW s, IsServer(s), NEW c
    PROVE  loadConfig(s, c).client = ClientOf(loadConfig(s, c))
<1> DEFINE m == LoadSender(LoadDevMode(s, c), c)
           v == [k \in Settings |-> IF k \in m.locked THEN m.value[k] ELSE Read(m, c, k)]
           r == [m EXCEPT !.value = [k \in Settings |-> IF k \in m.locked THEN @[k] ELSE Read(m, c, k)]]
           t == loadConfig(s, c)
<1>1. IsServer(m)
  BY MadeFirst DEF MadeOf
<1>2. t = initializeDatabaseFromConfig(r)
  BY DEF loadConfig
<1> HIDE DEF m, t
<1>3. r = [value |-> v, locked |-> m.locked, client |-> m.client]
  BY <1>1 DEF IsServer
<1> HIDE DEF v, r
<1>4. t.client = ClientOf(r) /\ t.value = r.value
  BY <1>2, <1>3 DEF initializeDatabaseFromConfig
<1>5. ClientOf(t) = ClientOf(r)
  BY <1>4 DEF ClientOf, Complete
<1> QED BY <1>4, <1>5 DEF t

LEMMA ClientAlike ==
    ASSUME NEW s, NEW t, \A k \in Ordered : SameOf(k, s, t)
    PROVE  ClientOf(s) = ClientOf(t)
<1>1. {"backend", "postgres", "sqlite", "poolSize", "sqliteThreads"} \subseteq Ordered
  BY DEF Ordered, Unordered, Settings, Limits, EmailLimits, Strictness, PoolSizes
<1>2. \A k \in {"backend", "postgres", "sqlite", "poolSize", "sqliteThreads"} : s.value[k] = t.value[k]
  BY <1>1 DEF SameOf
<1> QED BY <1>2 DEF ClientOf, Complete

(* The client does not change between loads, and what a load makes it of are   *)
(* settings that no order of the calls before it decides.                      *)
LEMMA ClientStep == SettingsInv /\ ClientOfLastLoad /\ [ConfigNext]_configVars => ClientOfLastLoad'
<1> SUFFICES ASSUME SettingsInv, ClientOfLastLoad, [ConfigNext]_configVars PROVE ClientOfLastLoad'
  OBVIOUS
<1>1. IsServer(server)
  BY DEF SettingsInv
<1>2. CASE Configure
  <2>1. PICK k \in DOMAIN Offered : \E x \in Offered[k] : server' = Applied(server, <<k, x>>)
    BY <1>2 DEF Configure
  <2>2. PICK x : server' = Applied(server, <<k, x>>)
    BY <2>1
  <2>3. k \in Settings /\ k # "load"
    BY OfferedAssumption
  <2>4. server'.client = server.client
    BY <1>1, <2>2, <2>3, ClientKept DEF Applied
  <2>5. UNCHANGED <<heard, loads>>
    BY <1>2 DEF Configure
  <2> QED BY <2>4, <2>5 DEF ClientOfLastLoad
<1>3. CASE Load
  <2>1. PICK c : loads' = Append(loads, <<"load", c>>) /\ server' = Applied(server, Last(loads'))
    BY <1>3 DEF Load
  <2>2. heard' = setters /\ setters' = setters
    BY <1>3 DEF Load
  <2>3. PICK S : setters \in Seq(S) /\ \A i \in S : i[1] \in Settings \ {"load"}
    BY DEF SettingsInv
  <2>4. PICK T : loads \in Seq(T) /\ \A i \in T : i[1] = "load"
    BY DEF SettingsInv
  <2> DEFINE e == <<"load", c>>
             chosen == AppliedAll(Fresh, setters)
             reached == AppliedAll(chosen, loads)
  <2>5. e[1] = "load" /\ e[2] = c
    OBVIOUS
  <2>6. IsServer(chosen)
    BY <2>3, FreshServer, AllApplied
  <2>7. IsServer(reached)
    <3> HIDE DEF chosen
    <3> QED BY <2>4, <2>6, AllApplied
  <2> HIDE DEF e
  <2>8. loads' \in Seq(T \cup {e}) /\ loads \in Seq(T \cup {e}) /\ e \in T \cup {e}
    BY <2>1, <2>4, MoreCalls DEF e
  <2>9. Last(Append(loads, e)) = e
    BY <2>4, MoreCalls, LenProperties, AppendProperties DEF Last
  <2>10. server' = loadConfig(server, c)
    <3>1. server' = Applied(server, e)
      BY <2>1, <2>9 DEF e
    <3> QED BY <2>5, <3>1 DEF Applied
  <2>11. AppliedAll(chosen, loads') = loadConfig(reached, c)
    <3>1. AppliedAll(chosen, loads') = Applied(reached, e)
      <4>1. loads' = Append(loads, e)
        BY <2>1 DEF e
      <4> HIDE DEF chosen
      <4> QED BY <2>8, <4>1, OneCallMore
    <3> HIDE DEF reached, chosen
    <3> QED BY <2>5, <3>1 DEF Applied
  <2>12. \A k \in Ordered : SameOf(k, loadConfig(server, c), loadConfig(reached, c))
    <3>1. \A k \in Ordered : SameOf(k, server, reached)
      BY DEF SettingsInv, Reordered
    <3> HIDE DEF reached
    <3> QED BY <1>1, <2>7, <3>1, LoadAlike
  <2>13. loadConfig(server, c).client = loadConfig(reached, c).client
    <3> HIDE DEF reached
    <3> QED BY <1>1, <2>7, <2>12, LoadMakesClient, ClientAlike
  <2>14. ClientOfLastLoad' <=> server'.client = AppliedAll(chosen, loads').client
    BY <2>2 DEF ClientOfLastLoad
  <2> QED BY <2>10, <2>11, <2>13, <2>14
<1>4. CASE UNCHANGED <<server, heard, loads>>
  BY <1>4 DEF ClientOfLastLoad
<1>5. ConfigNext \/ UNCHANGED configVars
  OBVIOUS
<1> QED BY <1>2, <1>3, <1>4, <1>5 DEF ConfigNext, Clear, configVars

(* It makes no difference to the value of a setting whether a setter is called *)
(* before loadConfig() or after it, or between two loads: what the code chose  *)
(* holds, and every other setting is what .env, the environment or the default *)
(* say; to the database client it makes none whether a setter is called before *)
(* all loads or only before the last, and a setter called after the last load  *)
(* leaves it as it is; and in development mode no asset is kept in the text    *)
(* cache unless a setter of its limits said so.                                *)
THEOREM OrderNeverDecides == ConfigSpec => []PrecedenceKept
<1>1. ConfigInit => SettingsInv /\ Uncached(server) /\ ClientOfLastLoad
  <2> SUFFICES ASSUME ConfigInit PROVE SettingsInv /\ Uncached(server) /\ ClientOfLastLoad
    OBVIOUS
  <2>1. server = Fresh /\ heard = << >> /\ loads = << >>
    BY DEF ConfigInit
  <2>2. AppliedAll(AppliedAll(Fresh, heard), loads) = Fresh
    <3>1. Len(<< >>) = 0
      OBVIOUS
    <3> QED BY <2>1, <3>1, NoCalls
  <2> QED BY <2>1, <2>2, SettingsStart, FreshUncached DEF ClientOfLastLoad
<1>2. SettingsInv /\ Uncached(server) /\ ClientOfLastLoad /\ [ConfigNext]_configVars
        => (SettingsInv /\ Uncached(server) /\ ClientOfLastLoad)'
  BY SettingsStep, UncachedStep, ClientStep
<1>3. SettingsInv /\ Uncached(server) /\ ClientOfLastLoad => PrecedenceKept
  BY DEF PrecedenceKept, SettersLock, DevModeUncached, Uncached, SettingsInv, SameOf, Ordered
<1> QED BY <1>1, <1>2, <1>3, PTL DEF ConfigSpec
================================================================================
