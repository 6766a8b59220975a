------------------------------- MODULE SpamGuard -------------------------------
(* The spam protection of one client address (email/EmailSender.cpp:          *)
(* checkAndUpdateSpamProtection, cleanupOldIPRecords, clearIPTracking).  Each *)
(* runs under _ipTrackingMutex, and the records of two addresses never meet,  *)
(* so one address and one step per call say everything.  Time is in seconds.  *)
EXTENDS Naturals, Sequences, FiniteSets

CONSTANTS MinInterval,   \* _minEmailIntervalSeconds
          MaxPerIP,      \* _maxEmailsPerIP
          Duration,      \* _ipTrackingDurationSeconds
          MaxTime        \* bound: the clock

GuardAssumption ==
    MinInterval \in Nat /\ MaxPerIP \in Nat \ {0} /\ Duration \in Nat \ {0} /\ MaxTime \in Nat

VARIABLES
    now,        \* steady_clock::now()
    activity,   \* the record of the address in _ipTracking: a set of at most one
    passed      \* the times of the requests let through since the tracking was cleared

vars == <<now, activity, passed>>

Init == now = 0 /\ activity = {} /\ passed = <<>>
--------------------------------------------------------------------------------
Since(a) == now - a.last

TooSoon(a) == Since(a) < MinInterval
UsedUp(a)  == a.count >= MaxPerIP /\ Since(a) < Duration
Allowed    == \A a \in activity : ~TooSoon(a) /\ ~UsedUp(a)

(* The count starts anew once the window has passed.                           *)
Counted(a) == IF Since(a) >= Duration THEN 1 ELSE a.count + 1

Pass ==
    /\ Allowed
    /\ activity' = {[last  |-> now,
                     count |-> IF activity = {} THEN 1
                               ELSE Counted(CHOOSE a \in activity : TRUE)]}
    /\ passed' = Append(passed, now)
    /\ UNCHANGED now

(* A refused request leaves the record alone.                                  *)
Refuse ==
    /\ ~Allowed
    /\ UNCHANGED <<now, activity, passed>>

(* Mutant of Stale: records go after half the window.                          *)
StaleEarly(a) == 2 * Since(a) > Duration

Stale(a) == Since(a) > 2 * Duration

(* cleanupOldIPRecords(): workers call it whenever the number of e-mails sent  *)
(* is a multiple of 100, zero included.                                        *)
Cleanup ==
    /\ \E a \in activity : Stale(a)
    /\ activity' = {a \in activity : ~Stale(a)}
    /\ UNCHANGED <<now, passed>>

ClearIPTracking ==
    /\ activity' = {} /\ passed' = <<>>
    /\ UNCHANGED now

Tick ==
    /\ now < MaxTime
    /\ now' = now + 1
    /\ UNCHANGED <<activity, passed>>

Next == Pass \/ Refuse \/ Cleanup \/ ClearIPTracking \/ Tick

Spec == Init /\ [][Next]_vars
--------------------------------------------------------------------------------
(* The types; the record is the last request let through, and it counts no     *)
(* more than the allowance.                                                    *)
TypeOK ==
    /\ now \in 0..MaxTime
    /\ passed \in Seq(0..now)
    /\ Cardinality(activity) <= 1
    /\ \A a \in activity : /\ a.count \in 1..MaxPerIP
                           /\ passed # <<>> /\ a.last = passed[Len(passed)]

(* No more than MaxPerIP requests pass within any span of Duration seconds,    *)
(* wherever the span begins and whenever the record was reset or cleaned up.   *)
WindowLimit ==
    \A i, j \in DOMAIN passed :
        i <= j /\ passed[j] - passed[i] < Duration => j - i < MaxPerIP

(* Two requests that pass are MinInterval apart, though the record of the      *)
(* earlier one may have been removed.  Nothing in the code keeps MinInterval   *)
(* below the 2 * Duration after which a record is removed.                     *)
IntervalKept ==
    \A i \in 2..Len(passed) : passed[i] - passed[i - 1] >= MinInterval

(* An address is never locked out: once it has waited out the interval and the *)
(* window since its last e-mail it passes, however often it was refused.       *)
NoLockout ==
    passed # <<>> /\ now - passed[Len(passed)] >= Duration
                  /\ now - passed[Len(passed)] >= MinInterval => Allowed

================================================================================
