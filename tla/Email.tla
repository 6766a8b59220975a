--------------------------------- MODULE Email ---------------------------------
(* The e-mail sender as a whole (email/EmailSender.cpp: enqueueEmail): the     *)
(* spam protection of module SpamGuard decides first, under _ipTrackingMutex,  *)
(* and the queue of module EmailQueue takes the e-mail later, under            *)
(* queueMutex.  Between the two a request has used up its allowance and has no *)
(* place in the queue yet.                                                     *)
EXTENDS EmailQueue

CONSTANTS MinInterval, MaxPerIP, Duration, MaxTime,    \* of SpamGuard
          MaxCallers                                   \* bound: concurrent calls

VARIABLES
    now, activity, passed,     \* of SpamGuard
    between,                   \* calls that passed the guard and wait for queueMutex
    calls,                     \* calls of enqueueEmail that the guard has seen
    emailsRejected             \* _emailsRejected

gvars == <<now, activity, passed>>
cvars == <<between, calls, emailsRejected>>
evars == <<vars, gvars, cvars>>

Guard == INSTANCE SpamGuard

ASSUME EmailAssumption == Guard!GuardAssumption /\ MaxCallers \in Nat \ {0}

EmailInit == Init /\ Guard!Init /\ between = 0 /\ calls = 0 /\ emailsRejected = 0

(* checkAndUpdateSpamProtection says no, or yes.                               *)
Refused ==
    /\ ~shuttingDown /\ calls < MaxEmails
    /\ Guard!Refuse
    /\ calls' = calls + 1 /\ emailsRejected' = emailsRejected + 1
    /\ UNCHANGED <<vars, between>>

Granted ==
    /\ ~shuttingDown /\ calls < MaxEmails /\ between < MaxCallers
    /\ Guard!Pass
    /\ calls' = calls + 1 /\ between' = between + 1
    /\ UNCHANGED <<vars, emailsRejected>>

(* The queue takes the e-mail, or is full: then the allowance is gone all the  *)
(* same.                                                                       *)
Accepted ==
    /\ between > 0 /\ Enqueue
    /\ between' = between - 1
    /\ UNCHANGED <<gvars, calls, emailsRejected>>

QueueFull ==
    /\ between > 0 /\ ~shuttingDown /\ Len(emailQueue) >= MaxQueueSize
    /\ between' = between - 1 /\ emailsRejected' = emailsRejected + 1
    /\ UNCHANGED <<vars, gvars, calls>>

GuardStep == (Guard!Cleanup \/ Guard!ClearIPTracking \/ Guard!Tick) /\ UNCHANGED <<vars, cvars>>

(* stop() is called when no call is under way.                                 *)
QueueStep ==
    /\ \/ Stop /\ between = 0
       \/ Stopped \/ \E t \in Threads : WorkerStep(t)
    /\ UNCHANGED <<gvars, cvars>>

EmailNext == Refused \/ Granted \/ Accepted \/ QueueFull \/ GuardStep \/ QueueStep

EmailSpec ==
    /\ EmailInit /\ [][EmailNext]_evars
    /\ WF_evars(Stopped /\ UNCHANGED <<gvars, cvars>>)
    /\ \A t \in Threads : WF_evars(WorkerStep(t) /\ UNCHANGED <<gvars, cvars>>)
--------------------------------------------------------------------------------
(* Properties, with those of EmailQueue.                                       *)

(* Every call is counted once, whichever of the two checks decides it and      *)
(* however calls overlap: accepted, rejected, or between the checks.           *)
EveryCallCounted == calls = handed + emailsRejected + between

(* No call and no e-mail goes astray: each call is refused, turned away by the *)
(* full queue or accepted, and an accepted e-mail is queued, sent or dropped.  *)
EmailsAccounted == EachEmailOnce /\ OverfillBounded /\ EveryCallCounted

(* No more than MaxPerIP e-mails of an address are let through within any span *)
(* of Duration seconds, whatever was cleaned up meanwhile.                     *)
WindowLimit == Guard!WindowLimit

(* Two that pass are MinInterval apart.                                        *)
IntervalKept == Guard!IntervalKept

(* An address that has waited long enough passes, however often the guard or a *)
(* full queue refused it before.                                               *)
NoLockout == Guard!NoLockout

(* The guard stops what is over the limit and nothing else.                    *)
SpamLimits == WindowLimit /\ NoLockout
================================================================================
