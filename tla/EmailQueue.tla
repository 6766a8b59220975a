------------------------------ MODULE EmailQueue ------------------------------
(* The e-mail queue and its worker threads (email/EmailSender.cpp:            *)
(* enqueueEmail, worker, stop).  A worker registers in activeWorkers when it  *)
(* first runs, takes e-mails while there are any, and ends after 10 idle      *)
(* seconds; enqueueEmail makes a thread when fewer than WorkerCount are       *)
(* registered.  Each step is one section under queueMutex, or one send.       *)
(* Whether the spam check lets an e-mail pass is module SpamGuard; here it is *)
(* the choice of calling Enqueue or not.                                      *)
EXTENDS Naturals, FiniteSets, SequencesExt

CONSTANTS Threads,       \* identities of the threads ever made
          WorkerCount,   \* EMAIL_WORKER_COUNT
          MaxQueueSize,  \* _maxQueueSize
          MaxRetries,    \* retries of an e-mail: 3 in worker()
          MaxEmails      \* bound: e-mails handed to enqueueEmail

ASSUME QueueAssumption ==
    /\ IsFiniteSet(Threads)
    /\ WorkerCount \in Nat /\ MaxQueueSize \in Nat /\ MaxRetries \in Nat /\ MaxEmails \in Nat

Emails  == [id : 1..MaxEmails, retries : 0..MaxRetries]
NoEmail == [id |-> 0, retries |-> 0]

VARIABLES
    emailQueue,      \* emailQueue
    activeWorkers,   \* activeWorkers
    worker,          \* where each thread is
    hand,            \* the e-mail each thread works on
    shuttingDown,    \* shuttingDown
    stopped,         \* stop() has returned
    handed,          \* e-mails accepted so far
    sent,            \* ids of the e-mails delivered
    dropped          \* ids of the e-mails given up

qvars == <<emailQueue, handed, sent, dropped>>
vars  == <<qvars, activeWorkers, worker, hand, shuttingDown, stopped>>

Unmade == {t \in Threads : worker[t] = "none"}
Alive  == {t \in Threads : worker[t] \notin {"none", "done"}}
Hands  == {t \in Threads : worker[t] \in {"sending", "pausing"}}
InLoop == {t \in Threads : worker[t] = "waiting"} \cup Hands

Init ==
    /\ emailQueue = <<>> /\ handed = 0 /\ sent = {} /\ dropped = {}
    /\ activeWorkers = {}
    /\ worker = [t \in Threads |-> "none"]
    /\ hand = [t \in Threads |-> NoEmail]
    /\ shuttingDown = FALSE /\ stopped = FALSE
--------------------------------------------------------------------------------

(* enqueueEmail(), after the spam check.  A full queue refuses the e-mail: a   *)
(* stuttering step.  Nobody calls it after stop() has begun.                   *)
Enqueue ==
    /\ ~shuttingDown
    /\ handed < MaxEmails /\ Len(emailQueue) < MaxQueueSize
    /\ handed' = handed + 1
    /\ emailQueue' = Append(emailQueue, [id |-> handed + 1, retries |-> 0])
    /\ IF Cardinality(activeWorkers) < WorkerCount
       THEN \E t \in Unmade : worker' = [worker EXCEPT ![t] = "made"]
       ELSE UNCHANGED worker
    /\ UNCHANGED <<sent, dropped, activeWorkers, hand, shuttingDown, stopped>>

Register(t) ==
    /\ worker[t] = "made"
    /\ worker' = [worker EXCEPT ![t] = "waiting"]
    /\ activeWorkers' = activeWorkers \cup {t}
    /\ UNCHANGED <<qvars, hand, shuttingDown, stopped>>

(* Mutant of Take: the e-mail stays in the queue.                              *)
TakeWithoutPop(t) ==
    /\ worker[t] = "waiting" /\ emailQueue # <<>>
    /\ worker' = [worker EXCEPT ![t] = "sending"]
    /\ hand' = [hand EXCEPT ![t] = Head(emailQueue)]
    /\ UNCHANGED <<qvars, activeWorkers, shuttingDown, stopped>>

Take(t) ==
    /\ worker[t] = "waiting" /\ emailQueue # <<>>
    /\ worker' = [worker EXCEPT ![t] = "sending"]
    /\ hand' = [hand EXCEPT ![t] = Head(emailQueue)]
    /\ emailQueue' = Tail(emailQueue)
    /\ UNCHANGED <<handed, sent, dropped, activeWorkers, shuttingDown, stopped>>

(* Mutant of Leave: shutdown is not part of the condition that is waited for.  *)
LeaveWhenIdle(t) ==
    /\ worker[t] = "waiting" /\ emailQueue = <<>> /\ ~shuttingDown
    /\ worker' = [worker EXCEPT ![t] = "leaving"]
    /\ UNCHANGED <<qvars, activeWorkers, hand, shuttingDown, stopped>>

(* wait_for found the queue empty: 10 seconds have passed, or the sender shuts *)
(* down.  The worker leaves its loop and gives up queueMutex; it unregisters   *)
(* when it has taken the mutex again.                                          *)
Leave(t) ==
    /\ worker[t] = "waiting" /\ emailQueue = <<>>
    /\ worker' = [worker EXCEPT ![t] = "leaving"]
    /\ UNCHANGED <<qvars, activeWorkers, hand, shuttingDown, stopped>>

Unregister(t) ==
    /\ worker[t] = "leaving"
    /\ worker' = [worker EXCEPT ![t] = "done"]
    /\ activeWorkers' = activeWorkers \ {t}
    /\ UNCHANGED <<qvars, hand, shuttingDown, stopped>>
--------------------------------------------------------------------------------

Sent(t) ==
    /\ worker[t] = "sending"
    /\ sent' = sent \cup {hand[t].id}
    /\ worker' = [worker EXCEPT ![t] = "waiting"]
    /\ hand' = [hand EXCEPT ![t] = NoEmail]
    /\ UNCHANGED <<emailQueue, handed, dropped, activeWorkers, shuttingDown, stopped>>

(* Mutant of Fails: the retry is not counted.                                  *)
FailsUncounted(t) ==
    /\ worker[t] = "sending" /\ hand[t].retries < MaxRetries
    /\ worker' = [worker EXCEPT ![t] = "pausing"]
    /\ UNCHANGED <<qvars, activeWorkers, hand, shuttingDown, stopped>>

(* The SMTP server refuses or cannot be reached: pause, then requeue, ...      *)
Fails(t) ==
    /\ worker[t] = "sending" /\ hand[t].retries < MaxRetries
    /\ worker' = [worker EXCEPT ![t] = "pausing"]
    /\ hand' = [hand EXCEPT ![t].retries = @ + 1]
    /\ UNCHANGED <<qvars, activeWorkers, shuttingDown, stopped>>

Requeue(t) ==
    /\ worker[t] = "pausing"
    /\ emailQueue' = Append(emailQueue, hand[t])
    /\ worker' = [worker EXCEPT ![t] = "waiting"]
    /\ hand' = [hand EXCEPT ![t] = NoEmail]
    /\ UNCHANGED <<handed, sent, dropped, activeWorkers, shuttingDown, stopped>>

(* ... or give up after the last retry.                                        *)
GivesUp(t) ==
    /\ worker[t] = "sending" /\ hand[t].retries >= MaxRetries
    /\ dropped' = dropped \cup {hand[t].id}
    /\ worker' = [worker EXCEPT ![t] = "waiting"]
    /\ hand' = [hand EXCEPT ![t] = NoEmail]
    /\ UNCHANGED <<emailQueue, handed, sent, activeWorkers, shuttingDown, stopped>>
--------------------------------------------------------------------------------
Stop ==
    /\ ~shuttingDown
    /\ shuttingDown' = TRUE
    /\ UNCHANGED <<qvars, activeWorkers, worker, hand, stopped>>

(* stop() has joined every thread.                                             *)
Stopped ==
    /\ shuttingDown /\ ~stopped /\ Alive = {}
    /\ stopped' = TRUE
    /\ activeWorkers' = {}
    /\ UNCHANGED <<qvars, worker, hand, shuttingDown>>

WorkerStep(t) ==
    \/ Register(t) \/ Take(t) \/ Leave(t) \/ Unregister(t)
    \/ Sent(t) \/ Fails(t) \/ GivesUp(t) \/ Requeue(t)

Next == Enqueue \/ Stop \/ Stopped \/ \E t \in Threads : WorkerStep(t)

(* Every thread runs on; a send ends, with an error if it must (curl has a     *)
(* timeout); stop() is not forced.                                             *)
Spec     == Init /\ [][Next]_vars
FairSpec == Spec /\ WF_vars(Stopped) /\ \A t \in Threads : WF_vars(WorkerStep(t))
--------------------------------------------------------------------------------
WorkerStates == {"none", "made", "waiting", "sending", "pausing", "leaving", "done"}

(* The types of the state; exactly the workers that send or pause hold an      *)
(* e-mail.                                                                     *)
TypeOK ==
    /\ emailQueue \in Seq(Emails) /\ handed \in 0..MaxEmails
    /\ sent \subseteq 1..MaxEmails /\ dropped \subseteq 1..MaxEmails
    /\ activeWorkers \subseteq Threads
    /\ worker \in [Threads -> WorkerStates]
    /\ hand \in [Threads -> Emails \cup {NoEmail}]
    /\ \A t \in Threads : (hand[t] # NoEmail) = (t \in Hands)
    /\ shuttingDown \in BOOLEAN /\ stopped \in BOOLEAN

Queued == {emailQueue[i].id : i \in DOMAIN emailQueue}
InHand == {hand[t].id : t \in Hands}

(* An accepted e-mail is in exactly one place: queued once, in the hands of    *)
(* one worker, sent, or given up.  None is lost or sent twice, whichever       *)
(* workers fail, pause, requeue, leave and are made meanwhile.                 *)
EachEmailOnce ==
    /\ Queued \cup InHand \cup sent \cup dropped = 1..handed
    /\ Len(emailQueue) + Cardinality(Hands) + Cardinality(sent) + Cardinality(dropped) = handed

(* Retries bypass the queue limit, but only by the e-mails workers had taken   *)
(* out: the queue cannot grow without bound.                                   *)
OverfillBounded ==
    Len(emailQueue) + Cardinality(Hands) <= MaxQueueSize + Cardinality(InLoop)

(* stop() returns: it waits for the sends, pauses and retries in progress and  *)
(* for the queue to drain, and for nothing else.                               *)
StopReturns == shuttingDown ~> stopped

(* While a worker is left, every accepted e-mail is sent or given up after a   *)
(* bounded number of attempts.  (The e-mails are finitely many.)               *)
Handled(e) == e \in sent \cup dropped
HandledWhileWorking == <>[](Alive = {} \/ \A e \in 1..handed : Handled(e))

(* What is queued for sending is sent or given up.                             *)
EveryEmailHandled == \A e \in 1..MaxEmails : (handed >= e) ~> Handled(e)

================================================================================
