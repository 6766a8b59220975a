-------------------------------- MODULE Server --------------------------------
(* The life of a Geruest server object: init(), start(), stop(), the accept   *)
(* loop with its retry timer, the session slots, the io_context threads and   *)
(* the joining of the thread that saves the /status metrics (what that thread *)
(* writes is module Metrics).  server/Socket.cpp, server/Workers.cpp,         *)
(* server/HttpSession.cpp.                                                    *)
(*                                                                            *)
(* Threads: the one that calls start() (main), the one that calls stop()      *)
(* (a signal handler or another thread), the io threads that run the accept   *)
(* callback and the session coroutines, and the persistence thread.  A step   *)
(* is what one thread does between two accesses another thread can observe.   *)
EXTENDS Integers, FiniteSets

CONSTANTS Sessions,       \* identities of HttpSession objects
          MaxQueueSize,   \* _maxQueueSize, the session limit
          MaxStarts,      \* bound: how often start() is called on the object
          MaxStops        \* bound: how often stop() is called on the object

ASSUME SlotAssumption ==
    /\ IsFiniteSet(Sessions)
    /\ MaxQueueSize \in Nat \ {0}   \* setMaxQueueSize turns 0 into 1

ASSUME BoundAssumption == MaxStarts \in Nat /\ MaxStops \in Nat

VARIABLES
    running,         \* Geruest::running
    acceptor,        \* acceptor_: "none", "open" or "closed"
    ioStopped,       \* io_ctx_ is in the stopped state
    guard,           \* work_guard_ keeps io_ctx_ from running dry
    workers,         \* threads that run handlers of io_ctx_ exist
    main,            \* where the thread that calls start() is
    stopper,         \* where the thread that calls stop() is
    starts,          \* calls of start() so far
    stops,           \* calls of stop() so far
    chain,           \* the accept loop each call of startWorkers() posted
    active,          \* _activeSessions
    session,         \* state of each HttpSession
    activeHandlers,  \* ServerMetrics::_activeHandlers
    status           \* the persistence thread

netVars    == <<acceptor, chain>>
slotVars   == <<active, session, activeHandlers>>
callVars   == <<stopper, starts, stops>>
ioVars     == <<ioStopped, guard, workers>>
vars       == <<netVars, slotVars, callVars, ioVars, running, main, status>>

Chains == 1..MaxStarts

ChainStates   == {"none", "posted", "armed", "ok", "err", "admit", "reject",
                  "rearm", "retry", "expired"}
SessionStates == {"free", "spawned", "serving", "closing"}
MainStates    == {"idle", "loaded", "flagged", "spawnStatus", "abort", "abortJoin",
                  "run", "joinWorkers", "joinStatus", "saving"}

(* Sessions that own a slot, sessions with a live Handler object, and accept  *)
(* callbacks that have added to _activeSessions but not acted on it yet.      *)
Held     == {s \in Sessions : session[s] # "free"}
Serving  == {s \in Sessions : session[s] = "serving"}
Admits   == {c \in Chains : chain[c] = "admit"}
Rejects  == {c \in Chains : chain[c] = "reject"}

(* A handler of io_ctx_ can be picked up; a handler is in the middle of a run; *)
(* io_ctx_ has nothing left to wait for.                                       *)
IoLive == workers /\ ~ioStopped
Busy   == \/ \E c \in Chains : chain[c] \in {"admit", "reject", "rearm"}
          \/ \E s \in Sessions : session[s] = "closing"
Dry    == ~guard /\ Held = {} /\ \A c \in Chains : chain[c] = "none"

Init ==
    /\ running = FALSE /\ acceptor = "none"
    /\ ioStopped = FALSE /\ guard = FALSE /\ workers = FALSE
    /\ main = "idle" /\ stopper = "idle" /\ starts = 0 /\ stops = 0
    /\ chain = [c \in Chains |-> "none"]
    /\ active = 0 /\ activeHandlers = 0
    /\ session = [s \in Sessions |-> "free"]
    /\ status = "none"
--------------------------------------------------------------------------------
(* An acceptor that is closed or destroyed completes its pending async_accept  *)
(* with operation_aborted, and the callback does nothing then.                 *)
Disarmed == [c \in Chains |-> IF chain[c] = "armed" THEN "none" ELSE chain[c]]

(* init(): the new acceptor replaces the old one and is dropped if it cannot   *)
(* be opened, bound or made to listen.  (A bind address that does not resolve  *)
(* leaves everything as it was.)                                               *)
InitListen ==
    /\ main = "idle"
    /\ acceptor' \in {"open", "none"}
    /\ chain' = Disarmed
    /\ UNCHANGED <<slotVars, callVars, ioVars, running, main, status>>

(* start(): load the metrics.  A file that exists replaces the counters and    *)
(* zeroes _activeHandlers, whatever sessions a previous run left suspended.    *)
StartLoad ==
    /\ main = "idle" /\ starts < MaxStarts
    /\ main' = "loaded"
    /\ starts' = starts + 1
    /\ activeHandlers' \in {activeHandlers, 0}
    /\ UNCHANGED <<netVars, active, session, stopper, stops, ioVars, running, status>>

StartFlag ==
    /\ main = "loaded"
    /\ main' = "flagged"
    /\ running' = TRUE
    /\ UNCHANGED <<netVars, slotVars, callVars, ioVars, status>>

(* startWorkers(): the work guard, the io threads and the first doAccept,      *)
(* posted to io_ctx_.  When a thread cannot be created the exception leaves    *)
(* start() with the guard and the threads created so far in place.             *)
StartWorkers ==
    /\ main = "flagged"
    /\ guard' = TRUE
    /\ \/ /\ main' = "spawnStatus"
          /\ workers' = TRUE
          /\ chain' = [chain EXCEPT ![starts] = "posted"]
       \/ /\ main' = "idle"
          /\ workers' \in {workers, TRUE}
          /\ UNCHANGED chain
    /\ UNCHANGED <<acceptor, slotVars, callVars, ioStopped, running, status>>

(* The persistence thread; if it cannot be created start() undoes itself.      *)
SpawnStatus ==
    /\ main = "spawnStatus"
    /\ \/ main' = "run" /\ status' = "loop" /\ UNCHANGED running
       \/ main' = "abort" /\ running' = FALSE /\ UNCHANGED status
    /\ UNCHANGED <<netVars, slotVars, callVars, ioVars>>

CloseAcceptor ==
    /\ acceptor' = IF acceptor = "open" THEN "closed" ELSE acceptor
    /\ chain' = IF acceptor = "open" THEN Disarmed ELSE chain

(* io_ctx_.run() returns once io_ctx_ is stopped, which it also does by itself *)
(* when it runs dry.                                                           *)
RunDry ==
    /\ IoLive /\ Dry
    /\ ioStopped' = TRUE
    /\ UNCHANGED <<netVars, slotVars, callVars, guard, workers, running, main, status>>

(* stopWorkers(), after run() has returned or to undo start(): close the       *)
(* acceptor, drop the guard and stop io_ctx_ ...                               *)
StopWorkers ==
    /\ \/ main = "run" /\ ioStopped /\ main' = "joinWorkers"
       \/ main = "abort" /\ main' = "abortJoin"
    /\ CloseAcceptor
    /\ guard' = FALSE /\ ioStopped' = TRUE
    /\ UNCHANGED <<slotVars, callVars, workers, running, status>>

(* Mutant of JoinWorkers: the io threads are detached.                         *)
JoinWorkersDetached ==
    /\ \/ main = "joinWorkers" /\ main' = "joinStatus"
       \/ main = "abortJoin" /\ main' = "idle"
    /\ workers' = FALSE /\ ioStopped' = FALSE
    /\ UNCHANGED <<netVars, slotVars, callVars, guard, running, status>>

(* ... join the io threads once they have finished the handler they are in,    *)
(* and make io_ctx_ ready for another run.                                     *)
JoinWorkers ==
    /\ \/ main = "joinWorkers" /\ main' = "joinStatus"
       \/ main = "abortJoin" /\ main' = "idle"
    /\ ~Busy
    /\ workers' = FALSE /\ ioStopped' = FALSE
    /\ UNCHANGED <<netVars, slotVars, callVars, guard, running, status>>

JoinStatus ==
    /\ main = "joinStatus" /\ status = "done"
    /\ main' = "saving"
    /\ status' = "none"
    /\ UNCHANGED <<netVars, slotVars, callVars, ioVars, running>>

FinalSave ==
    /\ main = "saving"
    /\ main' = "idle"
    /\ UNCHANGED <<netVars, slotVars, callVars, ioVars, running, status>>
--------------------------------------------------------------------------------
(* stop(), from any thread and at any time: five statements the others can     *)
(* see one by one.                                                             *)
StopFlag ==
    /\ stopper = "idle" /\ stops < MaxStops
    /\ stopper' = "close"
    /\ stops' = stops + 1
    /\ running' = FALSE
    /\ UNCHANGED <<netVars, slotVars, starts, ioVars, main, status>>

StopClose ==
    /\ stopper = "close"
    /\ stopper' = "timer"
    /\ CloseAcceptor
    /\ UNCHANGED <<slotVars, starts, stops, ioVars, running, main, status>>

StopTimer ==
    /\ stopper = "timer"
    /\ stopper' = "guard"
    /\ chain' = [c \in Chains |-> IF chain[c] = "retry" THEN "none" ELSE chain[c]]
    /\ UNCHANGED <<acceptor, slotVars, starts, stops, ioVars, running, main, status>>

StopGuard ==
    /\ stopper = "guard"
    /\ stopper' = "io"
    /\ guard' = FALSE
    /\ UNCHANGED <<netVars, slotVars, starts, stops, ioStopped, workers, running, main, status>>

(* Mutant of StopIo: stop() trusts io_ctx_ to run dry.                         *)
StopIoForgotten ==
    /\ stopper = "io"
    /\ stopper' = "idle"
    /\ UNCHANGED <<netVars, slotVars, starts, stops, ioVars, running, main, status>>

StopIo ==
    /\ stopper = "io"
    /\ stopper' = "idle"
    /\ ioStopped' = TRUE
    /\ UNCHANGED <<netVars, slotVars, starts, stops, guard, workers, running, main, status>>
--------------------------------------------------------------------------------

(* doAccept(): wait for a client, unless the server is stopping.               *)
Rearmed == IF running /\ acceptor = "open" THEN "armed" ELSE "none"

(* Runs of doAccept from the posted handler, from the accept callback and from *)
(* the expired retry timer.                                                    *)
DoAccept(c) ==
    /\ \/ chain[c] \in {"posted", "expired"} /\ IoLive
       \/ chain[c] = "rearm"
    /\ chain' = [chain EXCEPT ![c] = Rearmed]
    /\ UNCHANGED <<acceptor, slotVars, callVars, ioVars, running, main, status>>

(* The operating system completes the accept: a client, or an error such as    *)
(* exhausted file descriptors.                                                 *)
AcceptCompletes(c) ==
    /\ chain[c] = "armed" /\ IoLive
    /\ \E outcome \in {"ok", "err"} : chain' = [chain EXCEPT ![c] = outcome]
    /\ UNCHANGED <<acceptor, slotVars, callVars, ioVars, running, main, status>>

(* Mutant of AcceptCount: the limit is off by one.                             *)
AcceptCountOffByOne(c) ==
    /\ chain[c] = "ok" /\ IoLive
    /\ IF running
       THEN /\ chain' = [chain EXCEPT ![c] = IF active > MaxQueueSize THEN "reject" ELSE "admit"]
            /\ active' = active + 1
       ELSE /\ chain' = [chain EXCEPT ![c] = "none"]
            /\ UNCHANGED active
    /\ UNCHANGED <<acceptor, session, activeHandlers, callVars, ioVars, running, main, status>>

(* The callback takes a slot with one fetch_add and looks at the value before. *)
AcceptCount(c) ==
    /\ chain[c] = "ok" /\ IoLive
    /\ IF running
       THEN /\ chain' = [chain EXCEPT ![c] = IF active >= MaxQueueSize THEN "reject" ELSE "admit"]
            /\ active' = active + 1
       ELSE /\ chain' = [chain EXCEPT ![c] = "none"]
            /\ UNCHANGED active
    /\ UNCHANGED <<acceptor, session, activeHandlers, callVars, ioVars, running, main, status>>

(* Mutant of AcceptReject: the rejected client keeps its slot.                 *)
AcceptRejectLeaks(c) ==
    /\ chain[c] = "reject"
    /\ chain' = [chain EXCEPT ![c] = "rearm"]
    /\ UNCHANGED <<acceptor, slotVars, callVars, ioVars, running, main, status>>

(* Over the limit: the slot goes back, the client gets a 503 and is closed.    *)
AcceptReject(c) ==
    /\ chain[c] = "reject"
    /\ chain' = [chain EXCEPT ![c] = "rearm"]
    /\ active' = active - 1
    /\ UNCHANGED <<acceptor, session, activeHandlers, callVars, ioVars, running, main, status>>

AcceptAdmit(c, s) ==
    /\ chain[c] = "admit"
    /\ session[s] = "free"
    /\ chain' = [chain EXCEPT ![c] = "rearm"]
    /\ session' = [session EXCEPT ![s] = "spawned"]
    /\ UNCHANGED <<acceptor, active, activeHandlers, callVars, ioVars, running, main, status>>

(* Mutant of AcceptFailed: the callback returns after logging the error.       *)
AcceptFailedGivesUp(c) ==
    /\ chain[c] = "err" /\ IoLive
    /\ chain' = [chain EXCEPT ![c] = "none"]
    /\ UNCHANGED <<acceptor, slotVars, callVars, ioVars, running, main, status>>

(* scheduleAcceptRetry() after an error.  There is one timer: setting it       *)
(* cancels the wait of another accept loop.                                    *)
AcceptFailed(c) ==
    /\ chain[c] = "err" /\ IoLive
    /\ IF running /\ acceptor = "open"
       THEN chain' = [d \in Chains |-> IF d = c THEN "retry"
                                       ELSE IF chain[d] = "retry" THEN "none" ELSE chain[d]]
       ELSE chain' = [chain EXCEPT ![c] = "none"]
    /\ UNCHANGED <<acceptor, slotVars, callVars, ioVars, running, main, status>>

RetryExpires(c) ==
    /\ chain[c] = "retry" /\ IoLive
    /\ chain' = [chain EXCEPT ![c] = "expired"]
    /\ UNCHANGED <<acceptor, slotVars, callVars, ioVars, running, main, status>>
--------------------------------------------------------------------------------
(* HttpSession::runCoro: the Handler is built, serves requests, is destroyed,  *)
(* and only then the slot is released.                                         *)
SessionStart(s) ==
    /\ session[s] = "spawned" /\ IoLive
    /\ session' = [session EXCEPT ![s] = "serving"]
    /\ activeHandlers' = activeHandlers + 1
    /\ UNCHANGED <<netVars, active, callVars, ioVars, running, main, status>>

(* The coroutine ends, by returning or by an exception.  A handler that an io  *)
(* thread is running when io_ctx_ is stopped still goes on to its end.         *)
SessionEnd(s) ==
    /\ session[s] = "serving" /\ workers
    /\ session' = [session EXCEPT ![s] = "closing"]
    /\ activeHandlers' = activeHandlers - 1
    /\ UNCHANGED <<netVars, active, callVars, ioVars, running, main, status>>

SessionRelease(s) ==
    /\ session[s] = "closing"
    /\ session' = [session EXCEPT ![s] = "free"]
    /\ active' = active - 1
    /\ UNCHANGED <<netVars, activeHandlers, callVars, ioVars, running, main, status>>
--------------------------------------------------------------------------------
(* statusPersistenceLoop(): sleep and save until running is seen to be false.   *)
StatusExit ==
    /\ status = "loop" /\ ~running
    /\ status' = "done"
    /\ UNCHANGED <<netVars, slotVars, callVars, ioVars, running, main>>
--------------------------------------------------------------------------------
MainStep   == \/ StartFlag \/ StartWorkers \/ SpawnStatus \/ StopWorkers
              \/ JoinWorkers \/ JoinStatus \/ FinalSave
StopStep   == StopClose \/ StopTimer \/ StopGuard \/ StopIo
AcceptStep(c) == \/ DoAccept(c) \/ AcceptCount(c) \/ AcceptReject(c) \/ AcceptFailed(c)
                 \/ RetryExpires(c)
                 \/ \E s \in Sessions : AcceptAdmit(c, s)
SessionStep(s) == SessionStart(s) \/ SessionRelease(s)

Next ==
    \/ InitListen \/ StartLoad \/ MainStep \/ RunDry
    \/ StopFlag \/ StopStep
    \/ \E c \in Chains : AcceptStep(c) \/ AcceptCompletes(c)
    \/ \E s \in Sessions : SessionStep(s) \/ SessionEnd(s)
    \/ StatusExit

(* Fairness: every thread that can go on does (the operating system schedules  *)
(* it, a timer expires).  Nothing forces a client to connect, to send or to    *)
(* leave, or the application to call start() or stop().                        *)
Fairness == /\ WF_vars(MainStep) /\ WF_vars(RunDry) /\ WF_vars(StopStep) /\ WF_vars(StatusExit)
            /\ \A c \in Chains : WF_vars(AcceptStep(c))
            /\ \A s \in Sessions : WF_vars(SessionStep(s))

Spec     == Init /\ [][Next]_vars
FairSpec == Spec /\ Fairness
--------------------------------------------------------------------------------
(* The types of the state.  _activeSessions is unsigned in the code: that it   *)
(* is never decremented below zero is part of this invariant.                  *)
TypeOK ==
    /\ running \in BOOLEAN /\ acceptor \in {"none", "open", "closed"}
    /\ ioStopped \in BOOLEAN /\ guard \in BOOLEAN /\ workers \in BOOLEAN
    /\ main \in MainStates /\ stopper \in {"idle", "close", "timer", "guard", "io"}
    /\ starts \in 0..MaxStarts /\ stops \in 0..MaxStops
    /\ (main # "idle" => starts > 0)
    /\ chain \in [Chains -> ChainStates]
    /\ session \in [Sessions -> SessionStates]
    /\ active \in Nat /\ activeHandlers \in Int
    /\ status \in {"none", "loop", "done"}

(* Every slot counted in _activeSessions is owned by a live session or by an   *)
(* accept callback that has just counted it: no path through doAccept,         *)
(* runCoro or a restart of the server leaks a slot or gives one back twice.    *)
SlotAccounting ==
    active = Cardinality(Held) + Cardinality(Admits) + Cardinality(Rejects)

(* The session limit, counting the clients an accept callback has let in but   *)
(* not spawned yet.  Two accept loops (left by a restart) may count at the     *)
(* same time; fetch_add decides.                                               *)
CapRespected == Cardinality(Held) + Cardinality(Admits) <= MaxQueueSize

(* requests.active of /status is the number of live Handler objects until a    *)
(* second start() reloads the metrics and zeroes the counter under the         *)
(* sessions the first one left suspended.                                      *)
HandlersCounted == starts <= 1 => activeHandlers = Cardinality(Serving)

(* When start() saves the metrics, no thread is left that could still record:  *)
(* the io threads are joined, no handler is in the middle of a run and the     *)
(* persistence thread is gone.                                                 *)
QuiescentSave == main = "saving" => ~workers /\ ~Busy /\ status = "none"

(* start() assigns _statusPersistenceThread only when the thread of an earlier *)
(* start() is joined (assigning to a joinable std::thread terminates).         *)
ThreadNotOverwritten == main = "spawnStatus" => status = "none"

(* No thread of a run is left when its last act begins, the save, and none is  *)
(* left joinable for the next run to overwrite.                                *)
ThreadsJoined == QuiescentSave /\ ThreadNotOverwritten

(* Both counters of sessions, the one that limits them and the one /status     *)
(* shows, count what there is, across accepts, rejections, stops and restarts. *)
CountersMatch == SlotAccounting /\ HandlersCounted

(* A closed or missing acceptor has no pending async_accept, so no session     *)
(* begins from a client accepted after stop() closed it.                       *)
NoAcceptAfterClose == acceptor # "open" => \A c \in Chains : chain[c] # "armed"

(* The counter, the two fetch_adds and the release implement the lease.        *)
Lease == INSTANCE SlotLease WITH Clients <- Sessions, Cap <- MaxQueueSize, held <- Held
LeaseRefinement == Lease!LeaseSpec

(* While the server runs, the accept loop never dies: whatever callback ran    *)
(* last (admitted, rejected, failed and waiting for its timer), an             *)
(* async_accept is pending again unless the server is stopped.                 *)
Accepting == main = "run" /\ running /\ acceptor = "open" /\ ~ioStopped
AcceptLoopAlive == Accepting ~> (~Accepting \/ \E c \in Chains : chain[c] = "armed")

(* A stop() that finds start() in io_ctx_.run() makes start() return: the io   *)
(* threads finish, the persistence thread sees the flag, and nothing waits for *)
(* anything that never comes, suspended sessions and full slots included.      *)
StopReturns == (main = "run" /\ ~running) ~> main = "idle"

(* stop() called at any point of start() makes start() return.                 *)
StopHonoured == (main # "idle" /\ stopper # "idle") ~> main = "idle"
================================================================================
