------------------------------ MODULE SqlitePool ------------------------------
(* The SQLite client (database/DatabaseClient.cpp, SqliteClient and SimplePool;*)
(* database/DbExecutor.hpp): the queries run on the threads of an executor, each *)
(* with a connection borrowed from a pool.  SQLite is external: a statement    *)
(* can fail at its preparation, its binding or a step, and sqlite3_changes     *)
(* tells how many rows the last write on the same connection changed.          *)
EXTENDS Integers, Sequences, FiniteSets, SequencesExt

CONSTANTS ExecThreads,   \* sqliteExecutorThreads
          Conns,         \* poolSize connections
          NoConn,        \* no connection
          Changes        \* what each query is: the rows it writes, 0 for a SELECT

ASSUME SqliteAssumption ==
    /\ Changes \in Seq(Nat) /\ NoConn \notin Conns
    /\ IsFiniteSet(ExecThreads) /\ IsFiniteSet(Conns)

Statements == 1..Len(Changes)

VARIABLES
    tasks,      \* posted to the executor, not begun
    posted,     \* queries made so far
    thread,     \* where each executor thread is: [at, q, conn]
    pool,       \* _pool: the free connections, the last one is taken first
    changes,    \* sqlite3_changes of each connection
    results     \* what each query returned: -1 for an exception

sqvars == <<tasks, posted, thread, pool, changes, results>>

Pending == 1000000      \* not answered yet
Idle    == [at |-> "idle", q |-> 0, conn |-> NoConn]

SqliteInit ==
    /\ tasks = <<>> /\ posted = 0
    /\ thread = [t \in ExecThreads |-> Idle]
    /\ pool = SetToSeq(Conns)
    /\ changes = [c \in Conns |-> 0]
    /\ results = [q \in Statements |-> Pending]

PostQuery ==
    /\ posted < Len(Changes)
    /\ posted' = posted + 1
    /\ tasks' = Append(tasks, posted + 1)
    /\ UNCHANGED <<thread, pool, changes, results>>

Begin(t) ==
    /\ thread[t].at = "idle" /\ tasks # <<>>
    /\ thread' = [thread EXCEPT ![t] = [Idle EXCEPT !.at = "acquire", !.q = Head(tasks)]]
    /\ tasks' = Tail(tasks)
    /\ UNCHANGED <<posted, pool, changes, results>>

Acquire(t) ==
    /\ thread[t].at = "acquire" /\ pool # <<>>
    /\ thread' = [thread EXCEPT ![t].at = "run", ![t].conn = Last(pool)]
    /\ pool' = Front(pool)
    /\ UNCHANGED <<tasks, posted, changes, results>>

Return(t, value) ==
    /\ results' = [results EXCEPT ![thread[t].q] = value]
    /\ pool' = Append(pool, thread[t].conn)
    /\ thread' = [thread EXCEPT ![t] = Idle]
    /\ UNCHANGED <<tasks, posted, changes>>

(* The statement fails: finalised, the connection released, an exception.      *)
Fail(t) == thread[t].at = "run" /\ Return(t, -1)

(* Mutant of StepToDone: the connection goes back before its count is read.    *)
StepAndRelease(t) ==
    /\ thread[t].at = "run"
    /\ changes' = IF Changes[thread[t].q] = 0 THEN changes
                  ELSE [changes EXCEPT ![thread[t].conn] = Changes[thread[t].q]]
    /\ pool' = Append(pool, thread[t].conn)
    /\ thread' = [thread EXCEPT ![t].at = "done"]
    /\ UNCHANGED <<tasks, posted, results>>

(* All rows are read.  A SELECT leaves the count of the connection as it was.  *)
StepToDone(t) ==
    /\ thread[t].at = "run"
    /\ changes' = IF Changes[thread[t].q] = 0 THEN changes
                  ELSE [changes EXCEPT ![thread[t].conn] = Changes[thread[t].q]]
    /\ thread' = [thread EXCEPT ![t].at = "done"]
    /\ UNCHANGED <<tasks, posted, pool, results>>

Finish(t) == thread[t].at = "done" /\ Return(t, changes[thread[t].conn])

ThreadStep(t) == Begin(t) \/ Acquire(t) \/ Fail(t) \/ StepToDone(t) \/ Finish(t)

SqliteNext == PostQuery \/ \E t \in ExecThreads : ThreadStep(t)

================================================================================
