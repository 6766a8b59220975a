------------------------------- MODULE Database -------------------------------
(* The database client a server is given (DatabaseClient): one of the two      *)
(* backends, chosen once at its creation.                                      *)
EXTENDS Integers, PostgresPool, SqlitePool

VARIABLE backend      \* backend()

vars == <<pqvars, sqvars, backend>>

Init == PoolInit /\ SqliteInit /\ backend \in {"postgres", "sqlite"}

Next ==
    \/ backend = "postgres" /\ PoolNext /\ UNCHANGED <<sqvars, backend>>
    \/ backend = "sqlite" /\ SqliteNext /\ UNCHANGED <<pqvars, backend>>

Fairness ==
    /\ WF_vars(Close /\ UNCHANGED <<sqvars, backend>>)
    /\ \A w \in Workers : WF_vars(backend = "postgres" /\ WorkerStep(w) /\ UNCHANGED <<sqvars, backend>>)
    /\ \A t \in ExecThreads : WF_vars(backend = "sqlite" /\ ThreadStep(t) /\ UNCHANGED <<pqvars, backend>>)

Spec == Init /\ [][Next]_vars /\ Fairness
--------------------------------------------------------------------------------
(* Properties.                                                                 *)

(* No query is completed twice, though the catch of workerMain completes the   *)
(* whole batch and parts of it may be completed already: an exception can only *)
(* leave runOneItem before the first completion of its batch.                  *)
CompletedOnce == \A q \in Queries : Len(answers[q]) <= 1

(* On a connection that was not given up inside a pipeline, each query gets    *)
(* its own result or an exception, never the result of another one.            *)
OwnAnswer ==
    [][\A w \in Workers : \A q \in Queries :
          (q \in Range(batch[w]) /\ pc[w] # "idle" /\ ~unclean[w] /\ answers'[q] # answers[q])
             => Last(answers'[q]) \in {q, Error}]_pqvars

(* A worker that waits for work holds no statement name that its connection    *)
(* does not have, so that a cached statement can be executed; the exceptions   *)
(* are a connection that could not be made and one whose sync failed.          *)
CacheSound ==
    \A w \in Workers : (conn[w].up = "ok" /\ ~unsynced[w] /\ ~unclean[w]) => cached[w] \subseteq conn[w].names

(* When the client has been destroyed every query it took is completed.        *)
NoneLeftBehind == closed => \A q \in 1..made : answers[q] # <<>>

(* Every query the client took is completed once, also when it is destroyed.   *)
EachCompleted == CompletedOnce /\ NoneLeftBehind

(* A write tells the rows that it changed itself, whatever other queries run   *)
(* on the other threads, and no connection is lost or shared.                  *)
WriteCountExact ==
    /\ \A q \in Statements : (Changes[q] > 0 /\ results[q] # Pending) => results[q] \in {Changes[q], -1}
    /\ \A c \in Conns : Cardinality({t \in ExecThreads : thread[t].conn = c})
                          + Cardinality({i \in DOMAIN pool : pool[i] = c}) = 1

(* From some point on every query made is answered, by either client, whatever *)
(* fails and also when the PostgreSQL client is destroyed meanwhile: a caller  *)
(* never waits on its timer for ever, and no thread waits for ever for a       *)
(* connection.  (The queries are finitely many.)                               *)
AllAnswered ==
    <>[](/\ \A q \in 1..made : answers[q] # <<>>
         /\ \A q \in 1..posted : results[q] # Pending)

(* Refuted: each query gets its own result, as the comments at the pipeline of *)
(* runBatchOnConn want ("break subsequent execute mapping").                   *)
ResultMapping == \A q \in Queries : \A i \in DOMAIN answers[q] : answers[q][i] \in {q, Error}
================================================================================
