----------------------------- MODULE PostgresPool -----------------------------
(* The PostgreSQL client (database/DatabaseClient.cpp, PostgresClient): one    *)
(* queue of queries, one worker thread per connection, batches sent in libpq's *)
(* pipeline mode, prepared statements cached per worker, reconnects, and the   *)
(* destructor.  libpq is external.  What a connection will answer is a         *)
(* sequence of tokens: the result of each command followed by the null that    *)
(* ends it, and the sync of a pipeline, which no null follows.  In pipeline    *)
(* mode the server answers only what lies before the last sync, and after an   *)
(* error it skips everything up to the next one.                               *)
EXTENDS Naturals, Sequences, FiniteSets, SequencesExt

CONSTANTS Workers,      \* one per pooled connection
          MaxBatch,     \* _maxPipelineBatch
          Sql,          \* the SQL text of each query, in the order they are made
          MaxFaults     \* bound: lost connections, timeouts, failed reconnects and syncs

ASSUME PoolAssumption ==
    /\ IsFiniteSet(Workers) /\ Workers # {}
    /\ MaxBatch \in Nat \ {0} /\ MaxFaults \in Nat
    /\ Sql \in Seq(STRING)

Queries == 1..Len(Sql)

VARIABLES
    queue,     \* _queue
    made,      \* queries handed to queryAsync so far
    answers,   \* what each query was completed with, in order
    stop,      \* _stop
    closed,    \* the destructor has returned
    pc,        \* where each worker is
    batch,     \* the queries it works on
    at,        \* how far it is in the batch
    got,       \* scratch.results: what the pipeline answered so far
    cached,    \* scratch.preparedBySql
    conn,      \* _conns, as libpq and the server hold them
    unclean,   \* the connection was given up in the middle of a pipeline
    unsynced,  \* a sync failed on it: reconnected with the cache kept
    faults

pqvars == <<queue, made, answers, stop, closed, pc, batch, at, got, cached, conn,
            unclean, unsynced, faults>>
--------------------------------------------------------------------------------
(* libpq.                                                                      *)
Res(q, ok) == [kind |-> "res", of |-> q, ok |-> ok]
Null       == [kind |-> "null", of |-> 0, ok |-> TRUE]
Sync       == [kind |-> "sync", of |-> 0, ok |-> FALSE]

Error      == 0      \* what a query is completed with when it is not a result

Fresh == [up |-> "ok", mode |-> "off", input |-> <<>>, names |-> {}]
Dead  == [Fresh EXCEPT !.up = "null"]

LastSync(in)  == SelectLastInSeq(in, LAMBDA t : t.kind = "sync")
Readable(c)   == IF c.mode = "off" THEN Len(c.input) ELSE LastSync(c.input)
Spoilt(in)    == \E i \in LastSync(in) + 1..Len(in) : in[i].kind = "res" /\ ~in[i].ok
Sendable(c)   == c.up = "ok" /\ (c.mode = "off" => c.input = <<>>)
ModeAfter(c, read) ==
    LET mark == SelectLastInSeq(read, LAMBDA t : t.kind = "sync" \/ (t.kind = "res" /\ ~t.ok))
    IN  IF c.mode = "off" \/ mark = 0 THEN c.mode
        ELSE IF read[mark].kind = "sync" THEN "on" ELSE "aborted"

(* Send a command: the server will answer it unless it skips.                  *)
Sent(c, q, ok) == [c EXCEPT !.input = @ \o <<Res(q, ok /\ ~(c.mode # "off" /\ Spoilt(@))), Null>>]

(* pgReceiveFinalResult: everything up to the next null, the last result of it *)
(* counts.  "none" when there is no result or none comes in time.              *)
Receive(c) ==
    LET in    == c.input
        ready == SubSeq(in, 1, Readable(c))
        n     == IF Null \in Range(ready) THEN SelectInSeq(ready, LAMBDA t : t = Null)
                 ELSE Len(ready)
        idle  == n = Len(in) /\ n > 0      \* nothing outstanding: null without waiting
        last  == IF n = 0 THEN Null ELSE IF in[n] = Null THEN (IF n = 1 THEN Null ELSE in[n - 1])
                 ELSE IF idle THEN in[n] ELSE Null
    IN  [res  |-> last,
         conn |-> [c EXCEPT !.input = SubSeq(in, n + 1, Len(in)),
                            !.mode = ModeAfter(c, SubSeq(in, 1, n))]]

(* pgEnsurePipelineOff: leaving fails, unnoticed, while answers are due.       *)
EnsurePipelineOff(c) == IF c.mode = "on" /\ c.input = <<>> THEN [c EXCEPT !.mode = "off"] ELSE c
--------------------------------------------------------------------------------
PoolInit ==
    /\ queue = <<>> /\ made = 0 /\ stop = FALSE /\ closed = FALSE /\ faults = 0
    /\ answers = [q \in Queries |-> <<>>]
    /\ pc = [w \in Workers |-> "idle"]
    /\ batch = [w \in Workers |-> <<>>]
    /\ at = [w \in Workers |-> 1]
    /\ got = [w \in Workers |-> <<>>]
    /\ cached = [w \in Workers |-> {}]
    /\ conn = [w \in Workers |-> Fresh]
    /\ unclean = [w \in Workers |-> FALSE]
    /\ unsynced = [w \in Workers |-> FALSE]

Complete(qs, with) == [q \in Queries |-> IF q \in qs THEN Append(answers[q], with) ELSE answers[q]]
Query(w) == batch[w][at[w]]
Goto(w, label) == pc' = [pc EXCEPT ![w] = label]

(* queryAsync.                                                                 *)
QueryAsync ==
    /\ made < Len(Sql) /\ ~stop
    /\ made' = made + 1
    /\ queue' = Append(queue, made + 1)
    /\ UNCHANGED <<answers, stop, closed, pc, batch, at, got, cached, conn, unclean, unsynced, faults>>

(* workerMain takes up to MaxBatch queries; runBatchOnConn decides how.        *)
Take(w) ==
    /\ pc[w] = "idle" /\ queue # <<>>
    /\ LET n == IF Len(queue) < MaxBatch THEN Len(queue) ELSE MaxBatch
       IN  /\ batch' = [batch EXCEPT ![w] = SubSeq(queue, 1, n)]
           /\ queue' = SubSeq(queue, n + 1, Len(queue))
           /\ Goto(w, IF n = 1 THEN "one" ELSE "prepare")
    /\ at' = [at EXCEPT ![w] = 1]
    /\ got' = [got EXCEPT ![w] = <<>>]
    /\ conn' = [conn EXCEPT ![w] = EnsurePipelineOff(@)]
    /\ UNCHANGED <<made, answers, stop, closed, cached, unclean, unsynced, faults>>

(* Mutant of ThrowWith: the exception is swallowed.                            *)
ThrowSwallowed(w, c) ==
    /\ Goto(w, "idle")
    /\ conn' = [conn EXCEPT ![w] = c]
    /\ unclean' = [unclean EXCEPT ![w] = c.up = "ok" /\ (@ \/ c.mode # "off")]
    /\ UNCHANGED <<queue, made, answers, stop, closed, batch, at, got>>

(* The catch of workerMain: every query of the batch is completed with the     *)
(* exception, and nothing is done about the connection, now c.                 *)
ThrowWith(w, c) ==
    /\ answers' = Complete(Range(batch[w]), Error)
    /\ Goto(w, "idle")
    /\ conn' = [conn EXCEPT ![w] = c]
    /\ unclean' = [unclean EXCEPT ![w] = c.up = "ok" /\ (@ \/ c.mode # "off")]
    /\ UNCHANGED <<queue, made, stop, closed, batch, at, got>>

(* Mutant of SendFails: the cache survives the reconnect.                      *)
SendFailsCacheKept(w) ==
    /\ ~Sendable(conn[w])
    /\ ThrowWith(w, Fresh)
    /\ UNCHANGED <<cached, unsynced, faults>>

(* A send that fails: PQreset, reconnectConn, clearPreparedCache.  When the    *)
(* reconnect throws, the cache is not cleared.                                 *)
SendFails(w) ==
    /\ ~Sendable(conn[w])
    /\ \/ /\ cached' = [cached EXCEPT ![w] = {}]
          /\ unsynced' = [unsynced EXCEPT ![w] = FALSE]
          /\ ThrowWith(w, Fresh)
          /\ UNCHANGED faults
       \/ /\ faults < MaxFaults /\ faults' = faults + 1
          /\ ThrowWith(w, Dead)
          /\ UNCHANGED <<cached, unsynced>>

Throw(w, c) == ThrowWith(w, c) /\ UNCHANGED <<cached, unsynced, faults>>

(* Going on with the next query of the batch, or with the next phase.          *)
Advance(w, next) ==
    IF at[w] < Len(batch[w])
    THEN at' = [at EXCEPT ![w] = @ + 1] /\ UNCHANGED pc
    ELSE at' = [at EXCEPT ![w] = 1] /\ Goto(w, next)

--------------------------------------------------------------------------------
(* What follows once a statement is there: the next query of the batch, before *)
(* the pipeline, or the execution of this one.                                 *)
Prepared(w) ==
    \/ pc[w] = "prepare" /\ Advance(w, "enter")
    \/ pc[w] = "one" /\ Goto(w, "exec") /\ UNCHANGED at

(* ensurePrepared for one query, outside the pipeline if all is well.          *)
EnsurePrepared(w) ==
    IF Sql[Query(w)] \in cached[w]
    THEN Prepared(w) /\ UNCHANGED <<queue, made, answers, stop, closed, batch, got, cached, conn,
                                    unclean, unsynced, faults>>
    ELSE \/ SendFails(w)
         \/ \E ok \in BOOLEAN :
              LET c == Sent(conn[w], 0, ok)
                  r == Receive(c)
                  named == [r.conn EXCEPT !.names = IF c.input[Len(c.input) - 1].ok
                                                    THEN @ \cup {Sql[Query(w)]} ELSE @]
              IN  /\ Sendable(conn[w])
                  /\ IF r.res.ok /\ r.res # Null
                     THEN /\ cached' = [cached EXCEPT ![w] = @ \cup {Sql[Query(w)]}]
                          /\ conn' = [conn EXCEPT ![w] = named]
                          /\ Prepared(w)
                          /\ UNCHANGED <<queue, made, answers, stop, closed, batch, got,
                                         unclean, unsynced, faults>>
                     ELSE Throw(w, named)

PrepareInPipeline(w) == pc[w] = "prepare" /\ EnsurePrepared(w)

(* Mutant of EnterPipeline: the queries of a batch always run one by one.      *)
EnterRefused(w) ==
    /\ pc[w] = "enter"
    /\ conn' = [conn EXCEPT ![w] = EnsurePipelineOff(@)]
    /\ Goto(w, "one")
    /\ UNCHANGED <<queue, made, answers, stop, closed, batch, at, got, cached, unclean, unsynced, faults>>

(* PQenterPipelineMode: nothing to do when it is on already; refused when the  *)
(* connection waits for an answer outside a pipeline.                          *)
EnterPipeline(w) ==
    /\ pc[w] = "enter"
    /\ LET c == EnsurePipelineOff(conn[w])
           ok == c.up # "null" /\ (c.mode = "off" => c.input = <<>>)
       IN  /\ conn' = [conn EXCEPT ![w] = IF ok /\ c.mode = "off" THEN [c EXCEPT !.mode = "on"] ELSE c]
           /\ Goto(w, IF ok THEN "send" ELSE "one")
    /\ UNCHANGED <<queue, made, answers, stop, closed, batch, at, got, cached, unclean, unsynced, faults>>

(* sendPreparedQuery: the statement must exist on the server.                  *)
Execute(w, ok) == Sent(conn[w], Query(w), ok /\ Sql[Query(w)] \in conn[w].names)

SendInPipeline(w) ==
    /\ pc[w] = "send"
    /\ \/ SendFails(w)
       \/ /\ Sendable(conn[w])
          /\ \E ok \in BOOLEAN : conn' = [conn EXCEPT ![w] = Execute(w, ok)]
          /\ Advance(w, "sync")
          /\ UNCHANGED <<queue, made, answers, stop, closed, batch, got, cached, unclean, unsynced, faults>>

(* PQpipelineSync.  When it fails the connection is made anew, and the cache   *)
(* keeps the names of statements the new one does not have.                    *)
SyncPipeline(w) ==
    /\ pc[w] = "sync"
    /\ \/ /\ conn' = [conn EXCEPT ![w].input = Append(@, Sync)]
          /\ Goto(w, "receive")
          /\ UNCHANGED <<queue, made, answers, stop, closed, batch, at, got, cached, unclean, unsynced, faults>>
       \/ /\ faults < MaxFaults /\ faults' = faults + 1
          /\ unsynced' = [unsynced EXCEPT ![w] = TRUE]
          /\ \E c \in {Fresh, Dead} : ThrowWith(w, c)
          /\ UNCHANGED cached

(* One result for each query; an error or a missing result throws.             *)
ReceiveInPipeline(w) ==
    /\ pc[w] = "receive"
    /\ LET r == Receive(conn[w])
       IN  IF r.res.kind = "res" /\ r.res.ok
           THEN /\ got' = [got EXCEPT ![w] = Append(@, r.res.of)]
                /\ conn' = [conn EXCEPT ![w] = r.conn]
                /\ Advance(w, "finish")
                /\ UNCHANGED <<queue, made, answers, stop, closed, batch, cached, unclean, unsynced, faults>>
           ELSE Throw(w, r.conn)

(* Mutant of FinishPipeline: the results are handed out from the back.         *)
FinishReversed(w) ==
    /\ pc[w] = "finish" /\ conn[w].input # <<>> /\ Head(conn[w].input) = Sync
    /\ answers' = [q \in Queries |->
          IF q \in Range(batch[w])
          THEN Append(answers[q], got[w][Len(got[w]) + 1 - (CHOOSE i \in DOMAIN batch[w] : batch[w][i] = q)])
          ELSE answers[q]]
    /\ conn' = [conn EXCEPT ![w] = EnsurePipelineOff([@ EXCEPT !.input = Tail(@)])]
    /\ Goto(w, "idle")
    /\ UNCHANGED <<queue, made, stop, closed, batch, at, got, cached, unclean, unsynced, faults>>

(* The sync ends the pipeline; then every query is completed with its result.  *)
FinishPipeline(w) ==
    /\ pc[w] = "finish"
    /\ LET in   == conn[w].input
           rest == [conn[w] EXCEPT !.input = Tail(@), !.mode = ModeAfter(conn[w], <<Head(in)>>)]
       IN  IF in # <<>> /\ Head(in) = Sync
           THEN /\ answers' = [q \in Queries |->
                     IF q \in Range(batch[w])
                     THEN Append(answers[q], got[w][CHOOSE i \in DOMAIN batch[w] : batch[w][i] = q])
                     ELSE answers[q]]
                /\ conn' = [conn EXCEPT ![w] = EnsurePipelineOff(rest)]
                /\ Goto(w, "idle")
                /\ UNCHANGED <<queue, made, stop, closed, batch, at, got, cached, unclean, unsynced, faults>>
           ELSE Throw(w, IF in = <<>> THEN conn[w] ELSE rest)
--------------------------------------------------------------------------------
(* runOneItem: prepare, then send, receive and complete.                       *)
PrepareOne(w) == pc[w] = "one" /\ EnsurePrepared(w)

ExecOne(w) ==
    /\ pc[w] = "exec"
    /\ \/ SendFails(w)
       \/ \E ok \in BOOLEAN :
            LET r == Receive(Execute(w, ok))
            IN  /\ Sendable(conn[w])
                /\ IF r.res = Null THEN Throw(w, r.conn)
                   ELSE /\ answers' = Complete({Query(w)}, IF r.res.ok THEN r.res.of ELSE Error)
                        /\ conn' = [conn EXCEPT ![w] =
                                      IF at[w] < Len(batch[w]) THEN EnsurePipelineOff(r.conn) ELSE r.conn]
                        /\ IF at[w] < Len(batch[w])
                           THEN at' = [at EXCEPT ![w] = @ + 1] /\ Goto(w, "one")
                           ELSE at' = at /\ Goto(w, "idle")
                        /\ UNCHANGED <<queue, made, stop, closed, batch, got, cached, unclean, unsynced, faults>>

(* Waiting, to flush a command or for its answer, takes longer than the poll   *)
(* timeout: the query throws, and what it asked for is still due.              *)
TimeOut(w) ==
    /\ faults < MaxFaults /\ faults' = faults + 1
    /\ \/ /\ pc[w] \in {"prepare", "one"} /\ Sql[Query(w)] \notin cached[w] /\ Sendable(conn[w])
          /\ ThrowWith(w, Sent(conn[w], 0, TRUE))
       \/ pc[w] = "exec" /\ Sendable(conn[w]) /\ ThrowWith(w, Execute(w, TRUE))
       \/ pc[w] \in {"receive", "finish"} /\ ThrowWith(w, conn[w])
    /\ UNCHANGED <<cached, unsynced>>

(* The server goes away: what is awaited never comes and nothing can be sent.  *)
Drop(w) ==
    /\ conn[w].up = "ok" /\ faults < MaxFaults /\ faults' = faults + 1
    /\ conn' = [conn EXCEPT ![w].up = "dead", ![w].input = <<>>]
    /\ UNCHANGED <<queue, made, answers, stop, closed, pc, batch, at, got, cached, unclean, unsynced>>

(* ~PostgresClient: refuse and answer what is queued, wait for the workers,    *)
(* close the connections.                                                      *)
Destroy ==
    /\ ~stop
    /\ stop' = TRUE
    /\ answers' = Complete(Range(queue), Error)
    /\ queue' = <<>>
    /\ UNCHANGED <<made, closed, pc, batch, at, got, cached, conn, unclean, unsynced, faults>>

WorkerEnds(w) ==
    /\ pc[w] = "idle" /\ stop /\ queue = <<>>
    /\ Goto(w, "gone")
    /\ UNCHANGED <<queue, made, answers, stop, closed, batch, at, got, cached, conn, unclean, unsynced, faults>>

Close ==
    /\ stop /\ ~closed /\ \A w \in Workers : pc[w] = "gone"
    /\ closed' = TRUE
    /\ conn' = [w \in Workers |-> Dead]
    /\ UNCHANGED <<queue, made, answers, stop, pc, batch, at, got, cached, unclean, unsynced, faults>>

WorkerStep(w) ==
    \/ Take(w) \/ PrepareInPipeline(w) \/ EnterPipeline(w) \/ SendInPipeline(w) \/ SyncPipeline(w)
    \/ ReceiveInPipeline(w) \/ FinishPipeline(w) \/ PrepareOne(w) \/ ExecOne(w) \/ WorkerEnds(w)

PoolNext ==
    \/ QueryAsync \/ Destroy \/ Close
    \/ \E w \in Workers : WorkerStep(w) \/ TimeOut(w) \/ Drop(w)

================================================================================
