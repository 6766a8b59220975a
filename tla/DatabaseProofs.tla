---------------------------- MODULE DatabaseProofs ----------------------------
(* Proofs about module Database: the PostgreSQL client for every number of     *)
(* connections, batch size and number of queries and faults, and the SQLite    *)
(* client for every number of threads and connections.                         *)
EXTENDS Database, DataLemmas

(* The types of the PostgreSQL client.  A connection answers with tokens.      *)
Tokens      == [kind : {"res", "null", "sync"}, of : 0..Len(Sql), ok : BOOLEAN]
Connections == [up : {"ok", "dead", "null"}, mode : {"off", "on", "aborted"},
                input : Seq(Tokens), names : SUBSET STRING]
PoolStates  == {"idle", "one", "exec", "prepare", "enter", "send", "sync", "receive",
                "finish", "gone"}

PoolTypes ==
    /\ queue \in Seq(Queries) /\ made \in 0..Len(Sql)
    /\ answers \in [Queries -> Seq(0..Len(Sql))]
    /\ stop \in BOOLEAN /\ closed \in BOOLEAN /\ faults \in Nat
    /\ pc \in [Workers -> PoolStates]
    /\ batch \in [Workers -> Seq(Queries)] /\ at \in [Workers -> Nat \ {0}]
    /\ got \in [Workers -> Seq(0..Len(Sql))]
    /\ cached \in [Workers -> SUBSET STRING] /\ conn \in [Workers -> Connections]
    /\ unclean \in [Workers -> BOOLEAN] /\ unsynced \in [Workers -> BOOLEAN]

Busy(w) == pc[w] \notin {"idle", "gone"}

(* How far a busy worker is, by the phase it is in.                            *)
Phase(w) ==
    /\ batch[w] # <<>> /\ at[w] <= Len(batch[w])
    /\ pc[w] \in {"enter", "sync", "finish"} => at[w] = 1
    /\ pc[w] = "receive" => Len(got[w]) = at[w] - 1
    /\ pc[w] = "finish" => Len(got[w]) = Len(batch[w])
    /\ pc[w] \in {"prepare", "enter", "send", "sync"} => got[w] = <<>>

(* The fallback of a batch to single queries is only taken on a connection     *)
(* that cannot send: its first query throws, before any is completed.          *)
FallsBack(w) == pc[w] \in {"one", "exec"} /\ Len(batch[w]) > 1 => at[w] = 1 /\ ~Sendable(conn[w])

Phases         == \A w \in Workers : Busy(w) => Phase(w)
FallbackThrows == \A w \in Workers : FallsBack(w)

(* A query is queued, in the batch of one worker, or completed, and only one   *)
(* of the three.                                                               *)
InQueue(q)    == q \in Range(queue)
InBatch(q, w) == Busy(w) /\ q \in Range(batch[w])

Places ==
    /\ IsInjective(queue)
    /\ \A q \in Queries : InQueue(q) => q <= made /\ answers[q] = <<>>
    /\ \A q \in Queries, w \in Workers :
          InBatch(q, w) => q <= made /\ answers[q] = <<>> /\ ~InQueue(q)
    /\ \A q \in Queries, v, w \in Workers : InBatch(q, v) /\ InBatch(q, w) => v = w
    /\ \A q \in 1..made : InQueue(q) \/ (\E w \in Workers : InBatch(q, w)) \/ answers[q] # <<>>
    /\ \A q \in Queries, w \in Workers : ~Busy(w) /\ q \in Range(batch[w]) => answers[q] # <<>>
    /\ \A q \in Queries : q > made => answers[q] = <<>>

Ending ==
    /\ stop => queue = <<>>
    /\ closed => stop /\ \A w \in Workers : pc[w] = "gone"

(* The answers to the queries from..to of a batch, at the head of the input.   *)
Answered(in, b, from, to) ==
    \A i \in from..to :
        /\ in[2 * (i - from) + 1].kind = "res" /\ in[2 * (i - from) + 1].of = b[i]
        /\ in[2 * (i - from) + 2] = Null

(* On a connection that was not given up inside a pipeline, what is still to   *)
(* be read answers the queries of the batch, in its order: while sending,      *)
(* after the sync, and while receiving.                                        *)
Aligned(w) ==
    LET in == conn[w].input
        n  == Len(batch[w])
    IN  /\ pc[w] \in {"idle", "prepare", "enter", "one", "exec", "gone"} => conn[w].mode = "off"
        /\ pc[w] \in {"send", "sync", "receive", "finish"} => conn[w].mode = "on"
        /\ pc[w] = "send" => Len(in) = 2 * (at[w] - 1) /\ Answered(in, batch[w], 1, at[w] - 1)
        /\ pc[w] = "sync" => Len(in) = 2 * n /\ Answered(in, batch[w], 1, n)
        /\ pc[w] = "receive" =>
              /\ Len(in) = 2 * (n + 1 - at[w]) + 1 /\ in[Len(in)] = Sync
              /\ Answered(in, batch[w], at[w], n)
              /\ \A i \in 1..at[w] - 1 : got[w][i] = batch[w][i]
        /\ pc[w] = "finish" => in = <<Sync>> /\ got[w] = batch[w]

(* A connection that is lost yields no result any more.                        *)
Silent(w) ==
    conn[w].up # "ok" =>
        /\ \A i \in 1..Len(conn[w].input) : conn[w].input[i].kind # "res"
        /\ pc[w] = "finish" => conn[w].input = <<>>

Clean(w) == ~unclean[w] /\ conn[w].up = "ok"

(* What is proved of each worker: the last part is CacheSound.                 *)
Proper(w) ==
    /\ Silent(w)
    /\ Clean(w) => Aligned(w)
    /\ Clean(w) /\ ~unsynced[w] => cached[w] \subseteq conn[w].names

PlaceInv == PoolTypes /\ Phases /\ FallbackThrows /\ Places /\ Ending /\ CompletedOnce
PoolInv  == PlaceInv /\ \A w \in Workers : Proper(w)
--------------------------------------------------------------------------------
(* What reading from a connection returns, whatever is in its input.           *)
LEMMA LastSyncType ==
    ASSUME NEW in \in Seq(Tokens)
    PROVE  LastSync(in) \in 0..Len(in)
<1> DEFINE I == {i \in 1..Len(in) : in[i].kind = "sync"}
<1>0. Len(in) \in Nat
  BY LenProperties
<1>1. LastSync(in) = IF I # {} THEN Max(I) ELSE 0
  BY DEF LastSync, SelectLastInSeq
<1>2. I # {} => Max(I) \in I
  <2> I \in SUBSET (1..Len(in))
    OBVIOUS
  <2> HIDE DEF I
  <2> QED BY <1>0, GreatestNumber DEF Max
<1> QED BY <1>0, <1>1, <1>2

LEMMA ModeType == ASSUME NEW c \in Connections, NEW read PROVE ModeAfter(c, read) \in {"off", "on", "aborted"}
BY DEF ModeAfter, Connections

LEMMA TokenTypes ==
    /\ Null \in Tokens /\ Sync \in Tokens /\ Null # Sync
    /\ \A q \in 0..Len(Sql), b \in BOOLEAN : Res(q, b) \in Tokens /\ Res(q, b) # Null
BY PoolAssumption, LenProperties DEF Null, Sync, Res, Tokens

LEMMA ReceiveType ==
    ASSUME NEW c \in Connections
    PROVE  /\ Receive(c).res \in Tokens /\ Receive(c).conn \in Connections
           /\ Receive(c).conn.up = c.up /\ Receive(c).conn.names = c.names
           /\ c.mode = "off" => Receive(c).conn.mode = "off"
           /\ Receive(c).res = Null \/ \E i \in 1..Len(c.input) : Receive(c).res = c.input[i]
           /\ \A i \in 1..Len(Receive(c).conn.input) :
                 \E j \in 1..Len(c.input) : Receive(c).conn.input[i] = c.input[j]
<1> DEFINE in    == c.input
           ready == SubSeq(in, 1, Readable(c))
           n     == IF Null \in Range(ready) THEN SelectInSeq(ready, LAMBDA t : t = Null)
                    ELSE Len(ready)
           idle  == n = Len(in) /\ n > 0
           last  == IF n = 0 THEN Null ELSE IF in[n] = Null THEN (IF n = 1 THEN Null ELSE in[n - 1])
                    ELSE IF idle THEN in[n] ELSE Null
<1>0. in \in Seq(Tokens) /\ Len(in) \in Nat /\ \A i \in 1..Len(in) : in[i] \in Tokens
  BY LenProperties, ElementOfSeq DEF Connections
<1>1. Readable(c) \in 0..Len(in)
  BY <1>0, LastSyncType DEF Readable
<1>2. ready \in Seq(Tokens) /\ Len(ready) = Readable(c) /\ \A i \in 1..Len(ready) : ready[i] = in[i]
  <2>1. \A i \in 1..Readable(c) : in[i] \in Tokens
    BY <1>0, <1>1
  <2> QED BY <1>0, <1>1, <2>1, SubSeqProperties
<1>3. n \in 0..Len(in)
  <2> DEFINE I == {i \in 1..Len(ready) : ready[i] = Null}
  <2>1. CASE Null \notin Range(ready)
    BY <1>1, <1>2, <2>1
  <2>2. CASE Null \in Range(ready)
    <3>1. I # {} /\ I \in SUBSET Nat
      BY <1>2, <2>2, LenProperties DEF Range
    <3>2. SelectInSeq(ready, LAMBDA t : t = Null) = Min(I)
      BY <3>1 DEF SelectInSeq
    <3>3. Min(I) \in I
      <4> HIDE DEF I
      <4> QED BY <3>1, LeastNumber DEF Min
    <3>4. n = Min(I)
      BY <2>2, <3>2
    <3>5. Min(I) \in 1..Len(ready)
      BY <3>3
    <3> HIDE DEF n, ready, I
    <3> QED BY <1>0, <1>1, <1>2, <3>4, <3>5
  <2> QED BY <2>1, <2>2
<1>4. Receive(c) = [res |-> last, conn |-> [c EXCEPT !.input = SubSeq(in, n + 1, Len(in)),
                                                   !.mode = ModeAfter(c, SubSeq(in, 1, n))]]
  BY DEF Receive
<1>5. last \in Tokens /\ (last = Null \/ \E i \in 1..Len(in) : last = in[i])
  <2> HIDE DEF n
  <2>1. n \in 1..Len(in) => n = 1 \/ n - 1 \in 1..Len(in)
    BY <1>0
  <2> QED BY <1>0, <1>3, <2>1, TokenTypes
<1>6. /\ SubSeq(in, n + 1, Len(in)) \in Seq(Tokens)
      /\ \A i \in 1..Len(SubSeq(in, n + 1, Len(in))) :
            \E j \in 1..Len(in) : SubSeq(in, n + 1, Len(in))[i] = in[j]
  <2> HIDE DEF n
  <2>1. /\ SubSeq(in, n + 1, Len(in)) \in Seq(Tokens)
        /\ Range(in) = Range(SubSeq(in, 1, n)) \cup Range(SubSeq(in, n + 1, Len(in)))
    BY <1>0, <1>3, RangeOfSplit
  <2> DEFINE s == SubSeq(in, n + 1, Len(in))
  <2>2. DOMAIN s = 1..Len(s) /\ DOMAIN in = 1..Len(in)
    BY <1>0, <2>1, LenProperties
  <2> HIDE DEF s
  <2>3. \A i \in 1..Len(s) : \E j \in 1..Len(in) : s[i] = in[j]
    BY <2>1, <2>2 DEF Range, s
  <2> QED BY <2>1, <2>3 DEF s
<1> HIDE DEF n, last
<1>7. /\ ModeAfter(c, SubSeq(in, 1, n)) \in {"off", "on", "aborted"}
      /\ c.mode = "off" => ModeAfter(c, SubSeq(in, 1, n)) = "off"
  BY ModeType DEF ModeAfter
<1> HIDE DEF in
<1> DEFINE in2 == SubSeq(in, n + 1, Len(in))
           m2  == ModeAfter(c, SubSeq(in, 1, n))
<1>8. Receive(c).res = last /\ Receive(c).conn = [c EXCEPT !.input = in2, !.mode = m2]
  BY <1>4
<1>9. /\ in2 \in Seq(Tokens) /\ m2 \in {"off", "on", "aborted"} /\ (c.mode = "off" => m2 = "off")
      /\ \A i \in 1..Len(in2) : \E j \in 1..Len(in) : in2[i] = in[j]
  BY <1>6, <1>7
<1> HIDE DEF in2, m2
<1> DEFINE d == [c EXCEPT !.input = in2, !.mode = m2]
<1>10. d \in Connections /\ d.up = c.up /\ d.names = c.names /\ d.input = in2 /\ d.mode = m2
  BY <1>9 DEF Connections
<1>11. Receive(c).conn = d
  BY <1>8
<1> HIDE DEF d
<1> QED BY <1>5, <1>8, <1>9, <1>10, <1>11 DEF in

LEMMA LastSyncAtEnd ==
    ASSUME NEW in \in Seq(Tokens), in # <<>>, in[Len(in)] = Sync
    PROVE  LastSync(in) = Len(in)
<1> DEFINE I == {i \in 1..Len(in) : in[i].kind = "sync"}
<1>0. Len(in) \in Nat \ {0}
  BY EmptySeq
<1>1. Len(in) \in I
  BY <1>0 DEF Sync
<1>2. LastSync(in) = Max(I)
  BY <1>1 DEF LastSync, SelectLastInSeq
<1>3. \A x \in I : x \in Nat /\ Len(in) >= x
  BY <1>0
<1> HIDE DEF I
<1>4. Max(I) \in I /\ Max(I) >= Len(in)
  BY <1>1, <1>3 DEF Max
<1> QED BY <1>0, <1>2, <1>3, <1>4

(* Reading when a result and its null are at the head: that result is it.      *)
LEMMA ReceiveReply ==
    ASSUME NEW c \in Connections, Len(c.input) >= 2, c.input[1].kind = "res", c.input[2] = Null,
           Readable(c) >= 2
    PROVE  /\ Receive(c).res = c.input[1]
           /\ Receive(c).conn.input = SubSeq(c.input, 3, Len(c.input))
           /\ c.mode = "off" \/ c.input[1].ok => Receive(c).conn.mode = c.mode
<1> DEFINE in    == c.input
           ready == SubSeq(in, 1, Readable(c))
           two   == SubSeq(in, 1, 2)
<1>0. in \in Seq(Tokens) /\ Len(in) \in Nat /\ \A i \in 1..Len(in) : in[i] \in Tokens
  BY LenProperties, ElementOfSeq DEF Connections
<1>1. Readable(c) \in 2..Len(in)
  BY <1>0, LastSyncType DEF Readable
<1>2. /\ ready \in Seq(Tokens) /\ Len(ready) = Readable(c)
      /\ ready[1] = in[1] /\ ready[2] = in[2] /\ DOMAIN ready = 1..Len(ready)
  <2>1. \A i \in 1..Readable(c) : in[i] \in Tokens
    BY <1>0, <1>1
  <2>2. ready \in Seq(Tokens) /\ Len(ready) = Readable(c) /\ \A i \in 1..Len(ready) : ready[i] = in[i]
    BY <1>0, <1>1, <2>1, SubSeqProperties
  <2>3. DOMAIN ready = 1..Len(ready)
    BY <2>2, LenProperties
  <2> HIDE DEF ready
  <2> QED BY <1>1, <2>2, <2>3
<1>3. two \in Seq(Tokens) /\ Len(two) = 2 /\ two[1] = in[1] /\ two[2] = Null
  <2>1. \A i \in 1..2 : in[i] \in Tokens
    BY <1>0
  <2>2. two \in Seq(Tokens) /\ Len(two) = 2 /\ \A i \in 1..2 : two[i] = in[i]
    BY <1>0, <2>1, SubSeqProperties
  <2> QED BY <2>2
<1>4. in[1] # Null
  BY DEF Null
<1>5. SelectInSeq(ready, LAMBDA t : t = Null) = 2 /\ Null \in Range(ready)
  <2> DEFINE I == {i \in 1..Len(ready) : ready[i] = Null}
  <2>1. 2 \in I /\ 1 \notin I /\ \A x \in I : x \in Nat \ {0}
    <3> HIDE DEF ready
    <3> QED BY <1>1, <1>2, <1>4
  <2>2. SelectInSeq(ready, LAMBDA t : t = Null) = Min(I)
    BY <2>1 DEF SelectInSeq
  <2>3. Null \in Range(ready)
    BY <1>2, <2>1 DEF Range
  <2> HIDE DEF I
  <2>4. \A x \in I : 2 <= x
    BY <2>1
  <2>5. Min(I) \in I /\ Min(I) <= 2
    BY <2>1, <2>4 DEF Min
  <2>6. Min(I) = 2
    BY <2>1, <2>4, <2>5
  <2> QED BY <2>2, <2>3, <2>6
<1>6. Receive(c) = [res |-> in[1], conn |-> [c EXCEPT !.input = SubSeq(in, 3, Len(in)),
                                                    !.mode = ModeAfter(c, two)]]
  <2> DEFINE n    == IF Null \in Range(ready) THEN SelectInSeq(ready, LAMBDA t : t = Null)
                     ELSE Len(ready)
             idle == n = Len(in) /\ n > 0
             last == IF n = 0 THEN Null ELSE IF in[n] = Null THEN (IF n = 1 THEN Null ELSE in[n - 1])
                     ELSE IF idle THEN in[n] ELSE Null
  <2>1. Receive(c) = [res |-> last, conn |-> [c EXCEPT !.input = SubSeq(in, n + 1, Len(in)),
                                                     !.mode = ModeAfter(c, SubSeq(in, 1, n))]]
    BY DEF Receive
  <2>2. n = 2
    BY <1>5
  <2> HIDE DEF n
  <2>3. n + 1 = 3 /\ n - 1 = 1 /\ n # 0 /\ n # 1
    BY <2>2
  <2>4. last = in[1]
    BY <2>2, <2>3
  <2> HIDE DEF last
  <2> QED BY <2>1, <2>2, <2>3, <2>4
<1>7. c.mode = "off" \/ in[1].ok => ModeAfter(c, two) = c.mode
  <2> DEFINE I == {i \in 1..Len(two) : two[i].kind = "sync" \/ (two[i].kind = "res" /\ ~two[i].ok)}
  <2>1. SelectLastInSeq(two, LAMBDA t : t.kind = "sync" \/ (t.kind = "res" /\ ~t.ok))
          = IF I # {} THEN Max(I) ELSE 0
    BY DEF SelectLastInSeq
  <2>2. in[1].ok => I = {}
    <3> HIDE DEF two
    <3> QED BY <1>3 DEF Null
  <2> HIDE DEF I, two
  <2> QED BY <2>1, <2>2 DEF ModeAfter
<1> DEFINE in2 == SubSeq(in, 3, Len(in))
           m2  == ModeAfter(c, two)
           d   == [c EXCEPT !.input = in2, !.mode = m2]
<1>8. Receive(c).res = in[1] /\ Receive(c).conn = d
  BY <1>6
<1>9. d.input = in2 /\ d.mode = m2
  <2> HIDE DEF in2, m2
  <2> QED BY DEF Connections
<1> HIDE DEF d
<1> QED BY <1>7, <1>8, <1>9

LEMMA ConnectionTypes ==
    /\ Fresh \in Connections /\ Dead \in Connections /\ Fresh.up = "ok" /\ Dead.up = "null"
    /\ Fresh.mode = "off" /\ Dead.mode = "off" /\ Fresh.input = <<>> /\ Dead.input = <<>>
    /\ \A c \in Connections :
          LET d == EnsurePipelineOff(c)
          IN  /\ d \in Connections /\ d.up = c.up /\ d.input = c.input /\ d.names = c.names
              /\ d.mode = c.mode \/ (d.mode = "off" /\ c.mode = "on" /\ c.input = <<>>)
              /\ c.mode = "on" /\ c.input = <<>> => d.mode = "off"
<1>1. <<>> \in Seq(Tokens)
  BY EmptySeq
<1>2. Fresh \in Connections /\ Fresh.up = "ok" /\ Fresh.mode = "off" /\ Fresh.input = <<>>
  BY <1>1 DEF Fresh, Connections
<1>3. Dead \in Connections /\ Dead.up = "null" /\ Dead.mode = "off" /\ Dead.input = <<>>
  BY <1>1 DEF Fresh, Dead, Connections
<1>4. ASSUME NEW c \in Connections
      PROVE  LET d == EnsurePipelineOff(c)
             IN  /\ d \in Connections /\ d.up = c.up /\ d.input = c.input /\ d.names = c.names
                 /\ d.mode = c.mode \/ (d.mode = "off" /\ c.mode = "on" /\ c.input = <<>>)
                 /\ c.mode = "on" /\ c.input = <<>> => d.mode = "off"
  <2> DEFINE d == [c EXCEPT !.mode = "off"]
  <2>1. d \in Connections /\ d.up = c.up /\ d.input = c.input /\ d.names = c.names /\ d.mode = "off"
    BY DEF Connections
  <2>2. EnsurePipelineOff(c) = IF c.mode = "on" /\ c.input = <<>> THEN d ELSE c
    BY DEF EnsurePipelineOff
  <2> HIDE DEF d
  <2> QED BY <2>1, <2>2
<1> QED BY <1>2, <1>3, <1>4

(* Sending appends the answer that is to come and the null after it.           *)
LEMMA SentType ==
    ASSUME NEW c \in Connections, NEW q \in 0..Len(Sql), NEW ok \in BOOLEAN
    PROVE  LET d  == Sent(c, q, ok)
               in == c.input
           IN  /\ d \in Connections /\ d.up = c.up /\ d.mode = c.mode /\ d.names = c.names
               /\ d.input \in Seq(Tokens) /\ Len(in) \in Nat /\ Len(d.input) = Len(in) + 2
               /\ \A i \in 1..Len(in) : d.input[i] = in[i]
               /\ \E b \in BOOLEAN : d.input[Len(in) + 1] = Res(q, b)
               /\ c.mode = "off" => d.input[Len(in) + 1] = Res(q, ok)
               /\ d.input[Len(in) + 2] = Null
<1> DEFINE b   == ok /\ ~(c.mode # "off" /\ Spoilt(c.input))
           two == <<Res(q, b), Null>>
           new == c.input \o two
           d   == [c EXCEPT !.input = new]
<1>1. Sent(c, q, ok) = d
  BY DEF Sent
<1>2. b \in BOOLEAN /\ (c.mode = "off" => Res(q, b) = Res(q, ok))
  <2>1. c.mode = "off" => b = ok
    OBVIOUS
  <2>2. c.mode = "off" => Res(q, b) = Res(q, ok)
    <3> HIDE DEF b
    <3> QED BY <2>1, Zenon
  <2> QED BY <2>2
<1> HIDE DEF b
<1>3. Res(q, b) \in Tokens /\ Null \in Tokens
  BY <1>2, TokenTypes
<1>4. two \in Seq(Tokens) /\ Len(two) = 2 /\ two[1] = Res(q, b) /\ two[2] = Null
  <2> HIDE DEF Res, Null
  <2> QED BY <1>3
<1> HIDE DEF two
<1>5. c.input \in Seq(Tokens) /\ Len(c.input) \in Nat
  BY LenProperties DEF Connections
<1>6. /\ new \in Seq(Tokens) /\ Len(new) = Len(c.input) + 2
      /\ \A i \in 1..Len(c.input) + 2 :
            new[i] = IF i <= Len(c.input) THEN c.input[i] ELSE two[i - Len(c.input)]
  <2>1. /\ new \in Seq(Tokens) /\ Len(new) = Len(c.input) + Len(two)
        /\ \A i \in 1..Len(c.input) + Len(two) :
              new[i] = IF i <= Len(c.input) THEN c.input[i] ELSE two[i - Len(c.input)]
    BY <1>4, <1>5, ConcatProperties, Zenon
  <2> HIDE DEF new
  <2> QED BY <1>4, <2>1
<1> HIDE DEF new
<1>7. /\ \A i \in 1..Len(c.input) : new[i] = c.input[i]
      /\ new[Len(c.input) + 1] = two[1] /\ new[Len(c.input) + 2] = two[2]
  <2> DEFINE l == Len(c.input)
  <2>1. l \in Nat /\ l + 1 - l = 1 /\ l + 2 - l = 2
    BY <1>5
  <2> HIDE DEF l
  <2>2. \A i \in 1..l + 2 : new[i] = IF i <= l THEN c.input[i] ELSE two[i - l]
    BY <1>6 DEF l
  <2>3. (\A i \in 1..l : new[i] = c.input[i]) /\ new[l + 1] = two[1] /\ new[l + 2] = two[2]
    BY <2>1, <2>2
  <2> QED BY <2>3 DEF l
<1>8. d \in Connections /\ d.up = c.up /\ d.mode = c.mode /\ d.names = c.names /\ d.input = new
  BY <1>6 DEF Connections
<1> HIDE DEF d
<1> QED BY <1>1, <1>2, <1>4, <1>5, <1>6, <1>7, <1>8
--------------------------------------------------------------------------------
(* Where the queries are.  First what the steps of a worker have in common: it *)
(* goes on with its batch, or it completes the batch.                          *)
Others(w) ==
    \A v \in Workers \ {w} :
        pc'[v] = pc[v] /\ at'[v] = at[v] /\ got'[v] = got[v] /\ conn'[v] = conn[v]

LEMMA GoesOn ==
    ASSUME PlaceInv, NEW w \in Workers, Others(w), PoolTypes', Busy(w)' <=> Busy(w),
           Busy(w) \/ pc'[w] = pc[w], Busy(w) => Phase(w)', FallsBack(w)',
           UNCHANGED <<queue, made, answers, batch, stop, closed>>
    PROVE  PlaceInv'
<1> USE DEF PlaceInv
<1>1. \A v \in Workers : Busy(v)' <=> Busy(v)
  BY DEF Others, Busy
<1>2. Phases'
  <2> SUFFICES ASSUME NEW v \in Workers, Busy(v)' PROVE Phase(v)'
    BY DEF Phases
  <2>1. Busy(v)
    BY <1>1
  <2>2. CASE v # w
    BY <2>1, <2>2 DEF Phases, Phase, Others
  <2> QED BY <2>1, <2>2
<1>3. FallbackThrows'
  <2> SUFFICES ASSUME NEW v \in Workers PROVE FallsBack(v)'
    BY DEF FallbackThrows
  <2>1. CASE v # w
    BY <2>1 DEF FallbackThrows, FallsBack, Others
  <2> QED BY <2>1
<1>4. Places'
  <2>1. \A q \in Queries : InQueue(q)' <=> InQueue(q)
    BY DEF InQueue
  <2>2. \A q \in Queries, v \in Workers : InBatch(q, v)' <=> InBatch(q, v)
    BY <1>1 DEF InBatch
  <2>3. made' = made /\ queue' = queue /\ answers' = answers /\ batch' = batch
    OBVIOUS
  <2>4. \A q \in Queries : InQueue(q)' => q <= made' /\ answers'[q] = <<>>
    BY <2>1, <2>3 DEF Places
  <2>5. \A q \in Queries, v \in Workers : InBatch(q, v)' => q <= made' /\ answers'[q] = <<>> /\ ~InQueue(q)'
    BY <2>1, <2>2, <2>3 DEF Places
  <2>6. \A q \in Queries, v, u \in Workers : InBatch(q, v)' /\ InBatch(q, u)' => v = u
    BY <2>2 DEF Places
  <2>7. \A q \in 1..made' : InQueue(q)' \/ (\E v \in Workers : InBatch(q, v)') \/ answers'[q] # <<>>
    <3>1. \A q \in 1..made : q \in Queries
      BY DEF PoolTypes, Queries
    <3> QED BY <2>1, <2>2, <2>3, <3>1 DEF Places
  <2>8. \A q \in Queries, v \in Workers : ~Busy(v)' /\ q \in Range(batch'[v]) => answers'[q] # <<>>
    BY <1>1, <2>3 DEF Places
  <2>9. IsInjective(queue') /\ \A q \in Queries : q > made' => answers'[q] = <<>>
    BY <2>3 DEF Places
  <2> HIDE DEF InQueue, InBatch, Busy
  <2> QED BY <2>4, <2>5, <2>6, <2>7, <2>8, <2>9 DEF Places
<1>5. Ending'
  <2>1. closed => \A v \in Workers : pc'[v] = pc[v]
    BY DEF Ending, Others, Busy
  <2> QED BY <2>1 DEF Ending
<1>6. CompletedOnce'
  BY DEF CompletedOnce
<1> QED BY <1>2, <1>3, <1>4, <1>5, <1>6

(* The queries qs are completed, each with some answer.                        *)
Answers(qs) ==
    \A q \in Queries : IF q \in qs THEN \E x \in 0..Len(Sql) : answers'[q] = Append(answers[q], x)
                                   ELSE answers'[q] = answers[q]

LEMMA AnswerGrows ==
    ASSUME PlaceInv, NEW qs, Answers(qs), \A q \in qs : q \in Queries => answers[q] = <<>>
    PROVE  /\ \A q \in Queries : /\ q \in qs => answers'[q] # <<>>
                                 /\ q \notin qs => answers'[q] = answers[q]
           /\ CompletedOnce'
<1> SUFFICES ASSUME NEW q \in Queries
             PROVE  /\ q \in qs => answers'[q] # <<>>
                    /\ q \notin qs => answers'[q] = answers[q]
                    /\ Len(answers'[q]) <= 1
  BY DEF CompletedOnce
<1>1. CASE q \in qs
  <2>1. answers[q] = <<>>
    BY <1>1
  <2>2. PICK x \in 0..Len(Sql) : answers'[q] = Append(<<>>, x)
    BY <1>1, <2>1 DEF Answers
  <2>3. Append(<<>>, x) # <<>> /\ Len(Append(<<>>, x)) = Len(<<>>) + 1 /\ Len(<<>>) = 0
    BY AppendProperties, EmptySeq
  <2> QED BY <1>1, <2>2, <2>3
<1>2. CASE q \notin qs
  BY <1>2 DEF Answers, PlaceInv, CompletedOnce
<1> QED BY <1>1, <1>2

LEMMA Finishes ==
    ASSUME PlaceInv, NEW w \in Workers, Others(w), PoolTypes', Busy(w), pc'[w] = "idle",
           Answers(Range(batch[w])), UNCHANGED <<queue, made, batch, stop, closed>>
    PROVE  PlaceInv'
<1> USE DEF PlaceInv
<1>1. \A v \in Workers : Busy(v)' <=> Busy(v) /\ v # w
  BY DEF Others, Busy
<1>2. Phases'
  <2> SUFFICES ASSUME NEW v \in Workers, Busy(v)' PROVE Phase(v)'
    BY DEF Phases
  <2> QED BY <1>1 DEF Phases, Phase, Others
<1>3. FallbackThrows'
  <2> SUFFICES ASSUME NEW v \in Workers PROVE FallsBack(v)'
    BY DEF FallbackThrows
  <2>1. CASE v # w
    BY <2>1 DEF FallbackThrows, FallsBack, Others
  <2>2. CASE v = w
    BY <2>2 DEF FallsBack
  <2> QED BY <2>1, <2>2
<1>4. \A q \in Queries : q \in Range(batch[w]) <=> InBatch(q, w)
  BY DEF InBatch
<1>5. /\ \A q \in Queries : /\ InBatch(q, w) => answers'[q] # <<>>
                            /\ ~InBatch(q, w) => answers'[q] = answers[q]
      /\ CompletedOnce'
  <2>1. \A q \in Range(batch[w]) : q \in Queries => answers[q] = <<>>
    BY <1>4 DEF Places
  <2> QED BY <1>4, <2>1, AnswerGrows
<1>6. Places'
  <2>1. \A q \in Queries : InQueue(q)' <=> InQueue(q)
    BY DEF InQueue
  <2>2. \A q \in Queries, v \in Workers : InBatch(q, v)' <=> InBatch(q, v) /\ v # w
    BY <1>1 DEF InBatch
  <2>3. made' = made /\ queue' = queue /\ batch' = batch
    OBVIOUS
  <2>4. \A q \in Queries : InQueue(q)' => q <= made' /\ answers'[q] = <<>>
    BY <1>5, <2>1, <2>3 DEF Places
  <2>5. \A q \in Queries, v \in Workers : InBatch(q, v)' => q <= made' /\ answers'[q] = <<>> /\ ~InQueue(q)'
    BY <1>5, <2>1, <2>2, <2>3 DEF Places
  <2>6. \A q \in Queries, v, u \in Workers : InBatch(q, v)' /\ InBatch(q, u)' => v = u
    BY <2>2 DEF Places
  <2>7. \A q \in 1..made' : InQueue(q)' \/ (\E v \in Workers : InBatch(q, v)') \/ answers'[q] # <<>>
    <3>0. \A q \in 1..made : q \in Queries
      BY DEF PoolTypes, Queries
    <3> SUFFICES ASSUME NEW q \in 1..made, ~InQueue(q), answers'[q] = <<>>
                 PROVE  \E v \in Workers : InBatch(q, v)'
      BY <2>1, <2>3, <3>0
    <3>1. q \in Queries
      BY <3>0
    <3>2. ~InBatch(q, w) /\ answers[q] = <<>>
      BY <1>5, <3>1
    <3>3. PICK v \in Workers : InBatch(q, v)
      BY <3>2 DEF Places
    <3> QED BY <2>2, <3>1, <3>2, <3>3
  <2>8. \A q \in Queries, v \in Workers : ~Busy(v)' /\ q \in Range(batch'[v]) => answers'[q] # <<>>
    BY <1>1, <1>4, <1>5, <2>3 DEF Places
  <2>9. IsInjective(queue') /\ \A q \in Queries : q > made' => answers'[q] = <<>>
    <3> SUFFICES ASSUME NEW q \in Queries, q > made PROVE answers'[q] = <<>>
      BY <2>3 DEF Places
    <3>1. ~InBatch(q, w)
      BY DEF Places, PoolTypes, Queries
    <3> QED BY <1>5, <3>1 DEF Places
  <2> HIDE DEF InQueue, InBatch, Busy
  <2> QED BY <2>4, <2>5, <2>6, <2>7, <2>8, <2>9 DEF Places
<1>7. Ending'
  BY DEF Ending, Busy
<1> QED BY <1>2, <1>3, <1>5, <1>6, <1>7

LEMMA BusyFacts ==
    ASSUME PlaceInv, NEW w \in Workers, Busy(w)
    PROVE  /\ Len(batch[w]) \in Nat /\ at[w] \in 1..Len(batch[w]) /\ batch[w] \in Seq(Queries)
           /\ Query(w) \in Queries /\ Query(w) \in Range(batch[w]) /\ Query(w) \in 0..Len(Sql)
           /\ Sql[Query(w)] \in STRING /\ conn[w] \in Connections
           /\ got[w] \in Seq(0..Len(Sql)) /\ Len(got[w]) \in Nat /\ Phase(w)
<1>1. batch[w] \in Seq(Queries) /\ at[w] \in Nat \ {0} /\ Phase(w) /\ conn[w] \in Connections
      /\ got[w] \in Seq(0..Len(Sql))
  BY DEF PlaceInv, PoolTypes, Phases
<1>2. /\ Len(batch[w]) \in Nat /\ at[w] \in 1..Len(batch[w]) /\ DOMAIN batch[w] = 1..Len(batch[w])
      /\ Len(got[w]) \in Nat
  BY <1>1, LenProperties DEF Phase
<1>3. Query(w) \in Queries /\ Query(w) \in Range(batch[w])
  BY <1>1, <1>2, ElementOfSeq DEF Query, Range
<1>4. Len(Sql) \in Nat /\ \A q \in Queries : q \in 0..Len(Sql) /\ Sql[q] \in STRING
  BY PoolAssumption, LenProperties, ElementOfSeq DEF Queries
<1> QED BY <1>1, <1>2, <1>3, <1>4

(* Completing queries keeps the answers sequences of query numbers.            *)
LEMMA AnswersType ==
    ASSUME PoolTypes, NEW qs, NEW x \in 0..Len(Sql), answers' = Complete(qs, x)
    PROVE  answers' \in [Queries -> Seq(0..Len(Sql))] /\ Answers(qs)
<1>1. \A q \in Queries : answers[q] \in Seq(0..Len(Sql)) /\ Append(answers[q], x) \in Seq(0..Len(Sql))
  BY AppendProperties DEF PoolTypes
<1>2. answers' = [q \in Queries |-> IF q \in qs THEN Append(answers[q], x) ELSE answers[q]]
  BY DEF Complete
<1> QED BY <1>1, <1>2 DEF Answers

LEMMA ThrowKeeps ==
    ASSUME PlaceInv, NEW w \in Workers, Busy(w), NEW c \in Connections, ThrowWith(w, c),
           cached' \in [Workers -> SUBSET STRING], unsynced' \in [Workers -> BOOLEAN], faults' \in Nat
    PROVE  PlaceInv'
<1>0. PoolTypes
  BY DEF PlaceInv
<1>1. /\ answers' = Complete(Range(batch[w]), Error)
      /\ pc' = [pc EXCEPT ![w] = "idle"] /\ conn' = [conn EXCEPT ![w] = c]
      /\ unclean' = [unclean EXCEPT ![w] = c.up = "ok" /\ (@ \/ c.mode # "off")]
      /\ UNCHANGED <<queue, made, stop, closed, batch, at, got>>
  BY DEF ThrowWith, Goto
<1>2. Error \in 0..Len(Sql)
  BY PoolAssumption, LenProperties DEF Error
<1>3. answers' \in [Queries -> Seq(0..Len(Sql))] /\ Answers(Range(batch[w]))
  BY <1>0, <1>1, <1>2, AnswersType
<1>4. PoolTypes'
  <2>1. pc' \in [Workers -> PoolStates] /\ conn' \in [Workers -> Connections]
        /\ unclean' \in [Workers -> BOOLEAN]
    BY <1>0, <1>1 DEF PoolTypes, PoolStates
  <2> QED BY <1>0, <1>1, <1>3, <2>1 DEF PoolTypes
<1>5. Others(w) /\ pc'[w] = "idle"
  BY <1>0, <1>1 DEF PoolTypes, Others
<1> QED BY <1>1, <1>3, <1>4, <1>5, Finishes

LEMMA SendFailsKeeps ==
    ASSUME PlaceInv, NEW w \in Workers, Busy(w), SendFails(w)
    PROVE  PlaceInv'
<1>0. PoolTypes
  BY DEF PlaceInv
<1>1. CASE /\ cached' = [cached EXCEPT ![w] = {}] /\ unsynced' = [unsynced EXCEPT ![w] = FALSE]
           /\ ThrowWith(w, Fresh) /\ UNCHANGED faults
  <2>1. cached' \in [Workers -> SUBSET STRING] /\ unsynced' \in [Workers -> BOOLEAN] /\ faults' \in Nat
    BY <1>0, <1>1 DEF PoolTypes
  <2> QED BY <1>1, <2>1, ConnectionTypes, ThrowKeeps
<1>2. CASE /\ faults < MaxFaults /\ faults' = faults + 1
           /\ ThrowWith(w, Dead) /\ UNCHANGED <<cached, unsynced>>
  <2>1. cached' \in [Workers -> SUBSET STRING] /\ unsynced' \in [Workers -> BOOLEAN] /\ faults' \in Nat
    BY <1>0, <1>2 DEF PoolTypes
  <2> QED BY <1>2, <2>1, ConnectionTypes, ThrowKeeps
<1> QED BY <1>1, <1>2 DEF SendFails

LEMMA ThrowsKeeps ==
    ASSUME PlaceInv, NEW w \in Workers, Busy(w), NEW c \in Connections, Throw(w, c)
    PROVE  PlaceInv'
BY ThrowKeeps DEF Throw, PlaceInv, PoolTypes

(* Where Advance leaves the worker.                                            *)
LEMMA AdvanceEffect ==
    ASSUME PlaceInv, NEW w \in Workers, Busy(w), NEW next \in PoolStates, Advance(w, next)
    PROVE  /\ at' \in [Workers -> Nat \ {0}] /\ pc' \in [Workers -> PoolStates]
           /\ \A v \in Workers \ {w} : at'[v] = at[v] /\ pc'[v] = pc[v]
           /\ at[w] < Len(batch[w]) => at'[w] = at[w] + 1 /\ pc'[w] = pc[w]
           /\ at[w] >= Len(batch[w]) => at[w] = Len(batch[w]) /\ at'[w] = 1 /\ pc'[w] = next
<1>1. at[w] \in 1..Len(batch[w]) /\ Len(batch[w]) \in Nat
  BY BusyFacts
<1>2. at \in [Workers -> Nat \ {0}] /\ pc \in [Workers -> PoolStates]
  BY DEF PlaceInv, PoolTypes
<1>3. CASE at[w] < Len(batch[w])
  <2>1. at' = [at EXCEPT ![w] = @ + 1] /\ pc' = pc
    BY <1>3 DEF Advance
  <2>2. at' \in [Workers -> Nat \ {0}] /\ at'[w] = at[w] + 1
    BY <1>1, <1>2, <2>1
  <2> QED BY <1>1, <1>2, <1>3, <2>1, <2>2
<1>4. CASE ~(at[w] < Len(batch[w]))
  <2>1. at' = [at EXCEPT ![w] = 1] /\ pc' = [pc EXCEPT ![w] = next]
    BY <1>4 DEF Advance, Goto
  <2> QED BY <1>1, <1>2, <1>4, <2>1
<1> QED BY <1>3, <1>4

LEMMA PreparedKeeps ==
    ASSUME PlaceInv, NEW w \in Workers, pc[w] \in {"prepare", "one"}, Prepared(w),
           NEW c \in Connections, conn' = [conn EXCEPT ![w] = c],
           Len(batch[w]) > 1 /\ pc[w] = "one" => ~Sendable(c),
           cached' \in [Workers -> SUBSET STRING],
           UNCHANGED <<queue, made, answers, stop, closed, batch, got, unclean, unsynced, faults>>
    PROVE  PlaceInv'
<1>0. PoolTypes /\ Busy(w)
  BY DEF PlaceInv, Busy
<1>1. /\ at[w] \in 1..Len(batch[w]) /\ Len(batch[w]) \in Nat /\ Phase(w) /\ FallsBack(w)
  BY <1>0, BusyFacts DEF PlaceInv, FallbackThrows
<1>2. conn' \in [Workers -> Connections] /\ conn'[w] = c /\ \A v \in Workers \ {w} : conn'[v] = conn[v]
  BY <1>0 DEF PoolTypes
<1>3. CASE pc[w] = "prepare"
  <2>1. Advance(w, "enter")
    BY <1>3 DEF Prepared
  <2>2. "enter" \in PoolStates
    BY DEF PoolStates
  <2>3. PoolTypes' /\ Others(w)
    BY <1>0, <1>2, <2>1, <2>2, AdvanceEffect DEF PoolTypes, Others
  <2>4. Busy(w)' /\ Phase(w)' /\ FallsBack(w)'
    <3>1. CASE at[w] < Len(batch[w])
      <4>1. at'[w] = at[w] + 1 /\ pc'[w] = "prepare"
        BY <1>0, <1>3, <2>1, <2>2, <3>1, AdvanceEffect
      <4> QED BY <1>1, <1>3, <3>1, <4>1 DEF Busy, Phase, FallsBack
    <3>2. CASE at[w] >= Len(batch[w])
      <4>1. at'[w] = 1 /\ pc'[w] = "enter"
        BY <1>0, <1>3, <2>1, <2>2, <3>2, AdvanceEffect
      <4> QED BY <1>1, <1>3, <3>2, <4>1 DEF Busy, Phase, FallsBack
    <3> QED BY <1>1, <3>1, <3>2
  <2> QED BY <1>0, <2>3, <2>4, GoesOn
<1>4. CASE pc[w] = "one"
  <2>1. pc' = [pc EXCEPT ![w] = "exec"] /\ at' = at
    BY <1>4 DEF Prepared, Goto
  <2>2. PoolTypes' /\ Others(w) /\ pc'[w] = "exec"
    BY <1>0, <1>2, <2>1 DEF PoolTypes, PoolStates, Others
  <2>3. Busy(w)' /\ Phase(w)' /\ FallsBack(w)'
    BY <1>1, <1>2, <1>4, <2>1, <2>2 DEF Busy, Phase, FallsBack
  <2> QED BY <1>0, <2>2, <2>3, GoesOn
<1> QED BY <1>3, <1>4

LEMMA EnsurePreparedKeeps ==
    ASSUME PlaceInv, NEW w \in Workers, pc[w] \in {"prepare", "one"}, EnsurePrepared(w)
    PROVE  PlaceInv'
<1>0. PoolTypes /\ Busy(w) /\ FallsBack(w)
  BY DEF PlaceInv, Busy, FallbackThrows
<1>1. conn[w] \in Connections /\ Sql[Query(w)] \in STRING
  BY <1>0, BusyFacts
<1>2. CASE Sql[Query(w)] \in cached[w]
  <2>1. /\ Prepared(w)
        /\ UNCHANGED <<queue, made, answers, stop, closed, batch, got, cached, conn, unclean, unsynced, faults>>
    BY <1>2 DEF EnsurePrepared
  <2>2. conn' = [conn EXCEPT ![w] = conn[w]] /\ cached' \in [Workers -> SUBSET STRING]
    BY <1>0, <2>1 DEF PoolTypes
  <2>3. Len(batch[w]) > 1 /\ pc[w] = "one" => ~Sendable(conn[w])
    BY <1>0 DEF FallsBack
  <2> QED BY <1>1, <2>1, <2>2, <2>3, PreparedKeeps
<1>3. CASE Sql[Query(w)] \notin cached[w] /\ ~SendFails(w)
  <2>1. PICK ok \in BOOLEAN :
          LET c == Sent(conn[w], 0, ok)
              r == Receive(c)
              named == [r.conn EXCEPT !.names = IF c.input[Len(c.input) - 1].ok
                                                THEN @ \cup {Sql[Query(w)]} ELSE @]
          IN  /\ Sendable(conn[w])
              /\ IF r.res.ok /\ r.res # Null
                 THEN /\ cached' = [cached EXCEPT ![w] = @ \cup {Sql[Query(w)]}]
                      /\ conn' = [conn EXCEPT ![w] = named]
                      /\ Prepared(w)
                      /\ UNCHANGED <<queue, made, answers, stop, closed, batch, got,
                                     unclean, unsynced, faults>>
                 ELSE Throw(w, named)
    BY <1>3 DEF EnsurePrepared
  <2> DEFINE c == Sent(conn[w], 0, ok)
             r == Receive(c)
             named == [r.conn EXCEPT !.names = IF c.input[Len(c.input) - 1].ok
                                               THEN @ \cup {Sql[Query(w)]} ELSE @]
  <2>2. c \in Connections
    <3>1. 0 \in 0..Len(Sql)
      BY PoolAssumption, LenProperties
    <3> QED BY <1>1, <3>1, SentType
  <2>3. r.conn \in Connections
    BY <2>2, ReceiveType
  <2>4. named \in Connections
    <3> HIDE DEF r, c
    <3> QED BY <1>1, <2>3 DEF Connections
  <2>5. Sendable(conn[w])
    BY <2>1
  <2>6. CASE r.res.ok /\ r.res # Null
    <3>1. /\ cached' = [cached EXCEPT ![w] = @ \cup {Sql[Query(w)]}]
          /\ conn' = [conn EXCEPT ![w] = named] /\ Prepared(w)
          /\ UNCHANGED <<queue, made, answers, stop, closed, batch, got, unclean, unsynced, faults>>
      BY <2>1, <2>6
    <3>2. cached' \in [Workers -> SUBSET STRING]
      BY <1>0, <1>1, <3>1 DEF PoolTypes
    <3>3. ~(Len(batch[w]) > 1 /\ pc[w] = "one")
      BY <1>0, <2>5 DEF FallsBack
    <3> HIDE DEF named
    <3> QED BY <2>4, <3>1, <3>2, <3>3, PreparedKeeps
  <2>7. CASE ~(r.res.ok /\ r.res # Null)
    <3>1. Throw(w, named)
      BY <2>1, <2>7
    <3> HIDE DEF named
    <3> QED BY <1>0, <2>4, <3>1, ThrowsKeeps
  <2> QED BY <2>6, <2>7
<1> QED BY <1>0, <1>2, <1>3, SendFailsKeeps

LEMMA EnterKeeps == ASSUME PlaceInv, NEW w \in Workers, EnterPipeline(w) PROVE PlaceInv'
<1> DEFINE c  == EnsurePipelineOff(conn[w])
           ok == c.up # "null" /\ (c.mode = "off" => c.input = <<>>)
           on == [c EXCEPT !.mode = "on"]
           d  == IF ok /\ c.mode = "off" THEN on ELSE c
           p  == IF ok THEN "send" ELSE "one"
<1>0. PoolTypes /\ pc[w] = "enter" /\ Busy(w)
  BY DEF PlaceInv, EnterPipeline, Busy
<1>1. /\ conn' = [conn EXCEPT ![w] = d] /\ pc' = [pc EXCEPT ![w] = p]
      /\ UNCHANGED <<queue, made, answers, stop, closed, batch, at, got, cached, unclean, unsynced, faults>>
  BY DEF EnterPipeline, Goto
<1>2. c \in Connections
  BY <1>0, BusyFacts, ConnectionTypes
<1> HIDE DEF c
<1>3. d \in Connections
  BY <1>2 DEF Connections
<1>4. p = "one" => d = c /\ ~Sendable(c)
  BY <1>2 DEF Sendable, Connections
<1> HIDE DEF d
<1>5. PoolTypes' /\ Others(w) /\ pc'[w] = p /\ conn'[w] = d /\ p \in {"one", "send"}
  BY <1>0, <1>1, <1>3 DEF PoolTypes, PoolStates, Others
<1> HIDE DEF p
<1>6. Phase(w) /\ Len(batch[w]) \in Nat
  BY <1>0, BusyFacts
<1>7. Busy(w)' /\ Phase(w)' /\ FallsBack(w)'
  BY <1>0, <1>1, <1>4, <1>5, <1>6 DEF Busy, Phase, FallsBack
<1> QED BY <1>0, <1>1, <1>5, <1>7, GoesOn

LEMMA SendKeeps == ASSUME PlaceInv, NEW w \in Workers, SendInPipeline(w) PROVE PlaceInv'
<1>0. PoolTypes /\ pc[w] = "send" /\ Busy(w)
  BY DEF PlaceInv, SendInPipeline, Busy
<1>1. CASE ~SendFails(w)
  <2>1. PICK ok \in BOOLEAN : conn' = [conn EXCEPT ![w] = Execute(w, ok)]
    BY <1>1 DEF SendInPipeline
  <2>2. /\ Advance(w, "sync")
        /\ UNCHANGED <<queue, made, answers, stop, closed, batch, got, cached, unclean, unsynced, faults>>
    BY <1>1 DEF SendInPipeline
  <2>3. Execute(w, ok) \in Connections
    <3>1. (ok /\ Sql[Query(w)] \in conn[w].names) \in BOOLEAN
      OBVIOUS
    <3> QED BY <1>0, <3>1, BusyFacts, SentType DEF Execute
  <2>4. "sync" \in PoolStates
    BY DEF PoolStates
  <2>5. PoolTypes' /\ Others(w)
    <3>1. conn' \in [Workers -> Connections] /\ \A v \in Workers \ {w} : conn'[v] = conn[v]
      BY <1>0, <2>1, <2>3 DEF PoolTypes
    <3> QED BY <1>0, <2>2, <2>4, <3>1, AdvanceEffect DEF PoolTypes, Others
  <2>6. Phase(w) /\ Len(batch[w]) \in Nat /\ at[w] \in 1..Len(batch[w])
    BY <1>0, BusyFacts
  <2>7. Busy(w)' /\ Phase(w)' /\ FallsBack(w)'
    <3>1. CASE at[w] < Len(batch[w])
      <4>1. at'[w] = at[w] + 1 /\ pc'[w] = "send"
        BY <1>0, <2>2, <2>4, <3>1, AdvanceEffect
      <4> QED BY <1>0, <2>2, <2>6, <3>1, <4>1 DEF Busy, Phase, FallsBack
    <3>2. CASE at[w] >= Len(batch[w])
      <4>1. at'[w] = 1 /\ pc'[w] = "sync"
        BY <1>0, <2>2, <2>4, <3>2, AdvanceEffect
      <4> QED BY <1>0, <2>2, <2>6, <3>2, <4>1 DEF Busy, Phase, FallsBack
    <3> QED BY <2>6, <3>1, <3>2
  <2> QED BY <1>0, <2>2, <2>5, <2>7, GoesOn
<1> QED BY <1>0, <1>1, SendFailsKeeps

LEMMA SyncKeeps == ASSUME PlaceInv, NEW w \in Workers, SyncPipeline(w) PROVE PlaceInv'
<1>0. PoolTypes /\ pc[w] = "sync" /\ Busy(w)
  BY DEF PlaceInv, SyncPipeline, Busy
<1>1. CASE /\ conn' = [conn EXCEPT ![w].input = Append(@, Sync)]
           /\ Goto(w, "receive")
           /\ UNCHANGED <<queue, made, answers, stop, closed, batch, at, got, cached, unclean, unsynced, faults>>
  <2> DEFINE in == Append(conn[w].input, Sync)
             d  == [conn[w] EXCEPT !.input = in]
  <2>1. conn[w] \in Connections /\ in \in Seq(Tokens)
    BY <1>0, BusyFacts, TokenTypes, AppendProperties DEF Connections
  <2>2. d \in Connections
    <3> HIDE DEF in
    <3> QED BY <2>1 DEF Connections
  <2>3. conn' = [conn EXCEPT ![w] = d]
    BY <1>1, <1>0 DEF PoolTypes
  <2>4. pc' = [pc EXCEPT ![w] = "receive"]
    BY <1>1 DEF Goto
  <2> HIDE DEF d
  <2>5. PoolTypes' /\ Others(w) /\ pc'[w] = "receive"
    BY <1>0, <1>1, <2>2, <2>3, <2>4 DEF PoolTypes, PoolStates, Others
  <2>6. Phase(w) /\ Len(batch[w]) \in Nat
    BY <1>0, BusyFacts
  <2>7. Busy(w)' /\ Phase(w)' /\ FallsBack(w)'
    BY <1>0, <1>1, <2>5, <2>6 DEF Busy, Phase, FallsBack
  <2> QED BY <1>0, <1>1, <2>5, <2>7, GoesOn
<1>2. CASE /\ faults < MaxFaults /\ faults' = faults + 1
           /\ unsynced' = [unsynced EXCEPT ![w] = TRUE]
           /\ \E c \in {Fresh, Dead} : ThrowWith(w, c)
           /\ UNCHANGED cached
  <2>1. cached' \in [Workers -> SUBSET STRING] /\ unsynced' \in [Workers -> BOOLEAN] /\ faults' \in Nat
    BY <1>0, <1>2 DEF PoolTypes
  <2> QED BY <1>0, <1>2, <2>1, ConnectionTypes, ThrowKeeps
<1> QED BY <1>1, <1>2 DEF SyncPipeline

LEMMA ReceiveKeeps == ASSUME PlaceInv, NEW w \in Workers, ReceiveInPipeline(w) PROVE PlaceInv'
<1> DEFINE r == Receive(conn[w])
<1>0. PoolTypes /\ pc[w] = "receive" /\ Busy(w)
  BY DEF PlaceInv, ReceiveInPipeline, Busy
<1>1. r.res \in Tokens /\ r.conn \in Connections
  BY <1>0, BusyFacts, ReceiveType
<1>2. IF r.res.kind = "res" /\ r.res.ok
      THEN /\ got' = [got EXCEPT ![w] = Append(@, r.res.of)]
           /\ conn' = [conn EXCEPT ![w] = r.conn]
           /\ Advance(w, "finish")
           /\ UNCHANGED <<queue, made, answers, stop, closed, batch, cached, unclean, unsynced, faults>>
      ELSE Throw(w, r.conn)
  BY DEF ReceiveInPipeline
<1> HIDE DEF r
<1>3. CASE r.res.kind = "res" /\ r.res.ok
  <2>1. /\ got' = [got EXCEPT ![w] = Append(got[w], r.res.of)]
        /\ conn' = [conn EXCEPT ![w] = r.conn] /\ Advance(w, "finish")
        /\ UNCHANGED <<queue, made, answers, stop, closed, batch, cached, unclean, unsynced, faults>>
    BY <1>2, <1>3
  <2>2. "finish" \in PoolStates /\ r.res.of \in 0..Len(Sql)
    BY <1>1 DEF PoolStates, Tokens
  <2>3. Append(got[w], r.res.of) \in Seq(0..Len(Sql)) /\ Len(Append(got[w], r.res.of)) = Len(got[w]) + 1
    BY <1>0, <2>2, BusyFacts, AppendProperties
  <2>4. /\ conn' \in [Workers -> Connections] /\ got' \in [Workers -> Seq(0..Len(Sql))]
        /\ Len(got'[w]) = Len(got[w]) + 1
        /\ \A v \in Workers \ {w} : conn'[v] = conn[v] /\ got'[v] = got[v]
    BY <1>0, <1>1, <2>1, <2>3 DEF PoolTypes
  <2>5. PoolTypes' /\ Others(w)
    BY <1>0, <2>1, <2>2, <2>4, AdvanceEffect DEF PoolTypes, Others
  <2>6. Phase(w) /\ Len(batch[w]) \in Nat /\ at[w] \in 1..Len(batch[w]) /\ Len(got[w]) \in Nat
    BY <1>0, BusyFacts
  <2>7. Len(got[w]) = at[w] - 1
    BY <1>0, <2>6 DEF Phase
  <2>8. Busy(w)' /\ Phase(w)' /\ FallsBack(w)'
    <3>1. CASE at[w] < Len(batch[w])
      <4>1. at'[w] = at[w] + 1 /\ pc'[w] = "receive"
        BY <1>0, <2>1, <2>2, <3>1, AdvanceEffect
      <4> QED BY <2>1, <2>4, <2>6, <2>7, <3>1, <4>1 DEF Busy, Phase, FallsBack
    <3>2. CASE at[w] >= Len(batch[w])
      <4>1. at'[w] = 1 /\ pc'[w] = "finish" /\ at[w] = Len(batch[w])
        BY <1>0, <2>1, <2>2, <3>2, AdvanceEffect
      <4> QED BY <2>1, <2>4, <2>6, <2>7, <3>2, <4>1 DEF Busy, Phase, FallsBack
    <3> QED BY <2>6, <3>1, <3>2
  <2> QED BY <1>0, <2>1, <2>5, <2>8, GoesOn
<1>4. CASE ~(r.res.kind = "res" /\ r.res.ok)
  BY <1>0, <1>1, <1>2, <1>4, ThrowsKeeps
<1> QED BY <1>3, <1>4

LEMMA FinishKeeps == ASSUME PlaceInv, NEW w \in Workers, FinishPipeline(w) PROVE PlaceInv'
<1> DEFINE in   == conn[w].input
           mode == ModeAfter(conn[w], <<Head(in)>>)
           tail == Tail(in)
           rest == [conn[w] EXCEPT !.input = tail, !.mode = mode]
           b    == batch[w]
<1>0. PoolTypes /\ pc[w] = "finish" /\ Busy(w)
  BY DEF PlaceInv, FinishPipeline, Busy
<1>1. conn[w] \in Connections /\ in \in Seq(Tokens) /\ mode \in {"off", "on", "aborted"}
  BY <1>0, BusyFacts, ModeType DEF Connections
<1>2. rest = [conn[w] EXCEPT !.input = Tail(@), !.mode = ModeAfter(conn[w], <<Head(in)>>)]
  BY <1>1 DEF Connections
<1>3. IF in # <<>> /\ Head(in) = Sync
      THEN /\ answers' = [q \in Queries |->
                IF q \in Range(b) THEN Append(answers[q], got[w][CHOOSE i \in DOMAIN b : b[i] = q])
                ELSE answers[q]]
           /\ conn' = [conn EXCEPT ![w] = EnsurePipelineOff(rest)]
           /\ Goto(w, "idle")
           /\ UNCHANGED <<queue, made, stop, closed, batch, at, got, cached, unclean, unsynced, faults>>
      ELSE Throw(w, IF in = <<>> THEN conn[w] ELSE rest)
  BY <1>2 DEF FinishPipeline
<1>4. in # <<>> => rest \in Connections
  <2> SUFFICES ASSUME in # <<>> PROVE rest \in Connections
    OBVIOUS
  <2>1. tail \in Seq(Tokens)
    BY <1>1, HeadTailProperties
  <2> HIDE DEF tail, mode
  <2> QED BY <1>1, <2>1 DEF Connections
<1> HIDE DEF rest
<1>5. CASE in # <<>> /\ Head(in) = Sync
  <2> DEFINE d == EnsurePipelineOff(rest)
  <2>1. d \in Connections
    BY <1>4, <1>5, ConnectionTypes
  <2> HIDE DEF d
  <2>2. /\ \A q \in Queries : answers'[q] = IF q \in Range(b)
                THEN Append(answers[q], got[w][CHOOSE i \in DOMAIN b : b[i] = q]) ELSE answers[q]
        /\ DOMAIN answers' = Queries /\ answers' = [q \in Queries |-> answers'[q]]
    BY <1>3, <1>5
  <2>3. /\ conn' = [conn EXCEPT ![w] = d] /\ pc' = [pc EXCEPT ![w] = "idle"]
        /\ UNCHANGED <<queue, made, stop, closed, batch, at, got, cached, unclean, unsynced, faults>>
    BY <1>3, <1>5 DEF Goto, d
  <2>4. Len(b) = Len(got[w]) /\ Len(b) \in Nat /\ DOMAIN b = 1..Len(b)
        /\ got[w] \in Seq(0..Len(Sql))
    <3>1. b \in Seq(Queries) /\ Phase(w) /\ got[w] \in Seq(0..Len(Sql))
      BY <1>0, BusyFacts
    <3> QED BY <1>0, <3>1, LenProperties DEF Phase
  <2>5. ASSUME NEW q \in Queries, q \in Range(b)
        PROVE  got[w][CHOOSE i \in DOMAIN b : b[i] = q] \in 0..Len(Sql)
    <3> DEFINE j == CHOOSE i \in DOMAIN b : b[i] = q
    <3>1. j \in 1..Len(got[w])
      BY <2>4, <2>5 DEF Range
    <3> HIDE DEF j
    <3>2. got[w][j] \in 0..Len(Sql)
      BY <2>4, <3>1, ElementOfSeq
    <3> QED BY <3>2 DEF j
  <2>6. Answers(Range(b))
    BY <2>2, <2>5 DEF Answers
  <2>7. answers' \in [Queries -> Seq(0..Len(Sql))]
    <3>1. ASSUME NEW q \in Queries PROVE answers'[q] \in Seq(0..Len(Sql))
      <4>1. answers[q] \in Seq(0..Len(Sql))
        BY <1>0 DEF PoolTypes
      <4>2. CASE q \in Range(b)
        <5>1. PICK x \in 0..Len(Sql) : answers'[q] = Append(answers[q], x)
          BY <2>6, <4>2 DEF Answers
        <5>2. Append(answers[q], x) \in Seq(0..Len(Sql))
          BY <4>1, AppendProperties
        <5> QED BY <5>1, <5>2
      <4>3. CASE q \notin Range(b)
        BY <2>6, <4>1, <4>3 DEF Answers
      <4> QED BY <4>2, <4>3
    <3> QED BY <2>2, <3>1
  <2>8. PoolTypes' /\ Others(w) /\ pc'[w] = "idle"
    <3>1. pc' \in [Workers -> PoolStates] /\ conn' \in [Workers -> Connections]
      BY <1>0, <2>1, <2>3 DEF PoolTypes, PoolStates
    <3> QED BY <1>0, <2>3, <2>7, <3>1 DEF PoolTypes, Others
  <2> QED BY <1>0, <2>3, <2>6, <2>8, Finishes
<1>6. CASE ~(in # <<>> /\ Head(in) = Sync)
  <2> DEFINE d == IF in = <<>> THEN conn[w] ELSE rest
  <2>1. Throw(w, d) /\ d \in Connections
    BY <1>1, <1>3, <1>4, <1>6
  <2> HIDE DEF d
  <2> QED BY <1>0, <2>1, ThrowsKeeps
<1> QED BY <1>5, <1>6

LEMMA ExecKeeps == ASSUME PlaceInv, NEW w \in Workers, ExecOne(w) PROVE PlaceInv'
<1>0. PoolTypes /\ pc[w] = "exec" /\ Busy(w) /\ FallsBack(w)
  BY DEF PlaceInv, ExecOne, Busy, FallbackThrows
<1>b. /\ Len(batch[w]) \in Nat /\ at[w] \in 1..Len(batch[w]) /\ batch[w] \in Seq(Queries)
      /\ Query(w) \in Queries /\ Query(w) \in Range(batch[w]) /\ Query(w) \in 0..Len(Sql)
      /\ conn[w] \in Connections
  BY <1>0, BusyFacts
<1>1. CASE ~SendFails(w)
  <2>1. PICK ok \in BOOLEAN :
          LET r == Receive(Execute(w, ok))
          IN  /\ Sendable(conn[w])
              /\ IF r.res = Null THEN Throw(w, r.conn)
                 ELSE /\ answers' = Complete({Query(w)}, IF r.res.ok THEN r.res.of ELSE Error)
                      /\ conn' = [conn EXCEPT ![w] =
                                    IF at[w] < Len(batch[w]) THEN EnsurePipelineOff(r.conn) ELSE r.conn]
                      /\ IF at[w] < Len(batch[w])
                         THEN at' = [at EXCEPT ![w] = @ + 1] /\ Goto(w, "one")
                         ELSE at' = at /\ Goto(w, "idle")
                      /\ UNCHANGED <<queue, made, stop, closed, batch, got, cached, unclean, unsynced, faults>>
    BY <1>1 DEF ExecOne
  <2> DEFINE r == Receive(Execute(w, ok))
  <2>2. Execute(w, ok) \in Connections
    <3>1. (ok /\ Sql[Query(w)] \in conn[w].names) \in BOOLEAN
      OBVIOUS
    <3> QED BY <1>b, <3>1, SentType DEF Execute
  <2>3. r.res \in Tokens /\ r.conn \in Connections
    BY <2>2, ReceiveType
  <2>4. Sendable(conn[w])
    BY <2>1
  <2>5. Len(batch[w]) = 1
    <3>1. ~(Len(batch[w]) > 1)
      BY <1>0, <2>4 DEF FallsBack
    <3> DEFINE n == Len(batch[w])
    <3>2. n \in Nat /\ at[w] \in 1..n /\ ~(n > 1)
      BY <1>b, <3>1
    <3> HIDE DEF n
    <3>3. n = 1
      BY <3>2
    <3> QED BY <3>3 DEF n
  <2>6. CASE r.res = Null
    <3>1. Throw(w, r.conn)
      BY <2>1, <2>6
    <3> HIDE DEF r
    <3> QED BY <1>0, <2>3, <3>1, ThrowsKeeps
  <2>7. CASE r.res # Null
    <3> DEFINE x == IF r.res.ok THEN r.res.of ELSE Error
    <3>0. ~(at[w] < Len(batch[w]))
      BY <1>b, <2>5
    <3>1. /\ answers' = Complete({Query(w)}, x) /\ conn' = [conn EXCEPT ![w] = r.conn]
          /\ at' = at /\ pc' = [pc EXCEPT ![w] = "idle"]
          /\ UNCHANGED <<queue, made, stop, closed, batch, got, cached, unclean, unsynced, faults>>
      BY <2>1, <2>7, <3>0 DEF Goto
    <3> HIDE DEF r
    <3>2. x \in 0..Len(Sql)
      BY <2>3, PoolAssumption, LenProperties DEF Tokens, Error
    <3> HIDE DEF x
    <3>3. answers' \in [Queries -> Seq(0..Len(Sql))] /\ Answers({Query(w)})
      BY <1>0, <3>1, <3>2, AnswersType
    <3>4. Range(batch[w]) = {Query(w)}
      <4>1. DOMAIN batch[w] = {1} /\ at[w] = 1
        BY <1>b, <2>5, LenProperties
      <4> QED BY <4>1 DEF Range, Query
    <3>5. PoolTypes' /\ Others(w) /\ pc'[w] = "idle"
      <4>1. pc' \in [Workers -> PoolStates] /\ conn' \in [Workers -> Connections]
        BY <1>0, <2>3, <3>1 DEF PoolTypes, PoolStates
      <4> QED BY <1>0, <3>1, <3>3, <4>1 DEF PoolTypes, Others
    <3> QED BY <1>0, <3>1, <3>3, <3>4, <3>5, Finishes
  <2> QED BY <2>6, <2>7
<1> QED BY <1>0, <1>1, SendFailsKeeps

LEMMA TimeOutKeeps == ASSUME PlaceInv, NEW w \in Workers, TimeOut(w) PROVE PlaceInv'
<1>0. PoolTypes
  BY DEF PlaceInv
<1>1. /\ pc[w] \in {"prepare", "one", "exec", "receive", "finish"}
      /\ \E c \in {conn[w], Execute(w, TRUE), Sent(conn[w], 0, TRUE)} : ThrowWith(w, c)
      /\ faults' = faults + 1 /\ UNCHANGED <<cached, unsynced>>
  BY DEF TimeOut
<1>2. Busy(w)
  BY <1>1 DEF Busy
<1>3. {conn[w], Execute(w, TRUE), Sent(conn[w], 0, TRUE)} \subseteq Connections
  <2>1. (TRUE /\ Sql[Query(w)] \in conn[w].names) \in BOOLEAN
    OBVIOUS
  <2>2. conn[w] \in Connections /\ Execute(w, TRUE) \in Connections
    BY <1>2, <2>1, BusyFacts, SentType DEF Execute
  <2>3. Sent(conn[w], 0, TRUE) \in Connections
    <3>1. Len(Sql) \in Nat
      BY PoolAssumption, LenProperties
    <3>2. 0 \in 0..Len(Sql) /\ TRUE \in BOOLEAN
      BY <3>1
    <3> QED BY <2>2, <3>2, SentType
  <2> QED BY <2>2, <2>3
<1>4. cached' \in [Workers -> SUBSET STRING] /\ unsynced' \in [Workers -> BOOLEAN] /\ faults' \in Nat
  BY <1>0, <1>1 DEF PoolTypes
<1> QED BY <1>1, <1>2, <1>3, <1>4, ThrowKeeps

LEMMA DropKeeps == ASSUME PlaceInv, NEW w \in Workers, Drop(w) PROVE PlaceInv'
<1> DEFINE d == [conn[w] EXCEPT !.up = "dead", !.input = <<>>]
<1>0. PoolTypes /\ FallsBack(w)
  BY DEF PlaceInv, FallbackThrows
<1>1. /\ conn' = [conn EXCEPT ![w] = d] /\ faults' = faults + 1
      /\ UNCHANGED <<queue, made, answers, stop, closed, pc, batch, at, got, cached, unclean, unsynced>>
  BY <1>0 DEF Drop, PoolTypes
<1>2. d \in Connections /\ d.up = "dead"
  BY <1>0, EmptySeq DEF PoolTypes, Connections
<1> HIDE DEF d
<1>3. PoolTypes' /\ Others(w) /\ conn'[w] = d
  BY <1>0, <1>1, <1>2 DEF PoolTypes, Others
<1>4. Busy(w)' <=> Busy(w)
  BY <1>1 DEF Busy
<1>5. Busy(w) => Phase(w)'
  BY <1>1 DEF PlaceInv, Phases, Phase
<1>6. FallsBack(w)'
  BY <1>0, <1>1, <1>2, <1>3 DEF FallsBack, Sendable
<1> QED BY <1>1, <1>3, <1>4, <1>5, <1>6, GoesOn

(* A worker takes the head of the queue: the queries move to its batch.        *)
LEMMA TakeKeeps == ASSUME PlaceInv, NEW w \in Workers, Take(w) PROVE PlaceInv'
<1> USE DEF PlaceInv
<1> DEFINE n == IF Len(queue) < MaxBatch THEN Len(queue) ELSE MaxBatch
           front == SubSeq(queue, 1, n)
           rest  == SubSeq(queue, n + 1, Len(queue))
           p     == IF n = 1 THEN "one" ELSE "prepare"
           c     == EnsurePipelineOff(conn[w])
<1>0. PoolTypes /\ pc[w] = "idle" /\ ~Busy(w) /\ queue # <<>>
  BY DEF Take, Busy
<1>1. /\ batch' = [batch EXCEPT ![w] = front] /\ queue' = rest /\ pc' = [pc EXCEPT ![w] = p]
      /\ at' = [at EXCEPT ![w] = 1] /\ got' = [got EXCEPT ![w] = <<>>]
      /\ conn' = [conn EXCEPT ![w] = c]
      /\ UNCHANGED <<made, answers, stop, closed, cached, unclean, unsynced, faults>>
  BY DEF Take, Goto
<1>2. n \in 0..Len(queue) /\ n > 0 /\ n \in Nat
  <2>1. Len(queue) \in Nat \ {0} /\ MaxBatch \in Nat \ {0}
    BY <1>0, EmptySeq, PoolAssumption DEF PoolTypes
  <2> QED BY <2>1
<1>3. /\ front \in Seq(Queries) /\ Len(front) = n /\ rest \in Seq(Queries)
      /\ Range(queue) = Range(front) \cup Range(rest)
      /\ IsInjective(front) /\ IsInjective(rest) /\ Range(front) \cap Range(rest) = {}
  <2>1. queue \in Seq(Queries) /\ IsInjective(queue)
    BY DEF PoolTypes, Places
  <2> HIDE DEF n
  <2> QED BY <1>2, <2>1, RangeOfSplit
<1>4. front # <<>>
  BY <1>2, <1>3, EmptySeq
<1>5. c \in Connections /\ c.up = conn[w].up
  BY <1>0, ConnectionTypes DEF PoolTypes
<1>6. p \in {"one", "prepare"} /\ (p = "one" => n = 1)
  OBVIOUS
<1> HIDE DEF n, front, rest, p, c
<1>7. <<>> \in Seq(0..Len(Sql)) /\ Len(<<>>) = 0
  BY EmptySeq
<1>8. PoolTypes'
  <2>1. pc' \in [Workers -> PoolStates] /\ conn' \in [Workers -> Connections]
        /\ batch' \in [Workers -> Seq(Queries)] /\ at' \in [Workers -> Nat \ {0}]
        /\ got' \in [Workers -> Seq(0..Len(Sql))]
    BY <1>0, <1>1, <1>3, <1>5, <1>6, <1>7 DEF PoolTypes, PoolStates
  <2> QED BY <1>0, <1>1, <1>3, <2>1 DEF PoolTypes
<1>9. /\ pc'[w] = p /\ at'[w] = 1 /\ got'[w] = <<>> /\ batch'[w] = front
      /\ \A v \in Workers \ {w} : /\ pc'[v] = pc[v] /\ at'[v] = at[v] /\ got'[v] = got[v]
                                  /\ batch'[v] = batch[v] /\ conn'[v] = conn[v]
  BY <1>0, <1>1 DEF PoolTypes
<1>10. \A v \in Workers : Busy(v)' <=> Busy(v) \/ v = w
  BY <1>6, <1>9 DEF Busy
<1>11. Phases'
  <2> SUFFICES ASSUME NEW v \in Workers, Busy(v)' PROVE Phase(v)'
    BY DEF Phases
  <2>1. CASE v = w
    BY <1>2, <1>3, <1>4, <1>6, <1>9, <2>1 DEF Phase
  <2>2. CASE v # w
    BY <1>9, <1>10, <2>2 DEF Phases, Phase
  <2> QED BY <2>1, <2>2
<1>12. FallbackThrows'
  <2> SUFFICES ASSUME NEW v \in Workers PROVE FallsBack(v)'
    BY DEF FallbackThrows
  <2>1. CASE v = w
    BY <1>2, <1>3, <1>6, <1>9, <2>1 DEF FallsBack
  <2>2. CASE v # w
    BY <1>9, <2>2 DEF FallbackThrows, FallsBack
  <2> QED BY <2>1, <2>2
<1>13. Places'
  <2>1. \A q \in Queries : InQueue(q)' <=> InQueue(q) /\ q \notin Range(front)
    BY <1>1, <1>3 DEF InQueue
  <2>2. \A q \in Queries : q \in Range(front) => InQueue(q)
    BY <1>3 DEF InQueue
  <2>3. \A q \in Queries, v \in Workers :
           InBatch(q, v)' <=> (v # w /\ InBatch(q, v)) \/ (v = w /\ q \in Range(front))
    BY <1>0, <1>9, <1>10 DEF InBatch
  <2>4. \A q \in Queries : InQueue(q)' => q <= made' /\ answers'[q] = <<>>
    BY <1>1, <2>1 DEF Places
  <2>5. \A q \in Queries, v \in Workers : InBatch(q, v)' => q <= made' /\ answers'[q] = <<>> /\ ~InQueue(q)'
    BY <1>1, <2>1, <2>2, <2>3 DEF Places
  <2>6. \A q \in Queries, v, u \in Workers : InBatch(q, v)' /\ InBatch(q, u)' => v = u
    BY <2>2, <2>3 DEF Places
  <2>7. \A q \in 1..made' : InQueue(q)' \/ (\E v \in Workers : InBatch(q, v)') \/ answers'[q] # <<>>
    <3>0. \A q \in 1..made : q \in Queries
      BY DEF PoolTypes, Queries
    <3> SUFFICES ASSUME NEW q \in 1..made, ~InQueue(q)', answers[q] = <<>>
                 PROVE  \E v \in Workers : InBatch(q, v)'
      BY <1>1
    <3>1. q \in Queries
      BY <3>0
    <3>2. CASE InQueue(q)
      BY <2>1, <2>3, <3>1, <3>2
    <3>3. CASE ~InQueue(q)
      <4>1. PICK v \in Workers : InBatch(q, v)
        BY <3>3 DEF Places
      <4>2. v # w
        BY <1>0, <4>1 DEF InBatch
      <4> QED BY <2>3, <3>1, <4>1, <4>2
    <3> QED BY <3>2, <3>3
  <2>8. \A q \in Queries, v \in Workers : ~Busy(v)' /\ q \in Range(batch'[v]) => answers'[q] # <<>>
    BY <1>1, <1>9, <1>10 DEF Places
  <2>9. IsInjective(queue') /\ \A q \in Queries : q > made' => answers'[q] = <<>>
    BY <1>1, <1>3 DEF Places
  <2> HIDE DEF InQueue, InBatch, Busy
  <2> QED BY <2>4, <2>5, <2>6, <2>7, <2>8, <2>9 DEF Places
<1>14. Ending'
  <2>1. ~stop /\ ~closed
    BY <1>0 DEF Ending
  <2> QED BY <1>1, <2>1 DEF Ending
<1>15. CompletedOnce'
  BY <1>1 DEF CompletedOnce
<1> QED BY <1>8, <1>11, <1>12, <1>13, <1>14, <1>15

LEMMA QueryKeeps == ASSUME PlaceInv, QueryAsync PROVE PlaceInv'
<1> USE DEF PlaceInv
<1>1. /\ made < Len(Sql) /\ ~stop /\ made' = made + 1 /\ queue' = Append(queue, made + 1)
      /\ UNCHANGED <<answers, stop, closed, pc, batch, at, got, cached, conn, unclean, unsynced, faults>>
  BY DEF QueryAsync
<1>2. made \in Nat /\ made + 1 \in Queries /\ made + 1 \in 0..Len(Sql)
  BY <1>1, PoolAssumption, LenProperties DEF PoolTypes, Queries
<1>3. queue \in Seq(Queries) /\ IsInjective(queue) /\ made + 1 \notin Range(queue)
  <2>1. \A q \in Queries : q \in Range(queue) => q <= made
    BY DEF Places, InQueue
  <2> QED BY <1>2, <2>1 DEF PoolTypes, Places
<1>4. queue' \in Seq(Queries) /\ Range(queue') = Range(queue) \cup {made + 1} /\ IsInjective(queue')
  BY <1>1, <1>2, <1>3, RangeOfAppend
<1>5. PoolTypes'
  BY <1>1, <1>2, <1>4 DEF PoolTypes
<1>6. Phases' /\ FallbackThrows' /\ CompletedOnce'
  BY <1>1 DEF Phases, Phase, Busy, FallbackThrows, FallsBack, CompletedOnce
<1>7. Ending'
  BY <1>1 DEF Ending
<1>8. Places'
  <2>1. \A q \in Queries : InQueue(q)' <=> InQueue(q) \/ q = made + 1
    BY <1>4 DEF InQueue
  <2>2. \A q \in Queries, v \in Workers : InBatch(q, v)' <=> InBatch(q, v)
    BY <1>1 DEF InBatch, Busy
  <2>3. answers[made + 1] = <<>>
    BY <1>2 DEF Places
  <2>q. \A q \in Queries : q \in Nat
    BY DEF Queries
  <2>4. \A q \in Queries : InQueue(q)' => q <= made' /\ answers'[q] = <<>>
    BY <1>1, <1>2, <2>1, <2>3, <2>q DEF Places
  <2>5. \A q \in Queries, v \in Workers : InBatch(q, v)' => q <= made' /\ answers'[q] = <<>> /\ ~InQueue(q)'
    BY <1>1, <1>2, <2>1, <2>2, <2>q DEF Places
  <2>6. \A q \in Queries, v, u \in Workers : InBatch(q, v)' /\ InBatch(q, u)' => v = u
    BY <2>2 DEF Places
  <2>7. \A q \in 1..made' : InQueue(q)' \/ (\E v \in Workers : InBatch(q, v)') \/ answers'[q] # <<>>
    <3>1. \A q \in 1..made + 1 : q \in Queries /\ (q \in 1..made \/ q = made + 1)
      BY <1>2 DEF Queries
    <3> QED BY <1>1, <2>1, <2>2, <3>1 DEF Places
  <2>8. \A q \in Queries, v \in Workers : ~Busy(v)' /\ q \in Range(batch'[v]) => answers'[q] # <<>>
    BY <1>1 DEF Places, Busy
  <2>9. IsInjective(queue') /\ \A q \in Queries : q > made' => answers'[q] = <<>>
    BY <1>1, <1>2, <1>4, <2>q DEF Places
  <2> HIDE DEF InQueue, InBatch, Busy
  <2> QED BY <2>4, <2>5, <2>6, <2>7, <2>8, <2>9 DEF Places
<1> QED BY <1>5, <1>6, <1>7, <1>8

(* The destructor completes what is queued.                                    *)
LEMMA DestroyKeeps == ASSUME PlaceInv, Destroy PROVE PlaceInv'
<1> USE DEF PlaceInv
<1>1. /\ ~stop /\ stop' = TRUE /\ answers' = Complete(Range(queue), Error) /\ queue' = <<>>
      /\ UNCHANGED <<made, closed, pc, batch, at, got, cached, conn, unclean, unsynced, faults>>
  BY DEF Destroy
<1>2. /\ answers' \in [Queries -> Seq(0..Len(Sql))] /\ Answers(Range(queue))
      /\ <<>> \in Seq(Queries) /\ Range(<<>>) = {} /\ IsInjective(<<>>)
  <2>1. Error \in 0..Len(Sql)
    BY PoolAssumption, LenProperties DEF Error
  <2>2. <<>> \in Seq(Queries) /\ DOMAIN <<>> = {}
    BY EmptySeq, LenProperties
  <2> QED BY <1>1, <2>1, <2>2, AnswersType DEF Range, IsInjective
<1>3. /\ \A q \in Queries : /\ InQueue(q) => answers'[q] # <<>>
                            /\ ~InQueue(q) => answers'[q] = answers[q]
      /\ CompletedOnce'
  <2>1. \A q \in Range(queue) : q \in Queries => answers[q] = <<>>
    BY DEF Places, InQueue
  <2> QED BY <1>2, <2>1, AnswerGrows DEF InQueue
<1>4. PoolTypes'
  BY <1>1, <1>2 DEF PoolTypes
<1>5. Phases' /\ FallbackThrows'
  BY <1>1 DEF Phases, Phase, Busy, FallbackThrows, FallsBack
<1>6. Ending'
  BY <1>1 DEF Ending
<1>7. Places'
  <2>1. \A q \in Queries : ~InQueue(q)'
    BY <1>1, <1>2 DEF InQueue
  <2>2. \A q \in Queries, v \in Workers : InBatch(q, v)' <=> InBatch(q, v)
    BY <1>1 DEF InBatch, Busy
  <2>5. \A q \in Queries, v \in Workers : InBatch(q, v)' => q <= made' /\ answers'[q] = <<>> /\ ~InQueue(q)'
    BY <1>1, <1>3, <2>1, <2>2 DEF Places
  <2>6. \A q \in Queries, v, u \in Workers : InBatch(q, v)' /\ InBatch(q, u)' => v = u
    BY <2>2 DEF Places
  <2>7. \A q \in 1..made' : InQueue(q)' \/ (\E v \in Workers : InBatch(q, v)') \/ answers'[q] # <<>>
    <3>1. \A q \in 1..made : q \in Queries
      BY DEF PoolTypes, Queries
    <3> QED BY <1>1, <1>3, <2>2, <3>1 DEF Places
  <2>8. \A q \in Queries, v \in Workers : ~Busy(v)' /\ q \in Range(batch'[v]) => answers'[q] # <<>>
    BY <1>1, <1>3 DEF Places, Busy
  <2>9. IsInjective(queue') /\ \A q \in Queries : q > made' => answers'[q] = <<>>
    <3> SUFFICES ASSUME NEW q \in Queries, q > made PROVE answers'[q] = <<>>
      BY <1>1, <1>2
    <3>1. ~InQueue(q)
      BY DEF Places, PoolTypes, Queries
    <3> QED BY <1>3, <3>1 DEF Places
  <2> HIDE DEF InQueue, InBatch, Busy
  <2> QED BY <2>1, <2>5, <2>6, <2>7, <2>8, <2>9 DEF Places
<1> QED BY <1>3, <1>4, <1>5, <1>6, <1>7

LEMMA WorkerEndsKeeps == ASSUME PlaceInv, NEW w \in Workers, WorkerEnds(w) PROVE PlaceInv'
<1> USE DEF PlaceInv
<1>1. /\ pc[w] = "idle" /\ stop /\ queue = <<>> /\ pc' = [pc EXCEPT ![w] = "gone"]
      /\ UNCHANGED <<queue, made, answers, stop, closed, batch, at, got, cached, conn, unclean, unsynced, faults>>
  BY DEF WorkerEnds, Goto
<1>2. PoolTypes' /\ pc'[w] = "gone" /\ \A v \in Workers \ {w} : pc'[v] = pc[v]
  BY <1>1 DEF PoolTypes, PoolStates
<1>3. \A v \in Workers : Busy(v)' <=> Busy(v)
  BY <1>1, <1>2 DEF Busy
<1>4. Phases'
  <2> SUFFICES ASSUME NEW v \in Workers, Busy(v)' PROVE Phase(v)'
    BY DEF Phases
  <2>1. v # w
    BY <1>2 DEF Busy
  <2> QED BY <1>1, <1>2, <1>3, <2>1 DEF Phases, Phase
<1>5. FallbackThrows'
  <2> SUFFICES ASSUME NEW v \in Workers PROVE FallsBack(v)'
    BY DEF FallbackThrows
  <2>1. CASE v = w
    BY <1>2, <2>1 DEF FallsBack
  <2>2. CASE v # w
    BY <1>1, <1>2, <2>2 DEF FallbackThrows, FallsBack
  <2> QED BY <2>1, <2>2
<1>6. Ending'
  BY <1>1 DEF Ending
<1>7. CompletedOnce'
  BY <1>1 DEF CompletedOnce
<1>8. Places'
  <2>1. \A q \in Queries : InQueue(q)' <=> InQueue(q)
    BY <1>1 DEF InQueue
  <2>2. \A q \in Queries, v \in Workers : InBatch(q, v)' <=> InBatch(q, v)
    BY <1>1, <1>3 DEF InBatch
  <2>3. \A q \in Queries : InQueue(q)' => q <= made' /\ answers'[q] = <<>>
    BY <1>1, <2>1 DEF Places
  <2>5. \A q \in Queries, v \in Workers : InBatch(q, v)' => q <= made' /\ answers'[q] = <<>> /\ ~InQueue(q)'
    BY <1>1, <2>1, <2>2 DEF Places
  <2>6. \A q \in Queries, v, u \in Workers : InBatch(q, v)' /\ InBatch(q, u)' => v = u
    BY <2>2 DEF Places
  <2>7. \A q \in 1..made' : InQueue(q)' \/ (\E v \in Workers : InBatch(q, v)') \/ answers'[q] # <<>>
    <3>1. \A q \in 1..made : q \in Queries
      BY DEF PoolTypes, Queries
    <3> QED BY <1>1, <2>1, <2>2, <3>1 DEF Places
  <2>8. \A q \in Queries, v \in Workers : ~Busy(v)' /\ q \in Range(batch'[v]) => answers'[q] # <<>>
    BY <1>1, <1>3 DEF Places
  <2>9. IsInjective(queue') /\ \A q \in Queries : q > made' => answers'[q] = <<>>
    BY <1>1 DEF Places
  <2> HIDE DEF InQueue, InBatch, Busy
  <2> QED BY <2>3, <2>5, <2>6, <2>7, <2>8, <2>9 DEF Places
<1> QED BY <1>2, <1>4, <1>5, <1>6, <1>7, <1>8

LEMMA CloseKeeps == ASSUME PlaceInv, Close PROVE PlaceInv'
<1> USE DEF PlaceInv
<1>1. /\ stop /\ (\A w \in Workers : pc[w] = "gone") /\ closed' = TRUE
      /\ conn' = [w \in Workers |-> Dead]
      /\ UNCHANGED <<queue, made, answers, stop, pc, batch, at, got, cached, unclean, unsynced, faults>>
  BY DEF Close
<1>2. PoolTypes'
  BY <1>1, ConnectionTypes DEF PoolTypes
<1>3. Phases' /\ FallbackThrows'
  BY <1>1 DEF Phases, Busy, FallbackThrows, FallsBack
<1>4. Ending' /\ CompletedOnce'
  BY <1>1 DEF Ending, CompletedOnce
<1>5. Places'
  BY <1>1 DEF Places, InQueue, InBatch, Busy
<1> QED BY <1>2, <1>3, <1>4, <1>5

LEMMA PlaceInitially == PoolInit => PlaceInv
<1> SUFFICES ASSUME PoolInit PROVE PlaceInv
  OBVIOUS
<1> USE DEF PoolInit
<1>1. /\ \A S : <<>> \in Seq(S)
      /\ Len(<<>>) = 0 /\ Range(<<>>) = {} /\ IsInjective(<<>>) /\ Len(Sql) \in Nat
  BY EmptySeq, PoolAssumption, LenProperties DEF Range, IsInjective
<1>2. PoolTypes
  <2>1. <<>> \in Seq(Queries) /\ <<>> \in Seq(0..Len(Sql)) /\ Fresh \in Connections
    BY <1>1, ConnectionTypes
  <2>2. 0 \in 0..Len(Sql) /\ 0 \in Nat /\ 1 \in Nat \ {0}
    BY <1>1
  <2> QED BY <2>1, <2>2 DEF PoolTypes, PoolStates
<1>3. Phases /\ FallbackThrows /\ Ending /\ CompletedOnce
  BY <1>1 DEF Phases, Busy, FallbackThrows, FallsBack, Ending, CompletedOnce
<1>4. Places
  BY <1>1 DEF Places, InQueue, InBatch, Busy
<1> QED BY <1>2, <1>3, <1>4 DEF PlaceInv

LEMMA PlaceStep == ASSUME PlaceInv, PoolNext PROVE PlaceInv'
<1>1. ASSUME NEW w \in Workers, PrepareInPipeline(w) \/ PrepareOne(w) PROVE PlaceInv'
  BY <1>1, EnsurePreparedKeeps DEF PrepareInPipeline, PrepareOne
<1>2. ASSUME NEW w \in Workers, WorkerStep(w) PROVE PlaceInv'
  BY <1>1, <1>2, TakeKeeps, EnterKeeps, SendKeeps, SyncKeeps, ReceiveKeeps, FinishKeeps, ExecKeeps,
     WorkerEndsKeeps DEF WorkerStep
<1> QED BY <1>2, QueryKeeps, DestroyKeeps, CloseKeeps, TimeOutKeeps, DropKeeps DEF PoolNext

LEMMA PlaceInvariant == Spec => []PlaceInv
<1>1. Init => PlaceInv
  BY PlaceInitially DEF Init
<1>2. PlaceInv /\ [Next]_vars => PlaceInv'
  <2> SUFFICES ASSUME PlaceInv, [Next]_vars PROVE PlaceInv'
    OBVIOUS
  <2>1. CASE UNCHANGED pqvars
    BY <2>1 DEF pqvars, PlaceInv, PoolTypes, Phases, Phase, Busy, FallbackThrows, FallsBack, Places,
                InQueue, InBatch, Ending, CompletedOnce
  <2> QED BY <2>1, PlaceStep DEF Next, vars
<1> QED BY <1>1, <1>2, PTL DEF Spec

(* Every query the PostgreSQL client took is completed at most once, whatever  *)
(* fails, and when its destructor has returned, exactly once.                  *)
THEOREM EachCompletedOnce == Spec => []EachCompleted
<1>1. PlaceInv => EachCompleted
  <2> SUFFICES ASSUME PlaceInv, closed, NEW q \in 1..made PROVE answers[q] # <<>>
    BY DEF EachCompleted, NoneLeftBehind, PlaceInv
  <2>1. queue = <<>> /\ \A w \in Workers : ~Busy(w)
    BY DEF PlaceInv, Ending, Busy
  <2>2. ~InQueue(q)
    BY <2>1, EmptySeq DEF InQueue, Range
  <2> QED BY <2>1, <2>2 DEF PlaceInv, Places, InBatch
<1> QED BY <1>1, PlaceInvariant, PTL
--------------------------------------------------------------------------------
(* What is on the connections.                                                 *)
Elsewhere(w) ==
    \A v \in Workers \ {w} :
        /\ pc'[v] = pc[v] /\ at'[v] = at[v] /\ got'[v] = got[v] /\ batch'[v] = batch[v]
        /\ conn'[v] = conn[v] /\ cached'[v] = cached[v]
        /\ unclean'[v] = unclean[v] /\ unsynced'[v] = unsynced[v]

LEMMA OneWorker ==
    ASSUME PoolInv, NEW w \in Workers, Elsewhere(w), Proper(w)'
    PROVE  \A v \in Workers : Proper(v)'
<1> SUFFICES ASSUME NEW v \in Workers, v # w PROVE Proper(v)'
  OBVIOUS
<1>1. Proper(v)
  BY DEF PoolInv
<1>2. /\ pc'[v] = pc[v] /\ at'[v] = at[v] /\ got'[v] = got[v] /\ batch'[v] = batch[v]
      /\ conn'[v] = conn[v] /\ cached'[v] = cached[v]
      /\ unclean'[v] = unclean[v] /\ unsynced'[v] = unsynced[v]
  BY DEF Elsewhere
<1>3. Silent(v)' <=> Silent(v)
  BY <1>2 DEF Silent
<1>4. Clean(v)' <=> Clean(v)
  BY <1>2 DEF Clean
<1>5. Aligned(v)' <=> Aligned(v)
  BY <1>2 DEF Aligned
<1> QED BY <1>1, <1>2, <1>3, <1>4, <1>5 DEF Proper

(* After an exception the connection counts as clean only when no pipeline is  *)
(* on, and then nothing is asked of its input.                                 *)
LEMMA ThrowProper ==
    ASSUME PoolInv, NEW w \in Workers, NEW c \in Connections, ThrowWith(w, c),
           \A v \in Workers \ {w} : cached'[v] = cached[v] /\ unsynced'[v] = unsynced[v],
           c.up # "ok" => \A i \in 1..Len(c.input) : c.input[i].kind # "res",
           c.up = "ok" /\ ~unclean[w] /\ ~unsynced'[w] => cached'[w] \subseteq c.names
    PROVE  \A v \in Workers : Proper(v)'
<1>0. PoolTypes
  BY DEF PoolInv, PlaceInv
<1>1. /\ pc' = [pc EXCEPT ![w] = "idle"] /\ conn' = [conn EXCEPT ![w] = c]
      /\ unclean' = [unclean EXCEPT ![w] = c.up = "ok" /\ (unclean[w] \/ c.mode # "off")]
      /\ UNCHANGED <<batch, at, got>>
  BY DEF ThrowWith, Goto
<1>2. pc'[w] = "idle" /\ conn'[w] = c /\ (unclean'[w] <=> c.up = "ok" /\ (unclean[w] \/ c.mode # "off"))
  BY <1>0, <1>1 DEF PoolTypes
<1>3. Elsewhere(w)
  BY <1>0, <1>1 DEF Elsewhere, PoolTypes
<1>4. Silent(w)'
  BY <1>2 DEF Silent
<1>5. Clean(w)' => c.mode = "off" /\ ~unclean[w] /\ c.up = "ok"
  BY <1>2 DEF Clean
<1>6. Clean(w)' => Aligned(w)'
  BY <1>2, <1>5 DEF Aligned
<1>7. Proper(w)'
  BY <1>2, <1>4, <1>5, <1>6 DEF Proper
<1> QED BY <1>3, <1>7, OneWorker

LEMMA SendFailsProper ==
    ASSUME PoolInv, NEW w \in Workers, SendFails(w)
    PROVE  \A v \in Workers : Proper(v)'
<1>0. PoolTypes
  BY DEF PoolInv, PlaceInv
<1>1. CASE /\ cached' = [cached EXCEPT ![w] = {}] /\ unsynced' = [unsynced EXCEPT ![w] = FALSE]
           /\ ThrowWith(w, Fresh) /\ UNCHANGED faults
  <2>1. /\ cached'[w] = {}
        /\ \A v \in Workers \ {w} : cached'[v] = cached[v] /\ unsynced'[v] = unsynced[v]
    BY <1>0, <1>1 DEF PoolTypes
  <2> QED BY <1>1, <2>1, ConnectionTypes, ThrowProper
<1>2. CASE /\ faults < MaxFaults /\ faults' = faults + 1
           /\ ThrowWith(w, Dead) /\ UNCHANGED <<cached, unsynced>>
  <2>1. Dead \in Connections /\ Dead.up # "ok" /\ 1..Len(Dead.input) = {}
    BY ConnectionTypes, EmptySeq
  <2>2. \A v \in Workers \ {w} : cached'[v] = cached[v] /\ unsynced'[v] = unsynced[v]
    BY <1>2
  <2> QED BY <1>2, <2>1, <2>2, ThrowProper
<1> QED BY <1>1, <1>2 DEF SendFails

(* Steps that throw away what was read so far, without a word about the cache. *)
LEMMA ThrowsProper ==
    ASSUME PoolInv, NEW w \in Workers, NEW c \in Connections, ThrowWith(w, c),
           UNCHANGED <<cached, unsynced>>,
           c.up = conn[w].up, conn[w].names \subseteq c.names,
           c.up # "ok" => \A i \in 1..Len(c.input) : c.input[i].kind # "res"
    PROVE  \A v \in Workers : Proper(v)'
<1>1. c.up = "ok" /\ ~unclean[w] /\ ~unsynced'[w] => cached'[w] \subseteq c.names
  BY DEF PoolInv, Proper, Clean
<1> QED BY <1>1, ThrowProper

(* What is read from a lost connection is no result.                           *)
LEMMA ReceiveSilent ==
    ASSUME NEW c \in Connections, \A i \in 1..Len(c.input) : c.input[i].kind # "res"
    PROVE  /\ Receive(c).res.kind # "res"
           /\ \A i \in 1..Len(Receive(c).conn.input) : Receive(c).conn.input[i].kind # "res"
<1>1. Null.kind # "res"
  BY DEF Null
<1> QED BY <1>1, ReceiveType

LEMMA EnsurePreparedProper ==
    ASSUME PoolInv, NEW w \in Workers, pc[w] \in {"prepare", "one"}, EnsurePrepared(w)
    PROVE  \A v \in Workers : Proper(v)'
<1>0. PoolTypes /\ PlaceInv /\ Busy(w) /\ Proper(w)
  BY DEF PoolInv, PlaceInv, Busy
<1>1. conn[w] \in Connections /\ Sql[Query(w)] \in STRING
  BY <1>0, BusyFacts
<1>p. ASSUME Prepared(w)
      PROVE  /\ pc'[w] \in {"prepare", "enter", "exec"}
             /\ \A v \in Workers \ {w} : at'[v] = at[v] /\ pc'[v] = pc[v]
  <2>1. CASE pc[w] = "prepare"
    <3>1. Advance(w, "enter") /\ "enter" \in PoolStates /\ at[w] \in 1..Len(batch[w]) /\ Len(batch[w]) \in Nat
      BY <1>0, <1>p, <2>1, BusyFacts DEF Prepared, PoolStates
    <3> QED BY <1>0, <2>1, <3>1, AdvanceEffect
  <2>2. CASE pc[w] = "one"
    BY <1>0, <1>p, <2>2 DEF Prepared, Goto, PoolTypes
  <2> QED BY <2>1, <2>2
<1>2. CASE Sql[Query(w)] \in cached[w]
  <2>1. /\ Prepared(w)
        /\ UNCHANGED <<queue, made, answers, stop, closed, batch, got, cached, conn, unclean, unsynced, faults>>
    BY <1>2 DEF EnsurePrepared
  <2>2. Elsewhere(w) /\ pc'[w] \in {"prepare", "enter", "exec"}
    BY <1>p, <2>1 DEF Elsewhere
  <2>3. Clean(w) => conn[w].mode = "off"
    BY <1>0 DEF Proper, Aligned
  <2>4. Proper(w)'
    <3>1. Silent(w)'
      BY <1>0, <2>1, <2>2 DEF Proper, Silent
    <3>2. Clean(w)' <=> Clean(w)
      BY <2>1 DEF Clean
    <3>3. Clean(w) => Aligned(w)'
      BY <2>1, <2>2, <2>3 DEF Aligned
    <3> QED BY <1>0, <2>1, <3>1, <3>2, <3>3 DEF Proper
  <2> QED BY <2>2, <2>4, OneWorker
<1>3. CASE Sql[Query(w)] \notin cached[w] /\ ~SendFails(w)
  <2>1. PICK ok \in BOOLEAN :
          LET c == Sent(conn[w], 0, ok)
              r == Receive(c)
              named == [r.conn EXCEPT !.names = IF c.input[Len(c.input) - 1].ok
                                                THEN @ \cup {Sql[Query(w)]} ELSE @]
          IN  /\ Sendable(conn[w])
              /\ IF r.res.ok /\ r.res # Null
                 THEN /\ cached' = [cached EXCEPT ![w] = @ \cup {Sql[Query(w)]}]
                      /\ conn' = [conn EXCEPT ![w] = named]
                      /\ Prepared(w)
                      /\ UNCHANGED <<queue, made, answers, stop, closed, batch, got,
                                     unclean, unsynced, faults>>
                 ELSE Throw(w, named)
    BY <1>3 DEF EnsurePrepared
  <2> DEFINE c == Sent(conn[w], 0, ok)
             r == Receive(c)
             named == [r.conn EXCEPT !.names = IF c.input[Len(c.input) - 1].ok
                                               THEN @ \cup {Sql[Query(w)]} ELSE @]
             names == IF c.input[Len(c.input) - 1].ok THEN r.conn.names \cup {Sql[Query(w)]}
                      ELSE r.conn.names
  <2>2. /\ c \in Connections /\ c.up = conn[w].up /\ c.mode = conn[w].mode /\ c.names = conn[w].names
        /\ Len(conn[w].input) \in Nat /\ Len(c.input) = Len(conn[w].input) + 2
        /\ (c.mode = "off" => c.input[Len(conn[w].input) + 1] = Res(0, ok))
        /\ c.input[Len(conn[w].input) + 2] = Null
    <3>1. 0 \in 0..Len(Sql)
      BY PoolAssumption, LenProperties
    <3>2. /\ c \in Connections /\ c.up = conn[w].up /\ c.mode = conn[w].mode /\ c.names = conn[w].names
          /\ Len(conn[w].input) \in Nat /\ Len(c.input) = Len(conn[w].input) + 2
          /\ (conn[w].mode = "off" => c.input[Len(conn[w].input) + 1] = Res(0, ok))
          /\ c.input[Len(conn[w].input) + 2] = Null
      BY <1>1, <3>1, SentType
    <3> HIDE DEF c
    <3> QED BY <3>2
  <2>3. /\ r.conn \in Connections /\ r.conn.up = conn[w].up /\ r.conn.names = conn[w].names
        /\ (conn[w].mode = "off" => r.conn.mode = "off")
    BY <2>2, ReceiveType
  <2>4. Sendable(conn[w])
    BY <2>1
  <2>5. Clean(w) /\ r.res.ok => c.input[Len(c.input) - 1].ok
    <3> SUFFICES ASSUME Clean(w), r.res.ok PROVE c.input[Len(c.input) - 1].ok
      OBVIOUS
    <3>1. conn[w].mode = "off" /\ conn[w].input = <<>> /\ Len(<<>>) = 0
      BY <1>0, <2>4, EmptySeq DEF Proper, Aligned, Sendable
    <3>2. c.mode = "off" /\ Len(c.input) = 2 /\ c.input[1] = Res(0, ok) /\ c.input[2] = Null
      <4> HIDE DEF c
      <4> QED BY <2>2, <3>1
    <3> HIDE DEF c
    <3>3. c.input[1].kind = "res" /\ Readable(c) = 2
      BY <3>2 DEF Res, Readable
    <3>4. r.res = c.input[1]
      BY <2>2, <3>2, <3>3, ReceiveReply
    <3>5. Len(c.input) - 1 = 1
      BY <3>2
    <3> QED BY <3>4, <3>5
  <2>6. /\ named \in Connections /\ named.up = conn[w].up /\ named.mode = r.conn.mode
        /\ named.names = names /\ named.input = r.conn.input /\ conn[w].names \subseteq names
    <3> HIDE DEF r, c
    <3> QED BY <1>1, <2>3 DEF Connections
  <2>7. conn[w].up = "ok"
    BY <2>4 DEF Sendable
  <2>8. CASE r.res.ok /\ r.res # Null
    <3>1. /\ cached' = [cached EXCEPT ![w] = @ \cup {Sql[Query(w)]}]
          /\ conn' = [conn EXCEPT ![w] = named] /\ Prepared(w)
          /\ UNCHANGED <<queue, made, answers, stop, closed, batch, got, unclean, unsynced, faults>>
      BY <2>1, <2>8
    <3>2. Clean(w) => names = conn[w].names \cup {Sql[Query(w)]}
      BY <2>3, <2>5, <2>8
    <3> HIDE DEF named, r, c, names
    <3>3. /\ cached'[w] = cached[w] \cup {Sql[Query(w)]} /\ conn'[w] = named /\ Elsewhere(w)
          /\ pc'[w] \in {"prepare", "enter", "exec"}
      BY <1>0, <1>p, <3>1 DEF PoolTypes, Elsewhere
    <3>4. Silent(w)'
      BY <2>6, <2>7, <3>3 DEF Silent
    <3>5. Clean(w)' <=> Clean(w)
      BY <2>6, <2>7, <3>1, <3>3 DEF Clean
    <3>6. Clean(w) => Aligned(w)'
      <4>1. Clean(w) => conn[w].mode = "off"
        BY <1>0 DEF Proper, Aligned
      <4> QED BY <2>3, <2>6, <3>3, <4>1 DEF Aligned
    <3>7. Clean(w) /\ ~unsynced[w] => cached'[w] \subseteq named.names
      BY <1>0, <2>6, <3>2, <3>3 DEF Proper
    <3>8. Proper(w)'
      BY <3>1, <3>3, <3>4, <3>5, <3>6, <3>7 DEF Proper
    <3> QED BY <3>3, <3>8, OneWorker
  <2>9. CASE ~(r.res.ok /\ r.res # Null)
    <3>1. Throw(w, named)
      BY <2>1, <2>9
    <3> HIDE DEF named, r, c, names
    <3> QED BY <2>6, <2>7, <3>1, ThrowsProper DEF Throw
  <2> QED BY <2>8, <2>9
<1> QED BY <1>2, <1>3, SendFailsProper DEF EnsurePrepared

LEMMA EnterProper == ASSUME PoolInv, NEW w \in Workers, EnterPipeline(w) PROVE \A v \in Workers : Proper(v)'
<1> DEFINE c  == EnsurePipelineOff(conn[w])
           ok == c.up # "null" /\ (c.mode = "off" => c.input = <<>>)
           on == [c EXCEPT !.mode = "on"]
           d  == IF ok /\ c.mode = "off" THEN on ELSE c
           p  == IF ok THEN "send" ELSE "one"
<1>0. PoolTypes /\ PlaceInv /\ pc[w] = "enter" /\ Busy(w) /\ Proper(w)
  BY DEF PoolInv, PlaceInv, EnterPipeline, Busy
<1>1. /\ conn' = [conn EXCEPT ![w] = d] /\ pc' = [pc EXCEPT ![w] = p]
      /\ UNCHANGED <<queue, made, answers, stop, closed, batch, at, got, cached, unclean, unsynced, faults>>
  BY DEF EnterPipeline, Goto
<1>2. /\ c \in Connections /\ c.up = conn[w].up /\ c.input = conn[w].input /\ c.names = conn[w].names
      /\ (conn[w].mode = "off" => c.mode = "off")
  BY <1>0, BusyFacts, ConnectionTypes
<1>3. at[w] = 1
  BY <1>0, BusyFacts DEF Phase
<1> HIDE DEF c
<1>4. /\ d.up = c.up /\ d.input = c.input /\ d.names = c.names
      /\ c.mode = "off" => \/ (p = "send" /\ d.mode = "on" /\ d.input = <<>>)
                           \/ (p = "one" /\ d.mode = "off")
  BY <1>2 DEF Connections
<1>5. p \in {"send", "one"}
  OBVIOUS
<1> HIDE DEF d, p
<1>6. pc'[w] = p /\ conn'[w] = d /\ Elsewhere(w)
  BY <1>0, <1>1 DEF PoolTypes, Elsewhere
<1>7. Silent(w)'
  BY <1>0, <1>2, <1>4, <1>5, <1>6 DEF Proper, Silent
<1>8. Clean(w)' <=> Clean(w)
  BY <1>1, <1>2, <1>4, <1>6 DEF Clean
<1>9. ASSUME Clean(w) PROVE Aligned(w)'
  <2>1. conn[w].mode = "off"
    BY <1>0, <1>9 DEF Proper, Aligned
  <2>2. CASE p = "send" /\ d.mode = "on" /\ d.input = <<>>
    <3>1. at'[w] = 1 /\ Len(<<>>) = 0 /\ 1..0 = {}
      BY <1>1, <1>3, EmptySeq
    <3> QED BY <1>6, <2>2, <3>1 DEF Aligned, Answered
  <2>3. CASE p = "one" /\ d.mode = "off"
    BY <1>6, <2>3 DEF Aligned
  <2> QED BY <1>2, <1>4, <2>1, <2>2, <2>3
<1>10. Proper(w)'
  BY <1>0, <1>1, <1>2, <1>4, <1>6, <1>7, <1>8, <1>9 DEF Proper
<1> QED BY <1>6, <1>10, OneWorker

(* Each send appends the answer to its query.                                  *)
LEMMA SendProper == ASSUME PoolInv, NEW w \in Workers, SendInPipeline(w) PROVE \A v \in Workers : Proper(v)'
<1>0. PoolTypes /\ PlaceInv /\ pc[w] = "send" /\ Busy(w) /\ Proper(w)
  BY DEF PoolInv, PlaceInv, SendInPipeline, Busy
<1>1. CASE ~SendFails(w)
  <2>1. PICK ok \in BOOLEAN : conn' = [conn EXCEPT ![w] = Execute(w, ok)]
    BY <1>1 DEF SendInPipeline
  <2>2. /\ Advance(w, "sync") /\ Sendable(conn[w])
        /\ UNCHANGED <<queue, made, answers, stop, closed, batch, got, cached, unclean, unsynced, faults>>
    BY <1>1 DEF SendInPipeline
  <2> DEFINE c  == conn[w]
             d  == Execute(w, ok)
             in == c.input
             b  == batch[w]
             k  == at[w]
             n  == Len(b)
  <2>3. /\ d \in Connections /\ d.up = c.up /\ d.mode = c.mode /\ d.names = c.names
        /\ Len(in) \in Nat /\ Len(d.input) = Len(in) + 2
        /\ \A i \in 1..Len(in) : d.input[i] = in[i]
        /\ \E x \in BOOLEAN : d.input[Len(in) + 1] = Res(Query(w), x)
        /\ d.input[Len(in) + 2] = Null
    <3>1. (ok /\ Sql[Query(w)] \in conn[w].names) \in BOOLEAN
      OBVIOUS
    <3> QED BY <1>0, <3>1, BusyFacts, SentType DEF Execute
  <2> HIDE DEF d
  <2>4. n \in Nat /\ k \in 1..n /\ Query(w) = b[k]
    BY <1>0, BusyFacts DEF Query
  <2>5. "sync" \in PoolStates
    BY DEF PoolStates
  <2>6. /\ k < n => at'[w] = k + 1 /\ pc'[w] = "send"
        /\ k >= n => k = n /\ at'[w] = 1 /\ pc'[w] = "sync"
    BY <1>0, <2>2, <2>5, AdvanceEffect
  <2>7. Elsewhere(w) /\ conn'[w] = d
    <3>1. conn'[w] = d /\ \A v \in Workers \ {w} : conn'[v] = conn[v]
      BY <1>0, <2>1 DEF PoolTypes, d
    <3> QED BY <1>0, <2>2, <2>5, <3>1, AdvanceEffect DEF Elsewhere
  <2>8. Silent(w)'
    BY <2>2, <2>3, <2>7 DEF Silent, Sendable
  <2>9. Clean(w)' <=> Clean(w)
    BY <2>2, <2>3, <2>7 DEF Clean
  <2>10. ASSUME Clean(w) PROVE Aligned(w)'
    <3>1. c.mode = "on" /\ Len(in) = 2 * (k - 1) /\ Answered(in, b, 1, k - 1)
      BY <1>0, <2>10 DEF Proper, Aligned
    <3>2. Len(d.input) = 2 * k
      <4> DEFINE l == Len(in)
                 m == Len(d.input)
      <4>1. l \in Nat /\ l = 2 * (k - 1) /\ m = l + 2 /\ k \in Nat
        BY <2>3, <2>4, <3>1
      <4> HIDE DEF l, m
      <4>2. m = 2 * k
        BY <4>1
      <4> QED BY <4>2 DEF m
    <3>3. Answered(d.input, b, 1, k)
      <4> SUFFICES ASSUME NEW i \in 1..k
                   PROVE  /\ d.input[2 * (i - 1) + 1].kind = "res" /\ d.input[2 * (i - 1) + 1].of = b[i]
                          /\ d.input[2 * (i - 1) + 2] = Null
        BY DEF Answered
      <4>1. CASE i = k
        <5>1. 2 * (i - 1) = Len(in)
          BY <3>1, <4>1
        <5>2. PICK x \in BOOLEAN : d.input[Len(in) + 1] = Res(b[k], x)
          BY <2>3, <2>4
        <5>3. Res(b[k], x).kind = "res" /\ Res(b[k], x).of = b[k]
          BY DEF Res
        <5> HIDE DEF in
        <5> QED BY <2>3, <4>1, <5>1, <5>2, <5>3
      <4>2. CASE i # k
        <5>1. i \in 1..k - 1
          BY <2>4, <4>2
        <5>2. 2 * (i - 1) + 1 \in 1..2 * (k - 1) /\ 2 * (i - 1) + 2 \in 1..2 * (k - 1)
          BY <2>4, <5>1
        <5>3. /\ in[2 * (i - 1) + 1].kind = "res" /\ in[2 * (i - 1) + 1].of = b[i]
              /\ in[2 * (i - 1) + 2] = Null
          BY <3>1, <5>1 DEF Answered
        <5>4. /\ d.input[2 * (i - 1) + 1] = in[2 * (i - 1) + 1]
              /\ d.input[2 * (i - 1) + 2] = in[2 * (i - 1) + 2]
          <6> HIDE DEF in
          <6> QED BY <2>3, <3>1, <5>2
        <5> QED BY <5>3, <5>4
      <4> QED BY <4>1, <4>2
    <3>4. CASE k < n
      <4>1. pc'[w] = "send" /\ at'[w] - 1 = k
        BY <2>4, <2>6, <3>4
      <4> HIDE DEF b, k, n
      <4>2. batch'[w] = b /\ conn'[w].input = d.input /\ conn'[w].mode = "on"
        BY <2>2, <2>3, <2>7, <3>1 DEF b
      <4>3. pc'[w] = "send" => /\ Len(conn'[w].input) = 2 * (at'[w] - 1)
                               /\ Answered(conn'[w].input, batch'[w], 1, at'[w] - 1)
        BY <3>2, <3>3, <4>1, <4>2
      <4> QED BY <4>1, <4>2, <4>3 DEF Aligned
    <3>5. CASE k >= n
      <4>1. k = n /\ pc'[w] = "sync"
        BY <2>6, <3>5
      <4>2. batch'[w] = b /\ conn'[w].input = d.input /\ conn'[w].mode = "on"
        BY <2>2, <2>3, <2>7, <3>1
      <4>3. pc'[w] = "sync" => /\ Len(conn'[w].input) = 2 * Len(batch'[w])
                               /\ Answered(conn'[w].input, batch'[w], 1, Len(batch'[w]))
        BY <3>2, <3>3, <4>1, <4>2
      <4> QED BY <4>1, <4>2, <4>3 DEF Aligned
    <3> QED BY <2>4, <3>4, <3>5
  <2>11. Proper(w)'
    BY <1>0, <2>2, <2>3, <2>7, <2>8, <2>9, <2>10 DEF Proper
  <2> QED BY <2>7, <2>11, OneWorker
<1> QED BY <1>1, SendFailsProper

LEMMA SyncProper == ASSUME PoolInv, NEW w \in Workers, SyncPipeline(w) PROVE \A v \in Workers : Proper(v)'
<1>0. PoolTypes /\ PlaceInv /\ pc[w] = "sync" /\ Busy(w) /\ Proper(w)
  BY DEF PoolInv, PlaceInv, SyncPipeline, Busy
<1>1. CASE /\ conn' = [conn EXCEPT ![w].input = Append(@, Sync)]
           /\ Goto(w, "receive")
           /\ UNCHANGED <<queue, made, answers, stop, closed, batch, at, got, cached, unclean, unsynced, faults>>
  <2> DEFINE in  == conn[w].input
             new == Append(in, Sync)
             d   == [conn[w] EXCEPT !.input = new]
             n   == Len(batch[w])
  <2>1. /\ conn[w] \in Connections /\ in \in Seq(Tokens) /\ Len(in) \in Nat
        /\ new \in Seq(Tokens) /\ Len(new) = Len(in) + 1
        /\ (\A i \in 1..Len(in) : new[i] = in[i]) /\ new[Len(in) + 1] = Sync
    BY <1>0, BusyFacts, TokenTypes, LenProperties, AppendProperties DEF Connections
  <2>2. d.input = new /\ d.up = conn[w].up /\ d.mode = conn[w].mode /\ d.names = conn[w].names
    <3> HIDE DEF new
    <3> QED BY <2>1 DEF Connections
  <2>3. conn' = [conn EXCEPT ![w] = d]
    BY <1>1, <1>0 DEF PoolTypes
  <2> HIDE DEF d
  <2>4. pc'[w] = "receive" /\ conn'[w] = d /\ Elsewhere(w)
    BY <1>0, <1>1, <2>3 DEF Goto, PoolTypes, Elsewhere
  <2>5. n \in Nat /\ at[w] = 1
    BY <1>0, BusyFacts DEF Phase
  <2>6. Silent(w)'
    <3> SUFFICES ASSUME conn[w].up # "ok", NEW i \in 1..Len(new) PROVE new[i].kind # "res"
      BY <2>2, <2>4 DEF Silent
    <3> HIDE DEF new
    <3>1. CASE i \in 1..Len(in)
      BY <1>0, <2>1, <3>1 DEF Proper, Silent
    <3>2. CASE i = Len(in) + 1
      BY <2>1, <3>2 DEF Sync
    <3> QED BY <2>1, <3>1, <3>2
  <2>7. Clean(w)' <=> Clean(w)
    BY <1>1, <2>2, <2>4 DEF Clean
  <2>8. ASSUME Clean(w) PROVE Aligned(w)'
    <3>1. conn[w].mode = "on" /\ Len(in) = 2 * n /\ Answered(in, batch[w], 1, n)
      BY <1>0, <2>8 DEF Proper, Aligned
    <3> HIDE DEF new
    <3>2. Len(new) = 2 * (n + 1 - 1) + 1 /\ new[Len(new)] = Sync
      <4> HIDE DEF in, n
      <4>1. Len(new) = 2 * n + 1 /\ n \in Nat
        BY <2>1, <2>5, <3>1
      <4> QED BY <2>1, <3>1, <4>1
    <3>3. Answered(new, batch[w], 1, n)
      <4> SUFFICES ASSUME NEW i \in 1..n
                   PROVE  /\ new[2 * (i - 1) + 1].kind = "res" /\ new[2 * (i - 1) + 1].of = batch[w][i]
                          /\ new[2 * (i - 1) + 2] = Null
        BY DEF Answered
      <4>1. /\ in[2 * (i - 1) + 1].kind = "res" /\ in[2 * (i - 1) + 1].of = batch[w][i]
            /\ in[2 * (i - 1) + 2] = Null
        BY <3>1 DEF Answered
      <4>2. 2 * (i - 1) + 1 \in 1..2 * n /\ 2 * (i - 1) + 2 \in 1..2 * n
        <5> HIDE DEF n
        <5> QED BY <2>5
      <4>3. new[2 * (i - 1) + 1] = in[2 * (i - 1) + 1] /\ new[2 * (i - 1) + 2] = in[2 * (i - 1) + 2]
        <5> HIDE DEF in, n
        <5> QED BY <2>1, <3>1, <4>2
      <4> QED BY <4>1, <4>3
    <3>4. at'[w] = 1 /\ batch'[w] = batch[w] /\ got'[w] = got[w]
      BY <1>1, <2>5
    <3>5. \A i \in 1..at'[w] - 1 : got'[w][i] = batch'[w][i]
      BY <3>4
    <3>6. /\ Len(conn'[w].input) = 2 * (Len(batch'[w]) + 1 - at'[w]) + 1
          /\ conn'[w].input[Len(conn'[w].input)] = Sync
          /\ Answered(conn'[w].input, batch'[w], at'[w], Len(batch'[w]))
      BY <2>2, <2>4, <3>2, <3>3, <3>4
    <3> QED BY <2>2, <2>4, <3>1, <3>5, <3>6 DEF Aligned
  <2>9. Proper(w)'
    BY <1>0, <1>1, <2>2, <2>4, <2>6, <2>7, <2>8 DEF Proper
  <2> QED BY <2>4, <2>9, OneWorker
<1>2. CASE /\ faults < MaxFaults /\ faults' = faults + 1
           /\ unsynced' = [unsynced EXCEPT ![w] = TRUE]
           /\ \E c \in {Fresh, Dead} : ThrowWith(w, c)
           /\ UNCHANGED cached
  <2>1. PICK c \in {Fresh, Dead} : ThrowWith(w, c)
    BY <1>2
  <2>2. c \in Connections /\ 1..Len(c.input) = {}
    BY ConnectionTypes, EmptySeq
  <2>3. unsynced'[w] /\ \A v \in Workers \ {w} : cached'[v] = cached[v] /\ unsynced'[v] = unsynced[v]
    BY <1>0, <1>2 DEF PoolTypes
  <2> QED BY <2>1, <2>2, <2>3, ThrowProper
<1> QED BY <1>1, <1>2 DEF SyncPipeline

(* Each read takes the answer to the next query from the head of the input.    *)
LEMMA ReceiveProper ==
    ASSUME PoolInv, NEW w \in Workers, ReceiveInPipeline(w)
    PROVE  \A v \in Workers : Proper(v)'
<1> DEFINE c  == conn[w]
           in == c.input
           b  == batch[w]
           g  == got[w]
           k  == at[w]
           n  == Len(b)
           r  == Receive(c)
<1>0. PoolTypes /\ PlaceInv /\ pc[w] = "receive" /\ Busy(w) /\ Proper(w)
  BY DEF PoolInv, PlaceInv, ReceiveInPipeline, Busy
<1>1. /\ r.res \in Tokens /\ r.conn \in Connections /\ r.conn.up = c.up /\ r.conn.names = c.names
      /\ c \in Connections
  BY <1>0, BusyFacts, ReceiveType
<1>2. IF r.res.kind = "res" /\ r.res.ok
      THEN /\ got' = [got EXCEPT ![w] = Append(@, r.res.of)]
           /\ conn' = [conn EXCEPT ![w] = r.conn]
           /\ Advance(w, "finish")
           /\ UNCHANGED <<queue, made, answers, stop, closed, batch, cached, unclean, unsynced, faults>>
      ELSE Throw(w, r.conn)
  BY DEF ReceiveInPipeline
<1>3. c.up # "ok" => /\ r.res.kind # "res"
                     /\ \A i \in 1..Len(r.conn.input) : r.conn.input[i].kind # "res"
  <2>1. c.up # "ok" => \A i \in 1..Len(in) : in[i].kind # "res"
    BY <1>0 DEF Proper, Silent
  <2> HIDE DEF c
  <2> QED BY <1>1, <2>1, ReceiveSilent
<1>4. CASE ~(r.res.kind = "res" /\ r.res.ok)
  <2>1. Throw(w, r.conn)
    BY <1>2, <1>4
  <2> HIDE DEF r
  <2> QED BY <1>1, <1>3, <2>1, ThrowsProper DEF Throw
<1>5. CASE r.res.kind = "res" /\ r.res.ok
  <2>1. /\ got' = [got EXCEPT ![w] = Append(g, r.res.of)]
        /\ conn' = [conn EXCEPT ![w] = r.conn] /\ Advance(w, "finish")
        /\ UNCHANGED <<queue, made, answers, stop, closed, batch, cached, unclean, unsynced, faults>>
    BY <1>2, <1>5
  <2>2. c.up = "ok"
    BY <1>3, <1>5
  <2>3. "finish" \in PoolStates
    BY DEF PoolStates
  <2>4. /\ n \in Nat /\ k \in 1..n /\ b \in Seq(Queries) /\ g \in Seq(0..Len(Sql)) /\ Len(g) = k - 1
    BY <1>0, BusyFacts DEF Phase
  <2>5. /\ k < n => at'[w] = k + 1 /\ pc'[w] = "receive"
        /\ k >= n => k = n /\ at'[w] = 1 /\ pc'[w] = "finish"
    BY <1>0, <2>1, <2>3, AdvanceEffect
  <2>6. Elsewhere(w) /\ conn'[w] = r.conn /\ got'[w] = Append(g, r.res.of)
    <3>1. /\ conn'[w] = r.conn /\ got'[w] = Append(g, r.res.of)
          /\ \A v \in Workers \ {w} : conn'[v] = conn[v] /\ got'[v] = got[v]
      BY <1>0, <2>1 DEF PoolTypes
    <3> QED BY <1>0, <2>1, <2>3, <3>1, AdvanceEffect DEF Elsewhere
  <2>7. Silent(w)'
    BY <1>1, <2>2, <2>6 DEF Silent
  <2>8. Clean(w)' <=> Clean(w)
    BY <1>1, <2>1, <2>6 DEF Clean
  <2>9. ASSUME Clean(w) PROVE Aligned(w)'
    <3>1. /\ c.mode = "on" /\ Len(in) = 2 * (n + 1 - k) + 1 /\ in[Len(in)] = Sync
          /\ Answered(in, b, k, n) /\ \A i \in 1..k - 1 : g[i] = b[i]
      BY <1>0, <2>9 DEF Proper, Aligned
    <3>2. in \in Seq(Tokens) /\ Len(in) \in Nat /\ Len(in) >= 3
      <4>1. in \in Seq(Tokens) /\ Len(in) \in Nat
        BY <1>1, LenProperties DEF Connections
      <4> DEFINE l == Len(in)
      <4>2. l \in Nat /\ l = 2 * (n + 1 - k) + 1 /\ n \in Nat /\ k \in 1..n
        BY <2>4, <3>1, <4>1
      <4> HIDE DEF l, n, k
      <4>3. l >= 3
        BY <4>2
      <4> QED BY <4>1, <4>3 DEF l
    <3>3. /\ in[1].kind = "res" /\ in[1].of = b[k] /\ in[2] = Null
      <4>1. k \in k..n /\ 2 * (k - k) + 1 = 1 /\ 2 * (k - k) + 2 = 2
        BY <2>4
      <4> QED BY <3>1, <4>1 DEF Answered
    <3>4. Readable(c) >= 2
      <4>1. in # <<>>
        BY <3>2, EmptySeq
      <4>2. LastSync(in) = Len(in)
        BY <3>1, <3>2, <4>1, LastSyncAtEnd
      <4> QED BY <3>2, <4>2 DEF Readable
    <3>5. /\ r.res = in[1] /\ r.conn.input = SubSeq(in, 3, Len(in))
          /\ (c.mode = "off" \/ in[1].ok => r.conn.mode = c.mode)
      <4>1. Len(in) >= 2
        BY <3>2
      <4> HIDE DEF c
      <4> QED BY <1>1, <3>3, <3>4, <4>1, ReceiveReply
    <3>6. r.conn.mode = "on" /\ r.res.of = b[k]
      BY <1>5, <3>1, <3>3, <3>5
    <3> DEFINE new == r.conn.input
               h   == got'[w]
    <3>7. /\ new \in Seq(Tokens) /\ Len(new) = Len(in) - 2
          /\ \A i \in 1..Len(in) - 2 : new[i] = in[i + 2]
      <4> DEFINE l == Len(in)
      <4>1. \A i \in 3..l : in[i] \in Tokens
        BY <3>2, ElementOfSeq
      <4>2. /\ SubSeq(in, 3, l) \in Seq(Tokens) /\ Len(SubSeq(in, 3, l)) = (IF 3 <= l THEN l - 3 + 1 ELSE 0)
            /\ \A i \in 1..(l - 3 + 1) : SubSeq(in, 3, l)[i] = in[3 + i - 1]
        BY <3>2, <4>1, SubSeqProperties
      <4>3. new = SubSeq(in, 3, l)
        BY <3>5
      <4>4. l \in Nat /\ l >= 3
        BY <3>2
      <4> HIDE DEF l, new, in
      <4>5. new \in Seq(Tokens) /\ Len(new) = l - 2 /\ \A i \in 1..l - 2 : new[i] = in[i + 2]
        <5>1. l - 3 + 1 = l - 2 /\ \A i \in 1..l - 2 : 3 + i - 1 = i + 2
          BY <4>4
        <5> QED BY <4>2, <4>3, <4>4, <5>1
      <4> QED BY <4>5 DEF l
    <3>8. /\ h \in Seq(0..Len(Sql)) /\ Len(h) = k /\ \A i \in 1..k : h[i] = b[i]
      <4>1. b[k] \in 0..Len(Sql)
        BY <1>1, <3>6 DEF Tokens
      <4>2. h = Append(g, b[k])
        BY <2>6, <3>6
      <4>3. h \in Seq(0..Len(Sql)) /\ Len(h) = Len(g) + 1 /\ h[Len(g) + 1] = b[k]
            /\ \A i \in 1..Len(g) : h[i] = g[i]
        BY <2>4, <4>1, <4>2, AppendProperties
      <4> HIDE DEF h, g, k, b, n
      <4> QED BY <2>4, <3>1, <4>3
    <3>b. batch'[w] = b
      BY <2>1
    <3>9. CASE k < n
      <4>1. at'[w] = k + 1 /\ pc'[w] = "receive"
        BY <2>5, <3>9
      <4>2. Len(new) = 2 * (n + 1 - (k + 1)) + 1
        <5> DEFINE l == Len(in)
                   m == Len(new)
        <5>1. l \in Nat /\ l = 2 * (n + 1 - k) + 1 /\ m = l - 2 /\ n \in Nat /\ k \in 1..n
          BY <2>4, <3>1, <3>2, <3>7
        <5> HIDE DEF l, m, n, k
        <5>2. m = 2 * (n + 1 - (k + 1)) + 1
          BY <5>1
        <5> QED BY <5>2 DEF m
      <4>3. new[Len(new)] = Sync
        <5> DEFINE l == Len(in)
        <5>1. l \in Nat /\ l >= 3 /\ Len(new) = l - 2 /\ (\A i \in 1..l - 2 : new[i] = in[i + 2]) /\ in[l] = Sync
          BY <3>1, <3>2, <3>7
        <5> HIDE DEF l, new, in
        <5> QED BY <5>1
      <4>4. Answered(new, b, k + 1, n)
        <5> SUFFICES ASSUME NEW i \in k + 1..n
                     PROVE  /\ new[2 * (i - (k + 1)) + 1].kind = "res" /\ new[2 * (i - (k + 1)) + 1].of = b[i]
                            /\ new[2 * (i - (k + 1)) + 2] = Null
          BY DEF Answered
        <5>1. i \in k..n
          BY <2>4
        <5>2. /\ in[2 * (i - k) + 1].kind = "res" /\ in[2 * (i - k) + 1].of = b[i]
              /\ in[2 * (i - k) + 2] = Null
          BY <3>1, <5>1 DEF Answered
        <5> DEFINE l == Len(in)
                   x == 2 * (i - (k + 1)) + 1
                   y == 2 * (i - (k + 1)) + 2
        <5>3. /\ x \in 1..l - 2 /\ y \in 1..l - 2 /\ x + 2 = 2 * (i - k) + 1 /\ y + 2 = 2 * (i - k) + 2
          <6>1. l = 2 * (n + 1 - k) + 1 /\ n \in Nat /\ k \in 1..n /\ i \in k + 1..n
            BY <2>4, <3>1
          <6> HIDE DEF l, n, k
          <6> QED BY <6>1
        <5>4. new[x] = in[x + 2] /\ new[y] = in[y + 2]
          <6> HIDE DEF new, in, x, y
          <6> QED BY <3>7, <5>3 DEF l
        <5> HIDE DEF x, y, new, in
        <5>5. new[x].kind = "res" /\ new[x].of = b[i] /\ new[y] = Null
          BY <5>2, <5>3, <5>4
        <5> QED BY <5>5 DEF x, y
      <4>5. \A i \in 1..at'[w] - 1 : got'[w][i] = batch'[w][i]
        <5>1. at'[w] - 1 = k
          BY <2>4, <4>1
        <5> HIDE DEF k, b
        <5> QED BY <3>8, <3>b, <5>1 DEF h
      <4>6. /\ Len(conn'[w].input) = 2 * (Len(batch'[w]) + 1 - at'[w]) + 1
            /\ conn'[w].input[Len(conn'[w].input)] = Sync
            /\ Answered(conn'[w].input, batch'[w], at'[w], Len(batch'[w]))
        BY <2>6, <3>b, <4>1, <4>2, <4>3, <4>4
      <4> QED BY <2>6, <3>6, <4>1, <4>5, <4>6 DEF Aligned
    <3>10. CASE k >= n
      <4>1. k = n /\ pc'[w] = "finish"
        BY <2>5, <3>10
      <4>2. new = <<Sync>>
        <5> DEFINE l == Len(in)
        <5>1. l \in Nat /\ l = 2 * (n + 1 - k) + 1 /\ n \in Nat
          BY <2>4, <3>1, <3>2
        <5>2. l = 3
          <6> HIDE DEF l, n, k
          <6> QED BY <4>1, <5>1
        <5>3. Len(new) = 1 /\ new[1] = Sync /\ new \in Seq(Tokens)
          <6>1. 1 \in 1..l - 2 /\ l - 2 = 1 /\ 1 + 2 = l
            BY <5>2
          <6> HIDE DEF l, new
          <6>2. Len(new) = l - 2 /\ new[1] = in[1 + 2] /\ in[l] = Sync /\ new \in Seq(Tokens)
            BY <3>1, <3>7, <6>1 DEF l
          <6> QED BY <6>1, <6>2
        <5>4. <<Sync>> \in Seq(Tokens) /\ Len(<<Sync>>) = 1 /\ <<Sync>>[1] = Sync
          <6>1. Sync \in Tokens
            BY TokenTypes
          <6> HIDE DEF Sync
          <6> QED BY <6>1
        <5> HIDE DEF new
        <5> QED BY <5>3, <5>4, SeqEqual
      <4>3. h = b
        <5>1. b \in Seq(0..Len(Sql))
          <6>1. Queries \subseteq 0..Len(Sql)
            BY PoolAssumption, LenProperties DEF Queries
          <6> QED BY <2>4, <6>1, SeqMonotonic
        <5> HIDE DEF h, b
        <5> QED BY <3>8, <4>1, <5>1, SeqEqual DEF n
      <4> QED BY <2>6, <3>6, <3>b, <4>1, <4>2, <4>3 DEF Aligned
    <3> QED BY <2>4, <3>9, <3>10
  <2>10. Proper(w)'
    BY <1>0, <1>1, <2>1, <2>6, <2>7, <2>8, <2>9 DEF Proper
  <2> QED BY <2>6, <2>10, OneWorker
<1> QED BY <1>4, <1>5

(* After the sync of a clean connection nothing is left to be read.            *)
LEMMA FinishProper ==
    ASSUME PoolInv, NEW w \in Workers, FinishPipeline(w)
    PROVE  \A v \in Workers : Proper(v)'
<1> DEFINE in   == conn[w].input
           mode == ModeAfter(conn[w], <<Head(in)>>)
           tail == Tail(in)
           rest == [conn[w] EXCEPT !.input = tail, !.mode = mode]
<1>0. PoolTypes /\ PlaceInv /\ pc[w] = "finish" /\ Busy(w) /\ Proper(w)
  BY DEF PoolInv, PlaceInv, FinishPipeline, Busy
<1>1. conn[w] \in Connections /\ in \in Seq(Tokens) /\ mode \in {"off", "on", "aborted"}
  BY <1>0, BusyFacts, ModeType DEF Connections
<1>2. rest = [conn[w] EXCEPT !.input = Tail(@), !.mode = ModeAfter(conn[w], <<Head(in)>>)]
  BY <1>1 DEF Connections
<1>3. IF in # <<>> /\ Head(in) = Sync
      THEN /\ conn' = [conn EXCEPT ![w] = EnsurePipelineOff(rest)]
           /\ pc' = [pc EXCEPT ![w] = "idle"]
           /\ UNCHANGED <<queue, made, stop, closed, batch, at, got, cached, unclean, unsynced, faults>>
      ELSE Throw(w, IF in = <<>> THEN conn[w] ELSE rest)
  BY <1>2 DEF FinishPipeline, Goto
<1>4. in # <<>> => /\ rest \in Connections /\ rest.up = conn[w].up /\ rest.names = conn[w].names
                   /\ rest.input = tail /\ rest.mode = mode
  <2> SUFFICES ASSUME in # <<>>
               PROVE  /\ rest \in Connections /\ rest.up = conn[w].up /\ rest.names = conn[w].names
                      /\ rest.input = tail /\ rest.mode = mode
    OBVIOUS
  <2>1. tail \in Seq(Tokens)
    BY <1>1, HeadTailProperties
  <2> HIDE DEF tail, mode
  <2> QED BY <1>1, <2>1 DEF Connections
<1>5. conn[w].up # "ok" => in = <<>>
  BY <1>0 DEF Proper, Silent
<1>6. CASE in # <<>> /\ Head(in) = Sync
  <2> DEFINE d == EnsurePipelineOff(rest)
  <2>1. /\ d \in Connections /\ d.up = conn[w].up /\ d.names = conn[w].names
        /\ (rest.mode = "on" /\ rest.input = <<>> => d.mode = "off")
    <3> HIDE DEF rest
    <3> QED BY <1>4, <1>6, ConnectionTypes
  <2>2. /\ conn' = [conn EXCEPT ![w] = d] /\ pc' = [pc EXCEPT ![w] = "idle"]
        /\ UNCHANGED <<queue, made, stop, closed, batch, at, got, cached, unclean, unsynced, faults>>
    BY <1>3, <1>6
  <2>3. Clean(w) => d.mode = "off"
    <3> SUFFICES ASSUME Clean(w) PROVE mode = "on" /\ tail = <<>>
      BY <1>4, <1>6, <2>1
    <3>1. in = <<Sync>> /\ conn[w].mode = "on"
      BY <1>0 DEF Proper, Aligned
    <3>2. tail = <<>>
      BY <3>1
    <3>3. <<Head(in)>> = <<Sync>>
      BY <1>6
    <3> DEFINE one == <<Sync>>
               I   == {i \in 1..Len(one) : one[i].kind = "sync" \/ (one[i].kind = "res" /\ ~one[i].ok)}
    <3>4. Len(one) = 1 /\ one[1] = Sync
      <4> HIDE DEF Sync
      <4> QED OBVIOUS
    <3>5. I = {1}
      <4> HIDE DEF one
      <4> QED BY <3>4 DEF Sync
    <3>6. SelectLastInSeq(one, LAMBDA t : t.kind = "sync" \/ (t.kind = "res" /\ ~t.ok)) = Max(I)
      BY <3>5 DEF SelectLastInSeq
    <3>7. Max(I) = 1
      <4> HIDE DEF I
      <4>1. Max(I) \in {1}
        BY <3>5 DEF Max
      <4> QED BY <4>1
    <3>8. ModeAfter(conn[w], one) = "on"
      <4> HIDE DEF one, I
      <4>1. one[1].kind = "sync"
        BY <3>4 DEF Sync
      <4> QED BY <3>1, <3>6, <3>7, <4>1 DEF ModeAfter
    <3> QED BY <3>2, <3>3, <3>8
  <2> HIDE DEF d, rest
  <2>4. pc'[w] = "idle" /\ conn'[w] = d /\ Elsewhere(w)
    BY <1>0, <2>2 DEF PoolTypes, Elsewhere
  <2>5. Silent(w)'
    BY <1>5, <1>6, <2>1, <2>4 DEF Silent
  <2>6. Clean(w)' <=> Clean(w)
    BY <2>1, <2>2, <2>4 DEF Clean
  <2>7. Clean(w) => Aligned(w)'
    BY <2>3, <2>4 DEF Aligned
  <2>8. Proper(w)'
    BY <1>0, <2>1, <2>2, <2>4, <2>5, <2>6, <2>7 DEF Proper
  <2> QED BY <2>4, <2>8, OneWorker
<1>7. CASE ~(in # <<>> /\ Head(in) = Sync)
  <2> DEFINE d == IF in = <<>> THEN conn[w] ELSE rest
  <2>1. Throw(w, d)
    BY <1>3, <1>7
  <2>2. d \in Connections /\ d.up = conn[w].up /\ d.names = conn[w].names
    BY <1>1, <1>4
  <2>3. d.up # "ok" => \A i \in 1..Len(d.input) : d.input[i].kind # "res"
    <3>1. conn[w].up # "ok" => d.input = <<>>
      BY <1>5
    <3>2. 1..Len(<<>>) = {}
      BY EmptySeq
    <3> HIDE DEF d
    <3> QED BY <2>2, <3>1, <3>2
  <2> HIDE DEF d
  <2> QED BY <2>1, <2>2, <2>3, ThrowsProper DEF Throw
<1> QED BY <1>6, <1>7

(* What a single query on a clean connection is answered with is its own.      *)
LEMMA OwnResult ==
    ASSUME PoolInv, NEW w \in Workers, pc[w] = "exec", Sendable(conn[w]), NEW ok \in BOOLEAN
    PROVE  LET c == Execute(w, ok)
           IN  /\ c \in Connections /\ c.up = "ok" /\ c.names = conn[w].names /\ c.mode = conn[w].mode
               /\ Clean(w) => /\ c.mode = "off" /\ Receive(c).conn.mode = "off"
                              /\ Receive(c).res.kind = "res" /\ Receive(c).res.of = Query(w)
<1> DEFINE c == Execute(w, ok)
<1>0. PlaceInv /\ Busy(w) /\ Proper(w) /\ conn[w].up = "ok"
  BY DEF PoolInv, Busy, Sendable
<1>1. /\ c \in Connections /\ c.up = conn[w].up /\ c.names = conn[w].names /\ c.mode = conn[w].mode
      /\ Len(conn[w].input) \in Nat /\ Len(c.input) = Len(conn[w].input) + 2
      /\ (\E x \in BOOLEAN : c.input[Len(conn[w].input) + 1] = Res(Query(w), x))
      /\ c.input[Len(conn[w].input) + 2] = Null
  <2>1. (ok /\ Sql[Query(w)] \in conn[w].names) \in BOOLEAN
    OBVIOUS
  <2> QED BY <1>0, <2>1, BusyFacts, SentType DEF Execute
<1>2. ASSUME Clean(w)
      PROVE  /\ c.mode = "off" /\ Receive(c).conn.mode = "off"
             /\ Receive(c).res.kind = "res" /\ Receive(c).res.of = Query(w)
  <2>1. conn[w].mode = "off" /\ conn[w].input = <<>> /\ Len(<<>>) = 0
    BY <1>0, <1>2, EmptySeq DEF Proper, Aligned, Sendable
  <2> HIDE DEF c
  <2>2. PICK x \in BOOLEAN : c.input[1] = Res(Query(w), x)
    BY <1>1, <2>1
  <2>3. c.mode = "off" /\ Len(c.input) = 2 /\ c.input[2] = Null
    BY <1>1, <2>1
  <2>4. c.input[1].kind = "res" /\ c.input[1].of = Query(w) /\ Readable(c) = 2
    BY <2>2, <2>3 DEF Res, Readable
  <2>5. Receive(c).res = c.input[1] /\ Receive(c).conn.mode = "off"
    BY <1>1, <2>3, <2>4, ReceiveReply
  <2> QED BY <2>3, <2>4, <2>5
<1> QED BY <1>0, <1>1, <1>2

LEMMA ExecProper == ASSUME PoolInv, NEW w \in Workers, ExecOne(w) PROVE \A v \in Workers : Proper(v)'
<1>0. PoolTypes /\ PlaceInv /\ pc[w] = "exec" /\ Busy(w) /\ Proper(w)
  BY DEF PoolInv, PlaceInv, ExecOne, Busy
<1>1. CASE ~SendFails(w)
  <2>1. PICK ok \in BOOLEAN :
          LET r == Receive(Execute(w, ok))
          IN  /\ Sendable(conn[w])
              /\ IF r.res = Null THEN Throw(w, r.conn)
                 ELSE /\ answers' = Complete({Query(w)}, IF r.res.ok THEN r.res.of ELSE Error)
                      /\ conn' = [conn EXCEPT ![w] =
                                    IF at[w] < Len(batch[w]) THEN EnsurePipelineOff(r.conn) ELSE r.conn]
                      /\ IF at[w] < Len(batch[w])
                         THEN at' = [at EXCEPT ![w] = @ + 1] /\ Goto(w, "one")
                         ELSE at' = at /\ Goto(w, "idle")
                      /\ UNCHANGED <<queue, made, stop, closed, batch, got, cached, unclean, unsynced, faults>>
    BY <1>1 DEF ExecOne
  <2> DEFINE c == Execute(w, ok)
             r == Receive(c)
             d == IF at[w] < Len(batch[w]) THEN EnsurePipelineOff(r.conn) ELSE r.conn
  <2>2. Sendable(conn[w])
    BY <2>1
  <2>3. /\ c \in Connections /\ c.up = "ok" /\ conn[w].up = "ok" /\ c.names = conn[w].names
        /\ Clean(w) => r.conn.mode = "off"
    BY <1>0, <2>2, OwnResult DEF Sendable
  <2> HIDE DEF c
  <2>4. r.conn \in Connections /\ r.conn.up = "ok" /\ r.conn.names = conn[w].names
    BY <2>3, ReceiveType
  <2>5. CASE r.res = Null
    <3>1. Throw(w, r.conn)
      BY <2>1, <2>5 DEF c
    <3> HIDE DEF r
    <3> QED BY <2>3, <2>4, <3>1, ThrowsProper DEF Throw
  <2>6. CASE r.res # Null
    <3>1. /\ conn' = [conn EXCEPT ![w] = d]
          /\ UNCHANGED <<batch, got, cached, unclean, unsynced>>
          /\ \/ pc' = [pc EXCEPT ![w] = "one"] /\ at' = [at EXCEPT ![w] = @ + 1]
             \/ pc' = [pc EXCEPT ![w] = "idle"] /\ at' = at
      BY <2>1, <2>6 DEF c, Goto
    <3> HIDE DEF r
    <3>2. /\ d \in Connections /\ d.up = "ok" /\ d.names = conn[w].names
          /\ Clean(w) => d.mode = "off"
      BY <2>3, <2>4, ConnectionTypes
    <3> HIDE DEF d
    <3>3. pc'[w] \in {"one", "idle"} /\ conn'[w] = d /\ Elsewhere(w)
      BY <1>0, <3>1 DEF PoolTypes, Elsewhere
    <3>4. Silent(w)'
      BY <3>2, <3>3 DEF Silent
    <3>5. Clean(w)' <=> Clean(w)
      BY <2>3, <3>1, <3>2, <3>3 DEF Clean
    <3>6. Clean(w) => Aligned(w)'
      BY <3>2, <3>3 DEF Aligned
    <3>7. Proper(w)'
      BY <1>0, <3>1, <3>2, <3>3, <3>4, <3>5, <3>6 DEF Proper
    <3> QED BY <3>3, <3>7, OneWorker
  <2> QED BY <2>5, <2>6
<1> QED BY <1>1, SendFailsProper DEF ExecOne

LEMMA TimeOutProper == ASSUME PoolInv, NEW w \in Workers, TimeOut(w) PROVE \A v \in Workers : Proper(v)'
<1>0. PoolTypes /\ PlaceInv /\ Proper(w) /\ UNCHANGED <<cached, unsynced>>
  BY DEF PoolInv, PlaceInv, TimeOut
<1>1. CASE pc[w] = "exec" /\ Sendable(conn[w]) /\ ThrowWith(w, Execute(w, TRUE))
  <2> DEFINE c == Execute(w, TRUE)
  <2>1. c \in Connections /\ c.up = "ok" /\ c.names = conn[w].names /\ conn[w].up = "ok"
    BY <1>1, OwnResult DEF Sendable
  <2> HIDE DEF c
  <2> QED BY <1>0, <1>1, <2>1, ThrowsProper DEF c
<1>2. CASE pc[w] \in {"receive", "finish"} /\ ThrowWith(w, conn[w])
  <2>1. conn[w] \in Connections
    BY <1>0 DEF PoolTypes
  <2> QED BY <1>0, <1>2, <2>1, ThrowsProper DEF Proper, Silent
<1>3. CASE Sendable(conn[w]) /\ ThrowWith(w, Sent(conn[w], 0, TRUE))
  <2> DEFINE c == Sent(conn[w], 0, TRUE)
  <2>1. conn[w] \in Connections /\ 0 \in 0..Len(Sql)
    BY <1>0, PoolAssumption, LenProperties DEF PoolTypes
  <2>2. c \in Connections /\ c.up = "ok" /\ c.names = conn[w].names /\ conn[w].up = "ok"
    BY <1>3, <2>1, SentType DEF Sendable
  <2> HIDE DEF c
  <2> QED BY <1>0, <1>3, <2>2, ThrowsProper DEF c
<1> QED BY <1>1, <1>2, <1>3 DEF TimeOut

LEMMA DropProper == ASSUME PoolInv, NEW w \in Workers, Drop(w) PROVE \A v \in Workers : Proper(v)'
<1> DEFINE d == [conn[w] EXCEPT !.up = "dead", !.input = <<>>]
<1>0. PoolTypes
  BY DEF PoolInv, PlaceInv
<1>1. /\ conn' = [conn EXCEPT ![w] = d]
      /\ UNCHANGED <<pc, batch, at, got, cached, unclean, unsynced>>
  BY <1>0 DEF Drop, PoolTypes
<1>2. d.up = "dead" /\ d.input = <<>> /\ 1..Len(<<>>) = {}
  BY <1>0, EmptySeq DEF PoolTypes, Connections
<1> HIDE DEF d
<1>3. conn'[w] = d /\ Elsewhere(w)
  BY <1>0, <1>1 DEF PoolTypes, Elsewhere
<1>4. Proper(w)'
  BY <1>2, <1>3 DEF Proper, Silent, Clean
<1> QED BY <1>3, <1>4, OneWorker

LEMMA TakeProper == ASSUME PoolInv, NEW w \in Workers, Take(w) PROVE \A v \in Workers : Proper(v)'
<1> DEFINE c == EnsurePipelineOff(conn[w])
<1>0. PoolTypes /\ Proper(w) /\ pc[w] = "idle"
  BY DEF PoolInv, PlaceInv, Take
<1>1. /\ conn' = [conn EXCEPT ![w] = c]
      /\ \E f : batch' = [batch EXCEPT ![w] = f]
      /\ pc' = [pc EXCEPT ![w] = "one"] \/ pc' = [pc EXCEPT ![w] = "prepare"]
      /\ at' = [at EXCEPT ![w] = 1] /\ got' = [got EXCEPT ![w] = <<>>]
      /\ UNCHANGED <<cached, unclean, unsynced>>
  <2> DEFINE n == IF Len(queue) < MaxBatch THEN Len(queue) ELSE MaxBatch
  <2>1. pc' = [pc EXCEPT ![w] = IF n = 1 THEN "one" ELSE "prepare"]
        /\ batch' = [batch EXCEPT ![w] = SubSeq(queue, 1, n)]
    BY DEF Take, Goto
  <2> HIDE DEF n
  <2> QED BY <2>1 DEF Take
<1>2. /\ c \in Connections /\ c.up = conn[w].up /\ c.input = conn[w].input /\ c.names = conn[w].names
      /\ (conn[w].mode = "off" => c.mode = "off")
  BY <1>0, ConnectionTypes DEF PoolTypes
<1> HIDE DEF c
<1>3. pc'[w] \in {"one", "prepare"} /\ conn'[w] = c /\ Elsewhere(w)
  BY <1>0, <1>1 DEF PoolTypes, Elsewhere
<1>4. Silent(w)'
  BY <1>0, <1>2, <1>3 DEF Proper, Silent
<1>5. Clean(w)' <=> Clean(w)
  BY <1>1, <1>2, <1>3 DEF Clean
<1>6. Clean(w) => Aligned(w)'
  BY <1>0, <1>2, <1>3 DEF Proper, Aligned
<1>7. Proper(w)'
  BY <1>0, <1>1, <1>2, <1>3, <1>4, <1>5, <1>6 DEF Proper
<1> QED BY <1>3, <1>7, OneWorker

LEMMA WorkerEndsProper ==
    ASSUME PoolInv, NEW w \in Workers, WorkerEnds(w)
    PROVE  \A v \in Workers : Proper(v)'
<1>0. PoolTypes /\ Proper(w) /\ pc[w] = "idle"
  BY DEF PoolInv, PlaceInv, WorkerEnds
<1>1. pc' = [pc EXCEPT ![w] = "gone"] /\ UNCHANGED <<conn, batch, at, got, cached, unclean, unsynced>>
  BY DEF WorkerEnds, Goto
<1>2. pc'[w] = "gone" /\ Elsewhere(w)
  BY <1>0, <1>1 DEF PoolTypes, Elsewhere
<1>3. Silent(w)' /\ (Clean(w)' <=> Clean(w))
  BY <1>0, <1>1, <1>2 DEF Proper, Silent, Clean
<1>4. Clean(w) => Aligned(w)'
  BY <1>0, <1>1, <1>2 DEF Proper, Aligned
<1>5. Proper(w)'
  BY <1>0, <1>1, <1>3, <1>4 DEF Proper
<1> QED BY <1>2, <1>5, OneWorker

LEMMA SameProper ==
    ASSUME PoolInv, UNCHANGED <<pc, at, got, batch, conn, cached, unclean, unsynced>>
    PROVE  \A v \in Workers : Proper(v)'
<1>1. PICK w \in Workers : TRUE
  BY PoolAssumption
<1>2. Elsewhere(w)
  BY DEF Elsewhere
<1>3. Proper(w)
  BY DEF PoolInv
<1>4. (Silent(w)' <=> Silent(w)) /\ (Clean(w)' <=> Clean(w))
  BY DEF Silent, Clean
<1>5. Aligned(w)' <=> Aligned(w)
  BY DEF Aligned
<1>6. Proper(w)'
  BY <1>3, <1>4, <1>5 DEF Proper
<1> QED BY <1>2, <1>6, OneWorker

LEMMA PoolStep == ASSUME PoolInv, PoolNext PROVE PoolInv'
<1>1. PlaceInv'
  BY PlaceStep DEF PoolInv
<1>2. ASSUME QueryAsync \/ Destroy PROVE \A v \in Workers : Proper(v)'
  BY <1>2, SameProper DEF QueryAsync, Destroy
<1>3. ASSUME Close PROVE \A v \in Workers : Proper(v)'
  <2>1. conn' = [w \in Workers |-> Dead] /\ UNCHANGED pc
    BY <1>3 DEF Close
  <2>2. Dead.up = "null" /\ Dead.input = <<>> /\ 1..Len(<<>>) = {}
    BY ConnectionTypes, EmptySeq
  <2> QED BY <2>1, <2>2 DEF Proper, Silent, Clean
<1>4. ASSUME NEW w \in Workers, PrepareInPipeline(w) \/ PrepareOne(w) PROVE \A v \in Workers : Proper(v)'
  BY <1>4, EnsurePreparedProper DEF PrepareInPipeline, PrepareOne
<1>5. ASSUME NEW w \in Workers, WorkerStep(w) PROVE \A v \in Workers : Proper(v)'
  BY <1>4, <1>5, TakeProper, EnterProper, SendProper, SyncProper, ReceiveProper, FinishProper, ExecProper,
     WorkerEndsProper DEF WorkerStep
<1>6. \A v \in Workers : Proper(v)'
  BY <1>2, <1>3, <1>5, TimeOutProper, DropProper DEF PoolNext
<1> QED BY <1>1, <1>6 DEF PoolInv

LEMMA PoolInitially == PoolInit => PoolInv
<1> SUFFICES ASSUME PoolInit PROVE PoolInv
  OBVIOUS
<1>1. PlaceInv
  BY PlaceInitially
<1>2. Fresh.up = "ok" /\ Fresh.mode = "off"
  BY ConnectionTypes
<1>3. ASSUME NEW w \in Workers PROVE Proper(w)
  <2>1. conn[w] = Fresh /\ pc[w] = "idle" /\ cached[w] = {}
    BY DEF PoolInit
  <2> QED BY <1>2, <2>1 DEF Proper, Silent, Aligned
<1> QED BY <1>1, <1>3 DEF PoolInv

LEMMA UnchangedPool == ASSUME PoolInv, UNCHANGED pqvars PROVE PoolInv'
<1>1. PlaceInv'
  BY DEF pqvars, PoolInv, PlaceInv, PoolTypes, Phases, Phase, Busy, FallbackThrows, FallsBack, Places,
         InQueue, InBatch, Ending, CompletedOnce
<1> QED BY <1>1, SameProper DEF pqvars, PoolInv

LEMMA PoolInvariant == Spec => []PoolInv
<1>1. Init => PoolInv
  BY PoolInitially DEF Init
<1>2. PoolInv /\ [Next]_vars => PoolInv'
  BY PoolStep, UnchangedPool DEF Next, vars
<1> QED BY <1>1, <1>2, PTL DEF Spec

(* A cached statement can be executed: no worker holds a name its connection   *)
(* does not have, through reconnects, timeouts and failed preparations.        *)
THEOREM CacheIsSound == Spec => []CacheSound
<1>1. PoolInv => CacheSound
  BY DEF PoolInv, Proper, Clean, CacheSound
<1> QED BY <1>1, PoolInvariant, PTL
--------------------------------------------------------------------------------
(* What the queries are completed with.                                        *)
LEMMA LastOfAppend ==
    ASSUME NEW S, NEW s \in Seq(S), NEW e \in S
    PROVE  Last(Append(s, e)) = e
<1>1. Len(Append(s, e)) = Len(s) + 1 /\ Append(s, e)[Len(s) + 1] = e
  BY AppendProperties
<1> QED BY <1>1 DEF Last

(* Completion with the exception.                                              *)
LEMMA ErrorAnswer ==
    ASSUME PoolTypes, NEW qs, answers' = Complete(qs, Error),
           NEW q \in Queries, answers'[q] # answers[q]
    PROVE  Last(answers'[q]) = Error
<1>1. Error \in 0..Len(Sql) /\ answers[q] \in Seq(0..Len(Sql))
  BY PoolAssumption, LenProperties DEF Error, PoolTypes
<1>2. answers'[q] = Append(answers[q], Error)
  BY DEF Complete
<1> QED BY <1>1, <1>2, LastOfAppend

LEMMA OwnAnswerStep ==
    ASSUME PoolInv, PoolNext, NEW w \in Workers, NEW q \in Queries,
           q \in Range(batch[w]), pc[w] # "idle", ~unclean[w], answers'[q] # answers[q]
    PROVE  Last(answers'[q]) \in {q, Error}
<1>0. PlaceInv /\ PoolTypes /\ answers[q] \in Seq(0..Len(Sql)) /\ Proper(w)
  BY DEF PoolInv, PlaceInv, PoolTypes
<1>q. q \in 0..Len(Sql) /\ Error \in 0..Len(Sql)
  BY PoolAssumption, LenProperties DEF Queries, Error
<1>1. ASSUME NEW v \in Workers, NEW c, ThrowWith(v, c) PROVE Last(answers'[q]) = Error
  BY <1>0, <1>1, ErrorAnswer DEF ThrowWith
<1>2. ASSUME NEW v \in Workers, Busy(v), q \in Range(batch[v]) PROVE v = w
  <2>1. InBatch(q, v) /\ answers[q] = <<>>
    BY <1>0, <1>2 DEF InBatch, PlaceInv, Places
  <2>2. InBatch(q, w)
    BY <1>0, <2>1 DEF InBatch, PlaceInv, Places
  <2> QED BY <1>0, <2>1, <2>2 DEF PlaceInv, Places
<1>3. ASSUME NEW v \in Workers, SendFails(v) PROVE Last(answers'[q]) = Error
  BY <1>1, <1>3 DEF SendFails
<1>4. ASSUME NEW v \in Workers, EnsurePrepared(v) PROVE Last(answers'[q]) = Error
  <2>1. CASE Sql[Query(v)] \in cached[v]
    BY <1>4, <2>1 DEF EnsurePrepared
  <2>2. CASE ~(Sql[Query(v)] \in cached[v]) /\ ~SendFails(v)
    <3>1. \E c : UNCHANGED answers \/ Throw(v, c)
      BY <1>4, <2>2 DEF EnsurePrepared
    <3> QED BY <1>1, <3>1 DEF Throw
  <2> QED BY <1>3, <2>1, <2>2
<1>5. ASSUME NEW v \in Workers, SyncPipeline(v) PROVE Last(answers'[q]) = Error
  <2>1. (\E c : ThrowWith(v, c)) \/ UNCHANGED answers
    BY <1>5 DEF SyncPipeline
  <2> QED BY <1>1, <2>1
<1>6. ASSUME NEW v \in Workers, ReceiveInPipeline(v) PROVE Last(answers'[q]) = Error
  <2>1. (\E c : ThrowWith(v, c)) \/ UNCHANGED answers
    BY <1>6 DEF ReceiveInPipeline, Throw
  <2> QED BY <1>1, <2>1
<1>7. ASSUME NEW v \in Workers, TimeOut(v) PROVE Last(answers'[q]) = Error
  <2>1. \E c : ThrowWith(v, c)
    BY <1>7 DEF TimeOut
  <2> QED BY <1>1, <2>1
<1>8. ASSUME NEW v \in Workers, FinishPipeline(v) PROVE Last(answers'[q]) \in {q, Error}
  <2> DEFINE in == conn[v].input
             b  == batch[v]
             j  == CHOOSE i \in DOMAIN b : b[i] = q
  <2>1. CASE ~(in # <<>> /\ Head(in) = Sync)
    <3>1. \E c : ThrowWith(v, c)
      BY <1>8, <2>1 DEF FinishPipeline, Throw
    <3> QED BY <1>1, <3>1
  <2>2. CASE in # <<>> /\ Head(in) = Sync
    <3>1. pc[v] = "finish" /\ answers' = [p \in Queries |->
                     IF p \in Range(b) THEN Append(answers[p], got[v][CHOOSE i \in DOMAIN b : b[i] = p])
                     ELSE answers[p]]
      BY <1>8, <2>2 DEF FinishPipeline
    <3>2. q \in Range(b) /\ answers'[q] = Append(answers[q], got[v][j])
      BY <3>1
    <3>3. Busy(v)
      BY <3>1 DEF Busy
    <3>4. v = w
      BY <1>2, <3>2, <3>3
    <3>5. got[w] = batch[w]
      <4>1. Clean(w)
        BY <1>0, <2>2, <3>1, <3>4 DEF Proper, Silent, Clean
      <4> QED BY <1>0, <3>1, <3>4, <4>1 DEF Proper, Aligned
    <3>6. b[j] = q
      BY <3>2 DEF Range
    <3> HIDE DEF j
    <3>7. answers'[q] = Append(answers[q], q)
      BY <3>2, <3>4, <3>5, <3>6
    <3> QED BY <1>0, <1>q, <3>7, LastOfAppend
  <2> QED BY <2>1, <2>2
<1>9. ASSUME NEW v \in Workers, ExecOne(v) PROVE Last(answers'[q]) \in {q, Error}
  <2>1. CASE ~SendFails(v)
    <3>1. PICK ok \in BOOLEAN :
            /\ Sendable(conn[v])
            /\ \/ Throw(v, Receive(Execute(v, ok)).conn)
               \/ answers' = Complete({Query(v)}, IF Receive(Execute(v, ok)).res.ok
                                                  THEN Receive(Execute(v, ok)).res.of ELSE Error)
      BY <1>9, <2>1 DEF ExecOne
    <3> DEFINE r == Receive(Execute(v, ok)).res
               x == IF r.ok THEN r.of ELSE Error
    <3>2. CASE answers' = Complete({Query(v)}, x)
      <4>1. q = Query(v) /\ answers'[q] = Append(answers[q], x)
        BY <3>2 DEF Complete
      <4>2. pc[v] = "exec" /\ Busy(v)
        BY <1>9 DEF ExecOne, Busy
      <4>3. q \in Range(batch[v])
        BY <1>0, <4>1, <4>2, BusyFacts
      <4>4. v = w
        BY <1>2, <4>2, <4>3
      <4>5. Clean(w)
        BY <3>1, <4>4 DEF Clean, Sendable
      <4>6. r.of = q
        BY <3>1, <4>1, <4>2, <4>4, <4>5, OwnResult
      <4> HIDE DEF r
      <4>7. x \in {q, Error}
        BY <4>6
      <4> HIDE DEF x
      <4> QED BY <1>0, <1>q, <4>1, <4>7, LastOfAppend
    <3>3. CASE Throw(v, Receive(Execute(v, ok)).conn)
      BY <1>1, <3>3 DEF Throw
    <3> QED BY <3>1, <3>2, <3>3
  <2> QED BY <1>3, <2>1
<1>10. ASSUME Destroy PROVE Last(answers'[q]) = Error
  BY <1>0, <1>10, ErrorAnswer DEF Destroy
<1>11. ASSUME NEW v \in Workers, WorkerStep(v) PROVE Last(answers'[q]) \in {q, Error}
  <2>1. CASE PrepareInPipeline(v) \/ PrepareOne(v)
    BY <1>4, <2>1 DEF PrepareInPipeline, PrepareOne
  <2>2. CASE Take(v) \/ EnterPipeline(v) \/ WorkerEnds(v)
    BY <2>2 DEF Take, EnterPipeline, WorkerEnds
  <2>3. CASE SendInPipeline(v)
    BY <1>3, <2>3 DEF SendInPipeline
  <2> QED BY <1>5, <1>6, <1>8, <1>9, <1>11, <2>1, <2>2, <2>3 DEF WorkerStep
<1>12. CASE QueryAsync \/ Close
  BY <1>12 DEF QueryAsync, Close
<1>13. ASSUME NEW v \in Workers, Drop(v) PROVE FALSE
  BY <1>13 DEF Drop
<1> QED BY <1>7, <1>10, <1>11, <1>12, <1>13 DEF PoolNext

(* On a connection that was not given up inside a pipeline, a query is never   *)
(* completed with the result of another one, however the batches fall and      *)
(* whatever fails: what is in the input answers the batch in order.            *)
THEOREM EachItsOwnAnswer == Spec => OwnAnswer
<1> DEFINE A == \A w \in Workers : \A q \in Queries :
                   (q \in Range(batch[w]) /\ pc[w] # "idle" /\ ~unclean[w] /\ answers'[q] # answers[q])
                     => Last(answers'[q]) \in {q, Error}
<1>1. PoolInv /\ [Next]_vars => [A]_pqvars
  BY OwnAnswerStep DEF Next, vars
<1>2. Spec => [][A]_pqvars
  BY <1>1, PoolInvariant, PTL DEF Spec
<1> QED BY <1>2 DEF OwnAnswer
--------------------------------------------------------------------------------
(* The SQLite client.                                                          *)
Holds(t, c) == thread[t].conn = c

SqliteTypes ==
    /\ tasks \in Seq(Statements) /\ posted \in 0..Len(Changes)
    /\ thread \in [ExecThreads -> [at : {"idle", "acquire", "run", "done"},
                                   q : 0..Len(Changes), conn : Conns \cup {NoConn}]]
    /\ pool \in Seq(Conns) /\ changes \in [Conns -> Nat]
    /\ results \in [Statements -> Int]
    /\ \A t \in ExecThreads :
          /\ thread[t].at = "idle" \/ thread[t].q \in Statements
          /\ (thread[t].at \in {"run", "done"}) <=> (thread[t].conn \in Conns)

(* A connection is with one thread or once in the pool.                        *)
Lent ==
    /\ IsInjective(pool)
    /\ \A c \in Conns, t \in ExecThreads : Holds(t, c) => c \notin Range(pool)
    /\ \A c \in Conns, t, u \in ExecThreads : Holds(t, c) /\ Holds(u, c) => t = u
    /\ \A c \in Conns : c \in Range(pool) \/ \E t \in ExecThreads : Holds(t, c)

(* Nobody writes on the connection between a write and the reading of its      *)
(* count.                                                                      *)
CountStands ==
    \A t \in ExecThreads :
        thread[t].at = "done" /\ Changes[thread[t].q] > 0 => changes[thread[t].conn] = Changes[thread[t].q]

CountsTold ==
    \A q \in Statements : (Changes[q] > 0 /\ results[q] # Pending) => results[q] \in {Changes[q], -1}

SqliteInv == SqliteTypes /\ Lent /\ CountStands /\ CountsTold

LEMMA SqliteInitially == ASSUME SqliteInit PROVE SqliteInv
<1> USE SqliteAssumption DEF SqliteInit
<1>1. pool \in Seq(Conns) /\ IsInjective(pool) /\ Range(pool) = Conns
  BY ListOfSet
<1>2. Len(Changes) \in Nat /\ tasks \in Seq(Statements) /\ Pending \in Int
  BY LenProperties, EmptySeq DEF Pending
<1>3. \A t \in ExecThreads : thread[t].at = "idle" /\ thread[t].conn = NoConn
  BY DEF Idle
<1>4. thread \in [ExecThreads -> [at : {"idle", "acquire", "run", "done"},
                                 q : 0..Len(Changes), conn : Conns \cup {NoConn}]]
  BY <1>2 DEF Idle
<1>5. SqliteTypes
  BY <1>1, <1>2, <1>3, <1>4 DEF SqliteTypes
<1>6. Lent
  BY <1>1, <1>3 DEF Lent, Holds
<1> QED BY <1>3, <1>5, <1>6 DEF SqliteInv, CountStands, CountsTold

(* A thread gives its connection back: what Fail and Finish have in common.    *)
LEMMA ReturnKeeps ==
    ASSUME SqliteInv, NEW t \in ExecThreads, thread[t].at \in {"run", "done"},
           NEW value \in Int, Return(t, value),
           Changes[thread[t].q] > 0 => value \in {Changes[thread[t].q], -1}
    PROVE  SqliteInv'
<1> USE DEF SqliteInv
<1> DEFINE c == thread[t].conn
<1>1. /\ results' = [results EXCEPT ![thread[t].q] = value] /\ pool' = Append(pool, c)
      /\ thread' = [thread EXCEPT ![t] = Idle] /\ UNCHANGED <<tasks, posted, changes>>
  BY DEF Return
<1>2. c \in Conns /\ c # NoConn /\ c \notin Range(pool) /\ thread[t].q \in Statements
  BY SqliteAssumption DEF SqliteTypes, Lent, Holds
<1>3. pool' \in Seq(Conns) /\ Range(pool') = Range(pool) \cup {c} /\ IsInjective(pool')
  BY <1>1, <1>2, RangeOfAppend DEF SqliteTypes, Lent
<1>4. Idle \in [at : {"idle", "acquire", "run", "done"}, q : 0..Len(Changes), conn : Conns \cup {NoConn}]
      /\ Idle.at = "idle" /\ Idle.conn = NoConn
  BY SqliteAssumption, LenProperties DEF Idle
<1>5. \A u \in ExecThreads : thread'[u] = IF u = t THEN Idle ELSE thread[u]
  BY <1>1 DEF SqliteTypes
<1>6. SqliteTypes'
  <2>1. results' \in [Statements -> Int]
    BY <1>1 DEF SqliteTypes
  <2>2. thread' \in [ExecThreads -> [at : {"idle", "acquire", "run", "done"},
                                    q : 0..Len(Changes), conn : Conns \cup {NoConn}]]
    BY <1>1, <1>4 DEF SqliteTypes
  <2>3. \A u \in ExecThreads :
           /\ thread'[u].at = "idle" \/ thread'[u].q \in Statements
           /\ (thread'[u].at \in {"run", "done"}) <=> (thread'[u].conn \in Conns)
    <3> TAKE u \in ExecThreads
    <3>1. CASE u = t
      BY <1>4, <1>5, <3>1, SqliteAssumption
    <3>2. CASE u # t
      BY <1>5, <3>2 DEF SqliteTypes
    <3> QED BY <3>1, <3>2
  <2> QED BY <1>1, <1>3, <2>1, <2>2, <2>3 DEF SqliteTypes
<1>7. Lent'
  <2>0. \A d \in Conns, u \in ExecThreads : thread'[u].conn = d <=> u # t /\ thread[u].conn = d
    BY <1>4, <1>5, SqliteAssumption
  <2>1. \A d \in Conns, u \in ExecThreads : thread'[u].conn = d => d \notin Range(pool')
    BY <1>2, <1>3, <2>0 DEF Lent, Holds
  <2>2. \A d \in Conns, u, v \in ExecThreads : thread'[u].conn = d /\ thread'[v].conn = d => u = v
    BY <2>0 DEF Lent, Holds
  <2>3. \A d \in Conns : d \in Range(pool') \/ \E u \in ExecThreads : thread'[u].conn = d
    BY <1>2, <1>3, <2>0 DEF Lent, Holds
  <2> QED BY <1>3, <2>1, <2>2, <2>3 DEF Lent, Holds
<1>8. CountStands'
  BY <1>1, <1>4, <1>5 DEF CountStands
<1>9. CountsTold'
  BY <1>1, <1>2 DEF CountsTold, SqliteTypes
<1> QED BY <1>6, <1>7, <1>8, <1>9

LEMMA SqliteStep == ASSUME SqliteInv, SqliteNext PROVE SqliteInv'
<1> USE DEF SqliteInv
<1> DEFINE Records == [at : {"idle", "acquire", "run", "done"}, q : 0..Len(Changes),
                       conn : Conns \cup {NoConn}]
<1>0. Len(Changes) \in Nat /\ \A q \in Statements : Changes[q] \in Nat
  BY SqliteAssumption, LenProperties, ElementOfSeq DEF Statements
<1>t. thread \in [ExecThreads -> Records]
  BY DEF SqliteTypes
<1>1. CASE PostQuery
  <2>1. posted + 1 \in Statements /\ posted + 1 \in 0..Len(Changes)
    BY <1>0, <1>1 DEF PostQuery, Statements, SqliteTypes
  <2>2. Append(tasks, posted + 1) \in Seq(Statements)
    BY <2>1, AppendProperties DEF SqliteTypes
  <2> QED BY <1>1, <2>1, <2>2 DEF PostQuery, SqliteTypes, Lent, Holds, CountStands, CountsTold
<1>2. ASSUME NEW t \in ExecThreads, Begin(t) PROVE SqliteInv'
  <2> DEFINE r == [Idle EXCEPT !.at = "acquire", !.q = Head(tasks)]
  <2>1. /\ thread[t].at = "idle" /\ thread' = [thread EXCEPT ![t] = r] /\ tasks # <<>>
        /\ tasks' = Tail(tasks) /\ UNCHANGED <<posted, pool, changes, results>>
    BY <1>2 DEF Begin
  <2>2. Head(tasks) \in Statements /\ Tail(tasks) \in Seq(Statements)
    BY <2>1, HeadTailProperties DEF SqliteTypes
  <2>3. r \in Records /\ r.at = "acquire" /\ r.conn = NoConn /\ r.q \in Statements
    <3>1. ASSUME NEW h \in Statements
          PROVE  LET x == [Idle EXCEPT !.at = "acquire", !.q = h]
                 IN  x \in Records /\ x.at = "acquire" /\ x.conn = NoConn /\ x.q \in Statements
      <4>1. h \in 0..Len(Changes)
        BY <1>0 DEF Statements
      <4> HIDE DEF SqliteInv
      <4> QED BY <4>1 DEF Idle
    <3> QED BY <2>2, <3>1
  <2> HIDE DEF r
  <2>4. \A u \in ExecThreads : thread'[u] = IF u = t THEN r ELSE thread[u]
    BY <1>t, <2>1
  <2>5. thread' \in [ExecThreads -> Records]
    BY <1>t, <2>1, <2>3
  <2>6. \A u \in ExecThreads : thread'[u].conn = thread[u].conn
    <3>1. thread[t].conn = NoConn
      BY <2>1 DEF SqliteTypes
    <3> QED BY <2>3, <2>4, <3>1
  <2>7. \A u \in ExecThreads :
           /\ thread'[u].at = "idle" \/ thread'[u].q \in Statements
           /\ (thread'[u].at \in {"run", "done"}) <=> (thread'[u].conn \in Conns)
    BY <2>3, <2>4, SqliteAssumption DEF SqliteTypes
  <2>8. SqliteTypes'
    BY <2>1, <2>2, <2>5, <2>7 DEF SqliteTypes
  <2>9. Lent'
    BY <2>1, <2>6 DEF Lent, Holds
  <2>10. CountStands' /\ CountsTold'
    BY <2>1, <2>3, <2>4 DEF CountStands, CountsTold
  <2> QED BY <2>8, <2>9, <2>10
<1>3. ASSUME NEW t \in ExecThreads, Acquire(t) PROVE SqliteInv'
  <2> DEFINE n == Len(pool) - 1
             c == Last(pool)
             r == [thread[t] EXCEPT !.at = "run", !.conn = c]
  <2>1. /\ thread[t].at = "acquire" /\ thread' = [thread EXCEPT ![t] = r] /\ pool # <<>>
        /\ pool' = SubSeq(pool, 1, n) /\ UNCHANGED <<tasks, posted, changes, results>>
    BY <1>3, <1>t DEF Acquire, Front
  <2>4. /\ pool' \in Seq(Conns) /\ IsInjective(pool') /\ c \notin Range(pool')
        /\ Range(pool) = Range(pool') \cup {c} /\ c \in Conns
    BY <2>1, FrontAndLast DEF SqliteTypes, Lent, Front
  <2>3. c \in Conns /\ c \in Range(pool)
    <3> HIDE DEF c
    <3> QED BY <2>4
  <2>5. r \in Records /\ r.at = "run" /\ r.conn = c /\ r.q \in Statements
    <3>1. thread[t] \in Records /\ thread[t].q \in Statements
      BY <1>t, <2>1 DEF SqliteTypes
    <3> HIDE DEF c
    <3> QED BY <2>3, <3>1
  <2> HIDE DEF r, c, n
  <2>6. \A u \in ExecThreads : thread'[u] = IF u = t THEN r ELSE thread[u]
    BY <1>t, <2>1
  <2>7. SqliteTypes'
    <3>1. thread' \in [ExecThreads -> Records]
      BY <1>t, <2>1, <2>5
    <3>2. \A u \in ExecThreads :
           /\ thread'[u].at = "idle" \/ thread'[u].q \in Statements
           /\ (thread'[u].at \in {"run", "done"}) <=> (thread'[u].conn \in Conns)
      BY <2>3, <2>5, <2>6 DEF SqliteTypes
    <3> QED BY <2>1, <2>4, <3>1, <3>2 DEF SqliteTypes
  <2>8. Lent'
    <3>0. \A u \in ExecThreads : thread'[u].conn = IF u = t THEN c ELSE thread[u].conn
      BY <2>5, <2>6
    <3>1. \A u \in ExecThreads : thread[u].conn # c
      BY <2>3 DEF Lent, Holds
    <3>2. thread[t].conn \notin Conns
      BY <2>1 DEF SqliteTypes
    <3>3. \A d \in Conns, u \in ExecThreads : thread'[u].conn = d => d \notin Range(pool')
      BY <2>4, <3>0 DEF Lent, Holds
    <3>4. \A d \in Conns, u, v \in ExecThreads : thread'[u].conn = d /\ thread'[v].conn = d => u = v
      BY <3>0, <3>1 DEF Lent, Holds
    <3>5. \A d \in Conns : d \in Range(pool') \/ \E u \in ExecThreads : thread'[u].conn = d
      BY <2>4, <3>0, <3>2 DEF Lent, Holds
    <3> QED BY <2>4, <3>3, <3>4, <3>5 DEF Lent, Holds
  <2>9. CountStands' /\ CountsTold'
    BY <2>1, <2>5, <2>6 DEF CountStands, CountsTold
  <2> QED BY <2>7, <2>8, <2>9
<1>4. ASSUME NEW t \in ExecThreads, Fail(t) PROVE SqliteInv'
  <2>1. thread[t].at = "run" /\ Return(t, -1)
    BY <1>4 DEF Fail
  <2> QED BY <2>1, ReturnKeeps
<1>5. ASSUME NEW t \in ExecThreads, StepToDone(t) PROVE SqliteInv'
  <2> DEFINE c == thread[t].conn
             r == [thread[t] EXCEPT !.at = "done"]
  <2>1. /\ thread[t].at = "run" /\ thread' = [thread EXCEPT ![t] = r]
        /\ changes' = (IF Changes[thread[t].q] = 0 THEN changes
                      ELSE [changes EXCEPT ![c] = Changes[thread[t].q]])
        /\ UNCHANGED <<tasks, posted, pool, results>>
    BY <1>5, <1>t DEF StepToDone
  <2>2. /\ r \in Records /\ r.at = "done" /\ r.q = thread[t].q /\ r.conn = c
        /\ c \in Conns /\ thread[t].q \in Statements
    <3>1. thread[t] \in Records /\ c \in Conns /\ thread[t].q \in Statements
      BY <1>t, <2>1 DEF SqliteTypes
    <3> QED BY <3>1
  <2> HIDE DEF r
  <2>3. \A u \in ExecThreads : thread'[u] = IF u = t THEN r ELSE thread[u]
    BY <1>t, <2>1
  <2>4. \A u \in ExecThreads : thread'[u].conn = thread[u].conn /\ thread'[u].q = thread[u].q
    BY <2>2, <2>3
  <2>5. SqliteTypes'
    <3>1. thread' \in [ExecThreads -> Records]
      BY <1>t, <2>1, <2>2
    <3>2. \A u \in ExecThreads :
           /\ thread'[u].at = "idle" \/ thread'[u].q \in Statements
           /\ (thread'[u].at \in {"run", "done"}) <=> (thread'[u].conn \in Conns)
      BY <2>2, <2>3 DEF SqliteTypes
    <3>3. changes' \in [Conns -> Nat]
      BY <1>0, <2>1, <2>2 DEF SqliteTypes
    <3> QED BY <2>1, <3>1, <3>2, <3>3 DEF SqliteTypes
  <2>6. Lent'
    BY <2>1, <2>4 DEF Lent, Holds
  <2>7. CountStands'
    <3> SUFFICES ASSUME NEW u \in ExecThreads, thread'[u].at = "done", Changes[thread[u].q] > 0
                 PROVE  changes'[thread[u].conn] = Changes[thread[u].q]
      BY <2>4 DEF CountStands
    <3>1. CASE u = t
      BY <2>1, <2>2, <3>1 DEF SqliteTypes
    <3>2. CASE u # t
      <4>1. thread[u].at = "done"
        BY <2>3, <3>2
      <4>2. thread[u].conn \in Conns
        BY <4>1 DEF SqliteTypes
      <4>3. thread[u].conn # c
        BY <2>2, <3>2, <4>2 DEF Lent, Holds
      <4> QED BY <2>1, <4>1, <4>2, <4>3 DEF CountStands, SqliteTypes
    <3> QED BY <3>1, <3>2
  <2>8. CountsTold'
    BY <2>1 DEF CountsTold
  <2> QED BY <2>5, <2>6, <2>7, <2>8
<1>6. ASSUME NEW t \in ExecThreads, Finish(t) PROVE SqliteInv'
  <2>1. thread[t].at = "done" /\ Return(t, changes[thread[t].conn])
    BY <1>6 DEF Finish
  <2>2. thread[t].conn \in Conns /\ changes[thread[t].conn] \in Int
    BY <2>1 DEF SqliteTypes
  <2>3. Changes[thread[t].q] > 0 => changes[thread[t].conn] = Changes[thread[t].q]
    BY <2>1 DEF CountStands
  <2> QED BY <2>1, <2>2, <2>3, ReturnKeeps
<1> QED BY <1>1, <1>2, <1>3, <1>4, <1>5, <1>6 DEF SqliteNext, ThreadStep

LEMMA SqliteInvariant == Spec => []SqliteInv
<1>1. Init => SqliteInv
  BY SqliteInitially DEF Init
<1>2. SqliteInv /\ [Next]_vars => SqliteInv'
  <2> SUFFICES ASSUME SqliteInv, [Next]_vars PROVE SqliteInv'
    OBVIOUS
  <2>1. CASE UNCHANGED sqvars
    BY <2>1 DEF sqvars, SqliteInv, SqliteTypes, Lent, Holds, CountStands, CountsTold
  <2> QED BY <2>1, SqliteStep DEF Next, vars
<1> QED BY <1>1, <1>2, PTL DEF Spec

(* A write tells the rows that it changed itself, or throws, whatever the      *)
(* other executor threads do between sqlite3_step and sqlite3_changes: the     *)
(* connection is lent to one thread from acquire to release.  And no           *)
(* connection is lost or lent twice.                                           *)
THEOREM WriteCountsExact == Spec => []WriteCountExact
<1>1. SqliteInv => WriteCountExact
  <2> SUFFICES ASSUME SqliteInv, NEW c \in Conns
               PROVE  Cardinality({t \in ExecThreads : thread[t].conn = c})
                        + Cardinality({i \in DOMAIN pool : pool[i] = c}) = 1
    BY DEF SqliteInv, CountsTold, WriteCountExact
  <2> DEFINE T == {t \in ExecThreads : thread[t].conn = c}
             P == {i \in DOMAIN pool : pool[i] = c}
  <2>1. ASSUME c \in Range(pool) PROVE T = {} /\ \E j : P = {j}
    <3>1. T = {}
      BY <2>1 DEF SqliteInv, Lent, Holds
    <3>2. PICK j \in DOMAIN pool : pool[j] = c
      BY <2>1 DEF Range
    <3>3. P = {j}
      BY <3>2 DEF SqliteInv, Lent, IsInjective
    <3> QED BY <3>1, <3>3
  <2>2. ASSUME c \notin Range(pool) PROVE P = {} /\ \E u : T = {u}
    <3>1. P = {}
      BY <2>2 DEF Range
    <3>2. PICK u \in ExecThreads : thread[u].conn = c
      BY <2>2 DEF SqliteInv, Lent, Holds
    <3>3. T = {u}
      BY <3>2 DEF SqliteInv, Lent, Holds
    <3> QED BY <3>1, <3>3
  <2>3. (T = {} /\ \E j : P = {j}) \/ (P = {} /\ \E u : T = {u})
    BY <2>1, <2>2
  <2>4. Cardinality(T) + Cardinality(P) = 1
    <3> HIDE DEF T, P
    <3>1. (Cardinality(T) = 0 /\ Cardinality(P) = 1) \/ (Cardinality(T) = 1 /\ Cardinality(P) = 0)
      BY <2>3, FS_EmptySet, FS_Singleton
    <3> QED BY <3>1
  <2> QED BY <2>4
<1> QED BY <1>1, SqliteInvariant, PTL
================================================================================
