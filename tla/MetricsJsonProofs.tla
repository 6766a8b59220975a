--------------------------- MODULE MetricsJsonProofs --------------------------
(* Proofs about module Metrics, for any number of recording threads, any sizes *)
(* of the two rings, and any number of events, minutes and crashes; and about  *)
(* module Json, for any keys, values and arrays and any number of calls.       *)
EXTENDS Metrics, Json, DataLemmas

(* The types of the state.                                                     *)
RingTypes   == [Slots -> [epoch : Nat, requests : Nat]]
LogTypes    == [Minutes -> Nat]
SampleLists == {s \in Seq(Nat) : Len(s) <= LatCap}
Kept        == [ring : RingTypes, total : Nat, samples : SampleLists, logged : LogTypes]
ReportTypes == [phase : Phases, now : Nat, hours : Nat, window : Nat, average : Nat, total : Nat]
LatTypes    == [at : [0..(LatCap - 1) -> Nat], head : 0..(LatCap - 1), count : 0..LatCap]

MetricsTypes ==
    /\ total \in Nat /\ ring \in RingTypes /\ logged \in LogTypes
    /\ lat \in LatTypes /\ measured \in SampleLists
    /\ minute \in Minutes /\ started \in Nat /\ started <= minute
    /\ rec \in [Recorders -> Nat]
    /\ save \in {"idle", "half", "copied", "removed"} /\ copy \in Kept
    /\ report \in ReportTypes
    /\ file \in {NoFile, Invalid} \cup Kept
    /\ up \in BOOLEAN

(* The threads between the two halves of a record.                             *)
Recording == {r \in Recorders : rec[r] # 0}

(* The buckets hold no more than the total without the events that are not in  *)
(* a bucket yet; and what was read of the buckets no more than the total that  *)
(* is still to be read.                                                        *)
CountsSoFar ==
    /\ Requests(ring) + Cardinality(Recording) <= total
    /\ save = "half" => Requests(copy.ring) <= total
    /\ save \in {"copied", "removed"} => Requests(copy.ring) <= copy.total
    /\ report.phase \in {"window", "uptime", "again", "average"} => report.window <= total
    /\ report.phase = "average" => report.average <= total
    /\ ~up => report = NoReport

CountsInv == MetricsTypes /\ CountsSoFar /\ CountsConsistent

LEMMA Sizes == /\ RingSize \in Nat /\ RingSize > 0 /\ LatCap \in Nat /\ LatCap > 0 /\ MaxTicks \in Nat
               /\ Minutes \subseteq Nat /\ Slots \subseteq Nat /\ IsFiniteSet(Slots) /\ IsFiniteSet(Recorders)
<1>1. RingSize \in Nat /\ RingSize > 0 /\ LatCap \in Nat /\ LatCap > 0 /\ MaxTicks \in Nat /\ IsFiniteSet(Recorders)
  BY RingAssumption
<1>2. IsFiniteSet(0..(RingSize - 1))
  BY <1>1, FS_Interval
<1> QED BY <1>1, <1>2 DEF Minutes, Slots

(* The sums of a ring.                                                         *)
LEMMA RequestsIsSum ==
    ASSUME NEW r \in RingTypes, NEW f, f = [i \in Slots |-> r[i].requests]
    PROVE  f \in [Slots -> Nat] /\ Requests(r) = SumOver(f, Slots) /\ Requests(r) \in Nat
<1>1. f \in [Slots -> Nat] /\ DOMAIN f = Slots
  BY DEF RingTypes
<1>2. Requests(r) = SumOver(f, Slots)
  BY <1>1, SumOfFunction DEF Requests
<1>3. Slots \in SUBSET Slots
  OBVIOUS
<1>4. SumOver(f, Slots) \in Nat
  BY <1>1, <1>3, Sizes, SumIsNatural
<1> QED BY <1>1, <1>2, <1>4

LEMMA WindowIsSum ==
    ASSUME NEW r \in RingTypes, NEW now,
           NEW g, g = [i \in Slots |-> IF InWindow(r[i], now) THEN r[i].requests ELSE 0]
    PROVE  g \in [Slots -> Nat] /\ Window(r, now) = SumOver(g, Slots) /\ Window(r, now) \in Nat
<1>1. g \in [Slots -> Nat] /\ DOMAIN g = Slots
  BY DEF RingTypes
<1>2. Window(r, now) = SumOver(g, Slots)
  BY <1>1, SumOfFunction DEF Window
<1>3. Slots \in SUBSET Slots
  OBVIOUS
<1>4. SumOver(g, Slots) \in Nat
  BY <1>1, <1>3, Sizes, SumIsNatural
<1> QED BY <1>1, <1>2, <1>4

LEMMA WindowIsPart ==
    ASSUME NEW r \in RingTypes, NEW now
    PROVE  Window(r, now) \in Nat /\ Window(r, now) <= Requests(r)
<1> DEFINE f == [i \in Slots |-> r[i].requests]
           g == [i \in Slots |-> IF InWindow(r[i], now) THEN r[i].requests ELSE 0]
<1>1. f \in [Slots -> Nat] /\ Requests(r) = SumOver(f, Slots)
  BY RequestsIsSum
<1>2. g \in [Slots -> Nat] /\ Window(r, now) = SumOver(g, Slots) /\ Window(r, now) \in Nat
  BY WindowIsSum
<1>3. \A i \in Slots : g[i] <= f[i]
  BY DEF RingTypes
<1>4. Slots \in SUBSET Slots
  OBVIOUS
<1> HIDE DEF f, g
<1>5. SumOver(g, Slots) <= SumOver(f, Slots)
  BY <1>1, <1>2, <1>3, <1>4, Sizes, SumAtMost
<1> QED BY <1>1, <1>2, <1>5

(* One part of the report is computed at a time, from the ring as it is then.  *)
LEMMA ReportSteps ==
    ASSUME MetricsTypes,
           \/ ReportClock \/ ReportWindow \/ ReportUptime \/ ReportClockAgain
           \/ ReportAverage \/ ReportTotal \/ ReportSent
    PROVE  /\ report' \in ReportTypes
           /\ UNCHANGED <<total, ring, logged, lat, measured, started, minute, rec, save, copy, file, up>>
           /\ ~up => ~ReportClock
           /\ \/ report'.phase = "clock" /\ report'.now = minute /\ report = NoReport /\ up
              \/ /\ report.phase = "clock" /\ report'.phase = "window"
                 /\ report'.window = Window(ring, report.now) /\ report'.window <= Requests(ring)
              \/ report.phase = "window" /\ report'.phase = "uptime" /\ report'.window = report.window
              \/ /\ report.phase = "uptime" /\ report'.phase = "again"
                 /\ report'.window = report.window /\ report'.now = minute
              \/ /\ report.phase \in {"uptime", "again"} /\ report'.phase = "average"
                 /\ report'.window = report.window /\ report'.average <= Requests(ring)
              \/ /\ report.phase = "average" /\ report'.phase = "total" /\ report'.window = report.window
                 /\ report'.average = report.average /\ report'.total = total
              \/ report' = NoReport
<1>1. /\ report \in ReportTypes /\ total \in Nat /\ minute \in Nat /\ ring \in RingTypes
      /\ started \in Nat /\ started <= minute
  BY Sizes DEF MetricsTypes
<1>2. UNCHANGED <<total, ring, logged, lat, measured, started, minute, rec, save, copy, file, up>>
  BY DEF ReportClock, ReportWindow, ReportUptime, ReportClockAgain, ReportAverage, ReportTotal, ReportSent,
         memVars, latVars
<1>3. ~up => ~ReportClock
  BY DEF ReportClock
<1>4. CASE ReportClock
  <2>1. report' = [report EXCEPT !.phase = "clock", !.now = minute] /\ report = NoReport /\ up
    BY <1>4 DEF ReportClock
  <2>2. report' \in ReportTypes /\ report'.phase = "clock" /\ report'.now = minute
    BY <1>1, <2>1 DEF ReportTypes, Phases
  <2> QED BY <1>2, <1>3, <2>1, <2>2
<1>5. CASE ReportWindow
  <2> DEFINE w == Window(ring, report.now)
  <2>1. w \in Nat /\ w <= Requests(ring)
    BY <1>1, WindowIsPart
  <2>2. report' = [report EXCEPT !.phase = "window", !.now = 0, !.window = w] /\ report.phase = "clock"
    BY <1>5 DEF ReportWindow
  <2> HIDE DEF w
  <2>3. report' \in ReportTypes /\ report'.phase = "window" /\ report'.window = w
    BY <1>1, <2>1, <2>2 DEF ReportTypes, Phases
  <2> QED BY <1>2, <1>3, <2>1, <2>2, <2>3 DEF w
<1>6. CASE ReportUptime
  <2> DEFINE d == minute - started
  <2>1. d \in Nat
    BY <1>1
  <2> HIDE DEF d
  <2>2. d \div RingSize \in Nat
    BY <2>1, RingAssumption, QuotientBounded
  <2>3. Hours \in Nat
    BY <2>2 DEF Hours, d
  <2>4. report' = [report EXCEPT !.phase = "uptime", !.hours = Hours] /\ report.phase = "window"
    BY <1>6 DEF ReportUptime
  <2>5. report' \in ReportTypes /\ report'.phase = "uptime" /\ report'.window = report.window
    BY <1>1, <2>3, <2>4 DEF ReportTypes, Phases
  <2> QED BY <1>2, <1>3, <2>4, <2>5
<1>7. CASE ReportClockAgain
  <2>1. report' = [report EXCEPT !.phase = "again", !.now = minute] /\ report.phase = "uptime"
    BY <1>7 DEF ReportClockAgain
  <2>2. /\ report' \in ReportTypes /\ report'.phase = "again" /\ report'.window = report.window
        /\ report'.now = minute
    BY <1>1, <2>1 DEF ReportTypes, Phases
  <2> QED BY <1>2, <1>3, <2>1, <2>2
<1>8. CASE ReportAverage
  <2>1. CASE report.phase = "again"
    <3> DEFINE w == Window(ring, report.now)
    <3>1. w \in Nat /\ w <= Requests(ring)
      BY <1>1, WindowIsPart
    <3>2. report' = [report EXCEPT !.phase = "average", !.now = 0, !.average = w]
      BY <1>8, <2>1 DEF ReportAverage
    <3> HIDE DEF w
    <3>3. /\ report' \in ReportTypes /\ report'.phase = "average" /\ report'.window = report.window
          /\ report'.average = w
      BY <1>1, <3>1, <3>2 DEF ReportTypes, Phases
    <3> QED BY <1>2, <1>3, <2>1, <3>1, <3>3
  <2>2. CASE report.phase # "again"
    <3> DEFINE n == Requests(ring)
               h == report.hours
               q == n \div h
    <3>1. /\ report.phase = "uptime" /\ h # 0
          /\ report' = [report EXCEPT !.phase = "average", !.hours = 0, !.average = q]
      BY <1>8, <2>2 DEF ReportAverage
    <3>2. n \in Nat /\ h \in Nat \ {0}
      BY <1>1, <3>1, RequestsIsSum DEF ReportTypes
    <3> HIDE DEF n, h
    <3>3. q \in Nat /\ q <= n
      BY <3>2, QuotientBounded
    <3> HIDE DEF q
    <3>4. /\ report' \in ReportTypes /\ report'.phase = "average" /\ report'.window = report.window
          /\ report'.average = q
      BY <1>1, <3>1, <3>3 DEF ReportTypes, Phases
    <3> QED BY <1>2, <1>3, <3>1, <3>3, <3>4 DEF n
  <2> QED BY <2>1, <2>2
<1>9. CASE ReportTotal
  <2>1. report' = [report EXCEPT !.phase = "total", !.total = total] /\ report.phase = "average"
    BY <1>9 DEF ReportTotal
  <2>2. /\ report' \in ReportTypes /\ report'.phase = "total" /\ report'.window = report.window
        /\ report'.average = report.average /\ report'.total = total
    BY <1>1, <2>1 DEF ReportTypes, Phases
  <2> QED BY <1>2, <1>3, <2>1, <2>2
<1>10. CASE ReportSent
  BY <1>2, <1>3, <1>10 DEF ReportSent, NoReport, ReportTypes, Phases
<1> QED BY <1>4, <1>5, <1>6, <1>7, <1>8, <1>9, <1>10

(* An event more in its bucket is one event more, or fewer where the bucket    *)
(* was cleared for it.                                                         *)
LEMMA BumpAddsOne ==
    ASSUME NEW r \in RingTypes, NEW i \in Slots, NEW m \in Nat
    PROVE  /\ [r EXCEPT ![i] = Bumped(@, m)] \in RingTypes
           /\ Requests([r EXCEPT ![i] = Bumped(@, m)]) <= Requests(r) + 1
<1> DEFINE s == [r EXCEPT ![i] = Bumped(@, m)]
           f == [k \in Slots |-> r[k].requests]
           g == [k \in Slots |-> s[k].requests]
<1>1. s \in RingTypes
  BY DEF RingTypes, Bumped
<1>2. f \in [Slots -> Nat] /\ Requests(r) = SumOver(f, Slots)
  BY RequestsIsSum
<1>3. /\ \A k \in Slots \ {i} : g[k] = f[k]
      /\ g[i] <= f[i] + 1
  BY DEF RingTypes, Bumped
<1>4. g \in [Slots -> Nat] /\ Requests(s) = SumOver(g, Slots)
  <2> HIDE DEF s
  <2> QED BY <1>1, RequestsIsSum
<1> HIDE DEF s, f, g
<1>5. PICK rest \in Nat : SumOver(f, Slots) = f[i] + rest /\ SumOver(g, Slots) = g[i] + rest
  BY <1>2, <1>3, <1>4, Sizes, SumChanged
<1>6. f[i] \in Nat /\ g[i] \in Nat
  BY <1>2, <1>4
<1>7. Requests(s) <= Requests(r) + 1
  BY <1>2, <1>3, <1>4, <1>5, <1>6
<1> QED BY <1>1, <1>7 DEF s

LEMMA EmptyRing ==
    /\ [i \in Slots |-> Empty] \in RingTypes /\ Requests([i \in Slots |-> Empty]) = 0
    /\ NothingLogged \in LogTypes /\ NoCopy \in Kept /\ <<>> \in SampleLists
<1> DEFINE r == [i \in Slots |-> Empty]
           f == [i \in Slots |-> r[i].requests]
<1>1. r \in RingTypes /\ \A i \in Slots : f[i] = 0
  BY DEF RingTypes, Empty
<1>2. f \in [Slots -> Nat] /\ Requests(r) = SumOver(f, Slots)
  <2> HIDE DEF r
  <2> QED BY <1>1, RequestsIsSum
<1>3. SumOver(f, Slots) = 0
  <2> HIDE DEF f
  <2>1. Slots \in SUBSET Slots
    OBVIOUS
  <2> QED BY <1>1, <1>2, <2>1, Sizes, SumOfZeros
<1>4. NothingLogged \in LogTypes /\ <<>> \in SampleLists
  BY Sizes DEF NothingLogged, LogTypes, SampleLists
<1> HIDE DEF r, f
<1>5. NoCopy \in Kept
  BY <1>1, <1>4 DEF NoCopy, Kept, r
<1> QED BY <1>1, <1>2, <1>3, <1>4, <1>5 DEF r
--------------------------------------------------------------------------------
(* The types.                                                                  *)
LEMMA SamplesTyped ==
    ASSUME NEW l \in LatTypes
    PROVE  Samples(l) \in SampleLists /\ Len(Samples(l)) = l.count
<1>1. l.count \in Nat /\ l.count <= LatCap /\ l.head \in Nat /\ l.at \in [0..(LatCap - 1) -> Nat]
  BY Sizes DEF LatTypes
<1>2. ASSUME NEW i \in 1..l.count
      PROVE  l.at[(l.head + LatCap - l.count + i - 1) % LatCap] \in Nat
  <2> DEFINE a == l.head + LatCap - l.count + i - 1
  <2>1. a \in Nat
    BY <1>1, Sizes
  <2> HIDE DEF a
  <2>2. a % LatCap \in 0..(LatCap - 1)
    BY <2>1, RingAssumption, RemainderBounded
  <2>3. l.at[a % LatCap] \in Nat
    BY <1>1, <2>2
  <2> QED BY <2>3 DEF a
<1>3. Samples(l) \in [1..l.count -> Nat]
  BY <1>2 DEF Samples
<1> QED BY <1>1, <1>3 DEF SampleLists

LEMMA LoadedTyped ==
    ASSUME NEW s \in SampleLists
    PROVE  Loaded(s) \in LatTypes
<1>1. s \in Seq(Nat) /\ Len(s) \in 0..LatCap
  BY Sizes DEF SampleLists
<1>2. Len(s) % LatCap \in 0..(LatCap - 1)
  BY <1>1, RingAssumption, RemainderBounded
<1>3. \A i \in 0..(LatCap - 1) : (IF i < Len(s) THEN s[i + 1] ELSE 0) \in Nat
  <2>1. ASSUME NEW i \in 0..(LatCap - 1), i < Len(s) PROVE s[i + 1] \in Nat
    <3>1. i + 1 \in 1..Len(s)
      BY <1>1, <2>1, Sizes
    <3> QED BY <1>1, <3>1
  <2> QED BY <2>1
<1> QED BY <1>1, <1>2, <1>3 DEF Loaded, LatTypes

LEMMA LatencyTyped ==
    ASSUME MetricsTypes, NEW r \in Recorders, RecordLatency(r)
    PROVE  lat' \in LatTypes /\ measured' \in SampleLists
<1>1. minute \in Nat /\ lat \in LatTypes /\ measured \in Seq(Nat) /\ Len(measured) \in 0..LatCap
  BY Sizes DEF MetricsTypes, SampleLists
<1>2. (lat.head + 1) % LatCap \in 0..(LatCap - 1)
  <2>1. lat.head + 1 \in Nat
    BY <1>1, Sizes DEF LatTypes
  <2> QED BY <2>1, RingAssumption, RemainderBounded
<1>3. lat' \in LatTypes
  <2>1. [lat.at EXCEPT ![lat.head] = minute] \in [0..(LatCap - 1) -> Nat]
    BY <1>1 DEF LatTypes
  <2>2. (IF lat.count < LatCap THEN lat.count + 1 ELSE lat.count) \in 0..LatCap
    BY <1>1, Sizes DEF LatTypes
  <2>3. lat' = [at    |-> [lat.at EXCEPT ![lat.head] = minute],
                head  |-> (lat.head + 1) % LatCap,
                count |-> IF lat.count < LatCap THEN lat.count + 1 ELSE lat.count]
    BY DEF RecordLatency
  <2> DEFINE a == [lat.at EXCEPT ![lat.head] = minute]
             h == (lat.head + 1) % LatCap
             c == IF lat.count < LatCap THEN lat.count + 1 ELSE lat.count
  <2>4. lat' = [at |-> a, head |-> h, count |-> c]
    BY <2>3
  <2> HIDE DEF a, h, c
  <2>5. a \in [0..(LatCap - 1) -> Nat] /\ h \in 0..(LatCap - 1) /\ c \in 0..LatCap
    BY <1>2, <2>1, <2>2 DEF a, h, c
  <2> QED BY <2>4, <2>5 DEF LatTypes
<1>4. measured' \in Seq(Nat) /\ Len(measured') <= LatCap
  <2>1. CASE Len(measured) = LatCap
    <3>1. measured # <<>>
      BY <1>1, <2>1, Sizes
    <3>2. Tail(measured) \in Seq(Nat) /\ Len(Tail(measured)) = LatCap - 1
      BY <1>1, <2>1, <3>1
    <3> QED BY <1>1, <2>1, <3>2, Sizes DEF RecordLatency
  <2>2. CASE Len(measured) # LatCap
    BY <1>1, <2>2, Sizes DEF RecordLatency
  <2> QED BY <2>1, <2>2
<1> QED BY <1>3, <1>4 DEF SampleLists

LEMMA TypesInitially == Init => MetricsTypes
<1> SUFFICES ASSUME Init PROVE MetricsTypes
  OBVIOUS
<1>1. minute \in Minutes /\ started \in Nat /\ started <= minute
  BY Sizes DEF Init, Minutes
<1>2. lat \in LatTypes
  BY LoadedTyped, EmptyRing DEF Init
<1>3. report \in ReportTypes
  BY DEF Init, NoReport, ReportTypes, Phases
<1> QED BY <1>1, <1>2, <1>3, EmptyRing DEF Init, MetricsTypes

LEMMA TypesStep == ASSUME MetricsTypes, [Next]_vars PROVE MetricsTypes'
<1> USE DEF MetricsTypes
<1>0. minute \in Nat
  BY Sizes
<1>1. CASE UNCHANGED vars
  BY <1>1 DEF vars, memVars, latVars, Minutes
<1>2. CASE Load
  <2>1. CASE file \in {NoFile, Invalid}
    BY <1>0, <1>2, <2>1, EmptyRing, LoadedTyped DEF Load, Minutes
  <2>2. CASE file \notin {NoFile, Invalid}
    <3>1. file \in Kept
      BY <2>2
    <3>2. /\ total' = file.total /\ ring' = file.ring /\ logged' = file.logged
          /\ lat' = Loaded(file.samples) /\ measured' = file.samples
      BY <1>2, <2>2 DEF Load
    <3>3. total' \in Nat /\ ring' \in RingTypes /\ logged' \in LogTypes /\ measured' \in SampleLists
      BY <3>1, <3>2 DEF Kept
    <3>4. lat' \in LatTypes
      BY <3>2, <3>3, LoadedTyped
    <3>5. UNCHANGED <<minute, rec, save, copy, report, file>> /\ started' = minute /\ up' = TRUE
      BY <1>2 DEF Load
    <3>6. started' <= minute'
      BY <1>0, <3>5
    <3> QED BY <1>0, <3>3, <3>4, <3>5, <3>6
  <2> QED BY <2>1, <2>2
<1>3. ASSUME NEW r \in Recorders, RecordTotal(r) PROVE MetricsTypes'
  BY <1>0, <1>3 DEF RecordTotal, latVars
<1>4. ASSUME NEW r \in Recorders, RecordBucket(r) PROVE MetricsTypes'
  <2>1. logged' \in LogTypes
    <3>1. logged' = [logged EXCEPT ![rec[r]] = logged[rec[r]] + 1]
      BY <1>4 DEF RecordBucket
    <3>2. \A m \in Minutes : logged[m] + 1 \in Nat
      BY DEF LogTypes
    <3> QED BY <3>1, <3>2 DEF LogTypes
  <2>2. ring' \in RingTypes
    <3>1. rec[r] \in Nat /\ ring' = [ring EXCEPT ![rec[r] % RingSize] = Bumped(@, rec[r])]
      BY <1>4 DEF RecordBucket
    <3>2. rec[r] % RingSize \in Slots
      BY <3>1, RingAssumption, RemainderBounded DEF Slots
    <3> QED BY <3>1, <3>2, BumpAddsOne
  <2> QED BY <1>0, <1>4, <2>1, <2>2 DEF RecordBucket, latVars
<1>5. ASSUME NEW r \in Recorders, RecordLatency(r) PROVE MetricsTypes'
  BY <1>0, <1>5, LatencyTyped DEF RecordLatency
<1>6. CASE Tick
  BY <1>0, <1>6, Sizes DEF Tick, memVars, latVars, Minutes
<1>7. CASE SaveFirst \/ SaveSecond
  <2>1. copy' \in Kept
    <3>1. ASSUME NEW part \in {"ring", "totals"} PROVE Read(part) \in Kept
      BY SamplesTyped DEF Read, Kept
    <3>2. SaveOrder[1] \in {"ring", "totals"} /\ SaveOrder[2] \in {"ring", "totals"}
      BY DEF SaveOrder
    <3> QED BY <1>7, <3>1, <3>2 DEF SaveFirst, SaveSecond
  <2> QED BY <1>0, <1>7, <2>1 DEF SaveFirst, SaveSecond, memVars, latVars
<1>8. CASE SaveFails \/ SaveRemove \/ SaveRename
  BY <1>0, <1>8, EmptyRing DEF SaveFails, SaveRemove, SaveRename, memVars, latVars
<1>9. CASE ReportClock \/ ReportWindow \/ ReportUptime \/ ReportClockAgain \/ ReportAverage
          \/ ReportTotal \/ ReportSent
  BY <1>9, ReportSteps
<1>10. CASE Return
  BY <1>0, <1>10 DEF Return, memVars, latVars
<1>11. CASE Crash
  <2>1. lat' \in LatTypes /\ report' = NoReport
    BY <1>11, EmptyRing, LoadedTyped DEF Crash
  <2>2. started' = minute /\ minute' = minute /\ minute <= minute
    BY <1>0, <1>11 DEF Crash
  <2>3. NoReport \in ReportTypes
    BY DEF NoReport, ReportTypes, Phases
  <2>4. total' \in Nat /\ ring' \in RingTypes /\ logged' \in LogTypes /\ measured' \in SampleLists
    BY <1>11, EmptyRing DEF Crash
  <2>5. rec' \in [Recorders -> Nat] /\ save' = "idle" /\ copy' \in Kept /\ file' = file /\ up' = FALSE
    BY <1>11, EmptyRing DEF Crash
  <2> QED BY <1>0, <2>1, <2>2, <2>3, <2>4, <2>5
<1> QED BY <1>1, <1>2, <1>3, <1>4, <1>5, <1>6, <1>7, <1>8, <1>9, <1>10, <1>11 DEF Next
--------------------------------------------------------------------------------
(* What is counted.                                                            *)
LEMMA RecordingFinite ==
    IsFiniteSet(Recording) /\ Cardinality(Recording) \in Nat /\ (Recording = {} => Cardinality(Recording) = 0)
<1>1. Recording \in SUBSET Recorders
  BY DEF Recording
<1> QED BY <1>1, Sizes, FS_Subset, FS_CardinalityType, FS_EmptySet

LEMMA CountsInitially == Init => CountsInv
<1> SUFFICES ASSUME Init PROVE CountsInv
  OBVIOUS
<1>1. MetricsTypes
  BY TypesInitially
<1>2. Recording = {} /\ Requests(ring) = 0 /\ total = 0
  BY EmptyRing DEF Recording, Init
<1>3. Requests(ring) + Cardinality(Recording) <= total
  BY <1>2, RecordingFinite
<1>4. save = "idle" /\ report.phase = "none" /\ report = NoReport
  BY DEF Init, NoReport
<1>5. CountsSoFar
  BY <1>3, <1>4 DEF CountsSoFar
<1>6. CountsConsistent
  BY <1>4 DEF CountsConsistent, FileConsistent, ReportConsistent, Init
<1> QED BY <1>1, <1>5, <1>6 DEF CountsInv

LEMMA CountsStep == CountsInv /\ [Next]_vars => CountsInv'
<1> SUFFICES ASSUME CountsInv, [Next]_vars PROVE CountsInv'
  OBVIOUS
<1> DEFINE c == Cardinality(Recording)
<1>1. MetricsTypes /\ MetricsTypes'
  BY TypesStep DEF CountsInv
<1>2. /\ c \in Nat /\ c' \in Nat /\ total \in Nat /\ total' \in Nat
      /\ Requests(ring) \in Nat /\ Requests(ring)' \in Nat
  <2>1. Requests(ring') \in Nat
    BY <1>1, RequestsIsSum DEF MetricsTypes
  <2>2. Cardinality(Recording') \in Nat
    <3>1. Recording' \in SUBSET Recorders
      BY DEF Recording
    <3> QED BY <3>1, Sizes, FS_Subset, FS_CardinalityType
  <2> QED BY <1>1, <2>1, <2>2, RequestsIsSum, RecordingFinite DEF MetricsTypes, Requests
<1>3. /\ Requests(copy.ring) \in Nat
      /\ file \notin {NoFile, Invalid} => Requests(file.ring) \in Nat
      /\ report.window \in Nat /\ report.average \in Nat /\ report.total \in Nat
  BY <1>1, RequestsIsSum DEF MetricsTypes, Kept, ReportTypes
<1>4. Requests(ring) + c <= total /\ CountsSoFar /\ FileConsistent /\ ReportConsistent
  BY DEF CountsInv, CountsSoFar, CountsConsistent
<1> HIDE DEF c
<1> SUFFICES CountsSoFar' /\ FileConsistent' /\ ReportConsistent'
  BY <1>1 DEF CountsInv, CountsConsistent
<1>5. ASSUME UNCHANGED <<total, ring, rec>>
      PROVE  Requests(ring)' + c' <= total'
  BY <1>4, <1>5 DEF c, Recording, Requests
<1> USE DEF CountsSoFar, FileConsistent, ReportConsistent
<1>6. ASSUME total <= total', Requests(ring)' + c' <= total', up' = up,
             UNCHANGED <<save, copy, report, file>>
      PROVE  CountsSoFar' /\ FileConsistent' /\ ReportConsistent'
  BY <1>2, <1>3, <1>4, <1>6 DEF c, Requests
<1>7. CASE UNCHANGED vars
  BY <1>2, <1>5, <1>6, <1>7 DEF vars, memVars
<1>8. CASE Load
  <2>1. Recording = {} /\ Recording' = {} /\ c' = 0 /\ c = 0 /\ save = "idle" /\ report = NoReport
    <3>1. Recording = {} /\ rec' = rec /\ save = "idle" /\ ~up
      BY <1>8 DEF Load, Quiet, Recording
    <3>2. Recording' = {}
      BY <3>1 DEF Recording
    <3>3. report = NoReport
      BY <3>1, <1>4
    <3>4. Cardinality(Recording) = 0 /\ Cardinality(Recording') = 0
      BY <3>1, <3>2, FS_EmptySet
    <3>5. c = 0 /\ c' = 0
      BY <3>4 DEF c
    <3> QED BY <3>1, <3>2, <3>3, <3>5
  <2>2. Requests(ring)' <= total'
    <3>1. CASE file = NoFile
      <4>1. ring' = ring /\ total' = total
        BY <1>8, <3>1, RingAssumption DEF Load
      <4>2. Requests(ring)' = Requests(ring)
        BY <4>1 DEF Requests
      <4>3. Requests(ring) <= total
        BY <1>2, <1>4, <2>1
      <4> QED BY <4>1, <4>2, <4>3
    <3>2. CASE file = Invalid /\ file # NoFile
      <4>1. ring' = [i \in Slots |-> Empty]
        BY <1>8, <3>2 DEF Load
      <4>2. Requests(ring') = 0
        BY <4>1, EmptyRing
      <4> QED BY <1>2, <4>2 DEF Requests
    <3>3. CASE file \notin {NoFile, Invalid}
      BY <1>4, <1>8, <3>3 DEF Load, Requests
    <3> QED BY <3>1, <3>2, <3>3
  <2>3. UNCHANGED <<save, report, copy, file>> /\ up' = TRUE
    BY <1>8 DEF Load
  <2>4. report'.phase = "none" /\ save' = "idle"
    BY <2>1, <2>3 DEF NoReport
  <2>5. Requests(ring)' + c' <= total'
    BY <1>2, <2>1, <2>2
  <2> QED BY <1>4, <2>3, <2>4, <2>5 DEF c, Requests
<1>9. ASSUME NEW r \in Recorders, RecordTotal(r) PROVE CountsSoFar' /\ FileConsistent' /\ ReportConsistent'
  <2>1. c' <= c + 1
    <3>1. Recording' \in SUBSET (Recording \cup {r})
      BY <1>9, <1>1 DEF RecordTotal, Recording, MetricsTypes
    <3>2. IsFiniteSet(Recording \cup {r}) /\ Cardinality(Recording \cup {r}) <= c + 1
      BY <1>2, RecordingFinite, FS_AddElement DEF c
    <3>3. Cardinality(Recording') <= Cardinality(Recording \cup {r}) /\ Cardinality(Recording \cup {r}) \in Nat
      BY <3>1, <3>2, FS_Subset, FS_CardinalityType
    <3> QED BY <1>2, <3>2, <3>3 DEF c
  <2>2. total' = total + 1 /\ Requests(ring)' = Requests(ring) /\ up' = up /\ UNCHANGED <<save, copy, report, file>>
    BY <1>9 DEF RecordTotal, Requests
  <2> QED BY <1>2, <1>4, <1>6, <2>1, <2>2
<1>10. ASSUME NEW r \in Recorders, RecordBucket(r) PROVE CountsSoFar' /\ FileConsistent' /\ ReportConsistent'
  <2>1. c' = c - 1
    <3>1. Recording' = Recording \ {r} /\ r \in Recording
      BY <1>1, <1>10 DEF RecordBucket, Recording, MetricsTypes
    <3> QED BY <3>1, RecordingFinite, FS_RemoveElement DEF c
  <2>2. Requests(ring)' <= Requests(ring) + 1
    <3>1. ring' = [ring EXCEPT ![rec[r] % RingSize] = Bumped(@, rec[r])] /\ rec[r] \in Nat
      BY <1>1, <1>10 DEF RecordBucket, MetricsTypes
    <3>2. rec[r] % RingSize \in Slots
      BY <3>1, RingAssumption, RemainderBounded DEF Slots
    <3>3. Requests(ring') <= Requests(ring) + 1
      BY <1>1, <3>1, <3>2, BumpAddsOne DEF MetricsTypes
    <3> QED BY <3>3 DEF Requests
  <2>3. total' = total /\ up' = up /\ UNCHANGED <<save, copy, report, file>>
    BY <1>10 DEF RecordBucket
  <2> QED BY <1>2, <1>4, <1>6, <2>1, <2>2, <2>3
<1>11. ASSUME NEW r \in Recorders, RecordLatency(r) PROVE CountsSoFar' /\ FileConsistent' /\ ReportConsistent'
  BY <1>2, <1>5, <1>6, <1>11 DEF RecordLatency
<1>12. CASE Tick
  BY <1>2, <1>5, <1>6, <1>12 DEF Tick, memVars
<1>13. CASE SaveFirst
  <2>1. copy' = [copy EXCEPT !.ring = ring, !.samples = Samples(lat), !.logged = logged]
    BY <1>13 DEF SaveFirst, SaveOrder, Read
  <2>2. copy'.ring = ring
    BY <1>1, <2>1 DEF MetricsTypes, Kept
  <2>3. /\ save' = "half" /\ UNCHANGED <<total, ring, rec, up, report, file>>
    BY <1>13 DEF SaveFirst, memVars
  <2>4. Requests(copy'.ring) <= total' /\ Requests(ring)' + c' <= total'
    BY <1>2, <1>4, <1>5, <2>2, <2>3
  <2> QED BY <1>4, <2>3, <2>4 DEF c, Requests
<1>14. CASE SaveSecond
  <2>1. copy' = [copy EXCEPT !.total = total]
    BY <1>14 DEF SaveSecond, SaveOrder, Read
  <2>2. copy'.ring = copy.ring /\ copy'.total = total
    BY <1>1, <2>1 DEF MetricsTypes, Kept
  <2>3. /\ save = "half" /\ save' = "copied" /\ UNCHANGED <<total, ring, rec, up, report, file>>
    BY <1>14 DEF SaveSecond, memVars
  <2>4. Requests(copy'.ring) <= copy'.total /\ Requests(ring)' + c' <= total'
    BY <1>2, <1>4, <1>5, <2>2, <2>3
  <2> QED BY <1>4, <2>3, <2>4 DEF c, Requests
<1>15. CASE SaveFails \/ SaveRemove
  <2>1. /\ UNCHANGED <<total, ring, rec, up, report>>
        /\ save' = "idle" \/ (save = "copied" /\ save' = "removed" /\ copy' = copy)
        /\ file' = file \/ file' = NoFile
    BY <1>15 DEF SaveFails, SaveRemove, memVars
  <2> QED BY <1>4, <1>5, <2>1 DEF c, Requests
<1>16. CASE SaveRename
  <2>1. /\ UNCHANGED <<total, ring, rec, up, report>>
        /\ save = "removed" /\ save' = "idle"
        /\ file' = file \/ file' = copy
    BY <1>16 DEF SaveRename, memVars
  <2> QED BY <1>4, <1>5, <2>1 DEF c, Requests
<1>17. CASE ReportClock \/ ReportWindow \/ ReportUptime \/ ReportClockAgain \/ ReportAverage
           \/ ReportTotal \/ ReportSent
  <2>1. /\ UNCHANGED <<total, ring, rec, save, copy, file, up>>
        /\ \/ report'.phase = "clock" /\ report = NoReport /\ up
           \/ report.phase = "clock" /\ report'.phase = "window" /\ report'.window <= Requests(ring)
           \/ report.phase = "window" /\ report'.phase = "uptime" /\ report'.window = report.window
           \/ report.phase = "uptime" /\ report'.phase = "again" /\ report'.window = report.window
           \/ /\ report.phase \in {"uptime", "again"} /\ report'.phase = "average"
              /\ report'.window = report.window /\ report'.average <= Requests(ring)
           \/ /\ report.phase = "average" /\ report'.phase = "total" /\ report'.window = report.window
              /\ report'.average = report.average /\ report'.total = total
           \/ report' = NoReport
    BY <1>1, <1>17, ReportSteps
  <2>2. NoReport.phase = "none"
    BY DEF NoReport
  <2>3. Requests(ring) <= total /\ report'.window \in Nat /\ report'.average \in Nat
    <3>1. report' \in ReportTypes
      BY <1>1 DEF MetricsTypes
    <3>2. Requests(ring) <= total
      BY <1>2, <1>4
    <3> QED BY <3>1, <3>2 DEF ReportTypes
  <2>4. /\ report'.phase \in {"window", "uptime", "again", "average"} => report'.window <= total
        /\ report'.phase = "average" => report'.average <= total
        /\ report'.phase = "total" => report'.window <= report'.total /\ report'.average <= report'.total
    BY <1>2, <1>4, <2>1, <2>2, <2>3
  <2>5. ~up => report' = NoReport
    BY <1>4, <2>1, <2>2
  <2> QED BY <1>4, <1>5, <2>1, <2>4, <2>5 DEF c, Requests
<1>18. CASE Return
  <2>1. UNCHANGED <<total, ring, rec, save, copy, file, report>> /\ report = NoReport
    BY <1>18 DEF Return, memVars
  <2> QED BY <1>4, <1>5, <2>1 DEF c, Requests
<1>19. CASE Crash
  <2>1. /\ Recording' = {} /\ ring' = [i \in Slots |-> Empty] /\ total' = 0 /\ save' = "idle"
        /\ report' = NoReport /\ file' = file
    BY <1>19 DEF Crash, Recording
  <2>2. Requests(ring') = 0 /\ c' = 0 /\ report'.phase = "none"
    BY <2>1, EmptyRing, FS_EmptySet DEF c, NoReport
  <2> QED BY <1>4, <2>1, <2>2 DEF c, Requests
<1> QED BY <1>7, <1>8, <1>9, <1>10, <1>11, <1>12, <1>13, <1>14, <1>15, <1>16, <1>17, <1>18, <1>19 DEF Next

(* What an outsider sees, in the metrics file or in /status, has no part that  *)
(* exceeds its total, whatever is recorded meanwhile.                          *)
THEOREM CountsNeverExceed == Spec => []CountsConsistent
<1>1. CountsInv => CountsConsistent
  BY DEF CountsInv
<1> QED BY <1>1, CountsInitially, CountsStep, PTL DEF Spec
--------------------------------------------------------------------------------
(* The latencies.  The sample with k newer ones is k + 1 slots before the head *)
(* of the ring, and one more after the head has moved on.                      *)
LEMMA NewestSlot ==
    ASSUME NEW n \in Nat \ {0}, NEW h \in 0..(n - 1)
    PROVE  (((h + 1) % n) + n - 1) % n = h
<1>1. (h + 1) % n = IF h + 1 < n THEN h + 1 ELSE 0
  BY Wrap
<1>2. CASE h + 1 < n
  <2>1. ((h + 1) % n) + n - 1 = h + n
    BY <1>1, <1>2
  <2>2. (h + n) % n = h
    BY Wrap
  <2> QED BY <2>1, <2>2
<1>3. CASE ~(h + 1 < n)
  <2>1. ((h + 1) % n) + n - 1 = h
    BY <1>1, <1>3
  <2>2. h % n = h
    BY Wrap
  <2> QED BY <2>1, <2>2
<1> QED BY <1>2, <1>3

LEMMA OlderSlot ==
    ASSUME NEW n \in Nat \ {0}, NEW h \in 0..(n - 1), NEW k \in Nat, k < n - 1
    PROVE  /\ (((h + 1) % n) + n - 1 - (k + 1)) % n = (h + n - 1 - k) % n
           /\ (h + n - 1 - k) % n # h
           /\ (h + n - 1 - k) % n \in 0..(n - 1)
<1> DEFINE a == h + n - 1 - k
           b == ((h + 1) % n) + n - 1 - (k + 1)
<1>1. (h + 1) % n = IF h + 1 < n THEN h + 1 ELSE 0
  BY Wrap
<1>2. a \in Nat /\ a < n + n /\ a # h /\ a # h + n /\ b \in Nat /\ (b = a \/ b + n = a)
  BY <1>1
<1> HIDE DEF a, b
<1>3. a % n = IF a < n THEN a ELSE a - n
  BY <1>2, Wrap
<1>4. b % n = IF b < n THEN b ELSE b - n
  <2>1. b < n + n
    BY <1>2
  <2> QED BY <1>2, <2>1, Wrap
<1>5. a % n # h /\ b % n = a % n /\ a % n \in 0..(n - 1)
  BY <1>2, <1>3, <1>4
<1> QED BY <1>5 DEF a, b

LEMMA SampleAt ==
    ASSUME NEW l \in LatTypes, NEW i \in 1..l.count
    PROVE  Samples(l)[i] = l.at[(l.head + LatCap - 1 - (l.count - i)) % LatCap]
<1>1. l.head + LatCap - l.count + i - 1 = l.head + LatCap - 1 - (l.count - i)
  BY Sizes DEF LatTypes
<1>2. Samples(l)[i] = l.at[(l.head + LatCap - l.count + i - 1) % LatCap]
  BY DEF Samples
<1> QED BY <1>1, <1>2

LEMMA LoadedSamples ==
    ASSUME NEW s \in SampleLists
    PROVE  Samples(Loaded(s)) = s
<1> DEFINE l == Loaded(s)
           n == Len(s)
<1>1. l \in LatTypes
  BY LoadedTyped
<1>2. s \in Seq(Nat) /\ n \in Nat /\ n <= LatCap
  BY DEF SampleLists
<1>3. /\ l.count = n /\ l.head = n % LatCap
      /\ l.at = [i \in 0..(LatCap - 1) |-> IF i < n THEN s[i + 1] ELSE 0]
  BY DEF Loaded
<1>4. Samples(l) \in Seq(Nat) /\ Len(Samples(l)) = n
  BY <1>1, <1>3, SamplesTyped DEF SampleLists
<1> HIDE DEF l, n
<1>5. ASSUME NEW i \in 1..n PROVE Samples(l)[i] = s[i]
  <2>1. n % LatCap = IF n < LatCap THEN n ELSE 0
    BY <1>2, Sizes, RingAssumption, Wrap
  <2> DEFINE a == (n % LatCap) + LatCap - 1 - (n - i)
  <2>2. a \in Nat /\ (a = i - 1 \/ a = i - 1 + LatCap) /\ i - 1 < LatCap
    BY <1>2, <2>1, Sizes
  <2> HIDE DEF a
  <2>3. a % LatCap = i - 1
    BY <1>2, <2>2, RingAssumption, Sizes, Wrap
  <2>4. Samples(l)[i] = l.at[a % LatCap]
    BY <1>1, <1>3, SampleAt DEF a
  <2>5. i - 1 \in 0..(LatCap - 1) /\ i - 1 < n /\ (i - 1) + 1 = i
    BY <1>2, <2>2, Sizes
  <2> QED BY <1>3, <2>3, <2>4, <2>5
<1>6. Samples(l) = s
  BY <1>2, <1>4, <1>5, SeqEqual DEF n
<1> QED BY <1>6 DEF l

LEMMA LatencyKept ==
    ASSUME MetricsTypes, MetricsTypes', LatenciesKept, NEW r \in Recorders, RecordLatency(r)
    PROVE  LatenciesKept'
<1> DEFINE n == lat.count
           h == lat.head
           s == measured
           t == measured'
           m == lat'.count
<1>1. lat \in LatTypes /\ lat' \in LatTypes /\ s \in Seq(Nat) /\ t \in Seq(Nat) /\ minute \in Nat
  BY Sizes DEF MetricsTypes, SampleLists
<1>2. s = Samples(lat) /\ Len(s) = n
  BY <1>1, SamplesTyped DEF LatenciesKept
<1>3. n \in 0..LatCap /\ h \in 0..(LatCap - 1)
  BY <1>1 DEF LatTypes
<1>4. /\ lat'.at = [lat.at EXCEPT ![h] = minute]
      /\ lat'.head = (h + 1) % LatCap
      /\ m = IF n < LatCap THEN n + 1 ELSE n
      /\ t = (IF n = LatCap THEN Tail(s) ELSE s) \o <<minute>>
  BY <1>2 DEF RecordLatency
<1>5. DOMAIN lat.at = 0..(LatCap - 1)
  BY <1>1 DEF LatTypes
<1>6. Samples(lat') \in Seq(Nat) /\ Len(Samples(lat')) = m
  BY <1>1, SamplesTyped DEF SampleLists
<1>7. Len(t) = m /\ t[m] = minute /\ \A i \in 1..(m - 1) : t[i] = s[IF n = LatCap THEN i + 1 ELSE i]
  <2>1. CASE n = LatCap
    <3> DEFINE u == Tail(s)
    <3>1. u \in Seq(Nat) /\ Len(u) = n - 1 /\ \A i \in 1..(n - 1) : u[i] = s[i + 1]
      BY <1>1, <1>2, <2>1, Sizes
    <3>2. t = u \o <<minute>> /\ m = n
      BY <1>4, <2>1, Sizes
    <3> HIDE DEF u, s, t, m, n
    <3>3. n \in Nat /\ n > 0
      BY <2>1, Sizes
    <3>4. Len(t) = n /\ t[n] = minute /\ \A i \in 1..(n - 1) : t[i] = u[i]
      <4>1. u \in Seq(Nat) /\ minute \in Nat /\ n \in Nat /\ n = Len(u) + 1
        BY <1>1, <3>1, <3>3
      <4>2. /\ Len(u \o <<minute>>) = n /\ (u \o <<minute>>)[n] = minute
            /\ \A i \in 1..(n - 1) : (u \o <<minute>>)[i] = u[i]
        BY <4>1, OneMoreBehind
      <4> QED BY <3>2, <4>2
    <3> QED BY <2>1, <3>1, <3>2, <3>4
  <2>2. CASE n # LatCap
    <3>1. t = s \o <<minute>> /\ m = n + 1 /\ n \in Nat
      BY <1>3, <1>4, <2>2, Sizes
    <3>2. s \in Seq(Nat) /\ Len(s) = n /\ minute \in Nat
      BY <1>1, <1>2
    <3> HIDE DEF s, t, m, n
    <3>3. Len(t) = n + 1 /\ t[n + 1] = minute /\ \A i \in 1..n : t[i] = s[i]
      <4>1. n + 1 \in Nat /\ n + 1 = Len(s) + 1 /\ (n + 1) - 1 = n
        BY <3>1, <3>2
      <4>2. /\ Len(s \o <<minute>>) = n + 1 /\ (s \o <<minute>>)[n + 1] = minute
            /\ \A i \in 1..((n + 1) - 1) : (s \o <<minute>>)[i] = s[i]
        BY <3>2, <4>1, OneMoreBehind
      <4> QED BY <3>1, <4>1, <4>2
    <3> QED BY <2>2, <3>1, <3>3
  <2> QED BY <2>1, <2>2
<1> HIDE DEF n, h, s, t, m
<1>8. m \in Nat /\ m <= LatCap /\ m >= 1 /\ LatCap \in Nat \ {0}
  BY <1>3, <1>4, Sizes
<1>9. ASSUME NEW i \in 1..m PROVE Samples(lat')[i] = t[i]
  <2>1. Samples(lat')[i] = lat'.at[(((h + 1) % LatCap) + LatCap - 1 - (m - i)) % LatCap]
    BY <1>1, <1>4, <1>9, SampleAt DEF m
  <2>2. CASE i = m
    <3>1. (h + 1) % LatCap \in 0..(LatCap - 1)
      BY <1>3, <1>8, RemainderBounded
    <3>2. ((h + 1) % LatCap) + LatCap - 1 - (m - i) = ((h + 1) % LatCap) + LatCap - 1
      BY <1>8, <2>2, <3>1
    <3>3. Samples(lat')[i] = lat'.at[h]
      BY <1>3, <1>8, <2>1, <3>2, NewestSlot
    <3>4. lat'.at[h] = minute
      BY <1>3, <1>4, <1>5
    <3> QED BY <1>7, <2>2, <3>3, <3>4
  <2>3. CASE i # m
    <3> DEFINE k == m - i - 1
               j == IF n = LatCap THEN i + 1 ELSE i
               a == (h + LatCap - 1 - k) % LatCap
    <3>1. k \in Nat /\ k < LatCap - 1 /\ k + 1 = m - i /\ j \in 1..n /\ n - j = k
      BY <1>3, <1>4, <1>8, <2>3
    <3>2. t[i] = s[j]
      BY <1>7, <1>8, <2>3
    <3> HIDE DEF k, j
    <3>3. a # h /\ a \in 0..(LatCap - 1) /\ (((h + 1) % LatCap) + LatCap - 1 - (k + 1)) % LatCap = a
      BY <1>3, <1>8, <3>1, OlderSlot
    <3>4. Samples(lat)[j] = lat.at[(h + LatCap - 1 - (n - j)) % LatCap]
      BY <1>1, <3>1, SampleAt DEF n, h
    <3>5. Samples(lat)[j] = lat.at[a]
      BY <3>1, <3>4
    <3> HIDE DEF a
    <3>6. lat'.at[a] = lat.at[a]
      BY <1>4, <1>5, <3>3
    <3>7. Samples(lat')[i] = lat'.at[a]
      BY <2>1, <3>1, <3>3
    <3> QED BY <1>2, <3>2, <3>5, <3>6, <3>7
  <2> QED BY <2>2, <2>3
<1>10. Samples(lat') = t
  <2>1. Len(t) = Len(Samples(lat')) /\ \A i \in 1..Len(t) : Samples(lat')[i] = t[i]
    BY <1>6, <1>7, <1>9
  <2> QED BY <1>1, <1>6, <2>1, SeqEqual
<1> QED BY <1>10 DEF LatenciesKept, t, Samples

LEMMA LatenciesStep == MetricsTypes /\ LatenciesKept /\ [Next]_vars => LatenciesKept'
<1> SUFFICES ASSUME MetricsTypes, LatenciesKept, [Next]_vars PROVE LatenciesKept'
  OBVIOUS
<1>1. MetricsTypes'
  BY TypesStep
<1>2. ASSUME UNCHANGED <<lat, measured>> PROVE LatenciesKept'
  BY <1>2 DEF LatenciesKept, Samples
<1>3. ASSUME NEW s \in SampleLists, lat' = Loaded(s), measured' = s PROVE LatenciesKept'
  <2>1. Samples(lat') = measured'
    BY <1>3, LoadedSamples
  <2> QED BY <2>1 DEF LatenciesKept, Samples
<1>4. CASE Load
  <2>1. CASE file = NoFile
    <3>1. UNCHANGED <<lat, measured>>
      BY <1>4, <2>1, RingAssumption DEF Load
    <3> QED BY <1>2, <3>1
  <2>2. CASE file = Invalid
    <3>1. lat' = Loaded(<<>>) /\ measured' = <<>>
      BY <1>4, <2>2, RingAssumption DEF Load
    <3> QED BY <1>3, <3>1, EmptyRing
  <2>3. CASE file \notin {NoFile, Invalid}
    <3>1. lat' = Loaded(file.samples) /\ measured' = file.samples /\ file.samples \in SampleLists
      BY <1>4, <2>3 DEF Load, MetricsTypes, Kept
    <3> QED BY <1>3, <3>1
  <2> QED BY <2>1, <2>2, <2>3
<1>5. CASE Crash
  <2>1. lat' = Loaded(<<>>) /\ measured' = <<>>
    BY <1>5 DEF Crash
  <2> QED BY <1>3, <2>1, EmptyRing
<1>6. ASSUME NEW r \in Recorders, RecordTotal(r) \/ RecordBucket(r) \/ RecordLatency(r) PROVE LatenciesKept'
  <2>1. CASE RecordTotal(r) \/ RecordBucket(r)
    BY <1>2, <2>1 DEF RecordTotal, RecordBucket, latVars
  <2>2. CASE RecordLatency(r)
    BY <1>1, <2>2, LatencyKept
  <2> QED BY <1>6, <2>1, <2>2
<1>7. CASE UNCHANGED vars \/ Tick \/ Return
  BY <1>2, <1>7 DEF vars, Tick, Return, memVars, latVars
<1>8. CASE SaveFirst \/ SaveSecond \/ SaveFails \/ SaveRemove \/ SaveRename
  BY <1>2, <1>8 DEF SaveFirst, SaveSecond, SaveFails, SaveRemove, SaveRename, memVars, latVars
<1>9. CASE ReportClock \/ ReportWindow \/ ReportUptime \/ ReportClockAgain \/ ReportAverage
          \/ ReportTotal \/ ReportSent
  BY <1>2, <1>9 DEF ReportClock, ReportWindow, ReportUptime, ReportClockAgain, ReportAverage, ReportTotal,
                    ReportSent, memVars, latVars
<1> QED BY <1>4, <1>5, <1>6, <1>7, <1>8, <1>9 DEF Next

(* The ring of latencies holds the last ones that were measured, in their      *)
(* order, whatever was overwritten, saved and loaded.                          *)
THEOREM LatenciesInOrder == Spec => []LatenciesKept
<1>1. Init => LatenciesKept
  <2>1. Init => Samples(lat) = <<>> /\ measured = <<>>
    BY LoadedSamples, EmptyRing DEF Init
  <2> QED BY <2>1 DEF LatenciesKept
<1> QED BY <1>1, TypesInitially, TypesStep, LatenciesStep, PTL DEF Spec
--------------------------------------------------------------------------------
(* The window.                                                                 *)
InLastHour(m, now) == m \in Minutes /\ m <= now /\ now - m < RingSize

(* A bucket is that of its slot, holds what was recorded in its minute, and    *)
(* none is of a minute to come; the bucket of a minute of the last hour is     *)
(* missing only if nothing was recorded in it.                                 *)
BucketsOf(r, log, now) ==
    \A i \in Slots : r[i].epoch = 0 \/ (/\ r[i].epoch \in Minutes /\ r[i].epoch <= now
                                        /\ r[i].epoch % RingSize = i /\ r[i].requests = log[r[i].epoch])
MinutesOf(r, log, now) ==
    \A m \in Minutes :
        /\ InLastHour(m, now) => log[m] = (IF r[m % RingSize].epoch = m THEN r[m % RingSize].requests ELSE 0)
        /\ m > now => log[m] = 0
Exact(r, log, now) == BucketsOf(r, log, now) /\ MinutesOf(r, log, now)

ClockRead == report.phase = "clock" => report.now \in Minutes /\ report.now <= minute

(* So are the rings in memory, in a copy and in the file, because a record is  *)
(* bucketed less than an hour after its minute.  The clock that a report has   *)
(* read may be any time behind.                                                *)
WindowInv ==
    /\ Exact(ring, logged, minute)
    /\ Exact(copy.ring, copy.logged, minute)
    /\ file \notin {NoFile, Invalid} => Exact(file.ring, file.logged, minute)
    /\ \A r \in Recorders : rec[r] # 0 => InLastHour(rec[r], minute)
    /\ ClockRead

LEMMA SameSlot ==
    ASSUME NEW now \in Nat, NEW k, NEW m, InLastHour(k, now), InLastHour(m, now), k % RingSize = m % RingSize
    PROVE  k = m
<1>1. k \in Nat /\ m \in Nat /\ RingSize \in Nat \ {0}
  BY Sizes, RingAssumption DEF InLastHour
<1>2. m < k + RingSize /\ k < m + RingSize
  BY <1>1 DEF InLastHour
<1>3. ~(k < m) /\ ~(m < k)
  BY <1>1, <1>2, RemaindersDiffer
<1> QED BY <1>1, <1>3

LEMMA MinutesSlot ==
    ASSUME NEW m \in Minutes
    PROVE  m % RingSize \in Slots
BY Sizes, RingAssumption, RemainderBounded DEF Slots

(* What was recorded in some minutes is a sum over all.                        *)
LEMMA LoggedIsSum ==
    ASSUME MetricsTypes, NEW from, NEW to,
           NEW g, g = [m \in Minutes |-> IF from < m /\ m <= to THEN logged[m] ELSE 0]
    PROVE  g \in [Minutes -> Nat] /\ Logged(from, to) = SumOver(g, Minutes)
<1>1. g \in [Minutes -> Nat] /\ DOMAIN g = Minutes
  BY DEF MetricsTypes, LogTypes
<1>2. SumFunction(g) = SumOver(g, Minutes)
  BY <1>1, SumOfFunction
<1> QED BY <1>1, <1>2 DEF Logged

LEMMA MinutesFinite == IsFiniteSet(Minutes) /\ Minutes \in SUBSET Minutes /\ \A m \in Minutes : m \in Nat /\ m >= RingSize /\ m > 0
<1>1. RingSize \in Nat /\ RingSize > 0 /\ RingSize + MaxTicks \in Nat
  BY Sizes
<1>2. IsFiniteSet(RingSize..(RingSize + MaxTicks))
  BY <1>1, FS_Interval
<1>3. \A m \in Minutes : m \in Nat /\ m >= RingSize /\ m > 0
  BY <1>1 DEF Minutes
<1> QED BY <1>2, <1>3 DEF Minutes

(* What the buckets have of the minutes that are in the last hour for a clock. *)
Held(now) == [m \in Minutes |-> IF InLastHour(m, now) /\ ring[m % RingSize].epoch = m
                                THEN ring[m % RingSize].requests ELSE 0]

(* The sum over the slots and the sum over the minutes have the same terms.    *)
LEMMA WindowIsHeld ==
    ASSUME MetricsTypes, Exact(ring, logged, minute), NEW now \in Minutes, now <= minute
    PROVE  Held(now) \in [Minutes -> Nat] /\ Window(ring, now) = SumOver(Held(now), Minutes)
<1> DEFINE f == [i \in Slots |-> IF InWindow(ring[i], now) THEN ring[i].requests ELSE 0]
           g == Held(now)
           R == {m \in Minutes : InLastHour(m, now)}
           h == [m \in R |-> m % RingSize]
<1>1. f \in [Slots -> Nat] /\ Window(ring, now) = SumOver(f, Slots)
  BY WindowIsSum DEF MetricsTypes
<1>2. now \in Nat /\ RingSize \in Nat \ {0} /\ ring \in RingTypes
  BY Sizes, RingAssumption DEF MetricsTypes
<1>3. g \in [Minutes -> Nat]
  BY MinutesSlot, <1>2 DEF Held, RingTypes
<1>4. R \in SUBSET Minutes /\ Minutes \ R \in SUBSET Minutes /\ \A m \in Minutes \ R : g[m] = 0
  BY DEF Held
<1>5. h \in [R -> Slots]
  BY MinutesSlot
<1>6. \A x, y \in R : h[x] = h[y] => x = y
  BY <1>2, SameSlot
<1>7. ASSUME NEW i \in Slots, InWindow(ring[i], now)
      PROVE  InLastHour(ring[i].epoch, now) /\ ring[i].epoch % RingSize = i
  <2>1. /\ ring[i].epoch \in Nat /\ ring[i].epoch > 0 /\ now >= ring[i].epoch
        /\ now - ring[i].epoch < RingSize
    BY <1>2, <1>7 DEF InWindow, RingTypes
  <2>2. ring[i].epoch \in Minutes /\ ring[i].epoch % RingSize = i
    BY <2>1 DEF Exact, BucketsOf
  <2>3. ring[i].epoch <= now
    BY <1>2, <2>1
  <2> QED BY <2>1, <2>2, <2>3 DEF InLastHour
<1>8. ASSUME NEW m \in R PROVE g[m] = f[h[m]]
  <2> DEFINE i == m % RingSize
  <2>1. i \in Slots /\ InLastHour(m, now) /\ m \in Minutes /\ m \in Nat /\ m > 0
    BY MinutesSlot, MinutesFinite
  <2>2. g[m] = IF ring[i].epoch = m THEN ring[i].requests ELSE 0
    BY <2>1 DEF Held
  <2>3. h[m] = i
    OBVIOUS
  <2>4. InWindow(ring[i], now) <=> ring[i].epoch = m
    <3>1. ASSUME InWindow(ring[i], now) PROVE ring[i].epoch = m
      <4>1. InLastHour(ring[i].epoch, now) /\ ring[i].epoch % RingSize = i
        BY <1>7, <2>1, <3>1
      <4> QED BY <1>2, <2>1, <4>1, SameSlot
    <3>2. ASSUME ring[i].epoch = m PROVE InWindow(ring[i], now)
      BY <1>2, <2>1, <3>2 DEF InWindow, InLastHour
    <3> QED BY <3>1, <3>2
  <2>5. f[i] = IF InWindow(ring[i], now) THEN ring[i].requests ELSE 0
    BY <2>1
  <2> HIDE DEF f, g, h, i
  <2> QED BY <2>2, <2>3, <2>4, <2>5
<1>9. ASSUME NEW i \in Slots, \A m \in R : h[m] # i PROVE f[i] = 0
  <2>1. ASSUME InWindow(ring[i], now) PROVE FALSE
    <3>1. InLastHour(ring[i].epoch, now) /\ ring[i].epoch % RingSize = i
      BY <1>7, <2>1
    <3>2. ring[i].epoch \in R
      BY <3>1 DEF InLastHour
    <3> QED BY <1>9, <3>1, <3>2
  <2> QED BY <2>1
<1> HIDE DEF f, g, h, R
<1>10. IsFiniteSet(R) /\ IsFiniteSet(Minutes \ R)
  BY <1>4, MinutesFinite, FS_Subset
<1>11. SumOver(g, R) = SumOver(f, Slots)
  <2>1. Slots \in SUBSET Slots /\ IsFiniteSet(Slots)
    BY Sizes
  <2>2. /\ \A m \in R : g[m] = f[h[m]]
        /\ \A i \in Slots : (\A m \in R : h[m] # i) => f[i] = 0
    BY <1>8, <1>9
  <2> QED BY <1>1, <1>3, <1>4, <1>5, <1>6, <1>10, <2>1, <2>2, SumOfSame
<1>12. SumOver(g, Minutes) = SumOver(g, R) + SumOver(g, Minutes \ R) /\ SumOver(g, R) \in Nat
  BY <1>3, <1>4, MinutesFinite, SumOfPart
<1>13. SumOver(g, Minutes \ R) = 0
  <2> DEFINE Q == Minutes \ R
  <2>1. Q \in SUBSET Minutes /\ IsFiniteSet(Q) /\ \A m \in Q : g[m] = 0
    BY <1>4, <1>10
  <2> HIDE DEF Q
  <2>2. SumOver(g, Q) = 0
    BY <1>3, <2>1, SumOfZeros
  <2> QED BY <2>2 DEF Q
<1>14. Window(ring, now) = SumOver(g, Minutes)
  BY <1>1, <1>11, <1>12, <1>13
<1> QED BY <1>3, <1>14 DEF g

(* A bucket has all of its minute: at least of those minutes that are in the   *)
(* hour still, at most of those that the clock has in it.                      *)
LEMMA WindowBounds ==
    ASSUME MetricsTypes, Exact(ring, logged, minute), NEW now \in Minutes, now <= minute
    PROVE  /\ Logged(minute - RingSize, now) <= Window(ring, now)
           /\ Window(ring, now) <= Logged(now - RingSize, now)
<1> DEFINE l == [m \in Minutes |-> IF minute - RingSize < m /\ m <= now THEN logged[m] ELSE 0]
           u == [m \in Minutes |-> IF now - RingSize < m /\ m <= now THEN logged[m] ELSE 0]
           g == Held(now)
<1>1. l \in [Minutes -> Nat] /\ Logged(minute - RingSize, now) = SumOver(l, Minutes)
  BY LoggedIsSum
<1>2. u \in [Minutes -> Nat] /\ Logged(now - RingSize, now) = SumOver(u, Minutes)
  BY LoggedIsSum
<1>3. g \in [Minutes -> Nat] /\ Window(ring, now) = SumOver(g, Minutes)
  BY WindowIsHeld
<1>4. /\ minute \in Nat /\ now \in Nat /\ RingSize \in Nat /\ ring \in RingTypes
      /\ logged \in LogTypes
  BY Sizes DEF MetricsTypes
<1>5. ASSUME NEW m \in Minutes PROVE l[m] <= g[m] /\ g[m] <= u[m]
  <2> DEFINE b == ring[m % RingSize]
  <2>1. /\ m \in Nat /\ m > 0 /\ m % RingSize \in Slots /\ logged[m] \in Nat
        /\ b.requests \in Nat
    BY <1>4, MinutesSlot, MinutesFinite DEF LogTypes, RingTypes
  <2>2. b.epoch = m => b.requests = logged[m]
    BY <2>1 DEF Exact, BucketsOf
  <2>3. InLastHour(m, now) <=> (now - RingSize < m /\ m <= now)
    BY <1>4, <2>1 DEF InLastHour
  <2>4. (minute - RingSize < m /\ m <= now) => InLastHour(m, now) /\ InLastHour(m, minute)
    BY <1>4, <2>1 DEF InLastHour
  <2>5. InLastHour(m, minute) => logged[m] = (IF b.epoch = m THEN b.requests ELSE 0)
    BY DEF Exact, MinutesOf
  <2>6. /\ g[m] = (IF InLastHour(m, now) /\ b.epoch = m THEN b.requests ELSE 0)
        /\ l[m] = (IF minute - RingSize < m /\ m <= now THEN logged[m] ELSE 0)
        /\ u[m] = (IF now - RingSize < m /\ m <= now THEN logged[m] ELSE 0)
    BY DEF Held
  <2> HIDE DEF l, u, g, b
  <2>7. l[m] <= g[m]
    <3>1. CASE minute - RingSize < m /\ m <= now
      <4>1. l[m] = logged[m] /\ g[m] = logged[m]
        BY <2>4, <2>5, <2>6, <3>1
      <4> QED BY <2>1, <4>1
    <3>2. CASE ~(minute - RingSize < m /\ m <= now)
      <4>1. l[m] = 0 /\ g[m] \in Nat
        BY <1>3, <2>6, <3>2
      <4> QED BY <4>1
    <3> QED BY <3>1, <3>2
  <2>8. g[m] <= u[m]
    <3>1. CASE InLastHour(m, now) /\ b.epoch = m
      <4>1. g[m] = logged[m] /\ u[m] = logged[m]
        BY <2>2, <2>3, <2>6, <3>1
      <4> QED BY <2>1, <4>1
    <3>2. CASE ~(InLastHour(m, now) /\ b.epoch = m)
      <4>1. g[m] = 0 /\ u[m] \in Nat
        BY <1>2, <2>6, <3>2
      <4> QED BY <4>1
    <3> QED BY <3>1, <3>2
  <2> QED BY <2>7, <2>8
<1> HIDE DEF l, u, g
<1>6. SumOver(l, Minutes) <= SumOver(g, Minutes)
  BY <1>1, <1>3, <1>5, MinutesFinite, SumAtMost
<1>7. SumOver(g, Minutes) <= SumOver(u, Minutes)
  BY <1>2, <1>3, <1>5, MinutesFinite, SumAtMost
<1> QED BY <1>1, <1>2, <1>3, <1>6, <1>7

LEMMA EmptyExact == ASSUME NEW now PROVE Exact([i \in Slots |-> Empty], NothingLogged, now)
<1>1. BucketsOf([i \in Slots |-> Empty], NothingLogged, now)
  BY DEF BucketsOf, Empty
<1>2. MinutesOf([i \in Slots |-> Empty], NothingLogged, now)
  BY MinutesSlot DEF MinutesOf, Empty, NothingLogged
<1> QED BY <1>1, <1>2 DEF Exact

(* A minute that begins has no bucket, and nothing was recorded in it.         *)
LEMMA TickExact ==
    ASSUME NEW now \in Nat, NEW r \in RingTypes, NEW log, Exact(r, log, now)
    PROVE  Exact(r, log, now + 1)
<1>1. BucketsOf(r, log, now + 1)
  <2>1. ASSUME NEW i \in Slots, r[i].epoch # 0
        PROVE  /\ r[i].epoch \in Minutes /\ r[i].epoch <= now + 1 /\ r[i].epoch % RingSize = i
               /\ r[i].requests = log[r[i].epoch]
    <3>1. /\ r[i].epoch \in Nat /\ r[i].epoch \in Minutes /\ r[i].epoch <= now /\ r[i].epoch % RingSize = i
          /\ r[i].requests = log[r[i].epoch]
      BY <2>1 DEF Exact, BucketsOf, RingTypes
    <3> QED BY <3>1
  <2> QED BY <2>1 DEF BucketsOf
<1>2. ASSUME NEW m \in Minutes, InLastHour(m, now + 1)
      PROVE  log[m] = (IF r[m % RingSize].epoch = m THEN r[m % RingSize].requests ELSE 0)
  <2>1. m \in Nat /\ m > 0 /\ m % RingSize \in Slots
    BY MinutesSlot, Sizes DEF Minutes
  <2>2. CASE m = now + 1
    <3>1. log[m] = 0
      BY <2>1, <2>2 DEF Exact, MinutesOf
    <3>2. r[m % RingSize].epoch # m
      BY <2>1, <2>2 DEF Exact, BucketsOf
    <3> QED BY <3>1, <3>2
  <2>3. CASE m # now + 1
    <3>1. InLastHour(m, now)
      BY <1>2, <2>1, <2>3, Sizes DEF InLastHour
    <3> QED BY <3>1 DEF Exact, MinutesOf
  <2> QED BY <2>2, <2>3
<1>3. ASSUME NEW m \in Minutes, m > now + 1 PROVE log[m] = 0
  <2>1. m \in Nat /\ m > now
    BY <1>3, Sizes
  <2> QED BY <2>1 DEF Exact, MinutesOf
<1> QED BY <1>1, <1>2, <1>3 DEF Exact, MinutesOf

(* An event in its bucket: the bucket that is cleared for it is of a minute    *)
(* that is over, or the minute had none.                                       *)
LEMMA BumpExact ==
    ASSUME NEW now \in Nat, NEW r \in RingTypes, NEW log \in LogTypes, Exact(r, log, now),
           NEW e, InLastHour(e, now)
    PROVE  Exact([r EXCEPT ![e % RingSize] = Bumped(@, e)], [log EXCEPT ![e] = @ + 1], now)
<1> DEFINE j == e % RingSize
           s == [r EXCEPT ![j] = Bumped(@, e)]
           l == [log EXCEPT ![e] = @ + 1]
<1>1. e \in Minutes /\ e \in Nat /\ e <= now /\ j \in Slots
  BY MinutesSlot, Sizes DEF InLastHour
<1>2. s[j] = Bumped(r[j], e) /\ \A i \in Slots \ {j} : s[i] = r[i]
  BY <1>1 DEF RingTypes
<1>3. l[e] = log[e] + 1 /\ \A m \in Minutes \ {e} : l[m] = log[m]
  BY <1>1 DEF LogTypes
<1>4. s[j].epoch = e /\ s[j].requests = (IF r[j].epoch = e THEN r[j].requests + 1 ELSE 1)
  BY <1>2 DEF Bumped
<1>5. log[e] = (IF r[j].epoch = e THEN r[j].requests ELSE 0)
  BY <1>1 DEF Exact, MinutesOf
<1>6. e % RingSize = j
  OBVIOUS
<1> HIDE DEF j, s, l
<1>7. BucketsOf(s, l, now)
  <2>1. s[j].epoch = e /\ s[j].requests = l[e]
    BY <1>3, <1>4, <1>5, <1>1 DEF LogTypes
  <2>2. ASSUME NEW i \in Slots \ {j}, s[i].epoch # 0
        PROVE  /\ s[i].epoch \in Minutes /\ s[i].epoch <= now /\ s[i].epoch % RingSize = i
               /\ s[i].requests = l[s[i].epoch]
    <3>1. /\ s[i] = r[i] /\ r[i].epoch \in Minutes /\ r[i].epoch <= now /\ r[i].epoch % RingSize = i
          /\ r[i].requests = log[r[i].epoch]
      BY <1>2, <2>2 DEF Exact, BucketsOf
    <3>2. r[i].epoch # e
      BY <1>6, <2>2, <3>1
    <3> QED BY <1>3, <3>1, <3>2
  <2> QED BY <1>1, <1>6, <2>1, <2>2 DEF BucketsOf
<1>8. ASSUME NEW m \in Minutes, InLastHour(m, now)
      PROVE  l[m] = (IF s[m % RingSize].epoch = m THEN s[m % RingSize].requests ELSE 0)
  <2>1. CASE m = e
    BY <1>3, <1>4, <1>5, <1>6, <2>1
  <2>2. CASE m # e
    <3>1. m % RingSize # j /\ m % RingSize \in Slots
      BY <1>6, <1>8, <2>2, SameSlot, MinutesSlot
    <3>2. s[m % RingSize] = r[m % RingSize] /\ l[m] = log[m]
      BY <1>2, <1>3, <2>2, <3>1
    <3>3. log[m] = (IF r[m % RingSize].epoch = m THEN r[m % RingSize].requests ELSE 0)
      BY <1>8 DEF Exact, MinutesOf
    <3> QED BY <3>2, <3>3
  <2> QED BY <2>1, <2>2
<1>9. ASSUME NEW m \in Minutes, m > now PROVE l[m] = 0
  <2>1. m # e
    BY <1>1, <1>9
  <2>2. log[m] = 0
    BY <1>9 DEF Exact, MinutesOf
  <2> QED BY <1>3, <2>1, <2>2
<1>10. Exact(s, l, now)
  BY <1>7, <1>8, <1>9 DEF Exact, MinutesOf
<1> QED BY <1>10 DEF s, l, j

LEMMA ClockStep == MetricsTypes /\ ClockRead /\ [Next]_vars => ClockRead'
<1> SUFFICES ASSUME MetricsTypes, ClockRead, [Next]_vars PROVE ClockRead'
  OBVIOUS
<1>1. minute \in Minutes /\ minute \in Nat /\ report \in ReportTypes
  BY Sizes DEF MetricsTypes
<1>2. NoReport.phase # "clock"
  BY DEF NoReport
<1>3. ASSUME report' = report \/ report' = NoReport, minute' = minute \/ minute' = minute + 1 PROVE ClockRead'
  <2>1. CASE report' = NoReport
    BY <1>2, <2>1 DEF ClockRead
  <2>2. CASE report' = report
    <3>1. ASSUME report.phase = "clock" PROVE report.now \in Minutes /\ report.now <= minute'
      <4>1. report.now \in Minutes /\ report.now <= minute /\ report.now \in Nat
        BY <1>1, <3>1 DEF ClockRead, ReportTypes
      <4> QED BY <1>1, <1>3, <4>1
    <3> QED BY <2>2, <3>1 DEF ClockRead
  <2> QED BY <1>3, <2>1, <2>2
<1>4. CASE ReportClock \/ ReportWindow \/ ReportUptime \/ ReportClockAgain \/ ReportAverage
          \/ ReportTotal \/ ReportSent
  <2>1. minute' = minute
    BY <1>4, ReportSteps
  <2>2. report'.phase = "clock" => report'.now = minute
    BY <1>2, <1>4, ReportSteps
  <2> QED BY <1>1, <2>1, <2>2 DEF ClockRead
<1>5. CASE UNCHANGED vars
  BY <1>3, <1>5 DEF vars
<1>6. CASE \E r \in Recorders : RecordTotal(r) \/ RecordBucket(r) \/ RecordLatency(r)
  BY <1>3, <1>6 DEF RecordTotal, RecordBucket, RecordLatency
<1>7. CASE Load \/ Tick \/ Return \/ Crash
  BY <1>3, <1>7 DEF Load, Tick, Return, Crash
<1>8. CASE SaveFirst \/ SaveSecond \/ SaveFails \/ SaveRemove \/ SaveRename
  BY <1>3, <1>8 DEF SaveFirst, SaveSecond, SaveFails, SaveRemove, SaveRename
<1> QED BY <1>4, <1>5, <1>6, <1>7, <1>8 DEF Next

LEMMA WindowStep == MetricsTypes /\ WindowInv /\ [Next]_vars => WindowInv'
<1> SUFFICES ASSUME MetricsTypes, WindowInv, [Next]_vars PROVE WindowInv'
  OBVIOUS
<1>1. /\ minute \in Nat /\ ring \in RingTypes /\ logged \in LogTypes
      /\ copy \in Kept /\ copy.ring \in RingTypes
      /\ file \notin {NoFile, Invalid} => file.ring \in RingTypes
  BY Sizes DEF MetricsTypes, Kept
<1>2. /\ Exact(ring, logged, minute) /\ Exact(copy.ring, copy.logged, minute)
      /\ file \notin {NoFile, Invalid} => Exact(file.ring, file.logged, minute)
      /\ \A r \in Recorders : rec[r] # 0 => InLastHour(rec[r], minute)
  BY DEF WindowInv
<1>3. ASSUME /\ Exact(ring', logged', minute') /\ Exact(copy'.ring, copy'.logged, minute')
             /\ file' \notin {NoFile, Invalid} => Exact(file'.ring, file'.logged, minute')
             /\ \A r \in Recorders : rec'[r] # 0 => InLastHour(rec'[r], minute')
      PROVE  WindowInv'
  <2>1. ClockRead'
    BY ClockStep DEF WindowInv
  <2> QED BY <1>3, <2>1 DEF WindowInv, Exact, BucketsOf, MinutesOf, InLastHour
<1>4. Exact(NoCopy.ring, NoCopy.logged, minute)
  BY EmptyExact DEF NoCopy
<1>5. CASE UNCHANGED vars \/ Return
  BY <1>2, <1>3, <1>5 DEF vars, memVars, Return
<1>6. CASE Load
  <2>1. Exact(ring', logged', minute)
    <3>1. CASE file = NoFile
      <4>1. ring' = ring /\ logged' = logged
        BY <1>6, <3>1, RingAssumption DEF Load
      <4> QED BY <1>2, <4>1
    <3>2. CASE file = Invalid
      <4>1. ring' = [i \in Slots |-> Empty] /\ logged' = NothingLogged
        BY <1>6, <3>2, RingAssumption DEF Load
      <4> QED BY <4>1, EmptyExact
    <3>3. CASE file \notin {NoFile, Invalid}
      <4>1. ring' = file.ring /\ logged' = file.logged
        BY <1>6, <3>3 DEF Load
      <4> QED BY <1>2, <3>3, <4>1
    <3> QED BY <3>1, <3>2, <3>3
  <2>2. UNCHANGED <<minute, rec, copy, file>>
    BY <1>6 DEF Load
  <2> QED BY <1>2, <1>3, <2>1, <2>2
<1>7. ASSUME NEW r \in Recorders, RecordTotal(r) PROVE WindowInv'
  <2>1. UNCHANGED <<ring, logged, minute, copy, file>> /\ rec' = [rec EXCEPT ![r] = minute]
    BY <1>7 DEF RecordTotal
  <2>2. InLastHour(minute, minute)
    BY <1>1, Sizes DEF InLastHour, MetricsTypes
  <2>3. \A q \in Recorders : rec'[q] # 0 => InLastHour(rec'[q], minute)
    BY <1>2, <2>1, <2>2 DEF MetricsTypes
  <2> QED BY <1>2, <1>3, <2>1, <2>3
<1>8. ASSUME NEW r \in Recorders, RecordBucket(r) PROVE WindowInv'
  <2>1. /\ ring' = [ring EXCEPT ![rec[r] % RingSize] = Bumped(@, rec[r])]
        /\ logged' = [logged EXCEPT ![rec[r]] = @ + 1]
        /\ rec[r] # 0 /\ rec' = [rec EXCEPT ![r] = 0] /\ UNCHANGED <<minute, copy, file>>
    BY <1>8 DEF RecordBucket
  <2>2. Exact(ring', logged', minute)
    BY <1>1, <1>2, <2>1, BumpExact
  <2>3. \A q \in Recorders : rec'[q] # 0 => InLastHour(rec'[q], minute)
    BY <1>2, <2>1 DEF MetricsTypes
  <2> QED BY <1>2, <1>3, <2>1, <2>2, <2>3
<1>9. ASSUME NEW r \in Recorders, RecordLatency(r) PROVE WindowInv'
  BY <1>2, <1>3, <1>9 DEF RecordLatency
<1>10. CASE Tick
  <2>1. minute' = minute + 1 /\ UNCHANGED <<ring, logged, rec, copy, file>>
    BY <1>10 DEF Tick, memVars
  <2>2. /\ Exact(ring, logged, minute + 1) /\ Exact(copy.ring, copy.logged, minute + 1)
        /\ file \notin {NoFile, Invalid} => Exact(file.ring, file.logged, minute + 1)
    BY <1>1, <1>2, TickExact
  <2>3. ASSUME NEW r \in Recorders, rec[r] # 0 PROVE InLastHour(rec[r], minute + 1)
    <3>1. InLastHour(rec[r], minute) /\ minute + 1 - rec[r] < RingSize /\ rec[r] \in Nat
      BY <1>2, <1>10, <2>3, Sizes DEF Tick, InLastHour
    <3> QED BY <1>1, <3>1 DEF InLastHour
  <2> QED BY <1>3, <2>1, <2>2, <2>3
<1>11. CASE SaveFirst
  <2>1. copy' = [copy EXCEPT !.ring = ring, !.samples = Samples(lat), !.logged = logged]
    BY <1>11 DEF SaveFirst, SaveOrder, Read
  <2>2. copy'.ring = ring /\ copy'.logged = logged
    BY <1>1, <2>1 DEF Kept
  <2>3. UNCHANGED <<ring, logged, minute, rec, file>>
    BY <1>11 DEF SaveFirst, memVars
  <2> QED BY <1>2, <1>3, <2>2, <2>3
<1>12. CASE SaveSecond
  <2>1. copy' = [copy EXCEPT !.total = total]
    BY <1>12 DEF SaveSecond, SaveOrder, Read
  <2>2. copy'.ring = copy.ring /\ copy'.logged = copy.logged
    BY <1>1, <2>1 DEF Kept
  <2>3. UNCHANGED <<ring, logged, minute, rec, file>>
    BY <1>12 DEF SaveSecond, memVars
  <2> QED BY <1>2, <1>3, <2>2, <2>3
<1>13. CASE SaveFails \/ SaveRemove \/ SaveRename
  <2>1. /\ UNCHANGED <<ring, logged, minute, rec>>
        /\ copy' = copy \/ copy' = NoCopy
        /\ file' = file \/ file' = NoFile \/ file' = copy
    BY <1>13 DEF SaveFails, SaveRemove, SaveRename, memVars
  <2> QED BY <1>2, <1>3, <1>4, <2>1
<1>14. CASE ReportClock \/ ReportWindow \/ ReportUptime \/ ReportClockAgain \/ ReportAverage
           \/ ReportTotal \/ ReportSent
  <2>1. UNCHANGED <<ring, logged, minute, rec, copy, file>>
    BY <1>14, ReportSteps
  <2> QED BY <1>2, <1>3, <2>1
<1>15. CASE Crash
  <2>1. /\ ring' = [i \in Slots |-> Empty] /\ logged' = NothingLogged
        /\ copy' = NoCopy /\ rec' = [r \in Recorders |-> 0] /\ UNCHANGED <<minute, file>>
    BY <1>15 DEF Crash
  <2>2. Exact(ring', logged', minute) /\ Exact(copy'.ring, copy'.logged, minute)
    BY <1>4, <2>1, EmptyExact
  <2>3. \A r \in Recorders : rec'[r] = 0
    BY <2>1
  <2> QED BY <1>2, <1>3, <2>1, <2>2, <2>3
<1> QED BY <1>5, <1>6, <1>7, <1>8, <1>9, <1>10, <1>11, <1>12, <1>13, <1>14, <1>15 DEF Next

LEMMA WindowInitially == Init => WindowInv
<1> SUFFICES ASSUME Init PROVE WindowInv
  OBVIOUS
<1>1. Exact(ring, logged, minute) /\ Exact(copy.ring, copy.logged, minute)
  BY EmptyExact DEF Init, NoCopy
<1> QED BY <1>1 DEF Init, WindowInv, ClockRead, NoReport

(* last_hour has every event of the minutes that are in the last hour when it  *)
(* is summed, and no other than those of the last hour when its clock was read: *)
(* for every interleaving of records with minutes, saves, loads and crashes.   *)
THEOREM LastHourExact == Spec => WindowExact
<1>1. MetricsTypes /\ WindowInv /\ [Next]_vars
        => [report.phase = "clock" /\ report'.phase = "window" =>
              /\ Logged(minute - RingSize, report.now) <= report'.window
              /\ report'.window <= Logged(report.now - RingSize, report.now)]_vars
  <2> SUFFICES ASSUME MetricsTypes, WindowInv, [Next]_vars, report.phase = "clock", report'.phase = "window"
               PROVE  /\ Logged(minute - RingSize, report.now) <= report'.window
                      /\ report'.window <= Logged(report.now - RingSize, report.now)
    OBVIOUS
  <2>1. report' # report /\ report' # NoReport
    BY DEF NoReport
  <2>2. \/ ReportClock \/ ReportWindow \/ ReportUptime \/ ReportClockAgain
        \/ ReportAverage \/ ReportTotal \/ ReportSent
    BY <2>1 DEF Next, vars, Load, Tick, Return, Crash, RecordTotal, RecordBucket, RecordLatency,
                SaveFirst, SaveSecond, SaveFails, SaveRemove, SaveRename
  <2>3. report'.window = Window(ring, report.now)
    BY <2>1, <2>2, ReportSteps
  <2>4. report.now \in Minutes /\ report.now <= minute /\ Exact(ring, logged, minute)
    BY DEF WindowInv, ClockRead
  <2>5. /\ Logged(minute - RingSize, report.now) <= Window(ring, report.now)
        /\ Window(ring, report.now) <= Logged(report.now - RingSize, report.now)
    BY <2>4, WindowBounds
  <2> QED BY <2>3, <2>5
<1> QED BY <1>1, TypesInitially, TypesStep, WindowInitially, WindowStep, PTL DEF Spec, WindowExact

-----------------------------------------------------------------------------
(* Json.                                                                       *)

(* A recursion over the numbers up to n, one step after the other.             *)
IsWay(w, T, a, step, n) ==
    w \in [0..n -> T] /\ w[0] = a /\ \A k \in 1..n : w[k] = step[k][w[k - 1]]

(* A recursion over numbers has a value at each of them.                     *)
LEMMA StepByStep ==
    ASSUME NEW T, NEW a \in T, NEW step \in [Nat -> [T -> T]], NEW n \in Nat
    PROVE  \E w : IsWay(w, T, a, step, n)
<1> DEFINE Good(w, m) == w[0] = a /\ \A k \in 1..m : w[k] = step[k][w[k - 1]]
           P == {m \in Nat : \E w \in [0..m -> T] : Good(w, m)}
<1>1. 0 \in P
  <2>1. [k \in 0..0 |-> a] \in [0..0 -> T] /\ Good([k \in 0..0 |-> a], 0)
    OBVIOUS
  <2> HIDE DEF Good
  <2> QED BY <2>1
<1>2. ASSUME NEW m \in Nat, m \in P PROVE m + 1 \in P
  <2>1. PICK w \in [0..m -> T] : Good(w, m)
    <3> HIDE DEF Good
    <3> QED BY <1>2
  <2>2. m \in 0..m /\ w[m] \in T /\ step[m + 1][w[m]] \in T
    OBVIOUS
  <2> DEFINE v == [k \in 0..(m + 1) |-> IF k = m + 1 THEN step[m + 1][w[m]] ELSE w[k]]
  <2>3. v \in [0..(m + 1) -> T]
    <3>1. \A k \in 0..(m + 1) : k # m + 1 => k \in 0..m
      OBVIOUS
    <3> HIDE DEF P
    <3> QED BY <2>2, <3>1
  <2>4. \A k \in 0..m : v[k] = w[k]
    <3>1. \A k \in 0..m : k \in 0..(m + 1) /\ k # m + 1
      OBVIOUS
    <3> QED BY <3>1
  <2>5. v[m + 1] = step[m + 1][w[m]]
    OBVIOUS
  <2> HIDE DEF v, P
  <2>6. ASSUME NEW k \in 1..(m + 1) PROVE v[k] = step[k][v[k - 1]]
    <3>1. CASE k = m + 1
      <4>1. k - 1 = m /\ m \in 0..m
        BY <3>1
      <4> QED BY <2>4, <2>5, <3>1, <4>1
    <3>2. CASE k # m + 1
      <4>1. k \in 1..m /\ k \in 0..m /\ k - 1 \in 0..m
        BY <3>2
      <4> QED BY <2>1, <2>4, <4>1
    <3> QED BY <3>1, <3>2
  <2>7. v[0] = a
    BY <2>1, <2>4
  <2>8. m + 1 \in Nat /\ Good(v, m + 1)
    BY <2>6, <2>7
  <2> HIDE DEF Good
  <2> QED BY <2>3, <2>8 DEF P
<1>3. n \in P
  <2> HIDE DEF P
  <2>1. Nat \subseteq P
    BY <1>1, <1>2, EveryNumber
  <2> QED BY <2>1
<1> QED BY <1>3 DEF IsWay

(* The least of a set of numbers, and the greatest.                            *)
LEMMA MinIs ==
    ASSUME NEW S \in SUBSET Nat, S # {}
    PROVE  Min(S) \in S /\ \A k \in S : Min(S) <= k
<1>1. \E m \in S : \A k \in S : m <= k
  BY LeastNumber
<1> QED BY <1>1 DEF Min

(* The greatest of a set of places is one of them and no less than any.      *)
LEMMA MaxIs ==
    ASSUME NEW n \in Nat, NEW S \in SUBSET (1..n), S # {}
    PROVE  Max(S) \in S /\ \A k \in S : Max(S) >= k
<1>1. \E m \in S : \A k \in S : m >= k
  BY GreatestNumber
<1> QED BY <1>1 DEF Max
--------------------------------------------------------------------------------
(* Texts.                                                                      *)
Mark == {"-", ".", ",", ":", "{", "}", "[", "]", Quote, Backslash, "true", "false", "null", "u", "b", "n", "t"}
Character == STRING \cup Digit \cup Mark
Text == Seq(Character)

(* The end of a text is behind its last character.                           *)
LEMMA EndIs ==
    ASSUME NEW T, NEW t \in Seq(T)
    PROVE  /\ Len(t) \in Nat /\ End(t) \in Nat \ {0} /\ End(t) = Len(t) + 1
           /\ \A i \in 1..Len(t) : t[i] \in T
BY LenProperties, ElementOfSeq DEF End

(* What is picked from a text.                                                 *)
LEMMA PickedTyped ==
    ASSUME NEW T, NEW t \in Seq(T), NEW S
    PROVE  Picked(t, S) \in Seq(T) /\ Range(Picked(t, S)) = {t[i] : i \in S \cap 1..Len(t)}
<1> DEFINE n == Len(t)
           Step(x, k) == IF k \in S THEN Append(x, t[k]) ELSE x
           step == [k \in Nat |-> [x \in Seq(T) |-> IF k \in 1..n THEN Step(x, k) ELSE x]]
           IsPicked(w) == w = [k \in 0..n |-> IF k = 0 THEN << >> ELSE Step(w[k - 1], k)]
<1>1. n \in Nat /\ \A k \in 1..n : t[k] \in T
  BY EndIs
<1> HIDE DEF n
<1>2. \A x \in Seq(T), k \in 1..n : Step(x, k) \in Seq(T)
  BY <1>1, AppendProperties
<1>3. step \in [Nat -> [Seq(T) -> Seq(T)]]
  <2> HIDE DEF Step
  <2> QED BY <1>2
<1>4. \A x \in Seq(T), k \in 1..n : step[k][x] = Step(x, k)
  <2> HIDE DEF Step
  <2> QED BY <1>1
<1> HIDE DEF Step, step
<1>5. << >> \in Seq(T)
  BY EmptySeq
<1>6. PICK w : IsWay(w, Seq(T), << >>, step, n)
  BY <1>1, <1>3, <1>5, StepByStep
<1>7. \A k \in 0..n : w[k] = IF k = 0 THEN << >> ELSE Step(w[k - 1], k)
  <2> TAKE k \in 0..n
  <2>1. k # 0 => k \in 1..n /\ k - 1 \in 0..n
    BY <1>1
  <2> QED BY <1>4, <1>6, <2>1 DEF IsWay
<1>8. IsPicked(w)
  <2>1. w = [k \in 0..n |-> w[k]]
    BY <1>6 DEF IsWay
  <2> QED BY <1>7, <2>1
<1> DEFINE picked == CHOOSE u : IsPicked(u)
<1>9. IsPicked(picked) /\ Picked(t, S) = picked[n]
  <2>1. Picked(t, S) = picked[n]
    BY Zenon DEF Picked, Step, n
  <2> HIDE DEF IsPicked
  <2> QED BY <1>8, <2>1
<1> HIDE DEF picked
<1> DEFINE From(k) == {t[i] : i \in S \cap 1..k}
           P == {k \in Nat : k <= n => picked[k] \in Seq(T) /\ Range(picked[k]) = From(k)}
<1>10. 0 \in P
  <2>1. 0 \in 0..n /\ From(0) = {} /\ DOMAIN << >> = {}
    BY <1>1
  <2>2. picked[0] = << >> /\ Range(<< >>) = {}
    BY <1>9, <2>1 DEF Range
  <2> QED BY <1>5, <2>1, <2>2
<1>11. ASSUME NEW k \in Nat, k \in P PROVE k + 1 \in P
  <2> SUFFICES ASSUME k + 1 <= n
               PROVE  picked[k + 1] \in Seq(T) /\ Range(picked[k + 1]) = From(k + 1)
    OBVIOUS
  <2>1. k + 1 \in 0..n /\ k + 1 \in 1..n /\ k + 1 # 0 /\ (k + 1) - 1 = k /\ k <= n
    BY <1>1
  <2>2. picked[k + 1] = Step(picked[k], k + 1)
    BY <1>9, <2>1
  <2>3. picked[k] \in Seq(T) /\ Range(picked[k]) = From(k)
    BY <1>11, <2>1
  <2>4. 1..(k + 1) = (1..k) \cup {k + 1} /\ k + 1 \notin 1..k
    OBVIOUS
  <2>5. From(k + 1) = IF k + 1 \in S THEN From(k) \cup {t[k + 1]} ELSE From(k)
    BY <2>4
  <2> HIDE DEF From
  <2>6. CASE k + 1 \in S
    <3>1. picked[k + 1] = Append(picked[k], t[k + 1]) /\ t[k + 1] \in T
      BY <1>1, <2>1, <2>2, <2>6 DEF Step
    <3> DEFINE x == picked[k]
               e == t[k + 1]
    <3>2. x \in Seq(T) /\ e \in T
      BY <2>3, <3>1
    <3> HIDE DEF x, e
    <3>3. Append(x, e) \in Seq(T) /\ Range(Append(x, e)) = Range(x) \cup {e}
      BY <3>2, RangeOfAppend
    <3> QED BY <2>3, <2>5, <2>6, <3>1, <3>3 DEF x, e
  <2>7. CASE k + 1 \notin S
    BY <2>2, <2>3, <2>5, <2>7 DEF Step
  <2> QED BY <2>6, <2>7
<1> HIDE DEF P
<1>12. n \in P
  <2>1. Nat \subseteq P
    BY <1>10, <1>11, EveryNumber
  <2> QED BY <1>1, <2>1
<1> QED BY <1>1, <1>9, <1>12 DEF P, n

(* The place behind what is white.                                             *)
LEMMA SkipIs ==
    ASSUME NEW t \in Text, NEW p \in 1..End(t)
    PROVE  /\ Skip(t, p) \in p..End(t)
           /\ Skip(t, p) = End(t) \/ t[Skip(t, p)] \notin White
           /\ p < End(t) /\ t[p] \notin White => Skip(t, p) = p
<1> DEFINE S == {q \in p..End(t) : q = End(t) \/ t[q] \notin White} \cup {End(t)}
<1>1. Len(t) \in Nat /\ End(t) \in Nat \ {0}
  BY EndIs DEF Text
<1>2. S \in SUBSET Nat /\ S # {} /\ End(t) \in p..End(t)
  BY <1>1
<1>3. Min(S) \in S /\ \A k \in S : Min(S) <= k
  <2> HIDE DEF S
  <2> QED BY <1>2, MinIs
<1>4. Skip(t, p) = Min(S)
  BY DEF Skip
<1> DEFINE m == Min(S)
<1>5. m \in S /\ \A k \in S : m <= k
  BY <1>3
<1> HIDE DEF m
<1>6. m \in p..End(t) /\ (m = End(t) \/ t[m] \notin White)
  BY <1>2, <1>5
<1>7. ASSUME p < End(t), t[p] \notin White PROVE m = p
  <2>1. p \in S
    BY <1>1, <1>7
  <2> HIDE DEF S
  <2>2. m <= p
    BY <1>5, <2>1
  <2> QED BY <1>1, <1>6, <2>2
<1> QED BY <1>4, <1>6, <1>7 DEF m
--------------------------------------------------------------------------------
(* The scan of a text, place by place.                                         *)
ScanTypes == [mode : {"plain", "escape", "string", "string escape"}, braces : Int, brackets : Int]
ModeAfter(m, c) ==
    IF m = "escape" THEN "plain" ELSE IF m = "string escape" THEN "string"
    ELSE IF c = Backslash THEN IF m = "plain" THEN "escape" ELSE "string escape"
    ELSE IF c = Quote THEN IF m = "plain" THEN "string" ELSE "plain"
    ELSE m
Change(m, c, opening, closing) ==
    IF m = "plain" /\ c = opening THEN 1 ELSE IF m = "plain" /\ c = closing THEN 0 - 1 ELSE 0

(* A step of the scan: the mode and the two counts do not depend on each     *)
(* other.                                                                    *)
LEMMA AfterIs ==
    ASSUME NEW s \in ScanTypes, NEW c
    PROVE  /\ After(s, c) \in ScanTypes
           /\ After(s, c) = [mode |-> ModeAfter(s.mode, c),
                            braces |-> s.braces + Change(s.mode, c, "{", "}"),
                            brackets |-> s.brackets + Change(s.mode, c, "[", "]")]
<1>0. s = [mode |-> s.mode, braces |-> s.braces, brackets |-> s.brackets]
  BY DEF ScanTypes
<1>1. s.mode \in {"plain", "escape", "string", "string escape"} /\ s.braces \in Int /\ s.brackets \in Int
  BY DEF ScanTypes
<1>2. Quote # Backslash /\ Backslash \notin {"{", "}", "[", "]"} /\ Quote \notin {"{", "}", "[", "]"}
  BY DEF Quote, Backslash
<1> DEFINE m == s.mode
           d == Change(m, c, "{", "}")
           e == Change(m, c, "[", "]")
           next == ModeAfter(m, c)
<1>3. next \in {"plain", "escape", "string", "string escape"}
  BY <1>1 DEF ModeAfter
<1>4. d \in Int /\ e \in Int
  BY DEF Change
<1> DEFINE j == s.braces
           k == s.brackets
<1>c. j \in Int /\ k \in Int
  BY <1>1
<1> HIDE DEF d, e, next, j, k
<1> DEFINE new == [mode |-> next, braces |-> j + d, brackets |-> k + e]
<1>b. new \in ScanTypes
  <2>1. j + d \in Int /\ k + e \in Int
    BY <1>4, <1>c
  <2> QED BY <1>3, <2>1 DEF ScanTypes
<1>5. SUFFICES After(s, c) = new
  BY <1>b DEF d, e, next, j, k
<1>a. ASSUME d = 0, e = 0 PROVE j + d = s.braces /\ k + e = s.brackets
  <2>1. j + d = j /\ k + e = k
    BY <1>a, <1>c
  <2> QED BY <2>1 DEF j, k
<1>6. CASE m \in {"escape", "string escape"}
  <2>1. After(s, c) = [mode |-> next, braces |-> s.braces, brackets |-> s.brackets]
    BY <1>0, <1>1, <1>6 DEF After, Unescaped, ModeAfter, next
  <2>2. d = 0 /\ e = 0
    BY <1>6 DEF Change, d, e
  <2> QED BY <1>a, <2>1, <2>2
<1>7. CASE m \in {"plain", "string"} /\ c \in {Backslash, Quote}
  <2>1. After(s, c) = [mode |-> next, braces |-> s.braces, brackets |-> s.brackets]
    BY <1>0, <1>1, <1>2, <1>7 DEF After, Escaping, Quoting, ModeAfter, next
  <2>2. d = 0 /\ e = 0
    BY <1>2, <1>7 DEF Change, d, e
  <2> QED BY <1>a, <2>1, <2>2
<1>8. CASE m = "string" /\ c \notin {Backslash, Quote}
  <2>1. After(s, c) = s /\ next = m
    BY <1>8 DEF After, Counting, ModeAfter, next
  <2>2. d = 0 /\ e = 0
    BY <1>8 DEF Change, d, e
  <2> QED BY <1>0, <1>a, <2>1, <2>2
<1>9. CASE m = "plain" /\ c \notin {Backslash, Quote}
  <2> DEFINE x == IF c = "{" THEN j + 1 ELSE IF c = "}" THEN j - 1 ELSE j
             y == IF c = "[" THEN k + 1 ELSE IF c = "]" THEN k - 1 ELSE k
  <2>1. After(s, c) = [s EXCEPT !.braces = x, !.brackets = y]
    BY <1>9 DEF After, Counting, j, k
  <2>2. d = (IF c = "{" THEN 1 ELSE IF c = "}" THEN 0 - 1 ELSE 0) /\ e = (IF c = "[" THEN 1 ELSE IF c = "]" THEN 0 - 1 ELSE 0)
    BY <1>9 DEF Change, d, e
  <2>3. next = m
    BY <1>9 DEF ModeAfter, next
  <2>4. x = j + d /\ y = k + e
    <3>1. (d = 1 /\ x = j + 1) \/ (d = 0 - 1 /\ x = j - 1) \/ (d = 0 /\ x = j)
      BY <2>2
    <3>2. (e = 1 /\ y = k + 1) \/ (e = 0 - 1 /\ y = k - 1) \/ (e = 0 /\ y = k)
      BY <2>2
    <3> HIDE DEF x, y
    <3> QED BY <1>c, <3>1, <3>2
  <2> HIDE DEF x, y
  <2>5. After(s, c) = [mode |-> m, braces |-> x, brackets |-> y]
    BY <1>0, <2>1
  <2> QED BY <2>3, <2>4, <2>5
<1> QED BY <1>1, <1>6, <1>7, <1>8, <1>9

(* The scan begins in a state of the scan.                                   *)
LEMMA FreshTyped == Fresh \in ScanTypes
BY DEF Fresh, ScanTypes

(* A scan begins anew at its first place and goes on by one step for each    *)
(* character.                                                                *)
LEMMA ScanIs ==
    ASSUME NEW T, NEW t \in Seq(T), NEW p \in 1..End(t)
    PROVE  /\ Scan(t, p) \in [p..End(t) -> ScanTypes]
           /\ Scan(t, p)[p] = Fresh
           /\ \A i \in p..Len(t) : Scan(t, p)[i + 1] = After(Scan(t, p)[i], t[i])
<1> DEFINE m == End(t) - p
           Step(x, n) == Append(x, After(x[n], t[p + n - 1]))
           step == [n \in Nat |-> [x \in Seq(ScanTypes) |-> IF n \in 1..m /\ Len(x) = n THEN Step(x, n) ELSE x]]
           IsStates(w) == w = [n \in 0..m |-> IF n = 0 THEN <<Fresh>> ELSE Step(w[n - 1], n)]
<1>1. m \in Nat /\ End(t) = Len(t) + 1 /\ Len(t) \in Nat /\ p \in Nat \ {0}
  BY EndIs
<1>2. <<Fresh>> \in Seq(ScanTypes) /\ Len(<<Fresh>>) = 1 /\ <<Fresh>>[1] = Fresh
  BY FreshTyped
<1>3. ASSUME NEW n \in Nat \ {0}, NEW x \in Seq(ScanTypes), Len(x) = n
      PROVE  /\ Step(x, n) \in Seq(ScanTypes) /\ Len(Step(x, n)) = n + 1
             /\ \A j \in 1..n : Step(x, n)[j] = x[j]
             /\ Step(x, n)[n + 1] = After(x[n], t[p + n - 1])
  <2>1. x[n] \in ScanTypes
    BY <1>3, ElementOfSeq
  <2> DEFINE e == After(x[n], t[p + n - 1])
  <2>2. e \in ScanTypes
    BY <2>1, AfterIs
  <2> HIDE DEF e, m
  <2>3. /\ Append(x, e) \in Seq(ScanTypes) /\ Len(Append(x, e)) = Len(x) + 1 /\ Append(x, e)[Len(x) + 1] = e
        /\ \A j \in 1..Len(x) : Append(x, e)[j] = x[j]
    BY <2>2, AppendProperties
  <2> QED BY <1>3, <2>3 DEF e
<1> HIDE DEF m, Step
<1>4. step \in [Nat -> [Seq(ScanTypes) -> Seq(ScanTypes)]]
  <2>1. \A n \in Nat, x \in Seq(ScanTypes) : n \in 1..m /\ Len(x) = n => Step(x, n) \in Seq(ScanTypes)
    BY <1>3
  <2> QED BY <2>1
<1>5. \A n \in 1..m, x \in Seq(ScanTypes) : Len(x) = n => step[n][x] = Step(x, n)
  BY <1>1
<1> HIDE DEF step
<1>6. PICK w : IsWay(w, Seq(ScanTypes), <<Fresh>>, step, m)
  BY <1>1, <1>2, <1>4, StepByStep
<1> DEFINE P == {n \in Nat : n <= m => w[n] \in Seq(ScanTypes) /\ Len(w[n]) = n + 1}
<1>7. 0 \in P
  <2>1. w[0] = <<Fresh>>
    BY <1>6 DEF IsWay
  <2>2. w[0] \in Seq(ScanTypes) /\ Len(w[0]) = 0 + 1
    BY <1>2, <2>1
  <2> QED BY <2>2
<1>8. ASSUME NEW n \in Nat, n \in P PROVE n + 1 \in P
  <2> SUFFICES ASSUME n + 1 <= m PROVE w[n + 1] \in Seq(ScanTypes) /\ Len(w[n + 1]) = (n + 1) + 1
    OBVIOUS
  <2>1. n + 1 \in 1..m /\ n + 1 \in 0..m /\ n <= m /\ (n + 1) - 1 = n /\ n + 1 \in Nat \ {0}
    BY <1>1
  <2>2. w[n + 1] = step[n + 1][w[n]] /\ w[n] \in Seq(ScanTypes) /\ Len(w[n]) = n + 1
    BY <1>6, <1>8, <2>1 DEF IsWay
  <2>3. w[n + 1] = Step(w[n], n + 1)
    BY <1>5, <2>1, <2>2
  <2> QED BY <1>3, <2>1, <2>2, <2>3
<1>9. \A n \in 0..m : w[n] \in Seq(ScanTypes) /\ Len(w[n]) = n + 1
  <2>1. Nat \subseteq P
    <3> HIDE DEF P
    <3> QED BY <1>7, <1>8, EveryNumber
  <2> QED BY <1>1, <2>1
<1>10. IsStates(w)
  <2>1. w = [n \in 0..m |-> w[n]]
    BY <1>6 DEF IsWay
  <2>2. ASSUME NEW n \in 0..m PROVE w[n] = IF n = 0 THEN <<Fresh>> ELSE Step(w[n - 1], n)
    <3>1. n # 0 => n \in 1..m /\ n - 1 \in 0..m /\ (n - 1) + 1 = n
      BY <1>1
    <3>2. n # 0 => w[n] = step[n][w[n - 1]] /\ w[n - 1] \in Seq(ScanTypes) /\ Len(w[n - 1]) = n
      BY <1>6, <1>9, <3>1 DEF IsWay
    <3>3. w[0] = <<Fresh>>
      BY <1>6 DEF IsWay
    <3> QED BY <1>5, <3>1, <3>2, <3>3
  <2> HIDE DEF P
  <2> QED BY <2>1, <2>2
<1> DEFINE states == CHOOSE u : IsStates(u)
           all == states[m]
<1>11. IsStates(states)
  <2> HIDE DEF IsStates, P
  <2> QED BY <1>10
<1>12. Scan(t, p) = [i \in p..End(t) |-> all[i - p + 1]]
  BY Zenon DEF Scan, Step, m
<1> HIDE DEF states, P
<1> DEFINE Q == {n \in Nat : n <= m => /\ states[n] \in Seq(ScanTypes) /\ Len(states[n]) = n + 1
                                       /\ states[n][1] = Fresh
                                       /\ \A j \in 1..n : states[n][j + 1] = After(states[n][j], t[p + j - 1])}
<1>13. 0 \in Q
  <2>1. states[0] = <<Fresh>>
    <3>1. 0 \in 0..m
      BY <1>1
    <3> QED BY <1>11, <3>1
  <2> DEFINE x == states[0]
  <2>2. x \in Seq(ScanTypes) /\ Len(x) = 0 + 1 /\ x[1] = Fresh
    BY <1>2, <2>1
  <2> HIDE DEF x, IsStates
  <2>3. \A j \in 1..0 : x[j + 1] = After(x[j], t[p + j - 1])
    OBVIOUS
  <2> QED BY <2>2, <2>3 DEF x
<1>14. ASSUME NEW n \in Nat, n \in Q PROVE n + 1 \in Q
  <2> DEFINE x == states[n]
             y == states[n + 1]
  <2> SUFFICES ASSUME n + 1 <= m
               PROVE  /\ y \in Seq(ScanTypes) /\ Len(y) = (n + 1) + 1 /\ y[1] = Fresh
                      /\ \A j \in 1..(n + 1) : y[j + 1] = After(y[j], t[p + j - 1])
    OBVIOUS
  <2>1. n + 1 \in 0..m /\ n <= m /\ (n + 1) - 1 = n /\ n + 1 \in Nat \ {0} /\ 1 \in 1..(n + 1)
    BY <1>1
  <2>2. y = Step(x, n + 1)
    BY <1>11, <2>1
  <2>3. /\ x \in Seq(ScanTypes) /\ Len(x) = n + 1 /\ x[1] = Fresh
        /\ \A j \in 1..n : x[j + 1] = After(x[j], t[p + j - 1])
    BY <1>14, <2>1
  <2> HIDE DEF x, y
  <2>4. /\ y \in Seq(ScanTypes) /\ Len(y) = (n + 1) + 1 /\ \A j \in 1..(n + 1) : y[j] = x[j]
        /\ y[(n + 1) + 1] = After(x[n + 1], t[p + (n + 1) - 1])
    BY <1>3, <2>1, <2>2, <2>3
  <2>5. ASSUME NEW j \in 1..(n + 1) PROVE y[j + 1] = After(y[j], t[p + j - 1])
    <3>1. CASE j = n + 1
      BY <2>4, <3>1
    <3>2. CASE j # n + 1
      <4>1. j \in 1..n /\ j + 1 \in 1..(n + 1)
        BY <3>2
      <4> QED BY <2>3, <2>4, <4>1
    <3> QED BY <3>1, <3>2
  <2> QED BY <2>1, <2>3, <2>4, <2>5
<1>15. /\ all \in Seq(ScanTypes) /\ Len(all) = m + 1 /\ all[1] = Fresh
       /\ \A j \in 1..m : all[j + 1] = After(all[j], t[p + j - 1])
  <2>1. Nat \subseteq Q
    <3> HIDE DEF Q, IsStates
    <3> QED BY <1>13, <1>14, EveryNumber
  <2>2. m \in Q /\ m <= m
    <3> HIDE DEF Q, IsStates
    <3> QED BY <1>1, <2>1
  <2> HIDE DEF IsStates
  <2> QED BY <2>2
<1> HIDE DEF all, IsStates, Q
<1>16. \A i \in p..End(t) : i - p + 1 \in 1..(m + 1)
  BY <1>1 DEF m
<1>17. \A j \in 1..(m + 1) : all[j] \in ScanTypes
  BY <1>1, <1>15, ElementOfSeq
<1>18. Scan(t, p) \in [p..End(t) -> ScanTypes]
  BY <1>12, <1>16, <1>17
<1>19. Scan(t, p)[p] = Fresh
  <2>1. p \in p..End(t) /\ p - p + 1 = 1
    BY <1>1
  <2> QED BY <1>12, <1>15, <2>1
<1>20. ASSUME NEW i \in p..Len(t) PROVE Scan(t, p)[i + 1] = After(Scan(t, p)[i], t[i])
  <2> DEFINE j == i - p + 1
  <2>1. i \in p..End(t) /\ i + 1 \in p..End(t) /\ (i + 1) - p + 1 = j + 1 /\ j \in 1..m /\ p + j - 1 = i
    BY <1>1 DEF m
  <2>2. Scan(t, p)[i] = all[j] /\ Scan(t, p)[i + 1] = all[j + 1]
    BY <1>12, <2>1
  <2> HIDE DEF j
  <2> QED BY <1>15, <2>1, <2>2
<1> QED BY <1>18, <1>19, <1>20
--------------------------------------------------------------------------------
(* What the readers return for any text: a place within it, or its end, and a  *)
(* text; and they get further if something begins there.                       *)
LEMMA DigitIs == Digit = {"0", "1", "2", "3", "4", "5", "6", "7", "8", "9"}
<1>1. DOMAIN Digits = 1..10
  BY DEF Digits
<1>2. \A i \in 1..10 : Digits[i] \in {"0", "1", "2", "3", "4", "5", "6", "7", "8", "9"}
  BY DEF Digits
<1>3. /\ Digits[1] = "0" /\ Digits[2] = "1" /\ Digits[3] = "2" /\ Digits[4] = "3" /\ Digits[5] = "4"
      /\ Digits[6] = "5" /\ Digits[7] = "6" /\ Digits[8] = "7" /\ Digits[9] = "8" /\ Digits[10] = "9"
  BY DEF Digits
<1>4. Digit = {Digits[i] : i \in 1..10}
  BY <1>1 DEF Digit, Range
<1>5. {"0", "1", "2", "3", "4", "5", "6", "7", "8", "9"} \subseteq {Digits[i] : i \in 1..10}
  BY <1>3
<1> QED BY <1>2, <1>4, <1>5

(* A piece of a sequence is a sequence.                                      *)
LEMMA PieceIs ==
    ASSUME NEW T, NEW t \in Seq(T), NEW m \in 1..End(t), NEW n \in 0..Len(t)
    PROVE  SubSeq(t, m, n) \in Seq(T)
BY EndIs, PartOf

(* readString gets further exactly when it is before a quote, and not beyond *)
(* the end.                                                                  *)
LEMMA ReadStringIs ==
    ASSUME NEW t \in Text, NEW p \in 1..End(t)
    PROVE  /\ ~At(t, p, Quote) => readString(t, p) = [at |-> p, got |-> << >>]
           /\ At(t, p, Quote) => readString(t, p).at \in (p + 1)..End(t)
           /\ readString(t, p).at \in p..End(t) /\ readString(t, p).got \in Text
<1> DEFINE scan == Scan(t, p)
           ends == {i \in (p + 1)..Len(t) : scan[i + 1].mode = "plain"} \cup {End(t)}
           end == Min(ends)
           kept == {i \in (p + 1)..(end - 1) : scan[i].mode = "string escape" \/ t[i] # Backslash}
<1>1. Len(t) \in Nat /\ End(t) = Len(t) + 1 /\ p \in Nat /\ p <= End(t)
  BY EndIs DEF Text
<1>2. readString(t, p) = IF ~At(t, p, Quote) THEN [at |-> p, got |-> << >>]
                         ELSE [at |-> Min({end + 1, End(t)}), got |-> Picked(t, kept)]
  BY Zenon DEF readString
<1>3. Picked(t, kept) \in Text
  BY PickedTyped DEF Text
<1>4. At(t, p, Quote) => p < End(t)
  BY DEF At
<1>5. p < End(t) => end \in (p + 1)..End(t)
  <2>1. ends \in SUBSET Nat /\ ends # {} /\ (p < End(t) => \A i \in ends : i \in (p + 1)..End(t))
    BY <1>1
  <2> HIDE DEF ends
  <2>2. end \in ends
    BY <2>1, MinIs
  <2> QED BY <2>1, <2>2
<1> HIDE DEF kept, end
<1>6. p < End(t) => Min({end + 1, End(t)}) \in (p + 1)..End(t)
  <2> SUFFICES ASSUME p < End(t) PROVE Min({end + 1, End(t)}) \in (p + 1)..End(t)
    OBVIOUS
  <2> DEFINE S == {end + 1, End(t)}
  <2>1. S \in SUBSET Nat /\ S # {} /\ End(t) \in S /\ \A i \in S : i >= p + 1
    BY <1>1, <1>5
  <2> HIDE DEF S
  <2>2. Min(S) \in S /\ Min(S) <= End(t)
    BY <2>1, MinIs
  <2>3. Min(S) \in Nat /\ Min(S) >= p + 1
    BY <2>1, <2>2
  <2>4. Min(S) \in (p + 1)..End(t)
    BY <1>1, <2>2, <2>3
  <2> QED BY <2>4 DEF S
<1>7. << >> \in Text
  BY EmptySeq DEF Text
<1>8. p \in p..End(t) /\ \A i \in (p + 1)..End(t) : i \in p..End(t)
  BY <1>1
<1> QED BY <1>2, <1>3, <1>4, <1>6, <1>7, <1>8

(* readNumber gets further before a digit or a minus sign, and not beyond    *)
(* the end.                                                                  *)
LEMMA ReadNumberIs ==
    ASSUME NEW t \in Text, NEW p \in 1..Len(t)
    PROVE  /\ readNumber(t, p).at \in p..End(t) /\ readNumber(t, p).got \in Text
           /\ t[p] \in Digit \cup {"-"} => readNumber(t, p).at \in (p + 1)..End(t)
<1> DEFINE first == IF At(t, p, "-") THEN p + 1 ELSE p
           ends == {i \in first..Len(t) : t[i] \notin Digit \cup {"."}} \cup {End(t)}
           end == Min(ends)
<1>1. Len(t) \in Nat /\ End(t) = Len(t) + 1 /\ p \in Nat \ {0} /\ p <= Len(t)
  BY EndIs DEF Text
<1>2. readNumber(t, p) = [at |-> end, got |-> SubSeq(t, p, end - 1)]
  BY DEF readNumber
<1>3. first \in p..(p + 1) /\ (first = p + 1 <=> t[p] = "-")
  BY <1>1 DEF At
<1> HIDE DEF first
<1>4. end \in first..End(t) /\ (t[p] \in Digit /\ first = p => end # p)
  <2>1. ends \in SUBSET Nat /\ ends # {}
    BY <1>1, <1>3
  <2>2. \A i \in ends : i \in first..End(t)
    BY <1>1, <1>3
  <2>3. t[p] \in Digit /\ first = p => p \notin ends
    BY <1>1
  <2> HIDE DEF ends
  <2>4. end \in ends
    BY <2>1, MinIs
  <2> QED BY <2>2, <2>3, <2>4
<1> HIDE DEF end
<1>5. end \in p..End(t) /\ (t[p] \in Digit \cup {"-"} => end \in (p + 1)..End(t))
  BY <1>1, <1>3, <1>4
<1>6. SubSeq(t, p, end - 1) \in Text
  <2>1. p \in 1..End(t) /\ end - 1 \in 0..Len(t)
    BY <1>1, <1>5
  <2> QED BY <2>1, PieceIs DEF Text
<1> QED BY <1>2, <1>5, <1>6

(* readNestedObject and readNestedArray get further, not beyond the end, and *)
(* return what they passed.                                                  *)
LEMMA ReadNestedIs ==
    ASSUME NEW t \in Text, NEW p \in 1..Len(t), NEW kind
    PROVE  /\ readNested(t, p, kind).at \in (p + 1)..End(t) /\ readNested(t, p, kind).got \in Text
           /\ readNested(t, p, kind).got = SubSeq(t, p, readNested(t, p, kind).at - 1)
<1> DEFINE scan == Scan(t, p)
           ends == {i \in p..Len(t) : scan[i + 1][kind] = 0} \cup {Len(t)}
           end == Min(ends)
<1>1. Len(t) \in Nat /\ End(t) = Len(t) + 1 /\ p \in Nat \ {0} /\ p <= Len(t)
  BY EndIs DEF Text
<1>2. readNested(t, p, kind) = [at |-> end + 1, got |-> SubSeq(t, p, end)]
  BY Zenon DEF readNested
<1>3. end \in p..Len(t)
  <2>1. ends \in SUBSET Nat /\ ends # {} /\ \A i \in ends : i \in p..Len(t)
    BY <1>1
  <2> HIDE DEF ends
  <2> QED BY <2>1, MinIs
<1> HIDE DEF end
<1>4. SubSeq(t, p, end) \in Text
  <2>1. p \in 1..End(t) /\ end \in 0..Len(t)
    BY <1>1, <1>3
  <2> QED BY <2>1, PieceIs DEF Text
<1>5. end + 1 \in (p + 1)..End(t) /\ (end + 1) - 1 = end
  BY <1>1, <1>3
<1> QED BY <1>2, <1>4, <1>5

(* What a value begins with.                                                   *)
Begins == {Quote, "-", "{", "[", "true", "false", "null"} \cup Digit

(* readData skips white space, and gets further when a value begins there.   *)
LEMMA ReadDataIs ==
    ASSUME NEW t \in Text, NEW p \in 1..End(t)
    PROVE  /\ readData(t, p).at \in Skip(t, p)..End(t) /\ readData(t, p).got \in Text
           /\ Skip(t, p) < End(t) /\ t[Skip(t, p)] \in Begins => readData(t, p).at \in (Skip(t, p) + 1)..End(t)
<1> DEFINE q == Skip(t, p)
           r == readData(t, p)
<1>1. Len(t) \in Nat /\ End(t) = Len(t) + 1 /\ q \in p..End(t) /\ q \in Nat \ {0} /\ << >> \in Text
  BY EndIs, SkipIs, EmptySeq DEF Text
<1>2. r = IF q = End(t) THEN [at |-> q, got |-> << >>]
          ELSE CASE t[q] = Quote -> readString(t, q)
                 [] t[q] \in Digit \cup {"-"} -> readNumber(t, q)
                 [] <<t[q]>> \in Literals -> [at |-> q + 1, got |-> <<t[q]>>]
                 [] t[q] = "{" -> readNested(t, q, "braces")
                 [] t[q] = "[" -> readNested(t, q, "brackets")
                 [] OTHER -> [at |-> q, got |-> << >>]
  BY Zenon DEF readData
<1> HIDE DEF q, r
<1>3. CASE q = End(t)
  <2>1. r = [at |-> q, got |-> << >>]
    BY <1>2, <1>3
  <2>2. r.at = q /\ r.got = << >> /\ q \in q..End(t) /\ ~(q < End(t))
    BY <1>1, <1>3, <2>1
  <2> QED BY <1>1, <2>2 DEF q, r
<1>4. CASE q # End(t)
  <2>1. q \in 1..Len(t) /\ q \in 1..End(t) /\ q < End(t) /\ q \in q..End(t) /\ q + 1 \in q..End(t) /\ q + 1 \in (q + 1)..End(t)
        /\ \A i \in (q + 1)..End(t) : i \in q..End(t)
    BY <1>1, <1>4
  <2>2. <<t[q]>> \in Text
    <3>1. t[q] \in Character
      BY <2>1, EndIs DEF Text
    <3> QED BY <3>1 DEF Text
  <2>3. At(t, q, Quote) <=> t[q] = Quote
    BY <2>1 DEF At
  <2>4. /\ t[q] = Quote => readString(t, q).at \in (q + 1)..End(t)
        /\ readString(t, q).got \in Text
    BY <2>1, <2>3, ReadStringIs
  <2>5. /\ t[q] \in Digit \cup {"-"} => readNumber(t, q).at \in (q + 1)..End(t)
        /\ readNumber(t, q).got \in Text
    BY <2>1, ReadNumberIs
  <2>6. \A kind : readNested(t, q, kind).at \in (q + 1)..End(t) /\ readNested(t, q, kind).got \in Text
    BY <2>1, ReadNestedIs
  <2>7. r.at \in q..End(t) /\ r.got \in Text /\ (t[q] \in Begins => r.at \in (q + 1)..End(t))
    <3>1. CASE t[q] = Quote
      <4>1. r = readString(t, q)
        BY <1>2, <1>4, <3>1, DigitIs DEF Quote, Literals
      <4> QED BY <2>1, <2>4, <3>1, <4>1
    <3>2. CASE t[q] \in Digit \cup {"-"}
      <4>1. r = readNumber(t, q)
        BY <1>2, <1>4, <3>2, DigitIs DEF Quote, Literals
      <4> QED BY <2>1, <2>5, <3>2, <4>1
    <3>3. CASE <<t[q]>> \in Literals
      <4>1. r = [at |-> q + 1, got |-> <<t[q]>>]
        BY <1>2, <1>4, <3>3, DigitIs DEF Quote, Literals
      <4> QED BY <2>1, <2>2, <4>1
    <3>4. CASE t[q] = "{"
      <4>1. r = readNested(t, q, "braces")
        BY <1>2, <1>4, <3>4, DigitIs DEF Quote, Literals
      <4> QED BY <2>1, <2>6, <4>1
    <3>5. CASE t[q] = "["
      <4>1. r = readNested(t, q, "brackets")
        BY <1>2, <1>4, <3>5, DigitIs DEF Quote, Literals
      <4> QED BY <2>1, <2>6, <4>1
    <3>6. CASE /\ t[q] # Quote /\ t[q] \notin Digit \cup {"-"} /\ <<t[q]>> \notin Literals
               /\ t[q] # "{" /\ t[q] # "["
      <4>1. r = [at |-> q, got |-> << >>]
        BY <1>2, <1>4, <3>6
      <4>2. t[q] \notin Begins
        BY <3>6 DEF Begins, Literals
      <4> QED BY <1>1, <2>1, <4>1, <4>2
    <3> QED BY <3>1, <3>2, <3>3, <3>4, <3>5, <3>6
  <2> QED BY <2>7 DEF q, r
<1> QED BY <1>3, <1>4
--------------------------------------------------------------------------------
(* The parser, for any text: what a pass of its loops leaves.                  *)
Values == UNION {[S -> Text] : S \in SUBSET Text}
ParserTypes == [in : {"none", "object", "array", "done"}, view : Text, jp : Nat \ {0}, keys : Seq(Text),
                data : Values, arrayData : Seq(Text), ok : BOOLEAN]
Ready(p) == /\ p \in ParserTypes /\ (p.in # "done" => p.jp \in 1..End(p.view))
            /\ DOMAIN p.data \subseteq Range(p.keys)

(* A parser that fails has left its loop and keeps what it read.             *)
LEMMA FailsIs ==
    ASSUME NEW p \in ParserTypes
    PROVE  /\ Fails(p) \in ParserTypes /\ Fails(p).in = "done"
           /\ Fails(p).keys = p.keys /\ Fails(p).data = p.data /\ Fails(p).view = p.view
BY DEF Fails, ParserTypes

(* A parser that is finished has left its loop and keeps what it read.       *)
LEMMA FinishIs ==
    ASSUME NEW p \in ParserTypes, NEW at \in 1..End(p.view)
    PROVE  /\ Finish(p, at) \in ParserTypes /\ Finish(p, at).in = "done"
           /\ Finish(p, at).keys = p.keys /\ Finish(p, at).data = p.data /\ Finish(p, at).view = p.view
<1>1. p.view \in Text
  BY DEF ParserTypes
<1>2. Skip(p.view, at) \in at..End(p.view) /\ End(p.view) \in Nat
  BY <1>1, SkipIs, EndIs DEF Text
<1> DEFINE end == Skip(p.view, at)
<1>3. end \in Nat \ {0}
  BY <1>2
<1>4. Finish(p, at) = [p EXCEPT !.in = "done", !.jp = end, !.ok = end = End(p.view)]
  BY DEF Finish
<1> HIDE DEF end
<1> QED BY <1>3, <1>4 DEF ParserTypes

(* After a value the parser has left its loop or is not behind that value,   *)
(* and past a comma that follows it.                                         *)
LEMMA ContinueIs ==
    ASSUME NEW p \in ParserTypes, NEW at \in 1..End(p.view), NEW close
    PROVE  /\ Continue(p, at, close) \in ParserTypes /\ Continue(p, at, close).keys = p.keys
           /\ Continue(p, at, close).data = p.data /\ Continue(p, at, close).view = p.view
           /\ \/ Continue(p, at, close).in = "done"
              \/ /\ Continue(p, at, close).in = p.in /\ Continue(p, at, close).jp \in at..End(p.view)
                 /\ At(p.view, at, ",") => Continue(p, at, close).jp > at
<1> DEFINE c == Continue(p, at, close)
           next == Skip(p.view, at)
<1>1. p.view \in Text /\ End(p.view) \in Nat
  <2>1. p.view \in Text
    BY DEF ParserTypes
  <2> QED BY <2>1, EndIs DEF Text
<1>2. /\ next \in at..End(p.view) /\ (At(p.view, next, close) => next + 1 \in 1..End(p.view))
      /\ (At(p.view, next, ",") => next + 1 \in at..End(p.view))
  <2>1. next \in at..End(p.view)
    BY <1>1, SkipIs
  <2> HIDE DEF next
  <2>2. \A c1 : At(p.view, next, c1) => next < End(p.view)
    BY DEF At
  <2>3. next < End(p.view) => next + 1 \in 1..End(p.view) /\ next + 1 \in at..End(p.view)
    BY <1>1, <2>1
  <2> QED BY <2>1, <2>2, <2>3
<1>3. At(p.view, at, ",") => next = at
  BY <1>1, SkipIs DEF At, White
<1>4. c = IF At(p.view, next, close) THEN Finish(p, next + 1)
          ELSE [p EXCEPT !.jp = IF At(p.view, next, ",") THEN next + 1 ELSE next]
  BY DEF Continue
<1> HIDE DEF next, c
<1>5. ASSUME At(p.view, next, close)
      PROVE  /\ c \in ParserTypes /\ c.keys = p.keys /\ c.data = p.data /\ c.view = p.view
             /\ \/ c.in = "done"
                \/ c.in = p.in /\ c.jp \in at..End(p.view) /\ (At(p.view, at, ",") => c.jp > at)
  BY <1>2, <1>4, <1>5, FinishIs
<1>6. ASSUME ~At(p.view, next, close)
      PROVE  /\ c \in ParserTypes /\ c.keys = p.keys /\ c.data = p.data /\ c.view = p.view
             /\ \/ c.in = "done"
                \/ c.in = p.in /\ c.jp \in at..End(p.view) /\ (At(p.view, at, ",") => c.jp > at)
  <2> DEFINE to == IF At(p.view, next, ",") THEN next + 1 ELSE next
  <2>1. to \in at..End(p.view) /\ to \in Nat \ {0} /\ (At(p.view, at, ",") => to > at)
    <3>1. CASE At(p.view, next, ",")
      <4>1. to = next + 1 /\ next \in at..End(p.view) /\ to \in at..End(p.view)
        BY <1>2, <3>1
      <4> HIDE DEF to, next
      <4>2. to \in Nat \ {0}
        BY <1>1, <4>1
      <4>3. to > at
        BY <1>1, <4>1
      <4> QED BY <4>1, <4>2, <4>3
    <3>2. CASE ~At(p.view, next, ",")
      <4>1. to = next /\ ~At(p.view, at, ",")
        BY <1>3, <3>2
      <4> HIDE DEF to, next
      <4>2. to \in at..End(p.view)
        BY <1>2, <4>1
      <4>3. to \in Nat \ {0}
        BY <1>1, <4>2
      <4> QED BY <4>1, <4>2, <4>3
    <3> QED BY <3>1, <3>2
  <2> HIDE DEF to
  <2>2. c = [p EXCEPT !.jp = to]
    BY <1>4, <1>6 DEF to
  <2> QED BY <2>1, <2>2 DEF ParserTypes
<1> QED BY <1>5, <1>6 DEF c

(* A map with one more entry.                                                *)
LEMMA SetIs ==
    ASSUME NEW d \in Values, NEW k \in Text, NEW v \in Text
    PROVE  /\ Put(d, k, v) \in Values /\ DOMAIN (Put(d, k, v)) = DOMAIN d \cup {k}
<1> DEFINE e == Put(d, k, v)
<1>1. e = [x \in {k} \cup DOMAIN d |-> IF x = k THEN v ELSE d[x]]
  BY DEF Put
<1>2. PICK S \in SUBSET Text : d \in [S -> Text]
  BY DEF Values
<1>3. e \in [S \cup {k} -> Text]
  BY <1>1, <1>2
<1>4. S \cup {k} \in SUBSET Text
  BY <1>2
<1> QED BY <1>1, <1>3, <1>4 DEF Values

(* A list with one more key.                                                 *)
LEMMA MoreKeys ==
    ASSUME NEW ks \in Seq(Text), NEW k \in Text
    PROVE  Append(ks, k) \in Seq(Text) /\ Range(Append(ks, k)) = Range(ks) \cup {k}
BY RangeOfAppend, AppendProperties

(* A pass of the loop over members leaves it or gets further.                *)
LEMMA MemberIs ==
    ASSUME NEW p, Ready(p), p.in = "object"
    PROVE  Ready(Member(p)) /\ Member(p).view = p.view /\ (Member(p).in = "done" \/ Member(p).jp > p.jp)
<1> DEFINE t == p.view
           start == Skip(t, p.jp)
           key == readString(t, start)
           colon == Skip(t, key.at)
           value == readData(t, colon + 1)
           p1 == [p EXCEPT !.keys = Append(@, key.got)]
           p2 == [p EXCEPT !.keys = Append(@, key.got), !.data = Put(@, key.got, value.got)]
<1>1. /\ p \in ParserTypes /\ t \in Text /\ p.jp \in 1..End(t) /\ End(t) \in Nat
      /\ p.keys \in Seq(Text) /\ p.data \in Values /\ DOMAIN p.data \subseteq Range(p.keys)
  <2>1. p \in ParserTypes /\ t \in Text
    BY DEF Ready, ParserTypes
  <2> QED BY <2>1, EndIs DEF Ready, ParserTypes, Text
<1>2. start \in p.jp..End(t) /\ start \in 1..End(t) /\ (At(t, start, "}") => start + 1 \in 1..End(t))
  <2>1. start \in p.jp..End(t)
    BY <1>1, SkipIs
  <2> HIDE DEF start, t
  <2>2. At(t, start, "}") => start < End(t)
    BY DEF At
  <2>3. start \in 1..End(t) /\ (start < End(t) => start + 1 \in 1..End(t))
    BY <1>1, <2>1
  <2> QED BY <2>1, <2>2, <2>3
<1> HIDE DEF t, start
<1>3. /\ key.at \in start..End(t) /\ key.at \in 1..End(t) /\ key.got \in Text
      /\ key.got # << >> => key.at > start
  <2>1. /\ ~At(t, start, Quote) => key = [at |-> start, got |-> << >>]
        /\ At(t, start, Quote) => key.at \in (start + 1)..End(t)
        /\ key.at \in start..End(t) /\ key.got \in Text
    BY <1>1, <1>2, ReadStringIs
  <2> HIDE DEF key
  <2>2. ~At(t, start, Quote) => key.got = << >>
    BY <2>1
  <2>3. key.at \in 1..End(t)
    <3>1. start \in 1..End(t) /\ key.at \in start..End(t) /\ End(t) \in Nat
      BY <1>1, <1>2, <2>1
    <3> HIDE DEF value, colon, p1, p2
    <3> QED BY <3>1
  <2>4. key.at \in (start + 1)..End(t) => key.at > start
    <3> HIDE DEF value, colon, p1, p2
    <3>1. start \in 1..End(t) /\ End(t) \in Nat
      BY <1>1, <1>2
    <3> QED BY <3>1
  <2> QED BY <2>1, <2>2, <2>3, <2>4
<1> HIDE DEF key
<1>4. colon \in key.at..End(t) /\ (At(t, colon, ":") => colon + 1 \in 1..End(t))
  <2>1. colon \in key.at..End(t)
    BY <1>1, <1>3, SkipIs
  <2> HIDE DEF colon
  <2>2. At(t, colon, ":") => colon < End(t)
    BY DEF At
  <2>3. colon < End(t) => colon + 1 \in 1..End(t)
    BY <1>1, <1>3, <2>1
  <2> QED BY <2>1, <2>2, <2>3
<1> HIDE DEF colon
<1>5. At(t, colon, ":") => value.at \in 1..End(t) /\ value.got \in Text /\ value.at > colon
  <2> SUFFICES ASSUME At(t, colon, ":") PROVE value.at \in 1..End(t) /\ value.got \in Text /\ value.at > colon
    OBVIOUS
  <2>1. colon + 1 \in 1..End(t)
    BY <1>4
  <2>2. value.at \in Skip(t, colon + 1)..End(t) /\ value.got \in Text /\ Skip(t, colon + 1) \in (colon + 1)..End(t)
    BY <1>1, <2>1, ReadDataIs, SkipIs
  <2> HIDE DEF value
  <2> QED BY <1>1, <1>3, <1>4, <2>2
<1> HIDE DEF value
<1>6. p1 \in ParserTypes /\ p1.keys = Append(p.keys, key.got) /\ p1.data = p.data /\ p1.view = t /\ p1.in = "object"
  <2>1. Append(p.keys, key.got) \in Seq(Text)
    BY <1>1, <1>3, MoreKeys
  <2> QED BY <1>1, <2>1 DEF ParserTypes, t
<1>7. value.got \in Text => /\ p2 \in ParserTypes /\ p2.keys = Append(p.keys, key.got)
                            /\ p2.data = Put(p.data, key.got, value.got) /\ p2.view = t /\ p2.in = "object"
  <2> SUFFICES ASSUME value.got \in Text
               PROVE  /\ p2 \in ParserTypes /\ p2.keys = Append(p.keys, key.got)
                      /\ p2.data = Put(p.data, key.got, value.got) /\ p2.view = t /\ p2.in = "object"
    OBVIOUS
  <2> DEFINE ks == Append(p.keys, key.got)
             d == Put(p.data, key.got, value.got)
  <2>1. ks \in Seq(Text)
    BY <1>1, <1>3, MoreKeys
  <2>2. d \in Values
    BY <1>1, <1>3, SetIs
  <2>3. p2 = [p EXCEPT !.keys = ks, !.data = d]
    OBVIOUS
  <2> HIDE DEF ks, d, p2
  <2>4. p2 \in ParserTypes /\ p2.keys = ks /\ p2.data = d /\ p2.view = t /\ p2.in = "object"
    BY <1>1, <2>1, <2>2, <2>3 DEF ParserTypes, t
  <2> QED BY <2>4 DEF ks, d
<1>8. Range(Append(p.keys, key.got)) = Range(p.keys) \cup {key.got}
  BY <1>1, <1>3, MoreKeys
<1>9. value.got \in Text => DOMAIN (Put(p.data, key.got, value.got)) = DOMAIN p.data \cup {key.got}
  BY <1>1, <1>3, SetIs
<1> HIDE DEF p1, p2
<1>10. Member(p) = IF At(t, start, "}") THEN Finish(p, start + 1)
                   ELSE IF key.got = << >> THEN Fails(p)
                   ELSE IF ~At(t, colon, ":") THEN Fails(p1)
                   ELSE Continue(p2, value.at, "}")
  BY Zenon DEF Member, t, start, key, colon, value, p1, p2
<1> DEFINE m == Member(p)
<1>11. CASE At(t, start, "}")
  <2>1. m = Finish(p, start + 1)
    BY <1>10, <1>11
  <2>2. m \in ParserTypes /\ m.in = "done" /\ m.keys = p.keys /\ m.data = p.data /\ m.view = p.view
    BY <1>1, <1>2, <1>11, <2>1, FinishIs DEF t
  <2> HIDE DEF m
  <2>3. Ready(m) /\ m.view = p.view /\ m.in = "done"
    BY <1>1, <2>2 DEF Ready
  <2> QED BY <2>3 DEF m
<1>12. CASE ~At(t, start, "}") /\ key.got = << >>
  <2>1. m = Fails(p)
    BY <1>10, <1>12
  <2>2. m \in ParserTypes /\ m.in = "done" /\ m.keys = p.keys /\ m.data = p.data /\ m.view = p.view
    BY <1>1, <2>1, FailsIs
  <2> HIDE DEF m
  <2>3. Ready(m) /\ m.view = p.view /\ m.in = "done"
    BY <1>1, <2>2 DEF Ready
  <2> QED BY <2>3 DEF m
<1>13. CASE ~At(t, start, "}") /\ key.got # << >> /\ ~At(t, colon, ":")
  <2>1. m = Fails(p1)
    BY <1>10, <1>13
  <2>2. m \in ParserTypes /\ m.in = "done" /\ m.keys = p1.keys /\ m.data = p1.data /\ m.view = p1.view
    BY <1>6, <2>1, FailsIs
  <2> HIDE DEF m
  <2>3. DOMAIN m.data \subseteq Range(m.keys)
    BY <1>1, <1>6, <1>8, <2>2
  <2>4. Ready(m) /\ m.view = p.view /\ m.in = "done"
    BY <1>6, <2>2, <2>3 DEF Ready, t
  <2> QED BY <2>4 DEF m
<1>14. CASE ~At(t, start, "}") /\ key.got # << >> /\ At(t, colon, ":")
  <2>1. m = Continue(p2, value.at, "}") /\ p2 \in ParserTypes /\ p2.view = t /\ value.at \in 1..End(p2.view)
    BY <1>5, <1>7, <1>10, <1>14
  <2>2. /\ m \in ParserTypes /\ m.keys = p2.keys /\ m.data = p2.data /\ m.view = p2.view
        /\ m.in = "done" \/ (m.in = p2.in /\ m.jp \in value.at..End(p2.view))
    <3> HIDE DEF m
    <3> QED BY <2>1, ContinueIs
  <2> HIDE DEF m
  <2>3. DOMAIN m.data \subseteq Range(m.keys)
    <3>1. DOMAIN m.data = DOMAIN p.data \cup {key.got}
      BY <1>5, <1>7, <1>9, <1>14, <2>2
    <3>2. Range(m.keys) = Range(p.keys) \cup {key.got}
      BY <1>5, <1>7, <1>8, <1>14, <2>2
    <3> QED BY <1>1, <3>1, <3>2
  <2>4. m.view = p.view
    BY <2>1, <2>2 DEF t
  <2>5. m.in # "done" => m.jp \in 1..End(t) /\ m.jp > p.jp
    <3> SUFFICES ASSUME m.in # "done" PROVE m.jp \in 1..End(t) /\ m.jp > p.jp
      OBVIOUS
    <3>1. m.jp \in value.at..End(t) /\ value.at \in 1..End(t) /\ value.at > colon
      BY <1>5, <1>14, <2>1, <2>2
    <3>2. colon \in key.at..End(t) /\ key.at > start /\ key.at \in start..End(t) /\ start \in p.jp..End(t)
      BY <1>2, <1>3, <1>4, <1>14
    <3>3. m.jp \in 1..End(t)
      BY <1>1, <3>1
    <3> QED BY <1>1, <3>1, <3>2, <3>3
  <2>6. Ready(m)
    BY <2>2, <2>3, <2>4, <2>5 DEF Ready, t
  <2> QED BY <2>4, <2>5, <2>6 DEF m
<1> QED BY <1>11, <1>12, <1>13, <1>14

(* A pass of the loop over elements leaves it, gets further or is before an  *)
(* element that begins no value.                                             *)
LEMMA ElementIs ==
    ASSUME NEW p, Ready(p), p.in = "array"
    PROVE  /\ Ready(Element(p)) /\ Element(p).view = p.view
           /\ \/ Element(p).in = "done" \/ Element(p).jp > p.jp
              \/ p.jp = End(p.view) \/ Stray(p)
<1> DEFINE t == p.view
           start == Skip(t, p.jp)
           value == readData(t, start)
           p1 == [p EXCEPT !.arrayData = IF value.got = << >> THEN @ ELSE Append(@, value.got)]
           e == Element(p)
<1>1. /\ p \in ParserTypes /\ t \in Text /\ p.jp \in 1..End(t) /\ End(t) \in Nat
      /\ p.arrayData \in Seq(Text) /\ DOMAIN p.data \subseteq Range(p.keys)
  <2>1. p \in ParserTypes /\ t \in Text
    BY DEF Ready, ParserTypes
  <2> QED BY <2>1, EndIs DEF Ready, ParserTypes, Text
<1>2. start \in p.jp..End(t) /\ start \in 1..End(t) /\ (At(t, start, "]") => start + 1 \in 1..End(t))
  <2>1. start \in p.jp..End(t)
    BY <1>1, SkipIs
  <2> HIDE DEF start, t
  <2>2. At(t, start, "]") => start < End(t)
    BY DEF At
  <2>3. start \in 1..End(t) /\ (start < End(t) => start + 1 \in 1..End(t))
    BY <1>1, <2>1
  <2> QED BY <2>1, <2>2, <2>3
<1>3. start = End(t) \/ t[start] \notin White
  BY <1>1, SkipIs
<1>4. start < End(t) => Skip(t, start) = start
  BY <1>1, <1>2, <1>3, SkipIs
<1> HIDE DEF t, start
<1>5. /\ value.at \in start..End(t) /\ value.at \in 1..End(t) /\ value.got \in Text
      /\ start < End(t) /\ t[start] \in Begins => value.at > start
  <2>1. /\ value.at \in Skip(t, start)..End(t) /\ value.got \in Text
        /\ Skip(t, start) < End(t) /\ t[Skip(t, start)] \in Begins => value.at \in (Skip(t, start) + 1)..End(t)
        /\ Skip(t, start) \in start..End(t)
    BY <1>1, <1>2, ReadDataIs, SkipIs
  <2> HIDE DEF value, p1, e
  <2>2. value.at \in start..End(t)
    BY <1>1, <1>2, <2>1
  <2>3. value.at \in 1..End(t)
    BY <1>1, <1>2, <2>2
  <2>4. ASSUME start < End(t), t[start] \in Begins PROVE value.at > start
    <3>1. value.at \in (start + 1)..End(t)
      BY <1>4, <2>1, <2>4
    <3> QED BY <1>1, <1>2, <3>1
  <2> QED BY <2>1, <2>2, <2>3, <2>4
<1>6. value.at = start => (At(t, value.at, ",") <=> (start < End(t) /\ t[start] = ","))
  BY DEF At
<1> HIDE DEF value, e
<1>7. p1 \in ParserTypes /\ p1.keys = p.keys /\ p1.data = p.data /\ p1.view = t /\ p1.in = "array"
  <2> DEFINE a == IF value.got = << >> THEN p.arrayData ELSE Append(p.arrayData, value.got)
  <2>1. a \in Seq(Text)
    BY <1>1, <1>5, MoreKeys
  <2>2. p1 = [p EXCEPT !.arrayData = a]
    OBVIOUS
  <2> HIDE DEF a, p1
  <2> QED BY <1>1, <2>1, <2>2 DEF ParserTypes, t
<1> HIDE DEF p1
<1>8. e = IF At(t, start, "]") THEN Finish(p, start + 1) ELSE Continue(p1, value.at, "]")
  BY Zenon DEF Element, t, start, value, p1, e
<1>9. CASE At(t, start, "]")
  <2>1. e = Finish(p, start + 1)
    BY <1>8, <1>9
  <2>2. e \in ParserTypes /\ e.in = "done" /\ e.keys = p.keys /\ e.data = p.data /\ e.view = p.view
    BY <1>1, <1>2, <1>9, <2>1, FinishIs DEF t
  <2>3. Ready(e) /\ e.view = p.view /\ e.in = "done"
    BY <1>1, <2>2 DEF Ready
  <2> QED BY <2>3 DEF e
<1>10. CASE ~At(t, start, "]")
  <2>1. e = Continue(p1, value.at, "]") /\ value.at \in 1..End(p1.view)
    BY <1>5, <1>7, <1>8, <1>10
  <2>2. /\ e \in ParserTypes /\ e.keys = p1.keys /\ e.data = p1.data /\ e.view = p1.view
        /\ \/ e.in = "done"
           \/ e.in = p1.in /\ e.jp \in value.at..End(t) /\ (At(t, value.at, ",") => e.jp > value.at)
    BY <1>7, <2>1, ContinueIs
  <2>3. e.in # "done" => e.jp \in 1..End(t)
    <3>1. End(t) \in Nat /\ value.at \in 1..End(t) /\ (e.in # "done" => e.jp \in value.at..End(t))
      BY <1>1, <1>5, <2>2
    <3> QED BY <3>1
  <2>4. Ready(e) /\ e.view = p.view
    BY <1>1, <1>7, <2>2, <2>3 DEF Ready, t
  <2>5. e.in = "done" \/ e.jp > p.jp \/ p.jp = End(t) \/ Stray(p)
    <3> SUFFICES ASSUME e.in # "done", p.jp # End(t), ~Stray(p) PROVE e.jp > p.jp
      OBVIOUS
    <3>1. /\ p.jp \in Nat /\ start \in Nat /\ value.at \in Nat /\ e.jp \in Nat /\ p.jp < End(t)
          /\ p.jp <= start /\ start <= value.at /\ value.at <= e.jp
      <4>1. /\ p.jp \in 1..End(t) /\ start \in p.jp..End(t) /\ value.at \in start..End(t)
            /\ e.jp \in value.at..End(t) /\ End(t) \in Nat
        BY <1>1, <1>2, <1>5, <2>2
      <4> QED BY <4>1
    <3>2. start < End(t) \/ start = End(t)
      BY <1>1, <1>2
    <3>3. CASE start = End(t)
      BY <3>1, <3>3
    <3>4. CASE start < End(t)
      <4>1. t[start] \in Known /\ t[start] # "]"
        BY <1>10, <3>4 DEF At, Stray, t, start
      <4>2. CASE t[start] \in Begins
        <5>1. value.at > start
          BY <1>5, <3>4, <4>2
        <5> QED BY <3>1, <5>1
      <4>3. CASE t[start] = ","
        <5>1. value.at = start => e.jp > value.at
          BY <1>6, <2>2, <3>4, <4>3
        <5> QED BY <3>1, <5>1
      <4> QED BY <4>1, <4>2, <4>3 DEF Known, Begins
    <3> QED BY <3>2, <3>3, <3>4
  <2> QED BY <2>4, <2>5 DEF e, t, start
<1> QED BY <1>9, <1>10

(* A pass of either loop, at the end of the text included.                   *)
LEMMA LoopIs ==
    ASSUME NEW p, Ready(p), p.in \in {"object", "array"}
    PROVE  /\ Ready(Loop(p)) /\ Loop(p).view = p.view
           /\ Loop(p).in = "done" \/ Loop(p).jp > p.jp \/ Stray(p)
<1>1. p \in ParserTypes /\ p.jp \in 1..End(p.view)
  BY DEF Ready
<1>2. CASE p.jp = End(p.view)
  <2>1. Loop(p) = Finish(p, p.jp)
    BY <1>2 DEF Loop
  <2>2. /\ Finish(p, p.jp) \in ParserTypes /\ Finish(p, p.jp).in = "done"
        /\ Finish(p, p.jp).keys = p.keys /\ Finish(p, p.jp).data = p.data /\ Finish(p, p.jp).view = p.view
    BY <1>1, FinishIs
  <2> QED BY <2>1, <2>2 DEF Ready
<1>3. CASE p.jp # End(p.view) /\ p.in = "object"
  <2>1. Loop(p) = Member(p)
    BY <1>3 DEF Loop
  <2> QED BY <1>3, <2>1, MemberIs
<1>4. CASE p.jp # End(p.view) /\ p.in = "array"
  <2>1. Loop(p) = Element(p)
    BY <1>4 DEF Loop
  <2> QED BY <1>4, <2>1, ElementIs
<1> QED BY <1>2, <1>3, <1>4

(* The constructor.                                                            *)
LEMMA ParserIs ==
    ASSUME NEW t \in Text
    PROVE  Ready(Parser(t)) /\ Parser(t).view = t /\ Parser(t).in \in {"object", "array", "done"}
<1> DEFINE start == Skip(t, 1)
           p == [NoParser EXCEPT !.view = t, !.jp = start + 1]
<1>1. Len(t) \in Nat /\ End(t) = Len(t) + 1 /\ 1 \in 1..End(t)
  BY EndIs DEF Text
<1>2. start \in 1..End(t)
  BY <1>1, SkipIs
<1> HIDE DEF start
<1>3. start + 1 \in Nat \ {0} /\ \A c : At(t, start, c) => start + 1 \in 1..End(t)
  <2>1. \A c : At(t, start, c) => start < End(t)
    BY DEF At
  <2>2. start < End(t) => start + 1 \in 1..End(t)
    BY <1>1, <1>2
  <2> QED BY <1>1, <1>2, <2>1, <2>2
<1>5. << >> \in Seq(Text) /\ << >> \in Values /\ DOMAIN << >> = {} /\ Range(<< >>) = {}
  <2>1. << >> \in [{} -> Text]
    OBVIOUS
  <2>2. {} \in SUBSET Text
    OBVIOUS
  <2> QED BY <2>1, <2>2, EmptySeq DEF Values, Range
<1>6. p \in ParserTypes /\ p.view = t /\ p.jp = start + 1 /\ p.keys = << >> /\ p.data = << >>
  <2>1. NoParser \in ParserTypes /\ NoParser.keys = << >> /\ NoParser.data = << >>
    BY <1>5, EmptySeq DEF NoParser, ParserTypes, Text
  <2> QED BY <1>3, <2>1 DEF ParserTypes
<1> HIDE DEF p
<1> DEFINE q(in) == [p EXCEPT !.in = in]
<1>7. \A in \in {"object", "array"} : /\ q(in) \in ParserTypes /\ q(in).view = t /\ q(in).jp = start + 1 /\ q(in).in = in
                                     /\ q(in).keys = << >> /\ q(in).data = << >>
  BY <1>6 DEF ParserTypes
<1> HIDE DEF q
<1>8. Parser(t) = IF At(t, start, "[") THEN q("array") ELSE IF At(t, start, "{") THEN q("object") ELSE Fails(p)
  BY DEF Parser, start, p, q
<1>9. CASE At(t, start, "[")
  <2>1. Parser(t) = q("array") /\ start + 1 \in 1..End(t)
    BY <1>3, <1>8, <1>9
  <2> QED BY <1>5, <1>7, <2>1 DEF Ready
<1>10. CASE ~At(t, start, "[") /\ At(t, start, "{")
  <2>1. Parser(t) = q("object") /\ start + 1 \in 1..End(t)
    BY <1>3, <1>8, <1>10
  <2> QED BY <1>5, <1>7, <2>1 DEF Ready
<1>11. CASE ~At(t, start, "[") /\ ~At(t, start, "{")
  <2>1. Parser(t) = Fails(p)
    BY <1>8, <1>11
  <2>2. Fails(p) \in ParserTypes /\ Fails(p).in = "done" /\ Fails(p).keys = p.keys /\ Fails(p).data = p.data /\ Fails(p).view = p.view
    BY <1>6, FailsIs
  <2> QED BY <1>5, <1>6, <2>1, <2>2 DEF Ready
<1> QED BY <1>9, <1>10, <1>11
--------------------------------------------------------------------------------
(* What the writer writes is text.                                             *)

(* A recursion whose steps go down by more than one.                           *)
IsWayDown(f, Base, first, step, before) ==
    f = [n \in Nat |-> IF n \in Base THEN first[n] ELSE step[n][f[before[n]]]]

(* A recursion to smaller numbers, however much smaller, has a value at each *)
(* of them.                                                                  *)
LEMMA StepsDown ==
    ASSUME NEW T, NEW Base \in SUBSET Nat, NEW first \in [Nat -> T], NEW step \in [Nat -> [T -> T]],
           NEW before \in [Nat -> Nat], \A n \in Nat \ Base : before[n] < n
    PROVE  \E f : IsWayDown(f, Base, first, step, before)
<1> DEFINE Value(w, n) == IF n \in Base THEN first[n] ELSE step[n][w[before[n]]]
           Good(w, n) == \A k \in 0..n : w[k] = Value(w, k)
           P == {n \in Nat : \E w \in [0..n -> T] : Good(w, n)}
<1>1. ASSUME NEW n \in Nat, NEW w, NEW v, \A k \in 0..(n - 1) : w[k] = v[k]
      PROVE  Value(w, n) = Value(v, n)
  <2>1. n \notin Base => before[n] \in 0..(n - 1)
    OBVIOUS
  <2> QED BY <1>1, <2>1
<1>2. ASSUME NEW n \in Nat, NEW w \in [0..(n - 1) -> T] PROVE Value(w, n) \in T
  <2>1. n \notin Base => before[n] \in 0..(n - 1)
    OBVIOUS
  <2> QED BY <1>2, <2>1
<1> HIDE DEF Value
<1>3. ASSUME NEW n \in Nat, NEW w \in [0..(n - 1) -> T], \A k \in 0..(n - 1) : w[k] = Value(w, k)
      PROVE  n \in P
  <2> DEFINE v == [k \in 0..n |-> IF k = n THEN Value(w, n) ELSE w[k]]
  <2>1. Value(w, n) \in T
    BY <1>2
  <2>2. \A k \in 0..n : k # n => k \in 0..(n - 1)
    OBVIOUS
  <2>3. v \in [0..n -> T]
    BY <2>1, <2>2
  <2>4. v[n] = Value(w, n) /\ \A k \in 0..(n - 1) : v[k] = w[k]
    OBVIOUS
  <2> HIDE DEF v
  <2>5. ASSUME NEW k \in 0..n PROVE v[k] = Value(v, k)
    <3>1. k \in Nat /\ \A j \in 0..(k - 1) : j \in 0..(n - 1)
      OBVIOUS
    <3>2. Value(w, k) = Value(v, k)
      BY <1>1, <2>4, <3>1
    <3> QED BY <1>3, <2>2, <2>4, <3>2
  <2> QED BY <2>3, <2>5
<1>4. 0 \in P
  <2>1. [k \in 0..(0 - 1) |-> k] \in [0..(0 - 1) -> T] /\ 0..(0 - 1) = {}
    OBVIOUS
  <2> HIDE DEF P
  <2> QED BY <1>3, <2>1
<1>5. ASSUME NEW n \in Nat, n \in P PROVE n + 1 \in P
  <2>1. PICK w \in [0..n -> T] : Good(w, n)
    BY <1>5
  <2>2. (n + 1) - 1 = n /\ n + 1 \in Nat
    OBVIOUS
  <2> HIDE DEF P
  <2> QED BY <1>3, <2>1, <2>2
<1>6. \A n \in Nat : \E w \in [0..n -> T] : Good(w, n)
  <2>1. Nat \subseteq P
    <3> HIDE DEF P
    <3> QED BY <1>4, <1>5, EveryNumber
  <2> QED BY <2>1
<1> HIDE DEF P
<1>7. ASSUME NEW m \in Nat, NEW n \in Nat, NEW w, NEW v, Good(w, m), Good(v, n), m <= n
      PROVE  \A k \in 0..m : w[k] = v[k]
  <2> DEFINE Bad == {k \in 0..m : w[k] # v[k]}
  <2> SUFFICES ASSUME Bad # {} PROVE FALSE
    OBVIOUS
  <2>1. PICK b \in Bad : \A k \in Bad : b <= k
    <3>1. Bad \in SUBSET Nat
      OBVIOUS
    <3> HIDE DEF Bad
    <3> QED BY <3>1, LeastNumber
  <2>2. b \in Nat /\ b \in 0..m /\ b \in 0..n /\ w[b] # v[b]
    BY <1>7
  <2>3. \A k \in 0..(b - 1) : w[k] = v[k]
    <3>1. \A k \in 0..(b - 1) : k \in 0..m /\ ~(b <= k)
      BY <2>2
    <3> QED BY <2>1, <3>1
  <2>4. Value(w, b) = Value(v, b)
    BY <1>1, <2>2, <2>3
  <2> QED BY <1>7, <2>2, <2>4
<1> DEFINE way == [n \in Nat |-> CHOOSE w \in [0..n -> T] : Good(w, n)]
           f == [n \in Nat |-> way[n][n]]
<1>8. \A n \in Nat : way[n] \in [0..n -> T] /\ Good(way[n], n)
  <2> HIDE DEF Good
  <2> QED BY <1>6
<1> HIDE DEF way
<1>9. ASSUME NEW n \in Nat PROVE f[n] = Value(f, n)
  <2>1. ASSUME NEW k \in 0..(n - 1) PROVE way[n][k] = f[k]
    <3>1. k \in Nat /\ k <= n /\ k \in 0..k
      OBVIOUS
    <3>2. \A j \in 0..k : way[k][j] = way[n][j]
      <4> HIDE DEF Good, f
      <4>1. Good(way[k], k) /\ Good(way[n], n)
        BY <1>8, <3>1
      <4> DEFINE w == way[k]
                 v == way[n]
      <4>2. Good(w, k) /\ Good(v, n) /\ k \in Nat /\ n \in Nat /\ k <= n
        BY <3>1, <4>1
      <4> HIDE DEF w, v
      <4>3. \A j \in 0..k : w[j] = v[j]
        BY <1>7, <4>2
      <4> QED BY <4>3 DEF w, v
    <3> QED BY <3>1, <3>2
  <2>2. n \in 0..n
    OBVIOUS
  <2>3. f[n] = Value(way[n], n)
    BY <1>8, <2>2
  <2> HIDE DEF f, Good
  <2> QED BY <1>1, <2>1, <2>3
<1>10. f = [n \in Nat |-> Value(f, n)]
  <2>1. f = [n \in Nat |-> f[n]]
    OBVIOUS
  <2> HIDE DEF f
  <2> QED BY <1>9, <2>1
<1> HIDE DEF f
<1> QED BY <1>10 DEF Value, IsWayDown

(* A sequence over a set is one over every larger set.                       *)
LEMMA MoreElements == ASSUME NEW A, NEW B, A \subseteq B PROVE Seq(A) \subseteq Seq(B)
OBVIOUS

(* What the application gives are texts.                                     *)
LEMMA CharactersAre == Seq(STRING) \subseteq Text /\ Seq(Seq(STRING)) \subseteq Seq(Text)
<1>1. STRING \subseteq Character
  BY DEF Character
<1>2. Seq(STRING) \subseteq Text
  BY <1>1, MoreElements DEF Text
<1> QED BY <1>2, MoreElements

(* A sequence of one element.                                                *)
LEMMA OneInSeq == ASSUME NEW T, NEW e \in T PROVE <<e>> \in Seq(T)
OBVIOUS

(* A text of one character.                                                  *)
LEMMA OneCharacter == ASSUME NEW c, c \in Character PROVE <<c>> \in Text
BY OneInSeq DEF Text

(* Two texts make a text.                                                    *)
LEMMA TextsJoined == ASSUME NEW u \in Text, NEW v \in Text PROVE u \o v \in Text
BY ConcatInSeq DEF Text

(* Sequences put one behind the other make a sequence.                       *)
LEMMA FlattenTyped ==
    ASSUME NEW S, NEW seqs \in Seq(Seq(S))
    PROVE  FlattenSeq(seqs) \in Seq(S)
<1> DEFINE P == {ss \in Seq(Seq(S)) : FlattenSeq(ss) \in Seq(S)}
<1>1. << >> \in P
  BY FlattenNothing, EmptySeq
<1>2. ASSUME NEW ss \in Seq(Seq(S)), NEW e \in Seq(S), ss \in P PROVE Append(ss, e) \in P
  <2>1. Append(ss, e) \in Seq(Seq(S)) /\ FlattenSeq(Append(ss, e)) = FlattenSeq(ss) \o e
    BY FlattenMore, AppendProperties
  <2> QED BY <1>2, <2>1, ConcatInSeq
<1> HIDE DEF P
<1>3. Seq(Seq(S)) \subseteq P
  BY <1>1, <1>2, EverySequence
<1> QED BY <1>3 DEF P

(* The digits of a number are a text: the recursion by tenths of to_string.  *)
LEMMA DecimalTyped ==
    ASSUME NEW n \in Nat
    PROVE  to_string(n) \in Text
<1> DEFINE Base == 0..9
           first == [i \in Nat |-> IF i < 10 THEN <<Digits[i + 1]>> ELSE << >>]
           step == [i \in Nat |-> [x \in Text |-> Append(x, Digits[(i % 10) + 1])]]
           before == [i \in Nat |-> i \div 10]
           Is(f) == f = [i \in Nat |-> IF i < 10 THEN <<Digits[i + 1]>>
                                       ELSE Append(f[i \div 10], Digits[(i % 10) + 1])]
<1>1. \A i \in 0..9 : Digits[i + 1] \in Character
  <2>1. \A i \in 1..10 : Digits[i] \in {"0", "1", "2", "3", "4", "5", "6", "7", "8", "9"}
    BY DEF Digits
  <2>2. {"0", "1", "2", "3", "4", "5", "6", "7", "8", "9"} \subseteq Character
    BY DigitIs DEF Character
  <2>3. \A i \in 0..9 : i + 1 \in 1..10
    OBVIOUS
  <2> QED BY <2>1, <2>2, <2>3
<1>2. \A i \in Nat : i % 10 \in 0..9 /\ i \div 10 \in Nat /\ (i >= 10 => i \div 10 < i)
  OBVIOUS
<1>3. first \in [Nat -> Text]
  <2>1. \A i \in Nat : i < 10 => Digits[i + 1] \in Character
    BY <1>1
  <2> QED BY <2>1, OneCharacter, EmptySeq DEF Text
<1>4. step \in [Nat -> [Text -> Text]]
  <2>1. \A i \in Nat : Digits[(i % 10) + 1] \in Character
    BY <1>1, <1>2
  <2>2. \A i \in Nat, x \in Text : Append(x, Digits[(i % 10) + 1]) \in Text
    BY <2>1, AppendProperties DEF Text
  <2> QED BY <2>2
<1>5. before \in [Nat -> Nat] /\ Base \in SUBSET Nat /\ \A i \in Nat \ Base : before[i] < i
  BY <1>2
<1> HIDE DEF Base, first, step, before
<1>6. PICK g : IsWayDown(g, Base, first, step, before)
  BY <1>3, <1>4, <1>5, StepsDown
<1>7. PICK f : f = [i \in Nat |-> IF i \in Base THEN first[i] ELSE step[i][f[before[i]]]]
  BY <1>6 DEF IsWayDown
<1>8. \A i \in Nat : /\ i \in Base => f[i] = first[i]
                     /\ i \notin Base => before[i] \in Nat /\ before[i] < i /\ f[i] = step[i][f[before[i]]]
  <2>1. \A i \in Nat : f[i] = IF i \in Base THEN first[i] ELSE step[i][f[before[i]]]
    BY <1>7
  <2> QED BY <1>5, <2>1
<1>9. \A i \in Nat : f[i] \in Text
  <2> DEFINE Bad == {i \in Nat : f[i] \notin Text}
  <2> SUFFICES ASSUME Bad # {} PROVE FALSE
    OBVIOUS
  <2>1. PICK b \in Bad : \A i \in Bad : b <= i
    <3>1. Bad \in SUBSET Nat
      OBVIOUS
    <3> HIDE DEF Bad
    <3> QED BY <3>1, LeastNumber
  <2>2. b \in Nat /\ f[b] \notin Text
    OBVIOUS
  <2>3. b \notin Base
    BY <1>3, <1>8, <2>2
  <2>4. before[b] \in Nat /\ ~(b <= before[b]) /\ f[b] = step[b][f[before[b]]]
    BY <1>8, <2>2, <2>3
  <2>5. f[before[b]] \in Text
    BY <2>1, <2>4
  <2>6. step[b][f[before[b]]] \in Text
    BY <1>4, <2>2, <2>5
  <2> QED BY <2>2, <2>4, <2>6
<1>10. Is(f)
  <2>1. ASSUME NEW i \in Nat
        PROVE  f[i] = IF i < 10 THEN <<Digits[i + 1]>> ELSE Append(f[i \div 10], Digits[(i % 10) + 1])
    <3>1. CASE i < 10
      <4>1. i \in Base
        BY <3>1 DEF Base
      <4> QED BY <1>8, <3>1, <4>1 DEF first
    <3>2. CASE ~(i < 10)
      <4>1. i \notin Base /\ before[i] = i \div 10
        BY <3>2 DEF Base, before
      <4>2. f[i] = step[i][f[i \div 10]] /\ f[i \div 10] \in Text
        BY <1>2, <1>8, <1>9, <4>1
      <4> QED BY <3>2, <4>2 DEF step
    <3> QED BY <3>1, <3>2
  <2>2. f = [i \in Nat |-> f[i]]
    BY <1>7
  <2> QED BY <2>1, <2>2
<1> DEFINE decimal == CHOOSE h : Is(h)
<1>11. Is(decimal)
  <2> HIDE DEF Is
  <2> QED BY <1>10
<1>12. to_string(n) = decimal[n]
  <2>1. to_string(n) = IF n < 0 THEN <<"-">> \o decimal[-n] ELSE decimal[n]
    BY Zenon DEF to_string
  <2> HIDE DEF decimal
  <2> QED BY <2>1
<1> HIDE DEF decimal
<1>13. \A i \in Nat : decimal[i] \in Text
  <2> DEFINE Bad == {i \in Nat : decimal[i] \notin Text}
  <2> SUFFICES ASSUME Bad # {} PROVE FALSE
    OBVIOUS
  <2>1. PICK b \in Bad : \A i \in Bad : b <= i
    <3>1. Bad \in SUBSET Nat
      OBVIOUS
    <3> HIDE DEF Bad
    <3> QED BY <3>1, LeastNumber
  <2>2. b \in Nat /\ decimal[b] \notin Text
    OBVIOUS
  <2>3. decimal[b] = IF b < 10 THEN <<Digits[b + 1]>> ELSE Append(decimal[b \div 10], Digits[(b % 10) + 1])
    BY <1>11, <2>2
  <2>4. b >= 10
    <3> SUFFICES ASSUME b < 10 PROVE FALSE
      BY <2>2
    <3>1. Digits[b + 1] \in Character /\ decimal[b] = <<Digits[b + 1]>>
      BY <1>1, <2>2, <2>3
    <3>2. <<Digits[b + 1]>> \in Text
      BY <3>1, OneCharacter
    <3> QED BY <2>2, <3>1, <3>2
  <2>5. decimal[b \div 10] \in Text /\ Digits[(b % 10) + 1] \in Character
    <3>1. b \div 10 \in Nat /\ ~(b <= b \div 10)
      BY <1>2, <2>2, <2>4
    <3> QED BY <1>1, <1>2, <2>1, <2>2, <3>1
  <2>6. decimal[b] = Append(decimal[b \div 10], Digits[(b % 10) + 1])
    BY <2>2, <2>3, <2>4
  <2> QED BY <2>2, <2>5, <2>6, AppendProperties DEF Text
<1> QED BY <1>12, <1>13

(* to_string writes a text, also of a number below zero.                     *)
LEMMA ToStringTyped ==
    ASSUME NEW n \in Int
    PROVE  to_string(n) \in Text
<1> DEFINE decimal == CHOOSE f : f = [i \in Nat |-> IF i < 10 THEN <<Digits[i + 1]>>
                                                    ELSE Append(f[i \div 10], Digits[(i % 10) + 1])]
<1>1. \A m : to_string(m) = IF m < 0 THEN <<"-">> \o decimal[-m] ELSE decimal[m]
  BY Zenon DEF to_string
<1> HIDE DEF decimal
<1>2. \A m \in Nat : decimal[m] \in Text
  <2> TAKE m \in Nat
  <2>1. ~(m < 0)
    OBVIOUS
  <2>2. to_string(m) = decimal[m]
    BY <1>1, <2>1
  <2> QED BY <2>2, DecimalTyped
<1>3. "-" \in Character
  BY DEF Character, Mark
<1>4. n < 0 => <<"-">> \o decimal[-n] \in Text
  <2>1. <<"-">> \in Text
    BY <1>3, OneCharacter
  <2>2. n < 0 => decimal[-n] \in Text
    <3>1. n < 0 => -n \in Nat
      OBVIOUS
    <3> QED BY <1>2, <3>1
  <2> QED BY <2>1, <2>2, TextsJoined
<1>5. ~(n < 0) => decimal[n] \in Text
  BY <1>2
<1> QED BY <1>1, <1>4, <1>5

(* So does the one of numbers with a fraction.                               *)
LEMMA TenthsTyped ==
    ASSUME NEW n \in Int
    PROVE  to_stringTenths(n) \in Text
<1> DEFINE size == IF n < 0 THEN -n ELSE n
           sign == IF n < 0 THEN <<"-">> ELSE << >>
           whole == to_string(size \div 10)
           tenth == to_string(size % 10)
<1>1. size \in Nat
  OBVIOUS
<1> HIDE DEF size
<1>2. size \div 10 \in Int /\ size % 10 \in Int
  BY <1>1
<1>3. whole \in Text /\ tenth \in Text
  BY <1>2, ToStringTyped
<1>4. "-" \in Character /\ "." \in Character
  BY DEF Character, Mark
<1>5. sign \in Text /\ <<".">> \in Text
  BY <1>4, OneCharacter, EmptySeq DEF Text
<1> HIDE DEF sign, whole, tenth
<1>6. to_stringTenths(n) = sign \o whole \o <<".">> \o tenth
  BY Zenon DEF to_stringTenths, sign, whole, tenth, size
<1> QED BY <1>3, <1>5, <1>6, TextsJoined

(* A character is escaped as a text.                                         *)
LEMMA EscapeTyped ==
    ASSUME NEW c, c \in Character
    PROVE  Escape(c) \in Text
<1>1. /\ Backslash \in Character /\ "n" \in Character /\ "t" \in Character /\ "u" \in Character /\ "b" \in Character
      /\ "0" \in Character /\ "1" \in Character
  BY DigitIs DEF Character, Mark
<1>2. \A a, b \in Character : <<a, b>> \in Text
  BY DEF Text
<1>3. \A a, b, d, e, f, g \in Character : <<a, b, d, e, f, g>> \in Text
  BY DEF Text
<1>4. CASE c \in {Quote, Backslash}
  <2>1. Escape(c) = <<Backslash, c>>
    BY <1>4 DEF Escape, Quote, Backslash
  <2> QED BY <1>1, <1>2, <2>1
<1>6. CASE c = "\n"
  <2>1. Escape(c) = <<Backslash, "n">>
    BY <1>6 DEF Escape, Quote, Backslash
  <2> QED BY <1>1, <1>2, <2>1
<1>7. CASE c = "\t"
  <2>1. Escape(c) = <<Backslash, "t">>
    BY <1>7 DEF Escape, Quote, Backslash
  <2> QED BY <1>1, <1>2, <2>1
<1>8. CASE c = "esc"
  <2>1. Escape(c) = <<Backslash, "u", "0", "0", "1", "b">>
    BY <1>8 DEF Escape, Quote, Backslash
  <2> QED BY <1>1, <1>3, <2>1
<1>9. CASE c \notin {Quote, Backslash, "\n", "\t", "esc"}
  <2>1. Escape(c) = <<c>>
    BY <1>9 DEF Escape
  <2> QED BY <2>1, OneCharacter
<1> QED BY <1>4, <1>6, <1>7, <1>8, <1>9

(* A string is escaped and quoted as a text.                                 *)
LEMMA StringWrittenTyped ==
    ASSUME NEW t \in Text
    PROVE  escapeJson(t) \in Text /\ stringToString(t) \in Text
<1> DEFINE parts == [i \in DOMAIN t |-> Escape(t[i])]
<1>1. Len(t) \in Nat /\ DOMAIN t = 1..Len(t) /\ \A i \in 1..Len(t) : t[i] \in Character
  BY EndIs, LenProperties DEF Text
<1>2. parts \in Seq(Text)
  <2>1. \A i \in 1..Len(t) : Escape(t[i]) \in Text
    BY <1>1, EscapeTyped
  <2> QED BY <1>1, <2>1
<1> HIDE DEF parts
<1>3. escapeJson(t) = FlattenSeq(parts)
  BY DEF escapeJson, parts
<1>4. escapeJson(t) \in Text
  BY <1>2, <1>3, FlattenTyped DEF Text
<1>5. <<Quote>> \in Text
  <2>1. Quote \in Character
    BY DEF Character, Mark
  <2> QED BY <2>1, OneCharacter
<1> QED BY <1>4, <1>5, TextsJoined DEF stringToString

(* A value is written as a text, raw or as a string.                         *)
LEMMA WrittenTyped == ASSUME NEW v \in Text PROVE Written(v) \in Text
BY StringWrittenTyped DEF Written

(* Texts with commas between them make a text.                               *)
LEMMA ListTyped ==
    ASSUME NEW parts \in Seq(Text)
    PROVE  Joined(parts) \in Text /\ Listed(parts) \in Text
<1> DEFINE Part(i) == IF i = 1 THEN parts[i] ELSE <<",">> \o parts[i]
           all == [i \in DOMAIN parts |-> Part(i)]
<1>1. DOMAIN parts = 1..Len(parts) /\ Len(parts) \in Nat /\ \A i \in 1..Len(parts) : parts[i] \in Text
  BY EndIs, LenProperties
<1>2. <<",">> \in Text /\ <<"[">> \in Text /\ <<"]">> \in Text
  <2>1. "," \in Character /\ "[" \in Character /\ "]" \in Character
    BY DEF Character, Mark
  <2> QED BY <2>1, OneCharacter
<1>3. all \in Seq(Text)
  <2>1. \A i \in 1..Len(parts) : Part(i) \in Text
    BY <1>1, <1>2, TextsJoined
  <2> HIDE DEF Part
  <2> QED BY <1>1, <2>1
<1> HIDE DEF all
<1>4. Joined(parts) \in Text
  <2>1. Joined(parts) = FlattenSeq(all)
    BY DEF Joined, all, Part
  <2> QED BY <1>3, <2>1, FlattenTyped DEF Text
<1> QED BY <1>2, <1>4, TextsJoined DEF Listed

(* An object: its keys are those of its values and of what was said.           *)
IsObject(o) ==
    /\ o \in [keys : Seq(Text), data : Values, arrayData : Seq(Text), said : {o.said}]
    /\ Range(o.keys) = DOMAIN o.data /\ DOMAIN o.said = DOMAIN o.data

(* toString writes a text.                                                   *)
LEMMA ObjectWrittenTyped ==
    ASSUME NEW o, IsObject(o)
    PROVE  toString(o) \in Text
<1> DEFINE Key(i) == <<Quote>> \o o.keys[i] \o <<Quote, ":">> \o Written(o.data[o.keys[i]])
           parts == [i \in DOMAIN o.keys |-> Key(i)]
<1>1. DOMAIN o.keys = 1..Len(o.keys) /\ Len(o.keys) \in Nat /\ \A i \in 1..Len(o.keys) : o.keys[i] \in Text
  BY EndIs, LenProperties DEF IsObject
<1>2. /\ <<Quote>> \in Text /\ <<Quote, ":">> \in Text
      /\ <<"{">> \in Text /\ <<"}">> \in Text
  <2>1. Quote \in Character /\ ":" \in Character /\ "{" \in Character /\ "}" \in Character
    BY DEF Character, Mark
  <2>2. \A a, b \in Character : <<a, b>> \in Text
    BY DEF Text
  <2> QED BY <2>1, <2>2, OneCharacter
<1>3. ASSUME NEW i \in 1..Len(o.keys) PROVE Key(i) \in Text
  <2>1. o.keys[i] \in Range(o.keys)
    BY <1>1 DEF Range
  <2>2. o.data[o.keys[i]] \in Text
    BY <2>1 DEF IsObject, Values
  <2>3. Written(o.data[o.keys[i]]) \in Text
    BY <2>2, WrittenTyped
  <2>4. <<Quote>> \o o.keys[i] \in Text
    BY <1>1, <1>2, TextsJoined
  <2>5. <<Quote>> \o o.keys[i] \o <<Quote, ":">> \in Text
    BY <1>2, <2>4, TextsJoined
  <2> QED BY <2>3, <2>5, TextsJoined
<1> HIDE DEF Key
<1>4. parts \in Seq(Text)
  BY <1>1, <1>3
<1> HIDE DEF parts
<1>5. toString(o) = IF o.keys = << >> /\ o.arrayData # << >> THEN Listed(o.arrayData)
                    ELSE <<"{">> \o Joined(parts) \o <<"}">>
  BY Zenon DEF toString, parts, Key
<1>6. o.arrayData \in Seq(Text)
  BY DEF IsObject
<1>7. Listed(o.arrayData) \in Text
  BY <1>6, ListTyped
<1>8. Joined(parts) \in Text
  BY <1>4, ListTyped
<1>9. <<"{">> \o Joined(parts) \in Text
  BY <1>2, <1>8, TextsJoined
<1>10. <<"{">> \o Joined(parts) \o <<"}">> \in Text
  BY <1>2, <1>9, TextsJoined
<1> QED BY <1>5, <1>7, <1>10

(* A trimmed text is a text.                                                 *)
LEMMA TrimmedTyped ==
    ASSUME NEW t \in Text
    PROVE  Trimmed(t) \in Text
<1> DEFINE ink == {i \in DOMAIN t : t[i] \notin White}
<1>1. Len(t) \in Nat /\ DOMAIN t = 1..Len(t)
  BY EndIs, LenProperties DEF Text
<1>2. ink \in SUBSET (1..Len(t)) /\ ink \in SUBSET Nat
  BY <1>1
<1> HIDE DEF ink
<1>3. ink # {} => Min(ink) \in 1..(Len(t) + 1) /\ Max(ink) \in 0..Len(t)
  <2> SUFFICES ASSUME ink # {} PROVE Min(ink) \in 1..(Len(t) + 1) /\ Max(ink) \in 0..Len(t)
    OBVIOUS
  <2>1. Min(ink) \in ink /\ Max(ink) \in ink
    BY <1>1, <1>2, MinIs, MaxIs
  <2>2. \A i \in 1..Len(t) : i \in 1..(Len(t) + 1) /\ i \in 0..Len(t)
    BY <1>1
  <2> QED BY <1>2, <2>1, <2>2
<1>4. Trimmed(t) = IF ink = {} THEN << >> ELSE SubSeq(t, Min(ink), Max(ink))
  BY Zenon DEF Trimmed, ink
<1>5. ink # {} => SubSeq(t, Min(ink), Max(ink)) \in Text
  BY <1>3, PartOf DEF Text
<1> QED BY <1>4, <1>5, EmptySeq DEF Text

(* parseArrayString returns texts.                                           *)
LEMMA ElementsTyped ==
    ASSUME NEW t \in Text
    PROVE  parseArrayString(t) \in Seq(Text)
<1> DEFINE places == [i \in DOMAIN t |-> i]
           scan == Scan(t, 2)
           ends == {i \in 2..Len(t) : scan[i + 1].brackets < 0}
           end == Min(ends \cup {End(t)})
           cuts == {i \in 2..(end - 1) : t[i] = "," /\ scan[i] = Fresh}
           stops == Picked(places, cuts \cup (ends \cap {end}))
           From(j) == IF j = 1 THEN 2 ELSE stops[j - 1] + 1
           Piece(j) == Trimmed(SubSeq(t, From(j), stops[j] - 1))
           pieces == [j \in DOMAIN stops |-> Piece(j)]
<1>1. Len(t) \in Nat /\ DOMAIN t = 1..Len(t)
  BY EndIs, LenProperties DEF Text
<1>2. parseArrayString(t) = IF ~At(t, 1, "[") THEN << >> ELSE Picked(pieces, {j \in DOMAIN stops : pieces[j] # << >>})
  BY Zenon DEF parseArrayString, Piece, From
<1>3. At(t, 1, "[") => Len(t) >= 1
  BY <1>1 DEF At, End
<1>4. stops \in Seq(1..Len(t))
  <2>1. places \in Seq(1..Len(t))
    BY <1>1
  <2> HIDE DEF places
  <2> QED BY <2>1, PickedTyped
<1> HIDE DEF stops, Piece, From
<1>5. DOMAIN stops = 1..Len(stops) /\ Len(stops) \in Nat /\ \A j \in 1..Len(stops) : stops[j] \in 1..Len(t)
  BY <1>4, EndIs, LenProperties
<1>6. ASSUME NEW j \in 1..Len(stops), Len(t) >= 1 PROVE Piece(j) \in Text
  <2>1. stops[j] - 1 \in 0..Len(t)
    BY <1>1, <1>5
  <2>2. From(j) \in 1..(Len(t) + 1)
    <3>1. j # 1 => j - 1 \in 1..Len(stops)
      BY <1>5
    <3>2. j # 1 => stops[j - 1] + 1 \in 1..(Len(t) + 1)
      BY <1>1, <1>5, <3>1
    <3>3. 2 \in 1..(Len(t) + 1)
      BY <1>1, <1>6
    <3> QED BY <3>2, <3>3 DEF From
  <2>3. SubSeq(t, From(j), stops[j] - 1) \in Text
    BY <2>1, <2>2, PartOf DEF Text
  <2> QED BY <2>3, TrimmedTyped DEF Piece
<1>7. Len(t) >= 1 => pieces \in Seq(Text)
  BY <1>5, <1>6
<1> HIDE DEF pieces
<1>8. Len(t) >= 1 => \A S : Picked(pieces, S) \in Seq(Text)
  BY <1>7, PickedTyped
<1> QED BY <1>2, <1>3, <1>8, EmptySeq
--------------------------------------------------------------------------------
(* The invariant.                                                              *)
AreObjects(os) == os # << >> /\ \E S : os \in Seq(S) /\ \A o \in S : IsObject(o)
JsonInv ==
    /\ AreObjects(objs) /\ level \in 0..Len(objs) /\ calls \in 0..MaxCalls /\ cut \in BOOLEAN
    /\ Ready(parser)

(* Each of the objects, the last included, is an object.                     *)
LEMMA ObjectsAre ==
    ASSUME NEW os, AreObjects(os)
    PROVE  /\ Len(os) \in Nat \ {0} /\ DOMAIN os = 1..Len(os) /\ \A i \in 1..Len(os) : IsObject(os[i])
           /\ IsObject(Last(os))
<1>1. PICK S : os \in Seq(S) /\ \A o \in S : IsObject(o)
  BY DEF AreObjects
<1>2. Len(os) \in Nat \ {0} /\ DOMAIN os = 1..Len(os) /\ \A i \in 1..Len(os) : os[i] \in S
  BY <1>1, EmptySeq, LenProperties, ElementOfSeq DEF AreObjects
<1> QED BY <1>1, <1>2 DEF Last

(* The objects with one more, or with another last one.                      *)
LEMMA OneMoreObject ==
    ASSUME NEW os, AreObjects(os), NEW o, IsObject(o)
    PROVE  /\ AreObjects(Append(os, o)) /\ Len(Append(os, o)) = Len(os) + 1
           /\ AreObjects(Front(os) \o <<o>>) /\ Len(Front(os) \o <<o>>) = Len(os)
<1>1. PICK S : os \in Seq(S) /\ \A x \in S : IsObject(x)
  BY DEF AreObjects
<1> DEFINE T == S \cup {o}
<1>2. os \in Seq(T) /\ o \in T /\ \A x \in T : IsObject(x)
  BY <1>1
<1> HIDE DEF T
<1>3. Append(os, o) \in Seq(T) /\ Append(os, o) # << >> /\ Len(Append(os, o)) = Len(os) + 1
  <2>1. Append(os, o) \in Seq(T) /\ Len(Append(os, o)) = Len(os) + 1 /\ Len(os) \in Nat
    BY <1>2, AppendProperties, LenProperties
  <2> QED BY <2>1, EmptySeq
<1>4. Front(os) \in Seq(T) /\ Len(Front(os)) = Len(os) - 1
  <2>1. Len(os) - 1 \in Nat /\ Len(os) - 1 <= Len(os)
    BY ObjectsAre
  <2> DEFINE n == Len(os) - 1
  <2>2. Front(os) = SubSeq(os, 1, n)
    BY DEF Front
  <2> HIDE DEF n
  <2>3. n \in Nat /\ n <= Len(os)
    BY <2>1 DEF n
  <2>4. Front(os) \in Seq(T) /\ Len(Front(os)) = n
    BY <1>2, <2>2, <2>3, BeginningOf
  <2> QED BY <2>4 DEF n
<1>5. <<o>> \in Seq(T) /\ Len(<<o>>) = 1
  BY <1>2, OneInSeq
<1> DEFINE new == Front(os) \o <<o>>
<1>6. new \in Seq(T) /\ Len(new) = Len(Front(os)) + Len(<<o>>)
  BY <1>4, <1>5, ConcatProperties
<1>7. Len(os) \in Nat \ {0}
  BY ObjectsAre
<1> HIDE DEF new
<1>8. Len(new) = Len(os) /\ new # << >>
  <2>1. Len(new) = Len(os)
    BY <1>4, <1>5, <1>6, <1>7
  <2> QED BY <1>7, <2>1, EmptySeq
<1> QED BY <1>2, <1>3, <1>6, <1>8 DEF AreObjects, new

(* An object without keys is an object.                                      *)
LEMMA NewIs == IsObject(NewObject)
<1>1. << >> \in Seq(Text) /\ << >> \in Values /\ DOMAIN << >> = {} /\ Range(<< >>) = {}
  <2>1. << >> \in [{} -> Text]
    OBVIOUS
  <2>2. {} \in SUBSET Text
    OBVIOUS
  <2> QED BY <2>1, <2>2, EmptySeq DEF Values, Range
<1> QED BY <1>1 DEF IsObject, NewObject

(* A setter keeps keys, data and what was said of them together.             *)
LEMMA SetKeeps ==
    ASSUME NEW o, IsObject(o), NEW k \in Text, NEW v \in Text, NEW kind, NEW value
    PROVE  IsObject(Set(o, k, v, kind, value))
<1> DEFINE ks == IF Contains(o.keys, k) THEN o.keys ELSE Append(o.keys, k)
           d == Put(o.data, k, v)
           said == Put(o.said, k, [kind |-> kind, value |-> value])
           new == Set(o, k, v, kind, value)
<1>1. /\ o \in [keys : Seq(Text), data : Values, arrayData : Seq(Text), said : {o.said}]
      /\ o.keys \in Seq(Text) /\ o.data \in Values /\ o.arrayData \in Seq(Text)
      /\ Range(o.keys) = DOMAIN o.data /\ DOMAIN o.said = DOMAIN o.data
  BY DEF IsObject
<1>2. ks \in Seq(Text) /\ Range(ks) = Range(o.keys) \cup {k}
  <2>1. CASE Contains(o.keys, k)
    <3>1. k \in Range(o.keys)
      BY <1>1, <2>1, LenProperties DEF Contains, Range
    <3> QED BY <1>1, <2>1, <3>1
  <2>2. CASE ~Contains(o.keys, k)
    BY <1>1, <2>2, MoreKeys
  <2> QED BY <2>1, <2>2
<1>3. d \in Values /\ DOMAIN d = DOMAIN o.data \cup {k}
  BY <1>1, SetIs
<1>4. DOMAIN said = DOMAIN o.said \cup {k}
  BY DEF Put
<1>5. new = [o EXCEPT !.keys = ks, !.data = d, !.said = said]
  BY DEF Set
<1> HIDE DEF ks, d, said
<1> HIDE DEF new
<1>6. new \in [keys : Seq(Text), data : Values, arrayData : Seq(Text), said : {said}]
  BY <1>1, <1>2, <1>3, <1>5
<1>7. new.keys = ks /\ new.data = d /\ new.said = said
  BY <1>1, <1>5
<1>9. IsObject(new)
  BY <1>1, <1>2, <1>3, <1>4, <1>6, <1>7 DEF IsObject
<1> QED BY <1>9 DEF new

(* So does removeKey.                                                        *)
LEMMA RemovedKeeps ==
    ASSUME NEW o, IsObject(o), NEW k
    PROVE  IsObject([o EXCEPT !.keys = Picked(@, {i \in DOMAIN @ : @[i] # k}),
                              !.data = Restrict(@, DOMAIN @ \ {k}),
                              !.said = Restrict(@, DOMAIN @ \ {k})])
<1> DEFINE ks == Picked(o.keys, {i \in DOMAIN o.keys : o.keys[i] # k})
           d == Restrict(o.data, DOMAIN o.data \ {k})
           said == Restrict(o.said, DOMAIN o.said \ {k})
           new == [o EXCEPT !.keys = ks, !.data = d, !.said = said]
<1>1. /\ o \in [keys : Seq(Text), data : Values, arrayData : Seq(Text), said : {o.said}]
      /\ o.keys \in Seq(Text) /\ o.data \in Values /\ o.arrayData \in Seq(Text)
      /\ Range(o.keys) = DOMAIN o.data /\ DOMAIN o.said = DOMAIN o.data
  BY DEF IsObject
<1>2. ks \in Seq(Text) /\ Range(ks) = Range(o.keys) \ {k}
  <2>1. DOMAIN o.keys = 1..Len(o.keys)
    BY <1>1, LenProperties
  <2>2. ks \in Seq(Text) /\ Range(ks) = {o.keys[i] : i \in {j \in DOMAIN o.keys : o.keys[j] # k} \cap 1..Len(o.keys)}
    BY <1>1, PickedTyped
  <2> QED BY <2>1, <2>2 DEF Range
<1>3. d \in Values /\ DOMAIN d = DOMAIN o.data \ {k}
  <2>1. PICK S \in SUBSET Text : o.data \in [S -> Text]
    BY <1>1 DEF Values
  <2>2. d \in [S \ {k} -> Text] /\ S \ {k} \in SUBSET Text
    BY <2>1 DEF Restrict
  <2> QED BY <2>1, <2>2 DEF Values
<1>4. DOMAIN said = DOMAIN o.said \ {k}
  BY DEF Restrict
<1>5. new = [o EXCEPT !.keys = Picked(@, {i \in DOMAIN @ : @[i] # k}),
                      !.data = Restrict(@, DOMAIN @ \ {k}),
                      !.said = Restrict(@, DOMAIN @ \ {k})]
  OBVIOUS
<1> HIDE DEF ks, d, said
<1>6. /\ new \in [keys : Seq(Text), data : Values, arrayData : Seq(Text), said : {said}]
      /\ new.keys = ks /\ new.data = d /\ new.said = said
  BY <1>1, <1>2, <1>3
<1> HIDE DEF new
<1>7. IsObject(new)
  BY <1>1, <1>2, <1>3, <1>4, <1>6 DEF IsObject
<1> QED BY <1>5, <1>7

(* What is sent, read and gone into is text.                                   *)
LEMMA CallKeeps ==
    ASSUME JsonInv, Call, AreObjects(objs'), Len(objs') \in {Len(objs), Len(objs) + 1}
    PROVE  JsonInv'
<1>1. Len(objs) \in Nat /\ level \in 0..Len(objs')
  <2>1. Len(objs) \in Nat
    BY ObjectsAre DEF JsonInv
  <2> QED BY <2>1 DEF JsonInv
<1>2. calls' \in 0..MaxCalls
  BY JsonAssumption DEF JsonInv, Call
<1> QED BY <1>1, <1>2 DEF JsonInv, Call

(* A setter of any type does.                                                *)
LEMMA SetterKeeps ==
    ASSUME JsonInv, NEW k \in Keys, NEW v \in Text, NEW kind, NEW value, Setter(k, v, kind, value)
    PROVE  JsonInv'
<1>1. k \in Text
  BY JsonAssumption, CharactersAre
<1>2. IsObject(Last(objs)) /\ AreObjects(objs)
  BY ObjectsAre DEF JsonInv
<1> DEFINE new == Set(Last(objs), k, v, kind, value)
<1>3. IsObject(new)
  BY <1>1, <1>2, SetKeeps
<1>4. Call /\ objs' = Front(objs) \o <<new>>
  BY DEF Setter
<1> HIDE DEF new
<1>5. AreObjects(objs') /\ Len(objs') = Len(objs)
  BY <1>2, <1>3, <1>4, OneMoreObject
<1> QED BY <1>4, <1>5, CallKeeps

(* true and false are texts.                                                 *)
LEMMA BoolsTyped ==
    /\ <<"true">> \in Text /\ <<"false">> \in Text
    /\ \A b \in BOOLEAN : (IF b THEN <<"true">> ELSE <<"false">>) \in Text
<1>1. "true" \in Character /\ "false" \in Character
  BY DEF Character, Mark
<1>2. <<"true">> \in Text /\ <<"false">> \in Text
  BY <1>1, OneCharacter
<1> QED BY <1>2

(* Every setter writes a text.                                               *)
LEMMA ValuesTyped ==
    /\ Strings \subseteq Text
    /\ \A n \in Ints : to_string(n) \in Text
    /\ \A n \in Tenths : to_stringTenths(n) \in Text
    /\ \A ss \in StringArrays : Listed([i \in DOMAIN ss |-> stringToString(ss[i])]) \in Text
    /\ \A ns \in IntArrays : Listed([i \in DOMAIN ns |-> to_string(ns[i])]) \in Text
    /\ \A ns \in TenthArrays : Listed([i \in DOMAIN ns |-> to_stringTenths(ns[i])]) \in Text
    /\ \A bs \in BoolArrays : Listed([i \in DOMAIN bs |-> IF bs[i] THEN <<"true">> ELSE <<"false">>]) \in Text
<1>1. Strings \subseteq Text
  BY JsonAssumption, CharactersAre
<1>2. (\A n \in Ints : to_string(n) \in Text) /\ (\A n \in Tenths : to_stringTenths(n) \in Text)
  <2>1. Ints \subseteq Int /\ Tenths \subseteq Int
    BY JsonAssumption
  <2> QED BY <2>1, ToStringTyped, TenthsTyped
<1>3. ASSUME NEW ss \in StringArrays PROVE Listed([i \in DOMAIN ss |-> stringToString(ss[i])]) \in Text
  <2> DEFINE parts == [i \in DOMAIN ss |-> stringToString(ss[i])]
  <2>1. ss \in Seq(Text)
    BY JsonAssumption, CharactersAre
  <2>2. \A i \in DOMAIN ss : stringToString(ss[i]) \in Text
    BY <2>1, StringWrittenTyped, EndIs, LenProperties
  <2>3. parts \in Seq(Text)
    BY <2>1, <2>2, LenProperties
  <2> HIDE DEF parts
  <2>4. Listed(parts) \in Text
    BY <2>3, ListTyped
  <2> QED BY <2>4 DEF parts
<1>4. ASSUME NEW ns \in IntArrays PROVE Listed([i \in DOMAIN ns |-> to_string(ns[i])]) \in Text
  <2> DEFINE parts == [i \in DOMAIN ns |-> to_string(ns[i])]
  <2>1. ns \in Seq(Int)
    BY JsonAssumption
  <2>2. \A i \in DOMAIN ns : to_string(ns[i]) \in Text
    BY <2>1, ToStringTyped, EndIs, LenProperties
  <2>3. parts \in Seq(Text)
    BY <2>1, <2>2, LenProperties
  <2> HIDE DEF parts
  <2>4. Listed(parts) \in Text
    BY <2>3, ListTyped
  <2> QED BY <2>4 DEF parts
<1>5. ASSUME NEW ns \in TenthArrays PROVE Listed([i \in DOMAIN ns |-> to_stringTenths(ns[i])]) \in Text
  <2> DEFINE parts == [i \in DOMAIN ns |-> to_stringTenths(ns[i])]
  <2>1. ns \in Seq(Int)
    BY JsonAssumption
  <2>2. \A i \in DOMAIN ns : to_stringTenths(ns[i]) \in Text
    BY <2>1, TenthsTyped, EndIs, LenProperties
  <2>3. parts \in Seq(Text)
    BY <2>1, <2>2, LenProperties
  <2> HIDE DEF parts
  <2>4. Listed(parts) \in Text
    BY <2>3, ListTyped
  <2> QED BY <2>4 DEF parts
<1>6. ASSUME NEW bs \in BoolArrays
      PROVE  Listed([i \in DOMAIN bs |-> IF bs[i] THEN <<"true">> ELSE <<"false">>]) \in Text
  <2> DEFINE parts == [i \in DOMAIN bs |-> IF bs[i] THEN <<"true">> ELSE <<"false">>]
  <2>1. bs \in Seq(BOOLEAN)
    BY JsonAssumption
  <2>2. \A i \in DOMAIN bs : (IF bs[i] THEN <<"true">> ELSE <<"false">>) \in Text
    BY BoolsTyped
  <2>3. parts \in Seq(Text)
    BY <2>1, <2>2, LenProperties
  <2> HIDE DEF parts
  <2>4. Listed(parts) \in Text
    BY <2>3, ListTyped
  <2> QED BY <2>4 DEF parts
<1> QED BY <1>1, <1>2, <1>3, <1>4, <1>5, <1>6

(* A text as many times as an array of objects has items.                    *)
LEMMA RepeatedTyped == ASSUME NEW n \in Nat, NEW t \in Text PROVE [i \in 1..n |-> t] \in Seq(Text)
OBVIOUS

(* Every call of the application keeps the invariant.                        *)
LEMMA BuildKeeps ==
    ASSUME JsonInv, Build
    PROVE  JsonInv'
<1>1. Inside \in Text
  BY ObjectsAre, ObjectWrittenTyped DEF JsonInv, Inside
<1>2. AreObjects(objs)
  BY DEF JsonInv
<1>3. \A n \in 0..MaxItems : [i \in 1..n |-> Inside] \in Seq(Text) /\ Listed([i \in 1..n |-> Inside]) \in Text
  <2> TAKE n \in 0..MaxItems
  <2>1. n \in Nat
    BY JsonAssumption
  <2>2. [i \in 1..n |-> Inside] \in Seq(Text)
    BY <1>1, <2>1, RepeatedTyped
  <2> QED BY <2>2, ListTyped
<1>4. ASSUME NEW k \in Keys, NEW v \in Text, NEW kind, NEW value,
             Call, objs' = Append(objs, Set(NewObject, k, v, kind, value))
      PROVE  JsonInv'
  <2>1. k \in Text
    BY JsonAssumption, CharactersAre
  <2> DEFINE new == Set(NewObject, k, v, kind, value)
  <2>2. IsObject(new)
    BY <2>1, NewIs, SetKeeps
  <2> HIDE DEF new
  <2>3. AreObjects(objs') /\ Len(objs') = Len(objs) + 1
    BY <1>2, <1>4, <2>2, OneMoreObject DEF new
  <2> QED BY <1>4, <2>3, CallKeeps
<1>5. ASSUME NEW k \in Keys,
             \/ \E s \in Strings : setString(k, s)
             \/ \E n \in Ints : setInt(k, n)
             \/ \E n \in Tenths : setDouble(k, n)
             \/ \E b \in BOOLEAN : setBool(k, b)
             \/ \E ss \in StringArrays : setStringArray(k, ss)
             \/ \E ns \in IntArrays : setIntArray(k, ns)
             \/ \E ns \in TenthArrays : setDoubleArray(k, ns)
             \/ \E bs \in BoolArrays : setBoolArray(k, bs)
      PROVE  JsonInv'
  <2>1. CASE \E s \in Strings : setString(k, s)
    BY <2>1, ValuesTyped, SetterKeeps DEF setString
  <2>2. CASE \E n \in Ints : setInt(k, n)
    BY <2>2, ValuesTyped, SetterKeeps DEF setInt
  <2>3. CASE \E n \in Tenths : setDouble(k, n)
    BY <2>3, ValuesTyped, SetterKeeps DEF setDouble
  <2>4. CASE \E b \in BOOLEAN : setBool(k, b)
    <3>1. PICK b \in BOOLEAN : setBool(k, b)
      BY <2>4
    <3> DEFINE v == IF b THEN <<"true">> ELSE <<"false">>
    <3>2. v \in Text
      BY BoolsTyped
    <3> HIDE DEF v
    <3>3. Setter(k, v, "bool", b)
      BY <3>1 DEF setBool, v
    <3> QED BY <3>2, <3>3, SetterKeeps
  <2>5. CASE \E ss \in StringArrays : setStringArray(k, ss)
    BY <2>5, ValuesTyped, SetterKeeps DEF setStringArray
  <2>6. CASE \E ns \in IntArrays : setIntArray(k, ns)
    BY <2>6, ValuesTyped, SetterKeeps DEF setIntArray
  <2>7. CASE \E ns \in TenthArrays : setDoubleArray(k, ns)
    BY <2>7, ValuesTyped, SetterKeeps DEF setDoubleArray
  <2>8. CASE \E bs \in BoolArrays : setBoolArray(k, bs)
    BY <2>8, ValuesTyped, SetterKeeps DEF setBoolArray
  <2> QED BY <1>5, <2>1, <2>2, <2>3, <2>4, <2>5, <2>6, <2>7, <2>8
<1>6. ASSUME NEW k \in Keys, setJSON(k) PROVE JsonInv'
  <2>1. Call /\ objs' = Append(objs, Set(NewObject, k, Inside, "json", Inside))
    BY <1>6 DEF setJSON
  <2> QED BY <1>1, <1>4, <2>1
<1>7. ASSUME NEW k \in Keys, NEW n \in 0..MaxItems, setArrayOfJSON(k, n) PROVE JsonInv'
  <2> DEFINE items == [i \in 1..n |-> Inside]
  <2>1. Call /\ objs' = Append(objs, Set(NewObject, k, Listed(items), "jsons", items))
    BY <1>7 DEF setArrayOfJSON
  <2>2. Listed(items) \in Text
    BY <1>3
  <2> HIDE DEF items
  <2> QED BY <1>4, <2>1, <2>2
<1>8. ASSUME NEW k \in Keys, removeKey(k) PROVE JsonInv'
  <2> DEFINE o == Last(objs)
             new == [o EXCEPT !.keys = Picked(@, {i \in DOMAIN @ : @[i] # k}),
                              !.data = Restrict(@, DOMAIN @ \ {k}),
                              !.said = Restrict(@, DOMAIN @ \ {k})]
  <2>1. Call /\ objs' = Front(objs) \o <<new>>
    BY <1>8 DEF removeKey
  <2>2. IsObject(o)
    BY <1>2, ObjectsAre
  <2> HIDE DEF o
  <2>3. IsObject(new)
    BY <2>2, RemovedKeeps
  <2> HIDE DEF new
  <2>4. AreObjects(objs') /\ Len(objs') = Len(objs)
    BY <1>2, <2>1, <2>3, OneMoreObject
  <2> QED BY <2>1, <2>4, CallKeeps
<1>9. ASSUME NEW n \in 1..MaxItems, addJSONToArray(n) PROVE JsonInv'
  <2> DEFINE items == [i \in 1..n |-> Inside]
             new == [NewObject EXCEPT !.arrayData = items]
  <2>1. Call /\ objs' = Append(objs, new)
    BY <1>9 DEF addJSONToArray
  <2>2. n \in 0..MaxItems
    BY JsonAssumption
  <2>3. items \in Seq(Text)
    BY <1>3, <2>2
  <2> HIDE DEF items
  <2>4. IsObject(new)
    <3>1. IsObject(NewObject)
      BY NewIs
    <3>2. /\ new \in [keys : Seq(Text), data : Values, arrayData : Seq(Text), said : {NewObject.said}]
          /\ new.keys = NewObject.keys /\ new.data = NewObject.data /\ new.said = NewObject.said
      BY <2>3, <3>1 DEF IsObject
    <3> HIDE DEF new
    <3> QED BY <3>1, <3>2 DEF IsObject
  <2> HIDE DEF new
  <2>5. AreObjects(objs') /\ Len(objs') = Len(objs) + 1
    BY <1>2, <2>1, <2>4, OneMoreObject
  <2> QED BY <2>1, <2>5, CallKeeps
<1> QED BY <1>5, <1>6, <1>7, <1>8, <1>9 DEF Build

(* A new parser of any text keeps it.                                        *)
LEMMA ReadingKeeps ==
    ASSUME JsonInv, NEW t \in Text, parser' = Parser(t), level' \in 0..Len(objs), objs' = objs,
           calls' = calls, cut' \in BOOLEAN
    PROVE  JsonInv'
<1>1. Ready(parser')
  BY ParserIs
<1>2. Ready(parser)'
  BY <1>1 DEF Ready
<1> QED BY <1>2 DEF JsonInv

(* Every step keeps it.                                                      *)
LEMMA NextKeeps ==
    ASSUME JsonInv, [JsonNext]_jsonVars
    PROVE  JsonInv'
<1>1. /\ AreObjects(objs) /\ level \in 0..Len(objs) /\ cut \in BOOLEAN /\ Ready(parser)
      /\ Len(objs) \in Nat \ {0} /\ IsObject(Last(objs))
  BY ObjectsAre DEF JsonInv
<1>2. toString(Last(objs)) \in Text
  BY <1>1, ObjectWrittenTyped
<1>3. CASE Build
  BY <1>3, BuildKeeps
<1>4. CASE Send
  <2>1. /\ parser' = Parser(toString(Last(objs))) /\ level' = Len(objs) /\ objs' = objs
        /\ calls' = calls /\ cut' = cut
    BY <1>4 DEF Send
  <2> QED BY <1>1, <1>2, <2>1, ReadingKeeps
<1>5. CASE SendCut
  <2> DEFINE t == toString(Last(objs))
  <2>1. PICK n \in 1..Min({MaxCut, Len(t)}) : parser' = Parser(SubSeq(t, 1, Len(t) - n))
    BY <1>5 DEF SendCut
  <2>2. t \in Text
    BY <1>2
  <2> HIDE DEF t
  <2>3. Len(t) \in Nat
    BY <2>2, LenProperties DEF Text
  <2>4. Min({MaxCut, Len(t)}) \in Nat /\ Min({MaxCut, Len(t)}) <= Len(t)
    <3> DEFINE S == {MaxCut, Len(t)}
    <3>1. S \in SUBSET Nat /\ S # {} /\ Len(t) \in S
      BY <2>3, JsonAssumption
    <3> HIDE DEF S
    <3>2. Min(S) \in S /\ Min(S) <= Len(t)
      BY <3>1, MinIs
    <3> QED BY <3>1, <3>2 DEF S
  <2>5. Len(t) - n \in Nat /\ Len(t) - n <= Len(t)
    BY <2>3, <2>4
  <2>6. SubSeq(t, 1, Len(t) - n) \in Text
    BY <2>2, <2>5, BeginningOf DEF Text
  <2>7. level' = Len(objs) /\ objs' = objs /\ calls' = calls /\ cut' = TRUE
    BY <1>5 DEF SendCut
  <2> QED BY <1>1, <2>1, <2>6, <2>7, ReadingKeeps
<1>6. CASE Pass
  <2>1. /\ parser.in \in {"object", "array"} /\ parser' = Loop(parser) /\ level' = level /\ objs' = objs
        /\ calls' = calls /\ cut' = cut
    BY <1>6 DEF Pass
  <2>2. Ready(Loop(parser))
    BY <1>1, <2>1, LoopIs
  <2>3. Ready(parser)'
    BY <2>1, <2>2 DEF Ready
  <2> QED BY <2>1, <2>3 DEF JsonInv
<1>7. ASSUME NEW t \in Text, Deeper(t) PROVE JsonInv'
  <2>1. /\ level' \in 0..Len(objs) /\ parser' = Parser(t) /\ objs' = objs /\ calls' = calls /\ cut' = cut
    BY <1>1, <1>7 DEF Deeper
  <2> QED BY <1>1, <2>1, ReadingKeeps
<1>8. \A k : k \in DOMAIN parser.data => parser.data[k] \in Text
  BY <1>1 DEF Ready, ParserTypes, Values
<1>9. CASE getJSONArray
  <2>1. PICK i \in DOMAIN parser.arrayData : Deeper(parser.arrayData[i])
    BY <1>9 DEF getJSONArray
  <2>2. parser.arrayData \in Seq(Text)
    BY <1>1 DEF Ready, ParserTypes
  <2>3. parser.arrayData[i] \in Text
    BY <2>2, EndIs, LenProperties
  <2> QED BY <1>7, <2>1, <2>3
<1>10. ASSUME NEW k \in Keys, getObject(k) PROVE JsonInv'
  BY <1>7, <1>8, <1>10 DEF getObject
<1>11. ASSUME NEW k \in Keys, getArrayElement(k) PROVE JsonInv'
  <2>1. PICK i \in DOMAIN getArrayOfJSON(k) : Deeper(getArrayOfJSON(k)[i])
    BY <1>11 DEF getArrayElement
  <2>2. getString(k) \in Text
    BY <1>8, EmptySeq DEF getString, Text
  <2>3. getArrayOfJSON(k) \in Seq(Text)
    BY <2>2, ElementsTyped DEF getArrayOfJSON, Elements
  <2>4. getArrayOfJSON(k)[i] \in Text
    BY <2>3, EndIs, LenProperties
  <2> QED BY <1>7, <2>1, <2>4
<1>12. CASE UNCHANGED jsonVars
  <2>1. objs' = objs /\ calls' = calls /\ cut' = cut /\ parser' = parser /\ level' = level
    BY <1>12 DEF jsonVars
  <2> QED BY <2>1 DEF JsonInv, Ready
<1> QED BY <1>3, <1>4, <1>5, <1>6, <1>9, <1>10, <1>11, <1>12 DEF JsonNext, Get

(* It holds in the beginning.                                                *)
LEMMA InitIs == JsonInit => JsonInv
<1> SUFFICES ASSUME JsonInit PROVE JsonInv
  OBVIOUS
<1>1. /\ objs = <<NewObject>> /\ calls = 0 /\ cut = FALSE /\ parser = NoParser /\ level = 0
  BY DEF JsonInit
<1>2. AreObjects(objs) /\ Len(objs) = 1
  <2>1. <<NewObject>> \in Seq({NewObject}) /\ <<NewObject>> # << >> /\ Len(<<NewObject>>) = 1
    BY EmptySeq, OneInSeq
  <2>2. \A o \in {NewObject} : IsObject(o)
    BY NewIs
  <2>3. \E S : <<NewObject>> \in Seq(S) /\ \A o \in S : IsObject(o)
    <3> DEFINE S1 == {NewObject}
               os == <<NewObject>>
    <3>1. os \in Seq(S1) /\ \A o \in S1 : IsObject(o)
      BY <2>1, <2>2
    <3> HIDE DEF S1, os
    <3>2. \E S : os \in Seq(S) /\ \A o \in S : IsObject(o)
      BY <3>1
    <3> QED BY <3>2 DEF os
  <2>4. AreObjects(<<NewObject>>)
    BY <2>1, <2>3 DEF AreObjects
  <2> QED BY <1>1, <2>1, <2>4
<1>3. << >> \in Seq(Text) /\ << >> \in Values /\ DOMAIN << >> = {} /\ Range(<< >>) = {} /\ << >> \in Text
  <2>1. << >> \in [{} -> Text]
    OBVIOUS
  <2>2. {} \in SUBSET Text
    OBVIOUS
  <2> QED BY <2>1, <2>2, EmptySeq DEF Values, Range, Text
<1>4. NoParser \in ParserTypes /\ NoParser.in = "none" /\ NoParser.jp = 1 /\ NoParser.view = << >> /\ NoParser.data = << >>
  BY <1>3 DEF NoParser, ParserTypes
<1>5. 1 \in 1..End(<< >>)
  BY EmptySeq DEF End
<1>6. Ready(NoParser)
  BY <1>3, <1>4, <1>5 DEF Ready
<1>7. Ready(parser)
  BY <1>1, <1>6
<1>8. level \in 0..Len(objs) /\ calls \in 0..MaxCalls /\ cut \in BOOLEAN
  <2>1. MaxCalls \in Nat
    BY JsonAssumption
  <2>2. 0 \in 0..MaxCalls /\ 0 \in 0..1
    BY <2>1
  <2>3. cut \in BOOLEAN
    BY <1>1, Zenon
  <2> QED BY <1>1, <1>2, <2>2, <2>3, Zenon
<1> QED BY <1>2, <1>7, <1>8 DEF JsonInv

(* Objects and parser are well formed in every state.                        *)
THEOREM JsonInvHolds == JsonSpec => []JsonInv
BY InitIs, NextKeeps, PTL DEF JsonSpec

(* The types of the writer and the parser: the place never leaves the text,  *)
(* and an object and the reader have data for the keys they list only.       *)
THEOREM JsonTypeCorrect == JsonSpec => []JsonTyped
<1>1. ASSUME JsonInv PROVE JsonTyped
  <2>1. /\ parser.in \in {"none", "object", "array", "done"} /\ level \in 0..Len(objs)
        /\ calls \in 0..MaxCalls /\ cut \in BOOLEAN
        /\ (parser.in = "done" \/ parser.jp \in 1..End(parser.view))
        /\ DOMAIN parser.data \subseteq Range(parser.keys)
    BY <1>1 DEF JsonInv, Ready, ParserTypes
  <2>2. \A i \in DOMAIN objs : IsObject(objs[i])
    BY <1>1, ObjectsAre DEF JsonInv
  <2> QED BY <2>1, <2>2 DEF JsonTyped, IsObject
<1> QED BY <1>1, JsonInvHolds, PTL

(* Whatever the text, a pass of the parser that neither leaves its loop nor  *)
(* gets further is before an array element that begins no value (parseJSON,  *)
(* parseArray).                                                              *)
THEOREM StallsOnlyAtStrays == JsonSpec => []StallsAtStrays
<1>1. ASSUME JsonInv PROVE StallsAtStrays
  <2>1. Ready(parser)
    BY <1>1 DEF JsonInv
  <2> QED BY <2>1, LoopIs DEF StallsAtStrays
<1> QED BY <1>1, JsonInvHolds, PTL

(* A pass before an element that begins no value changes the place only, to    *)
(* that element, and the next pass finds the same.                             *)
LEMMA StrayStays ==
    ASSUME NEW p, Ready(p), Stray(p)
    PROVE  Stray(Loop(p))
<1> DEFINE t == p.view
           start == Skip(t, p.jp)
           p1 == [p EXCEPT !.arrayData = IF readData(t, start).got = << >> THEN @
                                         ELSE Append(@, readData(t, start).got)]
<1>1. p \in ParserTypes /\ t \in Text /\ p.in = "array" /\ p.jp \in 1..End(t) /\ End(t) \in Nat /\ p.jp \in Nat
  <2>1. p \in ParserTypes /\ t \in Text /\ p.in = "array"
    BY DEF Ready, ParserTypes, Stray
  <2> QED BY <2>1, EndIs DEF Ready, ParserTypes, Text
<1>2. start < End(t) /\ t[start] \notin Known
  BY DEF Stray
<1>3. start \in p.jp..End(t) /\ t[start] \notin White
  BY <1>1, <1>2, SkipIs
<1> HIDE DEF t, start
<1>4. start \in 1..End(t) /\ start \in Nat /\ start # End(t)
  BY <1>1, <1>2, <1>3
<1>5. Skip(t, start) = start
  BY <1>1, <1>2, <1>3, <1>4, SkipIs
<1>6. readData(t, start) = [at |-> start, got |-> << >>]
  <2>1. /\ t[start] # Quote /\ t[start] \notin Digit \cup {"-"} /\ <<t[start]>> \notin Literals
        /\ t[start] # "{" /\ t[start] # "["
    BY <1>2 DEF Known, Literals
  <2> QED BY <1>4, <1>5, <2>1 DEF readData
<1>7. ~At(t, start, "]") /\ ~At(t, start, ",") /\ p.jp # End(t)
  <2>1. p.jp # End(t)
    BY <1>1, <1>3, <1>4
  <2> QED BY <1>2, <2>1 DEF At, Known
<1>8. p1 = p
  BY <1>1, <1>6 DEF ParserTypes
<1> HIDE DEF p1
<1>9. Loop(p) = Continue(p1, readData(t, start).at, "]")
  BY <1>1, <1>7 DEF Loop, Element, t, start, p1
<1>10. Loop(p) = [p EXCEPT !.jp = start]
  <2>1. readData(t, start).at = start /\ p1.view = t
    BY <1>6, <1>8 DEF t
  <2>2. Loop(p) = Continue(p, start, "]")
    BY <1>8, <1>9, <2>1
  <2> QED BY <1>5, <1>7, <2>2 DEF Continue, t
<1>11. Loop(p).in = "array" /\ Loop(p).jp = start /\ Loop(p).view = t
  BY <1>1, <1>10 DEF ParserTypes, t
<1> QED BY <1>2, <1>5, <1>11 DEF Stray

(* At an element that begins no value the parser never gets further: neither   *)
(* the loop of parseArray nor another step of the reader takes it away.        *)
THEOREM StrayForever == JsonSpec => StraysStay
<1>1. ASSUME JsonInv, [JsonNext]_jsonVars, Stray(parser) PROVE Stray(parser')
  <2>1. parser.in = "array" /\ Ready(parser)
    BY <1>1 DEF JsonInv, Stray
  <2>2. ASSUME Build \/ UNCHANGED jsonVars PROVE parser' = parser
    BY <2>2 DEF Build, setString, setInt, setDouble, setBool, setStringArray, setIntArray, setDoubleArray,
       setBoolArray, setJSON, setArrayOfJSON, removeKey, addJSONToArray, Setter, Call, jsonVars
  <2>3. ~Send /\ ~SendCut
    BY <2>1 DEF Send, SendCut, Building
  <2>4. ~Get
    <3>1. \A k : SaidKind(k) = "nothing"
      BY <2>1 DEF SaidKind
    <3> QED BY <2>1, <3>1 DEF Get, getJSONArray, getObject, getArrayElement
  <2>5. ASSUME Pass PROVE parser' = Loop(parser)
    BY <2>5 DEF Pass
  <2> QED BY <1>1, <2>1, <2>2, <2>3, <2>4, <2>5, StrayStays DEF JsonNext
<1> QED BY <1>1, JsonInvHolds, PTL DEF JsonSpec, StraysStay
=============================================================================
