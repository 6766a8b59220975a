-------------------------------- MODULE Metrics --------------------------------
(* The /status metrics and the file that keeps them across restarts           *)
(* (data/ServerMetrics.cpp, saveJSONToFileAtomic of parser/JSONParser.hpp).   *)
(*                                                                            *)
(* io threads record events: an atomic total first, then the bucket of the    *)
(* current minute in a ring, under a mutex.  One thread at a time saves (the  *)
(* persistence thread, or start() after it has joined it: module Server,      *)
(* QuiescentSave), and /status reports; both copy the ring under the mutex    *)
(* and read the total afterwards.  One kind of event stands for requests,     *)
(* 4xx, 5xx and internal errors, which the code treats alike.  The latencies  *)
(* of requests go into a ring of their own, under the same mutex.             *)
EXTENDS Naturals, FiniteSets, SequencesExt

CONSTANTS Recorders,   \* io threads that record
          RingSize,    \* buckets of the ring: 60 in the code, one per minute
          LatCap,      \* samples of the ring of latencies: kLatCap
          MaxEvents,   \* bound: events recorded since the process started
          MaxLatencies, \* bound: latencies recorded in a run of start()
          MaxTicks,    \* bound: minutes that pass
          MaxCrashes,  \* bound: how often the process dies
          NoFile,      \* the metrics file does not exist
          Invalid      \* the metrics file cannot be parsed

ASSUME RingAssumption ==
    /\ IsFiniteSet(Recorders) /\ MaxTicks \in Nat
    /\ RingSize \in Nat \ {0} /\ LatCap \in Nat \ {0} /\ NoFile # Invalid

Slots   == 0..(RingSize - 1)
Minutes == RingSize..(RingSize + MaxTicks)
Empty   == [epoch |-> 0, requests |-> 0]

VARIABLES
    total,      \* _totalRequests
    ring,       \* _minBuckets
    lat,        \* _latSamples (the minute of each), _latHead, _latCount
    started,    \* _startTime
    minute,     \* the system clock, in minutes
    rec,        \* per io thread: 0, or the minute of the event it is recording
    save,       \* progress of savePersistentMetricsToFile
    copy,       \* what it has copied
    report,     \* /status: the clock it has read, what it has computed so far
    file,       \* the file at _statusPersistencePath
    up,         \* the process is running start()
    crashes,    \* crashes so far
    logged,     \* ghost: the events bucketed in each minute
    measured,   \* ghost: the last LatCap latencies
    taken,      \* latencies recorded in this run of start()
    everSaved   \* ghost: some save has succeeded

latVars  == <<lat, measured, taken>>
memVars  == <<total, ring, logged, latVars>>
vars     == <<memVars, started, minute, rec, save, copy, report, file, up, crashes, everSaved>>

Requests(r) == SumFunction([i \in Slots |-> r[i].requests])

(* getWindowMetricsHour: the buckets of the last RingSize minutes, for a clock *)
(* read before the mutex was taken.                                            *)
InWindow(b, now) == b.epoch > 0 /\ now >= b.epoch /\ now - b.epoch < RingSize
Window(r, now)   == SumFunction([i \in Slots |-> IF InWindow(r[i], now) THEN r[i].requests ELSE 0])

(* getUptimeSeconds, in hours.                                                 *)
Hours == (minute - started) \div RingSize

(* The latencies from the oldest on, as getLatencyStats reads them and the     *)
(* file keeps them; and a ring made of them.                                   *)
Samples(l)   == [i \in 1..l.count |-> l.at[(l.head + LatCap - l.count + i - 1) % LatCap]]
LoadedAtZero(samples) ==   \* mutant of Loaded: the next sample goes to the first slot
    [at |-> [i \in 0..(LatCap - 1) |-> IF i < Len(samples) THEN samples[i + 1] ELSE 0],
     head |-> 0, count |-> Len(samples)]
Loaded(samples) ==
    [at |-> [i \in 0..(LatCap - 1) |-> IF i < Len(samples) THEN samples[i + 1] ELSE 0],
     head |-> Len(samples) % LatCap, count |-> Len(samples)]

NothingLogged == [m \in Minutes |-> 0]
NoReport      == [phase |-> "none", now |-> 0, hours |-> 0, window |-> 0, average |-> 0, total |-> 0]
NoCopy        == [ring |-> [i \in Slots |-> Empty], total |-> 0, samples |-> <<>>, logged |-> NothingLogged]

Init ==
    /\ total = 0 /\ ring = [i \in Slots |-> Empty] /\ logged = NothingLogged
    /\ lat = Loaded(<<>>) /\ measured = <<>> /\ taken = 0
    /\ minute = RingSize /\ started = minute
    /\ rec = [r \in Recorders |-> 0]
    /\ save = "idle" /\ copy = NoCopy /\ report = NoReport
    /\ file \in {NoFile, Invalid} /\ everSaved = FALSE
    /\ up = FALSE /\ crashes = 0

(* No thread is between the two halves of a record; none saves.                *)
Quiet == save = "idle" /\ \A r \in Recorders : rec[r] = 0
--------------------------------------------------------------------------------

(* start() loads the file before it creates a thread.  Without a file the      *)
(* metrics in memory stay (of an earlier run, or none); an invalid file clears *)
(* them.                                                                       *)
Load ==
    /\ ~up /\ Quiet
    /\ up' = TRUE
    /\ CASE file = NoFile  -> UNCHANGED <<total, ring, logged, lat, measured>>
         [] file = Invalid -> /\ total' = 0
                              /\ ring' = [i \in Slots |-> Empty]
                              /\ logged' = NothingLogged
                              /\ lat' = Loaded(<<>>) /\ measured' = <<>>
         [] OTHER          -> /\ total' = file.total
                              /\ ring' = file.ring
                              /\ logged' = file.logged
                              /\ lat' = Loaded(file.samples) /\ measured' = file.samples
    /\ started' = minute /\ taken' = 0
    /\ UNCHANGED <<minute, rec, save, copy, report, file, crashes, everSaved>>

(* recordRequest(): fetch_add, then the clock ...                              *)
RecordTotal(r) ==
    /\ up /\ rec[r] = 0 /\ total < MaxEvents
    /\ total' = total + 1
    /\ rec' = [rec EXCEPT ![r] = minute]
    /\ UNCHANGED <<ring, logged, latVars, started, minute, save, copy, report, file, up, crashes, everSaved>>

(* Mutant of Bumped: a bucket is not cleared when its minute comes round again. *)
BumpedForever(b, epoch) == [epoch |-> epoch, requests |-> b.requests + 1]

(* writeBuckets_(): a bucket that holds another minute is cleared first.       *)
Bumped(b, epoch) == [epoch    |-> epoch,
                     requests |-> IF b.epoch = epoch THEN b.requests + 1 ELSE 1]

(* ... then the bucket of that minute, under _metricsMutex.                    *)
RecordBucket(r) ==
    /\ rec[r] # 0
    /\ ring' = [ring EXCEPT ![rec[r] % RingSize] = Bumped(@, rec[r])]
    /\ logged' = [logged EXCEPT ![rec[r]] = @ + 1]
    /\ rec' = [rec EXCEPT ![r] = 0]
    /\ UNCHANGED <<total, latVars, started, minute, save, copy, report, file, up, crashes, everSaved>>

(* recordLatency(), at the end of a request: the oldest sample gives way.      *)
RecordLatency(r) ==
    /\ up /\ rec[r] = 0 /\ taken < MaxLatencies /\ taken' = taken + 1
    /\ lat' = [at    |-> [lat.at EXCEPT ![lat.head] = minute],
               head  |-> (lat.head + 1) % LatCap,
               count |-> IF lat.count < LatCap THEN lat.count + 1 ELSE lat.count]
    /\ measured' = (IF Len(measured) = LatCap THEN Tail(measured) ELSE measured) \o <<minute>>
    /\ UNCHANGED <<total, ring, logged, started, minute, rec, save, copy, report, file, up, crashes, everSaved>>

(* Time passes.  No thread sleeps between the two halves of a record for as    *)
(* long as it takes the ring to come round (an hour).                          *)
Tick ==
    /\ minute < RingSize + MaxTicks
    /\ \A r \in Recorders : rec[r] # 0 => minute + 1 - rec[r] < RingSize
    /\ minute' = minute + 1
    /\ UNCHANGED <<memVars, started, rec, save, copy, report, file, up, crashes, everSaved>>
--------------------------------------------------------------------------------
SaveOrderSwapped == <<"totals", "ring">>   \* mutant of SaveOrder
SaveOrder        == <<"ring", "totals">>

Read(part) == CASE part = "ring"   -> [copy EXCEPT !.ring = ring, !.samples = Samples(lat), !.logged = logged]
                [] part = "totals" -> [copy EXCEPT !.total = total]

(* savePersistentMetricsToFile(): copy the ring under the mutex, then read the *)
(* totals, then write, remove, rename.                                         *)
SaveFirst ==
    /\ up /\ save = "idle"
    /\ save' = "half"
    /\ copy' = Read(SaveOrder[1])
    /\ UNCHANGED <<memVars, started, minute, rec, report, file, up, crashes, everSaved>>

SaveSecond ==
    /\ save = "half"
    /\ save' = "copied"
    /\ copy' = Read(SaveOrder[2])
    /\ UNCHANGED <<memVars, started, minute, rec, report, file, up, crashes, everSaved>>

(* The temporary file cannot be written: the old file stays.                   *)
SaveFails ==
    /\ save = "copied"
    /\ save' = "idle" /\ copy' = NoCopy
    /\ UNCHANGED <<memVars, started, minute, rec, report, file, up, crashes, everSaved>>

SaveRemove ==
    /\ save = "copied"
    /\ save' = "removed"
    /\ file' = NoFile
    /\ UNCHANGED <<memVars, started, minute, rec, copy, report, up, crashes, everSaved>>

SaveRename ==
    /\ save = "removed"
    /\ save' = "idle" /\ copy' = NoCopy
    /\ \/ file' = copy /\ everSaved' = TRUE
       \/ UNCHANGED <<file, everSaved>>
    /\ UNCHANGED <<memVars, started, minute, rec, report, up, crashes>>
--------------------------------------------------------------------------------
(* handleStatusRequest(): last_hour, the average, then the total.  The clock is *)
(* read before the mutex is taken: minutes and records may come between.           *)
ReportClock ==
    /\ up /\ report = NoReport
    /\ report' = [report EXCEPT !.phase = "clock", !.now = minute]
    /\ UNCHANGED <<memVars, started, minute, rec, save, copy, file, up, crashes, everSaved>>

ReportWindow ==
    /\ report.phase = "clock"
    /\ report' = [report EXCEPT !.phase = "window", !.now = 0, !.window = Window(ring, report.now)]
    /\ UNCHANGED <<memVars, started, minute, rec, save, copy, file, up, crashes, everSaved>>

(* getRollingAveragePerHour(): in the first hour the window once more, with a  *)
(* clock of its own ...                                                        *)
ReportUptime ==
    /\ report.phase = "window"
    /\ report' = [report EXCEPT !.phase = "uptime", !.hours = Hours]
    /\ UNCHANGED <<memVars, started, minute, rec, save, copy, file, up, crashes, everSaved>>

ReportClockAgain ==
    /\ report.phase = "uptime" /\ report.hours = 0
    /\ report' = [report EXCEPT !.phase = "again", !.now = minute]
    /\ UNCHANGED <<memVars, started, minute, rec, save, copy, file, up, crashes, everSaved>>

(* ... and later every bucket of the ring, whatever minute it holds.           *)
ReportAverage ==
    /\ \/ /\ report.phase = "again"
          /\ report' = [report EXCEPT !.phase = "average", !.now = 0, !.average = Window(ring, report.now)]
       \/ /\ report.phase = "uptime" /\ report.hours # 0
          /\ report' = [report EXCEPT !.phase = "average", !.hours = 0, !.average = Requests(ring) \div report.hours]
    /\ UNCHANGED <<memVars, started, minute, rec, save, copy, file, up, crashes, everSaved>>

ReportTotal ==
    /\ report.phase = "average"
    /\ report' = [report EXCEPT !.phase = "total", !.total = total]
    /\ UNCHANGED <<memVars, started, minute, rec, save, copy, file, up, crashes, everSaved>>

ReportSent ==
    /\ report.phase = "total"
    /\ report' = NoReport
    /\ UNCHANGED <<memVars, started, minute, rec, save, copy, file, up, crashes, everSaved>>
--------------------------------------------------------------------------------
(* start() returns once its threads are joined and it has saved; the object,   *)
(* and the metrics, live on until the next start().                            *)
Return ==
    /\ up /\ Quiet /\ report = NoReport
    /\ up' = FALSE
    /\ UNCHANGED <<memVars, started, minute, rec, save, copy, report, file, crashes, everSaved>>

(* The process dies: only the file survives.                                   *)
Crash ==
    /\ crashes < MaxCrashes
    /\ crashes' = crashes + 1
    /\ total' = 0 /\ ring' = [i \in Slots |-> Empty] /\ logged' = NothingLogged
    /\ lat' = Loaded(<<>>) /\ measured' = <<>> /\ taken' = 0 /\ started' = minute
    /\ rec' = [r \in Recorders |-> 0]
    /\ save' = "idle" /\ copy' = NoCopy /\ report' = NoReport
    /\ up' = FALSE
    /\ UNCHANGED <<minute, file, everSaved>>

Next ==
    \/ Load \/ Tick \/ Return \/ Crash
    \/ \E r \in Recorders : RecordTotal(r) \/ RecordBucket(r) \/ RecordLatency(r)
    \/ SaveFirst \/ SaveSecond \/ SaveFails \/ SaveRemove \/ SaveRename
    \/ ReportClock \/ ReportWindow \/ ReportUptime \/ ReportClockAgain \/ ReportAverage
    \/ ReportTotal \/ ReportSent

Spec == Init /\ [][Next]_vars
--------------------------------------------------------------------------------
Rings   == [Slots -> [epoch : {0} \cup Minutes, requests : 0..MaxEvents]]
Logs    == [Minutes -> 0..MaxEvents]
Recent  == UNION {[1..n -> Minutes] : n \in 0..LatCap}
Phases  == {"none", "clock", "window", "uptime", "again", "average", "total"}
Copies  == [ring : Rings, total : 0..MaxEvents, samples : Recent, logged : Logs]

(* The types of the state; a saved file is a complete copy of the metrics.     *)
TypeOK ==
    /\ total \in 0..MaxEvents /\ ring \in Rings /\ logged \in Logs
    /\ lat \in [at : [0..(LatCap - 1) -> {0} \cup Minutes], head : 0..(LatCap - 1), count : 0..LatCap]
    /\ measured \in Recent /\ taken \in 0..MaxLatencies
    /\ minute \in Minutes /\ started \in Minutes
    /\ rec \in [Recorders -> {0} \cup Minutes]
    /\ save \in {"idle", "half", "copied", "removed"} /\ copy \in Copies
    /\ report \in [phase : Phases, now : {0} \cup Minutes, hours : 0..MaxTicks,
                   window : 0..MaxEvents, average : 0..MaxEvents, total : 0..MaxEvents]
    /\ file \in {NoFile, Invalid} \cup Copies
    /\ up \in BOOLEAN /\ crashes \in 0..MaxCrashes /\ everSaved \in BOOLEAN

(* A metrics file never holds more events in its buckets than in its total,    *)
(* although it is written from a running server without stopping the threads   *)
(* that record: the totals are read after the buckets are copied, the reverse  *)
(* of the order in which they are written.                                     *)
FileConsistent == file \notin {NoFile, Invalid} => Requests(file.ring) <= file.total

(* The same for /status: it never reports more requests in the last hour, or   *)
(* on average per hour, than in total, across restarts and whatever is         *)
(* recorded while it is computed.                                              *)
ReportConsistent ==
    report.phase = "total" => report.window <= report.total /\ report.average <= report.total

(* Whoever looks at the counters from outside, in the file or in /status, sees *)
(* no part that exceeds its total.                                             *)
CountsConsistent == FileConsistent /\ ReportConsistent

(* The events recorded in the minutes after from, until to.                    *)
Logged(from, to) == SumFunction([m \in Minutes |-> IF from < m /\ m <= to THEN logged[m] ELSE 0])

(* last_hour counts no event twice, none of another hour, and misses none of   *)
(* the minutes that are still in the hour when it is summed: reusing a bucket  *)
(* an hour later forgets what it held, a record that crosses a minute is       *)
(* counted once, a load restores the buckets.  If no minute turns between      *)
(* reading the clock and taking the mutex the two bounds are one number; if    *)
(* one does, the minutes that have left the hour since may be missing.         *)
WindowExact ==
    [][report.phase = "clock" /\ report'.phase = "window" =>
          /\ Logged(minute - RingSize, report.now) <= report'.window
          /\ report'.window <= Logged(report.now - RingSize, report.now)]_vars

(* The latencies in memory are the last ones measured, in their order, before  *)
(* and after a restart: the ring is unrolled into the file and filled again    *)
(* from it, and the next sample replaces the oldest.                           *)
LatenciesKept == Samples(lat) = measured

(* Once the metrics have been saved, a restart of the process finds them,      *)
(* whenever it was killed: the file is written atomically.                     *)
AtomicSave == ~up /\ everSaved => file # NoFile
================================================================================
