# Geruest in TLA+

Geruest is a C++ web framework: one `Geruest` object owns an acceptor, an
`io_context` with a pool of threads, the routes, the caches, the e-mail sender, the
database clients and the status metrics.  Every connection is one coroutine
(`HttpSession` -> `Handler`).  This directory holds TLA+ modules of the parts whose
correctness depends on interleavings, failures, order, or rules that meet in many
combinations; the TLC configurations that check them; and TLAPS proofs of what
matters most.

All source paths below are relative to `src/src/` unless they start with `doc/`
(`src/doc/`).

## 1. Inventory

### 1.1 Parts, their state, and what would make them wrong

| part | state | hard behaviour | correct means |
|---|---|---|---|
| Server life cycle and accept loop: `server/Socket.cpp`, `server/Workers.cpp`, `server/HttpSession.cpp` | `running`, `acceptor_`, `io_ctx_`, `work_guard_`, io threads, `_activeSessions`, retry timer, persistence thread | `stop()` from a signal handler at any moment, restarts of the same object, coroutines suspended when the io_context stops, threads that cannot be created, accept errors | slots neither leak nor are released twice; the limit holds; the accept loop stays alive; `stop()` ends `start()`; nothing records while the last save runs |
| Status metrics: `data/ServerMetrics.cpp`, `server/Status.cpp`, `saveJSONToFileAtomic` | atomic totals, ring of 60 minute buckets and latency ring under a mutex, file | totals and buckets are written and read separately; buckets and samples are overwritten; the process dies while it saves | file and report are consistent; the window counts each event of the hour once; no sample is lost or out of order |
| HTTP framing: `handler/HttpFraming.cpp` | `pendingRequestData_`, `messageCount_` | pipelining, bodies in pieces, `Expect`, limits | requests begin where the last one ended; a body is bounded; every request ends in an answer or the end of the connection |
| Request pipeline: `handler/Handler.cpp`, `RouteDispatcher.cpp`, `GateEvaluation.hpp`, `websocket/WebSocketUpgrade.cpp`; access: `auth/BasicAuth.cpp`; responses: `data/HTTPResponse.cpp`, `data/CorsConfig.cpp`, `handler/GzipResponse.cpp` | the request in hand, users, protected pages, origins | order of gate, login and handler; exceptions at each stage; headers set at a dozen exits | one answer and one count per request; nothing protected goes out; CORS and length headers are right on every answer |
| WebSocket: `server/WebSocket.cpp`, `websocket/WebSocketUpgrade.cpp`, `GeruestWebSocketApi.cpp` | write queue, `pumping`, `writesEnabled`, gates; fragment accumulator, close state | writers on other threads, write failures, the session's end with handlers still posted; fragments with control frames between; callbacks that throw | frames in order, none lost, nobody waits for ever, no use of a destroyed socket; messages are what was sent; onClose once and last |
| E-mail: `email/EmailSender.cpp` | queue, workers, threads, `_ipTracking` | workers that leave while e-mails arrive, retries, drain at shutdown, window boundaries | every accepted e-mail is sent once or given up; `stop()` returns; the limits hold over every window; nobody is locked out |
| Database: `database/DatabaseClient.cpp`, `DbExecutor.cpp` | queue, workers, pipeline mode and prepared names of each connection; SQLite connections and threads | failures within a batch, time-outs, reconnects, destruction with queries in flight | each query is completed once, with its own result; no unprepared name is executed; nobody waits for ever |
| Text files: `handler/ResponseWriter.cpp`, `data/TextResponseCache.cpp`, owner cache of `data/ServerData.cpp` | entries, byte total, owners | files that change between read and store, or are only one of those a script is merged from; gates added after caching | what is cached is current; the gate is asked; the count is exact |
| Images: `builders/WebPConverter.cpp`, `data/DevAssetCache.cpp` | conversion slot, paths in progress, cache, files | many requests at once, failing conversions | one conversion at a time; whole images; cache within its limit |
| Pages, scripts and styles: `builders/HTMLBuilder.cpp`, `JSBuilder.cpp`, `CSSBuilder.cpp`, `AssetMerger.cpp`, `AssetHtmlDiscovery.cpp`, `ContentBuilder.cpp` | templates, page files, bundles, obfuscated copies, their times, what the text cache keeps | a bundle written over one of its sources; two first requests; edits | each script once and in order; the bundle is current |
| Routes, gates, redirects, languages: `data/RouteRegistry.cpp`, `GateRegistry.cpp`, `WildcardMatch.cpp`, `LanguageConfig.cpp`, `handler/StaticFileResolver.cpp` | maps and pattern lists | precedence, spellings of one page, redirect chains | no redirect loop; the gate of a page covers every spelling |
| Configuration: `config/ConfigLoader.cpp`, `server/Config.cpp`, `Geruest.cpp`, `email/EmailConfig.cpp`, `email/GeruestEmailApi.cpp` | settings, flags, .env cache | setters before, between and after loads; bad values; development mode | the order of calls does not decide who wins; what the database client is made with |
| JSON: `parser/JSONParser.cpp`, escaping of `security/Security.cpp` | keys, values, elements | quotes and brackets in strings, nesting, removed keys, text cut short | what is written is read back; the parser returns |

Further parts, not modelled: section 9.

### 1.2 How the parts interact

* `start()` loads the **metrics** before it creates a thread and saves them after it
  has joined all of them; `/status` and the persistence thread read them meanwhile.
* The **accept callback** counts a slot and spawns an **HttpSession**; the session
  owns the slot until its coroutine ends.
* A session's coroutine loops: **framing** cuts the next request out of the stream, the
  **pipeline** answers it, asking **routing**, **gates**, **logins** and **CORS**, and sends
  files through the **text cache**, the **builders** or the **image converter**.
* An upgraded connection becomes a **WebSocket session**, whose reading side and
  application send frames through the **write chain**.
* Handlers call the **e-mail sender** and the **database** from io threads; both have
  worker threads of their own, and the database resumes the coroutine afterwards.
* **Configuration** reaches all of them before `start()`.
* `stop()` reaches the accept loop (flag, acceptor, timer, io_context) and the
  persistence thread (flag).  It does not reach the e-mail workers (the destructor stops
  them) or suspended sessions (they stay suspended until the next `start()`).

`PROJECT.json` lists the hazards of the code at their lines, with the properties that
cover them or the reason why none does.

## 2. Modules

| module | models | extends or uses |
|---|---|---|
| `SlotLease` | abstract: at most `Cap` holders, one step per acquire and release | |
| `Server` | life cycle, accept loop, session slots | instance of `SlotLease` |
| `ServerProofs` | theorems about `Server`, `Routing` and `Config` | all three, `DataLemmas` |
| `Metrics` | recording, measuring, saving, loading, reporting, crash | |
| `MetricsJsonProofs` | theorems about `Metrics` and `Json` | `Metrics`, `Json`, `DataLemmas` |
| `HttpFraming` | the byte stream of one connection cut into requests | |
| `Paths` | the canonical spelling of a path | |
| `BasicAuth` | users, protected pages, the Authorization header | `Paths` |
| `Responses` | status, headers and body of a response; CORS; compression | |
| `RequestPipeline` | the whole connection: framing, access, dispatch, responses | `HttpFraming`, `BasicAuth`, `Responses` |
| `RequestProofs` | theorems about `RequestPipeline` | `RequestPipeline`, `DataLemmas` |
| `WriteChain` | outbound frames of a WebSocket | |
| `WebSocketSession` | reading, callbacks and the end of a session, on its chain | `WriteChain` |
| `WebSocketProofs` | theorems about `WriteChain` and about `WebSocketSession` | `WebSocketSession`, `DataLemmas` |
| `EmailQueue`, `SpamGuard` | queue, workers, retries, stop; one address of the guard | |
| `Email` | `enqueueEmail` as callers see it: guard, then queue | both |
| `EmailProofs` | theorems about `Email` | `Email`, TLAPS |
| `PostgresPool`, `SqlitePool` | the two database clients | |
| `Database` | the client a server is given | both |
| `DatabaseProofs` | theorems about `Database` | `Database`, `DataLemmas` |
| `TextFiles`, `ImageFiles` | pages, scripts and styles with their caches; images | |
| `Files` | `sendFileAsync` as a whole | instances of both |
| `FilesProofs` | theorems about `Files` and about `PageBuild` | `Files`, `PageBuild`, `DataLemmas` |
| `Routing` | registries, lookups, redirects, languages, files | `Paths` |
| `PageBuild` | merging the assets of a page, and the text cache in front of it | |
| `Config` | settings and who set them | |
| `Json` | writer and parser | |
| `DataLemmas` | what the proofs share about numbers, sequences and sums | TLAPS and its libraries |
| `MC...` | constants of the module for TLC | |

A definition whose comment calls it a *mutant* is a plausible bug in the code; it is used
by nothing in the specification.  Each property of a passing run has one: put in the place
of the real definition, it makes TLC find the property violated under the run's own
configuration.

### Server
`main` is the program counter of the thread inside `start()` (`loaded`, `flagged`,
`spawnStatus`, `run`, `joinWorkers`, `joinStatus`, `saving`, and `abort`, `abortJoin`
when the persistence thread cannot be created); `stopper` that of the thread in
`stop()`, whose five statements are five actions because other threads see each of
them.  `chain[n]` is the accept loop that the `n`-th `start()` posted: a loop left by an
earlier run survives with a suspended io_context and competes with the new one, also for
the single retry timer.  `active` is `_activeSessions`; the accept callback's
`fetch_add`, its `fetch_sub` when it rejects, the spawn and the release in
`SlotRelease` are steps of their own.  `session[s]` follows `HttpSession::runCoro`.
io handlers run only while io threads exist and the io_context is not stopped
(`IoLive`), but one that has begun runs to its end (`Busy`), which is what joining the
io threads waits for.

### Metrics
One kind of event stands for requests, 4xx, 5xx and internal errors, which the code treats
alike.  Recording is two steps (atomic total, then bucket under the mutex), a save is copy of
the rings, read of the totals, remove, rename.  A report reads the clock, then sums the window
under the mutex, then does the same again (in the first hour) or averages the ring, then reads
the total: a minute may turn and a bucket be reused between any two of these.  The rings are
the code's: slot, head and count; a bucket that belongs to another minute is cleared before it
counts.  `logged`, `measured` and `everSaved` are ghosts that only properties read.

### HttpFraming, BasicAuth, Responses, RequestPipeline
Bytes are numbered along the stream, so `raw` and `pendingRequestData_` are intervals.
One step is one call of `async_read_some` with any splitting of the bytes, or one branch
of the framing code.  `at` is where the connection's coroutine is; framing and pipeline
meet in `"dispatch"` (a request was framed) and `"loop"` (back at the top of
`Handler::runAsync`).  A request says its path, login, origin and codings, which stage of the
pipeline answers it and how gate, handler or file system behave, which are the
application's and so inputs.  A path is a sequence of tokens, as in `Routing`, and a request for a
script also names the page that owns it.  `sendFileAsync` asks whether a page needs a login under the
path as it came, `enforcePageAccessAsync` asks for it under the canonical path (`perRequestText`,
`PageAuth`); with a gate on the page only the second counts.  A response is a status, the values
each header has, in order, and a body with a size and the codings on it, and goes through the same
setters as in the code; the answer to a WebSocket handshake is written as it is and has neither
length nor type (`buildHandshakeResponse`).

### WriteChain and WebSocketSession
The session's strand is `posted` (handlers in order) plus the pump.  `owner` is the
session's coroutine: in the handler, waiting for a sent frame, closing, closed, gone.
`gate` is the `done` flag that `write()` polls.  A write fails at any time.
`WebSocketSession` adds what drives `owner`: the stream of client frames, the loop of
`readMessage` with its accumulator (`acc`, `started`) and close state, the raw or callback
route, and the end in `handleUpgrade`.  Its steps on the chain are the chain's own actions.

### EmailQueue, SpamGuard, Email
One step is one section under `queueMutex`, or one send.  The gap between leaving the loop
and unregistering, and the one between making a thread and its registration, are there.
`SpamGuard` is one address and one step per call, with the clock in seconds: each call runs
under one mutex and the records of two addresses never meet.  `Email` puts them in the
order of the caller: the guard answers, and any time later the queue does.

### PostgresPool, SqlitePool, Database
A worker is a program counter over `workerMain`, `runBatchOnConn` and `runOneItem`, with the
batch it took, the results it has read and its cache of statement names.  A connection is
what libpq shows of it: its state, whether it is in pipeline mode, the statements its server
knows, and the answers on their way (`input`), in order.  A statement is good or broken,
and may be the same text as another one.  Time-outs and lost connections come anywhere,
bounded by `MaxFaults`.  `unclean` and `unsynced` mark the connections a batch gave up on,
and those whose sync failed; the properties except them where the code does (section 6).  `SqlitePool`
is the executor's threads, the pool of connections and one step per sqlite call.

### TextFiles, ImageFiles, Files
A session's request is a step per look at shared state: owner cache, gate, text cache, file,
modification time, insertion.  A merged script is made in more steps: the bundle on disk is loaded,
its time compared with those of the page and the source (`Check`), and if it is older the page and
then the source are read and merged (`Template`, `Merge`), without writing the bundle.  What is
cached carries the time of the bundle file.  The author edits, removes and restores files at any
time; the source is only edited.  Obfuscation, development mode and exclusions are `PageBuild`'s.
Images: the size that is announced, the pieces that are sent, the conversion slot, the paths in
progress, the two modes, exceptions and half-written files.

### Routing
Paths are sequences of tokens with the width of each in letters, since the precedence of
wildcards is by length.  Registrations come in any order, `MaxCalls` of them; a lookup is a function of
what the registries hold: the exact rule (`Exact`), else the best wildcard (`Best`), then both
for the path without its language.  The properties compare it with the documented precedence, and
the probe that refuses loops with what a client does that follows redirects (`Hop`).

### PageBuild
Content is a sequence of segments (asset, version).  A browser's load is: get the page
(build it if need be), get what it names, run it.  One call of a builder reads its inputs in
one step and writes in a later one; `overtaken` says that the author came between the two.
In production, when `caching` is on (it is by default), the text cache answers first (`Hit`, by the
time of the bundle file alone) and keeps what a builder made (`Keep`); it has room for all, and its
store is one step, since `TextFiles` takes it apart.  The page's own HTML is not kept there.
`MaxChanges` bounds what the author does.  Assumptions: the author edits only assets the template
names, and an edit has a later time than what was there.  `Only` picks the members of a set out of
a sequence; it is a recursive function, which the provers can expand.

### Config
`server` is the value of each setting and the set of flags; `env` and `cache` the environment
and `_envFileCache`.  A value is one of the texts the parsers tell apart ("7", "900", "-1",
"junk", "on", ...).  A call of the application is a setting and a value, or `"load"` and what the keys
are `Known` as at that moment; `Applied` is what it does to the server, and the ghosts `setters`
and `loads` are the calls so far, at most `MaxChanges` with the clears of the cache; `heard` is what
`setters` was at the last load.  `client` is what the database client was made with: the last
statement of `loadConfig` makes it (`ClientOf`), and no setter touches it.

### Json
Text is a sequence of characters; an object is `keys`, `data`, `arrayData` as in the code, with
`said` as a ghost of what the caller set.  Literals are one character and doubles have one
decimal (six in the code).  The parser's loops are steps, so that a pass that does not
advance is a state.

## 3. Runs

| run | configuration | shows |
|---|---|---|
| `server` | 2 sessions, limit 1, 2 starts, 2 stops | `CountersMatch`, `ThreadsJoined`, `LeaseRefinement` (implements `SlotLease`), `AcceptLoopAlive`, `StopReturns` |
| `metrics` | 2 recorders, rings of 2, 2 events, 1 latency, 2 ticks, 1 crash | `CountsConsistent`, `WindowExact`, `LatenciesKept` |
| `requests` | reads of up to 2 bytes, heads up to 3, bodies up to 2, 2 requests per connection; streams and requests of `MCRequests` | `OneAnswerOneCount`, `FramedWithinLimits`, `AccessDecides`, `CorsOnEveryAnswer`, `BodyAsTold`, `ConnectionEnds` |
| `websocket` | 3 frames sent, 4 reads, limits of 2 | `WireInOrder`, `NothingLost`, `MessagesExact`, `CallbackOrder`, `ChainRespected` (implements `WriteChain`), `SendsReturn` |
| `email` | 2 threads, 1 worker, queue of 1, 1 retry, 3 e-mails, 2 callers, 1 e-mail per 3 s, 7 s | `EmailsAccounted`, `SpamLimits`, `StopReturns`, `HandledWhileWorking` |
| `database` | 2 workers, batches of 2, 3 queries of 2 texts, 1 fault; 2 SQLite threads and connections | `EachCompleted`, `CacheSound`, `OwnAnswer`, `WriteCountExact`, `AllAnswered` |
| `db_mapping` | 1 worker, 5 queries of one text, no fault | finding: a query is completed with the result of another |
| `files` | 2 readers, 2 edits, 1 change of gates; 3 viewers, 2 images, 1 fault | `LimitsExact`, `GateAsked`, `CachedIsCurrent`, `ImagesWhole` |
| `routing` | 14 spellings, 4 patterns, 5 sources, 4 targets, 3 registrations | `ExactRedirectsEnd`, `GatesApply` |
| `pages` | 2 sessions, 2 edits, each template of `MCPageBuild` | `BundleRunsEach`, `BundleIsCurrent` |
| `json` | 3 calls on 2 nested objects, 3 cuts | `RoundTrip`, `EveryPassAdvances` |
| `config` | 3 calls, 2 environments, 15 .env files | `PrecedenceKept` |

Some of these are conjunctions of named parts; the modules state and comment each part.
Each module's `TypeOK` holds in the configuration of its run too (add it to the
configuration to see it); it is not among the regular properties except where a
proof needs it.

Deadlock checking is off where the system may really stop: a server nobody starts any
more, a connection that ended, a session that is over, an e-mail sender that has stopped, the
bound on calls used up.

### Why the bounds are enough
* `server`: two starts are what it takes for two accept loops, for sessions suspended
  across a restart and for the reload that zeroes the handler count; two stops make one
  overlap a restart; two clients under a limit of one make every rejection and the race of
  two counters happen.  The proofs (section 5) take the safety part to every size.
* `metrics`: a ring of two comes round within two ticks, so buckets are reused and
  cleared; two recorders and a saver or a reporter are all the threads that can meet on a
  total and a bucket.  Minutes turn between a report's clock and its sum.
* `requests`: reads of at most two bytes split every head and body; the shapes lie on both
  sides of each limit, and a third message follows the limit of two requests; single and
  paired messages carry every kind of request.  Users, pages and origins include one that is
  known and one that is not; a password has a colon in it.  A page is protected as "/admin",
  "/admin.html" or both, and asked for as each of these, as "/admin/" and as "/en/admin".
* `websocket`: three frames are one in the pump's hand, one queued and one posted; a message
  of three parts is more than the limit of two allows; four reads end it after a control
  frame in its middle.  The order of frames is proved for every number of them.
* `email`: more threads than workers, a queue smaller than the number of e-mails, and
  one retry reach overfilling, several attempts and every order of leaving and making
  workers; the clock passes twice the window, after which records are removed.
* `database`: two queries share a text, so that a cached statement is executed; a batch of two
  fails at its first and at its second; one query is left for the connection afterwards.
* `files`: a reader that builds while another is served and the file changes; two edits are what
  it takes for a page that merges a script to come with a bundle on disk that is newer, or
  older, than what is merged, and for an edit of the source after the merge was cached; three
  viewers of two images make one wait for the slot and one for the path.
* `routing`: a redirect loop of two rules and the replacement of a rule by a third call;
  patterns of each kind that overlap.
* `pages`: two first requests at once and an edit before, between and after them; with two edits the
  text cache, the bundle and its obfuscated copy can each be of another age.
* `json`: set, overwrite, remove; strings hold quotes, commas, brackets and backslashes.
* `config`: a setter, a load, and one more of either, in every order; some .env files name a database,
  and the setters of its pool come before and after.

## 4. Fairness and assumptions

* `Server`: every thread that can take its next step does (the system schedules it,
  a timer expires).  No client is made to connect, to send or to leave, and nobody is
  made to call `start()` or `stop()`.  `StopReturns` therefore also says that `stop()` waits
  for no client.
* `RequestPipeline`: the coroutine runs on, and the client closes at last (the code has no
  read timeout: a client that never closes keeps its slot, which is why
  `ConnectionEnds` is about clients that left).  Gates and handlers are taken to return.
  Users, pages and origins are set before `start()`.
* `WriteChain`, `WebSocketSession`: the strand runs what is posted, a write ends, well or not,
  and the session's coroutine goes on.  A peer that neither reads nor closes would hold
  the pump; the code has no write timeout.
* `EmailQueue`: threads run on; a send ends (curl has a timeout); `stop()` is not forced.
  Assumed of the application: nobody enqueues after `stop()` has begun.  `Enqueue` is
  disabled when the bound of thread identities is used up.
* `Database`: workers and executor threads run on, and a wait for an answer ends by its
  poll timeout.  Nobody is made to query or to destroy the client.
* `ImageFiles`: a session that began goes on (`LimitsExact` and `ImagesWhole` need no
  fairness; `ImagesAnswered`, not among the regular properties, does).
* `Metrics`: no thread sleeps for as long as the ring takes to come round between the two
  halves of one record (an hour in the code).  `start()` returns with all threads joined,
  which `Server` shows (`ThreadsJoined`) except when `startWorkers()` throws.
* `SpamGuard`: `IntervalKept` (not among the regular properties) needs the minimum interval to
  be at most twice the tracking window, since older records are removed; nothing in the code
  enforces that.
* `Json`: `RoundTrip` is about strings that do not begin with `{` or `[` and numbers without an
  exponent, `EveryPassAdvances` about strings that do not begin so (section 6).

## 5. Proofs

### The server (`ServerProofs`)

For every finite set of sessions, every limit of at least one (`SlotAssumption`;
`setMaxQueueSize` turns 0 into 1) and any number of starts and stops (`BoundAssumption`):

| theorem | property |
|---|---|
| `TypeCorrect` | `TypeOK`; in particular the unsigned `_activeSessions` never goes below zero |
| `SlotsAccounted` | `SlotAccounting` |
| `SessionLimit` | `CapRespected`: sessions and admitted clients never exceed the limit |
| `ImplementsLease` | `LeaseRefinement`: every step of the server is a step of `SlotLease` or a stutter |
| `AcceptorClosedForGood` | `NoAcceptAfterClose` |
| `SaveIsQuiescent` | `QuiescentSave` |
| `StatusThreadJoined` | `ThreadNotOverwritten` |
| `RunsLeaveNoThread` | `ThreadsJoined`: the last two together |
| `CountersExact` | `CountersMatch`: `SlotAccounting`, and `_activeHandlers` until a second `start()` reloads it |
| `SlotInvariant` | the inductive invariant itself |

The argument for the slots.  `CapRespected` is not inductive: the accept callback compares
the *counter* with the limit, so the counter must be known to count.  `SlotAccounting` says
what it counts: live sessions, callbacks that admitted a client but have not spawned its
session, and callbacks about to reject one.  The types make the decrements safe.  So the
inductive invariant is `SlotInv == TypeOK /\ SlotAccounting /\ CapRespected`, with
`ChainFresh` beside it: the accept loop that a `start()` is about to post does not exist
yet, without which posting it could overwrite a callback that holds a slot.  An admission
happens only when `active < MaxQueueSize` *before* the addition, and `active` is at least
the number of holders and admitted clients: this is why one `fetch_add` is enough however
many accept loops a restart leaves behind.  `CountsUnchanged` disposes of the actions that
touch no slot; the others change one set by one element each.

`SaveIsQuiescent` and `StatusThreadJoined` rest on small invariants of the program counters:
what is joined stays joined until the next `start()` makes it again.  `CountersExact` adds that
no session serves before the first `start()` has posted its loop (`NoSessionYet`): then the
load that zeroes the handler count can only be a later one.

### The metrics and JSON (`MetricsJsonProofs`)

For any number of recording threads, any sizes of the two rings (`RingAssumption`), any number
of events, minutes and crashes:

| theorem | property |
|---|---|
| `CountsNeverExceed` | `CountsConsistent`: no part exceeds its total, in the file and in `/status` |
| `LastHourExact` | `WindowExact`: `last_hour` counts no event twice and none of another hour, and misses none of the minutes that are still in the hour when it is summed |
| `LatenciesInOrder` | `LatenciesKept`: the ring holds the last ones measured, in order |

`CountsConsistent` depends on two orders: total before bucket when an event is recorded,
buckets before totals when they are read.  `CountsSoFar` says so of the states between: the
buckets and the threads that are between the two halves of a record add up to no more than the
total, and what was read of the buckets is no more than the total that is still to be read.
For `WindowExact`, an action property about the step that sums, each bucket within the window
must be known to hold exactly what was logged in its minute, and a minute without a bucket
nothing (`Exact`), in memory, in a copy being saved and in the file, since a load brings back
what a save wrote.  A record that reuses a bucket keeps this because two minutes of the same
slot are a whole ring apart (`RemaindersDiffer`), which is also why the sum over slots and the
sum over minutes have the same terms (`SumOfSame`).  The clock of the report may be older than
the ring it is compared with: then a bucket of the oldest minutes may have been reused, and
only what is younger is sure to be there (`WindowBounds`).  The third is arithmetic of slots
modulo the capacity.

For any keys, strings, numbers and arrays (`JsonAssumption`: keys are not empty and hold neither
quotes nor backslashes), any number of calls, any depth of nesting and any cut:

| theorem | property |
|---|---|
| `JsonInvHolds` | the inductive invariant: objects and parser are well formed |
| `JsonTypeCorrect` | `JsonTyped`: among others the place never leaves the text |
| `StallsOnlyAtStrays` | `StallsAtStrays`: a pass of the loops leaves the loop, gets further or is before an array element that begins no value |
| `StrayForever` | `StraysStay`: before such an element the loop stays for ever |

The last two hold whatever text the parser is given (`LoopIs`, `StrayStays`): together they say
when `parseJSON` and `parseArray` return.  The argument is about where each reader stops:
`readString`, `readNumber` and `readNested` get further when what they read begins there
(`ReadDataIs`), and of the characters an element may begin with, only a comma is no value,
which the loop passes itself.  That the texts to be parsed are texts needs the recursion of the
writer: its decimals go down by tenths (`StepsDown`), the scans up by one (`StepByStep`).

### The write chain (`WebSocketProofs`)

For any number of frames (`FrameAssumption`):

| theorem | property |
|---|---|
| `TypeCorrect` | `TypeOK`; in particular one pump runs at most, and `pumping` tells whether |
| `WrittenInOrder` | `WireInOrder` |
| `FramesKept` | `NothingLost` |
| `QueuedFramesPumped` | `PumpRuns` |
| `NoUseAfterDestroy` | `SocketNotUsedAfterDestroy` |

`WireInOrder` alone is not inductive: what is written next comes from the pump's hand, which
is filled from the queue, which is filled from what is posted.  While writes are enabled the
four form one sequence (`OnItsWay`) that holds every frame in order, and each step only moves
the boundary between two of them (lemma `HeadMoves`) or adds a frame at the end.  Once writes
are disabled the queue may be left behind, but a write that had begun may still succeed, so
the invariant `FramesInOrder` keeps what is written and in hand in order for good.
`NoUseAfterDestroy` needs that writes are disabled before the session is over
(`ClosedForWrites`), whichever way it ended.

### The session and its chain (`WebSocketProofs`)

For every client, every limit and any number of frames:

| theorem | property |
|---|---|
| `SessionImplementsChain` | `ChainRespected`: every step of a whole session, reading side and callbacks included, is a step of `WriteChain` or leaves it alone |
| `SessionWritesInOrder`, `SessionKeepsFrames` | `WireInOrder`, `NothingLost`: what is proved of the chain, carried over to sessions |
| `CallbacksInOrder` | `CallbackOrder`: `onOpen` first, `onClose` last, once each, on a callback route |
| `MessagesAsSent` | `MessagesExact`: what the application gets is what was sent, whole and within the limits |

`SessionStep` has one case per action.  `CallbacksInOrder` reads the log off the place of the
coroutine (`CallbacksSoFar`).  `MessagesAsSent` needs to know of the accumulator what the
property says of a message: it is a run of data frames of the stream, none of them final but
the newest, beginning after the last message that was given (`FramesCollected`).  The sizes are
sums over a fold of the accumulator; that appending a frame adds its size is an
induction on the length, done with the least counterexample (below).

### The connection (`RequestProofs`)

For every set of streams in which messages and requests are of the kinds `FramingAssumption`
and `RequestAssumption` list, every size of a read, every limit, users, pages and origins:

| theorem | property |
|---|---|
| `FramedAsSent` | `FramedWithinLimits`: each request handed on is one whole message, in order, with a bounded body |
| `AnsweredAndCountedOnce` | `OneAnswerOneCount`: one answer per request, in its turn, counted in the class of its response |
| `AccessIsDecided` | `AccessDecides`: no answer of a handler passes its gate, no protected page or script of one its login if the page has a gate or is asked for as it is protected, and none is refused that both let through |
| `OriginsAreTold` | `CorsOnEveryAnswer`: every answer says of its origin what the CORS policy does, once |
| `BodiesAreTold` | `BodyAsTold`: every answer but the handshake of a WebSocket, which has no body, tells the length and the coding of the body it has |
| `ConnectionInv` | the inductive invariant |

`FramedSoFar` says what was framed; it is kept because of `ReadSoFar`, which bounds how far
the buffer reaches beyond what was looked for at each place of the coroutine (one read).  The
other half, `RequestInv`, goes along the pipeline: at each place, what the stages before have
decided (`WayInv`), what that means for status and metrics once a response is chosen
(`EndInv`), and which requests have their answer (`AnsweredInv`).  There is one lemma per
stage; a response keeps its status through CORS, compression and serialisation
(`FinishKeeps`). `AccessIsDecided` compares `authenticate`, which cuts the credentials at
their first colon, with the definition that knows no credentials.  It assumes `PlainNames`: no
user's name has a colon, since such a user can never log in (section 6).  The users of the run
fulfil it.  What the property says of spellings follows from both questions: whoever is
refused was refused under the canonical path, and whoever gets past without a login had a page
without a gate and a path that is not protected as it came.

The last two follow a response through the dozen exits of the handler: a response is given its body
(`Plain`: it tells nothing yet), is compressed or not, gets its CORS headers and is sent, which
makes up for a length that is missing (`Tells`); `AnswerInv` says so of what was sent.  They
assume `HonestHandlers`: a handler of the application sets neither length nor origin itself, and
names a coding exactly when its body has it (and then only "gzip" to those who accept it).  The
code believes a handler that does otherwise.  The streams of the run fulfil it.

### E-mail (`EmailProofs`)

For any threads, workers, queue limit, retries, and each setting of the guard:

| theorem | property |
|---|---|
| `EmailsNeverAstray` | `EmailsAccounted`: every call is counted once, every accepted e-mail is in one place, the queue exceeds its limit only by what was in hand |
| `NoEmailTwice` | no e-mail is in two places |
| `SpamLimitsHold` | `SpamLimits`: no window lets more through than the limit; who waited long enough passes |
| `IntervalHolds` | `IntervalKept`, provided `MinInterval <= 2 * Duration` |
| `QueueInvariant`, `GuardInvariant` | the inductive invariants |

`EachEmailOnce` counts, so it must be known that the places are disjoint (`OnePlace`): otherwise a
send might not add to what is sent.  `WindowLimit` is about the requests that passed, the code
about a record with a count and a time; `RecordExact` says what the count leaves out:
requests that are at least a window older than the last.  `Forgotten` says when there is no record.

### Database (`DatabaseProofs`)

For any number of connections and queries, any batch size and number of faults, any texts; any
threads, connections and statements of SQLite:

| theorem | property |
|---|---|
| `EachCompletedOnce` | `EachCompleted`: at most once, and none is left behind when the destructor returned |
| `CacheIsSound` | `CacheSound` |
| `EachItsOwnAnswer` | `OwnAnswer` |
| `WriteCountsExact` | `WriteCountExact` |

A query is queued, in one batch, or completed (`Places`).  A batch that fails completes all its
queries, and so may only fail before the first is completed: an exception leaves `runOneItem`
only on the first query of a batch of several (`FallbackThrows`), on a connection that cannot
send.  `Aligned` says what lies on a connection that was not given up, at each place
of the worker: while sending, one result and one null for each query sent; while receiving, those
of the rest and the sync; and that the answers read are those of the batch, in order.  From it
`OwnAnswer` follows as an action property.  For SQLite: a connection is with one thread or once
in the pool (`Lent`), so nobody writes on it between a write and the reading of its count
(`CountStands`).

### Files (`FilesProofs`)

For any sessions, images, limits, edits and faults:

| theorem | property |
|---|---|
| `GateIsAsked` | `GateAsked` |
| `ServedFromCacheIsCurrent` | `CachedIsCurrent`: what the cache answers with is what would be made now, of one file or of all that are merged; with the exceptions below |
| `ImagesSentWhole` | `ImagesWhole` |
| `LimitsAreExact` | `LimitsExact`: one conversion at a time (`OneConversionAtATime`), and both caches count what they hold |

The two branches of `sendFileAsync` share no state, so each invariant looks at the steps of one
(`BranchStep`).  The times of a file grow, and what carries the time the file has is
`Sound`, in the cache (`EntryTimely`) and in the hands of a session (`StampTimely`): it is the
file's version, or it was merged and the bundle on disk is older than what it was merged from.  The
second is where `CachedIsCurrent` ends: a merged script is not what would be made now once
one of its inputs was edited again, and nothing about the bundle file tells (section 6,
`RegeneratedWhenModified`).  Of a page, of a bundle that is newer than its inputs and of a script that
no page merges, the property does say that what is kept is current.  The totals are sums over what
is held: `DataLemmas` proves that the library's fold adds and removes one term, and that the list
of ages names each image once (`ImagesInv`) makes removing the oldest subtract what was counted.

### Pages and bundles (`FilesProofs`)

For any browsers, templates, exclusions and changes:

| theorem | property |
|---|---|
| `PagesAreTyped` | the type invariant `PagesTyped` |
| `ScriptsAreCurrent` | `BundleIsCurrent`: what a browser runs as the page's bundle is the merge of the scripts as they are at that moment, unless the text cache answers with a bundle older than its inputs |
| `BundlesRunEach` | `BundleRunsEach`: before the first change, whoever loads the page runs each mergeable asset once, in the template's order |

Of the constants only `PageAssumption` is assumed: a template names an asset once, and neither the
page's own name nor a foreign address is an exclusion.

`ScriptsAreCurrent` rests on `UpToDate`.  The bundle and its obfuscated copy are reused by
their times, so the invariant is about times: each is the merge of the files as they are or
older than one of its inputs (`FileGood`, `StoredGood`; `FreshIs` says what the comparison
with the newest input means).  What the text cache answers with is the merge if the bundle on
disk is not older than its inputs (`CacheGood`): all the cache knows is the time of that
file.  A change makes its file newer than all three.  A builder has its text from an earlier
moment and its file is stamped when it writes, so the text in its hands must be the merge as
well (`BuildingGood`, `StoringGood`, which also speaks of what is about to be kept); that is
what a change in between destroys, and why the property leaves out what came after one
(`overtaken`).  Whether a builder holds a copy of the bundle or of another script is read off
what its browser has still to fetch, which is always the rest of its page (`LeftBehind`).

`BundlesRunEach` rests on `RunsOnce`.  `Locals`, in whose terms the property is stated, is
what the files are when asked, and writing the bundle changes them.  So the invariant is about
`Named`, what the template names and no exclusion covers, and `Merge`, the first version of
each: until the author changes something, the file under the bundle's name is missing, an
asset or `Merge`, and all other places hold nothing or `Merge` (`FilesOnce`); each browser has
the bundle still to fetch, or has run `Merge` and nothing else of the page (`SomeOnce`).
`MergesWhole` shows that merging gives `Merge` from each of these states, also when the bundle
has already been written over the source called like it: then what is before it is a prefix of
it, and is not put there again.  `MergedTail` is about a page that is being fetched: before
the bundle only foreign scripts, and after it.

### Routes, gates and redirects (`ServerProofs`)

For any registrations, paths, patterns and languages:

| theorem | property |
|---|---|
| `RegistriesInv` | the types of the registries |
| `GatesAreInOrder` | `GatesApply`: the gate that is asked is the first by the documented precedence, every spelling of a gated page is gated, and routes and their gates agree |
| `RedirectsEnd` | `ExactRedirectsEnd`: following redirects without stars ends |

A lookup takes the best of the rules that match, so the order of patterns must be strict and total
(`Better`: longer first, then by letters), also for patterns of one length; then the best rule
exists in every finite set and the loops of the code find it.  `GatesAreInOrder` assumes
`PagesAreNamed`: a path ends in ".html" only after a name which is not that of a language.  The
other paths are exceptions indeed: "/a/.html" is served the file of "/a/", but its gate is
looked up under another path, and "/en.html" likewise.  The paths of the run fulfil it.

For the redirects the invariant is not about paths: no nonempty set of plain rules is closed under
following (`NoneClosed`).  A rule that would close one is refused, since the way of the probe would
go on for ever and so for the `MaxHops` steps of `hasRedirectLoop`.  And a way with more hops than
there are rules uses one of them twice, so that the rules it uses in between are closed.
Redirects whose target begins with a language are left out, by the property too: the probe
looks in the languages configured at that moment, and others may come afterwards.

### Configuration (`ServerProofs`)

`OrderNeverDecides`: `PrecedenceKept` (the value of a setting is the same in any order of setters and
loads; the database client is that of the setters before the last load, and of the loads, in any
order; development mode is uncached), for every number of calls, any environment, files and values.

The invariant `SettingsInv` says that the server agrees, on every setting that is not
`Unordered` and on its flag, with one on which the same setters and then the same loads were
called.  A load adds itself at the end of both.  A setter has to be moved in front of all
loads so far, which is an induction over them (`LoadsCommute`), and its step that one setter
and one load may change places (`CallsCommute`): a setter's value depends on nothing but its
argument, and its flag keeps the load away; names are added to a set by both; a size of 0
changes nothing before and after. None of this is so for the `Unordered` settings (section 6
has an example).  No setter makes the database client (`ClientKept`), and a load makes it of
settings that are all in order (`LoadMakesClient`, `ClientAlike`), so at a load it is the one
of the reordered calls; what is called afterwards changes `setters` and the values, but
neither `heard` nor the client (`ClientStep`).  For development mode the invariant is
`Uncached`: a limit without a flag is 0, and a load that makes it so reads no limits.

### Induction without an induction rule (`DataLemmas`)

The induction theorems of the library take an operator as parameter, which the provers
cannot instantiate.  For one claim at a time there is another way: the set of its
counterexamples, if there are any, has a least element (`LeastNumber`, from the library's
well-foundedness of finite subsets), or a smallest set, and that leads to a contradiction.  So
the recursive functions and folds that the invariants meet (the start of a message, the size of
a message, the bytes in a cache, the assets picked from a template and their content put
together) are dealt with for all inputs.

### Only model-checked

* The liveness properties: fairness and `ENABLED` are out of the prover's reach.
* `Json` (`RoundTrip`, `EveryPassAdvances`): what the writer's text and the parser's loops
  compute is recursion over nested texts.  Of the second the part about the parser is proved for
  every text (`StallsOnlyAtStrays`); that no text of the writer has such an element, if no string
  looks like JSON, is checked.

## 6. What the checks found

### The finding of the regular runs

**A query is completed with another query's result** (`db_mapping`).  When a batch fails in
pipeline mode, `workerMain` completes its queries with the exception
(`database/DatabaseClient.cpp:562-566`) and leaves the connection in pipeline mode with the
answers of the batch still to come.  The next query's `pgEnsurePipelineOff` (272-276) fails
unnoticed, and `pgReceiveFinalResult` (190-217) takes the first answer it finds.

### Further statements the code does not keep

Each has a configuration that makes TLC print the trace (`MCRequestsRefuted.cfg` holds five of
them: with `-continue` TLC reports each; for four it is a line added to the configuration of a
regular run or put in the place of one); they are not part of the regular runs.

| configuration | property | what happens |
|---|---|---|
| `MCServer.cfg` with `PROPERTY StopHonoured` | `StopHonoured` | `start()` sets `running = true` (`server/Socket.cpp:239`) whatever happened before; a `stop()` in the beginning of `start()` is overwritten.  `doc/FEATURES.md:27`: "The thread that calls `start()` also runs the `io_context` until `stop()`" |
| `MCMetrics.cfg` with `INVARIANT AtomicSave` | `AtomicSave` | `saveJSONToFileAtomic` removes the target and then renames (`parser/JSONParser.hpp:322-324`); a crash between loses the file.  Line 297: "temp file in the same directory, then rename over target" |
| `WriteChainStuck.cfg` (`WriteChain`) | `FireAndForget` | after a failed write the frames still queued are never completed (`server/WebSocket.cpp:458-465`), and `write()` polls on (502-504), keeping the session.  `doc/WEBSOCKETS.md:26`: "fire-and-forget replies from callbacks" |
| `EmailQueueStranded.cfg` (`EmailQueue`) | `EveryEmailHandled` | a worker leaves its loop (`email/EmailSender.cpp:154`) before it unregisters (189-192); an e-mail accepted in between waits for the next one.  `EmailSender.hpp:118`: "true if email was queued" |
| `MCRequestsRefuted.cfg` (`MCRequests`) | `GateBeforeHandler` | a sync handler runs before its gate (`handler/RouteDispatcher.cpp:141`).  `doc/GATED_ROUTES_PAGES.md:191`: "Gate runs before the route handler on every matching request (sync and async)" |
| `MCRequestsRefuted.cfg` (`MCRequests`) | `MethodNotAllowedAnswered` | an exception of a sync handler passes the catch clauses and drops the connection.  `data/MethodNotAllowed.hpp:15`: "signal the framework should respond with 405" |
| `MCRequestsRefuted.cfg` (`MCRequests`) | `OriginVaries` | compression replaces `Vary: Origin` (`handler/GzipResponse.cpp:136`), which `CorsConfig_tests.cpp:55` expects on the response it is applied to |
| `MCRequestsRefuted.cfg` (`MCRequests`) | `LoginBeforeHandler` | routes are never asked for a login; `doc/BASIC_AUTH.md:63`: "Protected route (auth validated before handler called)" |
| `MCRequestsRefuted.cfg` (`MCRequests`) | `ProtectedHoweverSpelt` | whether a page needs a login is looked up under the path as it came (`handler/ResponseWriter.cpp:216`), and only then asked under the canonical one (`handler/Handler.cpp:69-72`): of a protected "/admin" without a gate, "/admin.html" and "/en/admin" go out without a login, and a page protected as "/admin.html" is never asked for one.  `doc/BASIC_AUTH.md:14`: "All `/admin` and `/dashboard` pages now require login" |
| `MCPageBuild.cfg` with it for `BundleIsCurrent` | `RegeneratedWhenModified` | with the default limits (`data/ServerData.hpp:256-257`) a merged script is kept in the text cache, which looks at the time of the bundle file alone (`data/TextResponseCache.cpp:31-33`, 51); after an edit of the template or a source it goes on answering with the old merge.  `doc/OBFUSCATION.md:104-106`: "Files are regenerated when: [...] Source file is modified (detected via file timestamp)" |
| `MCRoutingLoops.cfg` (`MCRouting`) | `NoRedirectLoop` | "/b/b" to "/a/b" and then "/a/*" to "/b/*" is accepted: the probe of a wildcard is one path (`data/RouteRegistry.cpp:56`).  `doc/REDIRECTS_AND_404.md:100`: "Redirects that would create a loop are rejected" |
| `MCConfig.cfg` with it for `PrecedenceKept` | `ClientHearsSetters` | the database client is made at the end of `loadConfig()` only (`server/Config.cpp:303`); a setter of the database called afterwards changes the setting and never takes effect.  `doc/CONFIGURATION.md:15`: "Call setters before or after `loadConfig()`; either way, a setter locks that field", with 115-119 and `doc/DATABASE.md:58` about the setters of the database |
| `MCConfigLocks.cfg` (`MCConfig`) | `NeverOverwritten` | `DEV_MODE` from .env overwrites cache limits and log level set by code (`server/Config.cpp:81-87`).  `Geruest.hpp:288`: "Code (explicit setter calls) - highest priority, never overwritten" |

### Met while modelling, kept as the code has it

Server, metrics, requests
* `getWindowMetricsHour` reads the minute before it takes the mutex (`data/ServerMetrics.cpp:183`,
  185).  When a minute turns in between and a record reuses the oldest bucket, `last_hour` has
  neither the minute that went nor the one that came.  `WindowExact` has a bound on each side for
  that, which are one number when no minute turns.
* The average per hour of `/status` sums every bucket, also those older than an hour
  (`data/ServerMetrics.cpp:215`).  Counters of accept errors, failed opens and overload are not
  saved; the saved head of the latency ring is never read.
* The end of a chunk is computed from a 64-bit size without a check for wrap-around
  (`data/HTTPRequest.cpp:240`).
* `doc/GATED_ROUTES_PAGES.md:184`, `:192` and `:200` say that a gate that throws is a denial
  (redirect or 403); the code answers 500.
* 401 and 403 of the page check, and the 400s of framing, are not counted as 4xx
  (`MetricsMatch` says what is).
* Header names are compared as they were sent; `gzip;q=0` counts as accepted; a user name with
  a colon can never log in; protected pages are open as long as there are no users.
* The login of a page is first looked for under the path as it came; section 6 above has what
  that lets through.  `LoginDecides` says what is left: with a gate on the page its canonical path
  decides alone, and for a script that of the page which owns it.

WebSocket, e-mail, database
* A data frame within a fragmented message replaces what was collected; the first frame of
  a message is not compared with `maxMessageBytes`; reserved opcodes arrive as binary.
* The echo of a Close carries 1005; other threads can have a data frame written after the Close
  frame; after an exception `onClose` is told 1011 and the client 1000; `idleTimeout` and
  `pingInterval` are never used.
* `doc/EMAIL.md:149` says 3 attempts, the code makes 4 (`EmailSender.cpp:168`); `:150` says 3
  worker threads, but threads register only when they first run, so `enqueueEmail` can make more
  (`EmailSender.cpp:72`).  Retries bypass the queue limit; `OverfillBounded` shows by how little.
* An e-mail refused by a full queue has used up its client's allowance.  The spam counter starts
  anew only after a pause as long as the window, so a client that keeps to the minimum interval
  is refused until it pauses that long.
* Names of prepared statements survive the reconnect after a failed `PQpipelineSync`
  (646-651).  `affectedRows` of a SQLite SELECT is the count of an earlier write (385).

Files, pages, routes
* An image that is deleted while it is converted gets no response at all
  (`ResponseWriter.cpp:392-395`).  A file that shrinks or is converted again while it is sent leaves
  a short body on a kept connection.
* `std::bad_alloc` within a conversion keeps the slot for ever (`WebPConverter.cpp:446-453`);
  production converts in place and a failed write leaves half a file; an image larger than the
  development cache is answered 404 though the log says "serving without caching"
  (`DevAssetCache.cpp:41-43`); a page refers to the converted image even when the conversion
  failed (`HTMLBuilder.cpp:562-568`).
* Scripts after the page-named one are left out of the bundle; production writes the bundle over
  its source of that name; styles have no such writeback; edits of a template are ignored once
  the page is stored; tags of excluded or missing scripts disappear, against
  `doc/OBFUSCATION.md:128`; external scripts change places; an obfuscated copy is kept
  when the level changes; pages are saved in place (`FileManagement.cpp:64-78`).
* On a site without languages a page is served unmerged while its page-named script is the
  bundle, so that its sources run twice.  Editing a script while the page-named one is a source
  leaves the old text in the bundle beside the new one.
* An async wildcard route comes before a sync exact one, while the gate lookup takes the exact
  one; gates registered with ".html" never match; "/" and "/index" have separate gates; a
  refused redirect takes the rule it replaced with it.

Configuration and JSON
* `setObfuscationAutoBracketKeys(false)` does not survive `loadConfig()`; a second `initEmail`
  resets the limits while their flags stay set; limits set before `initEmail` are refused; a
  "false" for WEBP, MERGE or DEV can never switch them off; "-1" for a size wraps to 2^64-1
  (`ConfigLoader.cpp:120`), "7x" is 7; a bad value in .env hides the environment's.
* Strings that begin with `{` or `[` are written without quotes, as are numbers with an exponent,
  which cannot be read back; control characters come back as the letter of their escape;
  string arrays are not unescaped, keys not escaped; missing commas are accepted; `getShort`
  truncates.
* `parseArray` never ends on an element that `readData` does not know, such as `[x]`
  (`JSONParser.cpp:306-339`).  An object writes such a text when a string in it begins with a
  bracket and closes more than it opens: `{}}x` in an object in an array.  `ok()` is true for a text
  cut after a value, against "a complete JSON value with no trailing junk"
  (`JSONParser.hpp:238`).

## 7. Plan

1. Done: the life cycle, metrics, requests, WebSocket sessions, e-mail, database, files,
   routing, page building, configuration, JSON.
2. Done: proofs about all of these; every property of a regular run that is not a liveness
   property is a theorem, except the two of `Json`.
3. Proofs next: that what an object writes is balanced text, from which `EveryPassAdvances`
   follows by `StallsOnlyAtStrays`; the type invariants of the modules that have only the part
   of theirs that a proof needs.
4. Models left: the destructor of the server, the chunk parser with 64-bit arithmetic, the
   codec of a WebSocket frame.

## 8. How to run

In this directory: `tlc -config MCServer.cfg MCServer.tla` (`PROJECT.json` names the module and
configuration of each run).  `tlapm M.tla` checks the proofs of `M`: `ServerProofs`,
`MetricsJsonProofs`, `WebSocketProofs`, `RequestProofs`, `EmailProofs`, `DatabaseProofs`,
`FilesProofs`, `DataLemmas`.

## 9. Not modelled

* The JavaScript obfuscator (`builders/JSObfuscator.cpp`, `JSObfuscatorScope.cpp`): a function from
  one program text to another, correct when the two programs behave alike, which needs the
  semantics of JavaScript.
* The codec of one WebSocket frame and the handshake key; header, query and cookie syntax; MIME
  types, gzip, base64, hashes, pixels: functions of one value with no state.
* The text of pages: components, inlining, minifying, comments.
* The destructor of the server object: it runs when nobody is in `start()`, and then joins
  what a `start()` that threw has left.  `Server` stops short of it.
* SMTP (libcurl), PostgreSQL and SQLite themselves, the file system and the clients: inputs
  that succeed or fail.
* A message with both Content-Length and chunked coding; the system probes of `/status`
  (memory, CPU); lists and hosts in the configuration.
* The assets module and its hooks: registration that forwards to modelled parts.
* Third-party code, examples and tests.
