------------------------------- MODULE Config -------------------------------
(* The configuration of the server: what the setters of Geruest, loadConfig and
   ConfigLoader make of the calls of the application, a .env file and the
   environment.

   A setting and the key that configures it have one name here (bindAddress for
   BIND_ADDRESS).  A server is [value, locked, client]: the settings in force,
   _configFlags, and what its database client was made with, << >> for none.  *)
EXTENDS Integers, SequencesExt, TLC

CONSTANTS Environments, \* what getenv may know: functions of keys to texts
          Files,        \* what a .env file may hold: the same
          Offered,      \* the values the setters are called with, of each setting
          SizeLimit,    \* 2^w of size_t
          MaxChanges    \* bound: calls in a behaviour

ASSUME ConfigAssumption ==
  /\ \A f \in Environments \cup Files : \A k \in DOMAIN f : f[k] \in STRING
  /\ SizeLimit \in Nat \ {0} /\ MaxChanges \in Nat

VARIABLES env,     \* the environment of the process
          cache,   \* ConfigLoader::_envFileCache
          server,
          changes, \* calls so far
          setters, loads, \* what was called: <<setting, value>>, and <<"load", what was known>>
          heard    \* the setters that were called before the last load
configVars == <<env, cache, server, changes, setters, loads, heard>>

Names == {"hostname", "bindAddress"}
Switches == {"webpConversion", "mergeAssets"}
Sizes == {"workerThreads", "maxQueueSize"}
Limits == {"maxEntryBytes", "maxTotalBytes"}
EmailLimits == {"minInterval", "maxPerIP", "trackingDuration", "emailQueueSize"}
NameLists == {"preserve", "externs"}
Strictness == {"strictUndefined", "emitGlobalThis", "validateAcorn"}
PoolSizes == {"poolSize", "sqliteThreads"}

Settings ==
  Names \cup Switches \cup Sizes \cup Limits \cup EmailLimits \cup NameLists \cup Strictness \cup PoolSizes
  \cup {"port", "webpQuality", "devMode", "removeComments", "logLevel", "maxRequests", "sender",
        "autoBracketKeys", "backend", "postgres", "sqlite"}
\* What a new server has: some settings are off until someone says so.
Off == Switches \cup Strictness \cup {"devMode"}
Initial(k) ==
  CASE k = "hostname" -> "localhost" [] k = "bindAddress" -> "0.0.0.0" [] k = "port" -> 8080
    [] k \in {"removeComments", "autoBracketKeys"} -> TRUE
    [] k = "webpQuality" -> 75 [] k = "logLevel" -> "error"
    [] k \in Sizes -> 16 [] k = "maxRequests" -> 1000 [] k \in Limits -> 512
    [] k = "sender" -> << >> [] k \in EmailLimits -> 60 [] k \in NameLists -> {}
    [] k = "backend" -> "none" [] k = "poolSize" -> 4 [] k = "sqliteThreads" -> 1
    [] k = "postgres" -> [database |-> "", batch |-> 8] [] k = "sqlite" -> ""
Default == [k \in Settings |-> IF k \in Off THEN FALSE ELSE Initial(k)]
Fresh == [value |-> Default, locked |-> {}, client |-> << >>]

\* Setters are of settings, and "load" is none.
ASSUME OfferedAssumption == DOMAIN Offered \subseteq Settings \ {"load"}

Put(s, k, x) == [s EXCEPT !.value[k] = x]
Flag(s, k) == [s EXCEPT !.locked = @ \cup {k}]
Lock(s, k, x) == Flag(Put(s, k, x), k)

-----------------------------------------------------------------------------
(* ConfigLoader.                                                             *)

\* stoi and stoull, of the texts that are numbers; the latter wraps.
AsInt == ("-1" :> -1) @@ ("0" :> 0) @@ ("7" :> 7) @@ ("900" :> 900)

loadEnvFile(c, f) == f @@ c
\* What the keys are known as: by the files that were read, or by getenv.
Known(c, e) == c @@ e
get(c, k, default) == IF k \in DOMAIN c THEN c[k] ELSE default
getInt(c, k, default) ==
  LET text == get(c, k, "") IN IF text \in DOMAIN AsInt THEN AsInt[text] ELSE default
getSizeT(c, k, default) ==
  LET text == get(c, k, "") IN IF text \in DOMAIN AsInt THEN AsInt[text] % SizeLimit ELSE default
getBool(c, k, default) ==
  LET text == get(c, k, "")
  IN (default /\ text \notin {"off", "0"}) \/ text \in {"on", "1"}

-----------------------------------------------------------------------------
(* The setters.                                                              *)

enableDevMode(s) ==
  [s EXCEPT !.value = [k \in Settings |-> CASE k \in Limits -> 0 [] k = "devMode" -> TRUE
                                             [] k = "removeComments" -> FALSE
                                             [] k = "logLevel" -> "debug" [] OTHER -> @[k]]]
AtLeastOne(n) == IF n = 0 THEN 1 ELSE n
Percent(n) == IF n < 0 THEN 0 ELSE IF n > 100 THEN 100 ELSE n
\* A mutant: a size of 0 is corrected, but its flag not set.
SetSizeUnlocked(s, k, n) == IF n = 0 THEN Put(s, k, 1) ELSE Lock(s, k, n)
SetSize(s, k, n) == Lock(s, k, AtLeastOne(n))
\* A new sender has the limits it is made with, whatever the old one had.
initEmail(s, port) ==
  Lock([s EXCEPT !.value = [k \in Settings |-> IF k \in EmailLimits THEN Default[k] ELSE @[k]]], "sender", port)
SetEmailLimit(s, k, n) == IF s.value["sender"] = << >> THEN s ELSE Lock(s, k, n)
SetPoolSize(s, k, n) == IF n = 0 THEN s ELSE Lock(s, k, n)
AddName(s, k, name) == Put(s, k, s.value[k] \cup {name})

Called(s, k, x) ==
  CASE k = "devMode" -> Flag(enableDevMode(s), k)
    [] k \in Sizes -> SetSize(s, k, x)
    [] k = "webpQuality" -> Lock(s, k, Percent(x))
    [] k = "sender" -> initEmail(s, x)
    [] k \in EmailLimits -> SetEmailLimit(s, k, x)
    [] k \in PoolSizes -> SetPoolSize(s, k, x)
    [] k \in NameLists -> AddName(s, k, x)
    [] k \in Strictness \cup {"autoBracketKeys"} -> Put(s, k, x)
    [] OTHER -> Lock(s, k, x)

-----------------------------------------------------------------------------
(* loadConfig(): what each setting that no setter locked is read as.           *)

ReadAddress(s, c, k) == IF k \in Names THEN get(c, k, s.value[k]) ELSE getInt(c, k, s.value[k])
ReadSwitch(s, c, k) == s.value[k] \/ getBool(c, k, FALSE)
ReadQuality(s, c) == LET q == getInt(c, "webpQuality", 75)
                     IN IF q \in 0..100 THEN q ELSE s.value["webpQuality"]
ReadSize(s, c, k) == LET n == getSizeT(c, k, s.value[k]) IN IF n > 0 THEN n ELSE s.value[k]
ReadRequests(s, c) == getSizeT(c, "maxRequests", s.value["maxRequests"])
ReadLimit(s, c, k) == IF s.value["devMode"] THEN s.value[k] ELSE getSizeT(c, k, s.value[k])
Levels == {"none", "error", "warning", "info", "debug"}
ReadLogLevel(s, c) ==
  LET text == get(c, "logLevel", "")
  IN IF text = "" THEN s.value["logLevel"] ELSE IF text \in Levels THEN text ELSE "error"
ReadEmailLimit(s, c, k) ==
  LET n == getSizeT(c, k, Default[k])
  IN IF s.value["sender"] # << >> /\ n > 0 THEN n ELSE s.value[k]
ReadObfuscation(s, c, k) ==
  CASE k \in NameLists -> s.value[k] \cup ({get(c, k, "")} \ {""})
    [] k \in Strictness -> s.value[k] \/ getBool(c, k, FALSE)
    [] OTHER -> getBool(c, k, TRUE)
Backends == {"postgres", "sqlite"}
Batch(n) == IF n < 1 THEN 1 ELSE IF n > 256 THEN 256 ELSE n
ReadBackend(c) == LET name == get(c, "backend", "none") IN IF name \in Backends THEN name ELSE "none"
ReadPoolSize(s, c, k) == getSizeT(c, k, s.value[k])
ReadPostgres(s, c) == [database |-> get(c, "postgresDb", s.value["postgres"].database),
                       batch |-> Batch(getInt(c, "pipelineBatch", s.value["postgres"].batch))]

Read(s, c, k) ==
  CASE k \in Names \cup {"port"} -> ReadAddress(s, c, k)
    [] k \in Switches -> ReadSwitch(s, c, k)
    [] k = "webpQuality" -> ReadQuality(s, c)
    [] k \in Sizes -> ReadSize(s, c, k)
    [] k = "maxRequests" -> ReadRequests(s, c)
    [] k \in Limits -> ReadLimit(s, c, k)
    [] k = "logLevel" -> ReadLogLevel(s, c)
    [] k \in EmailLimits -> ReadEmailLimit(s, c, k)
    [] k \in NameLists \cup Strictness \cup {"autoBracketKeys"} -> ReadObfuscation(s, c, k)
    [] k = "backend" -> ReadBackend(c)
    [] k \in PoolSizes -> ReadPoolSize(s, c, k)
    [] k = "postgres" -> ReadPostgres(s, c)
    [] k = "sqlite" -> get(c, k, s.value[k])
    [] OTHER -> s.value[k]

\* DEV_MODE is read before what development mode changes, and a sender is made,
\* if server, user and password are there and none was made, before its limits.
LoadDevMode(s, c) ==
  IF "devMode" \notin s.locked /\ getBool(c, "devMode", FALSE) THEN enableDevMode(s) ELSE s
LoadSender(s, c) ==
  IF "sender" \notin s.locked /\ get(c, "sender", "") # ""
    THEN initEmail(s, <<getInt(c, "smtpPort", 587)>>) ELSE s

Complete(s) == CASE s.value["backend"] = "postgres" -> s.value["postgres"].database # ""
                 [] s.value["backend"] = "sqlite" -> s.value["sqlite"] # ""
                 [] OTHER -> FALSE
\* createPostgresClient and createSqliteClient read what the server has by then.
ClientOf(s) ==
  CASE ~Complete(s) -> << >>
    [] s.value["backend"] = "postgres" -> <<s.value["postgres"], AtLeastOne(s.value["poolSize"])>>
    [] OTHER -> <<s.value["sqlite"], AtLeastOne(s.value["poolSize"]), AtLeastOne(s.value["sqliteThreads"])>>
initializeDatabaseFromConfig(s) == [s EXCEPT !.client = ClientOf(s)]

loadConfig(s, c) ==
  LET made == LoadSender(LoadDevMode(s, c), c)
  IN initializeDatabaseFromConfig(
       [made EXCEPT !.value = [k \in Settings |-> IF k \in made.locked THEN @[k] ELSE Read(made, c, k)]])

\* A call of the application, and several.
Applied(s, call) == IF call[1] = "load" THEN loadConfig(s, call[2]) ELSE Called(s, call[1], call[2])
AppliedAll(s, called) ==
  LET so[n \in 0..Len(called)] == IF n = 0 THEN s ELSE Applied(so[n - 1], called[n])
  IN so[Len(called)]

-----------------------------------------------------------------------------
(* The application, which configures the server while it is stopped.         *)

ConfigInit ==
        /\ env \in Environments /\ cache = << >> /\ server = Fresh
        /\ changes = 0 /\ setters = << >> /\ loads = << >> /\ heard = << >>

More == changes < MaxChanges /\ changes' = changes + 1

Configure ==
  \E k \in DOMAIN Offered : \E x \in Offered[k] :
    /\ More /\ server' = Applied(server, <<k, x>>) /\ setters' = Append(setters, <<k, x>>)
    /\ UNCHANGED <<env, cache, loads, heard>>

\* loadConfig("file"); a file that is missing holds nothing.
Load ==
  \E f \in Files :
    /\ More /\ cache' = loadEnvFile(cache, f)
    /\ loads' = Append(loads, <<"load", Known(cache', env)>>)
    /\ server' = Applied(server, Last(loads')) /\ heard' = setters /\ UNCHANGED <<env, setters>>

\* ConfigLoader::clear().
Clear == More /\ cache # << >> /\ cache' = << >> /\ UNCHANGED <<env, server, setters, loads, heard>>

ConfigNext == Configure \/ Load \/ Clear
ConfigSpec == ConfigInit /\ [][ConfigNext]_configVars

-----------------------------------------------------------------------------
(* The types.                                                                *)
SettingsTyped ==
  /\ DOMAIN server.value = Settings
  /\ server.locked \subseteq Settings
  /\ \A k \in Sizes \cup PoolSizes \cup {"maxRequests"} \cup Limits : server.value[k] \in Nat

\* What is in force after the same setters, called first, and the same loads.
Reordered == AppliedAll(AppliedAll(Fresh, setters), loads)

(* For the value of a setting it makes no difference whether a setter is       *)
(* called before loadConfig() or after it, between two loads or after a clear: *)
(* what the code chose holds, and every other setting is what .env, then the   *)
(* environment, then the default say.  Excepted are the settings of which this *)
(* is not so: development mode changes the log level, the comments and the     *)
(* limits of the cache, the limits of e-mails belong to a sender, and the      *)
(* settings of the obfuscator have no flag.                                    *)
Unordered == {"logLevel", "removeComments", "autoBracketKeys"} \cup Limits \cup EmailLimits \cup Strictness
SettersLock ==
  \A k \in Settings \ Unordered : server.value[k] = Reordered.value[k]

(* The database client, which no setter makes: it is the one of the last load, *)
(* made as if every setter called before that load had come first, whatever    *)
(* loads and clears came between; of a setter called after it the client knows *)
(* nothing until the next load.                                                *)
ClientOfLastLoad == server.client = AppliedAll(AppliedAll(Fresh, heard), loads).client

(* In development mode nothing is kept in the text cache unless a setter said  *)
(* so, whatever .env holds and in whatever order the settings are made.        *)
DevModeUncached ==
  server.value["devMode"] => \A k \in Limits \ server.locked : server.value[k] = 0

(* The order in which code, .env and environment reach the settings never      *)
(* decides which of them wins, development mode included; it decides what the  *)
(* database client is made with, and only by the setters after the last load.  *)
PrecedenceKept == SettersLock /\ ClientOfLastLoad /\ DevModeUncached

(* A doc says that setters may be called before or after loadConfig(), the     *)
(* setters of the database first in its precedence: so the database client of  *)
(* the server is the one the setters and loads make in either order.           *)
ClientHearsSetters == loads # << >> => server.client = Reordered.client

(* A doc says that a setter locks its setting whether it is called before or   *)
(* after loadConfig(): so the code's value of any setting survives every load. *)
NeverOverwritten ==
  [][loads' # loads => \A k \in server.locked : server'.value[k] = server.value[k]]_configVars
=============================================================================
