------------------------------ MODULE MCConfig ------------------------------
(* A .env file for each kind of text a key may have, and a few with several     
   keys; the environment is empty, or knows some of each kind.               *)
EXTENDS Config

Single(K, T) == {k :> t : k \in K, t \in T}
MCFiles ==
  {<< >>, "hostname" :> "junk", "preserve" :> "junk", "minInterval" :> "900", "pipelineBatch" :> "900"}
  \cup Single({"port", "workerThreads"}, {"junk", "0", "-1"})
  \cup Single({"webpQuality"}, {"7", "900"}) \cup Single({"logLevel"}, {"", "info", "junk"})
  \cup {("devMode" :> "on") @@ ("maxEntryBytes" :> "7"), ("sender" :> "smtp") @@ ("maxPerIP" :> "7"),
        ("webpConversion" :> "on") @@ ("autoBracketKeys" :> "off") @@ ("strictUndefined" :> "on"),
        ("maxRequests" :> "0") @@ ("backend" :> "sqlite") @@ ("sqlite" :> "junk"),
        ("maxEntryBytes" :> "900") @@ ("backend" :> "postgres") @@ ("postgresDb" :> "junk")}
MCEnvironments ==
  {<< >>, [k \in {"port", "maxQueueSize", "maxTotalBytes", "smtpPort", "hostname", "sqliteThreads"} |-> "7"]
          @@ ("mergeAssets" :> "on") @@ ("logLevel" :> "debug")}

MCOffered ==
  ("port" :> {9000}) @@ ("bindAddress" :> {"127.0.0.1"}) @@ ("webpConversion" :> {TRUE, FALSE})
  @@ ("webpQuality" :> {120}) @@ ("devMode" :> {TRUE}) @@ ("logLevel" :> {"info"})
  @@ ("workerThreads" :> {0, 2}) @@ ("maxRequests" :> {0}) @@ ("maxEntryBytes" :> {64})
  @@ ("sender" :> {<<25>>}) @@ ("minInterval" :> {1}) @@ ("preserve" :> {"name"})
  @@ ("autoBracketKeys" :> {FALSE}) @@ ("backend" :> {"sqlite"}) @@ ("poolSize" :> {0, 2})
  @@ ("postgres" :> {[database |-> "db", batch |-> 1]}) @@ ("sqlite" :> {"file"})
=============================================================================
