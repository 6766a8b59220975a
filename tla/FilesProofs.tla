------------------------------ MODULE FilesProofs ------------------------------
(* Proofs about sendFileAsync (module Files), for any number of sessions,      *)
(* files' versions, images and limits, and about the pages and bundles that    *)
(* are built (module PageBuild), for any number of browsers and any templates. *)
EXTENDS Files, PageBuild, DataLemmas

(* A step exercises one branch and leaves the other as it is.                  *)
LEMMA BranchStep ==
    ASSUME [Next]_vars
    PROVE  /\ (Text!Next /\ UNCHANGED imageVars) \/ UNCHANGED textVars
           /\ (Image!Next /\ UNCHANGED textVars) \/ UNCHANGED imageVars
BY DEF Next, vars
--------------------------------------------------------------------------------
(* Who asked the gate.                                                         *)

(* The owner that is remembered is the one of the version it was found in.     *)
OwnerKnown ==
    /\ owner \in {"unset", "page", "none"}
    /\ owner # "unset" => (owner = "page" <=> ownerOf \in Owning)

(* A session that may not pass without a question has put it, except where it  *)
(* is about to.                                                                *)
Passing(s) ==
    /\ textAt[s] # "access" /\ due[s] => asked[s]
    /\ textAt[s] = "keepPage" => found[s] \in Owning
    /\ textAt[s] = "keepNone" => found[s] \notin Owning

GateInv ==
    /\ gated \in BOOLEAN
    /\ DOMAIN textAt = Readers /\ file \in [Readers -> {"page", "asset"}]
    /\ asked \in [Readers -> BOOLEAN] /\ due \in [Readers -> BOOLEAN] /\ DOMAIN found = Readers
    /\ OwnerKnown
    /\ \A s \in Readers : Passing(s)

GateTypes ==
    /\ gated \in BOOLEAN
    /\ DOMAIN textAt = Readers /\ file \in [Readers -> {"page", "asset"}]
    /\ asked \in [Readers -> BOOLEAN] /\ due \in [Readers -> BOOLEAN] /\ DOMAIN found = Readers

(* Every step of a session keeps what is known of it, and of the owner.        *)
LEMMA SessionPasses ==
    ASSUME GateInv, NEW s \in Readers, Text!Step(s)
    PROVE  /\ GateTypes' /\ OwnerKnown' /\ Passing(s)'
           /\ \A t \in Readers \ {s} : /\ textAt'[t] = textAt[t] /\ due'[t] = due[t]
                                       /\ asked'[t] = asked[t] /\ found'[t] = found[t]
<1> DEFINE Goal == /\ GateTypes' /\ OwnerKnown' /\ Passing(s)'
                   /\ \A t \in Readers \ {s} : /\ textAt'[t] = textAt[t] /\ due'[t] = due[t]
                                               /\ asked'[t] = asked[t] /\ found'[t] = found[t]
<1>1. GateTypes /\ OwnerKnown /\ Passing(s) /\ file[s] \in {"page", "asset"}
  BY DEF GateInv, GateTypes
<1>2. ASSUME NEW who, NEW basis, Text!Decide(s, who, basis), OwnerKnown', UNCHANGED gated,
             file[s] = "page" \/ ~gated \/ (basis \in Owning <=> who = "page")
      PROVE  Goal
  <2>1. /\ textAt' = [textAt EXCEPT ![s] = IF Text!PerRequest(s, who) THEN "access" ELSE "lookup"]
        /\ due' = [due EXCEPT ![s] = gated /\ (file[s] = "page" \/ (version["page"] \in Owning /\ basis = version["page"]))]
        /\ UNCHANGED <<file, asked, found>>
    BY <1>2 DEF Text!Decide, Text!Put, Text!Owns
  <2>2. ~Text!PerRequest(s, who) => ~due'[s]
    BY <1>1, <1>2, <2>1 DEF Text!PerRequest, GateTypes
  <2>3. GateTypes'
    BY <1>1, <1>2, <2>1 DEF GateTypes
  <2> QED BY <1>1, <1>2, <2>1, <2>2, <2>3 DEF GateTypes, Passing
<1>3. CASE Text!Ask(s)
  <2>1. UNCHANGED <<gated, owner, ownerOf>>
    BY <1>3 DEF Text!Ask, Text!gateVars, Text!ownerVars
  <2>2. CASE file[s] = "asset" /\ gated /\ owner # "unset"
    BY <1>1, <1>2, <1>3, <2>1, <2>2 DEF Text!Ask, OwnerKnown
  <2>3. CASE file[s] = "asset" /\ gated /\ owner = "unset"
    <3>1. textAt' = [textAt EXCEPT ![s] = "resolve"] /\ UNCHANGED <<file, asked, due, found>> /\ textAt[s] = "ask"
      BY <1>3, <2>3 DEF Text!Ask, Text!Put
    <3> QED BY <1>1, <2>1, <3>1 DEF GateTypes, OwnerKnown, Passing
  <2>4. CASE ~(file[s] = "asset" /\ gated)
    BY <1>1, <1>2, <1>3, <2>1, <2>4 DEF Text!Ask, OwnerKnown, GateTypes
  <2> QED BY <2>2, <2>3, <2>4
<1>4. CASE Text!Resolve(s)
  <2>1. /\ textAt' = [textAt EXCEPT ![s] = IF version["page"] \in Owning THEN "keepPage" ELSE "keepNone"]
        /\ found' = [found EXCEPT ![s] = version["page"]]
        /\ UNCHANGED <<gated, owner, ownerOf, file, asked, due>> /\ textAt[s] = "resolve"
    BY <1>4 DEF Text!Resolve, Text!Put, Text!Owns, Text!gateVars, Text!ownerVars
  <2> QED BY <1>1, <2>1 DEF GateTypes, OwnerKnown, Passing
<1>5. CASE Text!Keep(s)
  <2>1. /\ UNCHANGED gated /\ textAt[s] \in {"keepPage", "keepNone"}
        /\ owner' = (IF textAt[s] = "keepPage" THEN "page" ELSE "none") /\ ownerOf' = found[s]
        /\ Text!Decide(s, owner', ownerOf')
    BY <1>5 DEF Text!Keep, Text!gateVars
  <2>2. owner' \in {"page", "none"} /\ (owner' = "page" <=> ownerOf' \in Owning)
    BY <1>1, <2>1 DEF Passing
  <2>3. OwnerKnown'
    BY <2>2 DEF OwnerKnown
  <2> QED BY <1>2, <2>1, <2>2, <2>3
<1>6. CASE Text!Access(s)
  <2>1. UNCHANGED <<gated, owner, ownerOf, file, due, found>> /\ asked' = [asked EXCEPT ![s] = TRUE]
    BY <1>6 DEF Text!Access, Text!Put, Text!gateVars, Text!ownerVars
  <2>2. PICK a \in {"build", "denied"} : textAt' = [textAt EXCEPT ![s] = a]
    BY <1>6 DEF Text!Access, Text!Put
  <2>3. textAt'[s] = a /\ asked'[s] = TRUE /\ GateTypes'
    BY <1>1, <2>1, <2>2 DEF GateTypes
  <2> QED BY <1>1, <2>1, <2>2, <2>3 DEF GateTypes, OwnerKnown, Passing
<1>7. CASE Text!Lookup(s) \/ Text!Load(s) \/ Text!Check(s) \/ Text!Template(s) \/ Text!Merge(s)
             \/ Text!Stamp(s) \/ Text!Insert(s)
  <2>1. UNCHANGED <<gated, owner, ownerOf, file, asked, due>> /\ textAt[s] # "access"
    BY <1>7 DEF Text!Lookup, Text!Load, Text!Check, Text!Template, Text!Merge, Text!Stamp, Text!Insert, Text!Put,
                Text!gateVars, Text!ownerVars
  <2>4. PICK a \in {"build", "served", "notfound", "check", "merge", "sources", "stamp", "insert"} :
          textAt' = [textAt EXCEPT ![s] = a]
    BY <1>7 DEF Text!Lookup, Text!Load, Text!Check, Text!Template, Text!Merge, Text!Stamp, Text!Insert, Text!Put, Text!After
  <2>2. found' = found \/ \E v : found' = [found EXCEPT ![s] = v]
    BY <1>7 DEF Text!Lookup, Text!Load, Text!Check, Text!Template, Text!Merge, Text!Stamp, Text!Insert, Text!Put
  <2>3. DOMAIN found' = Readers /\ \A t \in Readers \ {s} : found'[t] = found[t]
    BY <1>1, <2>2 DEF GateTypes
  <2>5. textAt'[s] = a /\ GateTypes'
    BY <1>1, <2>1, <2>3, <2>4 DEF GateTypes
  <2> QED BY <1>1, <2>1, <2>3, <2>4, <2>5 DEF GateTypes, OwnerKnown, Passing
<1>8. CASE Text!Again(s)
  <2>1. /\ UNCHANGED <<gated, owner, ownerOf>>
        /\ textAt' = [textAt EXCEPT ![s] = "ask"] /\ due' = [due EXCEPT ![s] = FALSE]
        /\ asked' = [asked EXCEPT ![s] = FALSE] /\ found' = [found EXCEPT ![s] = 0]
    BY <1>8 DEF Text!Again, Text!Put, Text!gateVars, Text!ownerVars, Text!Absent
  <2>2. PICK f \in {"page", "asset"} : file' = [file EXCEPT ![s] = f]
    BY <1>8 DEF Text!Again, Text!Put, Text!Files
  <2>3. GateTypes'
    BY <1>1, <2>1, <2>2 DEF GateTypes
  <2> QED BY <1>1, <2>1, <2>3 DEF GateTypes, OwnerKnown, Passing
<1> QED BY <1>3, <1>4, <1>5, <1>6, <1>7, <1>8 DEF Text!Step

LEMMA GateStep == GateInv /\ [Next]_vars => GateInv'
<1> SUFFICES ASSUME GateInv, [Next]_vars PROVE GateInv'
  OBVIOUS
<1>1. CASE UNCHANGED textVars
  BY <1>1 DEF textVars, GateInv, OwnerKnown, Passing
<1>2. ASSUME NEW s \in Readers, Text!Step(s) PROVE GateInv'
  <2>1. GateTypes' /\ OwnerKnown' /\ Passing(s)'
    BY <1>2, SessionPasses
  <2>2. \A t \in Readers \ {s} : /\ textAt'[t] = textAt[t] /\ due'[t] = due[t]
                                 /\ asked'[t] = asked[t] /\ found'[t] = found[t]
    BY <1>2, SessionPasses
  <2>3. \A t \in Readers \ {s} : Passing(t)'
    BY <2>2 DEF GateInv, Passing
  <2> QED BY <2>1, <2>3 DEF GateInv, GateTypes
<1>3. ASSUME NEW f \in Text!Disk, Text!Edit(f) PROVE GateInv'
  BY <1>3 DEF Text!Edit, Text!gateVars, Text!ownerVars, Text!sessionVars, GateInv, OwnerKnown, Passing
<1>4. CASE Text!SwitchGate
  BY <1>4 DEF Text!SwitchGate, Text!ownerVars, Text!sessionVars, GateInv, OwnerKnown, Passing
<1> QED BY <1>1, <1>2, <1>3, <1>4, BranchStep DEF Text!Next

LEMMA GateInitially == Init => GateInv
<1> SUFFICES ASSUME Init PROVE GateInv
  OBVIOUS
<1>1. /\ textAt = [s \in Readers |-> "ask"] /\ asked = [s \in Readers |-> FALSE] /\ due = asked
      /\ found = [s \in Readers |-> 0] /\ file \in [Readers -> {"page", "asset"}]
      /\ owner = "unset" /\ gated \in BOOLEAN
  BY DEF Init, Text!Init, Text!Files, Text!Absent
<1>2. \A s \in Readers : Passing(s)
  BY <1>1 DEF Passing
<1> QED BY <1>1, <1>2 DEF GateInv, OwnerKnown

(* What is behind a gate is sent only after the gate was asked, the merged     *)
(* script of a gated page included, however many sessions race with the edits  *)
(* of the page and with the switching of the gate.                             *)
THEOREM GateIsAsked == Spec => []GateAsked
<1>1. GateInv => GateAsked
  BY DEF GateInv, Passing, GateAsked, Text!GateAsked
<1> QED BY <1>1, GateStep, GateInitially, PTL DEF Spec
--------------------------------------------------------------------------------
(* What is cached.                                                             *)

(* Nothing that goes into a file's response changed without a trace.           *)
Clean(f) == raced \cap Text!MadeFrom(f) = {}

(* What a valid entry holds is the file as it is, or was merged and is outdated*)
(* on disk; where the file is missing, what was made of it cannot be kept.     *)
Sound(f, c) == c = <<version[f]>> \/ (f = "asset" /\ Text!Outdated /\ Len(c) = 2)
Stale == version["asset"] = Text!Absent \/ Text!Outdated

(* What carries the modification time of its file is sound; times are never    *)
(* used again.                                                                 *)
EntryTimely(f) ==
    /\ entries[f].mtime \in Int /\ entries[f].mtime <= edits + 1
    /\ Clean(f) /\ entries[f].mtime = mtime[f] => Sound(f, entries[f].content)

StampTimely(s) ==
    /\ stamp[s] \in Int /\ stamp[s] <= edits + 1
    /\ textAt[s] \in {"check", "merge", "sources"} => file[s] = "asset"
    /\ Clean(file[s]) =>
         /\ textAt[s] \in {"check", "merge"} => got[s] = Text!Loaded(file[s])
         /\ textAt[s] = "merge" => (Text!Owns => Stale)
         /\ textAt[s] = "sources" => Stale
         /\ textAt[s] = "stamp" => version[file[s]] = Text!Absent \/ Sound(file[s], got[s])
         /\ textAt[s] = "insert" /\ stamp[s] = mtime[file[s]] => Sound(file[s], got[s])

CacheTypes ==
    /\ edits \in Nat /\ DOMAIN version = Text!Disk /\ mtime \in [Text!Disk -> Nat]
    /\ DOMAIN entries \subseteq Text!Files
    /\ file \in [Readers -> Text!Files]
    /\ DOMAIN textAt = Readers /\ DOMAIN got = Readers /\ DOMAIN stamp = Readers

CacheInv ==
    /\ CacheTypes
    /\ \A f \in Text!Disk : 1 <= mtime[f] /\ mtime[f] <= edits + 1
    /\ \A f \in DOMAIN entries : EntryTimely(f)
    /\ \A s \in Readers : StampTimely(s)

(* A step of one session that leaves the files alone.                          *)
LEMMA CacheKept ==
    ASSUME CacheInv, NEW s \in Readers, CacheTypes', UNCHANGED <<version, mtime, edits, raced>>,
           StampTimely(s)', \A f \in DOMAIN entries' : EntryTimely(f)',
           \A t \in Readers \ {s} : /\ textAt'[t] = textAt[t] /\ file'[t] = file[t]
                                    /\ got'[t] = got[t] /\ stamp'[t] = stamp[t]
    PROVE  CacheInv'
<1>1. ASSUME NEW t \in Readers \ {s} PROVE StampTimely(t)'
  <2>1. StampTimely(t) /\ textAt'[t] = textAt[t] /\ file'[t] = file[t] /\ got'[t] = got[t] /\ stamp'[t] = stamp[t]
    BY DEF CacheInv
  <2> QED BY <2>1 DEF StampTimely, Clean, Text!MadeFrom, Sound, Stale, Text!Outdated, Text!Owns, Text!Loaded
<1> QED BY <1>1 DEF CacheInv

(* Entries that stay are as sound as they were.                                *)
LEMMA EntriesKept ==
    ASSUME CacheInv, UNCHANGED <<version, mtime, edits, raced>>,
           NEW f \in DOMAIN entries, entries'[f] = entries[f]
    PROVE  EntryTimely(f)'
<1>1. EntryTimely(f)
  BY DEF CacheInv
<1> QED BY <1>1 DEF EntryTimely, Clean, Text!MadeFrom, Sound, Text!Outdated

LEMMA SessionTimely ==
    ASSUME CacheInv, NEW s \in Readers, Text!Step(s)
    PROVE  CacheInv'
<1>1. CacheTypes /\ StampTimely(s) /\ file[s] \in Text!Files
  BY DEF CacheInv, CacheTypes
<1>2. UNCHANGED <<version, mtime, edits, raced>>
  BY DEF Text!Step, Text!Ask, Text!Resolve, Text!Keep, Text!Access, Text!Lookup, Text!Load, Text!Check,
         Text!Template, Text!Merge, Text!Stamp, Text!Insert, Text!Again, Text!diskVars
<1>3. ASSUME UNCHANGED <<file, stamp>>, \A f \in DOMAIN entries' : f \in DOMAIN entries /\ entries'[f] = entries[f],
             DOMAIN textAt' = Readers, DOMAIN got' = Readers,
             \A t \in Readers \ {s} : textAt'[t] = textAt[t] /\ got'[t] = got[t],
             textAt'[s] \in {"check", "merge", "sources"} => file[s] = "asset",
             textAt'[s] # "insert",
             Clean(file[s]) =>
               /\ textAt'[s] \in {"check", "merge"} => got'[s] = Text!Loaded(file[s])
               /\ textAt'[s] = "merge" => (Text!Owns => Stale)
               /\ textAt'[s] = "sources" => Stale
               /\ textAt'[s] = "stamp" => version[file[s]] = Text!Absent \/ Sound(file[s], got'[s])
      PROVE  CacheInv'
  <2>1. CacheTypes'
    BY <1>1, <1>2, <1>3 DEF CacheTypes
  <2>2. \A f \in DOMAIN entries' : EntryTimely(f)'
    BY <1>2, <1>3, EntriesKept
  <2>3. stamp'[s] \in Int /\ stamp'[s] <= edits' + 1 /\ file'[s] = file[s]
    BY <1>1, <1>2, <1>3 DEF StampTimely
  <2>4. StampTimely(s)'
    BY <1>2, <1>3, <2>3
       DEF StampTimely, Clean, Text!MadeFrom, Sound, Stale, Text!Outdated, Text!Owns, Text!Loaded
  <2> QED BY <1>2, <1>3, <2>1, <2>2, <2>4, CacheKept
<1>4. ASSUME NEW a, textAt' = [textAt EXCEPT ![s] = a]
      PROVE  /\ DOMAIN textAt' = Readers /\ textAt'[s] = a
             /\ \A t \in Readers \ {s} : textAt'[t] = textAt[t]
  BY <1>1, <1>4 DEF CacheTypes
<1>5. CASE Text!Ask(s) \/ Text!Keep(s) \/ Text!Resolve(s) \/ Text!Access(s)
  <2>1. UNCHANGED <<entries, file, stamp, got>>
    BY <1>5 DEF Text!Ask, Text!Keep, Text!Resolve, Text!Access, Text!Decide, Text!cacheVars
  <2>2. PICK a \in {"resolve", "access", "lookup", "keepPage", "keepNone", "build", "denied"} :
           textAt' = [textAt EXCEPT ![s] = a]
    BY <1>5 DEF Text!Ask, Text!Keep, Text!Resolve, Text!Access, Text!Decide, Text!Put
  <2>3. /\ DOMAIN textAt' = Readers /\ textAt'[s] = a /\ DOMAIN got' = Readers
        /\ \A t \in Readers \ {s} : textAt'[t] = textAt[t] /\ got'[t] = got[t]
    BY <1>1, <1>4, <2>1, <2>2 DEF CacheTypes
  <2> QED BY <1>3, <2>1, <2>3
<1>6. CASE Text!Lookup(s)
  <2>1. /\ UNCHANGED <<file, stamp>>
        /\ \A f \in DOMAIN entries' : f \in DOMAIN entries /\ entries'[f] = entries[f]
    BY <1>6 DEF Text!Lookup, Text!Without, Text!cacheVars
  <2>2. PICK a \in {"served", "build"} : textAt' = [textAt EXCEPT ![s] = a]
    BY <1>6 DEF Text!Lookup, Text!Put
  <2>3. got' = got \/ \E v : got' = [got EXCEPT ![s] = v]
    BY <1>6 DEF Text!Lookup, Text!Put
  <2>4. /\ DOMAIN textAt' = Readers /\ textAt'[s] = a /\ DOMAIN got' = Readers
        /\ \A t \in Readers \ {s} : textAt'[t] = textAt[t] /\ got'[t] = got[t]
    BY <1>1, <1>4, <2>2, <2>3 DEF CacheTypes
  <2> QED BY <1>3, <2>1, <2>4
<1>7. ASSUME NEW c PROVE Text!After(s, c) \in {"notfound", "served", "stamp"} /\ (Text!After(s, c) = "stamp" => c # << >>)
  BY DEF Text!After, Text!Nothing
<1>8. Text!Loaded(file[s]) # << >> => Sound(file[s], Text!Loaded(file[s]))
  BY DEF Sound, Text!Loaded, Text!Nothing
<1>9. CASE Text!Load(s)
  <2> DEFINE c == Text!Loaded(file[s])
             a == IF file[s] = "asset" THEN "check" ELSE Text!After(s, c)
  <2>1. UNCHANGED <<file, stamp, entries>> /\ got' = [got EXCEPT ![s] = c] /\ textAt' = [textAt EXCEPT ![s] = a]
    BY <1>9 DEF Text!Load, Text!Put, Text!cacheVars
  <2>2. /\ a \in {"check", "merge", "sources"} => file[s] = "asset"
        /\ a # "insert" /\ a # "merge" /\ a # "sources" /\ (a = "stamp" => c # << >>)
    BY <1>7
  <2> HIDE DEF a, c
  <2>3. c = Text!Loaded(file[s])
    BY DEF c
  <2>9. /\ DOMAIN textAt' = Readers /\ textAt'[s] = a /\ DOMAIN got' = Readers /\ got'[s] = c
        /\ \A t \in Readers \ {s} : textAt'[t] = textAt[t] /\ got'[t] = got[t]
    BY <1>1, <1>4, <2>1 DEF CacheTypes
  <2> QED BY <1>3, <1>8, <2>1, <2>2, <2>3, <2>9
<1>10. CASE Text!Check(s)
  <2> DEFINE a == IF got[s] # << >> /\ Text!Owns /\ ~Text!Outdated THEN Text!After(s, got[s]) ELSE "merge"
  <2>1. UNCHANGED <<file, stamp, entries, got>> /\ textAt' = [textAt EXCEPT ![s] = a]
    BY <1>10 DEF Text!Check, Text!Put, Text!cacheVars, Text!Nothing
  <2>2. file[s] = "asset" /\ (Clean(file[s]) => got[s] = Text!Loaded(file[s]))
    BY <1>1, <1>10 DEF StampTimely, Text!Check
  <2>3. a \in {"merge", "notfound", "served", "stamp"} /\ (a = "stamp" => got[s] # << >>)
    BY <1>7
  <2>4. a = "merge" /\ Clean(file[s]) => (Text!Owns => Stale)
    <3>1. Text!Loaded(file[s]) = << >> => version["asset"] = Text!Absent
      BY <2>2 DEF Text!Loaded, Text!Nothing
    <3>2. a = "merge" => got[s] = << >> \/ ~Text!Owns \/ Text!Outdated
      BY <1>7
    <3> HIDE DEF a
    <3> QED BY <2>2, <3>1, <3>2 DEF Stale
  <2> HIDE DEF a
  <2>9. /\ DOMAIN textAt' = Readers /\ textAt'[s] = a /\ DOMAIN got' = Readers /\ got'[s] = got[s]
        /\ \A t \in Readers \ {s} : textAt'[t] = textAt[t] /\ got'[t] = got[t]
    BY <1>1, <1>4, <2>1 DEF CacheTypes
  <2> QED BY <1>3, <1>8, <2>1, <2>2, <2>3, <2>4, <2>9
<1>11. CASE Text!Template(s)
  <2> DEFINE a == IF Text!Owns THEN "sources" ELSE Text!After(s, got[s])
  <2>1. UNCHANGED <<file, stamp, entries, got>> /\ textAt' = [textAt EXCEPT ![s] = a]
    BY <1>11 DEF Text!Template, Text!Put, Text!cacheVars, Text!Nothing
  <2>2. /\ file[s] = "asset"
        /\ Clean(file[s]) => got[s] = Text!Loaded(file[s]) /\ (Text!Owns => Stale)
    BY <1>1, <1>11 DEF StampTimely, Text!Template
  <2>3. a \in {"sources", "notfound", "served", "stamp"} /\ (a = "stamp" => got[s] # << >>) /\ (a = "sources" => Text!Owns)
    BY <1>7
  <2> HIDE DEF a
  <2>9. /\ DOMAIN textAt' = Readers /\ textAt'[s] = a /\ DOMAIN got' = Readers /\ got'[s] = got[s]
        /\ \A t \in Readers \ {s} : textAt'[t] = textAt[t] /\ got'[t] = got[t]
    BY <1>1, <1>4, <2>1 DEF CacheTypes
  <2> QED BY <1>3, <1>8, <2>1, <2>2, <2>3, <2>9
<1>12. CASE Text!Merge(s)
  <2> DEFINE c == <<found[s], version["source"]>>
             a == Text!After(s, c)
  <2>1. UNCHANGED <<file, stamp, entries>> /\ got' = [got EXCEPT ![s] = c] /\ textAt' = [textAt EXCEPT ![s] = a]
    BY <1>12 DEF Text!Merge, Text!Put, Text!cacheVars
  <2>2. file[s] = "asset" /\ (Clean(file[s]) => Stale)
    BY <1>1, <1>12 DEF StampTimely, Text!Merge
  <2>3. a \in {"notfound", "served", "stamp"} /\ Len(c) = 2
    BY <1>7
  <2> HIDE DEF a, c
  <2>4. Clean(file[s]) => version[file[s]] = Text!Absent \/ Sound(file[s], c)
    BY <2>2, <2>3 DEF Stale, Sound
  <2>9. /\ DOMAIN textAt' = Readers /\ textAt'[s] = a /\ DOMAIN got' = Readers /\ got'[s] = c
        /\ \A t \in Readers \ {s} : textAt'[t] = textAt[t] /\ got'[t] = got[t]
    BY <1>1, <1>4, <2>1 DEF CacheTypes
  <2> QED BY <1>3, <2>1, <2>2, <2>3, <2>4, <2>9
<1>13. CASE Text!Stamp(s)
  <2>1. /\ UNCHANGED <<file, got, entries>> /\ textAt[s] = "stamp" /\ textAt' = [textAt EXCEPT ![s] = "insert"]
        /\ stamp' = [stamp EXCEPT ![s] = IF version[file[s]] = Text!Absent THEN -1 ELSE mtime[file[s]]]
    BY <1>13 DEF Text!Stamp, Text!Put, Text!cacheVars, Text!NoTime
  <2>2. /\ CacheTypes' /\ textAt'[s] = "insert" /\ file'[s] = file[s] /\ got'[s] = got[s]
        /\ stamp'[s] = (IF version[file[s]] = Text!Absent THEN -1 ELSE mtime[file[s]])
        /\ \A t \in Readers \ {s} : textAt'[t] = textAt[t] /\ stamp'[t] = stamp[t]
    BY <1>1, <1>2, <2>1 DEF CacheTypes
  <2>3. /\ mtime[file[s]] \in Nat /\ edits \in Nat /\ mtime[file[s]] <= edits + 1
        /\ 1 <= mtime[file[s]]
    BY <1>1 DEF CacheInv, CacheTypes, Text!Files, Text!Disk
  <2>4. stamp'[s] \in Int /\ stamp'[s] <= edits + 1 /\ (stamp'[s] = mtime[file[s]] => version[file[s]] # Text!Absent)
    BY <2>2, <2>3
  <2>5. Clean(file[s]) => version[file[s]] = Text!Absent \/ Sound(file[s], got[s])
    BY <1>1, <2>1 DEF StampTimely
  <2>6. Clean(file[s])' = Clean(file[s]) /\ Sound(file[s], got[s])' = Sound(file[s], got[s])
    BY <1>2, <2>1 DEF Clean, Text!MadeFrom, Sound, Text!Outdated
  <2>7. StampTimely(s)'
    BY <1>2, <2>2, <2>4, <2>5, <2>6 DEF StampTimely
  <2>8. \A f \in DOMAIN entries' : EntryTimely(f)'
    BY <1>2, <2>1, EntriesKept
  <2> QED BY <1>2, <2>1, <2>2, <2>7, <2>8, CacheKept
<1>14. CASE Text!Insert(s)
  <2> DEFINE e == [content |-> got[s], mtime |-> stamp[s]]
  <2>1. /\ UNCHANGED <<file, got, stamp>> /\ textAt[s] = "insert" /\ textAt' = [textAt EXCEPT ![s] = "served"]
    BY <1>14 DEF Text!Insert, Text!Put
  <2>2. PICK kept \in SUBSET (DOMAIN entries \ {file[s]}) :
           entries' = [g \in kept \cup {file[s]} |-> IF g = file[s] THEN e ELSE entries[g]]
    BY <1>14 DEF Text!Insert
  <2>3. DOMAIN entries' = kept \cup {file[s]} /\ entries'[file[s]] = e
        /\ \A f \in kept : f \in DOMAIN entries /\ entries'[f] = entries[f]
    BY <2>2
  <2>4. CacheTypes' /\ textAt'[s] = "served" /\ \A t \in Readers \ {s} : textAt'[t] = textAt[t]
    BY <1>1, <1>2, <2>1, <2>3 DEF CacheTypes
  <2>5. EntryTimely(file[s])'
    <3>1. /\ stamp[s] \in Int /\ stamp[s] <= edits + 1
          /\ Clean(file[s]) /\ stamp[s] = mtime[file[s]] => Sound(file[s], got[s])
      BY <1>1, <2>1 DEF StampTimely
    <3>2. e.content = got[s] /\ e.mtime = stamp[s]
      OBVIOUS
    <3>3. entries'[file[s]].content = got[s] /\ entries'[file[s]].mtime = stamp[s]
      BY <2>3, <3>2
    <3>4. Clean(file[s])' = Clean(file[s]) /\ Sound(file[s], got[s])' = Sound(file[s], got[s])
      BY <1>2, <2>1 DEF Clean, Text!MadeFrom, Sound, Text!Outdated
    <3>5. Sound(file[s], entries[file[s]].content)' = Sound(file[s], got[s])'
      BY <2>1, <3>3 DEF Sound
    <3> QED BY <1>2, <2>1, <3>1, <3>3, <3>4, <3>5 DEF EntryTimely, Clean
  <2>6. \A f \in kept : EntryTimely(f)'
    BY <1>2, <2>3, EntriesKept
  <2>7. StampTimely(s)'
    BY <1>1, <1>2, <2>1, <2>4 DEF StampTimely
  <2>8. \A f \in DOMAIN entries' : EntryTimely(f)'
    BY <2>1, <2>3, <2>5, <2>6
  <2> QED BY <1>2, <2>1, <2>4, <2>7, <2>8, CacheKept
<1>15. CASE Text!Again(s)
  <2>1. /\ UNCHANGED entries /\ textAt' = [textAt EXCEPT ![s] = "ask"]
        /\ got' = [got EXCEPT ![s] = << >>] /\ stamp' = [stamp EXCEPT ![s] = -1]
    BY <1>15 DEF Text!Again, Text!Put, Text!cacheVars, Text!Nothing, Text!NoTime
  <2>2. PICK f \in Text!Files : file' = [file EXCEPT ![s] = f]
    BY <1>15 DEF Text!Again, Text!Put
  <2>3. /\ CacheTypes' /\ textAt'[s] = "ask" /\ stamp'[s] = -1
        /\ \A t \in Readers \ {s} : /\ textAt'[t] = textAt[t] /\ file'[t] = file[t]
                                    /\ got'[t] = got[t] /\ stamp'[t] = stamp[t]
    BY <1>1, <1>2, <2>1, <2>2 DEF CacheTypes
  <2>4. -1 <= edits + 1
    BY <1>1 DEF CacheTypes
  <2>5. StampTimely(s)'
    BY <1>2, <2>3, <2>4 DEF StampTimely
  <2>6. \A g \in DOMAIN entries' : EntryTimely(g)'
    BY <1>2, <2>1, EntriesKept
  <2> QED BY <1>2, <2>3, <2>5, <2>6, CacheKept
<1> QED BY <1>5, <1>6, <1>9, <1>10, <1>11, <1>12, <1>13, <1>14, <1>15 DEF Text!Step

(* A file changes: its new time is one that nothing carries yet and later than *)
(* any other, or the change leaves no trace.                                   *)
LEMMA EditTimely ==
    ASSUME CacheInv, NEW f \in Text!Disk, Text!Edit(f)
    PROVE  CacheInv'
<1>1. /\ CacheTypes /\ edits' = edits + 1 /\ UNCHANGED <<entries, textAt, file, got, stamp>>
      /\ \E v : version' = [version EXCEPT ![f] = v]
  BY DEF CacheInv, Text!Edit, Text!Put, Text!cacheVars, Text!sessionVars
<1>2. PICK t \in {mtime[f], edits + 2} :
        /\ mtime' = [mtime EXCEPT ![f] = t]
        /\ raced' = IF t = mtime[f] \/ \E s \in Readers : file[s] = f /\ textAt[s] \in Text!Building
                    THEN raced \cup {f} ELSE raced
  BY DEF Text!Edit, Text!Put
<1>3. /\ edits \in Nat /\ mtime[f] \in Nat /\ 1 <= mtime[f] /\ mtime[f] <= edits + 1
  BY <1>1 DEF CacheInv, CacheTypes
<1>4. t \in Nat /\ 1 <= t /\ t <= edits' + 1 /\ edits' \in Nat
  BY <1>1, <1>2, <1>3
<1>5. /\ mtime'[f] = t /\ \A g \in Text!Disk \ {f} : mtime'[g] = mtime[g] /\ version'[g] = version[g]
      /\ raced \subseteq raced'
      /\ f \notin raced' => t = edits + 2 /\ \A s \in Readers : file[s] = f => textAt[s] \notin Text!Building
  BY <1>1, <1>2 DEF CacheTypes
<1>6. CacheTypes'
  BY <1>1, <1>2, <1>4 DEF CacheTypes
<1>7. \A g \in Text!Disk : 1 <= mtime'[g] /\ mtime'[g] <= edits' + 1
  <2> TAKE g \in Text!Disk
  <2>1. CASE g = f
    BY <1>4, <1>5, <2>1
  <2>2. CASE g # f
    <3>1. mtime[g] \in Nat /\ 1 <= mtime[g] /\ mtime[g] <= edits + 1 /\ mtime'[g] = mtime[g]
      BY <1>1, <1>5, <2>2 DEF CacheInv, CacheTypes
    <3> QED BY <1>1, <1>3, <3>1
  <2> QED BY <2>1, <2>2
<1>8. \A g : Clean(g)' => Clean(g)
  BY <1>5 DEF Clean, Text!MadeFrom
<1>9. ASSUME NEW g \in Text!Files, Clean(g)', g # f
      PROVE  /\ version'[g] = version[g] /\ mtime'[g] = mtime[g]
             /\ g = "asset" => Text!Outdated'
  <2>1. version'[g] = version[g] /\ mtime'[g] = mtime[g]
    BY <1>5, <1>9 DEF Text!Files, Text!Disk
  <2>2. ASSUME g = "asset" PROVE Text!Outdated'
    <3>1. f \notin raced' /\ f \in {"page", "source"}
      BY <1>9, <2>2 DEF Clean, Text!MadeFrom, Text!Disk, Text!Files
    <3>2. mtime'[f] = edits + 2
      BY <1>5, <3>1
    <3>3. mtime'["asset"] = mtime["asset"] /\ mtime["asset"] \in Nat /\ mtime["asset"] <= edits + 1
      BY <1>1, <2>1, <2>2 DEF CacheInv, CacheTypes, Text!Disk, Text!Files
    <3>4. mtime'["asset"] < mtime'[f]
      BY <1>3, <3>2, <3>3
    <3> QED BY <3>1, <3>4 DEF Text!Outdated
  <2> QED BY <2>1, <2>2
<1>10. ASSUME NEW g \in Text!Files, Clean(g)', g = f
       PROVE  t = edits + 2 /\ mtime'[g] = t /\ \A s \in Readers : file[s] = g => textAt[s] \notin Text!Building
  <2>1. f \notin raced'
    BY <1>10 DEF Clean, Text!MadeFrom, Text!Files, Text!Disk
  <2> QED BY <1>5, <1>10, <2>1
<1>11. ASSUME NEW g \in DOMAIN entries PROVE EntryTimely(g)'
  <2>1. EntryTimely(g) /\ g \in Text!Files
    BY <1>1 DEF CacheInv, CacheTypes
  <2>2. entries[g].mtime \in Int /\ entries[g].mtime <= edits + 1 /\ entries[g].mtime <= edits' + 1 /\ entries[g].mtime # edits + 2
    BY <1>1, <1>3, <2>1 DEF EntryTimely
  <2>3. ASSUME Clean(g)', entries[g].mtime = mtime'[g] PROVE Sound(g, entries[g].content)'
    <3>1. g # f
      BY <1>10, <2>1, <2>2, <2>3
    <3>2. mtime'[g] = mtime[g]
      BY <1>9, <2>1, <2>3, <3>1
    <3>3. Sound(g, entries[g].content)
      BY <1>8, <2>1, <2>3, <3>2 DEF EntryTimely
    <3>4. version'[g] = version[g] /\ (g = "asset" => Text!Outdated')
      BY <1>9, <2>1, <2>3, <3>1
    <3> QED BY <1>1, <3>3, <3>4 DEF Sound
  <2> QED BY <1>1, <2>2, <2>3 DEF EntryTimely
<1>12. ASSUME NEW s \in Readers PROVE StampTimely(s)'
  <2>0. PICK g \in Text!Files : g = file[s]
    BY <1>1 DEF CacheTypes
  <2>1. StampTimely(s)
    BY DEF CacheInv
  <2>2. stamp[s] \in Int /\ stamp[s] <= edits + 1 /\ stamp[s] <= edits' + 1 /\ stamp[s] # edits + 2
    BY <1>1, <1>3, <2>1 DEF StampTimely
  <2>3. ASSUME Clean(g)', g = f
        PROVE  textAt[s] \notin Text!Building /\ stamp[s] # mtime'[g]
    BY <1>10, <2>0, <2>2, <2>3
  <2>4. ASSUME Clean(g)', g # f
        PROVE  /\ version'[g] = version[g] /\ mtime'[g] = mtime[g] /\ Clean(g)
               /\ g = "asset" => Text!Outdated'
               /\ Sound(g, got[s]) => Sound(g, got[s])'
               /\ Text!Loaded(g)' = Text!Loaded(g)
    <3>1. /\ version'[g] = version[g] /\ mtime'[g] = mtime[g] /\ Clean(g)
          /\ g = "asset" => Text!Outdated'
      BY <1>8, <1>9, <2>4
    <3>2. Sound(g, got[s]) => Sound(g, got[s])'
      BY <1>1, <3>1 DEF Sound
    <3>3. Text!Loaded(g)' = Text!Loaded(g)
      BY <1>1, <3>1 DEF Text!Loaded
    <3> QED BY <3>1, <3>2, <3>3
  <2>5. Clean(g)' => /\ textAt[s] \in {"check", "merge"} => got[s] = Text!Loaded(g)'
                     /\ textAt[s] = "merge" => (Text!Owns' => Stale')
                     /\ textAt[s] = "sources" => Stale'
                     /\ textAt[s] = "stamp" => version'[g] = Text!Absent \/ Sound(g, got[s])'
                     /\ textAt[s] = "insert" /\ stamp[s] = mtime'[g] => Sound(g, got[s])'
    <3>1. CASE g = f
      <4>1. {"check", "merge", "sources", "stamp"} \subseteq Text!Building
        BY DEF Text!Building
      <4> QED BY <2>3, <3>1, <4>1
    <3>2. CASE g # f
      <4> SUFFICES ASSUME Clean(g)'
                   PROVE /\ textAt[s] \in {"check", "merge"} => got[s] = Text!Loaded(g)'
                         /\ textAt[s] = "merge" => (Text!Owns' => Stale')
                         /\ textAt[s] = "sources" => Stale'
                         /\ textAt[s] = "stamp" => version'[g] = Text!Absent \/ Sound(g, got[s])'
                         /\ textAt[s] = "insert" /\ stamp[s] = mtime'[g] => Sound(g, got[s])'
        OBVIOUS
      <4>1. /\ version'[g] = version[g] /\ mtime'[g] = mtime[g] /\ Clean(g)
            /\ g = "asset" => Text!Outdated'
            /\ Sound(g, got[s]) => Sound(g, got[s])'
            /\ Text!Loaded(g)' = Text!Loaded(g)
        BY <2>4, <3>2
      <4>2. textAt[s] \in {"check", "merge", "sources"} => g = "asset" /\ Stale'
        BY <2>0, <2>1, <4>1 DEF StampTimely, Stale
      <4> QED BY <2>0, <2>1, <4>1, <4>2 DEF StampTimely
    <3> QED BY <3>1, <3>2
  <2>6. textAt[s] \in {"check", "merge", "sources"} => g = "asset"
    BY <2>0, <2>1 DEF StampTimely
  <2> QED BY <1>1, <2>0, <2>2, <2>5, <2>6
          DEF StampTimely, Clean, Text!MadeFrom, Sound, Stale, Text!Outdated, Text!Owns, Text!Loaded
<1> QED BY <1>1, <1>6, <1>7, <1>11, <1>12 DEF CacheInv

LEMMA CacheStep == CacheInv /\ [Next]_vars => CacheInv'
<1> SUFFICES ASSUME CacheInv, [Next]_vars PROVE CacheInv'
  OBVIOUS
<1>1. CASE UNCHANGED textVars \/ Text!SwitchGate
  <2>1. UNCHANGED <<version, mtime, edits, raced, entries, textAt, file, got, stamp>>
    BY <1>1 DEF textVars, Text!SwitchGate, Text!diskVars, Text!cacheVars, Text!sessionVars
  <2> QED BY <2>1 DEF CacheInv, CacheTypes, EntryTimely, StampTimely, Clean, Text!MadeFrom, Sound, Stale,
                      Text!Outdated, Text!Owns, Text!Loaded
<1> QED BY <1>1, SessionTimely, EditTimely, BranchStep DEF Text!Next

LEMMA CacheInitially == Init => CacheInv
<1> SUFFICES ASSUME Init PROVE CacheInv
  OBVIOUS
<1>1. /\ textAt = [s \in Readers |-> "ask"] /\ stamp = [s \in Readers |-> -1] /\ edits = 0
      /\ got = [s \in Readers |-> << >>] /\ file \in [Readers -> Text!Files]
      /\ version = [f \in Text!Disk |-> 1] /\ mtime = [f \in Text!Disk |-> 1] /\ entries = <<>>
  BY DEF Init, Text!Init, Text!Nothing, Text!NoTime
<1>2. DOMAIN entries = {}
  BY <1>1
<1> QED BY <1>1, <1>2 DEF CacheInv, CacheTypes, StampTimely

(* A response from the text cache is what would be made of the files now,      *)
(* unless it is a merged script whose bundle on disk is older than the page or *)
(* a script it is merged from, or a file changed without a trace: while the    *)
(* response was made of it, or twice within a tick of the clock.               *)
THEOREM ServedFromCacheIsCurrent == Spec => CachedIsCurrent
<1>1. ASSUME CacheInv, [Next]_vars
      PROVE  [\A s \in Readers : textAt[s] = "lookup" /\ textAt'[s] = "served"
                => \/ got'[s] = Text!Made(file[s])
                   \/ Text!MergedPastChange(file[s], got'[s])
                   \/ raced \cap Text!MadeFrom(file[s]) # {}]_(Text!vars)
  <2> SUFFICES ASSUME NEW s \in Readers, textAt[s] = "lookup", textAt'[s] = "served",
                      raced \cap Text!MadeFrom(file[s]) = {}
               PROVE  got'[s] = Text!Made(file[s]) \/ Text!MergedPastChange(file[s], got'[s])
    OBVIOUS
  <2>1. CacheTypes
    BY <1>1 DEF CacheInv
  <2>2. Text!Next
    BY <1>1, BranchStep DEF textVars
  <2>3. PICK t \in Readers : Text!Step(t)
    <3>1. ~Text!SwitchGate /\ \A f \in Text!Disk : ~Text!Edit(f)
      BY DEF Text!SwitchGate, Text!Edit, Text!sessionVars
    <3> QED BY <2>2, <3>1 DEF Text!Next
  <2>4. PICK a : textAt' = [textAt EXCEPT ![t] = a]
    BY <2>3 DEF Text!Step, Text!Ask, Text!Decide, Text!Resolve, Text!Keep, Text!Access, Text!Lookup, Text!Load,
                Text!Check, Text!Template, Text!Merge, Text!Stamp, Text!Insert, Text!Again, Text!Put
  <2>5. t = s
    BY <2>1, <2>4 DEF CacheTypes
  <2>6. Text!Lookup(s)
    BY <2>3, <2>5 DEF Text!Step, Text!Ask, Text!Resolve, Text!Keep, Text!Access, Text!Lookup, Text!Load,
                Text!Check, Text!Template, Text!Merge, Text!Stamp, Text!Insert, Text!Again
  <2>7. Text!Valid(file[s]) /\ got' = [got EXCEPT ![s] = entries[file[s]].content]
    <3>1. CASE ~Text!Valid(file[s])
      <4>1. textAt' = [textAt EXCEPT ![s] = "build"]
        BY <2>6, <3>1 DEF Text!Lookup, Text!Put
      <4>2. textAt'[s] = "build"
        BY <2>1, <4>1 DEF CacheTypes
      <4> QED BY <4>2
    <3> QED BY <2>6, <3>1 DEF Text!Lookup, Text!Put
  <2>8. Sound(file[s], entries[file[s]].content) /\ version[file[s]] # Text!Absent
    BY <1>1, <2>7 DEF CacheInv, EntryTimely, Clean, Text!Valid
  <2>9. got'[s] = entries[file[s]].content
    BY <2>1, <2>7 DEF CacheTypes
  <2>10. Sound(file[s], got'[s])
    BY <2>8, <2>9
  <2>11. CASE got'[s] = <<version[file[s]]>>
    <3>1. got'[s] = Text!Loaded(file[s])
      BY <2>8, <2>11 DEF Text!Loaded
    <3> QED BY <2>8, <3>1 DEF Text!Made, Text!MergedPastChange
  <2>12. CASE file[s] = "asset" /\ Text!Outdated /\ Len(got'[s]) = 2
    BY <2>12 DEF Text!MergedPastChange
  <2> QED BY <2>10, <2>11, <2>12 DEF Sound
<1> QED BY <1>1, CacheStep, CacheInitially, PTL DEF Spec, CachedIsCurrent, Text!CachedIsCurrent
--------------------------------------------------------------------------------
(* The conversion slot.                                                        *)

SlotInv ==
    /\ active \in BOOLEAN /\ DOMAIN imageAt = Viewers
    /\ \A s \in Viewers : Image!Converting(s) => active
    /\ \A s, t \in Viewers : Image!Converting(s) /\ Image!Converting(t) => s = t

(* Where a step of a session leads, seen from the slot.                        *)
LEMMA SlotUse ==
    ASSUME SlotInv, NEW s \in Viewers, Image!Step(s)
    PROVE  /\ DOMAIN imageAt' = Viewers /\ \A t \in Viewers \ {s} : imageAt'[t] = imageAt[t]
           /\ \/ UNCHANGED active /\ (Image!Converting(s)' => Image!Converting(s))
              \/ ~active /\ active' = TRUE
              \/ Image!Converting(s) /\ active' = FALSE /\ ~Image!Converting(s)'
<1> USE DEF SlotInv, Image!Converting, Image!Goto, Image!Finish, Image!slotVars
<1>1. CASE Image!Look(s) \/ Image!Fetch(s) \/ Image!Open(s)
  BY <1>1 DEF Image!Look, Image!Fetch, Image!Open, Image!Announce, Image!SendWhole
<1>2. CASE Image!SendFile(s) \/ Image!Stream(s)
  BY <1>2 DEF Image!SendFile, Image!Stream
<1>3. CASE Image!Claim(s)
  BY <1>3 DEF Image!Claim
<1>4. CASE Image!ConvertFails(s) \/ Image!WriteFails(s)
  BY <1>4 DEF Image!ConvertFails, Image!WriteFails, Image!ReleaseSlot
<1>5. CASE Image!ConvertThrows(s) \/ Image!Store(s)
  BY <1>5 DEF Image!ConvertThrows, Image!Store
<1>6. CASE Image!Encoded(s)
  BY <1>6 DEF Image!Encoded
<1>7. CASE Image!Write(s)
  BY <1>7 DEF Image!Write
<1>8. CASE Image!Release(s)
  BY <1>8 DEF Image!Release, Image!ReleaseSlot
<1> QED BY <1>1, <1>2, <1>3, <1>4, <1>5, <1>6, <1>7, <1>8 DEF Image!Step

LEMMA SlotStep == SlotInv /\ [Next]_vars => SlotInv'
<1> SUFFICES ASSUME SlotInv, [Next]_vars PROVE SlotInv'
  OBVIOUS
<1>1. CASE UNCHANGED imageVars
  BY <1>1 DEF imageVars, SlotInv, Image!Converting
<1>2. ASSUME NEW s \in Viewers, Image!Step(s) PROVE SlotInv'
  <2>1. /\ DOMAIN imageAt' = Viewers /\ \A t \in Viewers \ {s} : Image!Converting(t)' <=> Image!Converting(t)
        /\ \/ UNCHANGED active /\ (Image!Converting(s)' => Image!Converting(s))
           \/ ~active /\ active' = TRUE
           \/ Image!Converting(s) /\ active' = FALSE /\ ~Image!Converting(s)'
    BY <1>2, SlotUse DEF Image!Converting
  <2>3. active' \in BOOLEAN
    BY <2>1 DEF SlotInv
  <2>4. ASSUME NEW t \in Viewers, Image!Converting(t)' PROVE active' /\ (t = s \/ ~Image!Converting(s)')
    BY <2>1, <2>4 DEF SlotInv
  <2>5. ASSUME NEW t \in Viewers, NEW u \in Viewers, Image!Converting(t)', Image!Converting(u)' PROVE t = u
    BY <2>1, <2>4, <2>5 DEF SlotInv
  <2> QED BY <2>1, <2>3, <2>4, <2>5 DEF SlotInv
<1> QED BY <1>1, <1>2, BranchStep DEF Image!Next

LEMMA SlotInitially == Init => SlotInv
BY DEF Init, Image!Init, SlotInv, Image!Converting

(* At most one image is converted at a time, in either mode and with any       *)
(* number of sessions and images.                                              *)
LEMMA OneAtATime == SlotInv => OneConversion
<1> SUFFICES ASSUME SlotInv PROVE OneConversion
  OBVIOUS
<1> DEFINE C == {s \in Viewers : Image!Converting(s)}
<1>1. OneConversion <=> Cardinality(C) <= 1
  BY Zenon DEF OneConversion, Image!OneConversion, Cardinality, Image!Cardinality
<1>2. \A s, t \in C : s = t
  BY DEF SlotInv
<1> HIDE DEF C
<1>3. CASE C = {}
  BY <1>1, <1>3, FS_EmptySet
<1>4. CASE C # {}
  <2>1. PICK s \in C : TRUE
    BY <1>4
  <2>2. C = {s}
    BY <1>2, <2>1
  <2>3. Cardinality(C) = 1
    BY <2>2, FS_Singleton
  <2> QED BY <1>1, <2>3
<1> QED BY <1>3, <1>4

(* The conversion slot of WebPConverter is never held twice.                   *)
THEOREM OneConversionAtATime == Spec => []OneConversion
BY OneAtATime, SlotStep, SlotInitially, PTL DEF Spec
--------------------------------------------------------------------------------
(* Whole images.                                                               *)

(* A file is whole or absent, unless it is being written or a write failed.    *)
DiskWhole(i) == ~Image!Saving(i) /\ i \notin torn => disk[i] \in {-1, ImageSize[i]}

(* What a session sends, from the place it is at.                              *)
SendsWhole(s) ==
    /\ imageAt[s] = "write" => ~dev /\ 0 <= disk[img[s]] /\ disk[img[s]] < ImageSize[img[s]]
    /\ imageAt[s] = "store" => dev
    /\ imageAt[s] = "open" \/ (imageAt[s] = "release" /\ ~dev) => disk[img[s]] # -1
    /\ imageAt[s] \notin {"sendfile", "stream", "served"} => sent[s] = 0
    /\ imageAt[s] \in {"sendfile", "stream"} /\ ~crossed[s] /\ img[s] \notin torn =>
          /\ length[s] = ImageSize[img[s]] /\ disk[img[s]] = ImageSize[img[s]]
          /\ ~Image!Saving(img[s]) /\ sent[s] <= length[s]
    /\ imageAt[s] = "served" /\ ~crossed[s] /\ img[s] \notin torn =>
          length[s] = ImageSize[img[s]] /\ sent[s] = length[s]

WholeTypes ==
    /\ dev \in BOOLEAN /\ disk \in [Images -> Int] /\ DOMAIN imageAt = Viewers
    /\ img \in [Viewers -> Images] /\ length \in [Viewers -> Int] /\ sent \in [Viewers -> Int]
    /\ crossed \in [Viewers -> BOOLEAN]

WholeInv ==
    /\ WholeTypes
    /\ \A i \in Images : DiskWhole(i)
    /\ \A s \in Viewers : SendsWhole(s)

(* A step of a session that writes no file.                                    *)
LEMMA NothingWritten ==
    ASSUME WholeInv, NEW s \in Viewers, UNCHANGED <<dev, disk, img, torn>>, WholeTypes',
           imageAt[s] # "write", imageAt'[s] # "write", SendsWhole(s)',
           \A t \in Viewers \ {s} : /\ imageAt'[t] = imageAt[t] /\ length'[t] = length[t]
                                    /\ sent'[t] = sent[t] /\ crossed'[t] = crossed[t]
    PROVE  WholeInv'
<1>1. \A i \in Images : Image!Saving(i)' <=> Image!Saving(i)
  BY DEF Image!Saving
<1>2. img \in [Viewers -> Images]
  BY DEF WholeInv, WholeTypes
<1>3. ASSUME NEW t \in Viewers \ {s} PROVE SendsWhole(t)'
  <2>1. SendsWhole(t) /\ img[t] \in Images
    BY <1>2 DEF WholeInv
  <2>2. Image!Saving(img[t])' <=> Image!Saving(img[t])
    BY <1>1, <2>1
  <2> QED BY <2>1, <2>2 DEF SendsWhole
<1>4. \A i \in Images : DiskWhole(i)'
  BY <1>1 DEF WholeInv, DiskWhole
<1> QED BY <1>3, <1>4 DEF WholeInv

(* What every step on the images keeps.                                        *)
LEMMA WholeStays ==
    ASSUME WholeInv, NEW s \in Viewers
    PROVE  WholeTypes /\ SendsWhole(s) /\ img[s] \in Images /\ disk[img[s]] \in Int /\ DiskWhole(img[s])
           /\ ImageSize[img[s]] \in Nat /\ 0 < ImageSize[img[s]] /\ sent[s] \in Int /\ length[s] \in Int
           /\ (imageAt[s] # "write" => (Image!Saving(img[s]) \/ img[s] \in torn \/ disk[img[s]] \in {-1, ImageSize[img[s]]}))
BY FilesAssumption DEF Image!ImageAssumption, WholeInv, WholeTypes, DiskWhole

(* A session that announces what is on disk and begins to send it.             *)
LEMMA AnnounceWhole ==
    ASSUME WholeInv, NEW s \in Viewers, NEW place \in {"sendfile", "stream"}, Image!Announce(s, place),
           imageAt[s] \in {"look", "open"}, disk[img[s]] # -1, UNCHANGED <<dev, disk, torn>>
    PROVE  WholeInv'
<1>1. /\ length' = [length EXCEPT ![s] = disk[img[s]]] /\ imageAt' = [imageAt EXCEPT ![s] = place]
      /\ crossed' = [crossed EXCEPT ![s] = Image!Saving(img[s])] /\ UNCHANGED <<img, sent>>
  BY DEF Image!Announce, Image!Goto
<1>2. Image!Saving(img[s]) \in BOOLEAN
  BY DEF Image!Saving
<1>3. WholeTypes'
  BY <1>1, <1>2, WholeStays DEF WholeTypes
<1>4. /\ imageAt'[s] = place /\ length'[s] = disk[img[s]] /\ crossed'[s] = Image!Saving(img[s]) /\ sent[s] = 0
      /\ \A t \in Viewers \ {s} : /\ imageAt'[t] = imageAt[t] /\ length'[t] = length[t]
                                  /\ sent'[t] = sent[t] /\ crossed'[t] = crossed[t]
  BY <1>1, WholeStays DEF WholeTypes, SendsWhole
<1>5. Image!Saving(img[s])' <=> Image!Saving(img[s])
  BY <1>1, <1>4 DEF Image!Saving
<1>6. SendsWhole(s)'
  BY <1>1, <1>4, <1>5, WholeStays DEF SendsWhole
<1> QED BY <1>1, <1>3, <1>4, <1>6, NothingWritten

LEMMA SendWholeWhole ==
    ASSUME WholeInv, NEW s \in Viewers, Image!SendWhole(s), imageAt[s] # "write", UNCHANGED <<dev, disk, torn>>
    PROVE  WholeInv'
<1>1. /\ length' = [length EXCEPT ![s] = ImageSize[img[s]]] /\ sent' = [sent EXCEPT ![s] = ImageSize[img[s]]]
      /\ imageAt' = [imageAt EXCEPT ![s] = "served"] /\ UNCHANGED <<img, crossed>>
  BY DEF Image!SendWhole, Image!Finish
<1>2. WholeTypes' /\ SendsWhole(s)'
  BY <1>1, WholeStays DEF WholeTypes, SendsWhole
<1>3. imageAt'[s] = "served" /\ \A t \in Viewers \ {s} : /\ imageAt'[t] = imageAt[t] /\ length'[t] = length[t]
                                                        /\ sent'[t] = sent[t] /\ crossed'[t] = crossed[t]
  BY <1>1, WholeStays DEF WholeTypes
<1> QED BY <1>1, <1>2, <1>3, NothingWritten

(* A session that only goes from one place to another.                         *)
LEMMA GoesWhole ==
    ASSUME WholeInv, NEW s \in Viewers, NEW a, imageAt' = [imageAt EXCEPT ![s] = a],
           imageAt[s] \notin {"write", "sendfile", "stream", "served"},
           a \notin {"write", "sendfile", "stream", "served"},
           a = "store" => dev, a = "open" \/ (a = "release" /\ ~dev) => disk[img[s]] # -1,
           UNCHANGED <<dev, disk, img, torn, length, sent, crossed>>
    PROVE  WholeInv'
<1>1. WholeTypes' /\ imageAt'[s] = a /\ \A t \in Viewers \ {s} : imageAt'[t] = imageAt[t]
  BY WholeStays DEF WholeTypes
<1>2. SendsWhole(s)'
  BY <1>1, WholeStays DEF SendsWhole
<1> QED BY <1>1, <1>2, NothingWritten

(* A session that sends the next piece or is done.                             *)
LEMMA SendingWhole ==
    ASSUME WholeInv, NEW s \in Viewers, Image!SendFile(s) \/ Image!Stream(s)
    PROVE  WholeInv'
<1>1. /\ UNCHANGED <<dev, disk, img, torn, length, crossed>> /\ imageAt[s] \in {"sendfile", "stream"}
      /\ \/ /\ sent' = [sent EXCEPT ![s] = sent[s] + 1] /\ UNCHANGED imageAt /\ sent[s] < disk[img[s]]
         \/ /\ imageAt' = [imageAt EXCEPT ![s] = "served"] /\ UNCHANGED sent
            /\ ~(sent[s] < length[s] /\ sent[s] < disk[img[s]])
  BY DEF Image!SendFile, Image!Stream, Image!filesVars, Image!faultVars, Image!Finish
<1>2. WholeTypes' /\ \A t \in Viewers \ {s} : imageAt'[t] = imageAt[t] /\ sent'[t] = sent[t]
  BY <1>1, WholeStays DEF WholeTypes
<1>3. \/ imageAt'[s] = imageAt[s] /\ sent'[s] = sent[s] + 1 /\ sent[s] < disk[img[s]]
      \/ imageAt'[s] = "served" /\ sent'[s] = sent[s] /\ ~(sent[s] < length[s] /\ sent[s] < disk[img[s]])
  BY <1>1, WholeStays DEF WholeTypes
<1>4. Image!Saving(img[s])' <=> Image!Saving(img[s])
  BY <1>1, <1>2, <1>3 DEF Image!Saving
<1>5. SendsWhole(s)'
  BY <1>1, <1>3, <1>4, WholeStays DEF SendsWhole
<1>6. imageAt[s] # "write" /\ imageAt'[s] # "write"
  BY <1>1, <1>3
<1> QED BY <1>1, <1>2, <1>5, <1>6, NothingWritten

(* The writing of a file begins: whoever sends it is crossed.                  *)
LEMMA EncodedWhole ==
    ASSUME WholeInv, SlotInv, NEW s \in Viewers, Image!Encoded(s)
    PROVE  WholeInv'
<1>1. CASE dev
  <2>1. imageAt' = [imageAt EXCEPT ![s] = "store"] /\ imageAt[s] = "convert" /\ UNCHANGED <<dev, disk, img, torn, length, sent>>
    BY <1>1 DEF Image!Encoded, Image!Goto, Image!faultVars
  <2>2. crossed' = crossed
    <3>1. crossed' = [c \in Viewers |-> crossed[c]]
      BY <1>1 DEF Image!Encoded, WholeInv, WholeTypes
    <3> QED BY <3>1 DEF WholeInv, WholeTypes
  <2> QED BY <1>1, <2>1, <2>2, GoesWhole
<1>2. CASE ~dev
  <2>1. /\ imageAt' = [imageAt EXCEPT ![s] = "write"] /\ imageAt[s] = "convert"
        /\ disk' = [disk EXCEPT ![img[s]] = 0] /\ UNCHANGED <<dev, img, torn, length, sent>>
        /\ crossed' = [c \in Viewers |-> crossed[c] \/ (img[c] = img[s] /\ c # s /\ imageAt[c] \in {"sendfile", "stream"})]
    BY <1>2 DEF Image!Encoded, Image!Goto, Image!faultVars
  <2>2. WholeTypes'
    BY <2>1, WholeStays DEF WholeTypes
  <2>3. /\ imageAt'[s] = "write" /\ disk'[img[s]] = 0
        /\ \A i \in Images \ {img[s]} : disk'[i] = disk[i]
        /\ \A t \in Viewers \ {s} : imageAt'[t] = imageAt[t]
    BY <2>1, WholeStays DEF WholeTypes
  <2>4. \A i \in Images : Image!Saving(i)' <=> Image!Saving(i) \/ i = img[s]
    BY <2>1, <2>3 DEF Image!Saving
  <2>5. \A i \in Images : DiskWhole(i)'
    BY <2>1, <2>3, <2>4 DEF WholeInv, DiskWhole
  <2>6. SendsWhole(s)'
    BY <1>2, <2>1, <2>3, WholeStays DEF SendsWhole
  <2>7. ASSUME NEW t \in Viewers \ {s} PROVE SendsWhole(t)'
    <3>1. SendsWhole(t) /\ img[t] \in Images /\ crossed[t] \in BOOLEAN
      BY WholeStays DEF WholeTypes
    <3>2. imageAt[t] # "write"
      BY <2>1 DEF SlotInv, Image!Converting
    <3>3. Image!Saving(img[t])' <=> Image!Saving(img[t]) \/ img[t] = img[s]
      BY <2>1, <2>4, <3>1
    <3>4. crossed'[t] <=> crossed[t] \/ (img[t] = img[s] /\ imageAt[t] \in {"sendfile", "stream"})
      BY <2>1
    <3>5. CASE img[t] = img[s]
      BY <2>1, <2>3, <3>1, <3>2, <3>4, <3>5 DEF SendsWhole
    <3>6. CASE img[t] # img[s]
      BY <2>1, <2>3, <3>1, <3>2, <3>3, <3>4, <3>6 DEF SendsWhole
    <3> QED BY <3>5, <3>6
  <2> QED BY <2>2, <2>5, <2>6, <2>7 DEF WholeInv
<1> QED BY <1>1, <1>2 DEF WholeInv, WholeTypes

(* The next piece is written, or the write fails and leaves the file torn.     *)
LEMMA WriteWhole ==
    ASSUME WholeInv, SlotInv, NEW s \in Viewers, Image!Write(s)
    PROVE  WholeInv'
<1> DEFINE i == img[s]
<1>1. /\ imageAt[s] = "write" /\ disk' = [disk EXCEPT ![i] = disk[i] + 1]
      /\ UNCHANGED <<dev, img, torn, length, sent, crossed>>
      /\ \/ disk[i] + 1 = ImageSize[i] /\ imageAt' = [imageAt EXCEPT ![s] = "release"]
         \/ disk[i] + 1 # ImageSize[i] /\ UNCHANGED imageAt
  BY DEF Image!Write, Image!Goto, Image!faultVars
<1>2. i \in Images /\ disk[i] \in Int /\ 0 <= disk[i] /\ disk[i] < ImageSize[i] /\ ~dev /\ ImageSize[i] \in Nat
  BY <1>1, WholeStays DEF SendsWhole
<1>3. /\ WholeTypes' /\ disk'[i] = disk[i] + 1 /\ \A j \in Images \ {i} : disk'[j] = disk[j]
      /\ \A t \in Viewers \ {s} : imageAt'[t] = imageAt[t]
      /\ \/ disk[i] + 1 = ImageSize[i] /\ imageAt'[s] = "release"
         \/ disk[i] + 1 # ImageSize[i] /\ imageAt'[s] = "write"
  BY <1>1, <1>2, WholeStays DEF WholeTypes
<1>4. \A t \in Viewers \ {s} : imageAt[t] # "write"
  BY <1>1 DEF SlotInv, Image!Converting
<1>5. /\ \A j \in Images : Image!Saving(j) <=> j = i
      /\ \A j \in Images : Image!Saving(j)' <=> j = i /\ imageAt'[s] = "write"
  BY <1>1, <1>3, <1>4 DEF Image!Saving
<1> HIDE DEF i
<1>6. \A j \in Images : DiskWhole(j)'
  BY <1>1, <1>2, <1>3, <1>5 DEF WholeInv, DiskWhole
<1>7. SendsWhole(s)'
  <2>1. SendsWhole(s) /\ i = img[s]
    BY WholeStays DEF i
  <2>2. /\ imageAt'[s] = "write" => 0 <= disk'[i] /\ disk'[i] < ImageSize[i]
        /\ disk'[i] # -1
    BY <1>2, <1>3
  <2> QED BY <1>1, <1>2, <1>3, <2>1, <2>2 DEF SendsWhole
<1>8. ASSUME NEW t \in Viewers \ {s} PROVE SendsWhole(t)'
  <2>1. SendsWhole(t) /\ img[t] \in Images
    BY WholeStays
  <2>2. disk'[i] # -1
    BY <1>2, <1>3
  <2>3. CASE img[t] = i
    BY <1>1, <1>3, <1>4, <1>5, <2>1, <2>2, <2>3 DEF SendsWhole
  <2>4. CASE img[t] # i
    <3>1. ~Image!Saving(img[t])' /\ disk'[img[t]] = disk[img[t]]
      BY <1>1, <1>3, <1>5, <2>1, <2>4
    <3> QED BY <1>1, <1>3, <1>4, <2>1, <3>1 DEF SendsWhole
  <2> QED BY <2>3, <2>4
<1> QED BY <1>3, <1>6, <1>7, <1>8 DEF WholeInv

LEMMA WriteFailsWhole ==
    ASSUME WholeInv, SlotInv, NEW s \in Viewers, Image!WriteFails(s)
    PROVE  WholeInv'
<1> DEFINE i == img[s]
<1>1. /\ imageAt[s] = "write" /\ torn' = torn \cup {i} /\ imageAt' = [imageAt EXCEPT ![s] = "original"]
      /\ UNCHANGED <<dev, disk, img, length, sent, crossed>>
  BY DEF Image!WriteFails, Image!Finish, Image!filesVars
<1>2. WholeTypes' /\ imageAt'[s] = "original" /\ \A t \in Viewers \ {s} : imageAt'[t] = imageAt[t]
  BY <1>1, WholeStays DEF WholeTypes
<1>3. \A j \in Images : j # i => (Image!Saving(j)' <=> Image!Saving(j))
  BY <1>1, <1>2 DEF Image!Saving
<1>4. \A j \in Images : DiskWhole(j)'
  BY <1>1, <1>3 DEF WholeInv, DiskWhole
<1>5. SendsWhole(s)'
  BY <1>1, <1>2, WholeStays DEF SendsWhole
<1>6. ASSUME NEW t \in Viewers \ {s} PROVE SendsWhole(t)'
  <2>1. SendsWhole(t) /\ img[t] \in Images
    BY WholeStays
  <2>2. img[t] # i => (Image!Saving(img[t])' <=> Image!Saving(img[t]))
    BY <1>1, <1>3, <2>1
  <2> HIDE DEF i
  <2> QED BY <1>1, <1>2, <2>1, <2>2 DEF SendsWhole
<1> QED BY <1>2, <1>4, <1>5, <1>6 DEF WholeInv

LEMMA WholeStep == WholeInv /\ SlotInv /\ [Next]_vars => WholeInv'
<1> SUFFICES ASSUME WholeInv, SlotInv, [Next]_vars PROVE WholeInv'
  OBVIOUS
<1>1. CASE UNCHANGED imageVars
  <2>1. UNCHANGED <<dev, disk, imageAt, img, length, sent, crossed, torn>>
    BY <1>1 DEF imageVars
  <2> QED BY <2>1 DEF WholeInv, WholeTypes, DiskWhole, SendsWhole, Image!Saving
<1>2. ASSUME NEW s \in Viewers, Image!Step(s) PROVE WholeInv'
  <2>1. CASE Image!Look(s)
    <3>1. imageAt[s] = "look" /\ UNCHANGED <<dev, disk, torn>>
      BY <2>1 DEF Image!Look, Image!filesVars, Image!faultVars
    <3>2. CASE Image!SendWhole(s)
      BY <3>1, <3>2, SendWholeWhole
    <3>3. CASE disk[img[s]] # -1 /\ Image!Announce(s, "sendfile")
      BY <3>1, <3>3, AnnounceWhole
    <3>4. CASE imageAt' = [imageAt EXCEPT ![s] = "claim"] /\ UNCHANGED <<img, length, sent, crossed>>
      BY <3>1, <3>4, GoesWhole
    <3> QED BY <2>1, <3>2, <3>3, <3>4 DEF Image!Look, Image!Goto, Image!Nowhere
  <2>2. CASE Image!Claim(s)
    <3>1. /\ imageAt[s] = "claim" /\ UNCHANGED <<dev, disk, img, torn, length, sent, crossed>>
          /\ \E a \in {"fetch", "convert"} : imageAt' = [imageAt EXCEPT ![s] = a]
      BY <2>2 DEF Image!Claim, Image!Goto, Image!filesVars, Image!faultVars
    <3> QED BY <3>1, GoesWhole
  <2>3. CASE Image!ConvertFails(s) \/ Image!ConvertThrows(s)
    <3>1. /\ imageAt[s] = "convert" /\ UNCHANGED <<dev, disk, img, torn, length, sent, crossed>>
          /\ \E a \in {"original", "aborted"} : imageAt' = [imageAt EXCEPT ![s] = a]
      BY <2>3 DEF Image!ConvertFails, Image!ConvertThrows, Image!Finish, Image!filesVars, Image!faultVars
    <3> QED BY <3>1, GoesWhole
  <2>4. CASE Image!Store(s)
    <3>1. /\ imageAt[s] = "store" /\ UNCHANGED <<dev, disk, img, torn, length, sent, crossed>>
          /\ imageAt' = [imageAt EXCEPT ![s] = "release"]
      BY <2>4 DEF Image!Store, Image!Goto, Image!faultVars
    <3>2. dev
      BY <3>1, WholeStays DEF SendsWhole
    <3> QED BY <3>1, <3>2, GoesWhole, ZenonT(60)
  <2>5. CASE Image!Release(s)
    <3>1. /\ imageAt[s] = "release" /\ UNCHANGED <<dev, disk, img, torn, length, sent, crossed>>
          /\ imageAt' = [imageAt EXCEPT ![s] = IF dev THEN "fetch" ELSE "open"]
      BY <2>5 DEF Image!Release, Image!Goto, Image!filesVars, Image!faultVars
    <3>2. ~dev => disk[img[s]] # -1
      BY <3>1, WholeStays DEF SendsWhole
    <3> QED BY <3>1, <3>2, GoesWhole, ZenonT(60)
  <2>6. CASE Image!Fetch(s)
    <3>1. imageAt[s] = "fetch" /\ UNCHANGED <<dev, disk, torn>>
      BY <2>6 DEF Image!Fetch, Image!filesVars, Image!faultVars
    <3>2. CASE Image!SendWhole(s)
      BY <3>1, <3>2, SendWholeWhole
    <3>3. CASE imageAt' = [imageAt EXCEPT ![s] = "notfound"] /\ UNCHANGED <<img, length, sent, crossed>>
      BY <3>1, <3>3, GoesWhole
    <3> QED BY <2>6, <3>2, <3>3 DEF Image!Fetch, Image!Finish
  <2>7. CASE Image!Open(s)
    <3>1. imageAt[s] = "open" /\ UNCHANGED <<dev, disk, torn>> /\ Image!Announce(s, "stream")
      BY <2>7 DEF Image!Open, Image!filesVars, Image!faultVars
    <3>2. disk[img[s]] # -1
      BY <3>1, WholeStays DEF SendsWhole
    <3> QED BY <3>1, <3>2, AnnounceWhole
  <2> QED BY <1>2, <2>1, <2>2, <2>3, <2>4, <2>5, <2>6, <2>7, SendingWhole, EncodedWhole, WriteWhole,
             WriteFailsWhole DEF Image!Step
<1> QED BY <1>1, <1>2, BranchStep DEF Image!Next

LEMMA WholeInitially == Init => WholeInv
<1> SUFFICES ASSUME Init PROVE WholeInv
  OBVIOUS
<1>1. PICK there \in SUBSET Images : disk = [i \in Images |-> IF i \in there THEN ImageSize[i] ELSE -1]
  BY DEF Init, Image!Init, Image!Nowhere
<1>2. /\ dev \in BOOLEAN /\ imageAt = [s \in Viewers |-> "look"] /\ img \in [Viewers -> Images]
      /\ length = [s \in Viewers |-> -1] /\ sent = [s \in Viewers |-> 0] /\ crossed = [s \in Viewers |-> FALSE]
  BY DEF Init, Image!Init, Image!Nowhere
<1>3. \A i \in Images : ImageSize[i] \in Int
  BY FilesAssumption DEF Image!ImageAssumption
<1>4. disk \in [Images -> Int] /\ \A i \in Images : disk[i] \in {-1, ImageSize[i]}
  BY <1>1, <1>3
<1>5. length \in [Viewers -> Int] /\ sent \in [Viewers -> Int] /\ crossed \in [Viewers -> BOOLEAN]
  BY <1>2
<1>6. \A s \in Viewers : SendsWhole(s)
  BY <1>2 DEF SendsWhole
<1> QED BY <1>2, <1>4, <1>5, <1>6 DEF WholeInv, WholeTypes, DiskWhole

(* A .webp response is a whole image under its exact length, unless its file   *)
(* was being written, or written again, as it was sent, or an earlier write    *)
(* left half an image - whatever sessions convert, send and fail meanwhile.    *)
THEOREM ImagesSentWhole == Spec => []ImagesWhole
<1>1. WholeInv => ImagesWhole
  BY DEF WholeInv, SendsWhole, ImagesWhole, Image!ImagesWhole
<1> QED BY <1>1, WholeStep, WholeInitially, SlotStep, SlotInitially, PTL DEF Spec
--------------------------------------------------------------------------------
(* What the two caches count.                                                  *)

TotalInv ==
    /\ file \in [Readers -> {"page", "asset"}] /\ DOMAIN entries \subseteq {"page", "asset"}
    /\ total = SumOver(TextSize, DOMAIN entries)
    /\ total <= MaxTotal \/ Cardinality(DOMAIN entries) = 1

LEMMA TextNames ==
    /\ \A F : Text!Cost(F) = SumOver(TextSize, F)
    /\ \A F : Text!Cardinality(F) = Cardinality(F)
<1>1. ASSUME NEW F PROVE Text!Cost(F) = SumOver(TextSize, F)
  BY Zenon DEF Text!Cost, Text!MapThenSumSet, Text!MapThenFoldSet, SumOver, MapThenSumSet, MapThenFoldSet
<1>2. ASSUME NEW F PROVE Text!Cardinality(F) = Cardinality(F)
  BY Zenon DEF Text!Cardinality, Cardinality
<1> QED BY <1>1, <1>2

LEMMA TextSizes ==
    /\ TextSize \in [{"page", "asset"} -> Nat] /\ MaxTotal \in Nat
    /\ \A F \in SUBSET {"page", "asset"} : IsFiniteSet(F)
<1>1. TextSize \in [{"page", "asset"} -> Nat] /\ MaxTotal \in Nat
  BY FilesAssumption DEF Text!TextAssumption, Text!Files
<1>2. IsFiniteSet({"page", "asset"})
  <2>1. IsFiniteSet({"page"}) /\ {"page"} \cup {"asset"} = {"page", "asset"}
    BY FS_Singleton
  <2>2. IsFiniteSet({"page"} \cup {"asset"})
    BY <2>1, FS_AddElement
  <2> QED BY <2>1, <2>2
<1> QED BY <1>1, <1>2, FS_Subset

LEMMA LookupCounts ==
    ASSUME TotalInv, NEW s \in Readers, Text!Lookup(s)
    PROVE  TotalInv'
<1> DEFINE f == file[s]
           D == DOMAIN entries
<1>1. file' = file
  BY DEF Text!Lookup
<1>2. CASE UNCHANGED <<entries, total>>
  BY <1>1, <1>2 DEF TotalInv
<1>3. CASE /\ entries' = [g \in D \ {f} |-> entries[g]]
           /\ total' = total - SumOver(TextSize, {f} \cap D)
  <2>1. DOMAIN entries' = D \ {f}
    BY <1>3
  <2>2. D \in SUBSET {"page", "asset"} /\ IsFiniteSet(D) /\ {f} \cap D \in SUBSET D /\ D \ ({f} \cap D) = D \ {f}
    BY TextSizes DEF TotalInv
  <2>3. /\ SumOver(TextSize, D) = SumOver(TextSize, {f} \cap D) + SumOver(TextSize, D \ {f})
        /\ SumOver(TextSize, {f} \cap D) \in Nat /\ SumOver(TextSize, D \ {f}) \in Nat
    <3> DEFINE K == {f} \cap D
    <3>1. K \in SUBSET D /\ D \ K = D \ {f}
      BY <2>2
    <3> HIDE DEF K, D, f
    <3>2. /\ SumOver(TextSize, D) = SumOver(TextSize, K) + SumOver(TextSize, D \ K)
          /\ SumOver(TextSize, K) \in Nat /\ SumOver(TextSize, D \ K) \in Nat
      BY <2>2, <3>1, SumOfPart, TextSizes
    <3> QED BY <3>1, <3>2 DEF K
  <2> DEFINE all == SumOver(TextSize, D)
             less == SumOver(TextSize, D \ {f})
             own == SumOver(TextSize, {f} \cap D)
  <2>4. total = all /\ total' = total - own /\ all = own + less /\ own \in Nat /\ less \in Nat
    BY <1>3, <2>3 DEF TotalInv
  <2>5. total' = less /\ total' <= total
    <3> HIDE DEF all, own, less
    <3> QED BY <2>4
  <2>6. total' <= MaxTotal \/ Cardinality(D \ {f}) = 1
    <3>1. CASE total <= MaxTotal
      <4>1. total \in Nat /\ total' \in Nat
        <5> HIDE DEF all, own, less
        <5> QED BY <2>4, <2>5
      <4> QED BY <2>5, <3>1, <4>1, TextSizes
    <3>2. CASE Cardinality(D) = 1
      <4>1. PICK x : D = {x}
        BY <2>2, <3>2, FS_Singleton
      <4>2. CASE x = f
        <5>1. D \ {f} = {}
          BY <4>1, <4>2
        <5>2. less = 0
          <6> HIDE DEF D, f
          <6> QED BY <5>1, SumOfNothing
        <5> HIDE DEF less
        <5> QED BY <2>5, <5>2, TextSizes
      <4>3. CASE x # f
        <5>1. D \ {f} = D
          BY <4>1, <4>3
        <5> QED BY <3>2, <5>1
      <4> QED BY <4>2, <4>3
    <3> QED BY <3>1, <3>2 DEF TotalInv
  <2>7. D \ {f} \subseteq {"page", "asset"} /\ file \in [Readers -> {"page", "asset"}]
    BY <2>2 DEF TotalInv
  <2> HIDE DEF D, f
  <2> QED BY <1>1, <2>1, <2>5, <2>6, <2>7 DEF TotalInv
<1> QED
  <2>1. CASE Text!Valid(f)
    <3>1. UNCHANGED <<entries, total>>
      BY <2>1 DEF Text!Lookup, Text!cacheVars
    <3> QED BY <1>2, <3>1
  <2>2. CASE ~Text!Valid(f)
    <3>1. entries' = [g \in D \ {f} |-> entries[g]] /\ total' = total - Text!Cost({f} \cap D)
      BY <2>2 DEF Text!Lookup, Text!Without
    <3>2. Text!Cost({f} \cap D) = SumOver(TextSize, {f} \cap D)
      <4> DEFINE K == {f} \cap D
      <4> HIDE DEF K
      <4>1. Text!Cost(K) = SumOver(TextSize, K)
        BY TextNames
      <4> QED BY <4>1 DEF K
    <3> HIDE DEF D, f
    <3> QED BY <1>3, <3>1, <3>2
  <2> QED BY <2>1, <2>2

LEMMA InsertCounts ==
    ASSUME TotalInv, NEW s \in Readers, Text!Insert(s)
    PROVE  TotalInv'
<1> DEFINE f == file[s]
<1>1. file' = file /\ f \in {"page", "asset"}
  BY DEF TotalInv, Text!Insert
<1>2. PICK kept \in SUBSET (DOMAIN entries \ {f}) :
        /\ Text!Cost(kept) + TextSize[f] <= MaxTotal \/ kept = {}
        /\ DOMAIN entries' = kept \cup {f}
        /\ total' = Text!Cost(kept) + TextSize[f]
  BY DEF Text!Insert
<1>3. Text!Cost(kept) = SumOver(TextSize, kept)
  BY TextNames
<1> DEFINE K == kept \cup {f}
<1>4. K \in SUBSET {"page", "asset"} /\ K \ {f} = kept /\ f \in K
  BY <1>1, <1>2 DEF TotalInv
<1>5. SumOver(TextSize, K) = TextSize[f] + SumOver(TextSize, K \ {f})
  <2> DEFINE D == {"page", "asset"}
  <2>1. TextSize \in [D -> Nat] /\ K \in SUBSET D /\ IsFiniteSet(K) /\ f \in K
    BY <1>4, TextSizes
  <2> HIDE DEF K, f, D
  <2> QED BY <2>1, SumWithout
<1>6. TextSize[f] \in Nat /\ SumOver(TextSize, kept) \in Nat
  <2>1. kept \in SUBSET {"page", "asset"}
    BY <1>4
  <2> HIDE DEF K, f
  <2> QED BY <1>1, <2>1, TextSizes, SumIsNatural
<1>7. total' = SumOver(TextSize, K)
  <2>1. SumOver(TextSize, K \ {f}) = SumOver(TextSize, kept)
    <3> HIDE DEF K, f
    <3> QED BY Zenon, <1>4
  <2>2. total' = SumOver(TextSize, kept) + TextSize[f]
    <3> HIDE DEF K, f
    <3> QED BY <1>2, <1>3
  <2> HIDE DEF K, f
  <2> QED BY <1>5, <1>6, <2>1, <2>2
<1>8. total' <= MaxTotal \/ Cardinality(K) = 1
  <2>1. CASE kept = {}
    <3>1. K = {f}
      BY <2>1
    <3> HIDE DEF K, f
    <3> QED BY <3>1, FS_Singleton
  <2> QED BY <1>2, <2>1
<1> HIDE DEF K, f
<1>9. DOMAIN entries' = K
  BY <1>2 DEF K
<1> QED BY <1>1, <1>4, <1>7, <1>8, <1>9 DEF TotalInv

LEMMA TotalStep == TotalInv /\ [Next]_vars => TotalInv'
<1> SUFFICES ASSUME TotalInv, [Next]_vars PROVE TotalInv'
  OBVIOUS
<1>1. CASE UNCHANGED <<entries, total>> /\ file' \in [Readers -> {"page", "asset"}]
  BY <1>1 DEF TotalInv
<1>2. CASE UNCHANGED textVars \/ Text!SwitchGate \/ \E f \in Text!Disk : Text!Edit(f)
  <2>1. UNCHANGED <<entries, total, file>>
    BY <1>2 DEF textVars, Text!SwitchGate, Text!Edit, Text!cacheVars, Text!sessionVars
  <2> QED BY <1>1, <2>1 DEF TotalInv
<1>3. ASSUME NEW s \in Readers, Text!Step(s) PROVE TotalInv'
  <2>1. CASE Text!Lookup(s)
    BY <2>1, LookupCounts
  <2>2. CASE Text!Insert(s)
    BY <2>2, InsertCounts
  <2>3. CASE Text!Again(s)
    BY <1>1, <2>3 DEF Text!Again, Text!cacheVars, Text!Put, Text!Files, TotalInv
  <2>4. CASE ~(Text!Lookup(s) \/ Text!Insert(s) \/ Text!Again(s))
    <3>1. UNCHANGED <<entries, total, file>>
      BY <1>3, <2>4 DEF Text!Step, Text!Ask, Text!Decide, Text!Resolve, Text!Keep, Text!Access, Text!Load,
                        Text!Check, Text!Template, Text!Merge, Text!Stamp, Text!cacheVars
    <3> QED BY <1>1, <3>1 DEF TotalInv
  <2> QED BY <2>1, <2>2, <2>3, <2>4
<1> QED BY <1>2, <1>3, BranchStep DEF Text!Next

LEMMA TotalInitially == Init => TotalInv
<1> SUFFICES ASSUME Init PROVE TotalInv
  OBVIOUS
<1>1. entries = <<>> /\ total = 0 /\ file \in [Readers -> {"page", "asset"}]
  BY DEF Init, Text!Init, Text!Files
<1>2. DOMAIN entries = {}
  BY <1>1
<1> QED BY <1>1, <1>2, SumOfNothing, TextSizes DEF TotalInv

LEMMA TotalIsExact == TotalInv => TotalExact
BY TextNames DEF TotalInv, TotalExact, Text!TotalExact

(* The image cache: its list of ages names every image it holds once.          *)
ImagesInv ==
    /\ img \in [Viewers -> Images]
    /\ order \in Seq(Images) /\ IsInjective(order) /\ Range(order) = cached
    /\ bytes = SumOver(ImageSize, cached) /\ bytes <= MaxWebPBytes

LEMMA ImageNames ==
    /\ \A S : Image!SumOf(S) = SumOver(ImageSize, S)
    /\ \A s : Image!Range(s) = Range(s)
    /\ \A S : Image!Cardinality(S) = Cardinality(S)
    /\ \A s, e : Image!RemoveFirst(s, e) = RemoveFirst(s, e)
<1>1. ASSUME NEW S PROVE Image!SumOf(S) = SumOver(ImageSize, S)
  BY Zenon DEF Image!SumOf, Image!MapThenSumSet, Image!MapThenFoldSet, SumOver, MapThenSumSet, MapThenFoldSet
<1>2. ASSUME NEW s PROVE Image!Range(s) = Range(s)
  BY Zenon DEF Image!Range, Range
<1>3. ASSUME NEW S PROVE Image!Cardinality(S) = Cardinality(S)
  BY Zenon DEF Image!Cardinality, Cardinality
<1>4. ASSUME NEW s, NEW e PROVE Image!RemoveFirst(s, e) = RemoveFirst(s, e)
  <2>1. \A k : Image!RemoveAt(s, k) = RemoveAt(s, k)
    BY Zenon DEF Image!RemoveAt, RemoveAt
  <2>2. Image!SelectInSeq(s, LAMBDA x : x = e) = SelectInSeq(s, LAMBDA x : x = e)
    BY Zenon DEF Image!SelectInSeq, SelectInSeq, Image!Min, Min
  <2> QED BY Zenon, <2>1, <2>2 DEF Image!RemoveFirst, RemoveFirst
<1> QED BY <1>1, <1>2, <1>3, <1>4

LEMMA ImageSizes == ImageSize \in [Images -> Nat] /\ MaxWebPBytes \in Nat
BY FilesAssumption DEF Image!ImageAssumption

(* What is dropped to make room: the oldest images, as many as are needed.     *)
LEMMA RoomIsMade ==
    ASSUME ImagesInv, NEW n \in Nat
    PROVE  /\ Image!Dropped(n) \in 0..Len(order)
           /\ \/ Image!Dropped(n) = Len(order)
              \/ bytes - SumOver(ImageSize, Range(SubSeq(order, 1, Image!Dropped(n)))) + n <= MaxWebPBytes
<1> DEFINE L == Len(order)
           cost(k) == bytes - Image!SumOf(Image!Range(SubSeq(order, 1, k))) + n
           Fits(k) == k = L \/ cost(k) <= MaxWebPBytes
           K == {k \in 0..L : Fits(k)}
<1>1. L \in Nat
  BY LenProperties DEF ImagesInv
<1>2. K \in SUBSET Nat /\ L \in K
  BY <1>1
<1>3. PICK d \in K : \A k \in K : d <= k
  <2> HIDE DEF K
  <2> QED BY <1>2, LeastNumber
<1>4. ASSUME NEW j \in 0..L PROVE cost(j) \in Int
  <2> DEFINE old == Range(SubSeq(order, 1, j))
  <2>1. old \subseteq cached
    BY RangeOfSplit DEF ImagesInv
  <2>2. cached \in SUBSET Images /\ IsFiniteSet(cached)
    BY LengthOfList, RangeOfSeq DEF ImagesInv
  <2>3. SumOver(ImageSize, old) \in Nat /\ SumOver(ImageSize, cached) \in Nat
    <3>1. IsFiniteSet(old)
      BY <2>1, <2>2, FS_Subset
    <3> HIDE DEF old
    <3> QED BY <2>1, <2>2, <3>1, SumIsNatural, ImageSizes
  <2>4. cost(j) = bytes - SumOver(ImageSize, old) + n
    BY Zenon, ImageNames
  <2> HIDE DEF cost, old
  <2> QED BY <2>3, <2>4 DEF ImagesInv
<1>5. ASSUME NEW j \in 0..d - 1 PROVE cost(j) > MaxWebPBytes
  <2>1. j \in 0..L /\ ~(d <= j)
    BY <1>1, <1>3
  <2>2. ~(cost(j) <= MaxWebPBytes)
    <3>1. ~Fits(j)
      BY <1>3, <2>1
    <3> HIDE DEF cost
    <3> QED BY <3>1
  <2>3. cost(j) \in Int
    BY <1>4, <2>1
  <2> HIDE DEF cost
  <2> QED BY <2>2, <2>3, ImageSizes
<1> DEFINE Least(k) == Fits(k) /\ \A j \in 0..(k - 1) : cost(j) > MaxWebPBytes
<1>6. d \in 0..L /\ Least(d)
  <2> HIDE DEF cost
  <2> QED BY <1>3, <1>5
<1>7. Image!Dropped(n) = CHOOSE k \in 0..L : Least(k)
  BY Zenon DEF Image!Dropped
<1>8. Image!Dropped(n) \in 0..L /\ Fits(Image!Dropped(n))
  <2> HIDE DEF cost
  <2>1. (CHOOSE k \in 0..L : Least(k)) \in 0..L /\ Least(CHOOSE k \in 0..L : Least(k))
    <3> HIDE DEF Least
    <3> QED BY <1>6
  <2>2. Image!Dropped(n) \in 0..L /\ Least(Image!Dropped(n))
    <3> HIDE DEF Least
    <3> QED BY Zenon, <1>7, <2>1
  <2> QED BY <2>2
<1> QED BY Zenon, <1>8, ImageNames

LEMMA PutCounts ==
    ASSUME ImagesInv, NEW i \in Images, Image!Put(i), UNCHANGED img
    PROVE  ImagesInv'
<1> DEFINE n == ImageSize[i]
           d == Image!Dropped(n)
           gone == Range(SubSeq(order, 1, d))
           rest == SubSeq(order, d + 1, Len(order))
           kept == RemoveFirst(rest, i)
           out == gone \cup (cached \cap {i})
<1>1. n \in Nat /\ MaxWebPBytes \in Nat
  BY ImageSizes
<1>2. CASE n > MaxWebPBytes
  BY <1>2 DEF Image!Put, ImagesInv
<1>3. CASE ~(n > MaxWebPBytes)
  <2>1. /\ cached' = (cached \ gone) \cup {i} /\ order' = Append(kept, i)
        /\ bytes' = bytes - SumOver(ImageSize, out) + n
    <3>1. /\ cached' = (cached \ Image!Range(SubSeq(order, 1, d))) \cup {i}
          /\ order' = Append(Image!RemoveFirst(rest, i), i)
          /\ bytes' = bytes - Image!SumOf(Image!Range(SubSeq(order, 1, d)) \cup (cached \cap {i})) + n
      BY Zenon, <1>3 DEF Image!Put
    <3> QED BY Zenon, <3>1, ImageNames
  <2>2. /\ d \in 0..Len(order)
        /\ d = Len(order) \/ bytes - SumOver(ImageSize, gone) + n <= MaxWebPBytes
    BY <1>1, RoomIsMade
  <2> HIDE DEF d
  <2>3. /\ rest \in Seq(Images) /\ IsInjective(rest) /\ Len(rest) = Len(order) - d
        /\ cached = gone \cup Range(rest) /\ gone \cap Range(rest) = {}
    BY <2>2, RangeOfSplit DEF ImagesInv
  <2>4. kept \in Seq(Images) /\ IsInjective(kept) /\ Range(kept) = Range(rest) \ {i}
    <3> HIDE DEF rest
    <3> QED BY <2>3, WithoutFirst
  <2>5. /\ order' \in Seq(Images) /\ IsInjective(order') /\ Range(order') = Range(kept) \cup {i}
    <3> HIDE DEF kept
    <3> QED BY <2>1, <2>4, RangeOfAppend
  <2>6. cached \in SUBSET Images /\ IsFiniteSet(cached)
    BY LengthOfList, RangeOfSeq DEF ImagesInv
  <2> DEFINE remaining == cached \ out
  <2> HIDE DEF rest, kept, gone
  <2>7. Range(order') = cached' /\ cached' = remaining \cup {i} /\ i \notin remaining
    BY <2>1, <2>3, <2>4, <2>5
  <2>8. out \in SUBSET cached /\ gone \in SUBSET cached /\ remaining \in SUBSET (cached \ gone)
    BY <2>3
  <2> HIDE DEF out
  <2>9. /\ SumOver(ImageSize, cached) = SumOver(ImageSize, out) + SumOver(ImageSize, remaining)
        /\ SumOver(ImageSize, out) \in Nat /\ SumOver(ImageSize, remaining) \in Nat
    BY <2>6, <2>8, SumOfPart, ImageSizes
  <2>10. SumOver(ImageSize, cached') = n + SumOver(ImageSize, remaining)
    <3> DEFINE all == remaining \cup {i}
    <3>1. all \in SUBSET Images /\ IsFiniteSet(all) /\ i \in all /\ all \ {i} = remaining
      <4>1. IsFiniteSet(remaining) /\ remaining \in SUBSET Images
        BY <2>6, FS_Subset
      <4> HIDE DEF remaining
      <4>2. IsFiniteSet(remaining \cup {i})
        BY <4>1, FS_AddElement
      <4> QED BY <2>7, <4>1, <4>2
    <3> HIDE DEF all
    <3>2. SumOver(ImageSize, all) = ImageSize[i] + SumOver(ImageSize, all \ {i})
      BY <3>1, SumWithout, ImageSizes
    <3> QED BY Zenon, <2>7, <3>1, <3>2 DEF all
  <2> HIDE DEF n, remaining
  <2>11. bytes' = n + SumOver(ImageSize, remaining)
    BY <1>1, <2>1, <2>9 DEF ImagesInv
  <2>12. bytes' <= MaxWebPBytes
    <3>1. CASE d = Len(order)
      <4>1. Range(rest) = {}
        BY <2>2, <2>3, <3>1, LenProperties DEF Range, ImagesInv
      <4>2. remaining = {}
        BY <2>3, <2>8, <4>1
      <4>3. SumOver(ImageSize, remaining) = 0
        BY <4>2, SumOfNothing
      <4> QED BY <1>1, <1>3, <2>11, <4>3
    <3>2. CASE bytes - SumOver(ImageSize, gone) + n <= MaxWebPBytes
      <4> DEFINE others == cached \ gone
      <4>1. /\ SumOver(ImageSize, cached) = SumOver(ImageSize, gone) + SumOver(ImageSize, others)
            /\ SumOver(ImageSize, gone) \in Nat /\ SumOver(ImageSize, others) \in Nat
        BY <2>6, <2>8, SumOfPart, ImageSizes
      <4>2. others \in SUBSET Images /\ IsFiniteSet(others) /\ remaining \in SUBSET others
        BY <2>6, <2>8, FS_Subset
      <4> HIDE DEF others
      <4>3. /\ SumOver(ImageSize, others) = SumOver(ImageSize, remaining) + SumOver(ImageSize, others \ remaining)
            /\ SumOver(ImageSize, others \ remaining) \in Nat
        BY <4>2, SumOfPart, ImageSizes
      <4> QED BY <1>1, <2>9, <2>11, <3>2, <4>1, <4>3, SMTT(30) DEF ImagesInv
    <3> QED BY <2>2, <3>1, <3>2
  <2>13. bytes' = SumOver(ImageSize, cached')
    BY Zenon, <2>10, <2>11
  <2> QED BY <2>5, <2>7, <2>12, <2>13 DEF ImagesInv
<1> QED BY <1>2, <1>3

LEMMA ImagesStep == ImagesInv /\ [Next]_vars => ImagesInv'
<1> SUFFICES ASSUME ImagesInv, [Next]_vars PROVE ImagesInv'
  OBVIOUS
<1>1. CASE UNCHANGED imageVars
  BY <1>1 DEF imageVars, ImagesInv
<1>2. ASSUME NEW s \in Viewers, Image!Step(s) PROVE ImagesInv'
  <2>1. CASE Image!Store(s)
    <3>1. img[s] \in Images /\ Image!Put(img[s]) /\ UNCHANGED img
      BY <2>1 DEF Image!Store, ImagesInv
    <3> QED BY <3>1, PutCounts
  <2>2. CASE ~Image!Store(s)
    <3>1. UNCHANGED <<img, cached, order, bytes>>
      BY <1>2, <2>2 DEF Image!Step, Image!Look, Image!SendFile, Image!Stream, Image!Claim, Image!ConvertFails,
                        Image!ConvertThrows, Image!Encoded, Image!Write, Image!WriteFails, Image!Release,
                        Image!Fetch, Image!Open, Image!Announce, Image!SendWhole, Image!filesVars
    <3> QED BY <3>1 DEF ImagesInv
  <2> QED BY <2>1, <2>2
<1> QED BY <1>1, <1>2, BranchStep DEF Image!Next

LEMMA ImagesInitially == Init => ImagesInv
<1> SUFFICES ASSUME Init PROVE ImagesInv
  OBVIOUS
<1>1. cached = {} /\ order = <<>> /\ bytes = 0 /\ img \in [Viewers -> Images]
  BY DEF Init, Image!Init
<1>2. order \in Seq(Images) /\ IsInjective(order) /\ Range(order) = {}
  BY <1>1 DEF IsInjective, Range
<1> QED BY <1>1, <1>2, SumOfNothing, ImageSizes DEF ImagesInv

LEMMA CacheIsExact == ImagesInv => CacheExact
<1> SUFFICES ASSUME ImagesInv PROVE CacheExact
  OBVIOUS
<1>1. Len(order) = Cardinality(cached)
  BY LengthOfList DEF ImagesInv
<1>2. bytes = Image!SumOf(cached) /\ Image!Range(order) = cached /\ Len(order) = Image!Cardinality(cached)
  BY Zenon, <1>1, ImageNames DEF ImagesInv
<1> QED BY <1>2 DEF ImagesInv, CacheExact, Image!CacheExact

(* The counter of the text cache and the counter, the map and the list of ages *)
(* of the image cache tell of the same entries after any series of             *)
(* insertions, replacements and drops; both are within their limits, and one   *)
(* image at a time is converted.                                               *)
THEOREM LimitsAreExact == Spec => []LimitsExact
<1>1. TotalInv /\ ImagesInv /\ SlotInv => LimitsExact
  BY TotalIsExact, CacheIsExact, OneAtATime DEF LimitsExact
<1>2. Init => TotalInv /\ ImagesInv /\ SlotInv
  BY TotalInitially, ImagesInitially, SlotInitially
<1>3. TotalInv /\ ImagesInv /\ SlotInv /\ [Next]_vars => (TotalInv /\ ImagesInv /\ SlotInv)'
  BY TotalStep, ImagesStep, SlotStep
<1> QED BY <1>1, <1>2, <1>3, PTL DEF Spec
--------------------------------------------------------------------------------
(* Building pages: what is left of a sequence when only members of a set are   *)
(* kept, and what a list of files holds.                                       *)

(* The members of a set in a sequence.                                         *)
LEMMA OnlyByStep ==
    ASSUME NEW s, NEW S, Len(s) \in Nat
    PROVE  \E w : /\ Only(s, S) = w[Len(s)] /\ w[0] = << >>
                  /\ \A k \in 1..Len(s) : w[k] = IF s[k] \in S THEN Append(w[k - 1], s[k]) ELSE w[k - 1]
<1> DEFINE n == Len(s)
           Step(x, k) == IF s[k] \in S THEN Append(x, s[k]) ELSE x
           IsWay(w, m) == w = [k \in 0..m |-> IF k = 0 THEN << >> ELSE Step(w[k - 1], k)]
           P == {m \in Nat : \E w : IsWay(w, m)}
<1>1. 0 \in P
  <2> DEFINE w == [k \in 0..0 |-> << >>]
  <2>1. IsWay(w, 0)
    OBVIOUS
  <2> HIDE DEF w, IsWay
  <2> QED BY <2>1
<1>2. ASSUME NEW m \in Nat, m \in P PROVE m + 1 \in P
  <2>1. PICK w : IsWay(w, m)
    <3> HIDE DEF IsWay
    <3> QED BY <1>2
  <2> DEFINE v == [k \in 0..(m + 1) |-> IF k = m + 1 THEN Step(w[m], m + 1) ELSE w[k]]
  <2> HIDE DEF Step
  <2>2. \A k \in 0..(m + 1) : v[k] = IF k = 0 THEN << >> ELSE Step(v[k - 1], k)
    <3> TAKE k \in 0..(m + 1)
    <3> HIDE DEF P
    <3>1. CASE k = m + 1
      <4>1. k # 0 /\ k - 1 = m /\ m \in 0..(m + 1) /\ m # m + 1
        BY <3>1
      <4> QED BY <3>1, <4>1
    <3>2. CASE k # m + 1
      <4>1. k \in 0..m /\ (k # 0 => k - 1 \in 0..(m + 1) /\ k - 1 # m + 1)
        BY <3>2
      <4>2. w[k] = IF k = 0 THEN << >> ELSE Step(w[k - 1], k)
        BY <2>1, <4>1
      <4> QED BY <3>2, <4>1, <4>2
    <3> QED BY <3>1, <3>2
  <2>3. IsWay(v, m + 1)
    <3>1. v = [k \in 0..(m + 1) |-> v[k]]
      OBVIOUS
    <3> HIDE DEF v, P
    <3> QED BY <2>2, <3>1
  <2> HIDE DEF IsWay, v
  <2>4. m + 1 \in Nat
    OBVIOUS
  <2> QED BY <2>3, <2>4
<1>3. PICK w : IsWay(w, n)
  <2>1. Nat \subseteq P
    <3> HIDE DEF P
    <3> QED BY <1>1, <1>2, EveryNumber
  <2> HIDE DEF IsWay
  <2> QED BY <2>1
<1> DEFINE only == CHOOSE u : IsWay(u, n)
<1>4. IsWay(only, n)
  <2> HIDE DEF IsWay
  <2> QED BY <1>3
<1>5. Only(s, S) = only[n]
  BY Zenon DEF Only
<1> HIDE DEF only
<1>6. only[0] = << >> /\ \A k \in 1..n : only[k] = Step(only[k - 1], k)
  <2>1. 0 \in 0..n /\ \A k \in 1..n : k \in 0..n /\ k # 0
    OBVIOUS
  <2> HIDE DEF Step
  <2> QED BY <1>4, <2>1
<1> QED BY <1>5, <1>6

LEMMA OnlyNothing == ASSUME NEW S PROVE Only(<< >>, S) = << >>
<1>1. Len(<< >>) = 0
  BY EmptySeq
<1>2. Len(<< >>) \in Nat
  BY <1>1
<1>3. \E w : Only(<< >>, S) = w[Len(<< >>)] /\ w[0] = << >>
  BY <1>2, OnlyByStep, SMTT(30)
<1> QED BY <1>1, <1>3

(* An element more behind is kept or not, and nothing before it changes.       *)
LEMMA OnlyMore ==
    ASSUME NEW T, NEW s \in Seq(T), NEW e \in T, NEW S
    PROVE  Only(Append(s, e), S) = IF e \in S THEN Append(Only(s, S), e) ELSE Only(s, S)
<1> DEFINE n == Len(s)
           more == Append(s, e)
           Step(x, y) == IF y \in S THEN Append(x, y) ELSE x
<1>1. n \in Nat /\ Len(more) = n + 1 /\ more[n + 1] = e /\ \A i \in 1..n : more[i] = s[i]
  BY LenProperties, AppendProperties
<1> HIDE DEF more, n
<1>2. PICK w : /\ Only(s, S) = w[n] /\ w[0] = << >>
               /\ \A k \in 1..n : w[k] = Step(w[k - 1], s[k])
  BY <1>1, OnlyByStep, SMTT(30) DEF n
<1>3. Len(more) \in Nat
  BY <1>1
<1>4. PICK v : /\ Only(more, S) = v[n + 1] /\ v[0] = << >>
               /\ \A k \in 1..(n + 1) : v[k] = Step(v[k - 1], more[k])
  <2>1. \E v : /\ Only(more, S) = v[Len(more)] /\ v[0] = << >>
               /\ \A k \in 1..Len(more) : v[k] = Step(v[k - 1], more[k])
    BY <1>3, OnlyByStep, SMTT(30)
  <2> HIDE DEF Step
  <2> QED BY <1>1, <2>1
<1> DEFINE P == {k \in Nat : k <= n => v[k] = w[k]}
<1>5. 0 \in P
  BY <1>2, <1>4
<1>6. ASSUME NEW k \in Nat, k \in P PROVE k + 1 \in P
  <2> HIDE DEF Step
  <2> SUFFICES ASSUME k + 1 <= n PROVE v[k + 1] = w[k + 1]
    OBVIOUS
  <2>1. k + 1 \in 1..n /\ k + 1 \in 1..(n + 1) /\ (k + 1) - 1 = k /\ k <= n
    BY <1>1
  <2>2. v[k] = w[k] /\ more[k + 1] = s[k + 1]
    BY <1>1, <1>6, <2>1
  <2>3. v[k + 1] = Step(v[k], more[k + 1]) /\ w[k + 1] = Step(w[k], s[k + 1])
    BY <1>2, <1>4, <2>1
  <2> QED BY <2>2, <2>3
<1>7. v[n] = w[n]
  <2>1. Nat \subseteq P
    <3> HIDE DEF P
    <3> QED BY <1>5, <1>6, EveryNumber
  <2> QED BY <1>1, <2>1
<1>8. v[n + 1] = Step(v[n], e)
  <2> HIDE DEF Step
  <2>1. n + 1 \in 1..(n + 1) /\ (n + 1) - 1 = n
    BY <1>1
  <2> QED BY <1>1, <1>4, <2>1
<1> QED BY <1>2, <1>4, <1>7, <1>8 DEF more

(* What is kept is in the set, is all of the sequence that is in it, and a     *)
(* sequence that names nothing twice keeps it so.                              *)
LEMMA OnlyTyped ==
    ASSUME NEW T, NEW s \in Seq(T), NEW S
    PROVE  Only(s, S) \in Seq(T \cap S) /\ Only(s, S) \in Seq(T)
<1> DEFINE P == {u \in Seq(T) : Only(u, S) \in Seq(T \cap S)}
<1>1. << >> \in P
  BY OnlyNothing, EmptySeq
<1>2. ASSUME NEW u \in Seq(T), NEW e \in T, u \in P PROVE Append(u, e) \in P
  <2>1. Append(u, e) \in Seq(T) /\ Only(Append(u, e), S) = IF e \in S THEN Append(Only(u, S), e) ELSE Only(u, S)
    BY OnlyMore, AppendProperties
  <2>2. e \in S => Append(Only(u, S), e) \in Seq(T \cap S)
    BY <1>2, AppendProperties
  <2> QED BY <1>2, <2>1, <2>2
<1>3. Only(s, S) \in Seq(T \cap S)
  <2> HIDE DEF P
  <2>1. Seq(T) \subseteq P
    BY <1>1, <1>2, EverySequence
  <2> QED BY <2>1 DEF P
<1>4. Only(s, S) \in Seq(T)
  BY <1>3, SeqMonotonic
<1> QED BY <1>3, <1>4

LEMMA OnlyRange ==
    ASSUME NEW T, NEW s \in Seq(T), NEW S
    PROVE  /\ Range(Only(s, S)) = Range(s) \cap S
           /\ IsInjective(s) => IsInjective(Only(s, S))
<1> DEFINE P == {u \in Seq(T) : Range(Only(u, S)) = Range(u) \cap S
                                /\ (IsInjective(u) => IsInjective(Only(u, S)))}
<1>1. << >> \in P
  <2>1. Range(<< >>) = {} /\ Only(<< >>, S) = << >> /\ << >> \in Seq(T)
    BY OnlyNothing, EmptySeq DEF Range
  <2> QED BY <2>1
<1>2. ASSUME NEW u \in Seq(T), NEW e \in T, u \in P PROVE Append(u, e) \in P
  <2> DEFINE o == Only(u, S)
             v == Append(u, e)
  <2>1. o \in Seq(T) /\ v \in Seq(T) /\ Only(v, S) = IF e \in S THEN Append(o, e) ELSE o
    BY OnlyMore, AppendProperties, OnlyTyped
  <2>2. Range(v) = Range(u) \cup {e}
    BY RangeOfAppend
  <2>3. /\ Range(Append(o, e)) = Range(o) \cup {e}
        /\ IsInjective(o) /\ e \notin Range(o) => IsInjective(Append(o, e))
    BY <2>1, RangeOfAppend
  <2>4. IsInjective(v) => IsInjective(u) /\ e \notin Range(u)
    <3> SUFFICES ASSUME IsInjective(v) PROVE IsInjective(u) /\ e \notin Range(u)
      OBVIOUS
    <3>1. /\ Len(u) \in Nat /\ DOMAIN u = 1..Len(u) /\ DOMAIN v = 1..(Len(u) + 1)
          /\ \A i \in 1..Len(u) : v[i] = u[i] /\ i \in 1..(Len(u) + 1) /\ i # Len(u) + 1
          /\ v[Len(u) + 1] = e /\ Len(u) + 1 \in 1..(Len(u) + 1)
      BY LenProperties, AppendProperties, <2>1
    <3> HIDE DEF v
    <3> QED BY <3>1 DEF IsInjective, Range
  <2>5. Range(o) = Range(u) \cap S /\ (IsInjective(u) => IsInjective(o))
    BY <1>2
  <2>6. Range(Only(v, S)) = Range(v) \cap S
    <3> HIDE DEF o, v
    <3> QED BY <2>1, <2>2, <2>3, <2>5
  <2>7. IsInjective(v) => IsInjective(Only(v, S))
    <3> HIDE DEF o, v
    <3> QED BY <2>1, <2>3, <2>4, <2>5
  <2> QED BY <2>1, <2>6, <2>7
<1> HIDE DEF P
<1>3. Seq(T) \subseteq P
  BY <1>1, <1>2, EverySequence
<1> QED BY <1>3 DEF P

(* A sequence of members is kept whole, and two sequences are kept one after   *)
(* the other.                                                                  *)
LEMMA OnlyAll == ASSUME NEW T, NEW s \in Seq(T), NEW S, T \subseteq S PROVE Only(s, S) = s
<1> DEFINE P == {u \in Seq(T) : Only(u, S) = u}
<1>1. << >> \in P
  BY OnlyNothing, EmptySeq
<1>2. ASSUME NEW u \in Seq(T), NEW e \in T, u \in P PROVE Append(u, e) \in P
  BY <1>2, OnlyMore, AppendProperties
<1> HIDE DEF P
<1>3. Seq(T) \subseteq P
  BY <1>1, <1>2, EverySequence
<1> QED BY <1>3 DEF P

LEMMA OnlyOfBoth ==
    ASSUME NEW T, NEW s \in Seq(T), NEW t \in Seq(T), NEW S
    PROVE  Only(s \o t, S) = Only(s, S) \o Only(t, S)
<1> DEFINE P == {u \in Seq(T) : Only(s \o u, S) = Only(s, S) \o Only(u, S)}
<1>0. Only(s, S) \in Seq(T)
  BY OnlyTyped
<1>1. << >> \in P
  BY <1>0, OnlyNothing, EmptySeq, ConcatEmptySeq
<1>2. ASSUME NEW u \in Seq(T), NEW e \in T, u \in P PROVE Append(u, e) \in P
  <2> DEFINE o == Only(u, S)
             a == Only(s, S)
  <2>0. <<e>> \in Seq(T)
    OBVIOUS
  <2>1. o \in Seq(T) /\ a \in Seq(T) /\ s \o u \in Seq(T) /\ Append(u, e) \in Seq(T) /\ <<e>> \in Seq(T)
    BY <2>0, OnlyTyped, ConcatProperties, AppendProperties
  <2>2. s \o Append(u, e) = Append(s \o u, e)
    BY AppendBehind
  <2>3. a \o Append(o, e) = Append(a \o o, e)
    <3> HIDE DEF a, o
    <3> QED BY <2>1, AppendBehind
  <2>4. Only(Append(s \o u, e), S) = IF e \in S THEN Append(Only(s \o u, S), e) ELSE Only(s \o u, S)
    BY <2>1, OnlyMore
  <2>5. Only(Append(u, e), S) = IF e \in S THEN Append(o, e) ELSE o
    BY OnlyMore
  <2>6. Only(s \o u, S) = a \o o
    BY <1>2
  <2>7. Only(s \o Append(u, e), S) = a \o Only(Append(u, e), S)
    <3> HIDE DEF a, o
    <3> QED BY <2>2, <2>3, <2>4, <2>5, <2>6
  <2> QED BY <2>1, <2>7
<1> HIDE DEF P
<1>3. Seq(T) \subseteq P
  BY <1>1, <1>2, EverySequence
<1> QED BY <1>3 DEF P

(* The files of a list of names, one after the other.                          *)
Flat(f, names) == FlattenSeq([i \in DOMAIN names |-> f[names[i]]])

LEMMA FlatMore ==
    ASSUME NEW T, NEW S, NEW f \in [T -> Seq(S)], NEW names \in Seq(T), NEW a \in T
    PROVE  /\ Flat(f, Append(names, a)) = Flat(f, names) \o f[a]
           /\ Flat(f, << >>) = << >>
<1> DEFINE n == Len(names)
           more == Append(names, a)
           x == [i \in DOMAIN names |-> f[names[i]]]
           y == [i \in DOMAIN more |-> f[more[i]]]
<1>1. /\ n \in Nat /\ DOMAIN names = 1..n /\ more \in Seq(T) /\ Len(more) = n + 1 /\ more[n + 1] = a
      /\ \A i \in 1..n : more[i] = names[i] /\ names[i] \in T
  BY LenProperties, AppendProperties, ElementOfSeq
<1>2. DOMAIN more = 1..(n + 1)
  BY <1>1, LenProperties
<1> HIDE DEF more, n
<1>3. x \in Seq(Seq(S)) /\ Len(x) = n /\ \A i \in 1..n : x[i] = f[names[i]]
  <2>1. x \in [1..n -> Seq(S)]
    BY <1>1
  <2> QED BY <1>1, <2>1, SeqDef
<1>4. y \in Seq(Seq(S)) /\ Len(y) = n + 1 /\ \A i \in 1..(n + 1) : y[i] = f[more[i]]
  <2>1. \A i \in 1..(n + 1) : more[i] \in T
    BY <1>1, ElementOfSeq
  <2>2. y \in [1..(n + 1) -> Seq(S)] /\ n + 1 \in Nat
    BY <1>1, <1>2, <2>1
  <2>3. y \in Seq(Seq(S))
    <3>1. \E m \in Nat : y \in [1..m -> Seq(S)]
      BY <2>2
    <3> HIDE DEF y
    <3> QED BY <3>1, SeqDef
  <2>4. Len(y) = n + 1
    <3>1. DOMAIN y = 1..Len(y) /\ Len(y) \in Nat
      BY <2>3, LenProperties
    <3> QED BY <1>1, <2>2, <3>1
  <2> QED BY <1>2, <2>3, <2>4
<1> HIDE DEF x, y
<1>5. y = Append(x, f[a])
  <2> DEFINE z == Append(x, f[a])
  <2>1. /\ z \in Seq(Seq(S)) /\ Len(z) = n + 1 /\ z[n + 1] = f[a]
        /\ \A i \in 1..n : z[i] = x[i]
    BY <1>3, AppendProperties
  <2> HIDE DEF z
  <2>2. \A i \in 1..(n + 1) : y[i] = z[i]
    <3> TAKE i \in 1..(n + 1)
    <3>1. i \in 1..n \/ i = n + 1
      BY <1>1
    <3> QED BY <1>1, <1>3, <1>4, <2>1, <3>1
  <2>3. y = z
    BY <1>4, <2>1, <2>2, SeqEqual
  <2> QED BY <2>3 DEF z
<1>6. FlattenSeq(y) = FlattenSeq(x) \o f[a]
  BY <1>3, <1>5, FlattenMore
<1>7. Flat(f, << >>) = << >>
  <2>1. [i \in DOMAIN << >> |-> f[<< >>[i]]] = << >>
    OBVIOUS
  <2> QED BY <2>1, FlattenNothing DEF Flat
<1> QED BY <1>6, <1>7 DEF Flat, x, y, more

(* Files hold segments, and so does what is put together from them.            *)
LEMMA FlatTyped ==
    ASSUME NEW T, NEW S, NEW f \in [T -> Seq(S)], NEW names \in Seq(T)
    PROVE  Flat(f, names) \in Seq(S)
<1> DEFINE P == {u \in Seq(T) : Flat(f, u) \in Seq(S)}
<1>1. << >> \in P
  <2>1. << >> \in Seq(T) /\ << >> \in Seq(S)
    BY EmptySeq
  <2>2. T = {} \/ \E a \in T : TRUE
    OBVIOUS
  <2>3. Flat(f, << >>) = << >>
    <3>1. [i \in DOMAIN << >> |-> f[<< >>[i]]] = << >>
      OBVIOUS
    <3> QED BY <3>1, FlattenNothing DEF Flat
  <2> QED BY <2>1, <2>3
<1>2. ASSUME NEW u \in Seq(T), NEW a \in T, u \in P PROVE Append(u, a) \in P
  <2>1. Flat(f, Append(u, a)) = Flat(f, u) \o f[a] /\ Append(u, a) \in Seq(T)
    BY FlatMore, AppendProperties
  <2>2. Flat(f, u) \o f[a] \in Seq(S)
    BY <1>2, ConcatProperties
  <2> QED BY <2>1, <2>2
<1> HIDE DEF P
<1>3. Seq(T) \subseteq P
  BY <1>1, <1>2, EverySequence
<1> QED BY <1>3 DEF P

(* Files of one segment each, as they were at first.                           *)
First(t) == <<<<t, 0>>>>
Starts(names) == [i \in DOMAIN names |-> <<names[i], 0>>]

LEMMA FlatFresh ==
    ASSUME NEW T, NEW f \in [T -> Seq(T \X Nat)], NEW R, R \subseteq T,
           \A a \in R : f[a] = First(a), NEW names \in Seq(R)
    PROVE  Flat(f, names) = Starts(names)
<1> DEFINE W(u) == [i \in DOMAIN u |-> <<u[i], 0>>]
           P == {u \in Seq(R) : Flat(f, u) = W(u)}
<1>1. << >> \in P
  <2>1. << >> \in Seq(R) /\ W(<< >>) = << >>
    OBVIOUS
  <2>3. Flat(f, << >>) = << >>
    <3>1. [i \in DOMAIN << >> |-> f[<< >>[i]]] = << >>
      OBVIOUS
    <3> QED BY <3>1, FlattenNothing DEF Flat
  <2> QED BY <2>1, <2>3
<1>2. ASSUME NEW u \in Seq(R), NEW a \in R, u \in P PROVE Append(u, a) \in P
  <2>0. u \in Seq(T) /\ Append(u, a) \in Seq(R)
    BY SeqMonotonic, AppendProperties
  <2>1. Flat(f, Append(u, a)) = W(u) \o <<<<a, 0>>>>
    <3>1. a \in T /\ f[a] = <<<<a, 0>>>> /\ Flat(f, u) = W(u)
      BY <1>2 DEF First
    <3>2. Flat(f, Append(u, a)) = Flat(f, u) \o f[a]
      <4> DEFINE S == T \X Nat
      <4>1. f \in [T -> Seq(S)]
        OBVIOUS
      <4> HIDE DEF S, P, W
      <4> QED BY <2>0, <3>1, <4>1, FlatMore, ZenonT(60)
    <3> QED BY <3>1, <3>2
  <2> DEFINE n == Len(u)
             more == Append(u, a)
             x == W(u)
             y == W(more)
             e == <<a, 0>>
  <2>2. /\ n \in Nat /\ DOMAIN u = 1..n /\ Len(more) = n + 1 /\ more[n + 1] = a /\ DOMAIN more = 1..(n + 1)
        /\ \A i \in 1..n : more[i] = u[i] /\ u[i] \in R
    BY <2>0, LenProperties, AppendProperties, ElementOfSeq
  <2> HIDE DEF more, n
  <2>3. x \in Seq(T \X Nat) /\ Len(x) = n /\ \A i \in 1..n : x[i] = <<u[i], 0>>
    <3>1. x \in [1..n -> T \X Nat]
      BY <2>2
    <3> QED BY <2>2, <3>1, SeqDef
  <2>4. y \in Seq(T \X Nat) /\ Len(y) = n + 1 /\ \A i \in 1..(n + 1) : y[i] = <<more[i], 0>>
    <3>1. \A i \in 1..(n + 1) : more[i] \in T
      <4> TAKE i \in 1..(n + 1)
      <4>1. i \in 1..n \/ i = n + 1
        BY <2>2
      <4>2. \A j \in 1..n : more[j] \in R
        BY <2>2
      <4>3. more[n + 1] \in R
        BY <2>2
      <4> QED BY <4>1, <4>2, <4>3
    <3>2. y \in [1..(n + 1) -> T \X Nat] /\ n + 1 \in Nat
      BY <2>2, <3>1
    <3> QED BY <2>2, <3>2, SeqDef
  <2>5. e \in T \X Nat
    OBVIOUS
  <2> HIDE DEF x, y, e
  <2>6. y = x \o <<e>>
    <3> DEFINE z == Append(x, e)
    <3>1. /\ z \in Seq(T \X Nat) /\ Len(z) = n + 1 /\ z[n + 1] = e
          /\ \A i \in 1..n : z[i] = x[i]
      BY <2>3, <2>5, AppendProperties
    <3>4. z = x \o <<e>>
      BY <2>3, <2>5, AppendIsConcat
    <3> HIDE DEF z
    <3>2. \A i \in 1..(n + 1) : y[i] = z[i]
      <4> TAKE i \in 1..(n + 1)
      <4>1. i \in 1..n \/ i = n + 1
        BY <2>2
      <4>2. CASE i \in 1..n
        BY <2>2, <2>3, <2>4, <3>1, <4>2
      <4>3. CASE i = n + 1
        BY <2>2, <2>4, <3>1, <4>3 DEF e
      <4> QED BY <4>1, <4>2, <4>3
    <3>3. y = z
      BY <2>4, <3>1, <3>2, SeqEqual
    <3> QED BY <3>3, <3>4
  <2>7. Flat(f, more) = y
    BY <2>1, <2>6 DEF x, e, more
  <2> QED BY <2>0, <2>7 DEF y, more
<1> HIDE DEF P
<1>3. Seq(R) \subseteq P
  BY <1>1, <1>2, EverySequence
<1> QED BY <1>3 DEF P, Starts

--------------------------------------------------------------------------------
(* Types of a page and its bundle.                                             *)

LEMMA PageTemplates ==
    ASSUME PagesTyped
    PROVE  /\ template \in Seq(Assets) /\ IsInjective(template) /\ Range(template) \subseteq Assets
           /\ Bundle \in Assets /\ Bundle \notin Excluded /\ Bundle # External
<1>1. template \in Templates /\ template \in Seq(STRING) /\ IsInjective(template)
  BY PageAssumption DEF PagesTyped
<1>2. Range(template) \subseteq Assets /\ Bundle \in Assets /\ Bundle \notin Excluded
  <2>1. Range(template) \in {Range(t) : t \in Templates}
    BY <1>1, Zenon
  <2>2. Range(template) \subseteq UNION {Range(t) : t \in Templates}
    BY <2>1, Zenon
  <2>3. Excluded \subseteq Assets \ {Bundle, External, Missing}
    BY PageAssumption
  <2> DEFINE U == UNION {Range(t) : t \in Templates}
  <2>0. Assets = {Bundle} \cup U
    BY Zenon DEF Assets
  <2> HIDE DEF U
  <2>4. Range(template) \subseteq Assets /\ Bundle \in Assets
    BY <2>0, <2>2, Zenon DEF U
  <2> QED BY <2>3, <2>4
<1>3. template \in Seq(Range(template))
  BY <1>1, SeqOfRange
<1>4. template \in Seq(Assets)
  BY <1>2, <1>3, SeqMonotonic
<1> QED BY <1>1, <1>2, <1>4 DEF Bundle, External

(* What is merged: what the template names, in its order and nothing twice.    *)
LEMMA LocalAssets ==
    ASSUME PagesTyped
    PROVE  /\ Locals \in Seq(Local) /\ Locals \in Seq(Assets) /\ IsInjective(Locals) /\ Range(Locals) = Local
           /\ Local \subseteq Range(template) /\ Local \subseteq Assets /\ External \notin Local
<1>1. Local \subseteq Range(template) /\ External \notin Local
  BY DEF Local
<1>2. Locals \in Seq(Assets \cap Local) /\ Locals \in Seq(Assets)
  BY PageTemplates, OnlyTyped DEF Locals
<1>3. Range(Locals) = Range(template) \cap Local /\ IsInjective(Locals)
  BY PageTemplates, OnlyRange DEF Locals
<1>4. Locals \in Seq(Local)
  BY <1>2, SeqMonotonic
<1> QED BY <1>1, <1>2, <1>3, <1>4, PageTemplates

LEMMA ContentsTyped ==
    ASSUME PagesTyped, NEW names \in Seq(Assets)
    PROVE  Contents(names) = Flat(files, names) /\ Contents(names) \in Content
<1> DEFINE S == Assets \X Nat
<1>1. files \in [Assets -> Seq(S)]
  BY DEF PagesTyped, Content
<1> HIDE DEF S
<1>2. Flat(files, names) \in Seq(S)
  BY <1>1, FlatTyped
<1> QED BY <1>2 DEF Flat, Contents, Content, S

(* A bundle is a content, whichever way it is merged.                          *)
LEMMA MergedTyped == ASSUME PagesTyped PROVE Merged \in Content
<1> DEFINE place == CHOOSE i \in DOMAIN Locals : Locals[i] = Bundle
           before == Contents(SubSeq(Locals, 1, place - 1))
<1>1. Locals \in Seq(Assets) /\ files[Bundle] \in Content
  BY LocalAssets, PageTemplates DEF PagesTyped
<1>2. CASE kind = "css" \/ Bundle \notin Range(Locals)
  BY <1>1, <1>2, ContentsTyped DEF Merged
<1>3. CASE ~(kind = "css" \/ Bundle \notin Range(Locals))
  <2>1. place \in DOMAIN Locals
    BY <1>3 DEF Range
  <2>2. SubSeq(Locals, 1, place - 1) \in Seq(Assets)
    <3> HIDE DEF place
    <3>1. DOMAIN Locals = 1..Len(Locals) /\ Len(Locals) \in Nat
      BY <1>1, LenProperties
    <3>2. place - 1 \in 0..Len(Locals) /\ 1 \in 1..(Len(Locals) + 1)
      BY <2>1, <3>1
    <3> QED BY <1>1, <3>2, PartOf
  <2>3. before \in Content
    BY <2>2, ContentsTyped
  <2>4. Merged = files[Bundle] \/ Merged = before \o files[Bundle]
    BY <1>3, Zenon DEF Merged
  <2> HIDE DEF before
  <2>5. before \o files[Bundle] \in Content
    BY <1>1, <2>3, ConcatInSeq DEF Content
  <2> QED BY <1>1, <2>4, <2>5
<1> QED BY <1>2, <1>3

(* One of the tags of a merged page names the bundle, the others lead away.    *)
IsMerged(html) == \E b \in DOMAIN html : \A i \in DOMAIN html : html[i] = IF i = b THEN Bundle ELSE External

LEMMA TagsMerged ==
    ASSUME PagesTyped
    PROVE  /\ MergedTags \in Seq(Assets)
           /\ Locals = << >> => MergedTags = template
           /\ Locals # << >> => IsMerged(MergedTags)
<1> DEFINE first == CHOOSE i \in DOMAIN template :
                      template[i] # External /\ \A j \in 1..(i - 1) : template[j] = External
           l == Len(template)
           x == SubSeq(template, 1, first - 1)
           rest == SubSeq(template, first + 1, l)
           y == Only(rest, {External})
           z == (x \o <<Bundle>>) \o y
<1>0. template \in Seq(Assets) /\ l \in Nat /\ DOMAIN template = 1..l /\ \A i \in 1..l : template[i] \in Assets
  BY PageTemplates, LenProperties, ElementOfSeq
<1>1. CASE Locals = << >>
  BY <1>0, <1>1 DEF MergedTags
<1>2. CASE Locals # << >>
  <2>1. MergedTags = z
    BY <1>2, Zenon DEF MergedTags
  <2>2. first \in 1..l /\ \A j \in 1..(first - 1) : template[j] = External
    <3>1. Locals[1] \in Local
      <4>1. 1 \in 1..Len(Locals)
        BY <1>2, LocalAssets, EmptySeq
      <4> QED BY <4>1, LocalAssets, ElementOfSeq
    <3>2. \E i \in 1..l : template[i] # External
      <4>1. Locals[1] \in Range(template) /\ Locals[1] # External
        BY <3>1, LocalAssets
      <4> QED BY <1>0, <4>1 DEF Range
    <3> DEFINE Q == {i \in 1..l : template[i] # External}
    <3>3. PICK m \in Q : \A k \in Q : m <= k
      <4>1. Q \in SUBSET Nat /\ Q # {}
        BY <1>0, <3>2
      <4> HIDE DEF Q
      <4> QED BY <4>1, LeastNumber
    <3>4. \A j \in 1..(m - 1) : template[j] = External
      <4> SUFFICES ASSUME NEW j \in 1..(m - 1), template[j] # External PROVE FALSE
        OBVIOUS
      <4>1. j \in 1..l /\ ~(m <= j)
        BY <1>0, <3>3
      <4> QED BY <3>3, <4>1
    <3>5. \E i \in DOMAIN template : template[i] # External /\ \A j \in 1..(i - 1) : template[j] = External
      BY <1>0, <3>3, <3>4
    <3> QED BY <1>0, <3>5
  <2> HIDE DEF first, l
  <2>3. x \in Seq(Assets) /\ Len(x) = first - 1 /\ \A i \in 1..(first - 1) : x[i] = External
    <3>1. 1 \in Int /\ first - 1 \in Int /\ \A i \in 1..(first - 1) : template[i] \in Assets
      BY <1>0, <2>2
    <3>2. /\ x \in Seq(Assets) /\ Len(x) = IF 1 <= first - 1 THEN first - 1 - 1 + 1 ELSE 0
          /\ \A i \in 1..(first - 1 - 1 + 1) : x[i] = template[1 + i - 1]
      BY <3>1, SubSeqProperties
    <3> HIDE DEF x
    <3>3. Len(x) = first - 1
      BY <1>0, <2>2, <3>2
    <3>4. \A i \in 1..(first - 1) : x[i] = template[i]
      <4> TAKE i \in 1..(first - 1)
      <4>1. i \in 1..(first - 1 - 1 + 1) /\ 1 + i - 1 = i
        BY <1>0, <2>2
      <4> QED BY <3>2, <4>1
    <3> QED BY <2>2, <3>2, <3>3, <3>4
  <2>4. rest \in Seq(Assets)
    <3>1. first + 1 \in 1..(l + 1) /\ l \in 0..l
      BY <1>0, <2>2
    <3> QED BY <1>0, <3>1, PartOf DEF l
  <2> HIDE DEF rest
  <2>5. y \in Seq(Assets) /\ Len(y) \in Nat /\ \A i \in 1..Len(y) : y[i] = External
    <3>1. y \in Seq(Assets) /\ y \in Seq(Assets \cap {External})
      BY <2>4, OnlyTyped
    <3> HIDE DEF y
    <3> QED BY <3>1, LenProperties, ElementOfSeq
  <2> HIDE DEF x, y
  <2> DEFINE c == x \o <<Bundle>>
  <2>6. /\ c \in Seq(Assets) /\ Len(c) = first
        /\ \A i \in 1..first : c[i] = IF i = first THEN Bundle ELSE External
    <3>1. <<Bundle>> \in Seq(Assets)
      BY PageTemplates
    <3>2. c \in Seq(Assets)
      BY <2>3, <3>1, ConcatInSeq
    <3>3. Len(c) = first /\ c[first] = Bundle /\ \A i \in 1..(first - 1) : c[i] = x[i]
      <4>1. Bundle \in Assets /\ first \in Nat /\ first = Len(x) + 1
        BY <1>0, <2>2, <2>3, PageTemplates
      <4> QED BY <2>3, <4>1, OneMoreBehind
    <3>4. \A i \in 1..first : i = first \/ i \in 1..(first - 1)
      BY <1>0, <2>2
    <3> HIDE DEF c
    <3> QED BY <2>3, <3>2, <3>3, <3>4
  <2> HIDE DEF c
  <2>7. /\ z \in Seq(Assets) /\ Len(z) = first + Len(y)
        /\ \A i \in 1..(first + Len(y)) : z[i] = IF i <= first THEN c[i] ELSE y[i - first]
    <3>1. z = c \o y
      BY DEF c
    <3> HIDE DEF z
    <3> QED BY <2>5, <2>6, <3>1, ConcatProperties
  <2> HIDE DEF z
  <2>8. DOMAIN z = 1..(first + Len(y))
    BY <2>7, LenProperties
  <2>9. first \in 1..(first + Len(y)) /\ first \in Nat
    BY <1>0, <2>2, <2>5
  <2>10. ASSUME NEW i \in 1..(first + Len(y)) PROVE z[i] = IF i = first THEN Bundle ELSE External
    <3>1. CASE i <= first
      <4>1. i \in 1..first
        BY <2>9, <3>1
      <4> QED BY <2>6, <2>7, <3>1, <4>1
    <3>2. CASE ~(i <= first)
      <4>1. i - first \in 1..Len(y) /\ i # first
        BY <2>5, <2>9, <3>2
      <4> QED BY <2>5, <2>7, <3>2, <4>1
    <3> QED BY <3>1, <3>2
  <2>11. IsMerged(z)
    BY <2>8, <2>9, <2>10 DEF IsMerged
  <2> QED BY <1>2, <2>1, <2>7, <2>11
<1> QED BY <1>1, <1>2

LEMMA CurrentTyped == ASSUME PagesTyped, NEW a \in Assets PROVE Current(a) \in Content
<1>1. Current(a) = files[a] \/ Current(a) = Merged
  BY DEF Current
<1> QED BY <1>1, MergedTyped DEF PagesTyped

(* The types, initially and after each step.                                   *)
LEMMA PagesInitially == PageInit => PagesTyped
<1> SUFFICES ASSUME PageInit PROVE PagesTyped
  OBVIOUS
<1>1. << >> \in Seq(Assets) /\ << >> \in Content /\ \A a \in Assets : <<<<a, 0>>>> \in Content
  BY DEF Content
<1>2. files \in [Assets -> Content] /\ stored \in [Assets -> Content]
  BY <1>1 DEF PageInit, NoFile
<1> DEFINE F == {Page} \cup (Assets \X {"file", "stored"})
<1>3. time \in [F -> 0..clock] /\ clock \in Nat
  BY DEF PageInit
<1> HIDE DEF F
<1>4. /\ at \in [Sessions -> {"start", "saveBundle", "savePage", "fetch", "saveStored", "keep", "done"}]
      /\ tags \in [Sessions -> Seq(Assets)] /\ left \in [Sessions -> Seq(Assets)]
      /\ ran \in [Sessions -> Content] /\ building \in [Sessions -> Content]
  BY <1>1 DEF PageInit, NoFile
<1>5. page \in Seq(Assets) /\ memory \in Content /\ template \in Templates
  BY <1>1 DEF PageInit, NoFile
<1>6. kind \in {"js", "css"} /\ development \in BOOLEAN /\ languages \in BOOLEAN /\ obfuscate \in BOOLEAN /\ caching \in BOOLEAN
  BY DEF PageInit
<1>7. changes \in Nat /\ overtaken \in BOOLEAN
  BY DEF PageInit
<1>8. keptText \in [Assets -> Content] /\ keptTime \in [Assets -> 0..clock]
  BY <1>1 DEF PageInit, NoFile
<1> QED BY <1>2, <1>3, <1>4, <1>5, <1>6, <1>7, <1>8 DEF PagesTyped, F

Places == {"start", "saveBundle", "savePage", "fetch", "saveStored", "keep", "done"}
Stamped == {Page} \cup (Assets \X {"file", "stored"})

LEMMA StampTyped ==
    ASSUME time \in [Stamped -> 0..clock], clock \in Nat, NEW f, Stamp(f)
    PROVE  time' \in [Stamped -> 0..clock'] /\ clock' \in Nat
<1>1. clock' = clock + 1 /\ time' = [time EXCEPT ![f] = clock + 1]
  BY DEF Stamp
<1>2. \A t \in 0..clock : t \in 0..(clock + 1)
  OBVIOUS
<1>3. time' \in [Stamped -> 0..(clock + 1)]
  <2>1. time' = [g \in Stamped |-> IF g = f THEN clock + 1 ELSE time[g]]
    BY <1>1
  <2>2. clock + 1 \in 0..(clock + 1)
    OBVIOUS
  <2> QED BY <1>2, <2>1, <2>2
<1> QED BY <1>1, <1>3

LEMMA PagesStep == PagesTyped /\ [PageNext]_pageVars => PagesTyped'
<1> SUFFICES ASSUME PagesTyped, [PageNext]_pageVars PROVE PagesTyped'
  OBVIOUS
<1> USE DEF Put
<1>0. /\ kind \in {"js", "css"} /\ development \in BOOLEAN /\ languages \in BOOLEAN /\ obfuscate \in BOOLEAN
      /\ caching \in BOOLEAN /\ keptText \in [Assets -> Content] /\ keptTime \in [Assets -> 0..clock]
      /\ template \in Templates /\ files \in [Assets -> Content] /\ page \in Seq(Assets)
      /\ stored \in [Assets -> Content] /\ memory \in Content
      /\ time \in [Stamped -> 0..clock]
      /\ clock \in Nat /\ changes \in Nat /\ overtaken \in BOOLEAN
      /\ at \in [Sessions -> Places]
      /\ tags \in [Sessions -> Seq(Assets)] /\ left \in [Sessions -> Seq(Assets)]
      /\ ran \in [Sessions -> Content] /\ building \in [Sessions -> Content]
  BY DEF PagesTyped, Places, Stamped
<1> DEFINE Config == /\ kind' \in {"js", "css"} /\ development' \in BOOLEAN
                     /\ languages' \in BOOLEAN /\ obfuscate' \in BOOLEAN /\ caching' \in BOOLEAN
           Author == /\ template' \in Templates /\ files' \in [Assets -> Content]
                     /\ changes' \in Nat /\ overtaken' \in BOOLEAN
           Written == /\ page' \in Seq(Assets) /\ stored' \in [Assets -> Content] /\ memory' \in Content
           Clocks == time' \in [Stamped -> 0..clock'] /\ clock' \in Nat
           Kept == keptText' \in [Assets -> Content] /\ keptTime' \in [Assets -> 0..clock']
           Browser == /\ at' \in [Sessions -> Places]
                      /\ tags' \in [Sessions -> Seq(Assets)] /\ left' \in [Sessions -> Seq(Assets)]
                      /\ ran' \in [Sessions -> Content] /\ building' \in [Sessions -> Content]
<1>1. template \in Seq(Assets) /\ MergedTags \in Seq(Assets) /\ Merged \in Content
  BY PageTemplates, TagsMerged, MergedTyped
<1>3. ASSUME UNCHANGED textCache, clock' = clock \/ (\E f : Stamp(f)) PROVE Kept
  <2>1. clock' \in Nat /\ \A t \in 0..clock : t \in 0..clock'
    BY <1>0, <1>3 DEF Stamp
  <2>2. keptTime' \in [Assets -> 0..clock']
    BY <1>0, <1>3, <2>1 DEF textCache
  <2> QED BY <1>0, <1>3, <2>2 DEF textCache
<1>4. ASSUME NEW s \in Sessions, Load(s) PROVE Kept
  <2>1. CASE OpenPage(s)
    BY <1>3, <2>1 DEF OpenPage, onDisk
  <2>2. CASE SaveBundle(s)
    BY <1>3, <2>2 DEF SaveBundle
  <2>3. CASE SavePage(s)
    BY <1>3, <2>3 DEF SavePage
  <2>4. CASE Fetch(s)
    <3> DEFINE a == Head(left[s])
    <3>1. UNCHANGED textCache \/ (keptText' = [keptText EXCEPT ![a] = NoFile] /\ keptTime' = keptTime)
      BY <2>4 DEF Fetch, textCache
    <3>2. clock' = clock
      BY <2>4 DEF Fetch, onDisk
    <3>3. NoFile \in Content
      BY DEF NoFile, Content
    <3> HIDE DEF a, Kept
    <3>4. CASE UNCHANGED textCache
      BY <1>3, <3>2, <3>4
    <3>5. CASE keptText' = [keptText EXCEPT ![a] = NoFile] /\ keptTime' = keptTime
      BY <1>0, <3>2, <3>3, <3>5 DEF Kept
    <3> QED BY <3>1, <3>4, <3>5
  <2>5. CASE SaveStored(s)
    BY <1>3, <2>5 DEF SaveStored
  <2>6. CASE Keep(s)
    <3> DEFINE a == Fetched(s)
    <3>1. /\ keptText' = [keptText EXCEPT ![a] = IF files[a] = NoFile THEN NoFile ELSE building[s]]
          /\ keptTime' = [keptTime EXCEPT ![a] = time[<<a, "file">>]] /\ clock' = clock
      BY <2>6 DEF Keep, onDisk
    <3>2. NoFile \in Content /\ building[s] \in Content
      BY <1>0 DEF NoFile, Content
    <3>3. a \in Assets => time[<<a, "file">>] \in 0..clock
      <4>1. a \in Assets => <<a, "file">> \in Stamped
        BY DEF Stamped
      <4> QED BY <1>0, <4>1
    <3> HIDE DEF a
    <3> QED BY <1>0, <3>1, <3>2, <3>3
  <2>7. CASE Finish(s)
    BY <1>3, <2>7 DEF Finish, onDisk
  <2> HIDE DEF Kept
  <2> QED BY <1>4, <2>1, <2>2, <2>3, <2>4, <2>5, <2>6, <2>7 DEF Load
<1>5. ASSUME \/ \E a : EditAsset(a)
             \/ EditTemplate \/ UNCHANGED pageVars
      PROVE  Kept
  <2>1. UNCHANGED textCache /\ (clock' = clock \/ \E f : Stamp(f))
    BY <1>5 DEF EditAsset, EditTemplate, Edits, pageVars, onDisk
  <2> HIDE DEF Kept
  <2> QED BY <1>3, <2>1
<1>2. Config /\ Author /\ Written /\ Clocks /\ Browser
  <2>1. ASSUME NEW s \in Sessions, OpenPage(s) PROVE Config /\ Author /\ Written /\ Clocks /\ Browser
    <3>1. Config /\ Author /\ Clocks
      BY <1>0, <2>1 DEF OpenPage, config, onDisk
    <3>2. ASSUME NEW html \in Seq(Assets), Receive(s, html) PROVE Browser
      BY <1>0, <3>2 DEF Receive, Places
    <3>3. Browser
      <4>1. CASE ~languages
        <5>1. Receive(s, template)
          BY <2>1, <4>1 DEF OpenPage
        <5> HIDE DEF Browser
        <5> QED BY <1>1, <3>2, <5>1
      <4>2. CASE languages /\ page # NoFile
        <5>1. Receive(s, page)
          BY <2>1, <4>2 DEF OpenPage
        <5> HIDE DEF Browser
        <5> QED BY <1>0, <3>2, <5>1
      <4>3. CASE languages /\ page = NoFile /\ development
        <5>1. Receive(s, MergedTags)
          BY <2>1, <4>3 DEF OpenPage
        <5> HIDE DEF Browser
        <5> QED BY <1>1, <3>2, <5>1
      <4>4. CASE languages /\ page = NoFile /\ ~development
        <5>1. /\ at' = [at EXCEPT ![s] = IF Locals = << >> THEN "savePage" ELSE "saveBundle"]
              /\ tags' = [tags EXCEPT ![s] = MergedTags] /\ building' = [building EXCEPT ![s] = Merged]
              /\ left' = left /\ ran' = ran
          BY <2>1, <4>4 DEF OpenPage
        <5> QED BY <1>0, <1>1, <5>1 DEF Places
      <4> QED BY <4>1, <4>2, <4>3, <4>4
    <3>4. Written
      <4>1. page' = page /\ stored' = stored
        BY <2>1 DEF OpenPage, onDisk
      <4>2. memory' = memory \/ memory' = Merged
        BY <2>1 DEF OpenPage
      <4> QED BY <1>0, <1>1, <4>1, <4>2
    <3> QED BY <3>1, <3>3, <3>4
  <2>2. ASSUME NEW s \in Sessions, SaveBundle(s) PROVE Config /\ Author /\ Written /\ Clocks /\ Browser
    <3>1. Clocks
      BY <1>0, <2>2, StampTyped DEF SaveBundle
    <3>2. Config /\ Written
      BY <1>0, <2>2 DEF SaveBundle, config
    <3>3. Author
      BY <1>0, <2>2 DEF SaveBundle
    <3>4. Browser
      BY <1>0, <2>2 DEF SaveBundle, Places
    <3> QED BY <3>1, <3>2, <3>3, <3>4
  <2>3. ASSUME NEW s \in Sessions, SavePage(s) PROVE Config /\ Author /\ Written /\ Clocks /\ Browser
    <3>1. Config /\ Author /\ Clocks
      BY <1>0, <2>3 DEF SavePage, config
    <3>2. Written
      BY <1>0, <2>3 DEF SavePage
    <3>3. Browser
      BY <1>0, <2>3 DEF SavePage, Receive, Places
    <3> QED BY <3>1, <3>2, <3>3
  <2>4. ASSUME NEW s \in Sessions, Fetch(s) PROVE Config /\ Author /\ Written /\ Clocks /\ Browser
    <3>1. Config /\ Author /\ Written /\ Clocks
      BY <1>0, <2>4 DEF Fetch, config, onDisk
    <3> DEFINE a == Head(left[s])
    <3>2. left[s] # << >> /\ left[s] \in Seq(Assets)
      BY <1>0, <2>4 DEF Fetch
    <3>3. a \in Assets /\ Tail(left[s]) \in Seq(Assets)
      BY <3>2, HeadTailProperties
    <3>4. ASSUME NEW content \in Content, Runs(s, content)
          PROVE  ran' \in [Sessions -> Content] /\ left' \in [Sessions -> Seq(Assets)] /\ tags' = tags
      <4>1. ran[s] \o content \in Content
        BY <1>0, ConcatInSeq DEF Content
      <4> QED BY <1>0, <3>3, <3>4, <4>1 DEF Runs
    <3>5. ASSUME NEW content \in Content, Serves(s, content) PROVE Browser
      BY <1>0, <3>4, <3>5 DEF Serves
    <3> HIDE DEF a
    <3>5a. ASSUME NEW content \in Content, Delivers(s, content) PROVE Browser
      <4>1. CASE caching
        <5>1. Runs(s, content) /\ at' = [at EXCEPT ![s] = "keep"] /\ building' = [building EXCEPT ![s] = content]
          BY <3>5a, <4>1 DEF Delivers
        <5>2. ran' \in [Sessions -> Content] /\ left' \in [Sessions -> Seq(Assets)] /\ tags' = tags
          BY <3>4, <5>1
        <5> QED BY <1>0, <5>1, <5>2 DEF Places
      <4>2. CASE ~caching
        <5> HIDE DEF Browser
        <5> QED BY <3>5, <3>5a, <4>2 DEF Delivers
      <4> QED BY <4>1, <4>2
    <3> HIDE DEF a
    <3>6. \/ a = External /\ Serves(s, <<<<External, 0>>>>)
          \/ Serves(s, memory)
          \/ Serves(s, keptText[a])
          \/ Delivers(s, Current(a))
          \/ Delivers(s, stored[a])
          \/ /\ Runs(s, Current(a)) /\ at' = [at EXCEPT ![s] = "saveStored"]
             /\ building' = [building EXCEPT ![s] = Current(a)]
      <4>1. \/ a = External /\ Serves(s, <<<<External, 0>>>>)
            \/ Serves(s, keptText[a])
            \/ Build(s, a)
        BY <2>4, Zenon DEF Fetch, a
      <4> QED BY <4>1, Zenon DEF Build
    <3>7. Current(a) \in Content /\ stored[a] \in Content /\ memory \in Content /\ keptText[a] \in Content
      BY <1>0, <3>3, CurrentTyped DEF a
    <3>8. Browser
      <4> HIDE DEF Browser
      <4>1. CASE a = External /\ Serves(s, <<<<External, 0>>>>)
        <5>1. <<<<External, 0>>>> \in Content
          BY <3>3, <4>1 DEF Content, a
        <5> QED BY <3>5, <4>1, <5>1
      <4>2. CASE /\ Runs(s, Current(a)) /\ at' = [at EXCEPT ![s] = "saveStored"]
                 /\ building' = [building EXCEPT ![s] = Current(a)]
        <5>1. ran' \in [Sessions -> Content] /\ left' \in [Sessions -> Seq(Assets)] /\ tags' = tags
          BY <3>4, <3>7, <4>2
        <5> QED BY <1>0, <3>7, <4>2, <5>1 DEF Places, Browser
      <4>3. CASE Delivers(s, Current(a)) \/ Delivers(s, stored[a])
        BY <3>5a, <3>7, <4>3
      <4>4. CASE Serves(s, memory) \/ Serves(s, keptText[a])
        BY <3>5, <3>7, <4>4
      <4> QED BY <3>6, <4>1, <4>2, <4>3, <4>4
    <3> QED BY <3>1, <3>8
  <2>5. ASSUME NEW s \in Sessions, SaveStored(s) PROVE Config /\ Author /\ Written /\ Clocks /\ Browser
    <3> DEFINE a == Fetched(s)
    <3>0. stored' = [stored EXCEPT ![a] = building[s]] /\ Stamp(<<a, "stored">>)
      BY <2>5 DEF SaveStored
    <3> HIDE DEF a
    <3>1. Clocks
      BY <1>0, <3>0, StampTyped
    <3>2. Config /\ Author
      BY <1>0, <2>5 DEF SaveStored, config
    <3>3. Written
      BY <1>0, <2>5, <3>0 DEF SaveStored
    <3>4. Browser
      BY <1>0, <2>5 DEF SaveStored, Places
    <3> QED BY <3>1, <3>2, <3>3, <3>4
  <2>6. ASSUME NEW s \in Sessions, Finish(s) PROVE Config /\ Author /\ Written /\ Clocks /\ Browser
    <3>1. Config /\ Author /\ Written /\ Clocks
      BY <1>0, <2>6 DEF Finish, config, onDisk
    <3>2. Browser
      BY <1>0, <2>6 DEF Finish, Places
    <3> QED BY <3>1, <3>2
  <2>6a. ASSUME NEW s \in Sessions, Keep(s) PROVE Config /\ Author /\ Written /\ Clocks /\ Browser
    <3>1. Config /\ Author /\ Written /\ Clocks
      BY <1>0, <2>6a DEF Keep, config, onDisk
    <3>2. Browser
      BY <1>0, <2>6a DEF Keep, Places
    <3> QED BY <3>1, <3>2
  <2>7. ASSUME NEW f, Edits(f) PROVE /\ Config /\ Written /\ Clocks /\ Browser
                                     /\ changes' = changes + 1 /\ changes' \in Nat /\ overtaken' \in BOOLEAN
    <3>1. Clocks
      BY <1>0, <2>7, StampTyped DEF Edits
    <3>2. Config /\ Written /\ Browser
      BY <1>0, <2>7 DEF Edits, config, browser
    <3>3. changes' = changes + 1 /\ changes' \in Nat /\ overtaken' \in BOOLEAN
      BY <1>0, <2>7 DEF Edits
    <3> QED BY <3>1, <3>2, <3>3
  <2>8. ASSUME NEW a \in Assets, EditAsset(a) PROVE Config /\ Author /\ Written /\ Clocks /\ Browser
    <3>1. Edits(<<a, "file">>) /\ files' = [files EXCEPT ![a] = <<<<a, changes + 1>>>>] /\ template' = template
      BY <2>8 DEF EditAsset
    <3>2. <<<<a, changes + 1>>>> \in Content
      BY <1>0 DEF Content
    <3> HIDE DEF Config, Written, Clocks, Browser
    <3>3. /\ Config /\ Written /\ Clocks /\ Browser
          /\ changes' = changes + 1 /\ changes' \in Nat /\ overtaken' \in BOOLEAN
      BY <2>7, <3>1
    <3> QED BY <1>0, <3>1, <3>2, <3>3
  <2>9. ASSUME EditTemplate PROVE Config /\ Author /\ Written /\ Clocks /\ Browser
    <3>1. Edits(Page) /\ template' \in Templates /\ files' = files
      BY <2>9 DEF EditTemplate
    <3> HIDE DEF Config, Written, Clocks, Browser
    <3>2. /\ Config /\ Written /\ Clocks /\ Browser
          /\ changes' = changes + 1 /\ changes' \in Nat /\ overtaken' \in BOOLEAN
      BY <2>7, <3>1
    <3> QED BY <1>0, <3>1, <3>2
  <2>10. ASSUME UNCHANGED pageVars PROVE Config /\ Author /\ Written /\ Clocks /\ Browser
    BY <1>0, <2>10 DEF pageVars, config, onDisk, browser
  <2> HIDE DEF Config, Author, Written, Clocks, Browser
  <2> QED BY <2>1, <2>2, <2>3, <2>4, <2>5, <2>6, <2>6a, <2>8, <2>9, <2>10 DEF PageNext, Load
<1>6. Kept
  BY <1>4, <1>5 DEF PageNext
<1> QED BY <1>2, <1>6 DEF PagesTyped, Places, Stamped

(* Whatever is built, by however many browsers at once, a page is a sequence   *)
(* of asset names, a file is a sequence of segments of assets, no file is newer*)
(* than the clock, and a browser is at one of the places of its load.          *)
THEOREM PagesAreTyped == PageSpec => []PagesTyped
BY PagesInitially, PagesStep, PTL DEF PageSpec

(* A file is fresh when none of its inputs is newer.                           *)
LEMMA FreshIs ==
    PagesTyped => \A a \in Assets, k \in {"file", "stored"} :
                    Fresh(<<a, k>>) <=> \A g \in Inputs(a) : time[g] <= time[<<a, k>>]
<1> SUFFICES ASSUME PagesTyped, NEW a \in Assets, NEW k \in {"file", "stored"}
             PROVE  Fresh(<<a, k>>) <=> \A g \in Inputs(a) : time[g] <= time[<<a, k>>]
  OBVIOUS
<1> DEFINE F == Inputs(a)
           T == {time[f] : f \in F}
<1>1. F # {} /\ F \subseteq Stamped
  <2>1. Range(Locals) \subseteq Assets
    BY LocalAssets
  <2>2. \A b \in Assets : <<b, "file">> \in Stamped
    BY DEF Stamped
  <2>3. Page \in Stamped
    BY DEF Stamped
  <2>4. F = {<<a, "file">>} \/ F = {Page} \cup {<<t, "file">> : t \in Range(Locals)}
    BY DEF Inputs
  <2> HIDE DEF F
  <2> QED BY <2>1, <2>2, <2>3, <2>4
<1>2. time \in [Stamped -> 0..clock] /\ clock \in Nat
  BY DEF PagesTyped, Stamped
<1>3. \E m \in T : \A t \in T : t <= m
  <2> DEFINE U == {n \in 1..(clock + 1) : n - 1 \in T}
  <2>1. \A t \in T : t \in 0..clock
    BY <1>1, <1>2
  <2>2. \A t \in T : t + 1 \in U
    BY <1>2, <2>1
  <2>3. T # {}
    BY <1>1
  <2> HIDE DEF T
  <2>4. U # {} /\ U \in SUBSET (1..(clock + 1)) /\ clock + 1 \in Nat
    BY <1>2, <2>2, <2>3
  <2> HIDE DEF U
  <2>5. PICK m \in U : \A n \in U : m >= n
    BY <2>4, GreatestNumber
  <2>6. m - 1 \in T /\ m \in 1..(clock + 1)
    BY DEF U
  <2>7. \A t \in T : t <= m - 1
    BY <1>2, <2>1, <2>2, <2>5, <2>6
  <2> QED BY <2>6, <2>7
<1> DEFINE n == Newest(F)
<1>4. n \in T /\ \A f \in F : time[f] <= n
  <2>1. \E m \in T : \A f \in F : time[f] <= m
    BY <1>3
  <2>2. n = CHOOSE m \in T : \A f \in F : time[f] <= m
    BY Zenon DEF Newest
  <2> HIDE DEF n, F
  <2> QED BY <2>1, <2>2
<1>5. Fresh(<<a, k>>) <=> time[<<a, k>>] >= n
  BY DEF Fresh
<1>6. <<a, k>> \in Stamped
  BY DEF Stamped
<1>7. PICK f \in F : n = time[f]
  <2> HIDE DEF n, F
  <2> QED BY <1>4
<1> HIDE DEF n, F
<1>8. time[<<a, k>>] \in 0..clock /\ \A g \in F : time[g] \in 0..clock
  BY <1>1, <1>2, <1>6
<1> QED BY <1>2, <1>4, <1>5, <1>7, <1>8 DEF F

--------------------------------------------------------------------------------
(* Scripts are current.                                                        *)

FreshMeans == \A a \in Assets, k \in {"file", "stored"} :
                Fresh(<<a, k>>) <=> \A g \in Inputs(a) : time[g] <= time[<<a, k>>]

LEMMA FreshMeant == PagesTyped => FreshMeans
BY FreshIs DEF FreshMeans

LEMMA FreshMeantNext == PagesTyped' => FreshMeans'
BY FreshMeant, PTL

(* What a browser still has to fetch is the end of its page.                   *)
EndsIn(l, t) == Len(l) <= Len(t) /\ \A i \in 1..Len(l) : l[i] = t[Len(t) - Len(l) + i]
LeftBehind == \A s \in Sessions : EndsIn(left[s], tags[s]) /\ (at[s] = "start" => left[s] = << >>)

LEMMA TailEnds ==
    ASSUME NEW S, NEW l \in Seq(S), NEW t \in Seq(S), l # << >>, EndsIn(l, t)
    PROVE  EndsIn(Tail(l), t) /\ t[Len(t) - Len(Tail(l))] = Head(l)
<1>1. /\ Len(l) \in Nat /\ Len(l) # 0 /\ Len(t) \in Nat
      /\ Len(Tail(l)) = Len(l) - 1 /\ Head(l) = l[1]
      /\ \A i \in 1..Len(Tail(l)) : Tail(l)[i] = l[i + 1]
  BY EmptySeq, HeadTailProperties, LenProperties
<1> DEFINE r == Tail(l)
           n == Len(l)
           m == Len(t)
<1>2. n <= m /\ \A i \in 1..n : l[i] = t[m - n + i]
  BY DEF EndsIn
<1>3. n \in Nat /\ m \in Nat /\ n # 0 /\ Len(r) = n - 1 /\ \A i \in 1..Len(r) : r[i] = l[i + 1]
  BY <1>1
<1> HIDE DEF n, m, r
<1>4. ASSUME NEW i \in 1..Len(r) PROVE r[i] = t[m - Len(r) + i]
  <2>1. i + 1 \in 1..n /\ m - n + (i + 1) = m - Len(r) + i
    BY <1>3
  <2>2. l[i + 1] = t[m - n + (i + 1)]
    BY <1>2, <2>1
  <2> QED BY <1>3, <2>1, <2>2
<1>5. t[m - Len(r)] = l[1]
  <2>1. 1 \in 1..n /\ m - n + 1 = m - Len(r)
    BY <1>3
  <2>2. l[1] = t[m - n + 1]
    BY <1>2, <2>1
  <2> QED BY <2>1, <2>2
<1>6. Len(r) <= m
  BY <1>2, <1>3
<1> QED BY <1>1, <1>4, <1>5, <1>6 DEF EndsIn, r, m

(* What a fetch does to its browser: it runs what it got, and is done with it   *)
(* or goes on to store or to keep it.                                          *)
RunsAndGoesOn(s, c) ==
  /\ Runs(s, c)
  /\ \/ at' = at /\ building' = building
     \/ \E p \in {"saveStored", "keep"} : /\ at' = [at EXCEPT ![s] = p]
                                          /\ building' = [building EXCEPT ![s] = c]
(* Where that comes from: elsewhere, the text cache, the memory of a developer's *)
(* server, the files of the script, or its stored form.                        *)
FromMemory(a) == development /\ a = Bundle /\ memory # NoFile
ComesFrom(a, c) ==
  \/ a = External /\ c = <<<<External, 0>>>> /\ at' = at
  \/ a # External /\ Hit(a) /\ c = keptText[a] /\ at' = at
  \/ /\ a # External /\ ~Hit(a)
     /\ \/ FromMemory(a) /\ c = memory
        \/ ~FromMemory(a) /\ c = Current(a)
        \/ /\ ~FromMemory(a) /\ stored[a] # NoFile
           /\ Fresh(<<a, "stored">>) /\ c = stored[a]

LEMMA FetchIs ==
    ASSUME NEW s \in Sessions, Fetch(s)
    PROVE  \E c : RunsAndGoesOn(s, c) /\ ComesFrom(Head(left[s]), c)
<1> DEFINE a == Head(left[s])
<1>1. ASSUME NEW c, Serves(s, c) PROVE RunsAndGoesOn(s, c)
  BY <1>1 DEF Serves, RunsAndGoesOn
<1>2. ASSUME NEW c, Delivers(s, c) PROVE RunsAndGoesOn(s, c)
  <2>1. CASE caching
    BY <1>2, <2>1 DEF Delivers, Put, RunsAndGoesOn
  <2>2. CASE ~caching
    BY <1>1, <1>2, <2>2 DEF Delivers
  <2> QED BY <2>1, <2>2
<1>3. ASSUME NEW c, Runs(s, c), at' = Put(at, s, "saveStored"), building' = Put(building, s, c)
      PROVE  RunsAndGoesOn(s, c)
  BY <1>3 DEF Put, RunsAndGoesOn
<1> HIDE DEF a
<1>4. ASSUME Build(s, a), a # External, ~Hit(a) PROVE \E c : RunsAndGoesOn(s, c) /\ ComesFrom(a, c)
  <2>1. CASE FromMemory(a)
    <3>1. Serves(s, memory)
      BY <1>4, <2>1, Zenon DEF Build, FromMemory
    <3>2. ComesFrom(a, memory)
      BY <1>4, <2>1 DEF ComesFrom
    <3> QED BY <1>1, <3>1, <3>2
  <2>2. CASE ~FromMemory(a)
    <3>1. \/ Delivers(s, Current(a))
          \/ /\ Runs(s, Current(a)) /\ at' = Put(at, s, "saveStored")
             /\ building' = Put(building, s, Current(a))
          \/ stored[a] # NoFile /\ Fresh(<<a, "stored">>) /\ Delivers(s, stored[a])
      BY <1>4, <2>2, Zenon DEF Build, FromMemory
    <3>2. ComesFrom(a, Current(a))
      BY <1>4, <2>2, Zenon DEF ComesFrom
    <3>3. stored[a] # NoFile /\ Fresh(<<a, "stored">>) => ComesFrom(a, stored[a])
      BY <1>4, <2>2, Zenon DEF ComesFrom
    <3> QED BY <1>2, <1>3, <3>1, <3>2, <3>3
  <2> QED BY <2>1, <2>2
<1>5. ASSUME a = External, Serves(s, <<<<External, 0>>>>)
      PROVE  \E c : RunsAndGoesOn(s, c) /\ ComesFrom(a, c)
  <2>1. ComesFrom(a, <<<<External, 0>>>>)
    BY <1>5 DEF ComesFrom, Serves
  <2> QED BY <1>1, <1>5, <2>1
<1>6. ASSUME a # External, Hit(a), Serves(s, keptText[a]) PROVE \E c : RunsAndGoesOn(s, c) /\ ComesFrom(a, c)
  <2>1. ComesFrom(a, keptText[a])
    BY <1>6 DEF ComesFrom, Serves
  <2> QED BY <1>1, <1>6, <2>1
<1>7. \/ a = External /\ Serves(s, <<<<External, 0>>>>)
      \/ a # External /\ Hit(a) /\ Serves(s, keptText[a])
      \/ a # External /\ ~Hit(a) /\ Build(s, a)
  BY Zenon DEF Fetch, a
<1>8. \E c : RunsAndGoesOn(s, c) /\ ComesFrom(a, c)
  BY <1>4, <1>5, <1>6, <1>7
<1> QED BY <1>8 DEF a

LEMMA LeftStep == PagesTyped /\ LeftBehind /\ [PageNext]_pageVars => LeftBehind'
<1> SUFFICES ASSUME PagesTyped, LeftBehind, [PageNext]_pageVars, NEW w \in Sessions
             PROVE  EndsIn(left'[w], tags'[w]) /\ (at'[w] = "start" => left'[w] = << >>)
  BY DEF LeftBehind
<1> DEFINE Goal == EndsIn(left'[w], tags'[w]) /\ (at'[w] = "start" => left'[w] = << >>)
<1>0. /\ left \in [Sessions -> Seq(Assets)] /\ tags \in [Sessions -> Seq(Assets)]
      /\ at \in [Sessions -> Places]
      /\ EndsIn(left[w], tags[w]) /\ (at[w] = "start" => left[w] = << >>)
  BY DEF PagesTyped, LeftBehind, Places
<1>1. ASSUME left' = left, tags' = tags, at'[w] = "start" => at[w] = "start" PROVE Goal
  BY <1>0, <1>1
<1>2. ASSUME NEW s \in Sessions, NEW html \in Seq(Assets), Receive(s, html) PROVE Goal
  <2>1. EndsIn(html, html)
    <3>1. Len(html) \in Nat /\ \A i \in 1..Len(html) : Len(html) - Len(html) + i = i
      BY LenProperties
    <3> QED BY <3>1 DEF EndsIn
  <2>2. /\ left' = [left EXCEPT ![s] = html] /\ tags' = [tags EXCEPT ![s] = html]
        /\ at' = [at EXCEPT ![s] = "fetch"]
    BY <1>2 DEF Receive, Put
  <2> QED BY <1>0, <2>1, <2>2
<1>3. ASSUME NEW s \in Sessions, OpenPage(s) PROVE Goal
  <2>0. template \in Seq(Assets) /\ MergedTags \in Seq(Assets) /\ page \in Seq(Assets)
    BY PageTemplates, TagsMerged DEF PagesTyped
  <2>1. \/ \E html \in Seq(Assets) : Receive(s, html)
        \/ /\ tags' = [tags EXCEPT ![s] = MergedTags] /\ left' = left
           /\ at' = [at EXCEPT ![s] = IF Locals = << >> THEN "savePage" ELSE "saveBundle"]
    <3>1. CASE ~languages
      BY <1>3, <2>0, <3>1 DEF OpenPage
    <3>2. CASE languages /\ page # NoFile
      BY <1>3, <2>0, <3>2 DEF OpenPage
    <3>3. CASE languages /\ page = NoFile /\ development
      BY <1>3, <2>0, <3>3 DEF OpenPage
    <3>4. CASE languages /\ page = NoFile /\ ~development
      BY <1>3, <2>0, <3>4 DEF OpenPage, Put
    <3> QED BY <3>1, <3>2, <3>3, <3>4
  <2>2. at[s] = "start" /\ left[s] = << >>
    BY <1>3 DEF OpenPage, LeftBehind
  <2>3. ASSUME tags' = [tags EXCEPT ![s] = MergedTags], left' = left, at'[w] = "start" => at[w] = "start" PROVE Goal
    <3>1. EndsIn(<< >>, MergedTags)
      <4>1. Len(<< >>) = 0 /\ Len(MergedTags) \in Nat
        BY <2>0, LenProperties
      <4> QED BY <4>1 DEF EndsIn
    <3> QED BY <1>0, <2>2, <2>3, <3>1
  <2>4. ASSUME at' = [at EXCEPT ![s] = IF Locals = << >> THEN "savePage" ELSE "saveBundle"]
        PROVE  at'[w] = "start" => at[w] = "start"
    BY <1>0, <2>4
  <2> HIDE DEF Goal
  <2> QED BY <1>2, <2>1, <2>3, <2>4
<1>4. ASSUME NEW s \in Sessions, Fetch(s) PROVE Goal
  <2>0. PICK c : /\ Runs(s, c)
                 /\ at' = at \/ \E p \in {"saveStored", "keep"} : at' = [at EXCEPT ![s] = p]
    BY <1>4, FetchIs DEF RunsAndGoesOn
  <2>1. left[s] # << >> /\ left' = [left EXCEPT ![s] = Tail(left[s])] /\ tags' = tags
    BY <1>4, <2>0 DEF Fetch, Runs, Put
  <2>2. EndsIn(left[s], tags[s])
    BY DEF LeftBehind
  <2>3. EndsIn(Tail(left[s]), tags[s])
    <3>1. left[s] \in Seq(Assets) /\ tags[s] \in Seq(Assets)
      BY <1>0
    <3> QED BY <2>1, <2>2, <3>1, TailEnds, Zenon
  <2>4. at[s] = "fetch" /\ (at' = at \/ \E p \in {"saveStored", "keep"} : at' = [at EXCEPT ![s] = p])
    BY <1>4, <2>0 DEF Fetch
  <2>5. left'[w] = (IF w = s THEN Tail(left[s]) ELSE left[w]) /\ tags'[w] = tags[w]
    BY <1>0, <2>1
  <2>6. at'[w] = "start" => at[w] = "start" /\ w # s
    BY <1>0, <2>4
  <2> QED BY <1>0, <2>3, <2>5, <2>6
<1>5. ASSUME NEW s \in Sessions, SavePage(s) PROVE Goal
  BY <1>0, <1>2, <1>5 DEF SavePage
<1>6. ASSUME NEW s \in Sessions, SaveBundle(s) \/ SaveStored(s) \/ Keep(s) \/ Finish(s)
      PROVE  left' = left /\ tags' = tags /\ (at'[w] = "start" => at[w] = "start")
  BY <1>0, <1>6 DEF SaveBundle, SaveStored, Keep, Finish, Put
<1>7. ASSUME NEW a, EditAsset(a) \/ EditTemplate PROVE left' = left /\ tags' = tags /\ at' = at
  BY <1>7 DEF EditAsset, EditTemplate, Edits, browser
<1>8. ASSUME UNCHANGED pageVars PROVE left' = left /\ tags' = tags /\ at' = at
  BY <1>8 DEF pageVars, browser
<1> HIDE DEF Goal
<1>9. Goal
  BY <1>1, <1>3, <1>4, <1>5, <1>6, <1>7, <1>8 DEF PageNext, Load
<1> QED BY <1>9 DEF Goal

(* A page with local scripts that names none after itself: the bundle on disk  *)
(* and the obfuscated one are as merging would make them now, or older than    *)
(* something they are made from; so is the bundle that is kept, as long as its *)
(* entry is valid and the file on disk is not older; and what a builder is     *)
(* about to write or to keep is as merging would make it now.                  *)
Scripted == /\ kind = "js" /\ ~development /\ ~overtaken
            /\ Bundle \notin Range(template) /\ Locals # << >>
FileGood == files[Bundle] # NoFile /\ Fresh(<<Bundle, "file">>) => files[Bundle] = Merged
StoredGood == stored[Bundle] # NoFile /\ Fresh(<<Bundle, "stored">>) => stored[Bundle] = Merged
BuildingGood == \A s \in Sessions : at[s] = "saveBundle" => building[s] = Merged
StoringGood == \A s \in Sessions : at[s] \in {"saveStored", "keep"} /\ tags[s][Len(tags[s]) - Len(left[s])] = Bundle
                 => building[s] = Merged
CacheGood == Hit(Bundle) /\ Fresh(<<Bundle, "file">>) => keptText[Bundle] = Merged
UpToDate == Scripted => FileGood /\ StoredGood /\ CacheGood /\ BuildingGood /\ StoringGood

(* What is merged, and from which inputs, does not depend on the bundle of a    *)
(* page that does not name it.                                                 *)
LEMMA SameMerge ==
    ASSUME PagesTyped, kind' = kind, template' = template, Bundle \notin Range(template),
           \A t \in Range(template) : t \notin Excluded \cup {External} => files'[t] = files[t]
    PROVE  Locals' = Locals /\ Merged' = Merged /\ Inputs(Bundle)' = Inputs(Bundle)
<1>1. Local' = Local
  BY DEF Local
<1>2. Locals' = Locals
  BY <1>1 DEF Locals
<1>3. \A i \in DOMAIN Locals : Locals[i] \in Local
  BY LocalAssets DEF Range
<1>4. \A i \in DOMAIN Locals : files'[Locals[i]] = files[Locals[i]]
  BY <1>3 DEF Local
<1>5. Contents(Locals)' = Contents(Locals)
  <2> DEFINE x == [i \in DOMAIN Locals |-> files[Locals[i]]]
             y == [i \in DOMAIN Locals |-> files'[Locals[i]]]
  <2>1. x = y
    BY <1>4
  <2>2. Contents(Locals) = FlattenSeq(x) /\ Contents(Locals)' = FlattenSeq(y)
    BY <1>2 DEF Contents
  <2> QED BY <2>1, <2>2
<1>6. Bundle \notin Range(Locals)
  BY LocalAssets
<1>7. Merged = Contents(Locals)
  BY <1>6 DEF Merged
<1>8. Bundle \notin Range(Locals)'
  BY <1>2, <1>6 DEF Range
<1>9. Merged' = Contents(Locals)'
  BY <1>8 DEF Merged
<1>10. Inputs(Bundle)' = Inputs(Bundle)
  BY <1>2 DEF Inputs
<1> QED BY <1>2, <1>5, <1>7, <1>9, <1>10

LEMMA StillFresh ==
    ASSUME PagesTyped, FreshMeans, FreshMeans', Inputs(Bundle)' = Inputs(Bundle), NEW k \in {"file", "stored"},
           \A g \in Inputs(Bundle) \cup {<<Bundle, k>>} : time'[g] = time[g], Fresh(<<Bundle, k>>)'
    PROVE  Fresh(<<Bundle, k>>)
<1>1. Bundle \in Assets
  BY PageTemplates
<1>2. \A g \in Inputs(Bundle)' : time'[g] <= time'[<<Bundle, k>>]
  BY <1>1 DEF FreshMeans
<1>3. \A g \in Inputs(Bundle) : time[g] <= time[<<Bundle, k>>]
  <2> TAKE g \in Inputs(Bundle)
  <2>1. time'[g] <= time'[<<Bundle, k>>]
    BY <1>2
  <2>2. time'[g] = time[g] /\ time'[<<Bundle, k>>] = time[<<Bundle, k>>]
    OBVIOUS
  <2> QED BY <2>1, <2>2
<1> QED BY <1>1, <1>3 DEF FreshMeans

(* The inputs of a bundle have a time, and the bundle is not among them.       *)
LEMMA InputsOf ==
    ASSUME PagesTyped, Bundle \notin Range(template)
    PROVE  /\ Inputs(Bundle) \subseteq Stamped
           /\ Locals # << >> => <<Bundle, "file">> \notin Inputs(Bundle)
           /\ \A a : <<a, "stored">> \notin Inputs(Bundle)
<1>1. Local \subseteq Assets /\ Bundle \notin Local /\ Range(Locals) = Local /\ Bundle \in Assets
  BY LocalAssets, PageTemplates
<1>2. Inputs(Bundle) = IF Locals # << >> THEN {Page} \cup {<<t, "file">> : t \in Local} ELSE {<<Bundle, "file">>}
  BY <1>1 DEF Inputs
<1>3. Page # <<Bundle, "file">> /\ \A a : Page # <<a, "stored">>
  BY DEF Page
<1>4. \A t \in Local : <<t, "file">> # <<Bundle, "file">>
  BY <1>1
<1>5. \A t, a : <<t, "file">> # <<a, "stored">>
  OBVIOUS
<1>6. Inputs(Bundle) \subseteq Stamped
  BY <1>1, <1>2 DEF Stamped
<1>7. Locals # << >> => <<Bundle, "file">> \notin Inputs(Bundle)
  BY <1>2, <1>3, <1>4
<1>8. \A a : <<a, "stored">> \notin Inputs(Bundle)
  BY <1>2, <1>3, <1>5
<1> QED BY <1>6, <1>7, <1>8

(* What was stamped last makes the bundles made from it stale.                 *)
LEMMA NewerInput ==
    ASSUME PagesTyped, FreshMeans', NEW f \in Stamped, f \in Inputs(Bundle)', Stamp(f),
           NEW k \in {"file", "stored"}, f # <<Bundle, k>>
    PROVE  ~Fresh(<<Bundle, k>>)'
<1>1. Bundle \in Assets
  BY PageTemplates
<1>2. <<Bundle, k>> \in Stamped
  BY <1>1 DEF Stamped
<1>3. time'[f] = clock + 1 /\ time'[<<Bundle, k>>] \in 0..clock /\ clock \in Nat
  BY <1>2 DEF Stamp, PagesTyped, Stamped
<1>4. Fresh(<<Bundle, k>>)' => time'[f] <= time'[<<Bundle, k>>]
  BY <1>1 DEF FreshMeans
<1> QED BY <1>3, <1>4

(* What a script of such a page is served from, when it is not obfuscated.     *)
LEMMA CurrentIs ==
    ASSUME PagesTyped, Scripted, FileGood
    PROVE  Current(Bundle) = Merged
<1>1. Bundle \notin Excluded
  BY PageTemplates
<1>2. kind # "css" /\ ~development /\ Locals # << >>
  BY DEF Scripted
<1>3. Current(Bundle) = IF files[Bundle] # NoFile /\ Fresh(<<Bundle, "file">>) THEN files[Bundle] ELSE Merged
  BY <1>1, <1>2 DEF Current
<1> QED BY <1>3 DEF FileGood

LEMMA UpToDateInitially == PageInit => UpToDate
<1> SUFFICES ASSUME PageInit, Scripted PROVE FileGood /\ StoredGood /\ CacheGood /\ BuildingGood /\ StoringGood
  BY DEF UpToDate
<1>1. Bundle \in Assets
  BY PagesInitially, PageTemplates
<1>2. files[Bundle] = NoFile /\ stored[Bundle] = NoFile
  BY <1>1 DEF PageInit, Scripted
<1>3. \A s \in Sessions : at[s] = "start"
  BY DEF PageInit
<1>4. ~Hit(Bundle)
  BY <1>2 DEF Hit
<1> QED BY <1>2, <1>3, <1>4 DEF FileGood, StoredGood, CacheGood, BuildingGood, StoringGood

(* A step that leaves alone what the author wrote.                             *)
AuthorsKept == /\ kind' = kind /\ template' = template /\ files' = files /\ time' = time
               /\ development' = development /\ overtaken' = overtaken

(* What is merged, as a function of all it is merged from.                     *)
MergeOf(k, names, f) ==
  LET place == CHOOSE i \in DOMAIN names : names[i] = Bundle
      part == SubSeq(names, 1, place - 1)
      before == FlattenSeq([i \in DOMAIN part |-> f[part[i]]])
  IN IF k = "css" \/ Bundle \notin Range(names) THEN FlattenSeq([i \in DOMAIN names |-> f[names[i]]])
     ELSE IF before # << >> /\ IsPrefix(before, f[Bundle]) THEN f[Bundle]
     ELSE before \o f[Bundle]

LEMMA SameFiles ==
    ASSUME kind' = kind, template' = template, files' = files
    PROVE  Locals' = Locals /\ Merged' = Merged /\ \A a : Inputs(a)' = Inputs(a)
<1>1. Local' = Local
  BY DEF Local
<1>2. Locals' = Locals
  BY <1>1 DEF Locals
<1>4. Merged' = Merged
  <2>1. Merged = MergeOf(kind, Locals, files)
    BY DEF Merged, MergeOf, Contents
  <2>2. Merged' = MergeOf(kind', Locals', files')
    BY DEF Merged, MergeOf, Contents, Range, IsPrefix
  <2> QED BY <1>2, <2>1, <2>2
<1>5. \A a : Inputs(a)' = Inputs(a)
  BY <1>2 DEF Inputs
<1> QED BY <1>2, <1>4, <1>5

CacheLeft == keptText'[Bundle] \in {NoFile, keptText[Bundle]} /\ keptTime' = keptTime

(* Steps that leave the files alone disturb only what a browser builds or keeps. *)
LEMMA FilesLeft ==
    ASSUME PagesTyped, FreshMeans, FreshMeans', AuthorsKept, stored' = stored, UpToDate, Scripted'
    PROVE  Scripted /\ Merged' = Merged /\ FileGood' /\ StoredGood' /\ (CacheLeft => CacheGood')
<1>1. Locals' = Locals /\ Merged' = Merged /\ Inputs(Bundle)' = Inputs(Bundle)
  BY SameFiles DEF AuthorsKept
<1>2. Scripted
  BY <1>1 DEF Scripted, AuthorsKept
<1>3. FileGood /\ StoredGood
  BY <1>2 DEF UpToDate
<1>4. \A k \in {"file", "stored"} : Fresh(<<Bundle, k>>)' => Fresh(<<Bundle, k>>)
  BY <1>1, StillFresh DEF AuthorsKept
<1>5. FileGood'
  BY <1>1, <1>3, <1>4 DEF FileGood, AuthorsKept
<1>6. StoredGood'
  BY <1>1, <1>3, <1>4 DEF StoredGood
<1>7. ASSUME CacheLeft PROVE CacheGood'
  <2> SUFFICES ASSUME Hit(Bundle)', Fresh(<<Bundle, "file">>)' PROVE keptText'[Bundle] = Merged
    BY <1>1 DEF CacheGood
  <2>1. keptText'[Bundle] = keptText[Bundle] /\ Hit(Bundle)
    BY <1>7 DEF CacheLeft, Hit, AuthorsKept
  <2> QED BY <1>2, <1>4, <2>1 DEF UpToDate, CacheGood
<1> QED BY <1>1, <1>2, <1>5, <1>6, <1>7

(* A browser fetches: a script of such a page runs what merging makes now.     *)
LEMMA FetchUpToDate ==
    ASSUME PagesTyped, LeftBehind, FreshMeans, FreshMeans', UpToDate, NEW s \in Sessions, Fetch(s)
    PROVE  /\ UpToDate'
           /\ Scripted /\ Head(left[s]) = Bundle /\ ~KeptPastChange
                => ran' = [ran EXCEPT ![s] = ran[s] \o Merged]
<1> DEFINE a == Head(left[s])
<1>0. PICK c : RunsAndGoesOn(s, c) /\ ComesFrom(a, c)
  BY FetchIs
<1>1. /\ AuthorsKept /\ stored' = stored /\ at[s] = "fetch" /\ left[s] # << >>
      /\ tags' = tags /\ left' = [left EXCEPT ![s] = Tail(left[s])]
      /\ ran' = [ran EXCEPT ![s] = ran[s] \o c]
  BY <1>0 DEF Fetch, config, onDisk, AuthorsKept, RunsAndGoesOn, Runs, Put
<1>2. CacheLeft
  <2>1. keptText' = keptText \/ keptText' = [keptText EXCEPT ![a] = NoFile]
    BY Zenon DEF Fetch, textCache, Put
  <2>2. keptTime' = keptTime
    BY DEF Fetch, textCache
  <2>3. keptText \in [Assets -> Content] /\ Bundle \in Assets
    BY PageTemplates DEF PagesTyped
  <2> HIDE DEF a
  <2> QED BY <2>1, <2>2, <2>3 DEF CacheLeft
<1>3. Bundle # External /\ Bundle \in Assets
  BY PageTemplates
<1>4. \/ at' = at /\ building' = building
      \/ \E p \in {"saveStored", "keep"} : /\ at' = [at EXCEPT ![s] = p]
                                           /\ building' = [building EXCEPT ![s] = c]
  BY <1>0 DEF RunsAndGoesOn
<1>5. ASSUME Scripted, a = Bundle, ~KeptPastChange \/ at' # at PROVE c = Merged
  <2>1. FileGood /\ StoredGood /\ CacheGood /\ ~development
    BY <1>5 DEF UpToDate, Scripted
  <2>2. Current(Bundle) = Merged
    BY <1>5, <2>1, CurrentIs
  <2>3. ~FromMemory(a)
    BY <2>1 DEF FromMemory
  <2> HIDE DEF a
  <2>4. \/ Hit(Bundle) /\ c = keptText[Bundle] /\ at' = at
        \/ c = Current(Bundle)
        \/ stored[Bundle] # NoFile /\ Fresh(<<Bundle, "stored">>) /\ c = stored[Bundle]
    BY <1>0, <1>3, <1>5, <2>3, Zenon DEF ComesFrom
  <2>5. ASSUME Hit(Bundle), ~KeptPastChange PROVE keptText[Bundle] = Merged
    <3>1. \A f \in Inputs(Bundle) : ~(time[f] > time[<<Bundle, "file">>])
      BY <2>5 DEF KeptPastChange
    <3>2. \A f \in Inputs(Bundle) : time[f] <= time[<<Bundle, "file">>]
      <4>1. Inputs(Bundle) \subseteq Stamped /\ <<Bundle, "file">> \in Stamped
        BY <1>3, <1>5, InputsOf DEF Scripted, Stamped
      <4>2. time \in [Stamped -> 0..clock] /\ clock \in Nat
        BY DEF PagesTyped, Stamped
      <4>3. \A f \in Stamped : time[f] \in Nat
        BY <4>2
      <4> QED BY <3>1, <4>1, <4>3
    <3>3. Fresh(<<Bundle, "file">>)
      BY <1>3, <3>2 DEF FreshMeans
    <3> QED BY <2>1, <2>5, <3>3 DEF CacheGood
  <2> QED BY <1>5, <2>1, <2>2, <2>4, <2>5 DEF StoredGood
<1>6. ASSUME Scripted, a = Bundle, ~KeptPastChange PROVE ran' = [ran EXCEPT ![s] = ran[s] \o Merged]
  <2>1. c = Merged
    BY <1>5, <1>6
  <2> QED BY <1>1, <2>1
<1>7. ASSUME Scripted' PROVE FileGood' /\ StoredGood' /\ CacheGood' /\ BuildingGood' /\ StoringGood'
  <2>1. Scripted /\ Merged' = Merged /\ FileGood' /\ StoredGood' /\ CacheGood'
    BY <1>1, <1>2, <1>7, FilesLeft
  <2>2. BuildingGood /\ StoringGood
    BY <2>1 DEF UpToDate
  <2>3. /\ at \in [Sessions -> Places] /\ left \in [Sessions -> Seq(Assets)]
        /\ tags \in [Sessions -> Seq(Assets)] /\ building \in [Sessions -> Content]
    BY DEF PagesTyped, Places
  <2>4. ASSUME NEW w \in Sessions, w # s PROVE at'[w] = at[w] /\ building'[w] = building[w]
    BY <1>4, <2>3, <2>4
  <2>5. \/ at'[s] = "fetch"
        \/ at'[s] \in {"saveStored", "keep"} /\ building'[s] = c /\ at' # at
    BY <1>1, <1>4, <2>3
  <2>6. BuildingGood'
    <3> SUFFICES ASSUME NEW w \in Sessions, at'[w] = "saveBundle" PROVE building'[w] = Merged
      BY <2>1 DEF BuildingGood
    <3>1. w # s
      BY <2>5
    <3> QED BY <2>2, <2>4, <3>1 DEF BuildingGood
  <2>7. StoringGood'
    <3> SUFFICES ASSUME NEW w \in Sessions, at'[w] \in {"saveStored", "keep"},
                        tags'[w][Len(tags'[w]) - Len(left'[w])] = Bundle
                 PROVE  building'[w] = Merged
      BY <2>1 DEF StoringGood
    <3>1. CASE w = s
      <4>1. building'[s] = c /\ at' # at
        BY <2>5, <3>1
      <4>2. tags'[s] = tags[s] /\ left'[s] = Tail(left[s])
        BY <1>1, <2>3
      <4>3. tags[s][Len(tags[s]) - Len(Tail(left[s]))] = a
        <5>1. left[s] \in Seq(Assets) /\ tags[s] \in Seq(Assets) /\ EndsIn(left[s], tags[s])
          BY <2>3 DEF LeftBehind
        <5> QED BY <1>1, <5>1, TailEnds, Zenon
      <4>4. a = Bundle
        BY <3>1, <4>2, <4>3
      <4>5. c = Merged
        BY <1>5, <2>1, <4>1, <4>4
      <4> QED BY <3>1, <4>1, <4>5
    <3>2. CASE w # s
      <4>1. tags'[w] = tags[w] /\ left'[w] = left[w]
        BY <1>1, <2>3, <3>2
      <4>2. at'[w] = at[w] /\ building'[w] = building[w]
        BY <2>4, <3>2
      <4> QED BY <2>2, <4>1, <4>2 DEF StoringGood
    <3> QED BY <3>1, <3>2
  <2> QED BY <2>1, <2>6, <2>7
<1> QED BY <1>6, <1>7 DEF UpToDate

(* Each step leaves the bundles good or stale.  A builder that writes what was *)
(* merged before a change is the case the property excepts: it is overtaken.   *)
LEMMA UpToDateStep ==
    ASSUME PagesTyped, PagesTyped', LeftBehind, UpToDate, [PageNext]_pageVars
    PROVE  UpToDate'
<1>0. /\ at \in [Sessions -> Places] /\ left \in [Sessions -> Seq(Assets)]
      /\ tags \in [Sessions -> Seq(Assets)] /\ building \in [Sessions -> Content]
      /\ files \in [Assets -> Content] /\ stored \in [Assets -> Content]
      /\ time \in [Stamped -> 0..clock] /\ clock \in Nat /\ Bundle \in Assets
      /\ keptText \in [Assets -> Content] /\ keptTime \in [Assets -> 0..clock]
  BY PageTemplates DEF PagesTyped, Places, Stamped
<1>00. FreshMeans /\ FreshMeans'
  BY FreshMeant, FreshMeantNext
<1> DEFINE Good == FileGood' /\ StoredGood' /\ CacheGood' /\ BuildingGood' /\ StoringGood'
<1>1. ASSUME NEW s \in Sessions, OpenPage(s), Scripted' PROVE Good
  <2>1. Scripted /\ Merged' = Merged /\ FileGood' /\ StoredGood' /\ CacheGood'
    <3>1. AuthorsKept /\ stored' = stored /\ CacheLeft
      BY <1>1 DEF OpenPage, AuthorsKept, config, onDisk, textCache, CacheLeft
    <3> QED BY <1>00, <1>1, <3>1, FilesLeft
  <2>2. BuildingGood /\ StoringGood
    BY <2>1 DEF UpToDate
  <2>3. ASSUME NEW w \in Sessions, w # s
        PROVE  at'[w] = at[w] /\ building'[w] = building[w] /\ tags'[w] = tags[w] /\ left'[w] = left[w]
    BY <1>0, <1>1, <2>3 DEF OpenPage, Receive, Put
  <2>4. at'[s] \notin {"saveStored", "keep"} /\ (at'[s] = "saveBundle" => building'[s] = Merged)
    BY <1>0, <1>1 DEF OpenPage, Receive, Put
  <2>5. BuildingGood'
    BY <2>1, <2>2, <2>3, <2>4 DEF BuildingGood
  <2>6. StoringGood'
    <3> SUFFICES ASSUME NEW w \in Sessions, at'[w] \in {"saveStored", "keep"},
                        tags'[w][Len(tags'[w]) - Len(left'[w])] = Bundle
                 PROVE  building'[w] = Merged
      BY <2>1 DEF StoringGood
    <3>1. w # s
      BY <2>4
    <3> QED BY <2>2, <2>3, <3>1 DEF StoringGood
  <2> QED BY <2>1, <2>5, <2>6
<1>2. ASSUME NEW s \in Sessions, SaveBundle(s), Scripted' PROVE Good
  <2>0. /\ kind' = kind /\ template' = template /\ development' = development /\ overtaken' = overtaken
        /\ stored' = stored /\ tags' = tags /\ left' = left /\ building' = building
        /\ at[s] = "saveBundle" /\ at' = [at EXCEPT ![s] = "savePage"]
        /\ files' = [files EXCEPT ![Bundle] = building[s]] /\ Stamp(<<Bundle, "file">>)
    BY <1>2 DEF SaveBundle, config, Put
  <2>1. Bundle \notin Range(template)
    BY <1>2, <2>0 DEF Scripted
  <2>2. \A t \in Range(template) : files'[t] = files[t]
    <3>1. Range(template) \subseteq Assets
      BY PageTemplates
    <3> QED BY <1>0, <2>0, <2>1, <3>1
  <2>3. Locals' = Locals /\ Merged' = Merged /\ Inputs(Bundle)' = Inputs(Bundle)
    BY <2>0, <2>1, <2>2, SameMerge
  <2>4. Scripted
    BY <1>2, <2>0, <2>3 DEF Scripted
  <2>5. FileGood /\ StoredGood /\ BuildingGood /\ StoringGood
    BY <2>4 DEF UpToDate
  <2>6. FileGood'
    BY <1>0, <2>0, <2>3, <2>5 DEF FileGood, BuildingGood
  <2>10. CacheGood'
    <3>1. time'[<<Bundle, "file">>] = clock + 1 /\ keptTime'[Bundle] \in 0..clock
      BY <1>0, <1>2, <2>0 DEF Stamp, Stamped, SaveBundle, textCache
    <3>2. keptTime'[Bundle] # time'[<<Bundle, "file">>]
      BY <1>0, <3>1
    <3> QED BY <3>2 DEF CacheGood, Hit
  <2>7. StoredGood'
    <3>1. \A g \in Inputs(Bundle) \cup {<<Bundle, "stored">>} : time'[g] = time[g]
      <4>1. <<Bundle, "file">> \notin Inputs(Bundle) /\ Inputs(Bundle) \subseteq Stamped
        BY <2>1, <2>4, InputsOf DEF Scripted
      <4>2. <<Bundle, "stored">> \in Stamped /\ <<Bundle, "stored">> # <<Bundle, "file">>
        BY <1>0 DEF Stamped
      <4>3. time' = [time EXCEPT ![<<Bundle, "file">>] = clock + 1]
        BY <2>0 DEF Stamp
      <4> QED BY <1>0, <4>1, <4>2, <4>3
    <3>2. Fresh(<<Bundle, "stored">>)' => Fresh(<<Bundle, "stored">>)
      BY <1>00, <2>3, <3>1, StillFresh
    <3> QED BY <2>0, <2>3, <2>5, <3>2 DEF StoredGood
  <2>8. BuildingGood'
    BY <1>0, <2>0, <2>3, <2>5 DEF BuildingGood
  <2>9. StoringGood'
    BY <1>0, <2>0, <2>3, <2>5 DEF StoringGood
  <2> QED BY <2>6, <2>7, <2>8, <2>9, <2>10
<1>3. ASSUME NEW s \in Sessions, SavePage(s), Scripted' PROVE Good
  <2>1. Scripted /\ Merged' = Merged /\ FileGood' /\ StoredGood' /\ CacheGood'
    <3>1. AuthorsKept /\ stored' = stored /\ CacheLeft
      BY <1>3 DEF SavePage, AuthorsKept, config, textCache, CacheLeft
    <3> QED BY <1>00, <1>3, <3>1, FilesLeft
  <2>2. BuildingGood /\ StoringGood
    BY <2>1 DEF UpToDate
  <2>3. ASSUME NEW w \in Sessions, w # s
        PROVE  at'[w] = at[w] /\ building'[w] = building[w] /\ tags'[w] = tags[w] /\ left'[w] = left[w]
    BY <1>0, <1>3, <2>3 DEF SavePage, Receive, Put
  <2>4. at'[s] = "fetch"
    BY <1>0, <1>3 DEF SavePage, Receive, Put
  <2>5. BuildingGood'
    BY <2>1, <2>2, <2>3, <2>4 DEF BuildingGood
  <2>6. StoringGood'
    <3> SUFFICES ASSUME NEW w \in Sessions, at'[w] \in {"saveStored", "keep"},
                        tags'[w][Len(tags'[w]) - Len(left'[w])] = Bundle
                 PROVE  building'[w] = Merged
      BY <2>1 DEF StoringGood
    <3>1. w # s
      BY <2>4
    <3> QED BY <2>2, <2>3, <3>1 DEF StoringGood
  <2> QED BY <2>1, <2>5, <2>6
<1>4. ASSUME NEW s \in Sessions, Fetch(s), Scripted' PROVE Good
  BY <1>00, <1>4, FetchUpToDate DEF UpToDate
<1>5. ASSUME NEW s \in Sessions, SaveStored(s), Scripted' PROVE Good
  <2> DEFINE a == tags[s][Len(tags[s]) - Len(left[s])]
  <2>0. /\ kind' = kind /\ template' = template /\ development' = development /\ overtaken' = overtaken
        /\ files' = files /\ tags' = tags /\ left' = left /\ building' = building
        /\ at[s] = "saveStored" /\ at' = [at EXCEPT ![s] = IF caching THEN "keep" ELSE "fetch"]
        /\ stored' = [stored EXCEPT ![a] = building[s]] /\ Stamp(<<a, "stored">>)
        /\ keptText' = keptText /\ keptTime' = keptTime
    BY <1>5 DEF SaveStored, config, Put, Fetched, textCache
  <2>3. Locals' = Locals /\ Merged' = Merged /\ Inputs(Bundle)' = Inputs(Bundle)
    BY <2>0, SameFiles
  <2>4. Scripted
    BY <1>5, <2>0, <2>3 DEF Scripted
  <2>5. FileGood /\ StoredGood /\ CacheGood /\ BuildingGood /\ StoringGood
    BY <2>4 DEF UpToDate
  <2>6. a = Bundle => building[s] = Merged
    BY <2>0, <2>5 DEF StoringGood
  <2> HIDE DEF a
  <2>7. ASSUME NEW g, g # <<a, "stored">>, g \in Stamped PROVE time'[g] = time[g]
    <3>1. time' = [time EXCEPT ![<<a, "stored">>] = clock + 1]
      BY <2>0 DEF Stamp
    <3> QED BY <1>0, <2>7, <3>1
  <2>8. \A g \in Inputs(Bundle) : time'[g] = time[g]
    <3>1. Inputs(Bundle) \subseteq Stamped /\ <<a, "stored">> \notin Inputs(Bundle)
      BY <2>4, InputsOf DEF Scripted
    <3> QED BY <2>7, <3>1
  <2>9. FileGood' /\ CacheGood'
    <3>1. <<Bundle, "file">> \in Stamped /\ <<Bundle, "file">> # <<a, "stored">>
      BY <1>0 DEF Stamped
    <3>2. \A g \in Inputs(Bundle) \cup {<<Bundle, "file">>} : time'[g] = time[g]
      BY <2>7, <2>8, <3>1
    <3>3. Fresh(<<Bundle, "file">>)' => Fresh(<<Bundle, "file">>)
      BY <1>00, <2>3, <3>2, StillFresh
    <3>4. FileGood'
      BY <2>0, <2>3, <2>5, <3>3 DEF FileGood
    <3>5. Hit(Bundle)' => Hit(Bundle)
      BY <2>0, <3>2 DEF Hit
    <3>6. CacheGood'
      BY <2>0, <2>3, <2>5, <3>3, <3>5 DEF CacheGood
    <3> QED BY <3>4, <3>6
  <2>10. StoredGood'
    <3>1. CASE a = Bundle
      BY <1>0, <2>0, <2>3, <2>6, <3>1 DEF StoredGood
    <3>2. CASE a # Bundle
      <4>1. <<Bundle, "stored">> \in Stamped /\ <<Bundle, "stored">> # <<a, "stored">>
        BY <1>0, <3>2 DEF Stamped
      <4>2. \A g \in Inputs(Bundle) \cup {<<Bundle, "stored">>} : time'[g] = time[g]
        BY <2>7, <2>8, <4>1
      <4>3. Fresh(<<Bundle, "stored">>)' => Fresh(<<Bundle, "stored">>)
        BY <1>00, <2>3, <4>2, StillFresh
      <4>4. stored'[Bundle] = stored[Bundle]
        BY <1>0, <2>0, <3>2
      <4> QED BY <2>3, <2>5, <4>3, <4>4 DEF StoredGood
    <3> QED BY <3>1, <3>2
  <2>11. BuildingGood'
    BY <1>0, <2>0, <2>3, <2>5 DEF BuildingGood
  <2>12. StoringGood'
    BY <1>0, <2>0, <2>3, <2>5 DEF StoringGood
  <2> QED BY <2>9, <2>10, <2>11, <2>12
<1>6. ASSUME NEW s \in Sessions, Finish(s), Scripted' PROVE Good
  <2>1. Scripted /\ Merged' = Merged /\ FileGood' /\ StoredGood' /\ CacheGood'
    <3>1. AuthorsKept /\ stored' = stored /\ CacheLeft
      BY <1>6 DEF Finish, AuthorsKept, config, onDisk, textCache, CacheLeft
    <3> QED BY <1>00, <1>6, <3>1, FilesLeft
  <2>2. BuildingGood /\ StoringGood
    BY <2>1 DEF UpToDate
  <2>3. at' = [at EXCEPT ![s] = "done"] /\ tags' = tags /\ left' = left /\ building' = building
    BY <1>6 DEF Finish, Put
  <2>4. BuildingGood'
    BY <1>0, <2>1, <2>2, <2>3 DEF BuildingGood
  <2>5. StoringGood'
    BY <1>0, <2>1, <2>2, <2>3 DEF StoringGood
  <2> QED BY <2>1, <2>4, <2>5
<1>7. ASSUME NEW f, Edits(f), Scripted' PROVE BuildingGood' /\ StoringGood'
  <2>1. \A s \in Sessions : at[s] \notin {"saveBundle", "saveStored", "keep"}
    BY <1>7 DEF Edits, Scripted
  <2>2. at' = at
    BY <1>7 DEF Edits, browser
  <2> QED BY <2>1, <2>2 DEF BuildingGood, StoringGood
<1>8. ASSUME NEW b \in Assets \ {External}, EditAsset(b), Scripted' PROVE Good
  <2>0. /\ kind' = kind /\ template' = template /\ development' = development /\ stored' = stored
        /\ b \in Range(template) /\ files[b] # NoFile
        /\ files' = [files EXCEPT ![b] = <<<<b, changes + 1>>>>] /\ Stamp(<<b, "file">>) /\ Edits(<<b, "file">>)
        /\ (overtaken => overtaken') /\ keptText' = keptText /\ keptTime' = keptTime
    BY <1>8 DEF EditAsset, Edits, config, textCache
  <2>1. Bundle \notin Range(template) /\ b # Bundle
    BY <1>8, <2>0 DEF Scripted
  <2>2. CASE b \in Excluded
    <3>1. \A t \in Range(template) : t \notin Excluded \cup {External} => files'[t] = files[t]
      <4>1. Range(template) \subseteq Assets
        BY PageTemplates
      <4> QED BY <1>0, <2>0, <2>2, <4>1
    <3>2. Locals' = Locals /\ Merged' = Merged /\ Inputs(Bundle)' = Inputs(Bundle)
      BY <2>0, <2>1, <3>1, SameMerge
    <3>3. Scripted
      BY <1>8, <2>0, <3>2 DEF Scripted
    <3>4. FileGood /\ StoredGood /\ CacheGood
      BY <3>3 DEF UpToDate
    <3>5. <<b, "file">> \notin Inputs(Bundle)
      <4>1. Range(Locals) = Local /\ b \notin Local
        BY <2>2, LocalAssets DEF Local
      <4>2. Inputs(Bundle) = {Page} \cup {<<t, "file">> : t \in Local}
        BY <3>3, <4>1 DEF Inputs, Scripted
      <4>3. Page # <<b, "file">>
        BY DEF Page
      <4>4. \A t \in Local : t # b
        BY <4>1
      <4>5. \A t \in Local : <<t, "file">> # <<b, "file">>
        BY <4>4
      <4> QED BY <4>2, <4>3, <4>5
    <3>6. ASSUME NEW k \in {"file", "stored"}, Fresh(<<Bundle, k>>)' PROVE Fresh(<<Bundle, k>>)
      <4>1. <<Bundle, k>> \in Stamped /\ <<Bundle, k>> # <<b, "file">>
        BY <1>0, <2>1 DEF Stamped
      <4>2. time' = [time EXCEPT ![<<b, "file">>] = clock + 1]
        BY <2>0 DEF Stamp
      <4>3. Inputs(Bundle) \subseteq Stamped
        BY <2>1, InputsOf
      <4>4. \A g \in Inputs(Bundle) \cup {<<Bundle, k>>} : time'[g] = time[g]
        BY <1>0, <3>5, <4>1, <4>2, <4>3
      <4> QED BY <1>00, <3>2, <3>6, <4>4, StillFresh
    <3>7. files'[Bundle] = files[Bundle]
      BY <1>0, <2>0, <2>1
    <3>8. FileGood' /\ StoredGood'
      BY <2>0, <3>2, <3>4, <3>6, <3>7 DEF FileGood, StoredGood
    <3>9. CacheGood'
      <4>1. time'[<<Bundle, "file">>] = time[<<Bundle, "file">>]
        <5>1. <<Bundle, "file">> \in Stamped /\ <<Bundle, "file">> # <<b, "file">>
          BY <1>0, <2>1 DEF Stamped
        <5> QED BY <1>0, <2>0, <5>1 DEF Stamp
      <4>2. Hit(Bundle)' => Hit(Bundle)
        BY <2>0, <3>7, <4>1 DEF Hit
      <4> QED BY <2>0, <3>2, <3>4, <3>6, <4>2 DEF CacheGood
    <3> QED BY <1>7, <1>8, <2>0, <3>8, <3>9
  <2>3. CASE b \notin Excluded
    <3>1. b \in Local /\ Local' = Local
      <4>1. Range(template) \subseteq Assets
        BY PageTemplates
      <4>2. \A t \in Range(template) : files'[t] = IF t = b THEN <<<<b, changes + 1>>>> ELSE files[t]
        BY <1>0, <2>0, <4>1
      <4>3. <<<<b, changes + 1>>>> # NoFile
        BY DEF NoFile
      <4>4. b \in Local
        BY <2>0, <2>3 DEF Local
      <4> QED BY <2>0, <4>2, <4>3, <4>4 DEF Local
    <3>2. Locals' = Locals
      BY <2>0, <3>1 DEF Locals
    <3>3. <<b, "file">> \in Inputs(Bundle)' /\ <<b, "file">> \in Stamped
      <4>1. Locals # << >> /\ b \in Range(Locals)
        BY <1>8, <3>1, <3>2, LocalAssets DEF Scripted
      <4>2. Inputs(Bundle)' = {Page} \cup {<<t, "file">> : t \in Range(Locals)}
        BY <3>2, <4>1 DEF Inputs
      <4> QED BY <4>1, <4>2 DEF Stamped
    <3>4. \A k \in {"file", "stored"} : ~Fresh(<<Bundle, k>>)'
      <4> TAKE k \in {"file", "stored"}
      <4>1. <<b, "file">> # <<Bundle, k>>
        BY <2>1
      <4> QED BY <1>00, <2>0, <3>3, <4>1, NewerInput
    <3>5. FileGood' /\ StoredGood' /\ CacheGood'
      BY <3>4 DEF FileGood, StoredGood, CacheGood
    <3> QED BY <1>7, <1>8, <2>0, <3>5
  <2> QED BY <2>2, <2>3
<1>9. ASSUME EditTemplate, Scripted' PROVE Good
  <2>0. Edits(Page) /\ Stamp(Page)
    BY <1>9 DEF EditTemplate, Edits
  <2>1. Page \in Inputs(Bundle)' /\ Page \in Stamped
    <3>1. Locals' # << >>
      BY <1>9 DEF Scripted
    <3> QED BY <3>1 DEF Inputs, Stamped
  <2>2. \A k \in {"file", "stored"} : ~Fresh(<<Bundle, k>>)'
    <3> TAKE k \in {"file", "stored"}
    <3>1. Page # <<Bundle, k>>
      BY DEF Page
    <3> QED BY <1>00, <2>0, <2>1, <3>1, NewerInput
  <2>3. FileGood' /\ StoredGood' /\ CacheGood'
    BY <2>2 DEF FileGood, StoredGood, CacheGood
  <2> QED BY <1>7, <1>9, <2>0, <2>3
<1>10. ASSUME UNCHANGED pageVars, Scripted' PROVE Good
  <2>1. /\ AuthorsKept /\ stored' = stored /\ at' = at /\ tags' = tags /\ left' = left /\ building' = building
        /\ CacheLeft
    BY <1>10 DEF pageVars, config, onDisk, browser, textCache, AuthorsKept, CacheLeft
  <2>2. Scripted /\ Merged' = Merged /\ FileGood' /\ StoredGood' /\ CacheGood'
    BY <1>00, <1>10, <2>1, FilesLeft
  <2>3. BuildingGood /\ StoringGood
    BY <2>2 DEF UpToDate
  <2>4. BuildingGood' /\ StoringGood'
    BY <2>1, <2>2, <2>3 DEF BuildingGood, StoringGood
  <2> QED BY <2>2, <2>4
<1>11. ASSUME NEW s \in Sessions, Keep(s), Scripted' PROVE Good
  <2> DEFINE a == tags[s][Len(tags[s]) - Len(left[s])]
  <2>0. /\ AuthorsKept /\ stored' = stored /\ tags' = tags /\ left' = left /\ building' = building
        /\ at[s] = "keep" /\ at' = [at EXCEPT ![s] = "fetch"]
        /\ keptText' = [keptText EXCEPT ![a] = IF files[a] = NoFile THEN NoFile ELSE building[s]]
        /\ keptTime' = [keptTime EXCEPT ![a] = time[<<a, "file">>]]
    BY <1>11 DEF Keep, AuthorsKept, config, onDisk, Put, Fetched
  <2>1. Scripted /\ Merged' = Merged /\ FileGood' /\ StoredGood'
    BY <1>00, <1>11, <2>0, FilesLeft
  <2>2. BuildingGood /\ StoringGood /\ CacheGood
    BY <2>1 DEF UpToDate
  <2>3. a = Bundle => building[s] = Merged
    BY <2>0, <2>2 DEF StoringGood
  <2> HIDE DEF a
  <2>4. CacheGood'
    <3>1. CASE a = Bundle
      <4> SUFFICES ASSUME Hit(Bundle)' PROVE keptText'[Bundle] = Merged
        BY <2>1 DEF CacheGood
      <4>1. keptText'[Bundle] \in {NoFile, building[s]}
        BY <1>0, <2>0, <3>1
      <4> QED BY <2>3, <3>1, <4>1 DEF Hit
    <3>2. CASE a # Bundle
      <4>2. keptText'[Bundle] = keptText[Bundle] /\ keptTime'[Bundle] = keptTime[Bundle]
        BY <1>0, <2>0, <3>2
      <4>3. Hit(Bundle)' => Hit(Bundle)
        BY <2>0, <4>2 DEF Hit, AuthorsKept
      <4>4. Fresh(<<Bundle, "file">>)' => Fresh(<<Bundle, "file">>)
        <5>1. Inputs(Bundle)' = Inputs(Bundle)
          BY <2>0, SameFiles DEF AuthorsKept
        <5> QED BY <1>00, <2>0, <5>1, StillFresh DEF AuthorsKept
      <4> QED BY <2>1, <2>2, <4>2, <4>3, <4>4 DEF CacheGood
    <3> QED BY <3>1, <3>2
  <2>5. BuildingGood'
    BY <1>0, <2>0, <2>1, <2>2 DEF BuildingGood
  <2>6. StoringGood'
    BY <1>0, <2>0, <2>1, <2>2 DEF StoringGood
  <2> QED BY <2>1, <2>4, <2>5, <2>6
<1> HIDE DEF Good
<1>12. Scripted' => Good
  BY <1>1, <1>2, <1>3, <1>4, <1>5, <1>6, <1>8, <1>9, <1>10, <1>11 DEF PageNext, Load
<1> QED BY <1>12 DEF UpToDate, Good

(* A browser runs more only when it fetches.                                   *)
LEMMA RunsMerged ==
    ASSUME PagesTyped, PagesTyped', LeftBehind, UpToDate, [PageNext]_pageVars, NEW s \in Sessions,
           AnswersBundle(s), ~KeptPastChange
    PROVE  ran'[s] = ran[s] \o Merged
<1>1. /\ FreshMeans /\ FreshMeans' /\ Scripted
      /\ Len(ran'[s]) > Len(ran[s]) /\ Head(left[s]) = Bundle
  BY FreshMeant, FreshMeantNext DEF AnswersBundle, Scripted
<1>2. ran \in [Sessions -> Content]
  BY DEF PagesTyped
<1>3. ran'[s] # ran[s]
  <2>1. Len(ran[s]) \in Nat
    BY <1>2, LenProperties DEF Content
  <2> QED BY <1>1, <2>1
<1>4. ASSUME NEW w \in Sessions, OpenPage(w) PROVE FALSE
  BY <1>3, <1>4 DEF OpenPage, Receive
<1>5. ASSUME NEW w \in Sessions, SaveBundle(w) \/ SavePage(w) \/ SaveStored(w) \/ Keep(w) \/ Finish(w) PROVE FALSE
  BY <1>3, <1>5 DEF SaveBundle, SavePage, Receive, SaveStored, Keep, Finish
<1>6. ASSUME NEW a, EditAsset(a) \/ EditTemplate PROVE FALSE
  BY <1>3, <1>6 DEF EditAsset, EditTemplate, Edits, browser
<1>7. ASSUME UNCHANGED pageVars PROVE FALSE
  BY <1>3, <1>7 DEF pageVars, browser
<1>8. ASSUME NEW w \in Sessions, Fetch(w) PROVE ran'[s] = ran[s] \o Merged
  <2>1. \E v : ran' = [ran EXCEPT ![w] = v]
    BY <1>8, FetchIs DEF RunsAndGoesOn, Runs, Put
  <2>2. w = s
    BY <1>2, <1>3, <2>1
  <2>3. ran' = [ran EXCEPT ![s] = ran[s] \o Merged]
    BY <1>1, <1>8, <2>2, FetchUpToDate
  <2> QED BY <1>2, <2>3
<1> QED BY <1>4, <1>5, <1>6, <1>7, <1>8 DEF PageNext, Load

(* The bundle of a page that names no script after itself is answered as it    *)
(* would be merged from the files as they are now, whatever is on disk or in   *)
(* the text cache from earlier requests and whatever other browsers are        *)
(* building, unless a file changed while what was made of it was on its way to *)
(* the disk or the cache, or a valid entry of the text cache answers for a     *)
(* bundle on disk that is older than what it is merged from.                   *)
THEOREM ScriptsAreCurrent == PageSpec => BundleIsCurrent
<1>1. PageInit => LeftBehind
  <2> SUFFICES ASSUME PageInit, NEW s \in Sessions PROVE EndsIn(left[s], tags[s]) /\ left[s] = << >>
    BY DEF LeftBehind
  <2>1. left[s] = << >> /\ tags[s] = << >> /\ Len(<< >>) = 0
    BY EmptySeq DEF PageInit
  <2> QED BY <2>1 DEF EndsIn
<1>2. /\ PagesTyped /\ PagesTyped' /\ LeftBehind /\ UpToDate /\ [PageNext]_pageVars => UpToDate'
  BY UpToDateStep
<1>3. PagesTyped /\ PagesTyped' /\ LeftBehind /\ UpToDate /\ [PageNext]_pageVars
      => [\A s \in Sessions : AnswersBundle(s) /\ ~KeptPastChange => ran'[s] = ran[s] \o Merged]_pageVars
  BY RunsMerged
<1> QED BY <1>1, <1>2, <1>3, PagesInitially, PagesStep, LeftStep, UpToDateInitially, PTL DEF PageSpec, BundleIsCurrent

--------------------------------------------------------------------------------
(* Bundles run every asset once.                                               *)

(* A page of which nothing was changed yet.  What its bundle has to be is fixed*)
(* by the template: the first version of each asset to be merged, in order.    *)
Named == {t \in Range(template) : t \notin Excluded \cup {External, Missing}}
Names == Only(template, Named)
Merge == Starts(Names)
(* What runs of a page besides scripts from elsewhere.                         *)
Own == (Assets \ {External}) \X Nat
Once == /\ changes = 0 /\ languages /\ Names # << >>
        /\ (Bundle \notin Range(template) \/ (kind = "js" /\ Last(Names) = Bundle))
(* Before any change the files are the first ones, but for the bundle, which is*)
(* missing, an asset of that name, or the merge; and a browser that fetches has*)
(* the bundle before it or behind it, in which case it ran the merge.          *)
Untouched == changes = 0 => \A t \in Assets \ {Bundle} : files[t] = IF t = Missing THEN NoFile ELSE First(t)
FilesOnce ==
  /\ files[Bundle] = Merge \/ files[Bundle] = IF Bundle \in Range(template) THEN First(Bundle) ELSE NoFile
  /\ page = NoFile \/ IsMerged(page)
  /\ memory \in {NoFile, Merge} /\ stored[Bundle] \in {NoFile, Merge} /\ keptText[Bundle] \in {NoFile, Merge}
  /\ development => page = NoFile
  /\ ~development /\ page # NoFile => files[Bundle] = Merge
SomeOnce(s) ==
  /\ at[s] \in {"start", "saveBundle", "savePage"} => ran[s] = << >>
  /\ at[s] \in {"saveBundle", "savePage"} => IsMerged(tags[s]) /\ ~development
  /\ at[s] \in {"saveBundle", "saveStored", "keep"} => building[s] = Merge
  /\ at[s] \in {"savePage", "fetch", "saveStored", "keep", "done"} =>
        IF development THEN memory = Merge ELSE files[Bundle] = Merge
  /\ at[s] \in {"fetch", "saveStored", "keep", "done"} =>
        \/ IsMerged(left[s]) /\ Only(ran[s], Own) = << >>
        \/ Range(left[s]) \subseteq {External} /\ Only(ran[s], Own) = Merge
  /\ at[s] = "done" => left[s] = << >>
RunsOnce == Untouched /\ (Once => FilesOnce /\ \A s \in Sessions : SomeOnce(s))

(* The assets to be merged are named once each; the merge has one segment each.*)
LEMMA NamesTyped ==
    ASSUME PagesTyped
    PROVE  /\ Names \in Seq(Named) /\ Names \in Seq(Assets) /\ IsInjective(Names) /\ Range(Names) = Named
           /\ Named \subseteq Assets \ {External, Missing}
           /\ Merge \in Content /\ Merge \in Seq(Own) /\ Len(Merge) = Len(Names) /\ DOMAIN Merge = DOMAIN Names
           /\ Only(Merge, Own) = Merge /\ (Names # << >> => Merge # NoFile)
           /\ \A i \in DOMAIN Names : Names[i] \in Named /\ Merge[i] = <<Names[i], 0>>
<1>1. Named \subseteq Range(template) /\ Named \subseteq Assets \ {External, Missing}
  BY PageTemplates DEF Named
<1>2. Names \in Seq(Assets \cap Named) /\ Names \in Seq(Assets)
  BY PageTemplates, OnlyTyped DEF Names
<1>3. Range(Names) = Range(template) \cap Named /\ IsInjective(Names)
  BY PageTemplates, OnlyRange DEF Names
<1>4. Names \in Seq(Named)
  BY <1>2, SeqMonotonic
<1>5. Len(Names) \in Nat /\ DOMAIN Names = 1..Len(Names) /\ \A i \in 1..Len(Names) : Names[i] \in Named
  BY <1>4, LenProperties, ElementOfSeq
<1>6. Merge \in [1..Len(Names) -> Own]
  BY <1>1, <1>5 DEF Merge, Starts, Own
<1>7. Merge \in Seq(Own) /\ Len(Merge) = Len(Names) /\ DOMAIN Merge = 1..Len(Names)
  <2>1. Merge \in Seq(Own)
    BY <1>5, <1>6, SeqDef
  <2>2. DOMAIN Merge = 1..Len(Merge) /\ Len(Merge) \in Nat
    BY <2>1, LenProperties
  <2> QED BY <1>5, <1>6, <2>1, <2>2
<1>8. Merge \in Content
  <2>1. Own \subseteq Assets \X Nat
    BY DEF Own
  <2> QED BY <1>7, <2>1, SeqMonotonic DEF Content
<1>9. Only(Merge, Own) = Merge
  BY <1>7, OnlyAll
<1>10. Names # << >> => Merge # NoFile
  BY <1>4, <1>7, EmptySeq DEF NoFile
<1>11. \A i \in DOMAIN Names : Names[i] \in Named /\ Merge[i] = <<Names[i], 0>>
  BY <1>5 DEF Merge, Starts
<1> QED BY <1>1, <1>2, <1>3, <1>4, <1>5, <1>7, <1>8, <1>9, <1>10, <1>11

(* Until the author changes something, what is merged is what the template     *)
(* names.                                                                      *)
LEMMA LocalsNamed ==
    ASSUME PagesTyped, Untouched, changes = 0, Bundle \in Range(template) => files[Bundle] # NoFile
    PROVE  Local = Named /\ Locals = Names
<1>1. Range(template) \subseteq Assets
  BY PageTemplates
<1>2. \A t \in Range(template) \ {Bundle} : files[t] = NoFile <=> t = Missing
  <2>1. \A t : First(t) # NoFile
    BY DEF First, NoFile
  <2> QED BY <1>1, <2>1 DEF Untouched
<1>3. Bundle # Missing
  BY DEF Bundle, Missing
<1>4. Local = Named
  BY <1>2, <1>3 DEF Local, Named
<1> QED BY <1>4 DEF Locals, Names

(* Merging makes the merge, also out of a bundle that was written over one of  *)
(* its sources: it begins with what stands before that source, or it is that   *)
(* source and comes behind them.                                               *)
LEMMA MergesWhole ==
    ASSUME PagesTyped, Untouched, Once, FilesOnce
    PROVE  Local = Named /\ Locals = Names /\ Merged = Merge
<1> DEFINE n == Len(Names)
           S == Assets \X Nat
<1>0. /\ Names \in Seq(Named) /\ Names \in Seq(Assets) /\ IsInjective(Names) /\ Range(Names) = Named
      /\ Named \subseteq Assets \ {External, Missing} /\ Merge \in Seq(S) /\ Len(Merge) = n
      /\ Merge # NoFile /\ Names # << >> /\ changes = 0
      /\ DOMAIN Names = 1..n /\ n \in Nat \ {0}
      /\ \A i \in 1..n : Names[i] \in Named /\ Merge[i] = <<Names[i], 0>>
  BY NamesTyped, EmptySeq, LenProperties DEF Once, Content
<1>1. Local = Named /\ Locals = Names
  <2>1. Bundle \in Range(template) => files[Bundle] # NoFile
    <3>1. First(Bundle) # NoFile
      BY DEF First, NoFile
    <3> QED BY <1>0, <3>1 DEF FilesOnce
  <2> QED BY <1>0, <2>1, LocalsNamed
<1>2. files \in [Assets -> Seq(S)] /\ Bundle \in Assets
  BY PageTemplates DEF PagesTyped, Content
<1>3. \A t \in Named \ {Bundle} : files[t] = First(t)
  BY <1>0 DEF Untouched
<1>4. CASE Bundle \notin Range(template)
  <2>1. Bundle \notin Named
    BY <1>4 DEF Named
  <2>2. Merged = Contents(Names)
    BY <1>0, <1>1, <2>1 DEF Merged
  <2>3. Contents(Names) = Flat(files, Names)
    BY <1>0, ContentsTyped
  <2>4. Flat(files, Names) = Starts(Names)
    <3>1. \A t \in Named : files[t] = First(t)
      BY <1>3, <2>1
    <3>2. Named \subseteq Assets
      BY <1>0
    <3>3. Names \in Seq(Named) /\ files \in [Assets -> Seq(Assets \X Nat)]
      BY <1>0, <1>2
    <3> HIDE DEF S
    <3> QED BY <3>1, <3>2, <3>3, FlatFresh, ZenonT(60)
  <2> QED BY <1>1, <2>2, <2>3, <2>4 DEF Merge
<1>5. CASE Bundle \in Range(template)
  <2>0. kind = "js" /\ Names[n] = Bundle
    BY <1>5 DEF Once, Last
  <2> DEFINE place == CHOOSE i \in DOMAIN Locals : Locals[i] = Bundle
             front == SubSeq(Locals, 1, place - 1)
             before == Contents(front)
  <2>1. place = n
    <3>1. n \in DOMAIN Names
      BY <1>0
    <3>2. \A i \in DOMAIN Names : Names[i] = Bundle => i = n
      BY <1>0, <2>0, <3>1 DEF IsInjective
    <3> HIDE DEF n
    <3> QED BY <1>1, <2>0, <3>1, <3>2
  <2>2. Merged = IF before # << >> /\ IsPrefix(before, files[Bundle]) THEN files[Bundle]
                 ELSE before \o files[Bundle]
    <3>1. ~(kind = "css" \/ Bundle \notin Range(Locals))
      <4>1. Bundle \in Range(Names)
        BY <1>0, <2>0 DEF Range
      <4> QED BY <1>1, <2>0, <4>1
    <3> QED BY <3>1, Zenon DEF Merged
  <2>3. /\ front \in Seq(Assets) /\ Len(front) = n - 1 /\ \A i \in 1..(n - 1) : front[i] = Names[i]
    <3>1. n - 1 \in Nat /\ n - 1 <= Len(Names)
      BY <1>0
    <3> HIDE DEF n, place
    <3> QED BY <1>0, <1>1, <2>1, <3>1, BeginningOf
  <2> HIDE DEF place, front
  <2>4. front \in Seq(Named \ {Bundle}) /\ DOMAIN front = 1..(n - 1)
    <3>1. DOMAIN front = 1..(n - 1)
      BY <2>3, LenProperties
    <3>2. \A i \in 1..(n - 1) : front[i] \in Named \ {Bundle}
      <4> TAKE i \in 1..(n - 1)
      <4>1. i \in 1..n /\ n \in 1..n /\ i # n
        BY <1>0
      <4>2. Names[i] # Names[n]
        BY <1>0, <4>1 DEF IsInjective
      <4> QED BY <1>0, <2>0, <2>3, <4>1, <4>2
    <3>3. front = [i \in 1..(n - 1) |-> front[i]]
      BY <2>3, <3>1, LenProperties
    <3>4. front \in [1..(n - 1) -> Named \ {Bundle}] /\ n - 1 \in Nat
      <4> HIDE DEF n
      <4> QED BY <1>0, <3>2, <3>3
    <3> QED BY <3>1, <3>4, SeqDef
  <2>5. before = [i \in DOMAIN front |-> <<front[i], 0>>]
    <3>1. before = Flat(files, front)
      BY <2>3, ContentsTyped
    <3>2. Named \ {Bundle} \subseteq Assets
      BY <1>0
    <3>3. files \in [Assets -> Seq(Assets \X Nat)]
      BY <1>2
    <3>4. Flat(files, front) = Starts(front)
      <4> DEFINE R == Named \ {Bundle}
      <4>1. R \subseteq Assets /\ front \in Seq(R) /\ \A a \in R : files[a] = First(a)
        BY <1>3, <2>4, <3>2
      <4> HIDE DEF R
      <4> QED BY <3>3, <4>1, FlatFresh, ZenonT(60)
    <3> QED BY <3>1, <3>4 DEF Starts
  <2>6. before \in Seq(S) /\ Len(before) = n - 1 /\ \A i \in 1..(n - 1) : before[i] = <<Names[i], 0>> /\ before[i] = Merge[i]
    <3>1. before \in Seq(S)
      BY <2>3, ContentsTyped DEF Content
    <3> HIDE DEF before
    <3>2. DOMAIN before = 1..(n - 1) /\ \A i \in 1..(n - 1) : before[i] = <<Names[i], 0>>
      BY <2>3, <2>4, <2>5
    <3>3. Len(before) = n - 1
      <4>1. DOMAIN before = 1..Len(before) /\ Len(before) \in Nat
        BY <3>1, LenProperties
      <4>2. n - 1 \in Nat
        BY <1>0
      <4> QED BY <3>2, <4>1, <4>2
    <3>4. \A i \in 1..(n - 1) : i \in 1..n
      BY <1>0
    <3> QED BY <1>0, <3>1, <3>2, <3>3, <3>4
  <2> HIDE DEF before
  <2>7. before = << >> <=> n = 1
    <3>1. before = << >> <=> Len(before) = 0
      <4> HIDE DEF S
      <4> QED BY <2>6, EmptySeq
    <3> QED BY <1>0, <2>6, <3>1
  <2>8. CASE files[Bundle] = Merge
    <3>1. IsPrefix(before, Merge)
      <4>1. Len(before) <= Len(Merge)
        BY <1>0, <2>6
      <4>2. \A i \in 1..Len(before) : before[i] = Merge[i]
        BY <2>6
      <4> HIDE DEF S
      <4> QED BY <1>0, <2>6, <4>1, <4>2, PrefixIs
    <3>2. before = << >> => before \o files[Bundle] = files[Bundle]
      BY <1>2, ConcatEmptySeq
    <3>3. Merged = Merge
      BY <2>2, <2>8, <3>1, <3>2
    <3> QED BY <1>1, <3>3
  <2>9. CASE files[Bundle] = First(Bundle)
    <3>0. /\ First(Bundle) \in Seq(S) /\ Len(First(Bundle)) = 1 /\ First(Bundle)[1] = <<Bundle, 0>>
          /\ <<Bundle, 0>> \in S
      BY <1>2 DEF First
    <3>1. before # << >> => ~IsPrefix(before, files[Bundle])
      <4> SUFFICES ASSUME before # << >>, IsPrefix(before, First(Bundle)) PROVE FALSE
        BY <2>9
      <4>1. 1 \in 1..Len(before) /\ 1 \in 1..(n - 1)
        BY <1>0, <2>6, <2>7
      <4>2. before[1] = First(Bundle)[1]
        <5> HIDE DEF S
        <5> QED BY <2>6, <3>0, <4>1, PrefixIs
      <4>3. Names[1] = Bundle
        BY <2>6, <3>0, <4>1, <4>2
      <4>4. 1 \in 1..n /\ n \in 1..n /\ 1 # n
        <5>1. n \in Nat /\ 1 \in 1..(n - 1)
          BY <1>0, <4>1
        <5> HIDE DEF n
        <5> QED BY <5>1
      <4> QED BY <1>0, <2>0, <4>3, <4>4 DEF IsInjective
    <3>2. Merged = before \o <<<<Bundle, 0>>>>
      BY <2>2, <2>9, <3>1 DEF First
    <3> DEFINE e == <<Bundle, 0>>
               x == before \o <<e>>
    <3>3. Len(x) = n /\ x[n] = e /\ \A i \in 1..(n - 1) : x[i] = before[i]
      <4>1. n \in Nat /\ n = Len(before) + 1
        BY <1>0, <2>6
      <4> HIDE DEF S, e, n
      <4> QED BY <2>6, <3>0, <4>1, OneMoreBehind, SMTT(30) DEF e
    <3>4. x \in Seq(S)
      BY <2>6, <3>0, ConcatProperties DEF First
    <3>5. \A i \in 1..n : x[i] = Merge[i]
      <4> TAKE i \in 1..n
      <4>1. i \in 1..(n - 1) \/ i = n
        BY <1>0
      <4>2. Merge[n] = e
        BY <1>0, <2>0
      <4> HIDE DEF x, e
      <4> QED BY <2>6, <3>3, <4>1, <4>2
    <3>6. x = Merge
      <4> HIDE DEF x, S
      <4> QED BY <1>0, <3>3, <3>4, <3>5, SeqEqual
    <3> QED BY <1>1, <3>2, <3>6
  <2> QED BY <1>5, <2>8, <2>9 DEF FilesOnce
<1> QED BY <1>4, <1>5

(* The tags of a merged page behind the first: the bundle stands in one place. *)
LEMMA MergedTail ==
    ASSUME NEW S, NEW l \in Seq(S), l # << >>
    PROVE  /\ IsMerged(l) /\ Head(l) = Bundle => Range(Tail(l)) \subseteq {External}
           /\ IsMerged(l) /\ Head(l) # Bundle => Head(l) = External /\ IsMerged(Tail(l))
           /\ Range(l) \subseteq {External} => Head(l) = External /\ Range(Tail(l)) \subseteq {External}
<1> DEFINE r == Tail(l)
           n == Len(l)
<1>1. /\ n \in Nat \ {0} /\ DOMAIN l = 1..n /\ Head(l) = l[1]
      /\ DOMAIN r = 1..(n - 1) /\ \A i \in 1..(n - 1) : r[i] = l[i + 1]
  BY EmptySeq, HeadTailProperties, LenProperties
<1>2. Bundle # External
  BY DEF Bundle, External
<1> HIDE DEF n, r
<1>3. 1 \in 1..n /\ \A i \in 1..(n - 1) : i + 1 \in 1..n /\ i + 1 # 1
  BY <1>1
<1>4. ASSUME IsMerged(l), l[1] = Bundle PROVE Range(r) \subseteq {External}
  <2>0. PICK b \in DOMAIN l : \A i \in DOMAIN l : l[i] = IF i = b THEN Bundle ELSE External
    BY <1>4, Zenon DEF IsMerged
  <2>1. b \in 1..n /\ \A i \in 1..n : l[i] = IF i = b THEN Bundle ELSE External
    BY <1>1, <2>0
  <2>2. b = 1
    BY <1>2, <1>3, <1>4, <2>1
  <2>3. \A i \in 1..(n - 1) : r[i] = External
    BY <1>1, <1>3, <2>1, <2>2
  <2> QED BY <1>1, <2>3 DEF Range
<1>5. ASSUME IsMerged(l), l[1] # Bundle PROVE l[1] = External /\ IsMerged(r)
  <2>0. PICK b \in DOMAIN l : \A i \in DOMAIN l : l[i] = IF i = b THEN Bundle ELSE External
    BY <1>5, Zenon DEF IsMerged
  <2>1. b \in 1..n /\ \A i \in 1..n : l[i] = IF i = b THEN Bundle ELSE External
    BY <1>1, <2>0
  <2>2. b # 1 /\ l[1] = External
    BY <1>3, <1>5, <2>1
  <2>3. b - 1 \in 1..(n - 1)
    BY <1>1, <2>1, <2>2
  <2>4. \A i \in 1..(n - 1) : r[i] = IF i = b - 1 THEN Bundle ELSE External
    <3> TAKE i \in 1..(n - 1)
    <3>1. r[i] = l[i + 1] /\ i + 1 \in 1..n /\ (i + 1 = b <=> i = b - 1)
      BY <1>1, <1>3, <2>1
    <3> QED BY <2>1, <3>1
  <2>5. IsMerged(r)
    <3>1. b - 1 \in DOMAIN r /\ \A i \in DOMAIN r : r[i] = IF i = b - 1 THEN Bundle ELSE External
      BY <1>1, <2>3, <2>4
    <3> QED BY <3>1, Zenon DEF IsMerged
  <2> QED BY <2>2, <2>5
<1>6. ASSUME Range(l) \subseteq {External} PROVE l[1] = External /\ Range(r) \subseteq {External}
  <2>1. \A i \in 1..n : l[i] = External
    BY <1>1, <1>6 DEF Range
  <2> QED BY <1>1, <1>3, <2>1 DEF Range
<1> QED BY <1>1, <1>4, <1>5, <1>6 DEF r

(* What fixes the merge is fixed until the author changes something.           *)
LEMMA OnceFrame ==
    ASSUME kind' = kind, template' = template, languages' = languages, changes' = changes
    PROVE  Names' = Names /\ Merge' = Merge /\ (Once' <=> Once)
<1>1. Named' = Named
  BY DEF Named
<1>2. Names' = Names
  BY <1>1 DEF Names
<1>3. Merge' = Merge
  BY <1>2 DEF Merge, Starts
<1>4. Last(Names)' = Last(Names)
  BY <1>2 DEF Last
<1> QED BY <1>2, <1>3, <1>4 DEF Once, Range

(* What stays true of one browser while another moves.                         *)
Reached(s) ==
  /\ at'[s] = at[s] /\ tags'[s] = tags[s] /\ left'[s] = left[s] /\ ran'[s] = ran[s] /\ building'[s] = building[s]
BuiltStays == /\ development' = development /\ (memory = Merge => memory' = Merge)
              /\ (files[Bundle] = Merge => files'[Bundle] = Merge)

LEMMA OtherOnce ==
    ASSUME Merge' = Merge, BuiltStays, NEW s \in Sessions, SomeOnce(s), Reached(s)
    PROVE  SomeOnce(s)'
<1>1. IF development THEN memory = Merge => memory' = Merge ELSE files[Bundle] = Merge => files'[Bundle] = Merge
  BY DEF BuiltStays
<1> QED BY <1>1 DEF SomeOnce, Reached, BuiltStays

(* A browser opens the page: as it was built before, or built for it.          *)
LEMMA OpenOnce ==
    ASSUME PagesTyped, Untouched, Once, FilesOnce, \A w \in Sessions : SomeOnce(w), Once', Merge' = Merge,
           NEW s \in Sessions, OpenPage(s)
    PROVE  FilesOnce' /\ \A w \in Sessions : SomeOnce(w)'
<1>0. /\ languages /\ at[s] = "start" /\ files' = files /\ page' = page /\ stored' = stored
      /\ development' = development /\ template' = template /\ ran' = ran /\ keptText' = keptText
  BY DEF OpenPage, Receive, config, onDisk, textCache, Once
<1>1. Locals = Names /\ Merged = Merge /\ Names # << >> /\ IsMerged(MergedTags) /\ Merge # NoFile
  <2>1. Locals = Names /\ Merged = Merge /\ Names # << >>
    BY MergesWhole DEF Once
  <2> QED BY <2>1, TagsMerged, NamesTyped
<1>2. /\ at \in [Sessions -> Places] /\ tags \in [Sessions -> Seq(Assets)]
      /\ left \in [Sessions -> Seq(Assets)] /\ building \in [Sessions -> Content]
  BY DEF PagesTyped, Places
<1>3. ran[s] = << >> /\ Only(<< >>, Own) = << >>
  BY <1>0, OnlyNothing DEF SomeOnce
<1>4. \A w \in Sessions : w # s => Reached(w)
  BY <1>0, <1>2 DEF OpenPage, Receive, Put, Reached
<1>5. ASSUME NEW html, Receive(s, html), IsMerged(html), IF development THEN memory' = Merge ELSE files[Bundle] = Merge
      PROVE  SomeOnce(s)'
  <2>1. at'[s] = "fetch" /\ left'[s] = html
    BY <1>2, <1>5 DEF Receive, Put
  <2> QED BY <1>0, <1>3, <1>5, <2>1 DEF SomeOnce
<1>6. BuiltStays /\ memory' \in {NoFile, Merge} /\ SomeOnce(s)'
  <2>1. CASE page # NoFile
    <3>1. Receive(s, page) /\ memory' = memory
      BY <1>0, <2>1 DEF OpenPage
    <3>2. IsMerged(page) /\ ~development /\ files[Bundle] = Merge /\ memory \in {NoFile, Merge}
      BY <2>1 DEF FilesOnce
    <3>3. SomeOnce(s)'
      BY <1>5, <3>1, <3>2
    <3> QED BY <1>0, <3>1, <3>2, <3>3 DEF BuiltStays
  <2>2. CASE page = NoFile /\ development
    <3>1. Receive(s, MergedTags) /\ memory' = Merge
      BY <1>0, <1>1, <2>2 DEF OpenPage
    <3>2. SomeOnce(s)'
      BY <1>1, <1>5, <2>2, <3>1
    <3> QED BY <1>0, <3>1, <3>2 DEF BuiltStays
  <2>3. CASE page = NoFile /\ ~development
    <3>1. /\ at' = [at EXCEPT ![s] = "saveBundle"] /\ tags' = [tags EXCEPT ![s] = MergedTags]
          /\ building' = [building EXCEPT ![s] = Merge] /\ memory' = memory
      BY <1>0, <1>1, <2>3 DEF OpenPage, Put
    <3>2. at'[s] = "saveBundle" /\ tags'[s] = MergedTags /\ building'[s] = Merge
      BY <1>2, <3>1
    <3>3. SomeOnce(s)'
      BY <1>0, <1>1, <1>3, <2>3, <3>2 DEF SomeOnce
    <3>4. memory \in {NoFile, Merge}
      BY DEF FilesOnce
    <3> QED BY <1>0, <3>1, <3>3, <3>4 DEF BuiltStays
  <2> QED BY <2>1, <2>2, <2>3
<1>7. FilesOnce'
  BY <1>0, <1>6 DEF FilesOnce, Range
<1>8. ASSUME NEW w \in Sessions PROVE SomeOnce(w)'
  BY <1>4, <1>6, OtherOnce
<1> QED BY <1>7, <1>8

(* A builder writes the bundle, the page or the obfuscated bundle.             *)
LEMMA SavesOnce ==
    ASSUME PagesTyped, Once, FilesOnce, \A w \in Sessions : SomeOnce(w), Merge' = Merge,
           NEW s \in Sessions, SaveBundle(s) \/ SavePage(s) \/ SaveStored(s) \/ Keep(s) \/ Finish(s)
    PROVE  FilesOnce' /\ \A w \in Sessions : SomeOnce(w)'
<1>0. /\ development' = development /\ template' = template /\ memory' = memory /\ ran' = ran /\ building' = building
  BY DEF SaveBundle, SavePage, SaveStored, Keep, Finish, Receive, config, onDisk
<1>1. /\ at \in [Sessions -> Places] /\ tags \in [Sessions -> Seq(Assets)]
      /\ left \in [Sessions -> Seq(Assets)] /\ files \in [Assets -> Content] /\ stored \in [Assets -> Content]
      /\ Bundle \in Assets /\ Merge # NoFile /\ Only(<< >>, Own) = << >> /\ keptText \in [Assets -> Content]
  BY PageTemplates, NamesTyped, OnlyNothing DEF PagesTyped, Places, Once
<1>2. \A w \in Sessions : w # s => Reached(w)
  BY <1>0, <1>1 DEF SaveBundle, SavePage, SaveStored, Keep, Finish, Receive, Put, Reached
<1>3. ASSUME BuiltStays, SomeOnce(s)' PROVE \A w \in Sessions : SomeOnce(w)'
  BY <1>2, <1>3, OtherOnce
<1>4. SomeOnce(s)
  OBVIOUS
<1>5. CASE SaveBundle(s)
  <2>1. /\ at[s] = "saveBundle" /\ at' = [at EXCEPT ![s] = "savePage"] /\ tags' = tags /\ left' = left
        /\ files' = [files EXCEPT ![Bundle] = building[s]] /\ page' = page /\ stored' = stored
    BY <1>5 DEF SaveBundle, Put
  <2>2. files'[Bundle] = Merge /\ at'[s] = "savePage"
    BY <1>1, <1>4, <2>1 DEF SomeOnce
  <2>3. BuiltStays /\ SomeOnce(s)'
    BY <1>0, <1>4, <2>1, <2>2 DEF BuiltStays, SomeOnce
  <2>5. keptText' = keptText
    BY <1>5 DEF SaveBundle, textCache
  <2>4. FilesOnce'
    BY <1>0, <2>1, <2>2, <2>5 DEF FilesOnce
  <2> QED BY <1>3, <2>3, <2>4
<1>6. CASE SavePage(s)
  <2>1. /\ at[s] = "savePage" /\ at' = [at EXCEPT ![s] = "fetch"] /\ tags' = [tags EXCEPT ![s] = tags[s]]
        /\ left' = [left EXCEPT ![s] = tags[s]] /\ page' = tags[s] /\ files' = files /\ stored' = stored
    BY <1>6 DEF SavePage, Receive, Put
  <2>2. at'[s] = "fetch" /\ left'[s] = tags[s] /\ IsMerged(tags[s]) /\ ~development /\ files[Bundle] = Merge /\ ran[s] = << >>
    BY <1>1, <1>4, <2>1 DEF SomeOnce
  <2>3. BuiltStays /\ SomeOnce(s)'
    BY <1>0, <1>1, <2>1, <2>2 DEF BuiltStays, SomeOnce
  <2>5. keptText' = keptText
    BY <1>6 DEF SavePage, textCache
  <2>4. FilesOnce'
    BY <1>0, <2>1, <2>2, <2>5 DEF FilesOnce, Range
  <2> QED BY <1>3, <2>3, <2>4
<1>7. CASE SaveStored(s)
  <2> DEFINE a == tags[s][Len(tags[s]) - Len(left[s])]
  <2>1. /\ at[s] = "saveStored" /\ at' = [at EXCEPT ![s] = IF caching THEN "keep" ELSE "fetch"]
        /\ tags' = tags /\ left' = left /\ keptText' = keptText
        /\ files' = files /\ page' = page /\ stored' = [stored EXCEPT ![a] = building[s]]
    BY <1>7 DEF SaveStored, Put, Fetched, textCache
  <2> HIDE DEF a
  <2>2. at'[s] \in {"keep", "fetch"} /\ building[s] = Merge /\ stored'[Bundle] \in {stored[Bundle], Merge}
    BY <1>1, <1>4, <2>1 DEF SomeOnce
  <2>3. BuiltStays /\ SomeOnce(s)'
    BY <1>0, <1>4, <2>1, <2>2 DEF BuiltStays, SomeOnce
  <2>4. FilesOnce'
    BY <1>0, <2>1, <2>2 DEF FilesOnce, Range
  <2> QED BY <1>3, <2>3, <2>4
<1>8. CASE Finish(s)
  <2>1. /\ at[s] = "fetch" /\ at' = [at EXCEPT ![s] = "done"] /\ tags' = tags /\ left' = left
        /\ files' = files /\ page' = page /\ stored' = stored /\ left[s] = << >> /\ keptText' = keptText
    BY <1>8 DEF Finish, Put, onDisk, textCache
  <2>2. at'[s] = "done"
    BY <1>1, <2>1
  <2>3. BuiltStays /\ SomeOnce(s)'
    BY <1>0, <1>4, <2>1, <2>2 DEF BuiltStays, SomeOnce
  <2>4. FilesOnce'
    BY <1>0, <2>1 DEF FilesOnce, Range
  <2> QED BY <1>3, <2>3, <2>4
<1>9. CASE Keep(s)
  <2> DEFINE a == Fetched(s)
  <2>1. /\ at[s] = "keep" /\ at' = [at EXCEPT ![s] = "fetch"] /\ tags' = tags /\ left' = left
        /\ files' = files /\ page' = page /\ stored' = stored
        /\ keptText' = [keptText EXCEPT ![a] = IF files[a] = NoFile THEN NoFile ELSE building[s]]
    BY <1>9 DEF Keep, Put, onDisk
  <2> HIDE DEF a
  <2>2. at'[s] = "fetch" /\ building[s] = Merge /\ keptText'[Bundle] \in {keptText[Bundle], NoFile, Merge}
    BY <1>1, <1>4, <2>1 DEF SomeOnce
  <2>3. BuiltStays /\ SomeOnce(s)'
    BY <1>0, <1>4, <2>1, <2>2 DEF BuiltStays, SomeOnce
  <2>4. FilesOnce'
    BY <1>0, <2>1, <2>2 DEF FilesOnce, Range
  <2> QED BY <1>3, <2>3, <2>4
<1> QED BY <1>5, <1>6, <1>7, <1>8, <1>9

(* A browser fetches the bundle - from memory, from the text cache, as it is on *)
(* disk, merged again or obfuscated before - or a script from elsewhere.       *)
LEMMA FetchOnce ==
    ASSUME PagesTyped, Untouched, Once, FilesOnce, \A w \in Sessions : SomeOnce(w), Merge' = Merge,
           NEW s \in Sessions, Fetch(s)
    PROVE  FilesOnce' /\ \A w \in Sessions : SomeOnce(w)'
<1> DEFINE a == Head(left[s])
           l == left[s]
           o == Only(ran[s], Own)
<1>00. PICK c : RunsAndGoesOn(s, c) /\ ComesFrom(a, c)
  BY FetchIs
<1>0. /\ development' = development /\ template' = template /\ memory' = memory /\ tags' = tags /\ files' = files
      /\ page' = page /\ stored' = stored /\ at[s] = "fetch" /\ l # << >>
      /\ left' = [left EXCEPT ![s] = Tail(l)] /\ ran' = [ran EXCEPT ![s] = ran[s] \o c]
  BY <1>00 DEF Fetch, config, onDisk, RunsAndGoesOn, Runs, Put
<1>1. /\ at \in [Sessions -> Places] /\ building \in [Sessions -> Content] /\ ran \in [Sessions -> Content]
      /\ left \in [Sessions -> Seq(Assets)] /\ l \in Seq(Assets) /\ keptText \in [Assets -> Content]
  BY DEF PagesTyped, Places
<1>2. /\ Merge # NoFile /\ Merge \in Content /\ Only(Merge, Own) = Merge /\ Names # << >>
      /\ Bundle \notin Excluded /\ Bundle # External /\ Bundle \in Assets
  BY NamesTyped, PageTemplates DEF Once
<1>3. SomeOnce(s) /\ IF development THEN memory = Merge ELSE files[Bundle] = Merge
  BY <1>0 DEF SomeOnce
<1>4. \/ at' = at /\ building' = building
      \/ \E p \in {"saveStored", "keep"} : /\ at' = [at EXCEPT ![s] = p]
                                          /\ building' = [building EXCEPT ![s] = c]
  BY <1>00 DEF RunsAndGoesOn
<1>5. keptText'[Bundle] \in {keptText[Bundle], NoFile}
  <2>1. keptText' = keptText \/ keptText' = [keptText EXCEPT ![a] = NoFile]
    BY Zenon DEF Fetch, textCache, Put
  <2> HIDE DEF a
  <2> QED BY <1>1, <1>2, <2>1
<1>6. \A w \in Sessions : w # s => Reached(w)
  BY <1>0, <1>1, <1>4 DEF Reached
<1>7. SomeOnce(s)'
  <2>1. \/ IsMerged(l) /\ o = << >>
        \/ Range(l) \subseteq {External} /\ o = Merge
    BY <1>0, <1>3 DEF SomeOnce
  <2>2. left'[s] = Tail(l)
    BY <1>0, <1>1
  <2>3. CASE a = External
    <3> DEFINE e == <<External, 0>>
    <3>1. ran' = [ran EXCEPT ![s] = ran[s] \o <<e>>] /\ at' = at
      BY <1>0, <1>00, <2>3 DEF ComesFrom
    <3>2. Only(ran[s] \o <<e>>, Own) = o
      <4> DEFINE S == Assets \X Nat
      <4>1. e \notin Own
        BY DEF Own
      <4>2. a \in Assets
        BY <1>0, <1>1, HeadTailProperties
      <4>3. e \in S
        BY <2>3, <4>2
      <4>4. ran[s] \in Seq(S)
        BY <1>1 DEF Content
      <4> HIDE DEF S, e
      <4>5. Append(ran[s], e) = ran[s] \o <<e>>
        BY <4>3, <4>4, AppendIsConcat
      <4>6. Only(Append(ran[s], e), Own) = Only(ran[s], Own)
        BY <4>1, <4>3, <4>4, OnlyMore
      <4> QED BY <4>5, <4>6
    <3> HIDE DEF e
    <3>3. at'[s] = "fetch" /\ Only(ran'[s], Own) = o
      BY <1>0, <1>1, <3>1, <3>2
    <3>4. \/ IsMerged(left'[s]) /\ o = << >>
          \/ Range(left'[s]) \subseteq {External} /\ o = Merge
      BY <1>0, <1>1, <1>2, <2>1, <2>2, <2>3, MergedTail
    <3> HIDE DEF l, a, o
    <3> QED BY <1>0, <1>3, <3>3, <3>4 DEF SomeOnce
  <2>4. CASE a # External
    <3>1. IsMerged(l) /\ o = << >> /\ a = Bundle /\ Range(Tail(l)) \subseteq {External}
      BY <1>0, <1>1, <2>1, <2>4, MergedTail
    <3>2. development \/ Current(a) = Merge
      <4>1. Locals = Names /\ Merged = Merge
        BY MergesWhole
      <4>2. Current(a) = files[a] \/ (Current(a) = Merged)
        BY DEF Current
      <4> QED BY <1>3, <3>1, <4>1, <4>2
    <3>3. c = Merge
      <4>1. \/ c = keptText[a] /\ c # NoFile
            \/ FromMemory(a) /\ c = memory
            \/ ~FromMemory(a) /\ c = Current(a)
            \/ stored[a] # NoFile /\ c = stored[a]
        BY <1>00, <2>4 DEF ComesFrom, Hit
      <4>2. stored[a] # NoFile => stored[a] = Merge
        BY <3>1 DEF FilesOnce
      <4>3. keptText[a] # NoFile => keptText[a] = Merge
        BY <3>1 DEF FilesOnce
      <4>4. FromMemory(a) => memory = Merge
        BY <1>3 DEF FromMemory
      <4>5. ~FromMemory(a) => ~development
        BY <1>2, <1>3, <3>1 DEF FromMemory
      <4> HIDE DEF a
      <4> QED BY <3>2, <4>1, <4>2, <4>3, <4>4, <4>5
    <3>4. ran' = [ran EXCEPT ![s] = ran[s] \o Merge]
      BY <1>0, <3>3
    <3>5. Only(ran[s] \o Merge, Own) = Merge
      <4> DEFINE S == Assets \X Nat
      <4>1. ran[s] \in Seq(S) /\ Merge \in Seq(S)
        BY <1>1, <1>2 DEF Content
      <4> HIDE DEF S
      <4>2. Only(ran[s] \o Merge, Own) = Only(ran[s], Own) \o Only(Merge, Own)
        <5>1. ASSUME NEW x \in Seq(S), NEW y \in Seq(S) PROVE Only(x \o y, Own) = Only(x, Own) \o Only(y, Own)
          BY OnlyOfBoth
        <5> QED BY <4>1, <5>1
      <4>3. << >> \o Merge = Merge
        BY <4>1, ConcatEmptySeq
      <4> QED BY <1>2, <3>1, <4>2, <4>3
    <3>6. ran'[s] = ran[s] \o Merge
      BY <1>1, <3>4
    <3>7. at'[s] = "fetch" \/ (at'[s] \in {"saveStored", "keep"} /\ building'[s] = Merge)
      BY <1>0, <1>1, <1>4, <3>3
    <3> HIDE DEF l, a, o
    <3> QED BY <1>0, <1>3, <2>2, <3>1, <3>5, <3>6, <3>7 DEF SomeOnce
  <2> QED BY <2>3, <2>4
<1>8. BuiltStays
  BY <1>0 DEF BuiltStays
<1>9. FilesOnce'
  BY <1>0, <1>5 DEF FilesOnce, Range
<1>10. ASSUME NEW w \in Sessions PROVE SomeOnce(w)'
  BY <1>6, <1>7, <1>8, OtherOnce
<1> QED BY <1>9, <1>10

(* The steps, and the author, who ends the time before any change.             *)
LEMMA OnceStep == PagesTyped /\ RunsOnce /\ [PageNext]_pageVars => RunsOnce'
<1> SUFFICES ASSUME PagesTyped, RunsOnce, [PageNext]_pageVars PROVE RunsOnce'
  OBVIOUS
<1> DEFINE Good == Once' => FilesOnce' /\ \A w \in Sessions : SomeOnce(w)'
<1>1. ASSUME NEW f, Edits(f) PROVE Untouched' /\ Good
  <2>1. changes \in Nat /\ changes' = changes + 1
    BY <1>1 DEF Edits, PagesTyped
  <2>2. changes' # 0
    BY <2>1
  <2> QED BY <2>2 DEF Untouched, Once
<1>2. ASSUME NEW s \in Sessions, Load(s) PROVE Untouched' /\ Good
  <2>1. kind' = kind /\ template' = template /\ languages' = languages /\ changes' = changes
    BY <1>2 DEF Load, OpenPage, SaveBundle, SavePage, Fetch, SaveStored, Keep, Finish, config, onDisk
  <2>2. Merge' = Merge /\ (Once' <=> Once)
    BY <2>1, OnceFrame
  <2>3. Untouched'
    <3>1. files' = files \/ \E v : files' = [files EXCEPT ![Bundle] = v]
      BY <1>2 DEF Load, OpenPage, SaveBundle, SavePage, Fetch, SaveStored, Keep, Finish, onDisk
    <3>2. files \in [Assets -> Content] /\ Untouched
      BY DEF PagesTyped, RunsOnce
    <3>3. \A t \in Assets \ {Bundle} : files'[t] = files[t]
      BY <3>1, <3>2
    <3> QED BY <2>1, <3>2, <3>3 DEF Untouched
  <2>4. ASSUME Once' PROVE FilesOnce' /\ \A w \in Sessions : SomeOnce(w)'
    <3>1. Untouched /\ Once /\ FilesOnce /\ \A w \in Sessions : SomeOnce(w)
      BY <2>2, <2>4 DEF RunsOnce
    <3>2. CASE OpenPage(s)
      BY <2>2, <2>4, <3>1, <3>2, OpenOnce
    <3>3. CASE SaveBundle(s) \/ SavePage(s) \/ SaveStored(s) \/ Keep(s) \/ Finish(s)
      BY <2>2, <3>1, <3>3, SavesOnce
    <3>4. CASE Fetch(s)
      BY <2>2, <3>1, <3>4, FetchOnce
    <3> QED BY <1>2, <3>2, <3>3, <3>4 DEF Load
  <2> QED BY <2>3, <2>4
<1>3. ASSUME UNCHANGED pageVars PROVE Untouched' /\ Good
  <2>1. /\ kind' = kind /\ template' = template /\ languages' = languages /\ changes' = changes
        /\ files' = files /\ page' = page /\ memory' = memory /\ stored' = stored /\ development' = development
        /\ at' = at /\ tags' = tags /\ left' = left /\ ran' = ran /\ building' = building
        /\ keptText' = keptText
    BY <1>3 DEF pageVars, config, onDisk, browser, textCache
  <2>2. Merge' = Merge /\ (Once' <=> Once)
    BY <2>1, OnceFrame
  <2>3. Untouched'
    BY <2>1 DEF RunsOnce, Untouched
  <2>4. ASSUME Once' PROVE FilesOnce' /\ \A w \in Sessions : SomeOnce(w)'
    <3>1. FilesOnce /\ \A w \in Sessions : SomeOnce(w)
      BY <2>2, <2>4 DEF RunsOnce
    <3>2. FilesOnce'
      BY <2>1, <2>2, <3>1 DEF FilesOnce, Range
    <3>3. BuiltStays /\ \A w \in Sessions : Reached(w)
      BY <2>1 DEF BuiltStays, Reached
    <3> QED BY <2>2, <3>1, <3>2, <3>3, OtherOnce
  <2> QED BY <2>3, <2>4
<1>4. (\E f : Edits(f)) \/ (\E s \in Sessions : Load(s)) \/ UNCHANGED pageVars
  BY DEF PageNext, EditAsset, EditTemplate
<1> HIDE DEF Good
<1>5. Untouched' /\ Good
  BY <1>1, <1>2, <1>3, <1>4
<1> QED BY <1>5 DEF RunsOnce, Good

LEMMA OnceInitially == PageInit => RunsOnce
<1> SUFFICES ASSUME PageInit PROVE RunsOnce
  OBVIOUS
<1>0. Bundle \in Assets /\ Bundle # Missing
  BY PagesInitially, PageTemplates DEF Missing, Bundle
<1>1. Untouched
  BY DEF PageInit, Untouched, First
<1>2. FilesOnce
  <2>1. files[Bundle] = IF Bundle \in Range(template) THEN First(Bundle) ELSE NoFile
    BY <1>0 DEF PageInit, First
  <2>2. page = NoFile /\ memory = NoFile /\ stored[Bundle] = NoFile /\ keptText[Bundle] = NoFile
    BY <1>0 DEF PageInit
  <2> QED BY <2>1, <2>2 DEF FilesOnce
<1>3. ASSUME NEW s \in Sessions PROVE SomeOnce(s)
  <2>1. at[s] = "start" /\ ran[s] = << >>
    BY DEF PageInit
  <2> QED BY <2>1 DEF SomeOnce
<1> QED BY <1>1, <1>2, <1>3 DEF RunsOnce

(* However many browsers load a page that nobody has built yet, and however    *)
(* their builds interleave, each runs every asset to be merged exactly once, in*)
(* the order of the template.                                                  *)
THEOREM BundlesRunEach == PageSpec => []BundleRunsEach
<1>1. PagesTyped /\ RunsOnce => BundleRunsEach
  <2> SUFFICES ASSUME PagesTyped, RunsOnce, NEW s \in Sessions, at[s] = "done", changes = 0, languages,
                      MergesWell, Locals # << >>
               PROVE  Only(ran[s], (Assets \ {External}) \X Nat) = [i \in DOMAIN Locals |-> <<Locals[i], 0>>]
    BY DEF BundleRunsEach
  <2>1. Bundle \in Range(template) => kind = "js" /\ Last(Locals) = Bundle /\ files[Bundle] # NoFile
    <3> SUFFICES ASSUME Bundle \in Range(template) PROVE kind = "js" /\ Last(Locals) = Bundle /\ files[Bundle] # NoFile
      OBVIOUS
    <3>1. kind = "js" /\ Last(Locals) = Bundle
      BY DEF MergesWell
    <3>2. Locals \in Seq(Local)
      BY LocalAssets
    <3>3. Last(Locals) \in Local
      BY <3>2, FrontAndLast
    <3> QED BY <3>1, <3>3 DEF Local
  <2>2. Locals = Names
    BY <2>1, LocalsNamed DEF RunsOnce
  <2>3. Once
    BY <2>1, <2>2 DEF Once
  <2>4. SomeOnce(s)
    BY <2>3 DEF RunsOnce
  <2>5. ~IsMerged(<< >>)
    <3>1. DOMAIN << >> = {}
      OBVIOUS
    <3> QED BY <3>1 DEF IsMerged
  <2>6. Only(ran[s], Own) = Merge
    BY <2>4, <2>5 DEF SomeOnce
  <2> QED BY <2>2, <2>6 DEF Merge, Starts, Own
<1> QED BY <1>1, PagesInitially, PagesStep, OnceInitially, OnceStep, PTL DEF PageSpec
================================================================================
