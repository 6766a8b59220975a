------------------------------ MODULE TextFiles ------------------------------
(* Pages, scripts and style sheets: the text branch of
   ResponseWriter::sendFileAsync with the three things it remembers between
   requests - TextResponseCache, the owner cache of ServerData
   (findMergedAssetOwnerPagePath) and the page gates it asks.

   "page" is a page, "asset" a script of the name of that page's merged bundle:
   in the versions of Owning the page merges "source", a script of another name,
   into it.  JSBuilder loads the file, compares times and merges in steps of its
   own, and writes nothing; what is cached is what it made, under the modification
   time of the file that is looked up afterwards.  Obfuscation is PageBuild's.  *)
EXTENDS Integers, SequencesExt

CONSTANTS Sessions,   \* connections that ask for one file each
          Owning,     \* versions of the page that merge scripts into the asset
          Size,       \* bytes of each response
          MaxEntry,   \* getTextResponseCacheMaxEntryBytes
          MaxTotal,   \* getTextResponseCacheMaxTotalBytes
          MaxEdits,   \* bound: changes of the files on disk
          MaxGates    \* bound: additions and removals of the page's gate

Files == {"page", "asset"}
Disk == Files \cup {"source"}
Absent == 0
NoTime == -1
Nothing == << >>

TextAssumption == /\ Size \in [Files -> Nat \ {0}] /\ Owning \subseteq Nat \ {Absent}
                  /\ {MaxEntry, MaxTotal, MaxEdits, MaxGates} \subseteq Nat

VARIABLES version, \* what each file holds, Absent when it was removed
          mtime,   \* its modification time
          edits, gates, \* changes made so far
          gated,   \* a page gate matches the page
          entries, \* TextResponseCache::_entries
          total,   \* TextResponseCache::_totalBytes
          owner,   \* ServerData::_mergedAssetOwnerCache of the asset
          ownerOf, \* the page's version the owner was found in
          at, file, \* where each session is, and the file it asks for
          asked,   \* it has put its question to the gate
          due,     \* when it decided, the file was behind the gate as far as it could know
          found,   \* the version of the page it read last
          got,     \* what it sends: <<version of the file>>, or <<page, source>> merged
          stamp,   \* the modification time it will store
          raced    \* files changed without a trace in the modification time

diskVars == <<version, mtime, edits>>
gateVars == <<gates, gated>>
cacheVars == <<entries, total>>
ownerVars == <<owner, ownerOf>>
sessionVars == <<at, file, asked, due, found, got, stamp>>
vars == <<diskVars, gateVars, cacheVars, ownerVars, sessionVars, raced>>

Owns == version["page"] \in Owning
Put(f, s, v) == [f EXCEPT ![s] = v]

Init == /\ version = [f \in Disk |-> 1] /\ mtime = [f \in Disk |-> 1] /\ edits = 0
        /\ gates = 0 /\ gated \in BOOLEAN
        /\ entries = << >> /\ total = 0 /\ owner = "unset" /\ ownerOf = Absent /\ raced = {}
        /\ at = [s \in Sessions |-> "ask"] /\ file \in [Sessions -> Files]
        /\ asked = [s \in Sessions |-> FALSE] /\ due = asked
        /\ found = [s \in Sessions |-> Absent]
        /\ got = [s \in Sessions |-> Nothing] /\ stamp = [s \in Sessions |-> NoTime]

-----------------------------------------------------------------------------
(* Who may read: the gate of the page, or of the page that owns the asset.   *)

\* Mutant: the gate is asked for pages only.
PerRequestPages(s, who) == file[s] = "page" /\ gated
PerRequest(s, who) == gated /\ (file[s] = "page" \/ who = "page")

\* basis: the version of the page the owner was found in.
Decide(s, who, basis) ==
  /\ at' = Put(at, s, IF PerRequest(s, who) THEN "access" ELSE "lookup")
  /\ due' = Put(due, s, gated /\ (file[s] = "page" \/ (Owns /\ basis = version["page"])))
  /\ UNCHANGED <<file, asked, found, got, stamp>>

\* No gate at all: no owner is looked for and none is remembered.
Ask(s) ==
  /\ at[s] = "ask"
  /\ IF file[s] = "asset" /\ gated
       THEN IF owner # "unset" THEN Decide(s, owner, ownerOf)
            ELSE at' = Put(at, s, "resolve") /\ UNCHANGED <<file, asked, due, found, got, stamp>>
       ELSE Decide(s, "none", ownerOf)
  /\ UNCHANGED <<diskVars, gateVars, cacheVars, ownerVars, raced>>

\* findMergedAssetOwnerPage reads the page outside the lock ...
Resolve(s) ==
  /\ at[s] = "resolve" /\ at' = Put(at, s, IF Owns THEN "keepPage" ELSE "keepNone")
  /\ found' = Put(found, s, version["page"])
  /\ UNCHANGED <<diskVars, gateVars, cacheVars, ownerVars, raced, file, asked, due, got, stamp>>

\* ... and what it found, or that it found nothing, is kept for good.
Keep(s) ==
  /\ at[s] \in {"keepPage", "keepNone"}
  /\ owner' = (IF at[s] = "keepPage" THEN "page" ELSE "none") /\ ownerOf' = found[s]
  /\ Decide(s, owner', ownerOf')
  /\ UNCHANGED <<diskVars, gateVars, cacheVars, raced>>

Access(s) ==
  /\ at[s] = "access"
  /\ \E allowed \in BOOLEAN : at' = Put(at, s, IF allowed THEN "build" ELSE "denied")
  /\ asked' = Put(asked, s, TRUE)
  /\ UNCHANGED <<diskVars, gateVars, cacheVars, ownerVars, raced, file, due, found, got, stamp>>

-----------------------------------------------------------------------------
(* The cache.                                                                *)

Without(f) == [g \in DOMAIN entries \ {f} |-> entries[g]]
Cost(F) == MapThenSumSet(LAMBDA f : Size[f], F)

\* Mutant: an entry is good for as long as it is there.
ValidForEver(f) == f \in DOMAIN entries
Valid(f) == /\ f \in DOMAIN entries /\ entries[f].mtime # NoTime
            /\ version[f] # Absent /\ entries[f].mtime = mtime[f]

\* TextResponseCache::lookup, one step under its mutex.
Lookup(s) ==
  /\ at[s] = "lookup"
  /\ IF Valid(file[s])
       THEN /\ at' = Put(at, s, "served") /\ got' = Put(got, s, entries[file[s]].content)
            /\ UNCHANGED cacheVars
       ELSE /\ at' = Put(at, s, "build") /\ UNCHANGED got
            /\ entries' = Without(file[s])
            /\ total' = total - Cost({file[s]} \cap DOMAIN entries)
  /\ UNCHANGED <<diskVars, gateVars, ownerVars, raced, file, asked, due, found, stamp>>

\* Where a response goes that is made; one that is empty is a 404, or a 503 when
\* its file is there by then.
After(s, content) == IF content = Nothing THEN "notfound"
                     ELSE IF asked[s] \/ Size[file[s]] > MaxEntry \/ MaxTotal = 0 THEN "served"
                     ELSE "stamp"

Loaded(f) == IF version[f] = Absent THEN Nothing ELSE <<version[f]>>

\* processTextContent: ContentBuilder reads the file, and is done with a page.
Load(s) ==
  /\ at[s] = "build" /\ got' = Put(got, s, Loaded(file[s]))
  /\ at' = Put(at, s, IF file[s] = "asset" THEN "check" ELSE After(s, Loaded(file[s])))
  /\ UNCHANGED <<diskVars, gateVars, cacheVars, ownerVars, raced, file, asked, due, found, stamp>>

\* The bundle is older than the page or the script that is merged into it.
Outdated == mtime["asset"] < mtime["page"] \/ mtime["asset"] < mtime["source"]

\* tryReuseOnDiskMergedBundle: what was loaded will do.
Check(s) ==
  /\ at[s] = "check"
  /\ at' = Put(at, s, IF got[s] # Nothing /\ Owns /\ ~Outdated THEN After(s, got[s]) ELSE "merge")
  /\ UNCHANGED <<diskVars, gateVars, cacheVars, ownerVars, raced, file, asked, due, found, got, stamp>>

\* tryTemplateMergedJs reads the page once more ...
Template(s) ==
  /\ at[s] = "merge" /\ found' = Put(found, s, version["page"])
  /\ at' = Put(at, s, IF Owns THEN "sources" ELSE After(s, got[s]))
  /\ UNCHANGED <<diskVars, gateVars, cacheVars, ownerVars, raced, file, asked, due, got, stamp>>

\* ... and then what it names.
Merge(s) ==
  LET merged == <<found[s], version["source"]>> IN
  /\ at[s] = "sources" /\ got' = Put(got, s, merged) /\ at' = Put(at, s, After(s, merged))
  /\ UNCHANGED <<diskVars, gateVars, cacheVars, ownerVars, raced, file, asked, due, found, stamp>>

\* TextResponseCache::store reads the modification time before it locks.
Stamp(s) ==
  /\ at[s] = "stamp" /\ at' = Put(at, s, "insert")
  /\ stamp' = Put(stamp, s, IF version[file[s]] = Absent THEN NoTime ELSE mtime[file[s]])
  /\ UNCHANGED <<diskVars, gateVars, cacheVars, ownerVars, raced, file, asked, due, found, got>>

\* Its own key first, then entries of any age until the new one fits or the
\* cache is empty: one that alone exceeds the total is stored all the same.
Insert(s) ==
  LET f == file[s] IN
  /\ at[s] = "insert" /\ at' = Put(at, s, "served")
  /\ \E kept \in SUBSET (DOMAIN entries \ {f}) :
       /\ Cost(kept) + Size[f] <= MaxTotal \/ kept = {}
       /\ \/ kept = DOMAIN entries \ {f}
          \/ \E last \in DOMAIN entries \ ({f} \cup kept) :
                 Cost(kept \cup {last}) + Size[f] > MaxTotal
       /\ entries' = [g \in kept \cup {f} |->
                        IF g = f THEN [content |-> got[s], mtime |-> stamp[s]] ELSE entries[g]]
       /\ total' = Cost(kept) + Size[f]
  /\ UNCHANGED <<diskVars, gateVars, ownerVars, raced, file, asked, due, found, got, stamp>>

-----------------------------------------------------------------------------
(* The world: files are edited and removed, gates come and go.               *)

Building == {"check", "merge", "sources", "stamp"}

\* A second edit within the file system's clock tick leaves the time as it was,
\* and an edit while a response is made of the file goes into its entry's time.
\* The script that is merged is only edited.
Edit(f) ==
  /\ edits < MaxEdits /\ edits' = edits + 1
  /\ \E v \in {edits + 2} \cup ({Absent} \ {version[f]}) :
        (f = "source" => v # Absent) /\ version' = Put(version, f, v)
  /\ \E t \in {mtime[f], edits + 2} :
       /\ mtime' = Put(mtime, f, t)
       /\ raced' = IF t = mtime[f] \/ \E s \in Sessions : file[s] = f /\ at[s] \in Building
                     THEN raced \cup {f} ELSE raced
  /\ UNCHANGED <<gateVars, cacheVars, ownerVars, sessionVars>>

SwitchGate ==
  /\ gates < MaxGates /\ gates' = gates + 1 /\ gated' = ~gated
  /\ UNCHANGED <<diskVars, cacheVars, ownerVars, sessionVars, raced>>

\* The next request on the connection.
Again(s) ==
  /\ at[s] \in {"served", "denied", "notfound"} /\ at' = Put(at, s, "ask")
  /\ \E f \in Files : file' = Put(file, s, f)
  /\ asked' = Put(asked, s, FALSE) /\ due' = Put(due, s, FALSE)
  /\ found' = Put(found, s, Absent) /\ got' = Put(got, s, Nothing) /\ stamp' = Put(stamp, s, NoTime)
  /\ UNCHANGED <<diskVars, gateVars, cacheVars, ownerVars, raced>>

Step(s) == \/ Ask(s) \/ Resolve(s) \/ Keep(s) \/ Access(s) \/ Lookup(s) \/ Load(s)
           \/ Check(s) \/ Template(s) \/ Merge(s) \/ Stamp(s) \/ Insert(s) \/ Again(s)
Next == (\E s \in Sessions : Step(s)) \/ (\E f \in Disk : Edit(f)) \/ SwitchGate
Spec == Init /\ [][Next]_vars

-----------------------------------------------------------------------------
(* Properties.                                                               *)

\* The cache's count is the sum of what it holds, and it is within the limit or
\* holds one response alone (an entry limit above the total limit allows that).
TotalExact == /\ total = Cost(DOMAIN entries)
              /\ total <= MaxTotal \/ Cardinality(DOMAIN entries) = 1

\* What a builder makes of a file as everything is now, and from what.
Made(f) == IF f = "asset" /\ Owns /\ (version[f] = Absent \/ Outdated)
             THEN <<version["page"], version["source"]>> ELSE Loaded(f)
MadeFrom(f) == IF f = "asset" THEN Disk ELSE {f}

\* A merged script, cached or to be made, whose file is older than what is merged
\* into it: TextResponseCache::lookup asks for the time of that file alone, and
\* nobody wrote the file when the script was merged.
MergedPastChange(f, content) == f = "asset" /\ Outdated /\ (Owns \/ Len(content) = 2)

\* A response from the cache is what would be made of the files now - unless it
\* is a merged script and the page or a source changed after the bundle on disk;
\* or a file it is made from changed without a trace in its time: while the
\* response was made of it, or twice within one tick of the file system's clock.
CachedIsCurrent ==
  [][\A s \in Sessions : at[s] = "lookup" /\ at'[s] = "served"
       => \/ got'[s] = Made(file[s])
          \/ MergedPastChange(file[s], got'[s])
          \/ raced \cap MadeFrom(file[s]) # {}]_vars

\* What is behind a gate is sent only when the gate was asked, the merged
\* script of a gated page included - except that the owner of a script is
\* remembered from its first request on, so that a page which merges it only in
\* a later version leaves it unguarded.
GateAsked == \A s \in Sessions : at[s] = "served" /\ due[s] => asked[s]
=============================================================================
