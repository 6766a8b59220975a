----------------------------- MODULE PageBuild -----------------------------
(* Building a page and its merged scripts or style sheets: HtmlBuilder,
   AssetMerger, JSBuilder, CSSBuilder, the files they leave behind, and the
   TextResponseCache that answers for them (ResponseWriter::sendFileAsync).

   One page, "home", is written from a template: a sequence of tags that name
   assets.  Merging replaces the tags by one that names the bundle, a file
   called after the page - which is also the name of an asset the template may
   refer to itself.  Content is a sequence of segments <<asset, version>>;
   obfuscation and comment removal keep the segments.  Assets lie directly in
   their directory, and asset merging is on.  The text cache is large enough for
   them; its limits, and how its store is taken apart, are TextFiles'.        *)
EXTENDS Integers, SequencesExt, Functions

CONSTANTS Sessions,  \* browsers, each of which loads the page once
          Templates, \* what the author may write: sequences of distinct tags
          Excluded,  \* addObfuscationExclusion
          MaxChanges \* bound: changes by the author

Bundle == "home"                  \* the page's name, and its bundle's
External == "ext"                 \* a tag with an http:// or // address
Missing == "gone"                 \* a tag that names no file
Assets == {Bundle} \cup UNION {Range(t) : t \in Templates}
NoFile == << >>
Page == <<Bundle, "template">>    \* the template, where modification times are kept

ASSUME PageAssumption == /\ MaxChanges \in Nat /\ Templates \subseteq Seq(STRING)
                         /\ \A t \in Templates : IsInjective(t)
                         /\ Excluded \subseteq Assets \ {Bundle, External, Missing}

VARIABLES kind,     \* "js" or "css": the two are merged alike, but not rebuilt alike
          development, languages, obfuscate, \* the configuration
          caching,                    \* the text cache takes the responses
          template, files,            \* the author's files: tags, asset -> content
          page,                       \* html/en/home.html: tags, or NoFile
          stored,                     \* .obfuscated.js: asset -> content
          memory,                     \* DevAssetCache: the bundle
          keptText, keptTime,         \* TextResponseCache: content, and its file's time
          time,                       \* modification times; 0 for a file that was always there
          clock, changes,
          at, tags, left, ran,        \* a browser: the page it got, what is left to fetch, what ran
          building,                   \* what a builder of this browser is about to write
          overtaken                   \* an input changed between its reading and a writing

config == <<kind, development, languages, obfuscate, caching>>
textCache == <<keptText, keptTime>>
onDisk == <<template, files, page, stored, time, clock>>
browser == <<at, tags, left, ran, building>>
pageVars == <<config, onDisk, memory, textCache, changes, browser, overtaken>>

\* The members of S in s, in their order: SelectSeq with a set for its test.
Only(s, S) ==
  LET only[n \in 0..Len(s)] ==
        IF n = 0 THEN << >> ELSE IF s[n] \in S THEN Append(only[n - 1], s[n]) ELSE only[n - 1]
  IN only[Len(s)]

Local == {t \in Range(template) : t \notin Excluded \cup {External} /\ files[t] # NoFile}
Locals == Only(template, Local)

PageInit ==
  /\ kind \in {"js", "css"} /\ development \in BOOLEAN /\ languages \in BOOLEAN
  /\ obfuscate \in IF development \/ kind = "css" THEN {FALSE} ELSE BOOLEAN
  /\ caching \in IF development THEN {FALSE} ELSE BOOLEAN
  /\ template \in Templates
  /\ files = [a \in Assets |->
               IF a = Missing \/ (a = Bundle /\ Bundle \notin Range(template))
                 THEN NoFile ELSE <<<<a, 0>>>>]
  /\ page = NoFile /\ stored = [a \in Assets |-> NoFile] /\ memory = NoFile
  /\ keptText = [a \in Assets |-> NoFile] /\ keptTime = [a \in Assets |-> 0]
  /\ time = [f \in {Page} \cup (Assets \X {"file", "stored"}) |-> 0]
  /\ clock = 0 /\ changes = 0 /\ overtaken = FALSE
  /\ at = [s \in Sessions |-> "start"] /\ tags = [s \in Sessions |-> << >>]
  /\ left = [s \in Sessions |-> << >>] /\ ran = [s \in Sessions |-> << >>]
  /\ building = [s \in Sessions |-> NoFile]

Put(f, s, v) == [f EXCEPT ![s] = v]
Stamp(f) == clock' = clock + 1 /\ time' = [time EXCEPT ![f] = clock + 1]
Newest(F) == CHOOSE t \in {time[f] : f \in F} : \A f \in F : time[f] <= t

-----------------------------------------------------------------------------
(* AssetMerger.                                                              *)

Contents(names) == FlattenSeq([i \in DOMAIN names |-> files[names[i]]])

\* Mutant: every file is taken as a fresh segment.
MergedAfresh == Contents(Locals)

\* mergeJsFilesResolvingBundleWriteback: when a source has the bundle's path,
\* what is in that file may be the bundle itself.  Scripts after it are lost.
Merged ==
  IF kind = "css" \/ Bundle \notin Range(Locals) THEN Contents(Locals)
  ELSE LET place == CHOOSE i \in DOMAIN Locals : Locals[i] = Bundle
           before == Contents(SubSeq(Locals, 1, place - 1))
       IN IF before # << >> /\ IsPrefix(before, files[Bundle]) THEN files[Bundle]
          ELSE before \o files[Bundle]

\* processHtml: every tag but the external ones goes - those of excluded and
\* of missing files too - and the bundle stands where the first one stood.
MergedTags ==
  LET first == CHOOSE i \in DOMAIN template :
                 template[i] # External /\ \A j \in 1..(i - 1) : template[j] = External
  IN IF Locals = << >> THEN template
     ELSE SubSeq(template, 1, first - 1) \o <<Bundle>>
            \o Only(SubSeq(template, first + 1, Len(template)), {External})

-----------------------------------------------------------------------------
(* A page: HtmlBuilder::buildHtml and processAssetMerging.                   *)

Receive(s, html) == /\ tags' = Put(tags, s, html) /\ left' = Put(left, s, html)
                    /\ at' = Put(at, s, "fetch") /\ UNCHANGED <<ran, building>>

\* A file at the page's own path is served as it is: a page built before, or,
\* on a site without languages, the template.
OpenPage(s) ==
  /\ at[s] = "start"
  /\ IF ~languages THEN Receive(s, template) /\ UNCHANGED memory
     ELSE IF page # NoFile THEN Receive(s, page) /\ UNCHANGED memory
     ELSE IF development
       THEN /\ Receive(s, MergedTags)
            /\ memory' = IF Locals = << >> THEN memory ELSE Merged
     ELSE /\ at' = Put(at, s, IF Locals = << >> THEN "savePage" ELSE "saveBundle")
          /\ tags' = Put(tags, s, MergedTags)
          /\ building' = Put(building, s, Merged) /\ UNCHANGED <<left, ran, memory>>
  /\ UNCHANGED <<config, onDisk, textCache, changes, overtaken>>

SaveBundle(s) ==
  /\ at[s] = "saveBundle" /\ at' = Put(at, s, "savePage")
  /\ files' = [files EXCEPT ![Bundle] = building[s]] /\ Stamp(<<Bundle, "file">>)
  /\ UNCHANGED <<config, template, page, stored, memory, textCache, changes, tags, left, ran,
                 building, overtaken>>

SavePage(s) ==
  /\ at[s] = "savePage" /\ page' = tags[s] /\ Receive(s, tags[s])
  /\ UNCHANGED <<config, template, files, stored, time, clock, memory, textCache, changes, overtaken>>

-----------------------------------------------------------------------------
(* An asset: JSBuilder::builJS, CSSBuilder.                                  *)

Inputs(a) == IF a = Bundle /\ Locals # << >>
               THEN {Page} \cup {<<t, "file">> : t \in Range(Locals)}
               ELSE {<<a, "file">>}

\* Mutant: the bundle is compared with the template alone.
FreshForTemplate(f) == time[f] >= time[Page]

\* tryReuseOnDiskMergedBundle and the two cache checks, but for the expiry.
Fresh(f) == time[f] >= Newest(Inputs(f[1]))

\* tryReuseOnDiskMergedBundle, or tryTemplateMergedJs, which writes nothing.
Current(a) ==
  IF kind = "css" \/ a # Bundle \/ a \in Excluded \/ Locals = << >> THEN files[a]
  ELSE IF ~development /\ files[a] # NoFile /\ Fresh(<<a, "file">>) THEN files[a]
  ELSE Merged

Runs(s, content) == /\ ran' = Put(ran, s, ran[s] \o content)
                    /\ left' = Put(left, s, Tail(left[s])) /\ UNCHANGED tags
Serves(s, content) == Runs(s, content) /\ UNCHANGED <<at, building>>

\* What a builder made is kept under the path of the script.
Delivers(s, content) ==
  IF caching THEN /\ Runs(s, content) /\ at' = Put(at, s, "keep")
                  /\ building' = Put(building, s, content)
  ELSE Serves(s, content)

Build(s, a) ==
  IF development /\ a = Bundle /\ memory # NoFile THEN Serves(s, memory)
  ELSE IF ~obfuscate \/ a \in Excluded THEN Delivers(s, Current(a))
  ELSE \/ stored[a] # NoFile /\ Fresh(<<a, "stored">>) /\ Delivers(s, stored[a])
       \/ /\ Runs(s, Current(a)) /\ at' = Put(at, s, "saveStored")
          /\ building' = Put(building, s, Current(a))

\* TextResponseCache::lookup: the time of the file the request names, alone.
Hit(a) == keptText[a] # NoFile /\ files[a] # NoFile /\ keptTime[a] = time[<<a, "file">>]

Fetch(s) ==
  LET a == Head(left[s]) IN
  /\ at[s] = "fetch" /\ left[s] # << >>
  /\ \/ a = External /\ Serves(s, <<<<External, 0>>>>) /\ UNCHANGED textCache
     \/ a # External /\ Hit(a) /\ Serves(s, keptText[a]) /\ UNCHANGED textCache
     \/ /\ a # External /\ ~Hit(a) /\ Build(s, a)
        /\ keptText' = Put(keptText, a, NoFile) /\ UNCHANGED keptTime
  /\ UNCHANGED <<config, onDisk, memory, changes, overtaken>>

Fetched(s) == tags[s][Len(tags[s]) - Len(left[s])]

\* obfuscateAndCache: the file is stamped when it is written, not when its
\* sources were read.
SaveStored(s) ==
  /\ at[s] = "saveStored" /\ at' = Put(at, s, IF caching THEN "keep" ELSE "fetch")
  /\ stored' = [stored EXCEPT ![Fetched(s)] = building[s]] /\ Stamp(<<Fetched(s), "stored">>)
  /\ UNCHANGED <<config, template, files, page, memory, textCache, changes, tags, left, ran,
                 building, overtaken>>

\* TextResponseCache::store; what has no file has no time, and is no entry.
Keep(s) ==
  LET a == Fetched(s) IN
  /\ at[s] = "keep" /\ at' = Put(at, s, "fetch")
  /\ keptText' = Put(keptText, a, IF files[a] = NoFile THEN NoFile ELSE building[s])
  /\ keptTime' = Put(keptTime, a, time[<<a, "file">>])
  /\ UNCHANGED <<config, onDisk, memory, changes, tags, left, ran, building, overtaken>>

Finish(s) == /\ at[s] = "fetch" /\ left[s] = << >> /\ at' = Put(at, s, "done")
             /\ UNCHANGED <<config, onDisk, memory, textCache, changes, tags, left, ran, building, overtaken>>

-----------------------------------------------------------------------------
(* The author.                                                               *)

Edits(f) ==
  /\ changes < MaxChanges /\ changes' = changes + 1 /\ Stamp(f)
  /\ overtaken' = (overtaken \/ \E s \in Sessions : at[s] \in {"saveBundle", "saveStored", "keep"})
  /\ UNCHANGED <<config, page, stored, memory, textCache, browser>>

\* The author works on what the page names.
EditAsset(a) == /\ a \in Range(template) /\ files[a] # NoFile /\ Edits(<<a, "file">>)
                /\ files' = [files EXCEPT ![a] = <<<<a, changes + 1>>>>] /\ UNCHANGED template

EditTemplate == \E t \in Templates : /\ t # template /\ template' = t
                                     /\ Edits(Page) /\ UNCHANGED files

Load(s) == \/ OpenPage(s) \/ SaveBundle(s) \/ SavePage(s)
           \/ Fetch(s) \/ SaveStored(s) \/ Keep(s) \/ Finish(s)

PageNext ==
  \/ \E s \in Sessions : Load(s)
  \/ \E a \in Assets \ {External} : EditAsset(a)
  \/ EditTemplate

PageSpec == PageInit /\ [][PageNext]_pageVars

-----------------------------------------------------------------------------
(* Properties.                                                               *)

Content == Seq(Assets \X Nat)
PagesTyped ==
  /\ kind \in {"js", "css"} /\ development \in BOOLEAN /\ languages \in BOOLEAN /\ obfuscate \in BOOLEAN
  /\ caching \in BOOLEAN
  /\ template \in Templates /\ files \in [Assets -> Content] /\ page \in Seq(Assets)
  /\ stored \in [Assets -> Content] /\ memory \in Content
  /\ keptText \in [Assets -> Content] /\ keptTime \in [Assets -> 0..clock]
  /\ time \in [{Page} \cup (Assets \X {"file", "stored"}) -> 0..clock]
  /\ clock \in Nat /\ changes \in Nat /\ overtaken \in BOOLEAN
  /\ at \in [Sessions -> {"start", "saveBundle", "savePage", "fetch", "saveStored", "keep", "done"}]
  /\ tags \in [Sessions -> Seq(Assets)] /\ left \in [Sessions -> Seq(Assets)]
  /\ ran \in [Sessions -> Content] /\ building \in [Sessions -> Content]

\* Scripts after the one called like the page are lost, and style sheets with
\* one called like the page are merged into themselves once more.
MergesWell == \/ Bundle \notin Range(template)
              \/ kind = "js" /\ Locals # << >> /\ Last(Locals) = Bundle

\* However many browsers ask for a page that nobody has built yet, and however
\* their builds interleave, each of them runs every mergeable asset of the
\* template exactly once and in the template's order (AssetMerger::processHtml),
\* also when the bundle is written over one of its own sources
\* (mergeJsFilesResolvingBundleWriteback).
BundleRunsEach ==
  \A s \in Sessions : at[s] = "done" /\ changes = 0 /\ languages /\ MergesWell /\ Locals # << >>
    => Only(ran[s], (Assets \ {External}) \X Nat) = [i \in DOMAIN Locals |-> <<Locals[i], 0>>]

\* A browser is answered for the bundle of a page that names no script after
\* itself; no file changed while what a builder had made of it was about to be
\* written or kept.  In development the page is rebuilt instead.
AnswersBundle(s) ==
  /\ Len(ran'[s]) > Len(ran[s]) /\ Head(left[s]) = Bundle
  /\ kind = "js" /\ ~development /\ ~overtaken /\ Bundle \notin Range(template) /\ Locals # << >>

\* The text cache answers while the bundle on disk is older than the template or
\* a script it is merged from.
KeptPastChange == Hit(Bundle) /\ \E f \in Inputs(Bundle) : time[f] > time[<<Bundle, "file">>]

\* The bundle is answered as it is merged from the files as they are now,
\* whatever was written or kept before (JSBuilder's tryReuseOnDiskMergedBundle and
\* mergedBundleObfuscationCacheValid, and TextResponseCache::lookup in front of
\* them) - unless it is kept past a change of its inputs: those the text cache
\* does not look at, and only the building of the page writes the bundle anew.
BundleIsCurrent ==
  [][\A s \in Sessions : AnswersBundle(s) /\ ~KeptPastChange => ran'[s] = ran[s] \o Merged]_pageVars

\* doc/OBFUSCATION.md:104-106: "Files are regenerated when: [...] Source file is
\* modified (detected via file timestamp)".  Refuted: the text cache goes on
\* answering with the bundle as it was kept.
RegeneratedWhenModified ==
  [][\A s \in Sessions : AnswersBundle(s) => ran'[s] = ran[s] \o Merged]_pageVars
=============================================================================
