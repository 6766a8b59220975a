----------------------------- MODULE ImageFiles -----------------------------
(* Images: the binary branch of ResponseWriter::sendFileAsync, the converter
   of WebPConverter::convertImage with its one global conversion slot, and the
   WebP half of DevAssetCache.

   A session asks for one .webp file.  In dev mode it is looked for in memory
   first; a file on disk is announced with the size it has at that moment and
   then sent piece by piece; when there is none the session converts the
   original.  Production writes the result to disk in place, dev mode keeps it
   in the cache, oldest first out.  The source image is always there, and an
   image is Size[i] pieces long.                                             *)
EXTENDS Integers, SequencesExt

CONSTANTS Sessions,     \* connections that ask for an image
          Images,       \* .webp paths
          Size,         \* pieces of each converted image
          MaxWebPBytes, \* DevAssetCache::_maxWebpBytes
          MaxFaults     \* exceptions and failed writes in a behaviour

ImageAssumption == /\ Size \in [Images -> Nat \ {0}]
                   /\ MaxWebPBytes \in Nat /\ MaxFaults \in Nat

VARIABLES dev,      \* enableDevMode was called
          disk,     \* pieces of each .webp file on disk, -1 when there is none
          active,   \* WebPConverter::_conversionActive
          claimed,  \* WebPConverter::_inProgressConversions
          cached,   \* DevAssetCache::_webp, the images it holds
          order,    \* DevAssetCache::_webpOrder
          bytes,    \* DevAssetCache::_webpSizeBytes
          at,       \* where each session is
          img,      \* the image it asks for
          length,   \* the Content-Length it announced
          sent,     \* pieces of the body sent so far
          crossed,  \* its file was being written, or was rewritten, as it was sent
          threw,    \* images whose conversion ended in an exception
          torn      \* images whose file was left half written

filesVars == <<disk, cached, order, bytes>>
slotVars == <<active, claimed>>
sessionVars == <<at, img, length, sent, crossed>>
faultVars == <<threw, torn>>
vars == <<dev, filesVars, slotVars, sessionVars, faultVars>>

Nowhere == -1
Converting(s) == at[s] \in {"convert", "write", "store", "release"}
Faults == Cardinality(threw) + Cardinality(torn)
Saving(i) == \E s \in Sessions : img[s] = i /\ at[s] = "write"

Init == /\ dev \in BOOLEAN
        /\ \E there \in SUBSET Images : disk = [i \in Images |-> IF i \in there THEN Size[i] ELSE Nowhere]
        /\ cached = {} /\ order = << >> /\ bytes = 0
        /\ active = FALSE /\ claimed = {} /\ threw = {} /\ torn = {}
        /\ at = [s \in Sessions |-> "look"] /\ img \in [Sessions -> Images]
        /\ length = [s \in Sessions |-> Nowhere] /\ sent = [s \in Sessions |-> 0]
        /\ crossed = [s \in Sessions |-> FALSE]

-----------------------------------------------------------------------------
(* DevAssetCache::putWebP.                                                   *)

SumOf(S) == MapThenSumSet(LAMBDA i : Size[i], S)

\* How many of the oldest entries are dropped to make room for one of n pieces.
Dropped(n) ==
  CHOOSE k \in 0..Len(order) :
    /\ k = Len(order) \/ bytes - SumOf(Range(SubSeq(order, 1, k))) + n <= MaxWebPBytes
    /\ \A j \in 0..(k - 1) : bytes - SumOf(Range(SubSeq(order, 1, j))) + n > MaxWebPBytes

Put(i) ==
  IF Size[i] > MaxWebPBytes
    THEN UNCHANGED <<cached, order, bytes>>
    ELSE LET gone == Range(SubSeq(order, 1, Dropped(Size[i])))
             kept == RemoveFirst(SubSeq(order, Dropped(Size[i]) + 1, Len(order)), i)
         IN  /\ cached' = (cached \ gone) \cup {i}
             /\ order' = Append(kept, i)
             /\ bytes' = bytes - SumOf(gone \cup (cached \cap {i})) + Size[i]

-----------------------------------------------------------------------------
(* Sending.                                                                  *)

Goto(s, place) == at' = [at EXCEPT ![s] = place]
Finish(s, how) == at' = [at EXCEPT ![s] = how]

\* A session whose image is held in memory: header and body come from one
\* shared_ptr, so they agree whatever the cache does next.
SendWhole(s) == /\ length' = [length EXCEPT ![s] = Size[img[s]]]
                /\ sent' = [sent EXCEPT ![s] = Size[img[s]]]
                /\ Finish(s, "served") /\ UNCHANGED <<img, crossed>>

\* Header first: the length is the one the file has now.
Announce(s, place) ==
  /\ length' = [length EXCEPT ![s] = disk[img[s]]] /\ Goto(s, place)
  /\ crossed' = [crossed EXCEPT ![s] = Saving(img[s])]
  /\ UNCHANGED <<img, sent>>

Look(s) ==
  /\ at[s] = "look"
  /\ IF dev /\ img[s] \in cached THEN SendWhole(s)
     ELSE IF disk[img[s]] # Nowhere THEN Announce(s, "sendfile")
     ELSE Goto(s, "claim") /\ UNCHANGED <<img, length, sent, crossed>>
  /\ UNCHANGED <<dev, filesVars, slotVars, faultVars>>

\* sendfile: up to the announced length; a file that ends before it ends the
\* response, and the connection goes on.
SendFile(s) ==
  /\ at[s] = "sendfile"
  /\ IF sent[s] < length[s] /\ sent[s] < disk[img[s]]
       THEN sent' = [sent EXCEPT ![s] = @ + 1] /\ UNCHANGED at
       ELSE Finish(s, "served") /\ UNCHANGED sent
  /\ UNCHANGED <<dev, filesVars, slotVars, img, length, crossed, faultVars>>

\* The stream that is read to its end, whatever length was announced.
Stream(s) ==
  /\ at[s] = "stream"
  /\ IF sent[s] < disk[img[s]]
       THEN sent' = [sent EXCEPT ![s] = @ + 1] /\ UNCHANGED at
       ELSE Finish(s, "served") /\ UNCHANGED sent
  /\ UNCHANGED <<dev, filesVars, slotVars, img, length, crossed, faultVars>>

-----------------------------------------------------------------------------
(* WebPConverter::convertImage.                                              *)

\* Mutant: the wait looks at the path alone.
ClaimByPath(s) ==
  /\ at[s] = "claim"
  /\ IF dev /\ img[s] \in cached
       THEN Goto(s, "fetch") /\ UNCHANGED slotVars
       ELSE /\ img[s] \notin claimed
            /\ active' = TRUE /\ claimed' = claimed \cup {img[s]} /\ Goto(s, "convert")
  /\ UNCHANGED <<dev, filesVars, img, length, sent, crossed, faultVars>>

\* The wait under the mutex: dev mode also waits for the same path, and gives
\* up waiting as soon as the cache has the image.
Claim(s) ==
  /\ at[s] = "claim"
  /\ IF dev /\ img[s] \in cached
       THEN Goto(s, "fetch") /\ UNCHANGED slotVars
       ELSE /\ ~active /\ (dev => img[s] \notin claimed)
            /\ active' = TRUE /\ Goto(s, "convert")
            /\ claimed' = IF dev THEN claimed \cup {img[s]} ELSE claimed
  /\ UNCHANGED <<dev, filesVars, img, length, sent, crossed, faultVars>>

ReleaseSlot(s) == active' = FALSE /\ claimed' = claimed \ (IF dev THEN {img[s]} ELSE {})

\* No memory, an unreadable source or an encoder that fails: the original is
\* sent in the place of the .webp file.
ConvertFails(s) ==
  /\ at[s] = "convert" /\ ReleaseSlot(s) /\ Finish(s, "original")
  /\ UNCHANGED <<dev, filesVars, img, length, sent, crossed, faultVars>>

\* bad_alloc while pixels are held: the lambda that releases the slot is never
\* called and the exception ends the connection.
ConvertThrows(s) ==
  /\ at[s] = "convert" /\ Faults < MaxFaults /\ threw' = threw \cup {img[s]}
  /\ Finish(s, "aborted")
  /\ UNCHANGED <<dev, filesVars, slotVars, img, length, sent, crossed, torn>>

\* saveWebP fails on the way (a full disk): what was written stays, and the
\* original is sent.
WriteFails(s) ==
  /\ at[s] = "write" /\ Faults < MaxFaults /\ torn' = torn \cup {img[s]}
  /\ ReleaseSlot(s) /\ Finish(s, "original")
  /\ UNCHANGED <<dev, filesVars, img, length, sent, crossed, threw>>

Encoded(s) ==
  /\ at[s] = "convert" /\ Goto(s, IF dev THEN "store" ELSE "write")
  /\ disk' = IF dev THEN disk ELSE [disk EXCEPT ![img[s]] = 0]
  /\ crossed' = [c \in Sessions |-> crossed[c] \/ (~dev /\ img[c] = img[s] /\ c # s
                                                   /\ at[c] \in {"sendfile", "stream"})]
  /\ UNCHANGED <<dev, cached, order, bytes, slotVars, img, length, sent, faultVars>>

\* saveWebP: the file is truncated and then filled where it stands.
Write(s) ==
  /\ at[s] = "write"
  /\ disk' = [disk EXCEPT ![img[s]] = @ + 1]
  /\ IF disk[img[s]] + 1 = Size[img[s]] THEN Goto(s, "release") ELSE UNCHANGED at
  /\ UNCHANGED <<dev, cached, order, bytes, slotVars, img, length, sent, crossed, faultVars>>

Store(s) ==
  /\ at[s] = "store" /\ Put(img[s]) /\ Goto(s, "release")
  /\ UNCHANGED <<dev, disk, slotVars, img, length, sent, crossed, faultVars>>

Release(s) ==
  /\ at[s] = "release" /\ ReleaseSlot(s) /\ Goto(s, IF dev THEN "fetch" ELSE "open")
  /\ UNCHANGED <<dev, filesVars, img, length, sent, crossed, faultVars>>

\* getWebP after the conversion: an entry that was too large, or is dropped by
\* now, leaves nothing to send, and there is no file either.
Fetch(s) ==
  /\ at[s] = "fetch"
  /\ IF img[s] \in cached THEN SendWhole(s)
     ELSE Finish(s, "notfound") /\ UNCHANGED <<img, length, sent, crossed>>
  /\ UNCHANGED <<dev, filesVars, slotVars, faultVars>>

\* Mutant: announces the length and reads on from the end of the file.
OpenWithoutRewind(s) ==
  /\ at[s] = "open" /\ Goto(s, "stream")
  /\ length' = [length EXCEPT ![s] = disk[img[s]]]
  /\ sent' = [sent EXCEPT ![s] = disk[img[s]] - 1] /\ UNCHANGED <<img, crossed>>
  /\ UNCHANGED <<dev, filesVars, slotVars, faultVars>>

Open(s) ==
  /\ at[s] = "open" /\ Announce(s, "stream")
  /\ UNCHANGED <<dev, filesVars, slotVars, faultVars>>

Over(s) == at[s] \in {"served", "original", "notfound", "aborted"}
Step(s) == \/ Look(s) \/ SendFile(s) \/ Stream(s) \/ Claim(s) \/ ConvertFails(s) \/ ConvertThrows(s)
           \/ Encoded(s) \/ Write(s) \/ WriteFails(s) \/ Store(s) \/ Release(s) \/ Fetch(s) \/ Open(s)
Next == \E s \in Sessions : Step(s)
Spec == Init /\ [][Next]_vars /\ \A s \in Sessions : WF_vars(Step(s))

-----------------------------------------------------------------------------
(* Properties.                                                               *)

\* At most one session decodes, encodes or stores an image: the slot bounds the
\* memory whatever the mode (the "AT MOST ONE" of convertImage).  It takes two
\* sessions and, in dev mode, the two conditions of the wait to break it.
OneConversion == Cardinality({s \in Sessions : Converting(s)}) <= 1

\* The cache's counter, its map and its order of age tell of the same entries,
\* and together they fit the limit, after any series of drops and replacements.
CacheExact == /\ bytes = SumOf(cached) /\ bytes <= MaxWebPBytes
              /\ Range(order) = cached /\ Len(order) = Cardinality(cached)

\* A .webp response is the whole image with its exact length, unless the file
\* was being written, or was written again, while it was sent (the conversion
\* writes in place and a second session may convert once more), or an earlier
\* write failed and left half an image.
ImagesWhole ==
  \A s \in Sessions : at[s] = "served" /\ ~crossed[s] /\ img[s] \notin torn
                        => length[s] = Size[img[s]] /\ sent[s] = length[s]

\* Every request for an image ends, except that after an exception within a
\* conversion those that need one wait for the slot for ever.
ImagesAnswered ==
  <>[](\A s \in Sessions : Over(s) \/ (threw # {} /\ at[s] = "claim"))
=============================================================================
