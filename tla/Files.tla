------------------------------- MODULE Files -------------------------------
(* ResponseWriter::sendFileAsync as a whole.  The extension of the path sends
   a request into the branch of text files (TextFiles) or into that of images
   (ImageFiles).  The two share no state, so a behaviour exercises one of them
   and the other one stays as it began.                                      *)
EXTENDS Integers, SequencesExt

CONSTANTS Readers,                                              \* sessions of TextFiles
          Owning, TextSize, MaxEntry, MaxTotal, MaxEdits, MaxGates,
          Viewers,                                              \* sessions of ImageFiles
          Images, ImageSize, MaxWebPBytes, MaxFaults

VARIABLES branch,
          version, mtime, edits, gates, gated, entries, total, owner, ownerOf,
          textAt, file, asked, due, found, got, stamp, raced,
          dev, disk, active, claimed, cached, order, bytes,
          imageAt, img, length, sent, crossed, threw, torn

Text == INSTANCE TextFiles WITH Sessions <- Readers, Size <- TextSize, at <- textAt
Image == INSTANCE ImageFiles WITH Sessions <- Viewers, Size <- ImageSize, at <- imageAt

ASSUME FilesAssumption == Text!TextAssumption /\ Image!ImageAssumption

textVars == <<version, mtime, edits, gates, gated, entries, total, owner, ownerOf,
              textAt, file, asked, due, found, got, stamp, raced>>
imageVars == <<dev, disk, active, claimed, cached, order, bytes,
               imageAt, img, length, sent, crossed, threw, torn>>
vars == <<branch, textVars, imageVars>>

\* The branch that is not exercised stays in one initial state.
Init == /\ branch \in {"text", "image"}
        /\ Text!Init /\ Image!Init
        /\ branch = "text" => /\ ~dev /\ disk = [i \in Images |-> -1]
                              /\ img = [s \in Viewers |-> CHOOSE i \in Images : TRUE]
        /\ branch = "image" => ~gated /\ file = [s \in Readers |-> "page"]

Next == \/ branch = "text" /\ Text!Next /\ UNCHANGED <<branch, imageVars>>
        \/ branch = "image" /\ Image!Next /\ UNCHANGED <<branch, textVars>>

\* A worker that was given an image goes on with it: its session has a thread
\* of its own until the response is sent.
Spec == /\ Init /\ [][Next]_vars
        /\ \A s \in Viewers :
             WF_vars(branch = "image" /\ Image!Step(s) /\ UNCHANGED <<branch, textVars>>)

-----------------------------------------------------------------------------
(* The properties of the two branches, stated in their modules.              *)

\* The text cache counts what it holds.
TotalExact == Text!TotalExact
\* What is gated is sent only after the gate was asked.
GateAsked == Text!GateAsked
\* A cached response is what would be made of the files as they are now, with
\* the exceptions TextFiles names.
CachedIsCurrent == Text!CachedIsCurrent

\* One image is converted at a time.
OneConversion == Image!OneConversion
\* Counter, map and order of the image cache agree and fit its limit.
CacheExact == Image!CacheExact
\* What bounds the memory and the work of the two caches counts what there is:
\* the bytes of the text cache, the bytes of the image cache, one conversion.
LimitsExact == TotalExact /\ CacheExact /\ OneConversion
\* A .webp response is a whole image under its exact length.
ImagesWhole == Image!ImagesWhole
\* Every request for an image ends, unless an exception has kept the slot.
ImagesAnswered == branch = "image" => Image!ImagesAnswered
=============================================================================
