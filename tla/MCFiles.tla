------------------------------ MODULE MCFiles ------------------------------
(* Two sessions on a page and its script, three on two images of which one is
   larger than the other; the image cache holds the larger one alone.        *)
EXTENDS Files, TLC

CONSTANTS r1, r2, s1, s2, s3, i1, i2

MCTextSize == "page" :> 2 @@ "asset" :> 3
MCImageSize == i1 :> 2 @@ i2 :> 1
=============================================================================
