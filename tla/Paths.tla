-------------------------------- MODULE Paths ----------------------------------
(* The spelling of a path by which gates, routes and logins know a page        *)
(* (data/ServerTypes.hpp).  A path is a sequence of tokens: "/", "*", names,   *)
(* languages, and suffixes like ".html".                                       *)
EXTENDS Naturals, SequencesExt

canonicalRequestPath(p) ==
  LET keep == CHOOSE n \in 1..Len(p) :
                /\ \A j \in (n + 1)..Len(p) : p[j] = "/"
                /\ n = 1 \/ p[n] # "/"
      bare == SubSeq(p, 1, keep)
  IN IF keep > 1 /\ p[keep] = ".html" THEN Front(bare) ELSE bare
================================================================================
