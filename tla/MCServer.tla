------------------------------- MODULE MCServer -------------------------------
(* Server for TLC.  The runs check liveness, so the sessions, which are        *)
(* interchangeable, are told apart: symmetry is not sound there.              *)
EXTENDS Server

================================================================================
