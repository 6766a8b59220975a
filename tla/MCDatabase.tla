------------------------------ MODULE MCDatabase ------------------------------
(* The client of module Database on small instances.                           *)
EXTENDS Database

SqlOfThree == <<"a", "b", "a">>
SqlOfFive  == <<"a", "a", "a", "a", "a">>
Mixed     == <<2, 0, 3>>
================================================================================
