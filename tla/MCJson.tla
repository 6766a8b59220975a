------------------------------- MODULE MCJson -------------------------------
(* Two keys, and a string for every character the format gives a meaning to. *)
EXTENDS Json

MCKeys == {<<"a">>, <<"b", "c">>}
MCStrings == {<<>>, <<Quote, ",">>, <<Backslash>>, <<"\n", " ">>, <<"esc", "}">>,
              <<"0", "1">>, <<"-">>, <<"{">>, <<"1", "e", "2">>, <<"true">>}
MCInts == {0, -12}
MCStringArrays == {<<>>, <<<<"a">>, <<Quote, ",">>>>, <<<<Backslash>>, <<"]", "{">>>>}
MCTenths == {-5, 120}
MCTenthArrays == {<<-5, 31>>}
MCIntArrays == {<<7>>, <<-12, 0>>}
MCBoolArrays == {<<TRUE, FALSE>>}
=============================================================================
