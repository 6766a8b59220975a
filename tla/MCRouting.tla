----------------------------- MODULE MCRouting -----------------------------
(* Three pages in several spellings, one language, and patterns of every kind
   that overlap.                                                             *)
EXTENDS Routing

MCLetters == <<"*", ".css", ".html", ".png", "/", "a", "assets", "b", "en", "html", "images",
               "index", "loop-check">>
MCWidth == [t \in Range(MCLetters) |->
              CASE t \in {"*", "/", "a", "b"} -> 1 [] t = "en" -> 2 [] t \in {".css", ".png", "html"} -> 4
                [] t \in {".html", "index"} -> 5 [] t \in {"assets", "images"} -> 6 [] OTHER -> 10]

\* "/a" and its spellings, "/a/b", the index page, a style sheet and an image.
MCPaths == {<<"/">>, <<"/", "en", "/">>, <<"/", "a">>, <<"/", "a", "/">>, <<"/", "a", ".html">>,
            <<"/", "en", "/", "a">>, <<"/", "en", "/", "a", ".html">>,
            <<"/", "a", "/", "b">>, <<"/", "en", "/", "a", "/", "b">>, <<"/", "b">>,
            <<"/", "b", "/", "b">>, <<"/", "en", "/", "b">>,
            <<"/", "en", "/", "a", ".css">>, <<"/", "a", "/", "b", ".png">>}
MCSources == {<<"/", "a">>, <<"/", "b">>, <<"/", "a", "/", "*">>, <<"/", "b", "/", "b">>,
              <<"/", "en", "/", "a">>}
MCTargets == {<<"/", "a">>, <<"/", "b">>, <<"/", "b", "/", "*">>, <<"/", "a", "/", "b">>}
MCPatterns == {<<"/", "a">>, <<"/", "*">>, <<"/", "a", "/", "*">>, <<"/", "*", "/", "b">>}
=============================================================================
