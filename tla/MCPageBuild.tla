---------------------------- MODULE MCPageBuild ----------------------------
(* Pages with an external, an excluded and a missing script, and pages that
   name a script after themselves, last and not last.                        *)
EXTENDS PageBuild

MCTemplates == {<<"main", "home">>, <<"main", "ext", "util">>, <<"home", "main">>,
                <<"main", "lib", "gone">>, <<"lib", "ext">>}
MCExcluded == {"lib"}
=============================================================================
