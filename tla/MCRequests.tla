------------------------------ MODULE MCRequests -------------------------------
(* RequestPipeline for TLC: streams of one and three messages of every framing *)
(* with a plain request, and each request followed by a plain one.            *)
EXTENDS RequestPipeline

MCUsers == {<<"ann">>, << >>}
MCPasswords == {<<"p">>, <<"p", ":", "q">>}
MCPages == {<<"/", "admin">>, <<"/", "admin", ".html">>}
MCOrigins == <<"app", "shop">>
MCCorsPaths == {<<"/", "v1">>}
MCAllowHeaders == <<"x-token">>

Small == [type |-> "text/html", headers |-> << >>, body |-> Body(9, << >>, FALSE)]
Large == [type |-> "application/json", headers |-> << >>, body |-> Body(2000, << >>, FALSE)]
Coded == [Large EXCEPT !.headers = "Content-Encoding" :> <<"br">>, !.body = Body(2000, <<"br">>, TRUE)]
Image == [Large EXCEPT !.type = "image/png", !.body = Body(2000, << >>, TRUE)]

Base == [method |-> "GET", path |-> <<"/", "admin">>, owner |-> <<"/", "admin">>, origin |-> "none", asks |-> << >>, accepts |-> << >>,
         login |-> << >>, upgrade |-> "no", target |-> "file", gate |-> "none",
         result |-> "found", made |-> Small, counted |-> TRUE, close |-> FALSE]
\* A script of another origin that takes gzip.
Api == [Base EXCEPT !.path = <<"/", "v1">>, !.origin = "app", !.accepts = <<"br", "gzip">>, !.made = Large]

Gates   == {"none", "grants", "denies", "throws"}
Results == {"2xx", "4xx", "5xx", "405", "throws"}
Logins  == {<< >>, <<"ann", ":", "p">>, <<"ann", ":", "p", ":", "q">>, <<"eve", ":", "p">>, <<":", "p">>}

Spellings == MCPages \cup {<<"/", "admin", "/">>, <<"/", "en", "/", "admin">>}

Requests ==
    LET kinds ==
        {[Api EXCEPT !.method = "OPTIONS", !.origin = o, !.asks = a] :
             o \in {"none", "app", "other"}, a \in {<< >>, <<"x-token", "x-other">>}}
        \cup {[Base EXCEPT !.method = "OPTIONS", !.target = "sync", !.result = "405"]}
        \cup {[Base EXCEPT !.upgrade = u] : u \in {"intent", "body", "noroute"}}
        \cup {[b EXCEPT !.upgrade = "route", !.gate = g, !.result = r] :
                  b \in {Base, Api}, g \in Gates, r \in {"2xx", "throws"}}
        \cup {[b EXCEPT !.target = "redirect"] : b \in {Base, Api}}
        \cup {[b EXCEPT !.target = t, !.gate = g, !.result = r] :
                  b \in {Base, Api}, t \in {"async", "sync"}, g \in Gates, r \in Results}
        \cup {[Api EXCEPT !.target = "async", !.result = "2xx", !.origin = o, !.accepts = a, !.made = m] :
                  o \in {"none", "shop", "other"}, a \in {<< >>, <<"gzip">>}, m \in {Small, Large, Coded, Image}}
        \cup {[Base EXCEPT !.target = "page", !.path = p, !.login = l, !.gate = g] :
                  p \in Spellings, l \in Logins, g \in Gates}
        \cup {[Base EXCEPT !.target = "asset", !.path = <<"/", "admin", ".js">>, !.owner = p, !.login = l, !.gate = g] :
                  p \in {<<"/", "admin">>, <<"/">>}, l \in Logins, g \in Gates}
        \cup {[Base EXCEPT !.target = "page", !.login = l, !.result = r] :
                  l \in Logins, r \in {"missing", "unreadable"}}
        \cup {[Base EXCEPT !.result = r] : r \in {"found", "missing", "unreadable", "vanished"}}
    IN  kinds \cup {[k EXCEPT !.counted = FALSE] : k \in {j \in kinds : j.accepts = << >> /\ j.login = << >> /\ j.gate # "grants"}}
        \cup {[Api EXCEPT !.close = TRUE]}

M(h, b, f, e, r) == [head |-> h, body |-> b, framing |-> f, expect |-> e, req |-> r]
Plain == [Base EXCEPT !.target = "redirect"]

Shapes == {M(1, 0, "none", FALSE, Plain), M(2, 1, "length", FALSE, Plain),
           M(1, 2, "chunked", TRUE, Plain), M(1, 4, "length", TRUE, Plain),
           M(1, 6, "chunked", FALSE, Plain), M(4, 0, "none", FALSE, Plain),
           M(1, 1, "badlength", FALSE, Plain), M(1, 1, "garbled", FALSE, Plain)}

MCStreams ==
    {<<a>> : a \in Shapes}
    \cup {<<a, b, M(1, 0, "none", FALSE, Plain)>> : a, b \in Shapes}
    \cup {<<M(1, 0, "none", FALSE, r), M(1, 0, "none", FALSE, Plain)>> : r \in Requests}
================================================================================
