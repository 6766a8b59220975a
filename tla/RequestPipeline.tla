--------------------------- MODULE RequestPipeline -----------------------------
(* One connection from its first byte to its end: each framed request goes    *)
(* through CORS preflight, WebSocket upgrade, redirects, async routes, sync   *)
(* routes and static files, the first that applies answering it               *)
(* (handler/Handler.cpp, handler/RouteDispatcher.cpp, handler/ResponseWriter  *)
(* .cpp, websocket/WebSocketUpgrade.cpp).  Gates, route handlers and the file *)
(* system are the environment: what they do with a request is part of req.    *)
EXTENDS HttpFraming, BasicAuth, Responses

VARIABLES
    serving, \* the server is set up and takes connections
    gate,     \* what became of the gate of this request: "unasked", ...
    ran,      \* the route or WebSocket handler of this request has run
    response, \* the response to this request
    metrics,  \* what this request added to the metrics
    failed    \* an exception ended the connection

rvars == <<gate, ran, response, metrics, failed>>
vars  == <<fvars, avars, rvars, serving>>

NoMetrics == [requests |-> 0, c4xx |-> 0, c5xx |-> 0, errors |-> 0, latency |-> 0]

(* How a request is handled.  path, method, and of the headers: origin         *)
(* ("none": no Origin), asks (Access-Control-Request-Headers), accepts         *)
(* (Accept-Encoding) and login (what Authorization decodes to).  upgrade: "no",*)
(* "intent" (not well-formed, for a WebSocket route), "body",                  *)
(* "noroute", "route".  target: "redirect", "async", "sync", "page", "asset"   *)
(* (JS or CSS merged for the page owner) or "file".  gate: "none", "grants",   *)
(* "denies", "throws".  result: the class of what the handler returns, with    *)
(* the body and headers made, or that it throws; or how the file is: "found",  *)
(* "missing", "unreadable" or "vanished" while it was looked at.               *)
(* counted: not a path kept out of the metrics.  close: Connection: close.     *)
req == stream[Len(framed)].req

(* A request has a gate and a result of what answers it.  Only images vanish,  *)
(* and no gate is asked for a file that is neither a page nor merged for one.  *)
HasResult(r) ==
    \/ r.target = "redirect"
    \/ r.target \in {"async", "sync"} /\ r.result \in {"2xx", "4xx", "5xx", "405", "throws"}
    \/ r.target \in {"page", "asset"} /\ r.result \in {"found", "missing", "unreadable"}
    \/ r.target = "file" /\ r.result \in {"found", "missing", "unreadable", "vanished"} /\ r.gate = "none"

ASSUME RequestAssumption ==
    \A s \in Streams : \A i \in DOMAIN s : LET r == s[i].req IN
        /\ r.upgrade \in {"no", "intent", "body", "noroute", "route"} /\ r.login \in Seq(STRING)
        /\ r.path \in Seq(STRING) \ {<< >>} /\ r.owner \in Seq(STRING) \ {<< >>}
        /\ r.gate \in {"none", "grants", "denies", "throws"}
        /\ r.upgrade = "no" => HasResult(r)
        /\ r.result = "vanished" => r.upgrade = "no" /\ r.target = "file"
                                    /\ ~(r.method = "OPTIONS" /\ matchesPath(r.path))

NoResponse == [status |-> "none"]
status == response.status

Init ==
    /\ FramingInit /\ AuthInit /\ serving = FALSE
    /\ gate = "unasked" /\ ran = FALSE /\ response = NoResponse /\ metrics = NoMetrics /\ failed = FALSE
--------------------------------------------------------------------------------
Unframing == UNCHANGED <<stream, alive, readTo, begin, messageCount, continued, framed>>

(* record4xxMetric() and record5xxMetric() look at _countRequestInMetrics.     *)
Counting(field) == [metrics EXCEPT ![field] = @ + IF req.counted THEN 1 ELSE 0]

(* A response goes out; a failing write changes nothing.                       *)
Send(r, place) ==
    /\ response' = r
    /\ answered' = Append(answered, Len(framed))
    /\ Goto(place)
    /\ Unframing /\ UNCHANGED failed
Respond(r, place) == Send(Serialized(r), place)

Quietly == UNCHANGED metrics
As4xx   == metrics' = Counting("c4xx")
As5xx   == metrics' = Counting("c5xx")

Keep == UNCHANGED <<gate, ran>>
Pass(place) == Goto(place) /\ Unframing /\ UNCHANGED <<answered, rvars>>

(* The request is parsed and counted.                                          *)
Begin ==
    /\ at = "dispatch"
    /\ gate' = "unasked" /\ ran' = FALSE /\ response' = NoResponse
    /\ metrics' = [NoMetrics EXCEPT !.requests = IF req.counted THEN 1 ELSE 0]
    /\ Goto("cors")
    /\ Unframing /\ UNCHANGED <<answered, failed>>

CorsPreflight ==
    /\ at = "cors"
    /\ IF req.method = "OPTIONS" /\ matchesPath(req.path)
       THEN IF resolveOrigin(req.origin) # "none"
            THEN Respond(applyCorsHeaders(responseNoContent, req, TRUE), "answered") /\ Quietly /\ Keep
            ELSE Respond(responseForbidden, "answered") /\ As4xx /\ Keep
       ELSE Pass("upgrade")
--------------------------------------------------------------------------------
NotFound == buildHeader("404", "text/html", Text)

(* handleUpgrade().  markUpgraded() ends the connection's request loop in      *)
(* every case but that of a request that is no upgrade.                        *)
Upgrade ==
    /\ at = "upgrade"
    /\ \/ req.upgrade = "no" /\ Pass("redirect")
       \/ req.upgrade \in {"intent", "body"} /\ Respond(responseBadRequest, "upgraded") /\ Quietly /\ Keep
       \/ req.upgrade = "noroute" /\ Respond(NotFound, "upgraded") /\ As4xx /\ Keep
       \/ req.upgrade = "route" /\ Pass(IF req.gate = "none" THEN "handshake" ELSE "wsgate")

Redirect ==
    /\ at = "redirect"
    /\ \/ /\ req.target = "redirect" /\ Quietly /\ Keep
          /\ Respond(applyCorsHeaders(RedirectTo("301", "target"), req, FALSE), "answered")
       \/ req.target = "async" /\ Pass(IF req.gate = "none" THEN "handler" ELSE "routegate")
       \/ req.target = "sync" /\ Pass("syncroute")
       \/ req.target \in {"page", "asset"} /\ Pass("auth")
       \/ req.target = "file" /\ Pass("file")

(* Mutant of EvaluateGate: a gate that throws lets the request through.        *)
EvaluateGateOpen(verdict) ==
    CASE req.gate \in {"grants", "throws"} -> verdict = "granted"
      [] req.gate = "denies" -> verdict = "refused"

(* evaluateResolvedGateAsync(): an exception is no verdict.                    *)
EvaluateGate(verdict) ==
    CASE req.gate = "grants" -> verdict = "granted"
      [] req.gate = "denies" -> verdict = "refused"
      [] req.gate = "throws" -> verdict = "failed"

Verdicts == {"granted", "refused", "failed"}

(* What a route's handler, its gate or its failure answers with.               *)
Finish(r) == applyResponseCompression(applyCorsHeaders(r, req, FALSE), req)
Denial(verdict) == IF verdict = "refused" THEN responseForbidden ELSE responseInternalServerError

(* Mutant of RouteGate: a denial is sent but the route goes on.                *)
RouteGateNoReturn ==
    \E place \in {"routegate", "wsgate"}, verdict \in Verdicts :
        /\ at = place /\ EvaluateGate(verdict)
        /\ gate' = verdict /\ UNCHANGED ran
        /\ LET on == IF place = "wsgate" THEN "handshake" ELSE "handler" IN
           IF verdict = "granted"
           THEN Goto(on) /\ Unframing /\ UNCHANGED <<answered, response, metrics, failed>>
           ELSE Respond(Finish(Denial(verdict)), on)
                /\ (IF verdict = "refused" THEN As4xx ELSE As5xx)

(* checkRouteGateDenialAsync() and its callers.                                *)
RouteGate ==
    \E place \in {"routegate", "wsgate"}, verdict \in Verdicts :
        /\ at = place /\ EvaluateGate(verdict)
        /\ gate' = verdict /\ UNCHANGED ran
        /\ IF verdict = "granted"
           THEN /\ Goto(IF place = "wsgate" THEN "handshake" ELSE "handler")
                /\ Unframing /\ UNCHANGED <<answered, response, metrics, failed>>
           ELSE /\ IF place = "wsgate"
                   THEN Respond(applyCorsHeaders(Denial(verdict), req, FALSE), "upgraded")
                   ELSE Respond(Finish(Denial(verdict)), "answered")
                /\ IF verdict = "refused" THEN As4xx ELSE As5xx

(* The 101 goes out and the WebSocket handler has the connection until it      *)
(* returns or throws; or the client is gone and it is not called.              *)
Handshake ==
    /\ at = "handshake"
    /\ \/ /\ Send(buildHandshakeResponse, "upgraded") /\ UNCHANGED gate
          /\ ran' = TRUE
          /\ IF req.result \in {"throws", "405"} THEN As5xx ELSE Quietly
       \/ ~alive /\ Pass("upgraded")
--------------------------------------------------------------------------------
(* A sync handler is called while the arguments of tryDispatchRoute are built: *)
(* before the gate, and outside every catch of the dispatcher.                 *)
SyncRoute ==
    /\ at = "syncroute"
    /\ ran' = TRUE
    /\ IF req.result \in {"throws", "405"}
       THEN /\ failed' = TRUE /\ metrics' = [metrics EXCEPT !.errors = @ + 1]
            /\ Goto("closed")
       ELSE /\ Goto(IF req.gate = "none" THEN "handler" ELSE "routegate")
            /\ UNCHANGED <<failed, metrics>>
    /\ Unframing /\ UNCHANGED <<answered, gate, response>>

(* What the handler returns: made is its content type, the headers it added    *)
(* and its body.                                                               *)
Made(code) ==
    [setBody(setHeader(HTTPResponse(code), "Content-Type", req.made.type), req.made.body)
     EXCEPT !.headers = [n \in DOMAIN @ \cup DOMAIN req.made.headers |->
                             Values(@, n) \o Values(req.made.headers, n)]]

(* Mutant of Handler: the answer to an exception leaves without CORS headers.  *)
HandlerForgetsCors ==
    /\ at = "handler"
    /\ ran' = TRUE /\ UNCHANGED gate
    /\ CASE req.result = "2xx" -> Respond(Finish(Made("200")), "answered") /\ Quietly
         [] req.result = "4xx" -> Respond(Finish(Made("422")), "answered") /\ As4xx
         [] req.result = "5xx" -> Respond(Finish(Made("503")), "answered") /\ As5xx
         [] req.result = "405" -> Respond(Finish(responseMethodNotAllowed("GET")), "answered") /\ As4xx
         [] req.result = "throws" -> Respond(responseInternalServerError, "answered") /\ As5xx

(* dispatchRouteAndSendAsync(): the awaitable of an async route runs the       *)
(* handler now; that of a sync route is ready.                                 *)
Handler ==
    /\ at = "handler"
    /\ ran' = TRUE /\ UNCHANGED gate
    /\ CASE req.result = "2xx" -> Respond(Finish(Made("200")), "answered") /\ Quietly
         [] req.result = "4xx" -> Respond(Finish(Made("422")), "answered") /\ As4xx
         [] req.result = "5xx" -> Respond(Finish(Made("503")), "answered") /\ As5xx
         [] req.result = "405" -> Respond(Finish(responseMethodNotAllowed("GET")), "answered") /\ As4xx
         [] req.result = "throws" -> Respond(Finish(responseInternalServerError), "answered") /\ As5xx
--------------------------------------------------------------------------------
(* The page whose access decides, as gates and logins know it.                 *)
pagePath(r) == canonicalRequestPath(IF r.target = "asset" THEN r.owner ELSE r.path)

(* sendFileAsync() looks for the login of a page under the path as it came.    *)
perRequestText(r) ==
    \/ r.gate # "none"
    \/ requiresAuth(IF r.target = "asset" THEN pagePath(r) ELSE r.path)

(* enforcePageAccessAsync() for a page, or for the page an asset was merged    *)
(* for: Basic Auth first, ...                                                  *)
PageAuth ==
    /\ at = "auth"
    /\ IF perRequestText(req) => authenticate(pagePath(req), req.login)
       THEN Pass(IF req.gate = "none" THEN "file" ELSE "pagegate")
       ELSE Respond(buildAuthHeader, "answered") /\ Quietly /\ Keep

(* ... then the gate; a page redirects, an asset is forbidden.                 *)
PageGate ==
    /\ at = "pagegate"
    /\ \E verdict \in Verdicts :
           /\ EvaluateGate(verdict) /\ gate' = verdict /\ UNCHANGED ran
           /\ CASE verdict = "granted" ->
                       Goto("file") /\ Unframing /\ UNCHANGED <<answered, response, metrics, failed>>
                [] verdict = "refused" ->
                       /\ Respond(IF req.target = "page" THEN RedirectTo("302", "login") ELSE responseForbidden,
                                  "answered")
                       /\ Quietly
                [] verdict = "failed" -> Respond(responseInternalServerError, "answered") /\ As5xx

(* sendFileAsync(), sendNotFoundResponseAsync(), sendServiceUnavailable...:    *)
(* a file is served from disk or a cache, missing, or there but not readable.  *)
(* An image whose conversion fails and that is deleted meanwhile gets no       *)
(* answer at all.                                                              *)
File ==
    /\ at = "file"
    /\ CASE req.result = "vanished" -> Goto("answered") /\ Unframing
                                           /\ UNCHANGED <<answered, response, metrics, failed>>
         [] req.result = "found" -> Respond(buildHeader("200", "text/html", Text), "answered") /\ Quietly
         [] req.result = "missing" -> Respond(NotFound, "answered") /\ As4xx
         [] req.result = "unreadable" -> Respond(buildHeader("503", "text/plain", Text), "answered") /\ As5xx
    /\ Keep
--------------------------------------------------------------------------------
(* runAsync() after a request: the latency is recorded unless the connection   *)
(* was upgraded; the request or the client's wish ends the loop.               *)
Answered ==
    /\ at = "answered"
    /\ metrics' = Counting("latency")
    /\ Goto(IF req.close THEN "closed" ELSE "loop")
    /\ Unframing /\ UNCHANGED <<answered, gate, ran, response, failed>>

Upgraded == at = "upgraded" /\ Pass("closed")

Dispatch ==
    \/ Begin \/ CorsPreflight \/ Upgrade \/ Redirect \/ RouteGate \/ Handshake
    \/ SyncRoute \/ Handler \/ PageAuth \/ PageGate \/ File \/ Answered \/ Upgraded

Step == serving /\ (Dispatch \/ (FramingStep /\ UNCHANGED rvars)) /\ UNCHANGED <<avars, serving>>

Leave == serving /\ ClientCloses /\ UNCHANGED <<avars, rvars, serving>>

(* The application sets the server up before it starts it.                     *)
Start == ~serving /\ serving' = TRUE /\ UNCHANGED <<fvars, avars, rvars>>

Next == Step \/ Leave \/ Start \/ (~serving /\ SetUp /\ UNCHANGED <<fvars, rvars, serving>>)

(* The session's coroutine runs on; clients go away at last.  Gates and        *)
(* handlers are taken to return.                                               *)
Spec == Init /\ [][Next]_vars /\ WF_vars(Step) /\ WF_vars(Leave)
--------------------------------------------------------------------------------
Places == FramingPlaces \cup
    {"cors", "upgrade", "redirect", "routegate", "wsgate", "handshake", "syncroute",
     "handler", "auth", "pagegate", "file", "answered", "upgraded"}

(* The types of the state.                                                     *)
TypeOK ==
    /\ at \in Places /\ messageCount \in Nat /\ begin <= readTo /\ readTo \in Nat
    /\ enabled \in BOOLEAN /\ protectedPages \subseteq Pages /\ serving \in BOOLEAN
    /\ gate \in Verdicts \cup {"unasked"} /\ ran \in BOOLEAN /\ failed \in BOOLEAN
    /\ DOMAIN metrics = DOMAIN NoMetrics /\ \A f \in DOMAIN metrics : metrics[f] \in Nat

(* Responses follow the requests one to one: none is sent twice or ahead of    *)
(* its request, each turn of the loop finds the last request answered, and a   *)
(* connection that ended without an exception or a lost client left none out.  *)
(* The only request without a response is the image that vanished.             *)
Answerable == {k \in DOMAIN framed : stream[k].req.result # "vanished"}
AnsweredOnce ==
    /\ \A j, k \in DOMAIN answered : j < k => answered[j] < answered[k]
    /\ Range(answered) \subseteq Answerable \cup {Len(framed) + 1}
    /\ at = "loop" => Range(answered) = Answerable
    /\ at = "closed" /\ ~failed /\ alive => Answerable \subseteq Range(answered)

(* What a handler or the file system made goes out only when the gate grants   *)
(* the request; otherwise the answer is that of the gate: 403, 500, or for a   *)
(* page a redirect.                                                            *)
OfHandler == {"101", "200", "422", "405"}
GateDecides ==
    at \in {"answered", "upgraded"} /\ req.upgrade \in {"no", "route"} =>
        /\ status \in OfHandler => req.gate \in {"none", "grants"}
        /\ gate = "refused" =>
               status = (IF req.target = "page" /\ req.upgrade = "no" THEN "302" ELSE "403")
        /\ gate = "failed" => status = "500"

(* A request is counted at most once in each class, and in that of its         *)
(* response; an answered one of a route is counted whenever it is 4xx or 5xx.  *)
ClassOf(s) == CASE s \in {"400", "401", "403", "404", "405", "422"} -> "c4xx"
                [] s \in {"500", "503"} -> "c5xx"
                [] OTHER -> "none"
MetricsMatch ==
    at = "answered" =>
        /\ metrics.c4xx + metrics.c5xx <= metrics.requests
        /\ metrics.c4xx = 1 => ClassOf(status) = "c4xx"
        /\ metrics.c5xx = 1 => ClassOf(status) = "c5xx"
        /\ req.target \in {"async", "sync"} /\ req.upgrade = "no" /\ req.counted =>
               /\ ClassOf(status) = "c4xx" => metrics.c4xx = 1
               /\ ClassOf(status) = "c5xx" => metrics.c5xx = 1

(* A protected page, and the scripts merged for it, are answered with 401 to a *)
(* request without the name and the last password of a user, and to no other;  *)
(* a password may have colons.  A page without a gate must be asked for as it  *)
(* is protected: under another spelling nobody is asked for a login.           *)
Login(path, header) ==
    enabled /\ path \in protectedPages /\ DOMAIN users # {} =>
        \E u \in DOMAIN users : \E i \in DOMAIN header :
            header[i] = ":" /\ SubSeq(header, 1, i - 1) = u /\ users[u] = sha256Hash(SubSeq(header, i + 1, Len(header)))
LoginDecides ==
    at = "answered" /\ req.target \in {"page", "asset"} /\ req.method # "OPTIONS" /\ req.upgrade = "no" =>
        /\ status = "401" => ~Login(pagePath(req), req.login)
        /\ req.target = "asset" \/ req.gate # "none" \/ req.path \in protectedPages =>
               (~Login(pagePath(req), req.login) => status = "401")

(* Nothing protected goes out without what protects it, gate or login, and     *)
(* nothing is refused that both let through.                                   *)
AccessDecides == GateDecides /\ LoginDecides

(* Each request is answered once and counted once, whichever of the dozen ways *)
(* through the handler it takes.                                               *)
OneAnswerOneCount == AnsweredOnce /\ MetricsMatch

(* Whichever way a route's answer is made - by its handler, its gate, an       *)
(* exception, a redirect or a preflight - a page of another origin may read it *)
(* exactly when the origin is allowed for the path.                            *)
CorsOnEveryAnswer ==
    at = "answered" /\ req.upgrade = "no"
    /\ (req.target \in {"redirect", "async", "sync"} \/ (req.method = "OPTIONS" /\ matchesPath(req.path))) =>
        HeaderValues(response, "Access-Control-Allow-Origin") =
            IF matchesPath(req.path) /\ req.origin # "none" /\ {"*", req.origin} \cap Range(Origins) # {}
            THEN <<resolveOrigin(req.origin)>> ELSE << >>

(* A response says how long its body is, once, and which codings are on it; it *)
(* is compressed by the server only for a client that takes gzip.  Only the    *)
(* handshake, which no body follows, tells no length.                          *)
BodyAsTold ==
    at \in {"answered", "upgraded"} /\ response # NoResponse =>
        /\ HeaderValues(response, "Content-Length") = IF status = "101" THEN << >> ELSE <<response.body.bytes>>
        /\ status = "101" => response.body = NoBody
        /\ HeaderValues(response, "Content-Encoding") = response.body.codings
        /\ "gzip" \in Range(response.body.codings) => "gzip" \in Range(req.accepts)

(* A connection ends once its client is gone, wherever it was: no read,        *)
(* discarded body or half-framed request keeps the session's slot.             *)
ConnectionEnds == ~alive ~> at = "closed"

(* A response that names the origin it is for varies by Origin.                *)
OriginVaries ==
    at = "answered" /\ response # NoResponse /\ HeaderValues(response, "Access-Control-Allow-Origin") \notin {<< >>, <<"*">>} =>
        "Origin" \in Range(HeaderValues(response, "Vary"))

(* Pages that were protected require a login, however they are spelt.          *)
ProtectedHoweverSpelt ==
    at = "answered" /\ req.upgrade = "no" /\ req.target = "page" /\ status = "200" =>
        \A p \in protectedPages : canonicalRequestPath(p) = pagePath(req) => Login(p, req.login)

(* On a protected path the login is checked before a route's handler is called.*)
LoginBeforeHandler == ran /\ req.upgrade = "no" => Login(req.path, req.login)

(* A gate runs before the route handler, for sync and async routes.            *)
GateBeforeHandler ==
    [][~ran /\ ran' => req.gate = "none" \/ gate = "granted"]_vars

(* A handler that throws method_not_allowed is answered with 405.              *)
MethodNotAllowedAnswered ==
    at = "closed" /\ ran /\ req.result = "405" /\ req.upgrade = "no" => status = "405"

================================================================================
