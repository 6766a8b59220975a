------------------------------ MODULE Responses -------------------------------
(* Responses and what is done to them on the way out: data/HTTPResponse.cpp,   *)
(* data/CorsConfig.cpp and handler/GzipResponse.cpp, as functions.             *)
EXTENDS Naturals, SequencesExt

CONSTANTS Origins,      \* CorsOptions::origins, in order; "*" allows every one
          CorsPaths,    \* the request paths its patterns match
          AllowHeaders, \* CorsOptions::allowHeaders
          MinCompress   \* kMinCompressBytes

ASSUME ResponseAssumption ==
    /\ Origins \in Seq(STRING) /\ AllowHeaders \in Seq(STRING) /\ MinCompress \in Nat \ {0}

(* A response is its status, its headers - to each name the values it was      *)
(* added with, in order - and its body: how long it is, the codings put on it, *)
(* and whether gzip makes it smaller.                                          *)
Body(bytes, codings, dense) == [bytes |-> bytes, codings |-> codings, dense |-> dense]
NoBody == Body(0, << >>, TRUE)
Text   == Body(15, << >>, TRUE)

Values(headers, name) == IF name \in DOMAIN headers THEN headers[name] ELSE << >>
eraseHeaderKey(headers, name) == Restrict(headers, DOMAIN headers \ {name})
addHeader(r, name, value) ==
    [r EXCEPT !.headers = [n \in DOMAIN @ \cup {name} |->
                               IF n = name THEN Append(Values(@, n), value) ELSE @[n]]]
setHeader(r, name, value) == addHeader([r EXCEPT !.headers = eraseHeaderKey(@, name)], name, value)

HTTPResponse(status) ==
    LET bare == [status |-> status, body |-> NoBody, headers |-> << >>]
    IN  addHeader(addHeader(addHeader(bare, "Content-Type", "text/html"), "Connection", "Keep-Alive"),
                  "Keep-Alive", "timeout=5")

(* Mutant of setBody: the length of an earlier body stays.                     *)
setBodyAgain(r, body) == addHeader([r EXCEPT !.body = body], "Content-Length", body.bytes)

setBody(r, body) == setHeader([r EXCEPT !.body = body], "Content-Length", body.bytes)

HeaderValues(r, name) == Values(r.headers, name)
hasHeader(r, name) == HeaderValues(r, name) # << >>
getHeaderValue(r, name) == IF hasHeader(r, name) THEN Head(HeaderValues(r, name)) ELSE ""

(* serializeTo(): a response without a length gets that of its body.           *)
Serialized(r) == IF hasHeader(r, "Content-Length") THEN r ELSE addHeader(r, "Content-Length", r.body.bytes)

addDefaultHeaders(r) ==
    setHeader(setHeader(setHeader(setHeader(r, "Connection", "Keep-Alive"), "Keep-Alive", "timeout=5"),
                        "Cache-Control", "no-cache"), "Content-Type", "text/plain")
buildResponse(status) == setBody(addDefaultHeaders(HTTPResponse(status)), Text)

responseNoContent           == buildResponse("204")
responseBadRequest          == buildResponse("400")
responseForbidden           == buildResponse("403")
responseInternalServerError == buildResponse("500")
responseMethodNotAllowed(methods) ==
    IF methods = "" THEN buildResponse("405") ELSE setHeader(buildResponse("405"), "Allow", methods)
buildAuthHeader == setBody(setHeader(HTTPResponse("401"), "WWW-Authenticate", "Basic"), Text)
(* buildHandshakeResponse(): the answer to an upgrade is not an HTTPResponse.  *)
buildHandshakeResponse ==
    [status |-> "101", body |-> NoBody,
     headers |-> [name \in {"Upgrade", "Connection", "Sec-WebSocket-Accept"} |-> <<"handshake">>]]
(* buildHeader(), sendResponseAsync() and the responses of sendFileAsync().    *)
buildHeader(status, contentType, body) ==
    [setHeader(setHeader(HTTPResponse(status), "Content-Type", contentType), "Content-Length", body.bytes)
     EXCEPT !.body = body]
RedirectTo(status, target) == setBody(setHeader(HTTPResponse(status), "Location", target), NoBody)
--------------------------------------------------------------------------------
(* CorsConfig::fromOptions().                                                  *)
CorsEnabled == Origins # << >> /\ CorsPaths # {}
BuiltInAllowHeaders == <<"content-type", "authorization", "accept", "x-requested-with">>
Allowed == IF AllowHeaders = << >> THEN BuiltInAllowHeaders ELSE AllowHeaders

matchesPath(path) == CorsEnabled /\ path \in CorsPaths

(* The first entry that fits decides; "none" is no origin.                     *)
resolveOrigin(origin) ==
    LET fits == SelectInSeq(Origins, LAMBDA o : o = "*" \/ o = origin)
    IN  IF ~CorsEnabled \/ origin = "none" \/ fits = 0 THEN "none" ELSE Origins[fits]

filterRequestedHeaders(requested) ==
    LET matched == SelectSeq(requested, LAMBDA h : h \in Range(Allowed))
    IN  IF matched = << >> THEN BuiltInAllowHeaders ELSE matched

applyCorsHeaders(r, request, preflight) ==
    LET origin == resolveOrigin(request.origin)
        told == setHeader(setHeader(setHeader(r, "Access-Control-Allow-Origin", origin),
                                    "Access-Control-Allow-Methods", "all"), "Vary", "Origin")
    IN  IF ~matchesPath(request.path) \/ origin = "none" THEN r
        ELSE IF preflight
             THEN setHeader(setHeader(told, "Access-Control-Allow-Headers", filterRequestedHeaders(request.asks)),
                            "Access-Control-Max-Age", "86400")
             ELSE setHeader(told, "Access-Control-Allow-Headers", BuiltInAllowHeaders)
--------------------------------------------------------------------------------
(* Accept-Encoding is read as a list of codings; their q values are not.       *)
acceptsGzip(accepts) == "gzip" \in Range(accepts)
Compressible == {"text/html", "text/plain", "application/json", "application/javascript", "application/xml"}

(* zlib: what is compressed already does not get smaller.                      *)
gzipCompress(body) == IF body.dense THEN body
                      ELSE Body(body.bytes \div 4, Append(body.codings, "gzip"), TRUE)

applyResponseCompression(r, request) ==
    IF r.body.bytes < MinCompress \/ hasHeader(r, "Content-Encoding") \/ ~acceptsGzip(request.accepts)
       \/ getHeaderValue(r, "Content-Type") \notin Compressible
       \/ gzipCompress(r.body).bytes >= r.body.bytes
    THEN r
    ELSE setHeader(setHeader(setBody(r, gzipCompress(r.body)), "Content-Encoding", "gzip"),
                   "Vary", "Accept-Encoding")
================================================================================
