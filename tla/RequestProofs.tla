----------------------------- MODULE RequestProofs -----------------------------
(* Proofs about one connection (module RequestPipeline), for any streams, any  *)
(* sizes of reads and limits, any users, pages and CORS settings.              *)
EXTENDS RequestPipeline, DataLemmas

--------------------------------------------------------------------------------
(* Statuses: what is done to a response on its way out keeps its status.       *)

HasStatus(r, s) == "status" \in DOMAIN r /\ r.status = s

LEMMA SetHeaderKeeps ==
    ASSUME NEW r, NEW s, HasStatus(r, s), NEW name, NEW value
    PROVE  HasStatus(setHeader(r, name, value), s) /\ HasStatus(addHeader(r, name, value), s)
BY DEF HasStatus, setHeader, addHeader

LEMMA SetBodyKeeps ==
    ASSUME NEW r, NEW s, HasStatus(r, s), NEW body
    PROVE  HasStatus(setBody(r, body), s)
<1>1. HasStatus([r EXCEPT !.body = body], s)
  BY DEF HasStatus
<1> QED BY <1>1, SetHeaderKeeps DEF setBody

LEMMA SerializedKeeps ==
    ASSUME NEW r, NEW s, HasStatus(r, s)
    PROVE  HasStatus(Serialized(r), s)
BY SetHeaderKeeps DEF Serialized

LEMMA CorsKeeps ==
    ASSUME NEW r, NEW s, HasStatus(r, s), NEW q, NEW preflight
    PROVE  HasStatus(applyCorsHeaders(r, q, preflight), s)
<1> DEFINE a == setHeader(r, "Access-Control-Allow-Origin", resolveOrigin(q.origin))
           b == setHeader(a, "Access-Control-Allow-Methods", "all")
           told == setHeader(b, "Vary", "Origin")
           c == setHeader(told, "Access-Control-Allow-Headers", filterRequestedHeaders(q.asks))
           d == setHeader(c, "Access-Control-Max-Age", "86400")
           e == setHeader(told, "Access-Control-Allow-Headers", BuiltInAllowHeaders)
<1>1. HasStatus(a, s)
  BY SetHeaderKeeps
<1> HIDE DEF a
<1>2. HasStatus(b, s)
  BY <1>1, SetHeaderKeeps
<1> HIDE DEF b
<1>3. HasStatus(told, s)
  BY <1>2, SetHeaderKeeps
<1> HIDE DEF told
<1>4. HasStatus(c, s) /\ HasStatus(e, s)
  BY <1>3, SetHeaderKeeps
<1> HIDE DEF c, e
<1>5. HasStatus(d, s)
  BY <1>4, SetHeaderKeeps
<1> HIDE DEF d
<1>6. applyCorsHeaders(r, q, preflight) \in {r, d, e}
  BY Zenon DEF applyCorsHeaders, d, e, c, told, b, a
<1> QED BY <1>4, <1>5, <1>6

LEMMA CompressionKeeps ==
    ASSUME NEW r, NEW s, HasStatus(r, s), NEW q
    PROVE  HasStatus(applyResponseCompression(r, q), s)
<1> DEFINE a == setBody(r, gzipCompress(r.body))
           b == setHeader(a, "Content-Encoding", "gzip")
           c == setHeader(b, "Vary", "Accept-Encoding")
<1>1. HasStatus(a, s)
  BY SetBodyKeeps
<1> HIDE DEF a
<1>2. HasStatus(b, s)
  BY <1>1, SetHeaderKeeps
<1> HIDE DEF b
<1>3. HasStatus(c, s)
  BY <1>2, SetHeaderKeeps
<1> HIDE DEF c
<1>4. applyResponseCompression(r, q) \in {r, c}
  BY Zenon DEF applyResponseCompression, c, b, a
<1> QED BY <1>3, <1>4

LEMMA FinishKeeps ==
    ASSUME NEW r, NEW s, HasStatus(r, s)
    PROVE  HasStatus(Finish(r), s)
BY CorsKeeps, CompressionKeeps DEF Finish

LEMMA StatusOfNew ==
    ASSUME NEW s
    PROVE  /\ HasStatus(HTTPResponse(s), s) /\ HasStatus(buildResponse(s), s)
           /\ \A t, b : HasStatus(buildHeader(s, t, b), s)
           /\ \A t : HasStatus(RedirectTo(s, t), s)
           /\ HasStatus(Made(s), s)
<1>1. HasStatus(HTTPResponse(s), s)
  <2> DEFINE bare == [status |-> s, body |-> NoBody, headers |-> << >>]
  <2>1. HasStatus(bare, s)
    BY DEF HasStatus
  <2> HIDE DEF bare
  <2> QED BY <2>1, SetHeaderKeeps DEF HTTPResponse, bare
<1>2. HasStatus(addDefaultHeaders(HTTPResponse(s)), s)
  BY <1>1, SetHeaderKeeps DEF addDefaultHeaders
<1>3. HasStatus(buildResponse(s), s)
  BY <1>2, SetBodyKeeps DEF buildResponse
<1>4. ASSUME NEW t, NEW b PROVE HasStatus(buildHeader(s, t, b), s)
  <2> DEFINE x == setHeader(setHeader(HTTPResponse(s), "Content-Type", t), "Content-Length", b.bytes)
  <2>1. HasStatus(x, s)
    BY <1>1, SetHeaderKeeps
  <2> HIDE DEF x
  <2>2. HasStatus([x EXCEPT !.body = b], s)
    BY <2>1 DEF HasStatus
  <2> QED BY <2>2 DEF buildHeader, x
<1>5. ASSUME NEW t PROVE HasStatus(RedirectTo(s, t), s)
  BY <1>1, SetHeaderKeeps, SetBodyKeeps DEF RedirectTo
<1>6. HasStatus(Made(s), s)
  <2> DEFINE x == setBody(setHeader(HTTPResponse(s), "Content-Type", req.made.type), req.made.body)
  <2>1. HasStatus(x, s)
    BY <1>1, SetHeaderKeeps, SetBodyKeeps
  <2> HIDE DEF x
  <2> DEFINE hs == [n \in DOMAIN x.headers \cup DOMAIN req.made.headers |->
                        Values(x.headers, n) \o Values(req.made.headers, n)]
             y == [x EXCEPT !.headers = hs]
  <2>2. \A h : HasStatus([x EXCEPT !.headers = h], s)
    BY <2>1 DEF HasStatus
  <2>3. HasStatus(y, s)
    BY <2>2
  <2>4. Made(s) = y
    BY DEF Made, x
  <2> QED BY <2>3, <2>4
<1> QED BY <1>1, <1>3, <1>4, <1>5, <1>6

LEMMA StatusOfRefusals ==
    /\ HasStatus(responseNoContent, "204") /\ HasStatus(responseBadRequest, "400")
    /\ HasStatus(responseForbidden, "403") /\ HasStatus(responseInternalServerError, "500")
    /\ HasStatus(responseMethodNotAllowed("GET"), "405") /\ HasStatus(buildAuthHeader, "401")
    /\ HasStatus(NotFound, "404")
    /\ HasStatus(Denial("refused"), "403") /\ HasStatus(Denial("failed"), "500")
<1>1. HasStatus(responseForbidden, "403") /\ HasStatus(responseInternalServerError, "500")
  BY StatusOfNew DEF responseForbidden, responseInternalServerError
<1>2. HasStatus(responseMethodNotAllowed("GET"), "405")
  BY StatusOfNew, SetHeaderKeeps DEF responseMethodNotAllowed
<1>3. HasStatus(buildAuthHeader, "401")
  BY StatusOfNew, SetHeaderKeeps, SetBodyKeeps DEF buildAuthHeader
<1>4. HasStatus(Denial("refused"), "403") /\ HasStatus(Denial("failed"), "500")
  BY <1>1 DEF Denial
<1> QED BY <1>1, <1>2, <1>3, <1>4, StatusOfNew DEF responseNoContent, responseBadRequest, NotFound

(* What Send leaves behind.                                                    *)
LEMMA Responded ==
    ASSUME NEW r, NEW s, HasStatus(r, s), NEW place, Send(r, place)
    PROVE  /\ status' = s /\ at' = place /\ answered' = Append(answered, Len(framed))
           /\ UNCHANGED <<stream, alive, readTo, begin, framed, failed>>
BY DEF Send, Goto, Unframing, status, HasStatus
--------------------------------------------------------------------------------
(* Logins.  A user name has no colon: the Authorization header could not carry *)
(* it.                                                                         *)
PlainNames == \A u \in Users : ":" \notin Range(u)

UsersInv ==
    /\ users = [u \in DOMAIN users |-> users[u]]
    /\ DOMAIN users \subseteq Users \ {<< >>}

(* The name in a header ends at its first colon.                               *)
LEMMA NameEndsAtColon ==
    ASSUME NEW header \in Seq(STRING), NEW i \in DOMAIN header, header[i] = ":",
           ":" \notin Range(SubSeq(header, 1, i - 1))
    PROVE  parseAuthorizationHeader(header) = [ok |-> i > 1, username |-> SubSeq(header, 1, i - 1),
                                               password |-> SubSeq(header, i + 1, Len(header))]
<1> DEFINE colon == SelectInSeq(header, LAMBDA w : w = ":")
           I == {j \in 1..Len(header) : header[j] = ":"}
<1>1. Len(header) \in Nat /\ DOMAIN header = 1..Len(header) /\ i \in I
  BY LenProperties
<1>2. \A j \in I : i <= j
  <2> SUFFICES ASSUME NEW j \in I, j < i PROVE FALSE
    BY <1>1
  <2> DEFINE a == SubSeq(header, 1, i - 1)
  <2>1. i - 1 \in 0..Len(header) /\ j \in 1..i - 1
    BY <1>1
  <2>2. a \in Seq(STRING) /\ Len(a) = i - 1
    BY <2>1, RangeOfSplit
  <2>3. a[j] = header[j]
    <3>1. \A k \in 1..i - 1 : header[k] \in STRING
      BY <1>1, ElementOfSeq
    <3>2. \A k \in 1..(i - 1 - 1 + 1) : a[k] = header[1 + k - 1]
      BY <1>1, <2>1, <3>1, SubSeqProperties
    <3> HIDE DEF a
    <3> QED BY <1>1, <2>1, <3>2
  <2>4. DOMAIN a = 1..i - 1
    BY <2>2, LenProperties
  <2> HIDE DEF a
  <2> QED BY <2>1, <2>3, <2>4 DEF Range, a
<1>3. Min(I) = i
  <2> HIDE DEF I
  <2>1. \A m \in I : (\A j \in I : m <= j) => m = i
    BY <1>1, <1>2 DEF I
  <2> QED BY <1>1, <1>2, <2>1 DEF Min
<1>4. colon = i
  <2> SelectInSeq(header, LAMBDA w : w = ":") = IF I # {} THEN Min(I) ELSE 0
    BY Zenon DEF SelectInSeq
  <2> HIDE DEF I
  <2> QED BY <1>1, <1>3
<1>5. ":" \in Range(header)
  BY DEF Range
<1>6. parseAuthorizationHeader(header) = [ok |-> colon > 1, username |-> SubSeq(header, 1, colon - 1),
                                          password |-> SubSeq(header, colon + 1, Len(header))]
  BY Zenon, <1>5 DEF parseAuthorizationHeader
<1> HIDE DEF colon
<1> QED BY <1>4, <1>6

(* And there is a first one.                                                   *)
LEMMA FirstColon ==
    ASSUME NEW header \in Seq(STRING), ":" \in Range(header)
    PROVE  \E i \in DOMAIN header : header[i] = ":" /\ ":" \notin Range(SubSeq(header, 1, i - 1))
<1> DEFINE I == {j \in 1..Len(header) : header[j] = ":"}
<1>1. Len(header) \in Nat /\ DOMAIN header = 1..Len(header)
  BY LenProperties
<1>2. I \in SUBSET Nat /\ I # {}
  BY <1>1 DEF Range
<1>3. PICK i \in I : \A j \in I : i <= j
  <2> HIDE DEF I
  <2> QED BY <1>2, LeastNumber
<1> DEFINE a == SubSeq(header, 1, i - 1)
<1>4. i - 1 \in 0..Len(header) /\ i \in 1..Len(header)
  BY <1>1, <1>3
<1>5. a \in Seq(STRING) /\ Len(a) = i - 1 /\ DOMAIN a = 1..i - 1
  <2>1. a \in Seq(STRING) /\ Len(a) = i - 1
    BY <1>4, RangeOfSplit
  <2> HIDE DEF a
  <2> QED BY <2>1, LenProperties
<1>6. \A k \in 1..i - 1 : a[k] = header[k] /\ k \notin I
  <2>1. \A k \in 1..i - 1 : header[k] \in STRING
    BY <1>1, <1>4, ElementOfSeq
  <2>2. \A k \in 1..(i - 1 - 1 + 1) : a[k] = header[1 + k - 1]
    BY <1>1, <1>4, <2>1, SubSeqProperties
  <2>3. \A k \in 1..i - 1 : ~(i <= k)
    BY <1>4
  <2> HIDE DEF a, I
  <2> QED BY <1>1, <1>3, <1>4, <2>2, <2>3
<1>7. ":" \notin Range(a)
  <2> HIDE DEF a
  <2>1. \A k \in 1..i - 1 : header[k] # ":"
    BY <1>1, <1>4, <1>6
  <2> QED BY <1>5, <1>6, <2>1 DEF Range
<1> QED BY <1>1, <1>3, <1>7

LEMMA LoginIsChecked ==
    ASSUME PlainNames, UsersInv, NEW path, NEW header \in Seq(STRING)
    PROVE  authenticate(path, header) <=> Login(path, header)
<1>1. users # << >> <=> DOMAIN users # {}
  <2>1. users = << >> => DOMAIN users = {}
    OBVIOUS
  <2>2. ASSUME DOMAIN users = {} PROVE users = << >>
    <3>1. users = [u \in {} |-> users[u]]
      BY <2>2 DEF UsersInv
    <3>2. [u \in {} |-> users[u]] = << >>
      OBVIOUS
    <3> QED BY Zenon, <3>1, <3>2
  <2> QED BY <2>1, <2>2
<1>2. ASSUME verifyCredentials(header), users # << >>
      PROVE  \E u \in DOMAIN users : \E i \in DOMAIN header :
                header[i] = ":" /\ SubSeq(header, 1, i - 1) = u
                /\ users[u] = sha256Hash(SubSeq(header, i + 1, Len(header)))
  <2> DEFINE given == parseAuthorizationHeader(header)
  <2>1. given.ok /\ given.username \in DOMAIN users /\ users[given.username] = sha256Hash(given.password)
    BY <1>2 DEF verifyCredentials
  <2>2. ":" \in Range(header)
    BY <2>1 DEF parseAuthorizationHeader
  <2>3. PICK i \in DOMAIN header : header[i] = ":" /\ ":" \notin Range(SubSeq(header, 1, i - 1))
    BY <2>2, FirstColon
  <2>4. given = [ok |-> i > 1, username |-> SubSeq(header, 1, i - 1), password |-> SubSeq(header, i + 1, Len(header))]
    BY <2>3, NameEndsAtColon
  <2> HIDE DEF given
  <2> QED BY <2>1, <2>3, <2>4
<1>3. ASSUME NEW u \in DOMAIN users, NEW i \in DOMAIN header, header[i] = ":", SubSeq(header, 1, i - 1) = u,
             users[u] = sha256Hash(SubSeq(header, i + 1, Len(header)))
      PROVE  verifyCredentials(header)
  <2>1. u \in Users /\ u # << >> /\ ":" \notin Range(SubSeq(header, 1, i - 1))
    BY <1>3 DEF UsersInv, PlainNames
  <2>2. parseAuthorizationHeader(header)
          = [ok |-> i > 1, username |-> SubSeq(header, 1, i - 1), password |-> SubSeq(header, i + 1, Len(header))]
    BY <1>3, <2>1, NameEndsAtColon
  <2>3. i > 1
    <3>1. Len(header) \in Nat /\ i \in 1..Len(header)
      BY LenProperties
    <3>2. ASSUME i = 1 PROVE FALSE
      <4>1. SubSeq(header, 1, 0) \in Seq(STRING) /\ Len(SubSeq(header, 1, 0)) = 0
        BY <3>1, RangeOfSplit
      <4>2. SubSeq(header, 1, 0) = << >>
        BY <4>1, EmptySeq
      <4> QED BY <1>3, <2>1, <3>2, <4>2
    <3> QED BY <3>1, <3>2
  <2> DEFINE given == parseAuthorizationHeader(header)
             name == SubSeq(header, 1, i - 1)
             word == SubSeq(header, i + 1, Len(header))
  <2>4. given = [ok |-> i > 1, username |-> name, password |-> word]
    BY <2>2
  <2> HIDE DEF given, name, word
  <2>5. given.ok /\ given.username = name /\ given.password = word
    BY <2>3, <2>4
  <2>6. name \in DOMAIN users /\ users[name] = sha256Hash(word)
    BY <1>3 DEF name, word
  <2>7. given.ok /\ given.username \in DOMAIN users /\ users[given.username] = sha256Hash(given.password)
    BY <2>5, <2>6
  <2> QED BY Zenon, <2>7 DEF verifyCredentials, given
<1> QED BY <1>1, <1>2, <1>3 DEF authenticate, requiresAuth, Login

(* Setting up keeps the users in order; later steps leave them alone.          *)
LEMMA UsersStep == UsersInv /\ [Next]_vars => UsersInv'
<1> SUFFICES ASSUME UsersInv, [Next]_vars PROVE UsersInv'
  OBVIOUS
<1>1. CASE UNCHANGED users
  BY <1>1 DEF UsersInv
<1>2. CASE clearUsers
  <2>1. users' = << >>
    BY <1>2 DEF clearUsers
  <2> QED BY <2>1 DEF UsersInv
<1>3. ASSUME NEW name \in Users, removeUser(name) PROVE UsersInv'
  BY <1>3 DEF removeUser, UsersInv
<1>4. ASSUME NEW name \in Users, NEW p \in Passwords, addUser(name, p) PROVE UsersInv'
  BY <1>4 DEF addUser, addUserHashed, UsersInv
<1> QED BY <1>1, <1>2, <1>3, <1>4 DEF Next, Step, Leave, Start, SetUp, setEnabled, clearProtectedPages,
           addProtectedPage, removeProtectedPage, avars, vars

LEMMA UsersInitially == Init => UsersInv
BY DEF Init, AuthInit, UsersInv
--------------------------------------------------------------------------------
(* Where the messages of a stream begin and end.                               *)

GoodStream ==
    /\ stream \in Seq(Range(stream)) /\ stream # << >> /\ Len(stream) \in Nat \ {0} /\ DOMAIN stream = 1..Len(stream)
    /\ \A i \in 1..Len(stream) :
           /\ stream[i].head \in Nat \ {0} /\ stream[i].body \in Nat /\ Bytes(stream[i]) \in Nat
           /\ stream[i].framing \in {"none", "length", "badlength", "chunked", "garbled"}
           /\ stream[i].framing = "none" => stream[i].body = 0

LEMMA StreamsAreGood == stream \in Streams => GoodStream
<1> SUFFICES ASSUME stream \in Streams PROVE GoodStream
  OBVIOUS
<1>1. stream # << >> /\ stream \in Seq(Range(stream)) /\ \A i \in DOMAIN stream :
           /\ stream[i].head \in Nat \ {0} /\ stream[i].body \in Nat
           /\ stream[i].framing \in {"none", "length", "badlength", "chunked", "garbled"}
           /\ stream[i].framing = "none" => stream[i].body = 0
  BY FramingAssumption
<1>2. Len(stream) \in Nat \ {0} /\ DOMAIN stream = 1..Len(stream)
  BY <1>1, LenProperties, EmptySeq
<1> QED BY <1>1, <1>2 DEF GoodStream, Bytes

LEMMA Starts ==
    ASSUME GoodStream
    PROVE  /\ StartOf(1) = 0
           /\ \A k \in 1..Len(stream) : StartOf(k + 1) = StartOf(k) + Bytes(stream[k])
<1> DEFINE n == Len(stream)
           d == [k \in 1..n |-> Bytes(stream[k])]
           IsBefore(w) == w = [k \in 0..n |-> IF k = 0 THEN 0 ELSE w[k - 1] + Bytes(stream[k])]
           before == CHOOSE w : IsBefore(w)
<1>1. n \in Nat
  BY DEF GoodStream
<1>2. PICK w : IsRunningSum(w, d, n)
  <2> HIDE DEF n, d
  <2> QED BY <1>1, RunningSumExists
<1>3. IsBefore(w)
  <2>1. \A k \in 0..n : k # 0 => k \in 1..n /\ d[k] = Bytes(stream[k])
    BY <1>1
  <2> HIDE DEF n, d
  <2> QED BY <1>2, <2>1 DEF IsRunningSum
<1>4. IsBefore(before)
  <2> HIDE DEF IsBefore
  <2> QED BY <1>3
<1>5. \A i : StartOf(i) = before[i - 1]
  BY Zenon DEF StartOf
<1> HIDE DEF before, n
<1>6. before[0] = 0 /\ \A k \in 1..n : before[k] = before[k - 1] + Bytes(stream[k])
  <2>1. 0 \in 0..n /\ \A k \in 1..n : k \in 0..n /\ k # 0
    BY <1>1
  <2> QED BY <1>4, <2>1
<1>7. 1 - 1 = 0 /\ \A k \in 1..n : k + 1 - 1 = k
  BY <1>1
<1> HIDE DEF IsBefore
<1>8. StartOf(1) = 0
  BY <1>5, <1>6, <1>7
<1>9. ASSUME NEW k \in 1..n PROVE StartOf(k + 1) = StartOf(k) + Bytes(stream[k])
  <2>1. StartOf(k + 1) = before[k] /\ StartOf(k) = before[k - 1]
    BY <1>5, <1>7
  <2> QED BY <1>6, <2>1
<1> QED BY <1>8, <1>9 DEF n

LEMMA StartsAreNumbers ==
    ASSUME GoodStream
    PROVE  \A k \in 1..Len(stream) + 1 : StartOf(k) \in Nat
<1> DEFINE n == Len(stream)
           Bad == {k \in 1..n + 1 : StartOf(k) \notin Nat}
<1>1. n \in Nat /\ StartOf(1) = 0 /\ \A k \in 1..n : StartOf(k + 1) = StartOf(k) + Bytes(stream[k]) /\ Bytes(stream[k]) \in Nat
  BY Starts DEF GoodStream
<1>2. ASSUME Bad # {} PROVE FALSE
  <2>1. PICK m \in Bad : \A k \in Bad : m <= k
    <3>1. Bad \in SUBSET Nat
      BY <1>1
    <3> HIDE DEF Bad
    <3> QED BY <1>2, <3>1, LeastNumber
  <2>2. m \in 1..n + 1 /\ StartOf(m) \notin Nat
    OBVIOUS
  <2>3. m # 1
    BY <1>1, <2>2
  <2> DEFINE l == m - 1
  <2>4. l \in 1..n /\ l \in 1..n + 1 /\ l + 1 = m /\ ~(m <= l)
    <3> HIDE DEF Bad, n
    <3> QED BY <1>1, <2>2, <2>3
  <2>5. StartOf(l) \in Nat
    <3>1. l \notin Bad
      <4> HIDE DEF Bad, n, l
      <4> QED BY <2>1, <2>4
    <3> HIDE DEF n, l
    <3> QED BY <2>4, <3>1
  <2>6. StartOf(l + 1) = StartOf(l) + Bytes(stream[l]) /\ Bytes(stream[l]) \in Nat
    <3> HIDE DEF n, l, Bad
    <3> QED BY <1>1, <2>4
  <2> HIDE DEF Bad, n, l
  <2> QED BY <2>2, <2>4, <2>5, <2>6
<1> QED BY <1>2

(* The messages follow each other.                                             *)
LEMMA MessagesFollow ==
    ASSUME GoodStream, NEW j \in 1..Len(stream)
    PROVE  /\ StartOf(j) \in Nat /\ HeadEnd(j) \in Nat /\ MessageEnd(j) \in Nat
           /\ StartOf(j) < HeadEnd(j) /\ HeadEnd(j) <= MessageEnd(j)
           /\ HeadEnd(j) = StartOf(j) + stream[j].head /\ MessageEnd(j) = HeadEnd(j) + stream[j].body
           /\ MessageEnd(j) = StartOf(j + 1)
           /\ \A k \in j + 1..Len(stream) + 1 : MessageEnd(j) <= StartOf(k)
<1> DEFINE n == Len(stream)
<1>1. n \in Nat /\ j \in Nat /\ 1 <= j /\ j <= n
  BY DEF GoodStream
<1>2. /\ StartOf(j + 1) = StartOf(j) + Bytes(stream[j]) /\ StartOf(j) \in Nat
      /\ stream[j].head \in Nat \ {0} /\ stream[j].body \in Nat
  <2>1. j \in 1..n + 1
    BY <1>1
  <2> QED BY <2>1, Starts, StartsAreNumbers DEF GoodStream
<1>3. /\ HeadEnd(j) = StartOf(j) + stream[j].head /\ MessageEnd(j) = HeadEnd(j) + stream[j].body
  BY DEF HeadEnd, MessageEnd
<1>4. /\ HeadEnd(j) \in Nat /\ MessageEnd(j) \in Nat /\ StartOf(j) < HeadEnd(j) /\ HeadEnd(j) <= MessageEnd(j)
      /\ MessageEnd(j) = StartOf(j + 1)
  BY <1>2, <1>3 DEF Bytes
<1> DEFINE Bad == {k \in j + 1..n + 1 : ~(MessageEnd(j) <= StartOf(k))}
<1>5. ASSUME Bad # {} PROVE FALSE
  <2>1. PICK m \in Bad : \A k \in Bad : m <= k
    <3>1. Bad \in SUBSET Nat
      BY <1>1
    <3> HIDE DEF Bad
    <3> QED BY <1>5, <3>1, LeastNumber
  <2>2. m \in j + 1..n + 1 /\ ~(MessageEnd(j) <= StartOf(m))
    OBVIOUS
  <2>3. m # j + 1
    BY <1>4, <2>2
  <2> DEFINE l == m - 1
  <2>4. l \in 1..n /\ l \in 1..n + 1 /\ l \in j + 1..n + 1 /\ l + 1 = m /\ ~(m <= l)
    <3> HIDE DEF Bad, n
    <3> QED BY <1>1, <2>2, <2>3
  <2>5. MessageEnd(j) <= StartOf(l)
    <3>1. l \notin Bad
      <4> HIDE DEF Bad, n, l
      <4> QED BY <2>1, <2>4
    <3> HIDE DEF n, l
    <3> QED BY <2>4, <3>1
  <2>6. StartOf(l + 1) = StartOf(l) + Bytes(stream[l]) /\ Bytes(stream[l]) \in Nat /\ StartOf(l) \in Nat
    <3> HIDE DEF l, Bad
    <3> QED BY <2>4, Starts, StartsAreNumbers DEF GoodStream
  <2> HIDE DEF Bad, n, l
  <2> QED BY <1>4, <2>2, <2>4, <2>5, <2>6
<1> QED BY <1>2, <1>3, <1>4, <1>5
--------------------------------------------------------------------------------
(* Framing.                                                                    *)

LEMMA MinIsLeast ==
    ASSUME NEW S \in SUBSET Nat, S # {}
    PROVE  Min(S) \in S /\ \A y \in S : Min(S) <= y
BY LeastNumber DEF Min

(* The longest body that can be handed on.                                     *)
Limit == Max({MaxBody, ReadSize})

LEMMA LimitIsMax ==
    /\ MaxBody \in Nat /\ ReadSize \in Nat \ {0} /\ MaxHeader \in Nat /\ MaxRequests \in Nat
    /\ Limit \in Nat /\ MaxBody <= Limit /\ ReadSize <= Limit
<1>1. MaxBody \in Nat /\ ReadSize \in Nat \ {0} /\ MaxHeader \in Nat /\ MaxRequests \in Nat
  BY FramingAssumption
<1>2. \E x \in {MaxBody, ReadSize} : \A y \in {MaxBody, ReadSize} : x >= y
  BY <1>1
<1>3. Limit \in {MaxBody, ReadSize} /\ \A y \in {MaxBody, ReadSize} : Limit >= y
  BY <1>2 DEF Limit, Max
<1> QED BY <1>1, <1>3

(* The message that is being read.                                             *)
K == Len(framed) + 1
InMessage == {"preflight", "length", "discarding", "body", "oversize"}
Handling == {"dispatch", "cors", "upgrade", "redirect", "routegate", "wsgate", "handshake", "syncroute",
             "handler", "auth", "pagegate", "file", "answered", "upgraded"}

(* What was framed are the first messages, each whole and of a bounded size.   *)
FramedSoFar ==
    /\ stream \in Streams /\ at \in Places
    /\ framed \in Seq(Nat \X Nat) /\ Len(framed) <= Len(stream)
    /\ begin = StartOf(K) /\ readTo \in Nat /\ begin <= readTo
    /\ FramedOnBoundaries
    /\ \A k \in 1..Len(framed) : stream[k].body <= Limit

(* How far a message has been read, by where the connection is: never more     *)
(* than one read beyond the end that was looked for.                           *)
ReadSoFar ==
    /\ at \in Handling => Len(framed) # 0
    /\ at \in InMessage => K <= Len(stream) /\ HeadEnd(K) <= readTo
    /\ at = "waiting" => readTo = begin
    /\ at \in Handling \cup {"loop"} => readTo <= begin + ReadSize
    /\ (at = "headers" /\ K <= Len(stream)) => readTo <= HeadEnd(K) + ReadSize
    /\ at \in {"preflight", "length"} => readTo <= HeadEnd(K) + ReadSize
    /\ at = "body" =>
           /\ stream[K].framing # "badlength"
           /\ stream[K].framing = "length" => stream[K].body <= MaxBody
           /\ stream[K].framing \in {"length", "chunked"} => readTo <= MessageEnd(K) + ReadSize
           /\ stream[K].framing = "none" => readTo <= HeadEnd(K) + ReadSize
           /\ stream[K].framing = "chunked" => readTo <= HeadEnd(K) + Limit

FramingInv == FramedSoFar /\ ReadSoFar

(* Numbers of the message that is being read.                                  *)
LEMMA Around ==
    ASSUME FramedSoFar
    PROVE  /\ Len(stream) \in Nat \ {0} /\ Len(framed) \in Nat /\ K \in 1..Len(stream) + 1 /\ begin \in Nat
           /\ DOMAIN framed = 1..Len(framed) /\ DOMAIN stream = 1..Len(stream)
           /\ K <= Len(stream) =>
                  /\ K \in 1..Len(stream) /\ HeadEnd(K) \in Nat /\ MessageEnd(K) \in Nat
                  /\ begin < HeadEnd(K) /\ HeadEnd(K) <= MessageEnd(K) /\ MessageEnd(K) = StartOf(K + 1)
                  /\ MessageEnd(K) = HeadEnd(K) + stream[K].body /\ stream[K].body \in Nat
                  /\ stream[K].framing \in {"none", "length", "badlength", "chunked", "garbled"}
                  /\ stream[K].framing = "none" => stream[K].body = 0
           /\ K > Len(stream) => begin = MessageEnd(Len(stream))
<1>1. GoodStream
  BY StreamsAreGood DEF FramedSoFar
<1>2. Len(framed) \in Nat /\ DOMAIN framed = 1..Len(framed)
  BY LenProperties DEF FramedSoFar
<1>3. K \in 1..Len(stream) + 1 /\ (K <= Len(stream) => K \in 1..Len(stream)) /\ (K > Len(stream) => K = Len(stream) + 1)
  BY <1>1, <1>2 DEF GoodStream, FramedSoFar, K
<1>4. begin = StartOf(K) /\ begin \in Nat
  BY <1>1, <1>3, StartsAreNumbers DEF FramedSoFar
<1>5. ASSUME K <= Len(stream)
      PROVE  /\ HeadEnd(K) \in Nat /\ MessageEnd(K) \in Nat
             /\ begin < HeadEnd(K) /\ HeadEnd(K) <= MessageEnd(K) /\ MessageEnd(K) = StartOf(K + 1)
             /\ MessageEnd(K) = HeadEnd(K) + stream[K].body /\ stream[K].body \in Nat
             /\ stream[K].framing \in {"none", "length", "badlength", "chunked", "garbled"}
             /\ stream[K].framing = "none" => stream[K].body = 0
  BY <1>1, <1>3, <1>4, <1>5, MessagesFollow DEF GoodStream
<1>6. ASSUME K > Len(stream) PROVE begin = MessageEnd(Len(stream))
  <2>1. Len(stream) \in 1..Len(stream)
    BY <1>1 DEF GoodStream
  <2> QED BY <1>1, <1>3, <1>4, <1>6, <2>1, MessagesFollow
<1> QED BY <1>1, <1>2, <1>3, <1>4, <1>5, <1>6 DEF GoodStream

(* The first head that is complete is that of the message being read.          *)
LEMMA CurrentIsNext ==
    ASSUME FramedSoFar
    PROVE  /\ Heads # {} <=> K <= Len(stream) /\ HeadEnd(K) <= readTo
           /\ Heads # {} => Current = K
<1>1. GoodStream
  BY StreamsAreGood DEF FramedSoFar
<1>2. ASSUME NEW i \in Heads PROVE K <= i /\ K <= Len(stream) /\ HeadEnd(K) <= HeadEnd(i) /\ HeadEnd(K) <= readTo
  <2>1. i \in 1..Len(stream) /\ begin < HeadEnd(i) /\ HeadEnd(i) <= readTo
    BY <1>1 DEF Heads, GoodStream
  <2>2. K <= i
    <3>1. SUFFICES ASSUME i < K PROVE FALSE
      BY <2>1, Around
    <3>2. K \in i + 1..Len(stream) + 1
      BY <2>1, <3>1, Around
    <3>3. HeadEnd(i) <= MessageEnd(i) /\ MessageEnd(i) <= StartOf(K) /\ HeadEnd(i) \in Nat /\ MessageEnd(i) \in Nat
      BY <1>1, <2>1, <3>2, MessagesFollow
    <3> QED BY <2>1, <3>3, Around DEF FramedSoFar
  <2>3. K <= Len(stream)
    BY <2>1, <2>2, Around
  <2>4. HeadEnd(K) <= HeadEnd(i)
    <3>1. CASE i = K
      BY <2>3, <3>1, Around
    <3>2. CASE i # K
      <4>1. K \in 1..Len(stream) /\ i \in K + 1..Len(stream) + 1
        BY <2>1, <2>2, <2>3, <3>2, Around
      <4>2. HeadEnd(K) <= MessageEnd(K) /\ MessageEnd(K) <= StartOf(i) /\ HeadEnd(K) \in Nat /\ MessageEnd(K) \in Nat
        BY <1>1, <4>1, MessagesFollow
      <4>3. StartOf(i) < HeadEnd(i) /\ StartOf(i) \in Nat /\ HeadEnd(i) \in Nat
        BY <1>1, <2>1, MessagesFollow
      <4> QED BY <4>2, <4>3
    <3> QED BY <3>1, <3>2
  <2>5. HeadEnd(K) \in Nat /\ HeadEnd(i) \in Nat /\ readTo \in Nat
    BY <1>1, <2>1, <2>3, Around, MessagesFollow DEF FramedSoFar
  <2> QED BY <2>1, <2>2, <2>3, <2>4, <2>5
<1>3. K <= Len(stream) /\ HeadEnd(K) <= readTo => K \in Heads
  BY Around DEF Heads
<1>4. Heads \in SUBSET Nat
  BY <1>1 DEF Heads, GoodStream
<1>5. ASSUME Heads # {} PROVE Current = K
  <2>1. Current \in Heads /\ \A y \in Heads : Current <= y
    <3> HIDE DEF Heads
    <3> QED BY <1>4, <1>5, MinIsLeast DEF Current
  <2>2. K \in Heads /\ K <= Current
    BY <1>2, <1>3, <2>1
  <2>3. Current <= K /\ Current \in Nat /\ K \in Nat
    BY <1>4, <2>1, <2>2
  <2> HIDE DEF K, Current
  <2> QED BY <2>2, <2>3
<1> QED BY <1>2, <1>3, <1>5

(* What the client can have sent is part of its stream.                        *)
LEMMA SendableIsSent ==
    ASSUME FramedSoFar
    PROVE  Sendable \in Nat /\ MessageEnd(Len(stream)) \in Nat /\ Sendable <= MessageEnd(Len(stream))
<1>1. GoodStream
  BY StreamsAreGood DEF FramedSoFar
<1> DEFINE all == MessageEnd(Len(stream))
           S == {all} \cup {HeadEnd(i) : i \in Withheld}
<1>2. S \in SUBSET Nat /\ all \in S /\ all \in Nat
  <2>1. \A i \in Withheld : i \in 1..Len(stream)
    BY <1>1 DEF Withheld, GoodStream
  <2>2. Len(stream) \in 1..Len(stream)
    BY <1>1 DEF GoodStream
  <2> QED BY <1>1, <2>1, <2>2, MessagesFollow
<1>3. Sendable = Min(S)
  BY DEF Sendable
<1> HIDE DEF S, all
<1> QED BY <1>2, <1>3, MinIsLeast DEF all

(* A read brings at most ReadSize bytes, and none once all were read.          *)
LEMMA ReadBrings ==
    ASSUME FramedSoFar, NEW limit \in Nat, ReadUpTo(limit)
    PROVE  /\ readTo' \in Nat /\ readTo < readTo' /\ readTo' <= readTo + ReadSize
           /\ UNCHANGED <<stream, begin, framed, answered>>
           /\ readTo < MessageEnd(Len(stream))
<1> DEFINE all == MessageEnd(Len(stream))
           T == {readTo + ReadSize, limit, Sendable}
<1>1. Sendable \in Nat /\ all \in Nat /\ Sendable <= all
  BY SendableIsSent
<1>2. T \in SUBSET Nat /\ T # {} /\ readTo \in Nat
  <2> HIDE DEF all
  <2> QED BY <1>1, LimitIsMax DEF FramedSoFar
<1>3. Min(T) \in Nat /\ Min(T) <= readTo + ReadSize /\ Min(T) <= Sendable
  <2>1. Min(T) \in T /\ \A y \in T : Min(T) <= y
    <3> HIDE DEF T
    <3> QED BY <1>2, MinIsLeast
  <2>2. readTo + ReadSize \in T /\ Sendable \in T
    OBVIOUS
  <2> HIDE DEF T
  <2> QED BY <1>2, <2>1, <2>2
<1>4. readTo' \in (readTo + 1)..Min(T) /\ UNCHANGED <<stream, begin, framed, answered>>
  BY DEF ReadUpTo
<1> HIDE DEF T, all
<1>5. readTo' \in Nat /\ readTo < readTo' /\ readTo' <= readTo + ReadSize /\ readTo < all
  BY <1>1, <1>2, <1>3, <1>4, LimitIsMax
<1> QED BY <1>4, <1>5 DEF all

LEMMA SameMessages ==
    ASSUME UNCHANGED stream
    PROVE  \A k : StartOf(k)' = StartOf(k) /\ HeadEnd(k)' = HeadEnd(k) /\ MessageEnd(k)' = MessageEnd(k)
<1>1. ASSUME NEW k PROVE StartOf(k)' = StartOf(k)
  BY Zenon DEF StartOf
<1>2. ASSUME NEW k PROVE HeadEnd(k)' = HeadEnd(k)
  BY <1>1 DEF HeadEnd
<1>3. ASSUME NEW k PROVE MessageEnd(k)' = MessageEnd(k)
  BY <1>2 DEF MessageEnd
<1> QED BY <1>1, <1>2, <1>3

(* Nothing was framed: the same message is read, further perhaps.              *)
LEMMA SameMessage ==
    ASSUME FramedSoFar, UNCHANGED <<stream, framed, begin>>, readTo' \in Nat, readTo <= readTo', at' \in Places
    PROVE  /\ FramedSoFar'
           /\ K' = K /\ HeadEnd(K)' = HeadEnd(K) /\ MessageEnd(K)' = MessageEnd(K)
<1>1. K' = K
  BY DEF K
<1>2. StartOf(K)' = StartOf(K) /\ HeadEnd(K)' = HeadEnd(K) /\ MessageEnd(K)' = MessageEnd(K)
  BY <1>1, SameMessages
<1>3. FramedOnBoundaries'
  BY SameMessages DEF FramedOnBoundaries, FramedSoFar
<1>4. begin' <= readTo'
  BY Around DEF FramedSoFar
<1> QED BY <1>1, <1>2, <1>3, <1>4 DEF FramedSoFar

(* One message more was framed.                                                *)
LEMMA NextMessage ==
    ASSUME FramedSoFar, K <= Len(stream), UNCHANGED <<stream, readTo>>, at' \in Places,
           framed' = Append(framed, <<begin, MessageEnd(K)>>), begin' = MessageEnd(K), begin' <= readTo,
           stream[K].body <= Limit
    PROVE  FramedSoFar' /\ Len(framed') = K
<1>1. Len(framed) \in Nat /\ begin \in Nat /\ MessageEnd(K) \in Nat /\ MessageEnd(K) = StartOf(K + 1)
      /\ DOMAIN framed = 1..Len(framed)
  BY Around
<1>2. /\ framed' \in Seq(Nat \X Nat) /\ Len(framed') = K /\ DOMAIN framed' = 1..K
      /\ framed'[K] = <<begin, MessageEnd(K)>> /\ \A k \in 1..Len(framed) : framed'[k] = framed[k]
  <2>1. framed \in Seq(Nat \X Nat) /\ <<begin, MessageEnd(K)>> \in Nat \X Nat
    BY <1>1 DEF FramedSoFar
  <2>2. /\ framed' \in Seq(Nat \X Nat) /\ Len(framed') = Len(framed) + 1
        /\ framed'[Len(framed) + 1] = <<begin, MessageEnd(K)>> /\ \A k \in 1..Len(framed) : framed'[k] = framed[k]
    BY <2>1, AppendProperties
  <2>3. DOMAIN framed' = 1..Len(framed')
    BY <2>2, LenProperties
  <2> QED BY <2>2, <2>3 DEF K
<1>3. K' = K + 1
  BY <1>2 DEF K
<1>4. StartOf(K)' = StartOf(K + 1)
  BY <1>3, SameMessages
<1>5. \A k \in 1..K : k \in 1..Len(framed) \/ k = K
  BY <1>1 DEF K
<1>6. FramedOnBoundaries'
  BY <1>1, <1>2, <1>5, SameMessages DEF FramedOnBoundaries, FramedSoFar
<1>7. \A k \in 1..Len(framed') : stream'[k].body <= Limit
  BY <1>2, <1>5 DEF FramedSoFar
<1> QED BY <1>1, <1>2, <1>4, <1>6, <1>7 DEF FramedSoFar

(* Every step of the framing keeps the bounds.                                 *)
LEMMA FramingKeeps ==
    ASSUME FramingInv, FramingStep
    PROVE  FramingInv'
<1> USE DEF Goto
<1>1. /\ FramedSoFar /\ ReadSoFar /\ readTo \in Nat /\ begin \in Nat /\ begin <= readTo
      /\ ReadSize \in Nat \ {0} /\ MaxBody \in Nat /\ Limit \in Nat /\ MaxBody <= Limit /\ ReadSize <= Limit
  BY Around, LimitIsMax DEF FramingInv, FramedSoFar
<1>2. at' \in {"closed", "waiting", "headers", "preflight", "length", "discarding", "body", "oversize", "dispatch"}
  BY DEF FramingStep, NextRequest, LimitReached, FirstRead, Headers, Preflight, Length, Discard, Frame, ReadBody,
         Oversize
<1>3. at' \in Places
  BY <1>2 DEF Places, FramingPlaces
<1>4. at' \notin Handling \/ at' = "dispatch"
  BY <1>2 DEF Handling
<1> DEFINE Same == /\ FramedSoFar' /\ K' = K /\ HeadEnd(K)' = HeadEnd(K) /\ MessageEnd(K)' = MessageEnd(K)
                   /\ UNCHANGED <<stream, framed, begin>> /\ readTo' \in Nat
<1>5. ASSUME UNCHANGED <<stream, framed, begin, readTo>> PROVE Same
  BY <1>1, <1>3, <1>5, SameMessage
<1>6. ASSUME NEW limit \in Nat, ReadUpTo(limit)
      PROVE  Same /\ readTo < readTo' /\ readTo' <= readTo + ReadSize /\ readTo < MessageEnd(Len(stream))
  <2>1. /\ readTo' \in Nat /\ readTo < readTo' /\ readTo' <= readTo + ReadSize
        /\ UNCHANGED <<stream, begin, framed>> /\ readTo < MessageEnd(Len(stream))
    BY <1>1, <1>6, ReadBrings
  <2>2. readTo <= readTo'
    BY <1>1, <2>1
  <2> QED BY <1>1, <1>3, <2>1, <2>2, SameMessage
<1>7. ASSUME Read
      PROVE  Same /\ readTo < readTo' /\ readTo' <= readTo + ReadSize /\ readTo < MessageEnd(Len(stream))
  BY <1>1, <1>6, <1>7, SendableIsSent DEF Read
<1>8. ASSUME at' = "closed", UNCHANGED <<stream, framed, begin, readTo>> PROVE FramingInv'
  BY <1>5, <1>8 DEF FramingInv, ReadSoFar, Handling, InMessage
<1>9. ASSUME Read, K > Len(stream) PROVE FALSE
  <2>1. begin = MessageEnd(Len(stream)) /\ readTo < MessageEnd(Len(stream))
    BY <1>1, <1>7, <1>9, Around
  <2> QED BY <1>1, <2>1
<1>10. K \in 1..Len(stream) + 1 /\ Len(stream) \in Nat /\ Len(framed) \in Nat
  BY <1>1, Around
<1>11. ASSUME K <= Len(stream)
       PROVE  /\ HeadEnd(K) \in Nat /\ MessageEnd(K) \in Nat
              /\ begin < HeadEnd(K) /\ HeadEnd(K) <= MessageEnd(K)
              /\ MessageEnd(K) = HeadEnd(K) + stream[K].body /\ stream[K].body \in Nat
  BY <1>1, <1>11, Around
<1>12. CASE NextRequest
  <2>1. Same /\ at = "loop" /\ readTo' = readTo
    BY <1>5, <1>12 DEF NextRequest
  <2>2. CASE at' = "waiting"
    <3>1. readTo' = begin'
      BY <1>12, <2>1, <2>2 DEF NextRequest
    <3> QED BY <2>1, <2>2, <3>1 DEF FramingInv, ReadSoFar, Handling, InMessage
  <2>3. CASE at' = "headers"
    <3>1. readTo <= begin + ReadSize
      BY <1>1, <2>1 DEF ReadSoFar
    <3>2. K <= Len(stream) => readTo <= HeadEnd(K) + ReadSize
      BY <1>1, <1>11, <3>1
    <3> QED BY <2>1, <2>3, <3>2 DEF FramingInv, ReadSoFar, Handling, InMessage
  <2> QED BY <1>12, <2>2, <2>3 DEF NextRequest
<1>13. CASE LimitReached
  BY <1>8, <1>13 DEF LimitReached, Stay
<1>14. CASE FirstRead
  <2>1. CASE Read /\ at' = "headers"
    <3>1. Same /\ readTo' <= readTo + ReadSize
      BY <1>7, <2>1
    <3>2. readTo = begin
      BY <1>1, <1>14 DEF FirstRead, ReadSoFar
    <3>3. K <= Len(stream) => readTo' <= HeadEnd(K) + ReadSize
      <4> HIDE DEF K
      <4> QED BY <1>1, <1>11, <3>1, <3>2
    <3> QED BY <2>1, <3>1, <3>3 DEF FramingInv, ReadSoFar, Handling, InMessage
  <2>2. CASE ReadFails /\ at' = "closed"
    BY <1>8, <2>2 DEF ReadFails
  <2> QED BY <1>14, <2>1, <2>2 DEF FirstRead
<1>15. CASE Headers
  <2>1. CASE Heads # {} /\ at' = "preflight" /\ Stay
    <3>1. Same /\ readTo' = readTo /\ K <= Len(stream) /\ HeadEnd(K) <= readTo
      BY <1>1, <1>5, <2>1, CurrentIsNext DEF Stay
    <3>2. readTo <= HeadEnd(K) + ReadSize
      BY <1>1, <1>15, <3>1 DEF Headers, ReadSoFar
    <3> QED BY <2>1, <3>1, <3>2 DEF FramingInv, ReadSoFar, Handling, InMessage
  <2>2. CASE at' = "closed" /\ (Stay \/ ReadFails)
    BY <1>8, <2>2 DEF Stay, ReadFails
  <2>3. CASE Heads = {} /\ Read /\ at' = "headers"
    <3>1. Same /\ readTo' <= readTo + ReadSize
      BY <1>7, <2>3
    <3>2. K <= Len(stream) => ~(HeadEnd(K) <= readTo)
      BY <1>1, <2>3, CurrentIsNext
    <3>3. K <= Len(stream) => readTo' <= HeadEnd(K) + ReadSize
      <4> HIDE DEF K
      <4> QED BY <1>1, <1>11, <3>1, <3>2
    <3> QED BY <2>3, <3>1, <3>3 DEF FramingInv, ReadSoFar, Handling, InMessage
  <2> QED BY <1>15, <2>1, <2>2, <2>3 DEF Headers
<1>16. CASE Preflight
  <2>1. UNCHANGED <<stream, framed, begin, readTo>> /\ at = "preflight" /\ at' \in {"length", "closed"}
    BY <1>16 DEF Preflight, Stay
  <2>2. CASE at' = "length"
    <3>1. Same /\ K <= Len(stream) /\ HeadEnd(K) <= readTo /\ readTo <= HeadEnd(K) + ReadSize
      BY <1>1, <1>5, <2>1 DEF ReadSoFar, InMessage
    <3> QED BY <2>1, <2>2, <3>1 DEF FramingInv, ReadSoFar, Handling, InMessage
  <2> QED BY <1>8, <2>1, <2>2
<1>17. ASSUME at \in InMessage PROVE Current = K /\ K <= Len(stream) /\ HeadEnd(K) <= readTo
  BY <1>1, <1>17, CurrentIsNext DEF ReadSoFar
<1>18. CASE Length
  <2>1. UNCHANGED <<stream, framed, begin, readTo>> /\ at = "length"
    BY <1>18 DEF Length, Stay, Reject
  <2>2. Same /\ Current = K /\ K <= Len(stream) /\ HeadEnd(K) <= readTo /\ readTo <= HeadEnd(K) + ReadSize
    BY <1>1, <1>5, <1>17, <2>1 DEF ReadSoFar, InMessage
  <2>3. CASE at' = "closed"
    BY <1>8, <2>1, <2>3
  <2>4. CASE at' = "discarding"
    BY <2>1, <2>2, <2>4 DEF FramingInv, ReadSoFar, Handling, InMessage
  <2>5. CASE Msg.framing # "badlength" /\ ~TooLong /\ at' = "body"
    <3>1. stream[K].framing # "badlength" /\ (stream[K].framing = "length" => stream[K].body <= MaxBody)
      <4>1. stream[K].framing # "badlength" /\ (stream[K].framing = "length" => ~(stream[K].body > MaxBody))
        BY <2>2, <2>5 DEF Msg, TooLong, HasLength
      <4> HIDE DEF K
      <4> QED BY <1>1, <1>11, <2>2, <4>1
    <3>2. readTo <= MessageEnd(K) + ReadSize /\ readTo <= HeadEnd(K) + Limit
      <4> HIDE DEF K
      <4> QED BY <1>1, <1>11, <2>2
    <3> QED BY <2>1, <2>2, <2>5, <3>1, <3>2 DEF FramingInv, ReadSoFar, Handling, InMessage
  <2> QED BY <1>18, <2>3, <2>4, <2>5 DEF Length
<1>19. CASE Discard
  <2>1. CASE at' = "closed"
    <3>1. UNCHANGED <<stream, framed, begin, readTo>>
      BY <1>19, <2>1 DEF Discard, Stay, ReadFails
    <3> QED BY <1>8, <2>1, <3>1
  <2>2. CASE at' = "discarding" /\ ReadUpTo(Need)
    <3>1. at = "discarding" /\ Current = K /\ K <= Len(stream) /\ HeadEnd(K) <= readTo
      BY <1>17, <1>19 DEF Discard, InMessage
    <3>2. Need \in Nat
      BY <1>11, <3>1 DEF Need
    <3>3. Same /\ readTo < readTo'
      BY <1>6, <2>2, <3>2
    <3>4. HeadEnd(K) <= readTo'
      <4> HIDE DEF K
      <4> QED BY <1>1, <1>11, <3>1, <3>3
    <3> QED BY <2>2, <3>1, <3>3, <3>4 DEF FramingInv, ReadSoFar, Handling, InMessage
  <2> QED BY <1>19, <2>1, <2>2 DEF Discard
<1>20. ASSUME at = "body"
       PROVE  /\ Current = K /\ K <= Len(stream) /\ HeadEnd(K) <= readTo
              /\ stream[K].framing \in {"none", "length", "chunked", "garbled"}
              /\ stream[K].framing = "none" => stream[K].body = 0
              /\ stream[K].framing = "length" => stream[K].body <= MaxBody
              /\ stream[K].framing \in {"length", "chunked"} => readTo <= MessageEnd(K) + ReadSize
              /\ stream[K].framing = "none" => readTo <= HeadEnd(K) + ReadSize
              /\ stream[K].framing = "chunked" => readTo <= HeadEnd(K) + Limit
              /\ Need = IF stream[K].framing \in {"length", "chunked"} THEN MessageEnd(K) ELSE HeadEnd(K)
  <2>1. Current = K /\ K <= Len(stream) /\ HeadEnd(K) <= readTo
    BY <1>17, <1>20 DEF InMessage
  <2>2. stream[K].framing \in {"none", "length", "badlength", "chunked", "garbled"}
        /\ (stream[K].framing = "none" => stream[K].body = 0)
    BY <1>1, <2>1, Around
  <2>3. Need = IF stream[K].framing \in {"length", "chunked"} THEN MessageEnd(K) ELSE HeadEnd(K)
    BY Zenon, <2>1 DEF Need, Msg
  <2> QED BY <1>1, <1>20, <2>1, <2>2, <2>3 DEF ReadSoFar
<1>21. CASE Frame
  <2>1. /\ at = "body" /\ stream[K].framing # "garbled" /\ readTo >= Need /\ at' = "dispatch"
        /\ framed' = Append(framed, <<begin, Need>>) /\ begin' = Need /\ UNCHANGED <<stream, readTo>>
    BY <1>20, <1>21 DEF Frame, Complete, Msg
  <2>2. Need = MessageEnd(K) /\ stream[K].body <= Limit /\ MessageEnd(K) <= readTo /\ readTo <= MessageEnd(K) + ReadSize
    <3>1. K <= Len(stream)
      BY <1>20, <2>1
    <3>2. CASE stream[K].framing = "none"
      <4>1. Need = HeadEnd(K) /\ MessageEnd(K) = HeadEnd(K) /\ stream[K].body = 0 /\ readTo <= HeadEnd(K) + ReadSize
        BY <1>11, <1>20, <2>1, <3>1, <3>2
      <4> QED BY <1>1, <2>1, <4>1, <1>11, <3>1
    <3>3. CASE stream[K].framing = "length"
      <4>1. Need = MessageEnd(K) /\ stream[K].body <= MaxBody /\ readTo <= MessageEnd(K) + ReadSize
        BY <1>20, <2>1, <3>3
      <4> HIDE DEF K
      <4> QED BY <1>1, <1>11, <2>1, <3>1, <4>1
    <3>4. CASE stream[K].framing = "chunked"
      <4>1. Need = MessageEnd(K) /\ readTo <= HeadEnd(K) + Limit /\ readTo <= MessageEnd(K) + ReadSize
        BY <1>20, <2>1, <3>4
      <4> HIDE DEF K
      <4> QED BY <1>1, <1>11, <2>1, <3>1, <4>1
    <3> QED BY <1>20, <2>1, <3>2, <3>3, <3>4
  <2>3. FramedSoFar' /\ Len(framed') = K
    <3>1. K <= Len(stream)
      BY <1>20, <2>1
    <3> QED BY <1>1, <1>3, <2>1, <2>2, <3>1, NextMessage
  <2>4. readTo' <= begin' + ReadSize /\ Len(framed') # 0
    BY <1>10, <2>1, <2>2, <2>3
  <2> QED BY <2>1, <2>3, <2>4 DEF FramingInv, ReadSoFar, Handling, InMessage
<1>22. CASE ReadBody
  <2>1. at = "body" /\ ~Complete
    BY <1>22 DEF ReadBody
  <2>2. CASE at' = "closed" /\ ReadFails
    BY <1>8, <2>2 DEF ReadFails
  <2>3. CASE Read /\ at' \in {"body", "oversize"}
    <3>1. Same /\ readTo < readTo' /\ readTo' <= readTo + ReadSize
      BY <1>7, <2>3
    <3>2. Current = K /\ K <= Len(stream) /\ HeadEnd(K) <= readTo'
      <4>1. Current = K /\ K <= Len(stream) /\ HeadEnd(K) <= readTo
        BY <1>20, <2>1
      <4> HIDE DEF K
      <4> QED BY <1>1, <1>11, <3>1, <4>1
    <3>3. CASE at' = "oversize"
      BY <3>1, <3>2, <3>3 DEF FramingInv, ReadSoFar, Handling, InMessage
    <3>4. CASE at' = "body"
      <4>1. stream[K].framing \in {"chunked", "garbled"} => ~(readTo' > MaxBody + HeadEnd(K))
        BY <1>22, <2>2, <3>2, <3>4 DEF ReadBody, Chunked, Msg
      <4>2. stream[K].framing = "garbled" \/ ~(readTo >= Need)
        BY <2>1, <3>2 DEF Complete, Msg
      <4>3. stream[K].framing # "none"
        <5>1. ASSUME stream[K].framing = "none" PROVE FALSE
          <6>1. Need = HeadEnd(K) /\ HeadEnd(K) <= readTo
            BY <1>20, <2>1, <5>1
          <6> HIDE DEF K
          <6> QED BY <1>1, <1>11, <3>2, <4>2, <5>1, <6>1
        <5> QED BY <5>1
      <4>4. stream[K].framing \in {"length", "chunked"} => readTo' <= MessageEnd(K) + ReadSize
        <5>1. stream[K].framing \in {"length", "chunked"} => Need = MessageEnd(K) /\ ~(readTo >= Need)
          BY <1>20, <2>1, <4>2
        <5> HIDE DEF K
        <5> QED BY <1>1, <1>11, <3>1, <3>2, <5>1
      <4>5. stream[K].framing = "chunked" => readTo' <= HeadEnd(K) + Limit
        <5> HIDE DEF K
        <5> QED BY <1>1, <1>11, <3>1, <3>2, <4>1
      <4>6. stream[K].framing # "badlength" /\ (stream[K].framing = "length" => stream[K].body <= MaxBody)
        BY <1>20, <2>1
      <4> QED BY <3>1, <3>2, <3>4, <4>3, <4>4, <4>5, <4>6 DEF FramingInv, ReadSoFar, Handling, InMessage
    <3> QED BY <2>3, <3>3, <3>4
  <2> QED BY <1>22, <2>2, <2>3 DEF ReadBody
<1>23. CASE Oversize
  BY <1>8, <1>23 DEF Oversize, Reject
<1> QED BY <1>12, <1>13, <1>14, <1>15, <1>16, <1>18, <1>19, <1>21, <1>22, <1>23 DEF FramingStep

LEMMA FramingInitially == Init => FramingInv
<1> SUFFICES ASSUME Init PROVE FramingInv
  OBVIOUS
<1>1. /\ stream \in Streams /\ at = "loop" /\ framed = << >> /\ begin = 0 /\ readTo = 0
  BY DEF Init, FramingInit
<1>2. GoodStream
  BY <1>1, StreamsAreGood
<1>3. framed \in Seq(Nat \X Nat) /\ Len(framed) = 0 /\ K = 1 /\ DOMAIN framed = {}
  BY <1>1 DEF K
<1>4. StartOf(K) = 0
  BY <1>2, <1>3, Starts
<1>5. FramedSoFar
  BY <1>1, <1>2, <1>3, <1>4 DEF FramedSoFar, FramedOnBoundaries, GoodStream, Places, FramingPlaces
<1>6. ReadSoFar
  BY <1>1, LimitIsMax DEF ReadSoFar, Handling, InMessage
<1> QED BY <1>5, <1>6 DEF FramingInv
--------------------------------------------------------------------------------
(* Handling a request.                                                         *)

Asking == {"cors", "upgrade", "redirect", "routegate", "wsgate", "handshake", "syncroute", "handler",
           "auth", "pagegate", "file"}

(* What the requests that clients make look like.                              *)
LEMMA KnownRequest ==
    ASSUME FramingInv, at \in Handling
    PROVE  /\ req.upgrade \in {"no", "intent", "body", "noroute", "route"} /\ req.login \in Seq(STRING)
           /\ req.gate \in {"none", "grants", "denies", "throws"}
           /\ req.upgrade = "no" => HasResult(req)
           /\ req.result = "vanished" => req.upgrade = "no" /\ req.target = "file"
                                         /\ ~(req.method = "OPTIONS" /\ matchesPath(req.path))
           /\ Len(framed) \in 1..Len(stream)
<1>1. Len(framed) \in DOMAIN stream /\ stream \in Streams /\ Len(framed) \in 1..Len(stream)
  BY Around DEF FramingInv, ReadSoFar, FramedSoFar
<1> QED BY <1>1, RequestAssumption DEF req

(* The login lets the request in.                                              *)
LetIn == perRequestText(req) => authenticate(pagePath(req), req.login)

(* The metrics of a request that was counted and no more.                      *)
Own   == IF req.counted THEN 1 ELSE 0
Fresh == [NoMetrics EXCEPT !.requests = Own]

(* What was decided on the way to each place.                                  *)
WayInv ==
    /\ ~serving => at = "loop"
    /\ at \in Asking => response = NoResponse /\ metrics = Fresh
    /\ at \in Asking \ {"handshake", "handler", "file"} => gate = "unasked"
    /\ at \in {"handshake", "handler", "file"} => gate \in {"unasked", "granted"} /\ req.gate \in {"none", "grants"}
    /\ at \in {"redirect", "routegate", "syncroute", "handler", "auth", "pagegate", "file"} => req.upgrade = "no"
    /\ at \in {"wsgate", "handshake"} => req.upgrade = "route"
    /\ at \in Asking \ {"cors"} => ~(req.method = "OPTIONS" /\ matchesPath(req.path))
    /\ at \in {"routegate", "handler"} => req.target \in {"async", "sync"}
    /\ at = "syncroute" => req.target = "sync"
    /\ at \in {"auth", "pagegate"} => req.target \in {"page", "asset"}
    /\ at = "file" => req.target \in {"page", "asset", "file"}
    /\ at = "pagegate" \/ (at = "file" /\ req.target # "file") => LetIn

(* The properties of a response with status s and metrics m, when the gate has *)
(* become g.                                                                   *)
GateFits(s, g) ==
    req.upgrade \in {"no", "route"} =>
        /\ s \in OfHandler => req.gate \in {"none", "grants"}
        /\ g = "refused" => s = (IF req.target = "page" /\ req.upgrade = "no" THEN "302" ELSE "403")
        /\ g = "failed" => s = "500"
MetricsFit(s, m) ==
    /\ m.c4xx + m.c5xx <= m.requests
    /\ m.c4xx = 1 => ClassOf(s) = "c4xx"
    /\ m.c5xx = 1 => ClassOf(s) = "c5xx"
    /\ req.target \in {"async", "sync"} /\ req.upgrade = "no" /\ req.counted =>
           /\ ClassOf(s) = "c4xx" => m.c4xx = 1
           /\ ClassOf(s) = "c5xx" => m.c5xx = 1
LoginFits(s) ==
    req.target \in {"page", "asset"} /\ req.method # "OPTIONS" /\ req.upgrade = "no" => (s = "401" <=> ~LetIn)

EndInv ==
    /\ at \in {"answered", "upgraded"} => GateFits(status, gate)
    /\ at = "answered" => MetricsFit(status, metrics) /\ LoginFits(status)

(* The responses sent so far are those of the requests framed so far, but for  *)
(* the one in hand.                                                            *)
AnsweredInv ==
    /\ answered \in Seq(Nat)
    /\ \A j, k \in DOMAIN answered : j < k => answered[j] < answered[k]
    /\ at \in {"loop", "waiting", "headers", "preflight", "length", "body", "oversize", "answered"} =>
           Range(answered) = Answerable
    /\ at = "discarding" => Range(answered) = Answerable \cup {K}
    /\ at \in Asking \cup {"dispatch"} => Range(answered) = Answerable \ {Len(framed)}
    /\ at = "upgraded" => Range(answered) \subseteq Answerable /\ (alive => Range(answered) = Answerable)
    /\ at = "closed" => /\ Range(answered) \subseteq Answerable \cup {K}
                        /\ ~failed /\ alive => Answerable \subseteq Range(answered)

RequestInv == WayInv /\ EndInv /\ AnsweredInv

(* One number more than all before it.                                         *)
LEMMA AnsweredMore ==
    ASSUME AnsweredInv, NEW n \in Nat, answered' = Append(answered, n), \A x \in Range(answered) : x < n
    PROVE  /\ answered' \in Seq(Nat) /\ Range(answered') = Range(answered) \cup {n}
           /\ \A j, k \in DOMAIN answered' : j < k => answered'[j] < answered'[k]
<1>1. answered \in Seq(Nat) /\ \A j, k \in DOMAIN answered : j < k => answered[j] < answered[k]
  BY DEF AnsweredInv
<1>2. answered' \in Seq(Nat) /\ Range(answered') = Range(answered) \cup {n}
  BY <1>1, RangeOfAppend
<1> DEFINE l == Len(answered)
<1>3. /\ l \in Nat /\ DOMAIN answered = 1..l /\ DOMAIN answered' = 1..l + 1
      /\ answered'[l + 1] = n /\ \A i \in 1..l : answered'[i] = answered[i]
  <2>1. Len(answered') = l + 1 /\ answered'[l + 1] = n /\ \A i \in 1..l : answered'[i] = answered[i]
    BY <1>1, AppendProperties
  <2> QED BY <1>1, <1>2, <2>1, LenProperties
<1>4. \A i \in 1..l : answered[i] < n
  BY <1>3 DEF Range
<1> HIDE DEF l
<1>5. ASSUME NEW j \in 1..l + 1, NEW k \in 1..l + 1, j < k PROVE answered'[j] < answered'[k]
  <2>1. j \in 1..l
    BY <1>3, <1>5
  <2>2. CASE k \in 1..l
    BY <1>1, <1>3, <1>5, <2>1, <2>2
  <2>3. CASE k = l + 1
    BY <1>3, <1>4, <2>1, <2>3
  <2> QED BY <1>3, <2>2, <2>3
<1> QED BY <1>2, <1>3, <1>5

(* The same request is in hand.                                                *)
LEMMA SameRequest ==
    ASSUME UNCHANGED <<stream, framed, avars>>
    PROVE  req' = req /\ LetIn' = LetIn /\ Answerable' = Answerable /\ K' = K
<1>1. req' = req
  BY DEF req
<1>2. LetIn' = LetIn
  BY <1>1 DEF LetIn, perRequestText, pagePath, authenticate, requiresAuth, verifyCredentials, avars
<1> QED BY <1>1, <1>2 DEF Answerable, K

(* Handling a request leaves the framing as it is.                             *)
LEMMA HandlingKeeps ==
    ASSUME FramingInv, at \in Handling, UNCHANGED <<stream, readTo, begin, framed>>,
           at' \in Handling \cup {"loop", "closed"}
    PROVE  FramingInv'
<1>1. FramedSoFar' /\ K' = K
  <2>1. at' \in Places /\ readTo' \in Nat /\ readTo <= readTo'
    BY DEF FramingInv, FramedSoFar, Places, FramingPlaces, Handling
  <2> QED BY <2>1, SameMessage DEF FramingInv
<1>2. Len(framed) # 0 /\ readTo <= begin + ReadSize
  BY DEF FramingInv, ReadSoFar
<1> QED BY <1>1, <1>2 DEF FramingInv, ReadSoFar, Handling, InMessage

(* The request goes on to another part of the handler.                         *)
LEMMA GoesOn ==
    ASSUME FramingInv, RequestInv, serving, at \in Asking \cup {"dispatch"}, at' \in Asking,
           UNCHANGED <<stream, framed, avars, serving, alive, answered, failed>>, WayInv'
    PROVE  RequestInv'
<1>1. req' = req /\ LetIn' = LetIn /\ Answerable' = Answerable /\ K' = K
  BY SameRequest
<1>2. EndInv'
  BY DEF EndInv, Asking
<1>3. AnsweredInv'
  BY <1>1 DEF AnsweredInv, RequestInv, Asking
<1> QED BY <1>2, <1>3 DEF RequestInv

(* What was counted on the way fits the response.                              *)
LEMMA CountFits ==
    ASSUME metrics = Fresh, NEW s
    PROVE  /\ Quietly /\ ~(req.target \in {"async", "sync"} /\ req.upgrade = "no" /\ ClassOf(s) # "none")
                  => MetricsFit(s, metrics')
           /\ As4xx /\ ClassOf(s) = "c4xx" => MetricsFit(s, metrics')
           /\ As5xx /\ ClassOf(s) = "c5xx" => MetricsFit(s, metrics')
<1>1. Fresh = [requests |-> Own, c4xx |-> 0, c5xx |-> 0, errors |-> 0, latency |-> 0]
  BY DEF Fresh, NoMetrics
<1>2. Own \in {0, 1} /\ (req.counted => Own = 1)
  BY DEF Own
<1>3. Counting("c4xx") = [metrics EXCEPT !["c4xx"] = @ + Own] /\ Counting("c5xx") = [metrics EXCEPT !["c5xx"] = @ + Own]
  BY Zenon DEF Counting, Own
<1>4. ASSUME Quietly PROVE metrics'.requests = Own /\ metrics'.c4xx = 0 /\ metrics'.c5xx = 0
  BY <1>1, <1>4 DEF Quietly
<1> HIDE DEF Own
<1>5. ASSUME As4xx PROVE metrics'.requests = Own /\ metrics'.c4xx = Own /\ metrics'.c5xx = 0
  BY <1>1, <1>2, <1>3, <1>5 DEF As4xx
<1>6. ASSUME As5xx PROVE metrics'.requests = Own /\ metrics'.c4xx = 0 /\ metrics'.c5xx = Own
  BY <1>1, <1>2, <1>3, <1>6 DEF As5xx
<1> QED BY <1>2, <1>4, <1>5, <1>6 DEF MetricsFit

(* The request gets its response.                                              *)
LEMMA EndsSent ==
    ASSUME FramingInv, RequestInv, serving, at \in Asking, NEW r, NEW s, HasStatus(r, s),
           NEW place \in {"answered", "upgraded"}, Send(r, place), UNCHANGED <<avars, serving>>,
           req.result # "vanished", GateFits(s, gate'),
           place = "answered" => MetricsFit(s, metrics') /\ LoginFits(s)
    PROVE  RequestInv' /\ at' \in Handling /\ UNCHANGED <<stream, readTo, begin, framed>>
<1>1. /\ status' = s /\ at' = place /\ answered' = Append(answered, Len(framed))
      /\ UNCHANGED <<stream, alive, readTo, begin, framed, failed>>
  BY Responded
<1>2. req' = req /\ LetIn' = LetIn /\ Answerable' = Answerable /\ K' = K
  BY <1>1, SameRequest
<1>3. WayInv'
  BY <1>1 DEF WayInv, Asking
<1>4. EndInv'
  BY <1>1, <1>2 DEF EndInv, GateFits, MetricsFit, LoginFits
<1>5. AnsweredInv'
  <2>1. Len(framed) \in Nat /\ DOMAIN framed = 1..Len(framed) /\ Len(framed) \in DOMAIN framed
    <3>1. Len(framed) \in Nat /\ DOMAIN framed = 1..Len(framed)
      BY Around DEF FramingInv
    <3>2. Len(framed) # 0
      BY DEF FramingInv, ReadSoFar, Asking, Handling
    <3> QED BY <3>1, <3>2
  <2>2. Range(answered) = Answerable \ {Len(framed)}
    BY DEF RequestInv, AnsweredInv
  <2>3. \A x \in Range(answered) : x < Len(framed)
    BY <2>1, <2>2 DEF Answerable
  <2>4. Len(framed) \in Answerable
    BY <2>1 DEF Answerable, req
  <2>5. /\ answered' \in Seq(Nat) /\ Range(answered') = Range(answered) \cup {Len(framed)}
        /\ \A j, k \in DOMAIN answered' : j < k => answered'[j] < answered'[k]
    BY <1>1, <2>1, <2>3, AnsweredMore DEF RequestInv
  <2>6. Range(answered') = Answerable
    BY <2>2, <2>4, <2>5
  <2> QED BY <1>1, <1>2, <2>5, <2>6 DEF AnsweredInv, Asking
<1>6. at' \in Handling
  BY <1>1 DEF Handling
<1> QED BY <1>1, <1>3, <1>4, <1>5, <1>6 DEF RequestInv

LEMMA Ends ==
    ASSUME FramingInv, RequestInv, serving, at \in Asking, NEW r, NEW s, HasStatus(r, s),
           NEW place \in {"answered", "upgraded"}, Respond(r, place), UNCHANGED <<avars, serving>>,
           req.result # "vanished", GateFits(s, gate'),
           place = "answered" => MetricsFit(s, metrics') /\ LoginFits(s)
    PROVE  RequestInv' /\ at' \in Handling /\ UNCHANGED <<stream, readTo, begin, framed>>
<1>1. HasStatus(Serialized(r), s) /\ Send(Serialized(r), place)
  BY SerializedKeeps DEF Respond
<1> QED BY <1>1, EndsSent
--------------------------------------------------------------------------------
(* One lemma for each step of the handler.                                     *)
RequestKept == RequestInv' /\ at' \in Handling \cup {"loop", "closed"} /\ UNCHANGED <<stream, readTo, begin, framed>>

LEMMA BeginKeeps ==
    ASSUME FramingInv, RequestInv, serving, Begin, UNCHANGED <<avars, serving>>
    PROVE  RequestKept
<1>1. /\ at = "dispatch" /\ at' = "cors" /\ gate' = "unasked" /\ response' = NoResponse /\ metrics' = Fresh
      /\ UNCHANGED <<stream, alive, readTo, begin, framed, answered, failed>>
  BY Zenon DEF Begin, Goto, Unframing, Fresh, Own
<1>2. req' = req /\ Fresh' = Fresh
  BY <1>1, SameRequest DEF Fresh, Own
<1>3. WayInv'
  BY <1>1, <1>2 DEF WayInv, Asking
<1>4. RequestInv'
  BY <1>1, <1>3, GoesOn DEF Asking
<1> QED BY <1>1, <1>4 DEF RequestKept, Handling

(* What holds when the request only goes on.                                   *)
LEMMA Passes ==
    ASSUME FramingInv, RequestInv, at \in Asking, NEW place, Pass(place), UNCHANGED <<avars, serving>>
    PROVE  /\ at' = place /\ req' = req /\ LetIn' = LetIn /\ Fresh' = Fresh
           /\ UNCHANGED <<stream, alive, readTo, begin, framed, answered, failed, gate, response, metrics>>
           /\ serving /\ (matchesPath(req.path))' = matchesPath(req.path)
<1>1. /\ at' = place
      /\ UNCHANGED <<stream, alive, readTo, begin, framed, answered, failed, gate, response, metrics>>
  BY DEF Pass, Goto, Unframing, rvars
<1>2. req' = req /\ LetIn' = LetIn
  BY <1>1, SameRequest
<1>3. serving
  BY DEF RequestInv, WayInv, Asking
<1> QED BY <1>1, <1>2, <1>3 DEF Fresh, Own, matchesPath

LEMMA CorsPreflightKeeps ==
    ASSUME FramingInv, RequestInv, CorsPreflight, UNCHANGED <<avars, serving>>
    PROVE  RequestKept
<1>1. at = "cors" /\ at \in Asking /\ at \in Handling /\ serving /\ gate = "unasked" /\ metrics = Fresh
  BY DEF CorsPreflight, Asking, Handling, RequestInv, WayInv
<1>2. req.result = "vanished" => ~(req.method = "OPTIONS" /\ matchesPath(req.path))
  BY <1>1, KnownRequest
<1>3. ASSUME req.method = "OPTIONS", matchesPath(req.path), NEW r, Respond(r, "answered"), Keep,
             NEW s \in {"204", "403"}, HasStatus(r, s), MetricsFit(s, metrics')
      PROVE  RequestKept
  <2>1. GateFits(s, gate') /\ LoginFits(s)
    BY <1>1, <1>3 DEF GateFits, LoginFits, OfHandler, Keep
  <2> QED BY <1>1, <1>2, <1>3, <2>1, Ends DEF RequestKept
<1>4. CASE req.method = "OPTIONS" /\ matchesPath(req.path) /\ resolveOrigin(req.origin) # "none"
  <2>1. Respond(applyCorsHeaders(responseNoContent, req, TRUE), "answered") /\ Quietly /\ Keep
    BY <1>4 DEF CorsPreflight
  <2>2. HasStatus(applyCorsHeaders(responseNoContent, req, TRUE), "204")
    BY StatusOfRefusals, CorsKeeps
  <2>3. MetricsFit("204", metrics')
    BY <1>1, <2>1, CountFits DEF ClassOf
  <2> QED BY <1>3, <1>4, <2>1, <2>2, <2>3
<1>5. CASE req.method = "OPTIONS" /\ matchesPath(req.path) /\ ~(resolveOrigin(req.origin) # "none")
  <2>1. Respond(responseForbidden, "answered") /\ As4xx /\ Keep
    BY <1>5 DEF CorsPreflight
  <2>2. MetricsFit("403", metrics')
    BY <1>1, <2>1, CountFits DEF ClassOf
  <2> QED BY <1>3, <1>5, <2>1, <2>2, StatusOfRefusals
<1>6. CASE ~(req.method = "OPTIONS" /\ matchesPath(req.path))
  <2>1. Pass("upgrade")
    BY <1>6 DEF CorsPreflight
  <2>2. /\ at' = "upgrade" /\ req' = req /\ Fresh' = Fresh
        /\ UNCHANGED <<stream, alive, readTo, begin, framed, answered, failed, gate, response, metrics>>
        /\ (matchesPath(req.path))' = matchesPath(req.path)
    BY <1>1, <2>1, Passes
  <2>3. WayInv'
    BY <1>1, <1>6, <2>2 DEF WayInv, RequestInv, Asking
  <2> QED BY <1>1, <2>2, <2>3, GoesOn DEF RequestKept, Asking, Handling
<1> QED BY <1>4, <1>5, <1>6

LEMMA UpgradeKeeps ==
    ASSUME FramingInv, RequestInv, Upgrade, UNCHANGED <<avars, serving>>
    PROVE  RequestKept
<1>1. at = "upgrade" /\ at \in Asking /\ at \in Handling /\ serving /\ gate = "unasked" /\ metrics = Fresh
  BY DEF Upgrade, Asking, Handling, RequestInv, WayInv
<1>2. req.result = "vanished" => req.upgrade = "no"
  BY <1>1, KnownRequest
<1>3. ASSUME NEW r, NEW s \in {"400", "404"}, HasStatus(r, s), Respond(r, "upgraded"), Keep, req.upgrade # "no"
      PROVE  RequestKept
  <2>1. GateFits(s, gate')
    BY <1>1, <1>3 DEF GateFits, OfHandler, Keep
  <2> QED BY <1>1, <1>2, <1>3, <2>1, Ends DEF RequestKept
<1>4. CASE req.upgrade \in {"intent", "body"} /\ Respond(responseBadRequest, "upgraded") /\ Keep
  BY <1>3, <1>4, StatusOfRefusals
<1>5. CASE req.upgrade = "noroute" /\ Respond(NotFound, "upgraded") /\ Keep
  BY <1>3, <1>5, StatusOfRefusals
<1>6. ASSUME NEW place \in {"redirect", "handshake", "wsgate"}, Pass(place),
             place = "redirect" => req.upgrade = "no",
             place # "redirect" => req.upgrade = "route",
             place = "handshake" => req.gate = "none"
      PROVE  RequestKept
  <2>1. /\ at' = place /\ req' = req /\ Fresh' = Fresh
        /\ UNCHANGED <<stream, alive, readTo, begin, framed, answered, failed, gate, response, metrics>>
        /\ (matchesPath(req.path))' = matchesPath(req.path)
    BY <1>1, <1>6, Passes
  <2>2. WayInv'
    BY <1>1, <1>6, <2>1 DEF WayInv, RequestInv, Asking
  <2> QED BY <1>1, <2>1, <2>2, GoesOn DEF RequestKept, Asking, Handling
<1> QED BY <1>4, <1>5, <1>6 DEF Upgrade

LEMMA RedirectKeeps ==
    ASSUME FramingInv, RequestInv, Redirect, UNCHANGED <<avars, serving>>
    PROVE  RequestKept
<1>1. /\ at = "redirect" /\ at \in Asking /\ at \in Handling /\ serving /\ gate = "unasked" /\ metrics = Fresh
      /\ req.upgrade = "no"
  BY DEF Redirect, Asking, Handling, RequestInv, WayInv
<1>2. HasResult(req) /\ (req.result = "vanished" => req.target = "file")
  BY <1>1, KnownRequest
<1>3. CASE /\ req.target = "redirect" /\ Quietly /\ Keep
           /\ Respond(applyCorsHeaders(RedirectTo("301", "target"), req, FALSE), "answered")
  <2>1. HasStatus(applyCorsHeaders(RedirectTo("301", "target"), req, FALSE), "301")
    BY StatusOfNew, CorsKeeps
  <2>2. MetricsFit("301", metrics')
    BY <1>1, <1>3, CountFits DEF ClassOf
  <2>3. GateFits("301", gate') /\ LoginFits("301")
    BY <1>1, <1>3 DEF GateFits, LoginFits, OfHandler, Keep
  <2> QED BY <1>1, <1>2, <1>3, <2>1, <2>2, <2>3, Ends DEF RequestKept
<1>4. ASSUME NEW place \in {"handler", "routegate", "syncroute", "auth", "file"}, Pass(place),
             place \in {"handler", "routegate"} => req.target = "async",
             place = "handler" => req.gate = "none",
             place = "syncroute" => req.target = "sync",
             place = "auth" => req.target \in {"page", "asset"},
             place = "file" => req.target = "file"
      PROVE  RequestKept
  <2>1. /\ at' = place /\ req' = req /\ Fresh' = Fresh
        /\ UNCHANGED <<stream, alive, readTo, begin, framed, answered, failed, gate, response, metrics>>
        /\ (matchesPath(req.path))' = matchesPath(req.path)
    BY <1>1, <1>4, Passes
  <2>2. place = "file" => req.gate = "none"
    BY <1>2, <1>4 DEF HasResult
  <2>3. WayInv'
    BY <1>1, <1>4, <2>1, <2>2 DEF WayInv, RequestInv, Asking
  <2> QED BY <1>1, <1>4, <2>1, <2>3, GoesOn DEF RequestKept, Asking, Handling
<1> QED BY <1>3, <1>4 DEF Redirect

(* What a gate says.                                                           *)
LEMMA Verdict ==
    ASSUME FramingInv, at \in Handling, NEW verdict \in Verdicts, EvaluateGate(verdict), req.gate # "none"
    PROVE  verdict = "granted" <=> req.gate = "grants"
<1>1. req.gate \in {"grants", "denies", "throws"}
  BY KnownRequest
<1> QED BY Zenon, <1>1 DEF EvaluateGate

LEMMA RouteGateKeeps ==
    ASSUME FramingInv, RequestInv, RouteGate, UNCHANGED <<avars, serving>>
    PROVE  RequestKept
<1>1. PICK place \in {"routegate", "wsgate"}, verdict \in Verdicts :
        /\ at = place /\ EvaluateGate(verdict)
        /\ gate' = verdict /\ UNCHANGED ran
        /\ IF verdict = "granted"
           THEN /\ Goto(IF place = "wsgate" THEN "handshake" ELSE "handler")
                /\ Unframing /\ UNCHANGED <<answered, response, metrics, failed>>
           ELSE /\ IF place = "wsgate"
                   THEN Respond(applyCorsHeaders(Denial(verdict), req, FALSE), "upgraded")
                   ELSE Respond(Finish(Denial(verdict)), "answered")
                /\ IF verdict = "refused" THEN As4xx ELSE As5xx
  BY Zenon DEF RouteGate
<1>2. /\ at \in Asking /\ at \in Handling /\ serving /\ response = NoResponse /\ metrics = Fresh
      /\ at = "routegate" => req.upgrade = "no" /\ req.target \in {"async", "sync"}
      /\ at = "wsgate" => req.upgrade = "route"
      /\ ~(req.method = "OPTIONS" /\ matchesPath(req.path))
  BY <1>1 DEF Asking, Handling, RequestInv, WayInv
<1>3. req.result # "vanished"
  BY <1>1, <1>2, KnownRequest
<1>4. verdict = "granted" => req.gate \in {"grants", "none"}
  BY <1>1, <1>2, Verdict
<1>5. CASE verdict = "granted"
  <2>1. /\ at' = (IF at = "wsgate" THEN "handshake" ELSE "handler") /\ gate' = "granted"
        /\ UNCHANGED <<stream, alive, readTo, begin, framed, answered, response, metrics, failed>>
    BY <1>1, <1>5 DEF Goto, Unframing
  <2>2. req' = req /\ Fresh' = Fresh /\ (matchesPath(req.path))' = matchesPath(req.path)
    BY <2>1, SameRequest DEF Fresh, Own, matchesPath
  <2>3. WayInv'
    BY <1>1, <1>2, <1>4, <1>5, <2>1, <2>2 DEF WayInv, Asking
  <2>4. at' \in Asking
    BY <2>1 DEF Asking
  <2> QED BY <1>2, <2>1, <2>3, <2>4, GoesOn DEF RequestKept, Asking, Handling
<1>6. CASE verdict # "granted"
  <2> DEFINE s == IF verdict = "refused" THEN "403" ELSE "500"
  <2>1. verdict \in {"refused", "failed"}
    BY <1>6 DEF Verdicts
  <2>2. HasStatus(Denial(verdict), s)
    BY <2>1, StatusOfRefusals
  <2>3. MetricsFit(s, metrics')
    BY <1>1, <1>2, <2>1, CountFits DEF ClassOf
  <2>4. GateFits(s, gate')
    BY <1>1, <1>2, <2>1 DEF GateFits, OfHandler
  <2>5. at = "routegate" => LoginFits(s)
    BY <1>2 DEF LoginFits
  <2> HIDE DEF s
  <2>6. CASE place = "wsgate"
    <3>1. Respond(applyCorsHeaders(Denial(verdict), req, FALSE), "upgraded")
          /\ HasStatus(applyCorsHeaders(Denial(verdict), req, FALSE), s)
      BY <1>1, <1>6, <2>2, <2>6, CorsKeeps
    <3> QED BY <1>2, <1>3, <2>4, <3>1, Ends DEF RequestKept
  <2>7. CASE place = "routegate"
    <3>1. Respond(Finish(Denial(verdict)), "answered") /\ HasStatus(Finish(Denial(verdict)), s)
      BY <1>1, <1>6, <2>2, <2>7, FinishKeeps
    <3> QED BY <1>1, <1>2, <1>3, <2>3, <2>4, <2>5, <2>7, <3>1, Ends DEF RequestKept
  <2> QED BY <1>1, <2>6, <2>7
<1> QED BY <1>5, <1>6

LEMMA HandshakeKeeps ==
    ASSUME FramingInv, RequestInv, Handshake, UNCHANGED <<avars, serving>>
    PROVE  RequestKept
<1>1. /\ at = "handshake" /\ at \in Asking /\ at \in Handling /\ serving /\ req.upgrade = "route"
      /\ gate \in {"unasked", "granted"} /\ req.gate \in {"none", "grants"}
  BY DEF Handshake, Asking, Handling, RequestInv, WayInv
<1>2. req.result # "vanished"
  BY <1>1, KnownRequest
<1>3. CASE Send(buildHandshakeResponse, "upgraded") /\ UNCHANGED gate
  <2>1. GateFits("101", gate')
    BY <1>1, <1>3 DEF GateFits
  <2>2. HasStatus(buildHandshakeResponse, "101")
    BY DEF HasStatus, buildHandshakeResponse
  <2> QED BY <1>1, <1>2, <1>3, <2>1, <2>2, EndsSent DEF RequestKept
<1>4. CASE ~alive /\ Pass("upgraded")
  <2>1. /\ at' = "upgraded" /\ req' = req /\ UNCHANGED <<stream, readTo, begin, framed>>
        /\ alive' = FALSE /\ UNCHANGED <<answered, gate, response>>
    BY <1>1, <1>4, Passes DEF RequestInv, AnsweredInv
  <2>2. Answerable' = Answerable
    BY <2>1, SameRequest
  <2>3. status = "none" /\ status' = status
    BY <1>1, <2>1 DEF RequestInv, WayInv, status, NoResponse
  <2>4. EndInv'
    BY <1>1, <2>1, <2>3 DEF EndInv, GateFits, OfHandler
  <2>5. AnsweredInv'
    BY <1>1, <2>1, <2>2 DEF AnsweredInv, RequestInv, Asking
  <2>6. WayInv'
    BY <1>1, <2>1 DEF WayInv, Asking
  <2> QED BY <2>1, <2>4, <2>5, <2>6 DEF RequestKept, RequestInv, Handling
<1> QED BY <1>3, <1>4 DEF Handshake

LEMMA SyncRouteKeeps ==
    ASSUME FramingInv, RequestInv, SyncRoute, UNCHANGED <<avars, serving>>
    PROVE  RequestKept
<1>1. /\ at = "syncroute" /\ at \in Asking /\ at \in Handling /\ serving /\ req.upgrade = "no" /\ req.target = "sync"
      /\ gate = "unasked" /\ response = NoResponse /\ metrics = Fresh
      /\ ~(req.method = "OPTIONS" /\ matchesPath(req.path))
  BY DEF SyncRoute, Asking, Handling, RequestInv, WayInv
<1>2. UNCHANGED <<stream, alive, readTo, begin, framed, answered, gate, response>>
  BY DEF SyncRoute, Unframing
<1>3. req' = req /\ Answerable' = Answerable /\ Fresh' = Fresh /\ (matchesPath(req.path))' = matchesPath(req.path)
  BY <1>2, SameRequest DEF Fresh, Own, matchesPath
<1>4. CASE at' = "closed" /\ failed' = TRUE
  <2>1. AnsweredInv'
    BY <1>1, <1>2, <1>3, <1>4 DEF AnsweredInv, RequestInv, Asking
  <2>2. WayInv' /\ EndInv'
    BY <1>1, <1>4 DEF WayInv, EndInv, Asking
  <2> QED BY <1>2, <1>4, <2>1, <2>2 DEF RequestKept, RequestInv
<1>5. CASE at' = (IF req.gate = "none" THEN "handler" ELSE "routegate") /\ UNCHANGED <<failed, metrics>>
  <2>1. at' \in Asking
    BY <1>5 DEF Asking
  <2>2. WayInv'
    BY <1>1, <1>2, <1>3, <1>5 DEF WayInv, Asking
  <2> QED BY <1>1, <1>2, <1>5, <2>1, <2>2, GoesOn DEF RequestKept, Asking, Handling
<1> QED BY <1>4, <1>5 DEF SyncRoute, Goto

LEMMA HandlerKeeps ==
    ASSUME FramingInv, RequestInv, Handler, UNCHANGED <<avars, serving>>
    PROVE  RequestKept
<1>1. /\ at = "handler" /\ at \in Asking /\ at \in Handling /\ serving /\ req.upgrade = "no"
      /\ req.target \in {"async", "sync"} /\ gate \in {"unasked", "granted"} /\ req.gate \in {"none", "grants"}
      /\ metrics = Fresh /\ UNCHANGED gate
  BY DEF Handler, Asking, Handling, RequestInv, WayInv
<1>2. req.result \in {"2xx", "4xx", "5xx", "405", "throws"}
  BY <1>1, KnownRequest DEF HasResult
<1>3. ASSUME NEW r, NEW s, HasStatus(r, s), Respond(Finish(r), "answered"), MetricsFit(s, metrics')
      PROVE  RequestKept
  <2>1. HasStatus(Finish(r), s)
    BY <1>3, FinishKeeps
  <2>2. GateFits(s, gate') /\ LoginFits(s)
    BY <1>1 DEF GateFits, LoginFits
  <2> QED BY <1>1, <1>2, <1>3, <2>1, <2>2, Ends DEF RequestKept
<1>4. \/ Respond(Finish(Made("200")), "answered") /\ Quietly
      \/ Respond(Finish(Made("422")), "answered") /\ As4xx
      \/ Respond(Finish(Made("503")), "answered") /\ As5xx
      \/ Respond(Finish(responseMethodNotAllowed("GET")), "answered") /\ As4xx
      \/ Respond(Finish(responseInternalServerError), "answered") /\ As5xx
  BY Zenon, <1>2 DEF Handler
<1>5. /\ Quietly => MetricsFit("200", metrics')
      /\ As4xx => MetricsFit("422", metrics') /\ MetricsFit("405", metrics')
      /\ As5xx => MetricsFit("503", metrics') /\ MetricsFit("500", metrics')
  BY <1>1, CountFits DEF ClassOf
<1> QED BY <1>3, <1>4, <1>5, StatusOfNew, StatusOfRefusals

LEMMA PageAuthKeeps ==
    ASSUME FramingInv, RequestInv, PageAuth, UNCHANGED <<avars, serving>>
    PROVE  RequestKept
<1>1. /\ at = "auth" /\ at \in Asking /\ at \in Handling /\ serving /\ req.upgrade = "no"
      /\ req.target \in {"page", "asset"} /\ gate = "unasked" /\ response = NoResponse /\ metrics = Fresh
      /\ ~(req.method = "OPTIONS" /\ matchesPath(req.path))
  BY DEF PageAuth, Asking, Handling, RequestInv, WayInv
<1>2. req.result # "vanished"
  BY <1>1, KnownRequest
<1>3. CASE ~LetIn
  <2>1. Respond(buildAuthHeader, "answered") /\ Quietly /\ Keep
    BY <1>3 DEF PageAuth, LetIn
  <2>2. MetricsFit("401", metrics')
    BY <1>1, <2>1, CountFits
  <2>3. GateFits("401", gate') /\ LoginFits("401")
    BY <1>1, <1>3, <2>1 DEF GateFits, LoginFits, OfHandler, Keep
  <2> QED BY <1>1, <1>2, <2>1, <2>2, <2>3, StatusOfRefusals, Ends DEF RequestKept
<1>4. CASE LetIn
  <2> DEFINE place == IF req.gate = "none" THEN "file" ELSE "pagegate"
  <2>1. Pass(place)
    BY <1>4 DEF PageAuth, LetIn
  <2>2. /\ at' = place /\ req' = req /\ Fresh' = Fresh /\ LetIn' = LetIn
        /\ UNCHANGED <<stream, alive, readTo, begin, framed, answered, failed, gate, response, metrics>>
        /\ (matchesPath(req.path))' = matchesPath(req.path)
    BY <1>1, <2>1, Passes
  <2>3. place \in {"file", "pagegate"} /\ (place = "file" => req.gate = "none")
    OBVIOUS
  <2> HIDE DEF place
  <2>4. WayInv'
    BY <1>1, <1>4, <2>2, <2>3 DEF WayInv, Asking
  <2> QED BY <1>1, <2>2, <2>3, <2>4, GoesOn DEF RequestKept, Asking, Handling
<1> QED BY <1>3, <1>4

LEMMA PageGateKeeps ==
    ASSUME FramingInv, RequestInv, PageGate, UNCHANGED <<avars, serving>>
    PROVE  RequestKept
<1>1. /\ at = "pagegate" /\ at \in Asking /\ at \in Handling /\ serving /\ req.upgrade = "no" /\ LetIn
      /\ req.target \in {"page", "asset"} /\ response = NoResponse /\ metrics = Fresh
      /\ ~(req.method = "OPTIONS" /\ matchesPath(req.path))
  BY DEF PageGate, Asking, Handling, RequestInv, WayInv
<1>2. req.result # "vanished"
  BY <1>1, KnownRequest
<1>3. PICK verdict \in Verdicts :
        /\ EvaluateGate(verdict) /\ gate' = verdict
        /\ \/ verdict = "granted" /\ Goto("file") /\ Unframing /\ UNCHANGED <<answered, response, metrics, failed>>
           \/ /\ verdict = "refused" /\ Quietly
              /\ Respond(IF req.target = "page" THEN RedirectTo("302", "login") ELSE responseForbidden, "answered")
           \/ verdict = "failed" /\ Respond(responseInternalServerError, "answered") /\ As5xx
  <2>1. PICK verdict \in Verdicts :
           /\ EvaluateGate(verdict) /\ gate' = verdict /\ UNCHANGED ran
           /\ CASE verdict = "granted" ->
                       Goto("file") /\ Unframing /\ UNCHANGED <<answered, response, metrics, failed>>
                [] verdict = "refused" ->
                       /\ Respond(IF req.target = "page" THEN RedirectTo("302", "login") ELSE responseForbidden,
                                  "answered")
                       /\ Quietly
                [] verdict = "failed" -> Respond(responseInternalServerError, "answered") /\ As5xx
    BY Zenon DEF PageGate
  <2>2. verdict \in {"granted", "refused", "failed"}
    BY DEF Verdicts
  <2> QED BY Zenon, <2>1, <2>2
<1>4. ASSUME NEW r, NEW s, HasStatus(r, s), Respond(r, "answered"), s # "401", MetricsFit(s, metrics'), GateFits(s, gate')
      PROVE  RequestKept
  <2>1. LoginFits(s)
    BY <1>1, <1>4 DEF LoginFits
  <2> QED BY <1>1, <1>2, <1>4, <2>1, Ends DEF RequestKept
<1>5. CASE verdict = "granted" /\ Goto("file") /\ Unframing /\ UNCHANGED <<answered, response, metrics, failed>>
  <2>1. at' = "file" /\ gate' = "granted" /\ UNCHANGED <<stream, alive, readTo, begin, framed, answered, response, metrics, failed>>
    BY <1>3, <1>5 DEF Goto, Unframing
  <2>2. req' = req /\ LetIn' = LetIn /\ Fresh' = Fresh /\ (matchesPath(req.path))' = matchesPath(req.path)
    BY <2>1, SameRequest DEF Fresh, Own, matchesPath
  <2>3. req.gate \in {"none", "grants"}
    BY <1>1, <1>3, <1>5, Verdict
  <2>4. WayInv'
    BY <1>1, <2>1, <2>2, <2>3 DEF WayInv, Asking
  <2> QED BY <1>1, <2>1, <2>4, GoesOn DEF RequestKept, Asking, Handling
<1>6. CASE /\ verdict = "refused" /\ Quietly
           /\ Respond(IF req.target = "page" THEN RedirectTo("302", "login") ELSE responseForbidden, "answered")
  <2> DEFINE s == IF req.target = "page" THEN "302" ELSE "403"
             r == IF req.target = "page" THEN RedirectTo("302", "login") ELSE responseForbidden
  <2>1. HasStatus(r, s)
    BY StatusOfNew, StatusOfRefusals
  <2>2. GateFits(s, gate')
    BY <1>1, <1>3, <1>6 DEF GateFits, OfHandler
  <2>3. MetricsFit(s, metrics')
    BY <1>1, <1>6, CountFits
  <2>4. s # "401" /\ Respond(r, "answered")
    BY <1>6
  <2> HIDE DEF s, r
  <2> QED BY <1>4, <2>1, <2>2, <2>3, <2>4
<1>7. CASE verdict = "failed" /\ Respond(responseInternalServerError, "answered") /\ As5xx
  <2>1. GateFits("500", gate') /\ MetricsFit("500", metrics')
    BY <1>1, <1>3, <1>7, CountFits DEF GateFits, OfHandler, ClassOf
  <2> QED BY <1>4, <1>7, <2>1, StatusOfRefusals
<1> QED BY <1>3, <1>5, <1>6, <1>7

LEMMA FileKeeps ==
    ASSUME FramingInv, RequestInv, File, UNCHANGED <<avars, serving>>
    PROVE  RequestKept
<1>1. /\ at = "file" /\ at \in Asking /\ at \in Handling /\ serving /\ req.upgrade = "no"
      /\ req.target \in {"page", "asset", "file"} /\ (req.target # "file" => LetIn)
      /\ gate \in {"unasked", "granted"} /\ req.gate \in {"none", "grants"}
      /\ response = NoResponse /\ metrics = Fresh /\ UNCHANGED gate
  BY DEF File, Keep, Asking, Handling, RequestInv, WayInv
<1>2. req.result \in {"found", "missing", "unreadable", "vanished"} /\ (req.result = "vanished" => req.target = "file")
  BY <1>1, KnownRequest DEF HasResult
<1>3. \/ req.result = "vanished" /\ Goto("answered") /\ Unframing /\ UNCHANGED <<answered, response, metrics, failed>>
      \/ req.result # "vanished" /\ Respond(buildHeader("200", "text/html", Text), "answered") /\ Quietly
      \/ req.result # "vanished" /\ Respond(NotFound, "answered") /\ As4xx
      \/ req.result # "vanished" /\ Respond(buildHeader("503", "text/plain", Text), "answered") /\ As5xx
  <2>1. CASE req.result = "vanished"
    BY Zenon, <2>1 DEF File
  <2>2. CASE req.result = "found"
    <3>1. Respond(buildHeader("200", "text/html", Text), "answered") /\ Quietly
      BY Zenon, <2>2 DEF File
    <3> QED BY <2>2, <3>1
  <2>3. CASE req.result = "missing"
    <3>1. Respond(NotFound, "answered") /\ As4xx
      BY Zenon, <2>3 DEF File
    <3> QED BY <2>3, <3>1
  <2>4. CASE req.result = "unreadable"
    <3>1. Respond(buildHeader("503", "text/plain", Text), "answered") /\ As5xx
      BY Zenon, <2>4 DEF File
    <3> QED BY <2>4, <3>1
  <2> QED BY <1>2, <2>1, <2>2, <2>3, <2>4
<1>4. ASSUME req.result # "vanished", NEW r, NEW s \in {"200", "404", "503"}, HasStatus(r, s),
             Respond(r, "answered"), MetricsFit(s, metrics')
      PROVE  RequestKept
  <2>1. GateFits(s, gate') /\ LoginFits(s)
    BY <1>1 DEF GateFits, LoginFits
  <2> QED BY <1>1, <1>4, <2>1, Ends DEF RequestKept
<1>5. /\ Quietly => MetricsFit("200", metrics')
      /\ As4xx => MetricsFit("404", metrics')
      /\ As5xx => MetricsFit("503", metrics')
  BY <1>1, CountFits DEF ClassOf
<1>6. CASE req.result = "vanished" /\ Goto("answered") /\ Unframing /\ UNCHANGED <<answered, response, metrics, failed>>
  <2>1. at' = "answered" /\ UNCHANGED <<stream, alive, readTo, begin, framed, answered, response, metrics, failed>>
    BY <1>6 DEF Goto, Unframing
  <2>2. req' = req /\ LetIn' = LetIn /\ Answerable' = Answerable
    BY <2>1, SameRequest
  <2>3. MetricsFit("none", metrics) /\ GateFits("none", gate) /\ LoginFits("none")
    <3>1. Fresh.c4xx = 0 /\ Fresh.c5xx = 0 /\ Fresh.requests \in {0, 1}
      BY DEF Fresh, NoMetrics, Own
    <3> QED BY <1>1, <1>2, <1>6, <3>1 DEF MetricsFit, GateFits, LoginFits, OfHandler
  <2>4. status' = "none" /\ gate' = gate
    BY <1>1, <2>1 DEF status, NoResponse
  <2>5. EndInv'
    BY <2>1, <2>2, <2>3, <2>4 DEF EndInv, MetricsFit, GateFits, LoginFits
  <2>6. Answerable \ {Len(framed)} = Answerable
    BY <1>6 DEF Answerable, req
  <2>7. AnsweredInv'
    BY <1>1, <2>1, <2>2, <2>6 DEF AnsweredInv, RequestInv, Asking
  <2>8. WayInv'
    BY <1>1, <2>1 DEF WayInv, Asking
  <2> QED BY <2>1, <2>5, <2>7, <2>8 DEF RequestKept, RequestInv, Handling
<1> QED BY <1>3, <1>4, <1>5, <1>6, StatusOfNew, StatusOfRefusals

LEMMA AfterwardsKeeps ==
    ASSUME FramingInv, RequestInv, Answered \/ Upgraded, UNCHANGED <<avars, serving>>
    PROVE  RequestKept
<1>1. /\ at \in {"answered", "upgraded"} /\ at' \in {"loop", "closed"} /\ (at = "upgraded" => at' = "closed")
      /\ UNCHANGED <<stream, alive, readTo, begin, framed, answered, failed>>
  BY DEF Answered, Upgraded, Pass, Goto, Unframing, rvars
<1>2. Answerable' = Answerable /\ K' = K
  BY <1>1, SameRequest
<1>3. AnsweredInv'
  BY <1>1, <1>2 DEF AnsweredInv, RequestInv, Asking
<1>4. WayInv' /\ EndInv'
  BY <1>1 DEF WayInv, EndInv, Asking, RequestInv
<1> QED BY <1>1, <1>3, <1>4 DEF RequestKept, RequestInv
--------------------------------------------------------------------------------
(* The steps of the framing leave what was answered in order.                  *)
LEMMA RequestKeptByFraming ==
    ASSUME FramingInv, RequestInv, serving, FramingStep, UNCHANGED <<rvars, avars, serving>>
    PROVE  RequestInv'
<1> USE DEF Goto
<1>1. /\ FramedSoFar /\ ReadSoFar /\ K \in Nat /\ Len(framed) \in Nat /\ DOMAIN framed = 1..Len(framed)
      /\ K = Len(framed) + 1 /\ AnsweredInv
  BY Around DEF FramingInv, RequestInv, K
<1>2. UNCHANGED <<stream, alive, failed>>
  BY DEF FramingStep, NextRequest, LimitReached, FirstRead, Headers, Preflight, Length, Discard, Frame, ReadBody,
         Oversize, Stay, Read, ReadUpTo, ReadFails, Reject, rvars
<1>3. /\ at \in {"loop", "waiting", "headers", "preflight", "length", "discarding", "body", "oversize"}
      /\ at' \in {"closed", "waiting", "headers", "preflight", "length", "discarding", "body", "oversize", "dispatch"}
  BY DEF FramingStep, NextRequest, LimitReached, FirstRead, Headers, Preflight, Length, Discard, Frame, ReadBody,
         Oversize
<1>4. WayInv' /\ EndInv'
  BY <1>3 DEF WayInv, EndInv, Asking
<1>5. ASSUME UNCHANGED <<framed, answered>>, at # "discarding", at' \notin {"discarding", "dispatch"} PROVE AnsweredInv'
  <2>1. Answerable' = Answerable /\ K' = K
    BY <1>2, <1>5, SameRequest
  <2> QED BY <1>1, <1>3, <1>5, <2>1 DEF AnsweredInv, Asking
<1>6. ASSUME UNCHANGED <<framed, answered>>, at = "discarding", at' \in {"discarding", "closed"} PROVE AnsweredInv'
  <2>1. Answerable' = Answerable /\ K' = K
    BY <1>2, <1>6, SameRequest
  <2> QED BY <1>1, <1>3, <1>6, <2>1 DEF AnsweredInv, Asking
<1>7. ASSUME Reject, at \in {"length", "oversize"}, at' \in {"closed", "discarding"} PROVE AnsweredInv'
  <2>1. Current = K
    BY <1>1, <1>7, CurrentIsNext DEF ReadSoFar, InMessage
  <2>2. answered' = Append(answered, K) /\ UNCHANGED framed
    BY <1>7, <2>1 DEF Reject
  <2>3. Answerable' = Answerable /\ K' = K
    BY <1>2, <2>2, SameRequest
  <2>4. Range(answered) = Answerable
    BY <1>1, <1>7 DEF AnsweredInv
  <2>5. \A x \in Range(answered) : x < K
    BY <1>1, <2>4 DEF Answerable
  <2>6. /\ answered' \in Seq(Nat) /\ Range(answered') = Range(answered) \cup {K}
        /\ \A j, k \in DOMAIN answered' : j < k => answered'[j] < answered'[k]
    BY <1>1, <2>2, <2>5, AnsweredMore
  <2> QED BY <1>7, <2>3, <2>4, <2>6 DEF AnsweredInv, Asking
<1>8. ASSUME Frame PROVE AnsweredInv'
  <2>1. at = "body" /\ at' = "dispatch" /\ framed' = Append(framed, <<begin, Need>>) /\ UNCHANGED answered
    BY <1>8 DEF Frame
  <2>2. framed \in Seq(Nat \X Nat) /\ framed' \in Seq(Nat \X Nat)
    BY <1>8, FramingKeeps DEF FramingInv, FramedSoFar
  <2>3. Len(framed') = K /\ DOMAIN framed' = 1..K
    <3>1. <<begin, Need>> \in Nat \X Nat
      <4>1. framed'[Len(framed) + 1] = <<begin, Need>> /\ Len(framed) + 1 \in DOMAIN framed'
        BY <2>1, <2>2
      <4> QED BY <2>2, <4>1, ElementOfSeq
    <3>2. Len(framed') = Len(framed) + 1
      BY <2>1, <2>2, <3>1, AppendProperties
    <3> QED BY <1>1, <2>2, <3>2, LenProperties
  <2>4. Answerable' = Answerable \/ Answerable' = Answerable \cup {K}
    BY <1>1, <1>2, <2>3 DEF Answerable
  <2>5. K \notin Answerable
    BY <1>1 DEF Answerable
  <2>6. Range(answered') = Answerable' \ {Len(framed')}
    <3>1. Range(answered) = Answerable
      BY <1>1, <2>1 DEF AnsweredInv
    <3> QED BY <2>1, <2>3, <2>4, <2>5, <3>1
  <2>7. answered' \in Seq(Nat) /\ \A j, k \in DOMAIN answered' : j < k => answered'[j] < answered'[k]
    <3>1. answered \in Seq(Nat) /\ \A j, k \in DOMAIN answered : j < k => answered[j] < answered[k]
      BY <1>1 DEF AnsweredInv
    <3>2. answered' = answered
      BY <2>1
    <3> QED BY Zenon, <3>1, <3>2
  <2> QED BY <2>1, <2>6, <2>7 DEF AnsweredInv, Asking
<1>9. ASSUME NextRequest \/ LimitReached \/ FirstRead \/ Headers \/ Preflight \/ ReadBody PROVE AnsweredInv'
  <2>1. UNCHANGED <<framed, answered>> /\ at # "discarding" /\ at' \notin {"discarding", "dispatch"}
    BY <1>9 DEF NextRequest, LimitReached, FirstRead, Headers, Preflight, ReadBody, Stay, Read, ReadUpTo, ReadFails
  <2> QED BY <1>5, <2>1
<1>10. ASSUME Length PROVE AnsweredInv'
  <2>1. CASE Reject /\ at' \in {"closed", "discarding"}
    BY <1>7, <1>10, <2>1 DEF Length
  <2>2. CASE Stay /\ at' = "body"
    BY <1>5, <1>10, <2>2 DEF Length, Stay
  <2> QED BY <1>10, <2>1, <2>2 DEF Length
<1>11. ASSUME Discard PROVE AnsweredInv'
  BY <1>6, <1>11 DEF Discard, Stay, ReadUpTo, ReadFails
<1>12. ASSUME Oversize PROVE AnsweredInv'
  BY <1>7, <1>12 DEF Oversize
<1>13. AnsweredInv'
  BY <1>8, <1>9, <1>10, <1>11, <1>12 DEF FramingStep
<1> QED BY <1>4, <1>13 DEF RequestInv
--------------------------------------------------------------------------------
(* The invariants of a connection.                                             *)

LEMMA DispatchKeeps ==
    ASSUME FramingInv, RequestInv, serving, Dispatch, UNCHANGED <<avars, serving>>
    PROVE  RequestKept
BY BeginKeeps, CorsPreflightKeeps, UpgradeKeeps, RedirectKeeps, RouteGateKeeps, HandshakeKeeps, SyncRouteKeeps,
   HandlerKeeps, PageAuthKeeps, PageGateKeeps, FileKeeps, AfterwardsKeeps DEF Dispatch

(* A step that leaves the connection alone.                                    *)
LEMMA RequestUntouched ==
    ASSUME FramingInv, RequestInv, UNCHANGED <<stream, readTo, begin, framed, answered, at, gate, response, metrics, failed>>,
           at \in Handling => UNCHANGED avars, alive' => alive, ~serving' => ~serving
    PROVE  FramingInv' /\ RequestInv'
<1>1. FramedSoFar' /\ K' = K /\ HeadEnd(K)' = HeadEnd(K) /\ MessageEnd(K)' = MessageEnd(K)
  BY SameMessage DEF FramingInv, FramedSoFar
<1>2. FramingInv'
  BY <1>1 DEF FramingInv, ReadSoFar
<1>3. req' = req /\ Answerable' = Answerable /\ Fresh' = Fresh /\ (matchesPath(req.path))' = matchesPath(req.path)
  BY DEF req, Answerable, Fresh, Own, matchesPath
<1>4. at \in Handling => LetIn' = LetIn
  BY SameRequest
<1>5. WayInv'
  BY <1>3, <1>4 DEF WayInv, RequestInv, Asking, Handling
<1>6. EndInv'
  <2>1. status' = status
    BY DEF status
  <2> QED BY <1>3, <1>4, <2>1 DEF EndInv, RequestInv, Handling, GateFits, MetricsFit, LoginFits
<1>7. AnsweredInv'
  <2>1. answered' = answered /\ Range(answered') = Range(answered)
    OBVIOUS
  <2>2. answered' \in Seq(Nat) /\ \A j, k \in DOMAIN answered' : j < k => answered'[j] < answered'[k]
    BY Zenon, <2>1 DEF RequestInv, AnsweredInv
  <2> QED BY <1>1, <1>3, <2>1, <2>2 DEF AnsweredInv, RequestInv, Asking
<1> QED BY <1>2, <1>5, <1>6, <1>7 DEF RequestInv

LEMMA ConnectionKeeps ==
    ASSUME FramingInv, RequestInv, [Next]_vars
    PROVE  FramingInv' /\ RequestInv'
<1>1. CASE serving /\ Dispatch /\ UNCHANGED <<avars, serving>>
  <2>1. RequestKept
    BY <1>1, DispatchKeeps
  <2>2. at \in Handling
    BY <1>1 DEF Dispatch, Begin, CorsPreflight, Upgrade, Redirect, RouteGate, Handshake, SyncRoute, Handler, PageAuth,
       PageGate, File, Answered, Upgraded, Handling
  <2> QED BY <2>1, <2>2, HandlingKeeps DEF RequestKept
<1>2. CASE serving /\ FramingStep /\ UNCHANGED <<rvars, avars, serving>>
  BY <1>2, FramingKeeps, RequestKeptByFraming
<1>3. CASE Leave
  BY <1>3, RequestUntouched DEF Leave, ClientCloses, avars, rvars
<1>4. CASE Start
  BY <1>4, RequestUntouched DEF Start, fvars, avars, rvars
<1>5. CASE ~serving /\ UNCHANGED <<fvars, rvars, serving>>
  <2>1. at \notin Handling
    BY <1>5 DEF RequestInv, WayInv, Handling
  <2> QED BY <1>5, <2>1, RequestUntouched DEF fvars, rvars
<1>6. CASE UNCHANGED vars
  BY <1>6, RequestUntouched DEF vars, fvars, avars, rvars
<1> QED BY <1>1, <1>2, <1>3, <1>4, <1>5, <1>6 DEF Next, Step

LEMMA ConnectionInitially == Init => FramingInv /\ RequestInv
<1> SUFFICES ASSUME Init PROVE FramingInv /\ RequestInv
  OBVIOUS
<1>1. at = "loop" /\ framed = << >> /\ answered = << >>
  BY DEF Init, FramingInit
<1>2. Range(answered) = {} /\ answered \in Seq(Nat) /\ DOMAIN answered = {} /\ Answerable = {}
  BY <1>1 DEF Range, Answerable
<1>3. AnsweredInv
  BY <1>1, <1>2 DEF AnsweredInv, Asking
<1>4. WayInv /\ EndInv
  BY <1>1 DEF WayInv, EndInv, Asking
<1> QED BY <1>3, <1>4, FramingInitially DEF RequestInv

(* How far the connection has read, what was decided about the request in hand *)
(* and which requests have their answer, in every behaviour.                   *)
THEOREM ConnectionInv == Spec => [](FramingInv /\ RequestInv)
<1>1. (FramingInv /\ RequestInv) /\ [Next]_vars => (FramingInv /\ RequestInv)'
  BY ConnectionKeeps
<1> QED BY <1>1, ConnectionInitially, PTL DEF Spec

(* What the dispatcher gets is one whole message after the other, each with a  *)
(* body within the limit or of one read (readNextRequestAsync()), for every    *)
(* stream and however its bytes arrive.                                        *)
THEOREM FramedAsSent == Spec => []FramedWithinLimits
<1>1. FramingInv => FramedWithinLimits
  <2> SUFFICES ASSUME FramingInv PROVE FramedWithinLimits
    OBVIOUS
  <2>1. FramedSoFar /\ DOMAIN framed = 1..Len(framed)
    BY Around DEF FramingInv
  <2> QED BY <2>1 DEF FramedSoFar, FramedWithinLimits, BodyBounded, Limit
<1> QED BY <1>1, ConnectionInv, PTL

(* Every request is answered once and in its turn, and is counted in the class *)
(* of its response, on each of the ways through Handler and RouteDispatcher.   *)
THEOREM AnsweredAndCountedOnce == Spec => []OneAnswerOneCount
<1>1. FramingInv /\ RequestInv => OneAnswerOneCount
  <2> SUFFICES ASSUME FramingInv, RequestInv PROVE OneAnswerOneCount
    OBVIOUS
  <2>1. AnsweredOnce
    <3>1. at \in Places
      BY DEF FramingInv, FramedSoFar
    <3>2. Range(answered) \subseteq Answerable \cup {K}
      BY <3>1 DEF RequestInv, AnsweredInv, Asking, Places, FramingPlaces
    <3> QED BY <3>2 DEF RequestInv, AnsweredInv, AnsweredOnce, K
  <2>2. MetricsMatch
    BY DEF RequestInv, EndInv, MetricsFit, MetricsMatch
  <2> QED BY <2>1, <2>2 DEF OneAnswerOneCount
<1> QED BY <1>1, ConnectionInv, PTL

(* Nothing protected goes out past its gate or its login, and nothing is       *)
(* refused that both let through (enforcePageAccessAsync(),                    *)
(* checkRouteGateDenialAsync(), BasicAuth), for pages that are asked for as    *)
(* they are protected or have a gate, and for the scripts merged for any page; *)
(* provided the application adds no user whose name has a colon, who could     *)
(* never log in.                                                               *)
THEOREM AccessIsDecided == ASSUME PlainNames PROVE Spec => []AccessDecides
<1>1. FramingInv /\ RequestInv /\ UsersInv => AccessDecides
  <2> SUFFICES ASSUME FramingInv, RequestInv, UsersInv PROVE AccessDecides
    OBVIOUS
  <2>1. GateDecides
    BY DEF RequestInv, EndInv, GateFits, GateDecides
  <2>2. LoginDecides
    <3> SUFFICES ASSUME at = "answered", req.target \in {"page", "asset"}, req.method # "OPTIONS", req.upgrade = "no"
                 PROVE  /\ status = "401" => ~Login(pagePath(req), req.login)
                        /\ req.target = "asset" \/ req.gate # "none" \/ req.path \in protectedPages =>
                               (~Login(pagePath(req), req.login) => status = "401")
      BY DEF LoginDecides
    <3>1. req.login \in Seq(STRING)
      BY KnownRequest DEF Handling
    <3>2. authenticate(pagePath(req), req.login) <=> Login(pagePath(req), req.login)
      BY <3>1, LoginIsChecked
    <3>3. status = "401" <=> ~LetIn
      BY DEF RequestInv, EndInv, LoginFits
    <3>4. ASSUME req.target = "asset" \/ req.gate # "none" \/ req.path \in protectedPages,
                 ~authenticate(pagePath(req), req.login)
          PROVE  perRequestText(req)
      <4>1. requiresAuth(pagePath(req))
        BY <3>4 DEF authenticate
      <4> QED BY <3>4, <4>1 DEF perRequestText, requiresAuth
    <3> QED BY <3>2, <3>3, <3>4 DEF LetIn
  <2> QED BY <2>1, <2>2 DEF AccessDecides
<1>2. UsersInv /\ [Next]_vars => UsersInv'
  BY UsersStep
<1> QED BY <1>1, <1>2, UsersInitially, ConnectionInv, PTL DEF Spec
--------------------------------------------------------------------------------
(* What a response says of itself: its headers on each of the ways out.        *)

IsResponse(r) == {"headers", "body"} \subseteq DOMAIN r

LEMMA AddHeaderValues ==
    ASSUME NEW r, IsResponse(r), NEW name, NEW value
    PROVE  /\ IsResponse(addHeader(r, name, value)) /\ addHeader(r, name, value).body = r.body
           /\ \A n : HeaderValues(addHeader(r, name, value), n) =
                         IF n = name THEN Append(HeaderValues(r, n), value) ELSE HeaderValues(r, n)
BY DEF IsResponse, addHeader, HeaderValues, Values

LEMMA SetHeaderValues ==
    ASSUME NEW r, IsResponse(r), NEW name, NEW value
    PROVE  /\ IsResponse(setHeader(r, name, value)) /\ setHeader(r, name, value).body = r.body
           /\ \A n : HeaderValues(setHeader(r, name, value), n) =
                         IF n = name THEN <<value>> ELSE HeaderValues(r, n)
<1> DEFINE x == [r EXCEPT !.headers = eraseHeaderKey(@, name)]
<1>1. /\ IsResponse(x) /\ x.body = r.body
      /\ \A n : HeaderValues(x, n) = IF n = name THEN << >> ELSE HeaderValues(r, n)
  BY DEF IsResponse, HeaderValues, Values, eraseHeaderKey, Restrict
<1> HIDE DEF x
<1>2. Append(<< >>, value) = <<value>>
  OBVIOUS
<1>3. /\ IsResponse(addHeader(x, name, value)) /\ addHeader(x, name, value).body = x.body
      /\ \A n : HeaderValues(addHeader(x, name, value), n) =
                    IF n = name THEN Append(HeaderValues(x, n), value) ELSE HeaderValues(x, n)
  BY <1>1, AddHeaderValues
<1>4. setHeader(r, name, value) = addHeader(x, name, value)
  BY DEF setHeader, x
<1> QED BY <1>1, <1>2, <1>3, <1>4

LEMMA SetBodyValues ==
    ASSUME NEW r, IsResponse(r), NEW body
    PROVE  /\ IsResponse(setBody(r, body)) /\ setBody(r, body).body = body
           /\ \A n : HeaderValues(setBody(r, body), n) =
                         IF n = "Content-Length" THEN <<body.bytes>> ELSE HeaderValues(r, n)
<1> DEFINE x == [r EXCEPT !.body = body]
<1>1. IsResponse(x) /\ x.body = body /\ \A n : HeaderValues(x, n) = HeaderValues(r, n)
  BY DEF IsResponse, HeaderValues
<1> HIDE DEF x
<1>2. setBody(r, body) = setHeader(x, "Content-Length", body.bytes)
  BY DEF setBody, x
<1>3. /\ IsResponse(setHeader(x, "Content-Length", body.bytes))
      /\ setHeader(x, "Content-Length", body.bytes).body = x.body
      /\ \A n : HeaderValues(setHeader(x, "Content-Length", body.bytes), n) =
                    IF n = "Content-Length" THEN <<body.bytes>> ELSE HeaderValues(x, n)
  BY <1>1, SetHeaderValues
<1> QED BY <1>1, <1>2, <1>3

(* The headers of a response do not contradict its body, to a client that      *)
(* takes these codings; a response without a length gets it at the end.        *)
Tells(r, accepts) ==
    /\ IsResponse(r) /\ r.body.bytes \in Nat
    /\ HeaderValues(r, "Content-Length") \in {<< >>, <<r.body.bytes>>}
    /\ HeaderValues(r, "Content-Encoding") = r.body.codings
    /\ "gzip" \in Range(r.body.codings) => "gzip" \in Range(accepts)
Origin(r) == HeaderValues(r, "Access-Control-Allow-Origin")

(* A response made by the server itself, without codings or CORS headers.      *)
Plain(r) ==
    /\ IsResponse(r) /\ r.body.bytes \in Nat
    /\ HeaderValues(r, "Content-Length") \in {<< >>, <<r.body.bytes>>}
    /\ HeaderValues(r, "Content-Encoding") = << >> /\ r.body.codings = << >> /\ Origin(r) = << >>

LEMMA PlainTells == ASSUME NEW r, NEW accepts, Plain(r) PROVE Tells(r, accepts) /\ Origin(r) = << >>
<1>1. Range(<< >>) = {}
  BY DEF Range
<1> QED BY <1>1 DEF Plain, Tells

Telling == {"Content-Length", "Content-Encoding", "Access-Control-Allow-Origin"}

LEMMA HeadersStayPlain ==
    ASSUME NEW r, Plain(r), NEW name, name \notin Telling, NEW value
    PROVE  Plain(setHeader(r, name, value)) /\ Plain(addHeader(r, name, value))
BY SetHeaderValues, AddHeaderValues DEF Plain, Telling, Origin

LEMMA BodyStaysPlain ==
    ASSUME NEW r, Plain(r), NEW body, body.codings = << >>, body.bytes \in Nat
    PROVE  Plain(setBody(r, body))
<1>1. /\ IsResponse(setBody(r, body)) /\ setBody(r, body).body = body
      /\ \A n : HeaderValues(setBody(r, body), n) =
                    IF n = "Content-Length" THEN <<body.bytes>> ELSE HeaderValues(r, n)
  BY SetBodyValues DEF Plain
<1> QED BY <1>1 DEF Plain, Origin

LEMMA NewIsPlain ==
    ASSUME NEW s
    PROVE  /\ Plain(HTTPResponse(s)) /\ Plain(buildResponse(s))
           /\ \A t : Plain(RedirectTo(s, t)) /\ Plain(buildHeader(s, t, Text))
<1>1. Text.codings = << >> /\ NoBody.codings = << >> /\ Text.bytes \in Nat /\ NoBody.bytes \in Nat
  BY DEF Text, NoBody, Body
<1>2. Plain(HTTPResponse(s))
  <2> DEFINE bare == [status |-> s, body |-> NoBody, headers |-> << >>]
  <2>1. Plain(bare)
    BY <1>1 DEF Plain, IsResponse, HeaderValues, Values, Origin
  <2> HIDE DEF bare
  <2> QED BY <2>1, HeadersStayPlain DEF HTTPResponse, bare, Telling
<1>3. Plain(buildResponse(s))
  BY <1>1, <1>2, HeadersStayPlain, BodyStaysPlain DEF buildResponse, addDefaultHeaders, Telling
<1>4. ASSUME NEW t PROVE Plain(RedirectTo(s, t))
  BY <1>1, <1>2, HeadersStayPlain, BodyStaysPlain DEF RedirectTo, Telling
<1>5. ASSUME NEW t PROVE Plain(buildHeader(s, t, Text))
  <2> DEFINE a == setHeader(HTTPResponse(s), "Content-Type", t)
             b == setHeader(a, "Content-Length", Text.bytes)
  <2>1. Plain(a)
    BY <1>2, HeadersStayPlain DEF Telling
  <2> HIDE DEF a
  <2>2. /\ IsResponse(b) /\ HeaderValues(b, "Content-Length") = <<Text.bytes>>
        /\ HeaderValues(b, "Content-Encoding") = << >> /\ Origin(b) = << >>
    BY <2>1, SetHeaderValues DEF Plain, Origin
  <2> HIDE DEF b
  <2>3. Plain([b EXCEPT !.body = Text])
    BY <1>1, <2>2 DEF Plain, IsResponse, HeaderValues, Origin
  <2> QED BY <2>3 DEF buildHeader, a, b
<1> QED BY <1>2, <1>3, <1>4, <1>5

LEMMA RefusalsArePlain ==
    /\ Plain(responseNoContent) /\ Plain(responseBadRequest) /\ Plain(responseForbidden)
    /\ Plain(responseInternalServerError) /\ Plain(responseMethodNotAllowed("GET"))
    /\ Plain(buildAuthHeader) /\ Plain(NotFound) /\ \A v : Plain(Denial(v))
<1>1. Plain(responseForbidden) /\ Plain(responseInternalServerError)
  BY NewIsPlain DEF responseForbidden, responseInternalServerError
<1>2. Plain(responseMethodNotAllowed("GET"))
  BY NewIsPlain, HeadersStayPlain DEF responseMethodNotAllowed, Telling
<1>3. Plain(buildAuthHeader)
  <2>1. Text.codings = << >> /\ Text.bytes \in Nat
    BY DEF Text, Body
  <2> QED BY <2>1, NewIsPlain, HeadersStayPlain, BodyStaysPlain DEF buildAuthHeader, Telling
<1>4. \A v : Plain(Denial(v))
  BY <1>1 DEF Denial
<1> QED BY <1>1, <1>2, <1>3, <1>4, NewIsPlain DEF responseNoContent, responseBadRequest, NotFound

(* CORS sets the origin where there is one to set, and leaves the rest.        *)
OriginFor(q) == IF matchesPath(q.path) /\ resolveOrigin(q.origin) # "none" THEN <<resolveOrigin(q.origin)>> ELSE << >>

LEMMA CorsTells ==
    ASSUME NEW r, NEW q, NEW preflight, Tells(r, q.accepts), Origin(r) = << >>
    PROVE  /\ Tells(applyCorsHeaders(r, q, preflight), q.accepts)
           /\ Origin(applyCorsHeaders(r, q, preflight)) = OriginFor(q)
<1> DEFINE o == resolveOrigin(q.origin)
           a == setHeader(r, "Access-Control-Allow-Origin", o)
           b == setHeader(a, "Access-Control-Allow-Methods", "all")
           told == setHeader(b, "Vary", "Origin")
           c == setHeader(told, "Access-Control-Allow-Headers", filterRequestedHeaders(q.asks))
           d == setHeader(c, "Access-Control-Max-Age", "86400")
           e == setHeader(told, "Access-Control-Allow-Headers", BuiltInAllowHeaders)
           Good(x) == Tells(x, q.accepts) /\ Origin(x) = <<o>>
<1>1. Good(a)
  BY SetHeaderValues DEF Tells, Origin
<1>2. ASSUME NEW x, Good(x), NEW name, name \notin Telling, NEW value PROVE Good(setHeader(x, name, value))
  BY <1>2, SetHeaderValues DEF Tells, Origin, Telling
<1> HIDE DEF a, Good
<1>3. Good(b)
  BY <1>1, <1>2 DEF Telling
<1> HIDE DEF b
<1>4. Good(told)
  BY <1>2, <1>3 DEF Telling
<1> HIDE DEF told
<1>5. Good(c) /\ Good(e)
  BY <1>2, <1>4 DEF Telling
<1> HIDE DEF c, e
<1>6. Good(d)
  BY <1>2, <1>5 DEF Telling
<1> HIDE DEF d
<1>7. IF matchesPath(q.path) /\ o # "none" THEN applyCorsHeaders(r, q, preflight) \in {d, e}
      ELSE applyCorsHeaders(r, q, preflight) = r
  BY Zenon DEF applyCorsHeaders, d, e, c, told, b, a
<1>8. Good(d) /\ Good(e) => Tells(d, q.accepts) /\ Tells(e, q.accepts) /\ Origin(d) = <<o>> /\ Origin(e) = <<o>>
  BY DEF Good
<1> QED BY <1>5, <1>6, <1>7, <1>8 DEF OriginFor

LEMMA CompressionTells ==
    ASSUME NEW r, NEW q, Tells(r, q.accepts)
    PROVE  /\ Tells(applyResponseCompression(r, q), q.accepts)
           /\ Origin(applyResponseCompression(r, q)) = Origin(r)
<1> DEFINE z == gzipCompress(r.body)
           a == setBody(r, z)
           b == setHeader(a, "Content-Encoding", "gzip")
           c == setHeader(b, "Vary", "Accept-Encoding")
<1>1. /\ IsResponse(a) /\ a.body = z /\ HeaderValues(a, "Content-Length") = <<z.bytes>> /\ Origin(a) = Origin(r)
  <2>1. IsResponse(r)
    BY DEF Tells
  <2> HIDE DEF z
  <2>2. /\ IsResponse(setBody(r, z)) /\ setBody(r, z).body = z
        /\ \A n : HeaderValues(setBody(r, z), n) =
                      IF n = "Content-Length" THEN <<z.bytes>> ELSE HeaderValues(r, n)
    BY <2>1, SetBodyValues
  <2> QED BY <2>2 DEF Origin
<1> HIDE DEF a
<1>2. /\ IsResponse(b) /\ b.body = z /\ HeaderValues(b, "Content-Length") = <<z.bytes>> /\ Origin(b) = Origin(r)
      /\ HeaderValues(b, "Content-Encoding") = <<"gzip">>
  BY <1>1, SetHeaderValues DEF Origin
<1> HIDE DEF b
<1>3. /\ IsResponse(c) /\ c.body = z /\ HeaderValues(c, "Content-Length") = <<z.bytes>> /\ Origin(c) = Origin(r)
      /\ HeaderValues(c, "Content-Encoding") = <<"gzip">>
  BY <1>2, SetHeaderValues DEF Origin
<1> HIDE DEF c
<1>4. CASE applyResponseCompression(r, q) = r
  BY <1>4
<1>5. CASE applyResponseCompression(r, q) # r
  <2>1. applyResponseCompression(r, q) = c /\ ~hasHeader(r, "Content-Encoding") /\ acceptsGzip(q.accepts)
        /\ ~(z.bytes >= r.body.bytes)
    BY Zenon, <1>5 DEF applyResponseCompression, c, b, a, z
  <2>2. r.body.codings = << >>
    BY <2>1 DEF hasHeader, Tells
  <2>3. r.body.bytes \in Nat /\ z.bytes # r.body.bytes
    BY <2>1 DEF Tells
  <2>4. z = [bytes |-> r.body.bytes \div 4, codings |-> Append(<< >>, "gzip"), dense |-> TRUE]
    BY <2>2, <2>3 DEF gzipCompress, Body
  <2>5. z.codings = <<"gzip">> /\ z.bytes \in Nat
    <3>1. r.body.bytes \div 4 \in Nat /\ Append(<< >>, "gzip") = <<"gzip">>
      BY <2>3
    <3> QED BY <2>4, <3>1
  <2> HIDE DEF z
  <2> QED BY <1>3, <2>1, <2>5 DEF Tells, acceptsGzip
<1> QED BY <1>4, <1>5
--------------------------------------------------------------------------------
(* The answers.  A handler that sets the coding, the length or the origin of   *)
(* its response by itself is believed: what is proved is about handlers whose  *)
(* headers fit the body they return.                                           *)

HonestHandlers ==
    \A s \in Streams : \A i \in DOMAIN s : LET r == s[i].req IN
        r.upgrade = "no" /\ r.target \in {"async", "sync"} =>
            /\ DOMAIN r.made.headers \cap Telling \subseteq {"Content-Encoding"}
            /\ Values(r.made.headers, "Content-Encoding") = r.made.body.codings
            /\ r.made.body.codings \in Seq(STRING) /\ r.made.body.bytes \in Nat
            /\ "gzip" \in Range(r.made.body.codings) => "gzip" \in Range(r.accepts)

(* The requests whose answer other origins may have to read.                   *)
Shared == req.upgrade = "no" /\ (req.target \in {"redirect", "async", "sync"}
                                 \/ (req.method = "OPTIONS" /\ matchesPath(req.path)))

(* Only the handshake switches protocols.                                      *)
Ordinary(r) == \E s : s # "101" /\ HasStatus(r, s)

(* What was sent; while a request is on its way, nothing was.                  *)
Sent ==
    /\ Tells(response, req.accepts) /\ HeaderValues(response, "Content-Length") = <<response.body.bytes>>
    /\ at = "answered" /\ Shared => Origin(response) = OriginFor(req)
    /\ Ordinary(response)
AnswerInv ==
    at \in {"answered", "upgraded"} =>
        \/ Sent \/ (response = NoResponse /\ ~(at = "answered" /\ Shared))
        \/ response = buildHandshakeResponse /\ at = "upgraded"

LEMMA AnswersAreOrdinary ==
    /\ Ordinary(responseNoContent) /\ Ordinary(responseBadRequest) /\ Ordinary(responseForbidden)
    /\ Ordinary(responseInternalServerError) /\ Ordinary(responseMethodNotAllowed("GET"))
    /\ Ordinary(buildAuthHeader) /\ Ordinary(NotFound) /\ \A v : Ordinary(Denial(v))
    /\ \A t : Ordinary(RedirectTo("301", t)) /\ Ordinary(RedirectTo("302", t))
    /\ \A t, b : Ordinary(buildHeader("200", t, b)) /\ Ordinary(buildHeader("503", t, b))
    /\ \A code \in {"200", "422", "503"} : Ordinary(Made(code))
<1>1. /\ Ordinary(responseNoContent) /\ Ordinary(responseBadRequest) /\ Ordinary(responseForbidden)
      /\ Ordinary(responseInternalServerError) /\ Ordinary(responseMethodNotAllowed("GET"))
      /\ Ordinary(buildAuthHeader) /\ Ordinary(NotFound)
  BY StatusOfRefusals DEF Ordinary
<1>2. \A v : Ordinary(Denial(v))
  BY <1>1 DEF Denial
<1>3. /\ \A t : Ordinary(RedirectTo("301", t)) /\ Ordinary(RedirectTo("302", t))
      /\ \A t, b : Ordinary(buildHeader("200", t, b)) /\ Ordinary(buildHeader("503", t, b))
      /\ \A code \in {"200", "422", "503"} : Ordinary(Made(code))
  BY StatusOfNew DEF Ordinary
<1> QED BY <1>1, <1>2, <1>3

(* Sending a response makes up for a length that is missing.                   *)
LEMMA AnswerSent ==
    ASSUME NEW r, Ordinary(r), NEW place, Respond(r, place), UNCHANGED avars, Tells(r, req.accepts),
           place = "answered" /\ Shared => Origin(r) = OriginFor(req)
    PROVE  AnswerInv'
<1>1. response' = Serialized(r) /\ at' = place /\ req' = req
  BY SameRequest DEF Respond, Send, Goto, Unframing
<1>2. /\ Tells(Serialized(r), req.accepts) /\ Origin(Serialized(r)) = Origin(r)
      /\ HeaderValues(Serialized(r), "Content-Length") = <<r.body.bytes>> /\ Serialized(r).body = r.body
  <2>1. CASE hasHeader(r, "Content-Length")
    BY <2>1 DEF Serialized, hasHeader, Tells
  <2>2. CASE ~hasHeader(r, "Content-Length")
    <3> DEFINE v == r.body.bytes
               x == addHeader(r, "Content-Length", v)
    <3>1. HeaderValues(r, "Content-Length") = << >> /\ IsResponse(r)
      BY <2>2 DEF hasHeader, Tells
    <3>2. Serialized(r) = x
      BY <2>2 DEF Serialized
    <3>3. \A n : Append(<< >>, n) = <<n>>
      OBVIOUS
    <3> HIDE DEF v
    <3>4. /\ IsResponse(x) /\ x.body = r.body
          /\ \A n : HeaderValues(x, n) =
                        IF n = "Content-Length" THEN Append(HeaderValues(r, n), v) ELSE HeaderValues(r, n)
      BY <3>1, AddHeaderValues
    <3> HIDE DEF x
    <3> QED BY <3>1, <3>2, <3>3, <3>4 DEF Tells, Origin, v
  <2> QED BY <2>1, <2>2
<1>3. Shared' = Shared
  <2>1. (matchesPath(req.path))' = matchesPath(req.path)
    BY <1>1 DEF matchesPath
  <2> QED BY <1>1, <2>1 DEF Shared
<1>4. OriginFor(req)' = OriginFor(req)
  BY <1>1
<1>5. Ordinary(response')
  BY <1>1, SerializedKeeps DEF Ordinary
<1> QED BY <1>1, <1>2, <1>3, <1>4, <1>5 DEF AnswerInv, Sent

(* A response the server made without CORS goes to nobody of another origin.   *)
LEMMA PlainSent ==
    ASSUME NEW r, Plain(r), Ordinary(r), NEW place, Respond(r, place), UNCHANGED avars,
           place = "answered" /\ Shared => OriginFor(req) = << >>
    PROVE  AnswerInv'
BY PlainTells, AnswerSent

LEMMA CorsSent ==
    ASSUME NEW r, Tells(r, req.accepts), Origin(r) = << >>, Ordinary(r), NEW place, NEW preflight, UNCHANGED avars,
           Respond(applyCorsHeaders(r, req, preflight), place) \/ Respond(Finish(r), place)
    PROVE  AnswerInv'
<1> DEFINE x == applyCorsHeaders(r, req, preflight)
           y == applyCorsHeaders(r, req, FALSE)
<1>1. Tells(x, req.accepts) /\ Origin(x) = OriginFor(req)
  BY CorsTells
<1>2. Tells(y, req.accepts) /\ Origin(y) = OriginFor(req)
  BY CorsTells
<1> HIDE DEF x, y
<1>3. Finish(r) = applyResponseCompression(y, req)
  BY DEF Finish, y
<1>4. Tells(Finish(r), req.accepts) /\ Origin(Finish(r)) = OriginFor(req)
  BY <1>2, <1>3, CompressionTells
<1>5. Ordinary(x) /\ Ordinary(Finish(r))
  BY CorsKeeps, FinishKeeps DEF Ordinary, x
<1>6. CASE Respond(x, place)
  BY <1>1, <1>5, <1>6, AnswerSent
<1>7. CASE Respond(Finish(r), place)
  BY <1>4, <1>5, <1>7, AnswerSent
<1> QED BY <1>6, <1>7 DEF x

LEMMA PlainCorsSent ==
    ASSUME NEW r, Plain(r), Ordinary(r), NEW place, NEW preflight, UNCHANGED avars,
           Respond(applyCorsHeaders(r, req, preflight), place) \/ Respond(Finish(r), place)
    PROVE  AnswerInv'
BY PlainTells, CorsSent

LEMMA MadeTells ==
    ASSUME HonestHandlers, FramingInv, at \in Handling, req.upgrade = "no", req.target \in {"async", "sync"}, NEW code
    PROVE  Tells(Made(code), req.accepts) /\ Origin(Made(code)) = << >>
<1> DEFINE m == req.made
           a == setHeader(HTTPResponse(code), "Content-Type", m.type)
           b == setBody(a, m.body)
           hs == [n \in DOMAIN b.headers \cup DOMAIN m.headers |-> Values(b.headers, n) \o Values(m.headers, n)]
           c == [b EXCEPT !.headers = hs]
<1>1. /\ DOMAIN m.headers \cap Telling \subseteq {"Content-Encoding"}
      /\ Values(m.headers, "Content-Encoding") = m.body.codings
      /\ m.body.codings \in Seq(STRING) /\ m.body.bytes \in Nat
      /\ "gzip" \in Range(m.body.codings) => "gzip" \in Range(req.accepts)
  <2>1. Len(framed) \in DOMAIN stream /\ stream \in Streams
    BY Around DEF FramingInv, ReadSoFar, FramedSoFar
  <2> QED BY <2>1 DEF HonestHandlers, req
<1>2. Plain(a)
  BY NewIsPlain, HeadersStayPlain DEF Telling
<1> HIDE DEF a, m
<1>3. /\ IsResponse(b) /\ b.body = m.body /\ HeaderValues(b, "Content-Length") = <<m.body.bytes>>
      /\ HeaderValues(b, "Content-Encoding") = << >> /\ Origin(b) = << >>
  <2>1. /\ IsResponse(b) /\ b.body = m.body
        /\ \A n : HeaderValues(b, n) = IF n = "Content-Length" THEN <<m.body.bytes>> ELSE HeaderValues(a, n)
    <3> DEFINE body == m.body
    <3>1. IsResponse(a) /\ b = setBody(a, body)
      BY <1>2 DEF Plain
    <3> HIDE DEF body, b
    <3>2. /\ IsResponse(setBody(a, body)) /\ setBody(a, body).body = body
          /\ \A n : HeaderValues(setBody(a, body), n) =
                        IF n = "Content-Length" THEN <<body.bytes>> ELSE HeaderValues(a, n)
      BY <3>1, SetBodyValues
    <3> QED BY <3>1, <3>2 DEF body
  <2> HIDE DEF b
  <2> QED BY <1>2, <2>1 DEF Plain, Origin
<1> HIDE DEF b
<1>4. c.body = b.body /\ IsResponse(c) /\ c.headers = hs
  BY <1>3 DEF IsResponse
<1>5. /\ Values(m.headers, "Content-Length") = << >> /\ Values(m.headers, "Access-Control-Allow-Origin") = << >>
  BY <1>1 DEF Values, Telling
<1>6. ASSUME NEW n, Values(b.headers, n) = << >> \/ Values(m.headers, n) = << >>,
             Values(b.headers, n) \in Seq(STRING) \cup {<<m.body.bytes>>}, Values(m.headers, n) \in Seq(STRING)
      PROVE  Values(hs, n) = IF Values(b.headers, n) = << >> THEN Values(m.headers, n) ELSE Values(b.headers, n)
  <2>1. CASE n \in DOMAIN hs
    <3>1. Values(hs, n) = Values(b.headers, n) \o Values(m.headers, n)
      BY <2>1 DEF Values
    <3>2. \A s \in Seq(STRING) : << >> \o s = s /\ s \o << >> = s
      OBVIOUS
    <3>3. <<m.body.bytes>> \o << >> = <<m.body.bytes>>
      BY <1>1
    <3> QED BY <1>6, <3>1, <3>2, <3>3
  <2>2. CASE n \notin DOMAIN hs
    BY <2>2 DEF Values
  <2> QED BY <2>1, <2>2
<1> HIDE DEF hs
<1>7. /\ HeaderValues(c, "Content-Length") = <<m.body.bytes>>
      /\ HeaderValues(c, "Content-Encoding") = m.body.codings /\ Origin(c) = << >>
  <2>1. << >> \in Seq(STRING) /\ <<m.body.bytes>> # << >>
    OBVIOUS
  <2>2. HeaderValues(c, "Content-Length") = <<m.body.bytes>>
    BY <1>3, <1>4, <1>5, <1>6, <2>1 DEF HeaderValues
  <2>3. HeaderValues(c, "Content-Encoding") = m.body.codings
    BY <1>1, <1>3, <1>4, <1>6, <2>1 DEF HeaderValues
  <2>4. Origin(c) = << >>
    BY <1>3, <1>4, <1>5, <1>6, <2>1 DEF HeaderValues, Origin
  <2> QED BY <2>2, <2>3, <2>4
<1>8. Made(code) = c
  BY DEF Made, c, hs, b, a, m
<1> HIDE DEF c
<1> QED BY <1>1, <1>3, <1>4, <1>7, <1>8 DEF Tells

(* Whichever step answers the request, its answer says what it should.         *)
LEMMA DispatchAnswers ==
    ASSUME HonestHandlers, FramingInv, RequestInv, AnswerInv, serving, Dispatch, UNCHANGED avars
    PROVE  AnswerInv'
<1>1. ASSUME at' \notin {"answered", "upgraded"} PROVE AnswerInv'
  BY <1>1 DEF AnswerInv
<1>2. CASE Begin \/ SyncRoute \/ Answered \/ Upgraded
  <2>1. at' \in {"cors", "closed", "handler", "routegate", "loop"}
    BY <1>2 DEF Begin, SyncRoute, Answered, Upgraded, Goto, Pass
  <2> QED BY <1>1, <2>1
<1>3. CASE CorsPreflight
  <2>1. CASE Respond(applyCorsHeaders(responseNoContent, req, TRUE), "answered")
    BY <2>1, RefusalsArePlain, AnswersAreOrdinary, PlainCorsSent
  <2>2. CASE Respond(responseForbidden, "answered") /\ resolveOrigin(req.origin) = "none"
    BY <2>2, RefusalsArePlain, AnswersAreOrdinary, PlainSent DEF OriginFor
  <2>3. CASE Pass("upgrade")
    BY <1>1, <2>3 DEF Pass, Goto
  <2> QED BY <1>3, <2>1, <2>2, <2>3 DEF CorsPreflight
<1>4. CASE Upgrade
  <2>1. CASE Respond(responseBadRequest, "upgraded") \/ Respond(NotFound, "upgraded")
    BY <2>1, RefusalsArePlain, AnswersAreOrdinary, PlainSent
  <2>2. ASSUME NEW place \in {"redirect", "handshake", "wsgate"}, Pass(place) PROVE AnswerInv'
    BY <1>1, <2>2 DEF Pass, Goto
  <2> QED BY <1>4, <2>1, <2>2 DEF Upgrade
<1>5. CASE Redirect
  <2>1. CASE Respond(applyCorsHeaders(RedirectTo("301", "target"), req, FALSE), "answered")
    BY <2>1, NewIsPlain, AnswersAreOrdinary, PlainCorsSent
  <2>2. ASSUME NEW place \in {"handler", "routegate", "syncroute", "auth", "file"}, Pass(place) PROVE AnswerInv'
    BY <1>1, <2>2 DEF Pass, Goto
  <2> QED BY <1>5, <2>1, <2>2 DEF Redirect
<1>6. CASE RouteGate
  <2>1. PICK place \in {"routegate", "wsgate"}, verdict \in Verdicts :
          IF verdict = "granted" THEN Goto(IF place = "wsgate" THEN "handshake" ELSE "handler")
          ELSE IF place = "wsgate"
               THEN Respond(applyCorsHeaders(Denial(verdict), req, FALSE), "upgraded")
               ELSE Respond(Finish(Denial(verdict)), "answered")
    BY Zenon, <1>6 DEF RouteGate
  <2>2. CASE verdict = "granted"
    BY <1>1, <2>1, <2>2 DEF Goto
  <2>3. CASE verdict # "granted"
    BY <2>1, <2>3, RefusalsArePlain, AnswersAreOrdinary, PlainCorsSent
  <2> QED BY <2>2, <2>3
<1>7. CASE Handshake
  <2>1. CASE Send(buildHandshakeResponse, "upgraded")
    BY <2>1 DEF Send, Goto, AnswerInv
  <2>2. CASE Pass("upgraded")
    <3>1. at' = "upgraded" /\ response' = response /\ response = NoResponse
      BY <1>7, <2>2 DEF Pass, Goto, rvars, Handshake, RequestInv, WayInv, Asking
    <3> QED BY <3>1 DEF AnswerInv, NoResponse
  <2> QED BY <1>7, <2>1, <2>2 DEF Handshake
<1>8. CASE Handler
  <2>1. at = "handler" /\ at \in Handling /\ req.upgrade = "no" /\ req.target \in {"async", "sync"}
    BY <1>8 DEF Handler, Handling, RequestInv, WayInv
  <2>2. req.result \in {"2xx", "4xx", "5xx", "405", "throws"}
    BY <2>1, KnownRequest DEF HasResult
  <2>3. \/ \E code \in {"200", "422", "503"} : Respond(Finish(Made(code)), "answered")
        \/ Respond(Finish(responseMethodNotAllowed("GET")), "answered")
        \/ Respond(Finish(responseInternalServerError), "answered")
    <3>1. \/ Respond(Finish(Made("200")), "answered") \/ Respond(Finish(Made("422")), "answered")
          \/ Respond(Finish(Made("503")), "answered")
          \/ Respond(Finish(responseMethodNotAllowed("GET")), "answered")
          \/ Respond(Finish(responseInternalServerError), "answered")
      BY Zenon, <1>8, <2>2 DEF Handler
    <3> QED BY <3>1
  <2>4. ASSUME NEW code \in {"200", "422", "503"}, Respond(Finish(Made(code)), "answered") PROVE AnswerInv'
    BY <2>1, <2>4, MadeTells, AnswersAreOrdinary, CorsSent
  <2> QED BY <2>3, <2>4, RefusalsArePlain, AnswersAreOrdinary, PlainCorsSent
<1>9. ASSUME PageAuth \/ PageGate \/ File PROVE ~Shared
  BY <1>9 DEF PageAuth, PageGate, File, RequestInv, WayInv, Asking, Shared
<1>10. ASSUME ~Shared, NEW r, Plain(r), Ordinary(r), Respond(r, "answered") PROVE AnswerInv'
  BY <1>10, PlainSent
<1>11. CASE PageAuth
  <2>1. CASE Respond(buildAuthHeader, "answered")
    BY <1>9, <1>10, <1>11, <2>1, RefusalsArePlain, AnswersAreOrdinary
  <2>2. ASSUME NEW place \in {"file", "pagegate"}, Pass(place) PROVE AnswerInv'
    BY <1>1, <2>2 DEF Pass, Goto
  <2> QED BY <1>11, <2>1, <2>2 DEF PageAuth
<1>12. CASE PageGate
  <2>1. \/ Goto("file")
        \/ Respond(IF req.target = "page" THEN RedirectTo("302", "login") ELSE responseForbidden, "answered")
        \/ Respond(responseInternalServerError, "answered")
    <3>1. PICK verdict \in {"granted", "refused", "failed"} :
            CASE verdict = "granted" ->
                       Goto("file") /\ Unframing /\ UNCHANGED <<answered, response, metrics, failed>>
                [] verdict = "refused" ->
                       /\ Respond(IF req.target = "page" THEN RedirectTo("302", "login") ELSE responseForbidden,
                                  "answered")
                       /\ Quietly
                [] verdict = "failed" -> Respond(responseInternalServerError, "answered") /\ As5xx
      BY Zenon, <1>12 DEF PageGate, Verdicts
    <3> QED BY Zenon, <3>1
  <2>2. CASE Goto("file")
    BY <1>1, <2>2 DEF Goto
  <2> QED BY <1>9, <1>10, <1>12, <2>1, <2>2, NewIsPlain, RefusalsArePlain, AnswersAreOrdinary
<1>13. CASE File
  <2>1. /\ at = "file" /\ response = NoResponse
        /\ req.result \in {"found", "missing", "unreadable", "vanished"}
    <3>1. /\ at = "file" /\ at \in Handling /\ response = NoResponse /\ req.upgrade = "no"
          /\ req.target \in {"page", "asset", "file"}
      BY <1>13 DEF File, Asking, Handling, RequestInv, WayInv
    <3> QED BY <3>1, KnownRequest DEF HasResult
  <2>2. \/ Goto("answered") /\ Unframing /\ UNCHANGED <<answered, response, metrics, failed>>
        \/ Respond(buildHeader("200", "text/html", Text), "answered")
        \/ Respond(NotFound, "answered")
        \/ Respond(buildHeader("503", "text/plain", Text), "answered")
    BY Zenon, <1>13, <2>1 DEF File
  <2>3. CASE Goto("answered") /\ Unframing /\ UNCHANGED <<answered, response, metrics, failed>>
    <3>1. at' = "answered" /\ response' = NoResponse /\ req' = req
      BY <2>1, <2>3, SameRequest DEF Goto, Unframing, NoResponse
    <3>2. (matchesPath(req.path))' = matchesPath(req.path)
      BY <3>1 DEF matchesPath
    <3>3. ~Shared'
      BY <1>9, <1>13, <3>1, <3>2 DEF Shared
    <3> QED BY <3>1, <3>3 DEF AnswerInv, NoResponse
  <2> QED BY <1>9, <1>10, <1>13, <2>2, <2>3, NewIsPlain, RefusalsArePlain, AnswersAreOrdinary
<1> QED BY <1>2, <1>3, <1>4, <1>5, <1>6, <1>7, <1>8, <1>11, <1>12, <1>13 DEF Dispatch

LEMMA AnswersKept ==
    ASSUME HonestHandlers, FramingInv, RequestInv, AnswerInv, [Next]_vars
    PROVE  AnswerInv'
<1>1. ASSUME UNCHANGED <<stream, framed, at, response>> PROVE AnswerInv'
  <2>1. req' = req
    BY <1>1 DEF req
  <2>2. (matchesPath(req.path))' = matchesPath(req.path)
    BY <2>1 DEF matchesPath
  <2>3. OriginFor(req)' = OriginFor(req)
    BY <2>1
  <2>4. Shared' = Shared
    BY <2>1, <2>2 DEF Shared
  <2> QED BY <1>1, <2>1, <2>3, <2>4 DEF AnswerInv, Sent
<1>2. CASE serving /\ Dispatch /\ UNCHANGED <<avars, serving>>
  BY <1>2, DispatchAnswers
<1>3. CASE FramingStep
  <2>1. at' \notin {"answered", "upgraded"}
    BY <1>3 DEF FramingStep, NextRequest, LimitReached, FirstRead, Headers, Preflight, Length, Discard, Frame,
       ReadBody, Oversize, Goto
  <2> QED BY <2>1 DEF AnswerInv
<1>4. CASE Leave \/ Start \/ UNCHANGED <<fvars, rvars, serving>> \/ UNCHANGED vars
  BY <1>1, <1>4 DEF Leave, ClientCloses, Start, fvars, rvars, vars
<1> QED BY <1>2, <1>3, <1>4 DEF Next, Step

LEMMA AnswersAlways == ASSUME HonestHandlers PROVE Spec => []AnswerInv
<1>1. Init => AnswerInv
  BY DEF Init, FramingInit, AnswerInv
<1>2. FramingInv /\ RequestInv /\ AnswerInv /\ [Next]_vars => AnswerInv'
  BY AnswersKept
<1> QED BY <1>1, <1>2, ConnectionInv, PTL DEF Spec

(* The first fitting entry of the list decides: there is one exactly if the    *)
(* list allows everybody or this origin.                                       *)
LEMMA OriginIsAllowed ==
    ASSUME NEW o, o # "none"
    PROVE  resolveOrigin(o) # "none" <=> CorsEnabled /\ {"*", o} \cap Range(Origins) # {}
<1> DEFINE I == {i \in 1..Len(Origins) : Origins[i] = "*" \/ Origins[i] = o}
           fits == SelectInSeq(Origins, LAMBDA x : x = "*" \/ x = o)
<1>1. Origins \in Seq(STRING) /\ Len(Origins) \in Nat /\ DOMAIN Origins = 1..Len(Origins)
  BY ResponseAssumption
<1>2. fits = IF I # {} THEN Min(I) ELSE 0
  BY DEF SelectInSeq
<1>3. I # {} => Min(I) \in I
  <2>1. I \in SUBSET Nat
    BY <1>1
  <2> QED BY <2>1, MinIsLeast
<1>4. I # {} <=> {"*", o} \cap Range(Origins) # {}
  BY <1>1 DEF Range
<1>5. I # {} => fits # 0 /\ Origins[fits] \in {"*", o}
  BY <1>2, <1>3
<1>6. resolveOrigin(o) = IF ~CorsEnabled \/ o = "none" \/ fits = 0 THEN "none" ELSE Origins[fits]
  BY DEF resolveOrigin
<1> HIDE DEF fits, I
<1> QED BY <1>2, <1>4, <1>5, <1>6

(* Whichever of the ways through RouteDispatcher makes the answer of a route,  *)
(* applyCorsHeaders() has named the origin on it, once, exactly when the       *)
(* configuration allows it; compression and serialisation leave it there.      *)
THEOREM OriginsAreTold == ASSUME HonestHandlers PROVE Spec => []CorsOnEveryAnswer
<1>1. AnswerInv => CorsOnEveryAnswer
  <2> SUFFICES ASSUME AnswerInv, at = "answered", Shared
               PROVE  Origin(response) =
                        IF matchesPath(req.path) /\ req.origin # "none" /\ {"*", req.origin} \cap Range(Origins) # {}
                        THEN <<resolveOrigin(req.origin)>> ELSE << >>
    BY DEF CorsOnEveryAnswer, Shared, Origin
  <2>1. Origin(response) = OriginFor(req)
    BY DEF AnswerInv, Sent
  <2>2. req.origin = "none" => resolveOrigin(req.origin) = "none"
    BY DEF resolveOrigin
  <2>3. matchesPath(req.path) => CorsEnabled
    BY DEF matchesPath
  <2> QED BY <2>1, <2>2, <2>3, OriginIsAllowed DEF OriginFor
<1> QED BY <1>1, AnswersAlways, PTL

(* Every response but the handshake carries one Content-Length, that of the    *)
(* body sent with it, and names its codings; gzip only to a client that takes it (setBody(),      *)
(* applyResponseCompression(), serializeTo()).                                 *)
THEOREM BodiesAreTold == ASSUME HonestHandlers PROVE Spec => []BodyAsTold
<1>1. AnswerInv => BodyAsTold
  <2> SUFFICES ASSUME AnswerInv, at \in {"answered", "upgraded"}, response # NoResponse
               PROVE  /\ HeaderValues(response, "Content-Length")
                              = IF status = "101" THEN << >> ELSE <<response.body.bytes>>
                      /\ status = "101" => response.body = NoBody
                      /\ HeaderValues(response, "Content-Encoding") = response.body.codings
                      /\ "gzip" \in Range(response.body.codings) => "gzip" \in Range(req.accepts)
    BY DEF BodyAsTold
  <2>1. CASE Sent
    <3>1. status # "101"
      BY <2>1 DEF Sent, Ordinary, HasStatus, status
    <3> QED BY <2>1, <3>1 DEF Sent, Tells
  <2>2. CASE response = buildHandshakeResponse
    <3> DEFINE r == buildHandshakeResponse
    <3>1. status = "101" /\ r.body = NoBody /\ r.body.codings = << >> /\ Range(r.body.codings) = {}
      BY <2>2 DEF status, buildHandshakeResponse, NoBody, Body, Range
    <3>2. HeaderValues(r, "Content-Length") = << >> /\ HeaderValues(r, "Content-Encoding") = << >>
      BY DEF buildHandshakeResponse, HeaderValues, Values
    <3> HIDE DEF r
    <3>3. response = r
      BY <2>2 DEF r
    <3> QED BY <3>1, <3>2, <3>3
  <2> QED BY <2>1, <2>2 DEF AnswerInv
<1> QED BY <1>1, AnswersAlways, PTL

================================================================================
