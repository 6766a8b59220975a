------------------------------ MODULE HttpFraming ------------------------------
(* Cutting one connection's byte stream into requests (handler/HttpFraming    *)
(* .cpp: readNextRequestAsync, readSocketAsync, discardFromSocketAsync, and   *)
(* the loop condition of Handler::runAsync).                                  *)
(*                                                                            *)
(* Bytes are numbered along the stream, so the string raw, and between two    *)
(* calls pendingRequestData_, is the interval of bytes begin+1..readTo.  A    *)
(* byte stands for any share of a message.  Module RequestPipeline answers    *)
(* what this one frames; they meet in at = "dispatch" and at = "loop".        *)
EXTENDS Naturals, FiniteSetsExt, SequencesExt

CONSTANTS Streams,      \* what clients send: a set of sequences of messages
          MaxRequests,  \* maxRequestsPerConnection, 0: no limit
          ReadSize,     \* kBufferSize
          MaxHeader,    \* kMaxHttpHeaderBytes
          MaxBody       \* kMaxHttpBodyBytes

(* A message has a head and a body of so many bytes.  framing is "none",       *)
(* "length" (Content-Length), "badlength" (one that does not parse), "chunked" *)
(* or "garbled" (chunks with no end).  A message with expect holds its body    *)
(* back until it sees 100 Continue.  req is what the message asks for.         *)
ASSUME FramingAssumption ==
    /\ MaxRequests \in Nat /\ ReadSize \in Nat \ {0} /\ MaxHeader \in Nat /\ MaxBody \in Nat
    /\ \A s \in Streams : s # << >> /\ s \in Seq(Range(s)) /\ \A i \in DOMAIN s :
           /\ s[i].head \in Nat \ {0} /\ s[i].body \in Nat /\ s[i].expect \in BOOLEAN
           /\ s[i].framing \in {"none", "length", "badlength", "chunked", "garbled"}
           /\ s[i].framing = "none" => s[i].body = 0

VARIABLES
    stream,        \* what this client sends
    alive,         \* the client has not closed its end
    readTo,        \* bytes taken from the socket
    begin,         \* bytes that belong to requests already framed
    messageCount,  \* messageCount_
    at,            \* where the connection's coroutine is
    continued,     \* messages that were sent a 100 Continue
    framed,        \* the intervals <<from, to>> handed to the dispatcher
    answered       \* the message of each final response, in the order sent

fvars == <<stream, alive, readTo, begin, messageCount, at, continued, framed, answered>>

(* Where the i-th message begins: after the bytes of those before it.          *)
Bytes(m) == m.head + m.body
StartOf(i) ==
    LET before[k \in 0..Len(stream)] == IF k = 0 THEN 0 ELSE before[k - 1] + Bytes(stream[k])
    IN  before[i - 1]
HeadEnd(i) == StartOf(i) + stream[i].head
MessageEnd(i) == HeadEnd(i) + stream[i].body

(* The client's bytes that can have been sent so far.                          *)
Withheld == {i \in DOMAIN stream : stream[i].expect /\ i \notin continued}
Sendable == Min({MessageEnd(Len(stream))} \cup {HeadEnd(i) : i \in Withheld})

(* splitHttpHeaders(raw): the first header end in raw, if there is one.        *)
Heads   == {i \in DOMAIN stream : begin < HeadEnd(i) /\ HeadEnd(i) <= readTo}
Current == Min(Heads)

FramingInit ==
    /\ stream \in Streams /\ alive = TRUE /\ readTo = 0 /\ begin = 0 /\ messageCount = 0
    /\ at = "loop" /\ continued = {} /\ framed = <<>> /\ answered = <<>>

Goto(place) == at' = place
--------------------------------------------------------------------------------
(* readSocketAsync(): any part of what can be there, up to a limit, ...        *)
ReadUpTo(limit) ==
    /\ readTo' \in (readTo + 1)..Min({readTo + ReadSize, limit, Sendable})
    /\ UNCHANGED <<stream, alive, begin, messageCount, continued, framed, answered>>

Read == ReadUpTo(Sendable)

(* ... or an error or the end of the stream, once the client is gone.          *)
ReadFails ==
    /\ ~alive
    /\ UNCHANGED <<stream, alive, readTo, begin, messageCount, continued, framed, answered>>

Stay == UNCHANGED <<stream, alive, readTo, begin, messageCount, continued, framed, answered>>

(* Mutant of NextRequest: what was read past the last request is lost.         *)
NextRequestAfresh ==
    /\ at = "loop"
    /\ MaxRequests = 0 \/ messageCount < MaxRequests
    /\ messageCount' = messageCount + 1
    /\ begin' = readTo /\ Goto("waiting")
    /\ UNCHANGED <<stream, alive, readTo, continued, framed, answered>>

(* One turn of the loop: bytes left over from the last request come first.     *)
NextRequest ==
    /\ at = "loop"
    /\ MaxRequests = 0 \/ messageCount < MaxRequests
    /\ messageCount' = messageCount + 1
    /\ Goto(IF begin = readTo THEN "waiting" ELSE "headers")
    /\ UNCHANGED <<stream, alive, readTo, begin, continued, framed, answered>>

LimitReached ==
    /\ at = "loop"
    /\ MaxRequests # 0 /\ messageCount >= MaxRequests
    /\ Goto("closed") /\ Stay

FirstRead ==
    /\ at = "waiting"
    /\ \/ Read /\ Goto("headers")
       \/ ReadFails /\ Goto("closed")

Headers ==
    /\ at = "headers"
    /\ \/ Heads # {} /\ Goto("preflight") /\ Stay
       \/ Heads = {} /\ readTo - begin >= MaxHeader /\ Goto("closed") /\ Stay
       \/ /\ Heads = {} /\ readTo - begin < MaxHeader
          /\ \/ Read /\ Goto("headers")
             \/ ReadFails /\ Goto("closed")
--------------------------------------------------------------------------------
Msg == stream[Current]

(* parseHeaderPreflight() and the interim response; writing it can fail.       *)
Preflight ==
    /\ at = "preflight"
    /\ \/ Msg.expect /\ Goto("length")
          /\ continued' = continued \cup {Current}
          /\ UNCHANGED <<stream, alive, readTo, begin, messageCount, framed, answered>>
       \/ Msg.expect /\ ~alive /\ Goto("closed") /\ Stay
       \/ ~Msg.expect /\ Goto("length") /\ Stay

HasLength == Msg.framing = "length"
TooLong   == HasLength /\ Msg.body > MaxBody
Need      == IF Msg.framing \in {"length", "chunked"} THEN MessageEnd(Current) ELSE HeadEnd(Current)

(* The 400 for a request that cannot be framed.                                *)
Reject ==
    /\ answered' = Append(answered, Current)
    /\ UNCHANGED <<stream, alive, readTo, begin, messageCount, continued, framed>>

Length ==
    /\ at = "length"
    /\ \/ Msg.framing = "badlength" /\ Reject /\ Goto("closed")
       \/ TooLong /\ Reject /\ Goto("discarding")
       \/ Msg.framing # "badlength" /\ ~TooLong /\ Goto("body") /\ Stay

(* discardFromSocketAsync(): what is left of the body, and no more.            *)
Discard ==
    /\ at = "discarding"
    /\ \/ readTo >= Need /\ Goto("closed") /\ Stay
       \/ readTo < Need /\ ReadUpTo(Need) /\ Goto("discarding")
       \/ readTo < Need /\ ReadFails /\ Goto("closed")

Chunked  == Msg.framing \in {"chunked", "garbled"}

Complete == Msg.framing # "garbled" /\ readTo >= Need

Frame ==
    /\ at = "body" /\ Complete
    /\ framed' = Append(framed, <<begin, Need>>)
    /\ begin' = Need
    /\ Goto("dispatch")
    /\ UNCHANGED <<stream, alive, readTo, messageCount, continued, answered>>

(* Mutant of ReadBody: a failed read is tried again.                           *)
ReadBodyAgain ==
    /\ at = "body" /\ ~Complete
    /\ Read
    /\ Goto(IF Chunked /\ readTo' > MaxBody + HeadEnd(Current) THEN "oversize" ELSE "body")

(* More of the body; the limit is looked at only for chunks, after a read.     *)
ReadBody ==
    /\ at = "body" /\ ~Complete
    /\ \/ /\ Read
          /\ Goto(IF Chunked /\ readTo' > MaxBody + HeadEnd(Current) THEN "oversize" ELSE "body")
       \/ ReadFails /\ Goto("closed")

Oversize == at = "oversize" /\ Reject /\ Goto("closed")
--------------------------------------------------------------------------------
(* The client goes away: it has what it wanted, or not.                        *)
ClientCloses ==
    /\ alive
    /\ alive' = FALSE
    /\ UNCHANGED <<stream, readTo, begin, messageCount, at, continued, framed, answered>>

FramingStep ==
    \/ NextRequest \/ LimitReached \/ FirstRead \/ Headers \/ Preflight
    \/ Length \/ Discard \/ Frame \/ ReadBody \/ Oversize
--------------------------------------------------------------------------------
FramingPlaces == {"loop", "waiting", "headers", "preflight", "length", "discarding",
                  "body", "oversize", "dispatch", "closed"}

(* Every request handed to the dispatcher is one whole message, and they come  *)
(* in order with none skipped, however reads split or join messages.           *)
FramedOnBoundaries ==
    \A k \in DOMAIN framed : framed[k] = <<StartOf(k), MessageEnd(k)>>

(* A body that is framed is within the limit, or came in whole with one read:  *)
(* a chunked body is measured only after another read, and neither a pipelined *)
(* request nor the read that ended the head brings more than ReadSize of it.   *)
BodyBounded ==
    \A k \in DOMAIN framed : stream[k].body <= Max({MaxBody, ReadSize})

(* However the bytes arrive, what is handed on is one message of a bounded size.*)
FramedWithinLimits == FramedOnBoundaries /\ BodyBounded

================================================================================
