--------------------------- MODULE WebSocketSession ---------------------------
(* One WebSocket session (server/WebSocket.cpp: readMessage, protocolError,    *)
(* writeCloseFrame, markClosed, adaptWebSocketRoute; websocket/                *)
(* WebSocketUpgrade.cpp: handleUpgrade after the handshake) on top of the      *)
(* write chain: what the coroutine of the session reads decides what it hands  *)
(* to the chain.  owner of WriteChain is this coroutine; it can go on while    *)
(* owner is "handler" or "closed", and _open is that owner is neither "closed" *)
(* nor "gone".  A route is a handler that receives, sends and closes as it     *)
(* likes ("raw"), or three callbacks driven by adaptWebSocketRoute.            *)
EXTENDS WriteChain, SequencesExt

CONSTANTS ClientFrames,     \* what the client may send: [op, fin, masked, size]
          MaxFrameBytes,    \* maxFrameBytes
          MaxMessageBytes,  \* maxMessageBytes
          MaxControlBytes,  \* 125
          MaxReads          \* bound: frames read in a session

ASSUME SessionAssumption ==
    /\ \A f \in ClientFrames :
          /\ f.op \in {"text", "binary", "cont", "ping", "pong", "close", "reservedData", "reservedControl"}
          /\ f.fin \in BOOLEAN /\ f.masked \in BOOLEAN /\ f.size \in Nat
    /\ MaxFrameBytes \in Nat /\ MaxMessageBytes \in Nat /\ MaxControlBytes \in Nat /\ MaxReads \in Nat

VARIABLES
    route,       \* "raw" or "callback"
    at,          \* where the coroutine is
    started,     \* readMessage: a message has begun
    opcode,      \* readMessage: messageOpcode
    acc,         \* readMessage: the frames the accumulator was made of
    stream,      \* the data frames read so far
    messages,    \* the messages handed to the handler
    reads,       \* frames read
    code,        \* _closeCode
    log,         \* callbacks called: onOpen, onMessage, onClose with its code
    failed       \* handleUpgrade: handlerFailed

svars   == <<route, at, started, opcode, acc, stream, messages, reads, code, log, failed>>
allvars == <<vars, svars>>

NoStatus == 1005
Open     == owner \notin {"closed", "gone"}
Running  == owner \in {"handler", "closed"}      \* not waiting for a write

SessionInit ==
    /\ Init
    /\ route \in {"raw", "callback"} /\ at = "opening"
    /\ started = FALSE /\ opcode = "cont" /\ acc = <<>>
    /\ stream = <<>> /\ messages = <<>> /\ reads = 0
    /\ code = NoStatus /\ log = <<>> /\ failed = FALSE
--------------------------------------------------------------------------------
(* The handler.                                                                *)

(* What follows when the handler or a callback throws.                         *)
Thrown == at' = IF route = "raw" THEN "ended" ELSE "caught"
Fails  == failed' = (route = "raw")

(* The handler begins; onOpen may throw.                                       *)
Begin ==
    /\ at = "opening"
    /\ log' = IF route = "callback" THEN Append(log, "onOpen") ELSE log
    /\ \/ at' = "app" /\ UNCHANGED failed
       \/ Thrown /\ Fails
    /\ UNCHANGED <<vars, route, started, opcode, acc, stream, messages, reads, code>>

(* recv(): on a closed connection it returns a Close message at once, and the  *)
(* loop of a callback route does not call it.                                  *)
Recv ==
    /\ at = "app" /\ Running
    /\ at' = IF Open THEN "reading" ELSE IF route = "raw" THEN "app" ELSE "leaving"
    /\ started' = FALSE /\ opcode' = "cont" /\ acc' = <<>>
    /\ UNCHANGED <<vars, route, stream, messages, reads, code, log, failed>>

(* A raw handler sends, closes, returns or throws when it likes.               *)
RawSend == at = "app" /\ route = "raw" /\ Send /\ UNCHANGED svars

RawClose ==
    /\ at = "app" /\ route = "raw" /\ Close
    /\ code' = 1000
    /\ UNCHANGED <<route, at, started, opcode, acc, stream, messages, reads, log, failed>>

RawReturn ==
    /\ at = "app" /\ route = "raw" /\ Running
    /\ at' = "ended" /\ failed' \in BOOLEAN
    /\ UNCHANGED <<vars, route, started, opcode, acc, stream, messages, reads, code, log>>
--------------------------------------------------------------------------------
(* readMessage, one frame at a time.                                           *)
Control(op) == op \in {"ping", "pong", "close", "reservedControl"}

(* The bytes of a message put together from these of the frames read.          *)
SizeOf(frames, parts) ==
    LET size[n \in 0..Len(parts)] == IF n = 0 THEN 0 ELSE size[n - 1] + frames[parts[n]].size
    IN  size[Len(parts)]

(* The first check that fails, in the order of the code; 0 when none does.     *)
ProtocolError(f) ==
    IF ~f.masked THEN 1002
    ELSE IF f.size > MaxFrameBytes THEN 1009
    ELSE IF Control(f.op) /\ (~f.fin \/ f.size > MaxControlBytes) THEN 1002
    ELSE IF f.op = "cont" /\ ~started THEN 1002
    ELSE IF f.op = "cont" /\ SizeOf(stream, acc) + f.size > MaxMessageBytes THEN 1009
    ELSE 0

Reading(f) ==
    /\ at = "reading" /\ owner = "handler" /\ reads < MaxReads
    /\ reads' = reads + 1

(* The Close frame is written, and markClosed keeps the code.  (The code is    *)
(* kept here when the writing begins; only this coroutine reads it.)           *)
CloseWith(c) ==
    /\ Close
    /\ code' = c /\ at' = "closeMessage"
    /\ UNCHANGED <<route, started, opcode, acc, stream, messages, log, failed>>

ReadBad(f)   == Reading(f) /\ ProtocolError(f) # 0 /\ CloseWith(ProtocolError(f))
ReadClose(f) == Reading(f) /\ ProtocolError(f) = 0 /\ f.op = "close" /\ CloseWith(IF f.size < 2 THEN NoStatus ELSE 4000)

(* A Ping is answered, if the chain still writes; a Pong is skipped.           *)
ReadPing(f) ==
    /\ Reading(f) /\ ProtocolError(f) = 0 /\ f.op \in {"ping", "pong"}
    /\ IF f.op = "ping" /\ writesEnabled THEN Send ELSE UNCHANGED vars
    /\ UNCHANGED <<route, at, started, opcode, acc, stream, messages, code, log, failed>>

(* Mutant of ReadData: the accumulator goes on from where it was.              *)
ReadDataOnto(f) ==
    /\ Reading(f) /\ ProtocolError(f) = 0 /\ f.op \notin {"ping", "pong", "close"}
    /\ stream' = Append(stream, f)
    /\ started' = TRUE
    /\ opcode' = IF f.op = "cont" THEN opcode ELSE f.op
    /\ acc' = Append(acc, Len(stream'))
    /\ at' = IF f.fin THEN "message" ELSE at
    /\ UNCHANGED <<vars, route, messages, code, log, failed>>

(* A data frame begins a message, or adds to the one begun.  A frame that is   *)
(* not a continuation begins anew and replaces what was collected.             *)
ReadData(f) ==
    /\ Reading(f) /\ ProtocolError(f) = 0 /\ f.op \notin {"ping", "pong", "close"}
    /\ stream' = Append(stream, f)
    /\ started' = TRUE
    /\ opcode' = IF f.op = "cont" THEN opcode ELSE f.op
    /\ acc' = IF f.op = "cont" THEN Append(acc, Len(stream')) ELSE <<Len(stream')>>
    /\ at' = IF f.fin THEN "message" ELSE at
    /\ UNCHANGED <<vars, route, messages, code, log, failed>>

(* The client is gone, or silent no longer: the read throws.                   *)
ReadFails ==
    /\ at = "reading" /\ owner = "handler"
    /\ Thrown /\ Fails
    /\ UNCHANGED <<vars, route, started, opcode, acc, stream, messages, reads, code, log>>
--------------------------------------------------------------------------------
(* The handler gets the message; onMessage may throw.                          *)
Deliver ==
    /\ at = "message"
    /\ messages' = Append(messages, [text |-> opcode = "text", parts |-> acc])
    /\ log' = IF route = "callback" THEN Append(log, "onMessage") ELSE log
    /\ \/ at' = "app" /\ UNCHANGED failed
       \/ route = "callback" /\ Thrown /\ Fails
    /\ UNCHANGED <<vars, route, started, opcode, acc, stream, reads, code>>

(* ... or the Close message, once the Close frame has been written.            *)
DeliverClose ==
    /\ at = "closeMessage" /\ Running
    /\ at' = IF route = "callback" THEN "leaving" ELSE "app"
    /\ UNCHANGED <<vars, route, started, opcode, acc, stream, messages, reads, code, log, failed>>

(* Mutant of Caught: an exception skips onClose.                               *)
CaughtAndGone ==
    /\ at = "caught"
    /\ at' = "ended"
    /\ UNCHANGED <<vars, route, started, opcode, acc, stream, messages, reads, code, log, failed>>

(* The catch of adaptWebSocketRoute, then onClose, which may throw.  The code  *)
(* it is given is never that of an open connection.                            *)
Caught ==
    /\ at = "caught"
    /\ at' = "leaving"
    /\ UNCHANGED <<vars, route, started, opcode, acc, stream, messages, reads, code, log, failed>>

CallOnClose ==
    /\ at = "leaving"
    /\ log' = Append(log, "onClose")
    /\ at' = "ended"
    /\ failed' \in BOOLEAN
    /\ UNCHANGED <<vars, route, started, opcode, acc, stream, messages, reads, code>>

(* handleUpgrade closes what the handler left open, then both go.              *)
EndClose ==
    /\ at = "ended" /\ Open /\ Close
    /\ code' = IF failed THEN 1011 ELSE 1000
    /\ UNCHANGED <<route, at, started, opcode, acc, stream, messages, reads, log, failed>>

(* Mutant of EndDestroy: the end does not wait for the Close frame.            *)
EndDestroyEarly ==
    /\ at = "ended" /\ owner \in {"closing", "closed"}
    /\ owner' = "gone"
    /\ UNCHANGED <<writesEnabled, posted, queue, pumping, pump, item, gate, handed, wire>>
    /\ UNCHANGED svars

EndDestroy == at = "ended" /\ Destroy /\ UNCHANGED svars

ChainStep == (SendNow \/ SendReturns \/ MarkClosed \/ RunPosted \/ PumpStep) /\ UNCHANGED svars

ReadStep == \E f \in ClientFrames : ReadBad(f) \/ ReadClose(f) \/ ReadPing(f) \/ ReadData(f)

CoroutineStep == Begin \/ Deliver \/ DeliverClose \/ Caught \/ CallOnClose \/ EndClose \/ EndDestroy

SessionNext ==
    \/ ChainStep \/ CoroutineStep \/ ReadStep \/ ReadFails
    \/ Recv \/ RawSend \/ RawClose \/ RawReturn

(* The strand and the coroutine run, a write ends one way or the other, and    *)
(* the client goes away in the end (nothing times it out).                     *)
SessionSpec ==
    /\ SessionInit /\ [][SessionNext]_allvars
    /\ WF_allvars((SendReturns \/ MarkClosed) /\ UNCHANGED svars)
    /\ WF_allvars(RunPosted /\ UNCHANGED svars)
    /\ WF_allvars(PumpStep /\ UNCHANGED svars)
    /\ WF_allvars(CoroutineStep)
--------------------------------------------------------------------------------
(* Properties.                                                                 *)

(* A message is a run of consecutive data frames: one that begins a message,   *)
(* continuations only, and the last one alone with fin; its kind is that of    *)
(* the first.  No frame is in two messages and none overtakes another.         *)
MessagesAreFrames ==
    \A k \in DOMAIN messages :
      LET parts == messages[k].parts
          first == parts[1]
      IN  /\ parts = [i \in 1..Len(parts) |-> first + i - 1]
          /\ messages[k].text = (stream[first].op = "text")
          /\ \A i \in DOMAIN parts : (stream[parts[i]].op = "cont") = (i > 1)
          /\ \A i \in DOMAIN parts : stream[parts[i]].fin = (i = Len(parts))
          /\ k > 1 => first > Last(messages[k - 1].parts)

(* No message is larger than both limits allow.  (The first frame of a message *)
(* is checked against maxFrameBytes only.)                                     *)
MessageSizeBounded ==
    \A k \in DOMAIN messages :
      LET size == SizeOf(stream, messages[k].parts)
      IN  size <= MaxMessageBytes \/ (Len(messages[k].parts) = 1 /\ size <= MaxFrameBytes)

(* What the application gets are the messages the client sent, whole, and none *)
(* that the limits forbid.                                                     *)
MessagesExact == MessagesAreFrames /\ MessageSizeBounded

(* A callback route sees onOpen first, onClose last, each once, and onMessage  *)
(* only between them, whichever of them throws and however the session ends.   *)
CallbackOrder ==
    /\ \A i \in DOMAIN log : (log[i] = "onOpen") = (i = 1)
    /\ \A i \in DOMAIN log : log[i] = "onClose" => i = Len(log)
    /\ owner = "gone" /\ route = "callback" => log # <<>> /\ Last(log) = "onClose"

(* A session uses its chain as module WriteChain says, so that what is proved  *)
(* of every chain holds in every session.                                      *)
ChainRespected == Spec
================================================================================
