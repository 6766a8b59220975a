------------------------------ MODULE WriteChain ------------------------------
(* Outbound frames of one WebSocket connection (server/WebSocket.cpp,         *)
(* WebSocketConnection::WriteChain, and the calls of it by send, sendNow,     *)
(* close and websocket/WebSocketUpgrade.cpp).                                 *)
(*                                                                            *)
(* The owner is the coroutine of the session: it runs the application's       *)
(* handler, sends, closes, and then destroys the connection and its socket.   *)
(* sendNow may be called by any thread that knows the connection (a chat      *)
(* room).  Everything else runs on the strand of the session: the handlers    *)
(* posted by writers, in order, and the pump coroutine, which keeps the       *)
(* strand until it waits for the socket.                                      *)
EXTENDS Naturals, Sequences

CONSTANT MaxFrames    \* bound: frames handed to the chain

ASSUME FrameAssumption == MaxFrames \in Nat

Kinds    == {"now", "send", "close"}
Frames   == [id : 1..MaxFrames, kind : Kinds]
NoFrame  == [id |-> 0, kind |-> "none"]
Gated(f) == f.kind # "now"    \* somebody waits for its onComplete

VARIABLES
    writesEnabled,   \* WriteChain::writesEnabled
    posted,          \* handlers posted to the strand that enqueue a frame
    queue,           \* WriteChain::queue
    pumping,         \* WriteChain::pumping
    pump,            \* the pump coroutine: "off", "spawned" or "writing"
    item,            \* the frame the pump is writing
    owner,           \* the session: "handler", "sending", "closing", "closed", "gone"
    gate,            \* done, of the frame the owner waits for
    handed,          \* number of frames handed to the chain
    wire             \* the frames written to the socket

vars == <<writesEnabled, posted, queue, pumping, pump, item, owner, gate, handed, wire>>

Init ==
    /\ writesEnabled = TRUE
    /\ posted = <<>> /\ queue = <<>>
    /\ pumping = FALSE /\ pump = "off" /\ item = NoFrame
    /\ owner = "handler" /\ gate = FALSE
    /\ handed = 0 /\ wire = <<>>

Waiting == owner \in {"sending", "closing"}

(* post(socket.get_executor(), ...) by schedule() and write().                 *)
Post(kind) ==
    /\ handed < MaxFrames
    /\ handed' = handed + 1
    /\ posted' = Append(posted, [id |-> handed + 1, kind |-> kind])
--------------------------------------------------------------------------------
(* sendNow(): drop the frame once writes are disabled, else post it.  Nobody   *)
(* calls it once the connection object is gone.                                *)
SendNow ==
    /\ owner # "gone" /\ writesEnabled
    /\ Post("now")
    /\ UNCHANGED <<writesEnabled, queue, pumping, pump, item, owner, gate, wire>>

(* send(): write() posts the frame and polls its gate.  When writes are        *)
(* disabled it returns at once: a stuttering step.                             *)
Send ==
    /\ owner = "handler" /\ writesEnabled
    /\ Post("send")
    /\ owner' = "sending" /\ gate' = FALSE
    /\ UNCHANGED <<writesEnabled, queue, pumping, pump, item, wire>>

SendReturns ==
    /\ owner = "sending" /\ gate
    /\ owner' = "handler"
    /\ UNCHANGED <<writesEnabled, posted, queue, pumping, pump, item, gate, handed, wire>>

(* close(), a protocol error, the echo of a Close frame, or the end of the     *)
(* handler: write the Close frame, wait for it, then markClosed().             *)
Close ==
    /\ owner = "handler"
    /\ IF writesEnabled
       THEN Post("close") /\ owner' = "closing" /\ gate' = FALSE
       ELSE owner' = "closed" /\ UNCHANGED <<posted, handed, gate>>
    /\ UNCHANGED <<writesEnabled, queue, pumping, pump, item, wire>>

MarkClosed ==
    /\ owner = "closing" /\ gate
    /\ owner' = "closed"
    /\ writesEnabled' = FALSE
    /\ UNCHANGED <<posted, queue, pumping, pump, item, gate, handed, wire>>

(* The handler has returned: the connection and the socket are destroyed.      *)
Destroy ==
    /\ owner = "closed"
    /\ owner' = "gone"
    /\ UNCHANGED <<writesEnabled, posted, queue, pumping, pump, item, gate, handed, wire>>
--------------------------------------------------------------------------------
(* onComplete of a frame: opens the gate of the one who waits for it.          *)
Complete(f) == gate' = (gate \/ Gated(f))

(* Mutant of RunPosted: the newest frame goes first.                           *)
RunPostedNewestFirst ==
    /\ posted # <<>>
    /\ posted' = Tail(posted)
    /\ IF writesEnabled
       THEN /\ queue' = <<Head(posted)>> \o queue
            /\ pumping' = TRUE
            /\ pump' = IF pumping THEN pump ELSE "spawned"
            /\ UNCHANGED gate
       ELSE /\ Complete(Head(posted))
            /\ UNCHANGED <<queue, pumping, pump>>
    /\ UNCHANGED <<writesEnabled, item, owner, handed, wire>>

(* The handler posted by schedule() or write(): enqueue the frame and start    *)
(* the pump unless it runs.  A frame refused here opens its gate.              *)
RunPosted ==
    /\ posted # <<>>
    /\ posted' = Tail(posted)
    /\ IF writesEnabled
       THEN /\ queue' = Append(queue, Head(posted))
            /\ pumping' = TRUE
            /\ pump' = IF pumping THEN pump ELSE "spawned"
            /\ UNCHANGED gate
       ELSE /\ Complete(Head(posted))
            /\ UNCHANGED <<queue, pumping, pump>>
    /\ UNCHANGED <<writesEnabled, item, owner, handed, wire>>

(* One round of pump(): take the next frame and start writing it, or stop.     *)
(* completed is the frame of the round before, enabled what writesEnabled is.  *)
PumpRound(completed) ==
    IF queue = <<>>
    THEN /\ pumping' = FALSE /\ pump' = "off" /\ item' = NoFrame
         /\ Complete(completed)
         /\ UNCHANGED queue
    ELSE /\ queue' = Tail(queue)
         /\ IF writesEnabled
            THEN /\ pump' = "writing" /\ item' = Head(queue)
                 /\ Complete(completed)
                 /\ UNCHANGED pumping
            ELSE /\ pumping' = FALSE /\ pump' = "off" /\ item' = NoFrame
                 /\ gate' = (gate \/ Gated(completed) \/ Gated(Head(queue)))

PumpStart ==
    /\ pump = "spawned"
    /\ PumpRound([NoFrame EXCEPT !.kind = "now"])
    /\ UNCHANGED <<writesEnabled, posted, owner, handed, wire>>

(* Mutant of WriteDone: onComplete is not called after a write.                *)
WriteDoneSilent ==
    /\ pump = "writing" /\ owner # "gone"
    /\ wire' = Append(wire, item)
    /\ PumpRound([NoFrame EXCEPT !.kind = "now"])
    /\ UNCHANGED <<writesEnabled, posted, owner, handed>>

WriteDone ==
    /\ pump = "writing" /\ owner # "gone"
    /\ wire' = Append(wire, item)
    /\ PumpRound(item)
    /\ UNCHANGED <<writesEnabled, posted, owner, handed>>

(* Mutant of WriteFailed: the failed frame is kept for another attempt, at the *)
(* end of the queue.                                                           *)
WriteFailedRetries ==
    /\ pump = "writing"
    /\ queue' = Append(queue, item)
    /\ pump' = "spawned" /\ item' = NoFrame
    /\ UNCHANGED <<writesEnabled, posted, pumping, owner, gate, handed, wire>>

(* The peer is gone, or the socket was destroyed under the write: the frame    *)
(* completes, writes are disabled, the pump stops.  What is queued stays.      *)
WriteFailed ==
    /\ pump = "writing"
    /\ writesEnabled' = FALSE
    /\ Complete(item)
    /\ pumping' = FALSE /\ pump' = "off" /\ item' = NoFrame
    /\ UNCHANGED <<posted, queue, owner, handed, wire>>
--------------------------------------------------------------------------------
OwnerStep == SendReturns \/ MarkClosed \/ Destroy
PumpStep  == PumpStart \/ WriteDone \/ WriteFailed

Next == SendNow \/ Send \/ Close \/ OwnerStep \/ RunPosted \/ PumpStep

(* The strand runs what is posted to it, and a write ends, one way or the      *)
(* other.  (A peer that neither reads nor closes is not waited for here.)      *)
Spec     == Init /\ [][Next]_vars
FairSpec == Spec /\ WF_vars(OwnerStep) /\ WF_vars(RunPosted) /\ WF_vars(PumpStep)
--------------------------------------------------------------------------------
(* The types of the state.  There is one pump at most, and the flag says so.   *)
TypeOK ==
    /\ writesEnabled \in BOOLEAN /\ pumping \in BOOLEAN /\ gate \in BOOLEAN
    /\ posted \in Seq(Frames) /\ queue \in Seq(Frames) /\ wire \in Seq(Frames)
    /\ pump \in {"off", "spawned", "writing"} /\ pumping = (pump # "off")
    /\ item \in Frames \cup {NoFrame} /\ (pump = "writing") = (item # NoFrame)
    /\ owner \in {"handler", "sending", "closing", "closed", "gone"}
    /\ handed \in 0..MaxFrames

(* Frames reach the socket in the order they were handed to the chain, by      *)
(* whatever thread and whichever call, and none is left out.                   *)
WireInOrder == \A i \in 1..Len(wire) : wire[i].id = i

(* As long as writes are enabled, every frame handed over is on the wire or    *)
(* still on its way, in order: nothing is lost between posting, queue and pump. *)
Written   == IF item = NoFrame THEN wire ELSE Append(wire, item)
OnItsWay  == Written \o queue \o posted
NothingLost ==
    writesEnabled => /\ Len(OnItsWay) = handed
                     /\ \A i \in 1..handed : OnItsWay[i].id = i

(* A queued frame never waits for a pump that is not there.                    *)
PumpRuns == writesEnabled /\ queue # <<>> => pump # "off"

(* Handlers posted by other threads, and a pump that was just started, may run *)
(* when the session is over; they never start anything on its destroyed socket. *)
SocketNotUsedAfterDestroy == [][owner = "gone" => pump' \in {pump, "off"}]_vars

(* A coroutine that waits for its frame goes on once the frame is written, or  *)
(* writes are disabled.                                                        *)
SendsReturn == Waiting ~> (~Waiting \/ ~writesEnabled)

(* A coroutine that waits for its frame goes on, whatever became of the frames *)
(* that sendNow put before it.                                                 *)
FireAndForget == Waiting ~> ~Waiting

================================================================================
