---------------------------- MODULE WebSocketProofs ----------------------------
(* Proofs about the outbound frames of a WebSocket (module WriteChain), for   *)
(* any number of frames, and about a whole session on its chain (module       *)
(* WebSocketSession), for any client and every limit.  A session implements   *)
(* its chain, so that what holds of every chain holds in every session.       *)
EXTENDS WebSocketSession, DataLemmas

(* The write chain.                                                            *)

(* No frame that is handed over is mistaken for "no frame". *)
LEMMA NoFrameIsNone == NoFrame \notin Frames
BY DEF NoFrame, Frames

LEMMA PostedTyped ==
    ASSUME TypeOK, NEW kind \in Kinds, Post(kind)
    PROVE  posted' \in Seq(Frames) /\ handed' \in 0..MaxFrames
<1>1. [id |-> handed + 1, kind |-> kind] \in Frames
  BY FrameAssumption DEF TypeOK, Post, Frames
<1> QED BY <1>1, FrameAssumption DEF TypeOK, Post

(* A round of the pump keeps the types, whatever frame it completes. *)
LEMMA RoundTyped ==
    ASSUME TypeOK, pump # "off", NEW f, PumpRound(f)
    PROVE  /\ queue' \in Seq(Frames) /\ gate' \in BOOLEAN
           /\ pumping' \in BOOLEAN /\ pump' \in {"off", "writing"} /\ pumping' = (pump' # "off")
           /\ item' \in Frames \cup {NoFrame} /\ (pump' = "writing") = (item' # NoFrame)
<1> USE DEF TypeOK
<1>1. CASE queue = <<>>
  BY <1>1 DEF PumpRound, Complete, Gated
<1>2. CASE queue # <<>>
  <2>1. Head(queue) \in Frames /\ Tail(queue) \in Seq(Frames)
    BY <1>2
  <2>2. CASE writesEnabled
    BY <1>2, <2>1, <2>2, NoFrameIsNone DEF PumpRound, Complete, Gated
  <2>3. CASE ~writesEnabled
    BY <1>2, <2>1, <2>3 DEF PumpRound, Complete, Gated
  <2> QED BY <2>2, <2>3
<1> QED BY <1>1, <1>2

LEMMA TypeInit == Init => TypeOK
<1> SUFFICES ASSUME Init PROVE TypeOK
  OBVIOUS
<1>1. posted \in Seq(Frames) /\ queue \in Seq(Frames) /\ wire \in Seq(Frames) /\ handed \in 0..MaxFrames
  BY FrameAssumption DEF Init
<1>2. /\ writesEnabled \in BOOLEAN /\ pumping \in BOOLEAN /\ gate \in BOOLEAN
      /\ pumping = (pump # "off") /\ (pump = "writing") = (item # NoFrame)
  BY DEF Init
<1> QED BY <1>1, <1>2 DEF Init, TypeOK

LEMMA TypeStep == TypeOK /\ [Next]_vars => TypeOK'
<1> SUFFICES ASSUME TypeOK, [Next]_vars PROVE TypeOK'
  OBVIOUS
<1>1. CASE UNCHANGED vars
  BY <1>1 DEF vars, TypeOK
<1>2. CASE SendNow
  BY <1>2, PostedTyped DEF SendNow, TypeOK, Kinds
<1>3. CASE Send
  BY <1>3, PostedTyped DEF Send, TypeOK, Kinds
<1>4. CASE Close
  <2>1. CASE writesEnabled
    BY <1>4, <2>1, PostedTyped DEF Close, TypeOK, Kinds
  <2>2. CASE ~writesEnabled
    BY <1>4, <2>2 DEF Close, TypeOK
  <2> QED BY <2>1, <2>2
<1>5. CASE OwnerStep
  BY <1>5 DEF OwnerStep, SendReturns, MarkClosed, Destroy, TypeOK
<1>6. CASE RunPosted
  <2>1. Head(posted) \in Frames /\ Tail(posted) \in Seq(Frames)
    BY <1>6 DEF RunPosted, TypeOK
  <2>2. CASE writesEnabled
    <3>1. posted' \in Seq(Frames) /\ queue' \in Seq(Frames)
      BY <1>6, <2>1, <2>2 DEF RunPosted, TypeOK
    <3>2. pumping' = TRUE /\ gate' = gate
      BY <1>6, <2>2 DEF RunPosted
    <3>3. pump' \in {"spawned", "writing"} /\ (pump' = "writing") = (item # NoFrame)
      <4>1. CASE pumping
        BY <1>6, <2>2, <4>1 DEF RunPosted, TypeOK
      <4>2. CASE ~pumping
        BY <1>6, <2>2, <4>2 DEF RunPosted, TypeOK
      <4> QED BY <4>1, <4>2
    <3>4. UNCHANGED <<writesEnabled, item, owner, handed, wire>>
      BY <1>6 DEF RunPosted
    <3> QED BY <3>1, <3>2, <3>3, <3>4 DEF TypeOK
  <2>3. CASE ~writesEnabled
    BY <1>6, <2>1, <2>3 DEF RunPosted, TypeOK, Complete, Gated
  <2> QED BY <2>2, <2>3
<1>7. CASE PumpStart
  BY <1>7, RoundTyped DEF PumpStart, TypeOK
<1>8. CASE WriteDone
  <2>1. wire' \in Seq(Frames)
    BY <1>8 DEF WriteDone, TypeOK
  <2> QED BY <1>8, <2>1, RoundTyped DEF WriteDone, TypeOK
<1>9. CASE WriteFailed
  BY <1>9 DEF WriteFailed, TypeOK, Complete, Gated
<1> QED
  BY <1>1, <1>2, <1>3, <1>4, <1>5, <1>6, <1>7, <1>8, <1>9 DEF Next, PumpStep

(* The state keeps its types; in particular one pump runs at most and pumping  *)
(* says whether it does: the flag that schedule() and write() look at before   *)
(* they start another one.                                                     *)
THEOREM TypeCorrect == Spec => []TypeOK
BY TypeInit, TypeStep, PTL DEF Spec
--------------------------------------------------------------------------------
(* The session is over only when writes are disabled: markClosed() precedes it, *)
(* or a failed write did it.                                                   *)
ClosedForWrites == owner \in {"closed", "gone"} => ~writesEnabled

LEMMA ClosedStep == ClosedForWrites /\ [Next]_vars => ClosedForWrites'
<1> SUFFICES ASSUME ClosedForWrites, [Next]_vars PROVE ClosedForWrites'
  OBVIOUS
<1> USE DEF ClosedForWrites
<1>1. CASE UNCHANGED vars \/ SendNow \/ Send \/ RunPosted \/ PumpStep
  BY <1>1 DEF vars, SendNow, Send, RunPosted, PumpStep, PumpStart, WriteDone, WriteFailed
<1>2. CASE Close \/ OwnerStep
  BY <1>2 DEF Close, OwnerStep, SendReturns, MarkClosed, Destroy
<1> QED BY <1>1, <1>2 DEF Next

(* Whatever was posted, queued or started before the session ended, nothing    *)
(* begins to use its socket afterwards: SocketNotUsedAfterDestroy.             *)
THEOREM NoUseAfterDestroy == Spec => SocketNotUsedAfterDestroy
<1>1. Init => ClosedForWrites
  BY DEF Init, ClosedForWrites
<1>2. ClosedForWrites /\ [Next]_vars => [owner = "gone" => pump' \in {pump, "off"}]_vars
  <2> SUFFICES ASSUME ClosedForWrites, Next, owner = "gone" PROVE pump' \in {pump, "off"}
    OBVIOUS
  <2>1. ~writesEnabled
    BY DEF ClosedForWrites
  <2>2. CASE SendNow \/ Send \/ Close \/ OwnerStep
    BY <2>2 DEF SendNow, Send, Close, OwnerStep, SendReturns, MarkClosed, Destroy
  <2>3. CASE RunPosted
    BY <2>1, <2>3 DEF RunPosted
  <2>4. CASE PumpStart
    BY <2>1, <2>4 DEF PumpStart, PumpRound
  <2>5. CASE WriteDone \/ WriteFailed
    BY <2>5 DEF WriteDone, WriteFailed
  <2> QED BY <2>2, <2>3, <2>4, <2>5 DEF Next, PumpStep
<1> QED BY <1>1, <1>2, ClosedStep, PTL DEF Spec, SocketNotUsedAfterDestroy
--------------------------------------------------------------------------------
LEMMA PumpRunsStep == TypeOK /\ PumpRuns /\ [Next]_vars => PumpRuns'
<1> SUFFICES ASSUME TypeOK, PumpRuns, [Next]_vars PROVE PumpRuns'
  OBVIOUS
<1> USE DEF PumpRuns
<1>1. CASE UNCHANGED vars \/ SendNow \/ Send \/ Close \/ OwnerStep
  BY <1>1 DEF vars, SendNow, Send, Close, OwnerStep, SendReturns, MarkClosed, Destroy
<1>2. CASE RunPosted
  BY <1>2 DEF RunPosted, TypeOK
<1>3. CASE PumpStart \/ WriteDone
  <2>1. PICK f : PumpRound(f)
    BY <1>3 DEF PumpStart, WriteDone
  <2>2. writesEnabled' = writesEnabled
    BY <1>3 DEF PumpStart, WriteDone
  <2> QED BY <2>1, <2>2 DEF PumpRound
<1>4. CASE WriteFailed
  BY <1>4 DEF WriteFailed
<1> QED BY <1>1, <1>2, <1>3, <1>4 DEF Next, PumpStep

(* A queued frame never waits for a pump that is not there: PumpRuns.          *)
THEOREM QueuedFramesPumped == Spec => []PumpRuns
<1>1. Init => PumpRuns
  BY DEF Init, PumpRuns
<1> QED BY <1>1, TypeCorrect, PumpRunsStep, PTL DEF Spec
--------------------------------------------------------------------------------
(* The frames of s are the first ones handed over, in that order. *)
InOrder(s) == \A i \in 1..Len(s) : s[i].id = i

LEMMA AppendInOrder ==
    ASSUME NEW s \in Seq(Frames), NEW f \in Frames, InOrder(s), f.id = Len(s) + 1
    PROVE  InOrder(Append(s, f))
BY DEF InOrder

(* Handing the head of t over to s moves nothing. *)
LEMMA HeadMoves ==
    ASSUME NEW s \in Seq(Frames), NEW t \in Seq(Frames), t # <<>>
    PROVE  Append(s, Head(t)) \o Tail(t) = s \o t
<1>1. /\ Head(t) \in Frames /\ Tail(t) \in Seq(Frames) /\ Len(t) \in Nat \ {0}
      /\ Len(Tail(t)) = Len(t) - 1
      /\ \A i \in 1..Len(Tail(t)) : Tail(t)[i] = t[i + 1]
  OBVIOUS
<1>2. Len(Append(s, Head(t)) \o Tail(t)) = Len(s \o t)
  BY <1>1
<1>3. \A i \in 1..Len(s \o t) : (Append(s, Head(t)) \o Tail(t))[i] = (s \o t)[i]
  BY <1>1
<1>4. Append(s, Head(t)) \o Tail(t) \in Seq(Frames) /\ s \o t \in Seq(Frames)
  BY <1>1
<1> QED BY <1>2, <1>3, <1>4

(* Concatenation is associative. *)
LEMMA ConcatAssoc ==
    ASSUME NEW r \in Seq(Frames), NEW s \in Seq(Frames), NEW t \in Seq(Frames)
    PROVE  (r \o s) \o t = r \o (s \o t)
OBVIOUS

LEMMA AppendToConcat ==
    ASSUME NEW s \in Seq(Frames), NEW t \in Seq(Frames), NEW f \in Frames
    PROVE  s \o Append(t, f) = Append(s \o t, f)
OBVIOUS

(* The first part of an ordered sequence is ordered. *)
LEMMA PrefixInOrder ==
    ASSUME NEW s \in Seq(Frames), NEW t \in Seq(Frames), InOrder(s \o t)
    PROVE  InOrder(s)
<1>1. Len(s) \in Nat /\ Len(t) \in Nat /\ Len(s \o t) = Len(s) + Len(t)
  OBVIOUS
<1>2. \A i \in 1..Len(s) : i \in 1..Len(s \o t) /\ (s \o t)[i] = s[i]
  BY <1>1
<1> QED BY <1>2 DEF InOrder

(* The inductive invariant of the order.  What the pump holds is in order even  *)
(* when writes are disabled, for the write it is in may still succeed.          *)
FramesInOrder == InOrder(Written) /\ NothingLost

LEMMA WaysTyped ==
    ASSUME TypeOK
    PROVE  /\ Written \in Seq(Frames) /\ Written \o queue \in Seq(Frames)
           /\ OnItsWay \in Seq(Frames)
<1>1. Written \in Seq(Frames)
  BY DEF TypeOK, Written
<1> QED BY <1>1 DEF TypeOK, OnItsWay

(* A frame that is posted is the last one. *)
LEMMA PostInOrder ==
    ASSUME TypeOK, FramesInOrder, writesEnabled, NEW kind \in Kinds, Post(kind),
           UNCHANGED <<writesEnabled, queue, item, wire>>
    PROVE  FramesInOrder'
<1> DEFINE new == [id |-> handed + 1, kind |-> kind]
<1>1. new \in Frames /\ new.id = handed + 1 /\ posted' = Append(posted, new) /\ handed' = handed + 1
  BY FrameAssumption DEF TypeOK, Post, Frames
<1>2. Written' = Written /\ queue' = queue
  BY DEF Written
<1>3. OnItsWay' = Append(OnItsWay, new)
  BY <1>1, <1>2, WaysTyped, AppendToConcat DEF OnItsWay, TypeOK
<1>4. Len(OnItsWay) = handed /\ InOrder(OnItsWay) /\ handed \in Nat
  BY DEF FramesInOrder, NothingLost, InOrder, TypeOK
<1> HIDE DEF new
<1>5. InOrder(Append(OnItsWay, new))
  BY <1>1, <1>4, WaysTyped, AppendInOrder
<1>6. Len(Append(OnItsWay, new)) = handed + 1
  BY <1>1, <1>4, WaysTyped
<1>7. NothingLost'
  BY <1>1, <1>3, <1>5, <1>6 DEF NothingLost, InOrder
<1> QED BY <1>2, <1>7 DEF FramesInOrder, InOrder

(* A round of the pump moves a frame from the queue to the write, or nothing. *)
LEMMA RoundInOrder ==
    ASSUME TypeOK, pump # "off", FramesInOrder, NEW f, PumpRound(f),
           wire' = Written, UNCHANGED <<writesEnabled, posted, handed>>
    PROVE  FramesInOrder'
<1>1. Written \in Seq(Frames) /\ queue \in Seq(Frames) /\ posted \in Seq(Frames)
  BY WaysTyped DEF TypeOK
<1>2. CASE queue # <<>> /\ writesEnabled
  <2>1. Head(queue) \in Frames /\ Head(queue) # NoFrame
    BY <1>1, <1>2, NoFrameIsNone
  <2>2. Written' = Append(Written, Head(queue)) /\ queue' = Tail(queue)
    BY <1>2, <2>1 DEF PumpRound, Written
  <2>3. OnItsWay' = OnItsWay
    BY <1>1, <1>2, <2>2, HeadMoves DEF OnItsWay
  <2>4. NothingLost'
    BY <2>3 DEF FramesInOrder, NothingLost
  <2>5. InOrder(OnItsWay')
    BY <1>2, <2>3 DEF FramesInOrder, NothingLost, InOrder
  <2>6. Written' \in Seq(Frames) /\ queue' \in Seq(Frames) /\ posted' \in Seq(Frames)
    BY <1>1, <1>2, <2>1, <2>2
  <2>7. OnItsWay' = Written' \o (queue' \o posted') /\ queue' \o posted' \in Seq(Frames)
    BY <2>6, ConcatAssoc DEF OnItsWay
  <2>8. InOrder(Written')
    BY <2>5, <2>6, <2>7, PrefixInOrder
  <2> QED BY <2>4, <2>8 DEF FramesInOrder, InOrder
<1>3. CASE queue = <<>>
  <2>1. Written' = Written /\ queue' = queue
    BY <1>3 DEF PumpRound, Written
  <2> QED BY <2>1 DEF FramesInOrder, NothingLost, OnItsWay, InOrder
<1>4. CASE ~writesEnabled /\ queue # <<>>
  <2>1. Written' = Written
    BY <1>4 DEF PumpRound, Written
  <2> QED BY <1>4, <2>1 DEF FramesInOrder, NothingLost, InOrder
<1> QED BY <1>2, <1>3, <1>4

LEMMA OrderStep == TypeOK /\ FramesInOrder /\ [Next]_vars => FramesInOrder'
<1> SUFFICES ASSUME TypeOK, FramesInOrder, [Next]_vars PROVE FramesInOrder'
  OBVIOUS
<1>1. CASE UNCHANGED vars \/ OwnerStep \/ (Close /\ ~writesEnabled)
  <2>1. UNCHANGED <<posted, queue, item, wire, handed>>
    BY <1>1 DEF vars, OwnerStep, SendReturns, MarkClosed, Destroy, Close
  <2>2. writesEnabled' => writesEnabled
    BY <1>1 DEF vars, OwnerStep, SendReturns, MarkClosed, Destroy, Close
  <2>3. Written' = Written /\ OnItsWay' = OnItsWay
    BY <2>1 DEF Written, OnItsWay
  <2> QED BY <2>1, <2>2, <2>3 DEF FramesInOrder, NothingLost, InOrder
<1>2. CASE SendNow \/ Send \/ (Close /\ writesEnabled)
  <2>1. writesEnabled /\ UNCHANGED <<writesEnabled, queue, item, wire>>
    BY <1>2 DEF SendNow, Send, Close
  <2>2. PICK kind \in Kinds : Post(kind)
    BY <1>2 DEF SendNow, Send, Close, Kinds
  <2> QED BY <2>1, <2>2, PostInOrder
<1>3. CASE RunPosted
  <2>1. Written' = Written /\ handed' = handed /\ writesEnabled' = writesEnabled
    BY <1>3 DEF RunPosted, Written
  <2>2. CASE writesEnabled
    <3>1. posted # <<>> /\ posted' = Tail(posted) /\ queue' = Append(queue, Head(posted))
      BY <1>3, <2>2 DEF RunPosted
    <3>2. Head(posted) \in Frames
      BY <3>1 DEF TypeOK
    <3>3. Written \o queue' = Append(Written \o queue, Head(posted))
      BY <3>1, <3>2, WaysTyped, AppendToConcat DEF TypeOK
    <3>4. Append(Written \o queue, Head(posted)) \o Tail(posted) = (Written \o queue) \o posted
      BY <3>1, WaysTyped, HeadMoves DEF TypeOK
    <3>5. OnItsWay' = Append(Written \o queue, Head(posted)) \o Tail(posted)
      BY <2>1, <3>1, <3>3 DEF OnItsWay
    <3>6. OnItsWay' = OnItsWay
      BY <3>4, <3>5 DEF OnItsWay
    <3> QED BY <2>1, <3>6 DEF FramesInOrder, NothingLost, InOrder
  <2>3. CASE ~writesEnabled
    BY <2>1, <2>3 DEF FramesInOrder, NothingLost, InOrder
  <2> QED BY <2>2, <2>3
<1>4. CASE PumpStart
  <2>1. wire' = Written /\ pump # "off"
    BY <1>4 DEF PumpStart, Written, TypeOK
  <2> QED BY <1>4, <2>1, RoundInOrder DEF PumpStart
<1>5. CASE WriteDone
  <2>1. wire' = Written /\ pump # "off"
    BY <1>5 DEF WriteDone, Written, TypeOK
  <2> QED BY <1>5, <2>1, RoundInOrder DEF WriteDone
<1>6. CASE WriteFailed
  <2>1. item \in Frames /\ wire \in Seq(Frames) /\ Written = Append(wire, item)
    BY <1>6 DEF WriteFailed, TypeOK, Written
  <2>2. InOrder(wire)
    BY <2>1 DEF FramesInOrder, InOrder
  <2>3. Written' = wire /\ ~writesEnabled'
    BY <1>6 DEF WriteFailed, Written
  <2> QED BY <2>2, <2>3 DEF FramesInOrder, NothingLost, InOrder
<1> QED BY <1>1, <1>2, <1>3, <1>4, <1>5, <1>6 DEF Next, PumpStep

(* Types and order of the frames hold in every behaviour of the chain.         *)
THEOREM OrderInvariant == Spec => [](TypeOK /\ FramesInOrder)
<1>1. Init => FramesInOrder
  BY FrameAssumption DEF Init, FramesInOrder, NothingLost, InOrder, Written, OnItsWay
<1> QED BY <1>1, TypeInit, TypeStep, OrderStep, PTL DEF Spec

(* Frames reach the socket in the order in which they were handed over, for any *)
(* mix of send, sendNow and close on any threads: WireInOrder.                 *)
THEOREM WrittenInOrder == Spec => []WireInOrder
<1>1. TypeOK /\ FramesInOrder => WireInOrder
  <2> SUFFICES ASSUME TypeOK, FramesInOrder PROVE WireInOrder
    OBVIOUS
  <2>1. CASE item = NoFrame
    BY <2>1 DEF FramesInOrder, InOrder, Written, WireInOrder
  <2>2. CASE item # NoFrame
    <3>1. item \in Frames /\ wire \in Seq(Frames) /\ Written = Append(wire, item)
      BY <2>2 DEF TypeOK, Written
    <3> QED BY <3>1 DEF FramesInOrder, InOrder, WireInOrder
  <2> QED BY <2>1, <2>2
<1> QED BY <1>1, OrderInvariant, PTL

(* No frame is lost between posting, queue and pump while writes are enabled:  *)
(* NothingLost.                                                                *)
THEOREM FramesKept == Spec => []NothingLost
<1>1. FramesInOrder => NothingLost
  BY DEF FramesInOrder
<1> QED BY <1>1, OrderInvariant, PTL
--------------------------------------------------------------------------------
(* The session.                                                                *)

(* Every step of a session is a step of the chain or leaves it alone.          *)
LEMMA SessionStep == [SessionNext]_allvars => [Next]_vars
<1> SUFFICES ASSUME [SessionNext]_allvars PROVE [Next]_vars
  OBVIOUS
<1>1. CASE ChainStep
  BY <1>1 DEF ChainStep, Next, OwnerStep, PumpStep
<1>2. CASE CoroutineStep
  <2>1. CASE EndClose
    BY <2>1 DEF EndClose, Next
  <2>2. CASE EndDestroy
    BY <2>2 DEF EndDestroy, Next, OwnerStep
  <2>3. CASE Begin \/ Deliver \/ DeliverClose \/ Caught \/ CallOnClose
    BY <2>3 DEF Begin, Deliver, DeliverClose, Caught, CallOnClose
  <2> QED
    BY <1>2, <2>1, <2>2, <2>3 DEF CoroutineStep
<1>3. CASE ReadStep
  <2> PICK f \in ClientFrames : ReadBad(f) \/ ReadClose(f) \/ ReadPing(f) \/ ReadData(f)
    BY <1>3 DEF ReadStep
  <2>1. CASE ReadBad(f) \/ ReadClose(f)
    BY <2>1 DEF ReadBad, ReadClose, CloseWith, Next
  <2>2. CASE ReadPing(f)
    BY <2>2 DEF ReadPing, Next
  <2>3. CASE ReadData(f)
    BY <2>3 DEF ReadData
  <2> QED
    BY <2>1, <2>2, <2>3
<1>4. CASE ReadFails \/ Recv \/ RawReturn
  BY <1>4 DEF ReadFails, Recv, RawReturn
<1>5. CASE RawSend \/ RawClose
  BY <1>5 DEF RawSend, RawClose, Next
<1>6. CASE UNCHANGED allvars
  BY <1>6 DEF allvars
<1> QED
  BY <1>1, <1>2, <1>3, <1>4, <1>5, <1>6 DEF SessionNext

(* A WebSocket session uses its chain as the chain is specified: handleUpgrade *)
(* and readMessage start a Close, a Pong or the destruction of the connection  *)
(* only where the chain allows it.                                             *)
THEOREM SessionImplementsChain == SessionSpec => ChainRespected
<1>1. SessionInit => Init
  BY DEF SessionInit
<1> QED
  BY <1>1, SessionStep, PTL DEF SessionSpec, ChainRespected, Spec

(* In every session the frames reach the socket in the order in which the      *)
(* threads and the session handed them over, and without a gap.                *)
THEOREM SessionWritesInOrder == SessionSpec => []WireInOrder
  BY SessionImplementsChain, WrittenInOrder, PTL DEF ChainRespected

(* In every session no frame is lost while writes are enabled.                 *)
THEOREM SessionKeepsFrames == SessionSpec => []NothingLost
  BY SessionImplementsChain, FramesKept, PTL DEF ChainRespected
--------------------------------------------------------------------------------
(* The places of the session's coroutine.                                      *)
Places == {"opening", "app", "reading", "message", "closeMessage", "caught", "leaving", "ended"}

(* What the callbacks have seen, by the place of the coroutine: nothing before *)
(* onOpen and nothing on a raw route; onClose only once the session ended.     *)
CallbacksSoFar ==
    /\ route \in {"raw", "callback"} /\ at \in Places
    /\ log \in Seq({"onOpen", "onMessage", "onClose"})
    /\ owner = "gone" => at = "ended"
    /\ route = "raw" => log = <<>> /\ at \notin {"caught", "leaving"}
    /\ route = "callback" /\ at = "opening" => log = <<>>
    /\ route = "callback" /\ at # "opening" =>
          /\ 1 <= Len(log) /\ (at = "ended" => 2 <= Len(log))
          /\ \A i \in 1..Len(log) :
                log[i] = IF i = 1 THEN "onOpen"
                         ELSE IF at = "ended" /\ i = Len(log) THEN "onClose" ELSE "onMessage"

(* What the chain does changes nothing of this.                                *)
LEMMA CallbacksUntouched ==
    ASSUME CallbacksSoFar, UNCHANGED <<route, at, log>>, owner' = "gone" => owner = "gone" \/ at = "ended"
    PROVE  CallbacksSoFar'
BY DEF CallbacksSoFar

LEMMA ChainLeavesOwner ==
    /\ ChainStep => (owner' = "gone" => owner = "gone") /\ UNCHANGED svars
    /\ Close \/ Send => owner' # "gone"
BY DEF ChainStep, SendNow, SendReturns, MarkClosed, RunPosted, PumpStep, PumpStart, WriteDone, WriteFailed,
       Close, Send, svars

LEMMA CallbacksStep == ASSUME CallbacksSoFar, [SessionNext]_allvars PROVE CallbacksSoFar'
<1> DEFINE Calls == {"onOpen", "onMessage", "onClose"}
<1>1. CASE ChainStep \/ UNCHANGED allvars
  <2>1. UNCHANGED <<route, at, log>> /\ (owner' = "gone" => owner = "gone")
    BY <1>1, ChainLeavesOwner DEF allvars, vars, svars
  <2> QED BY <2>1, CallbacksUntouched
<1>2. CASE Begin
  <2>1. at = "opening" /\ log = <<>> /\ UNCHANGED <<route, owner>> /\ owner # "gone"
    BY <1>2 DEF Begin, CallbacksSoFar, vars
  <2>2. CASE route = "raw"
    <3>1. log' = <<>> /\ at' \in {"app", "ended"}
      BY <1>2, <2>1, <2>2 DEF Begin, Thrown
    <3> QED BY <2>1, <2>2, <3>1 DEF CallbacksSoFar, Places
  <2>3. CASE route = "callback"
    <3>1. at' \in {"app", "caught"}
      BY <1>2, <2>3 DEF Begin, Thrown
    <3>2. log' = <<"onOpen">>
      BY <1>2, <2>1, <2>3 DEF Begin
    <3>3. log' \in Seq(Calls) /\ Len(log') = 1 /\ log'[1] = "onOpen"
      BY <3>2
    <3>4. \A i \in 1..1 : i = 1
      OBVIOUS
    <3> QED BY <2>1, <2>3, <3>1, <3>3, <3>4 DEF CallbacksSoFar, Places
  <2> QED BY <2>2, <2>3 DEF CallbacksSoFar
<1>3. CASE Deliver
  <2>1. at = "message" /\ UNCHANGED <<route, owner>> /\ owner # "gone"
    BY <1>3 DEF Deliver, CallbacksSoFar, vars
  <2>2. CASE route = "raw"
    BY <1>3, <2>1, <2>2 DEF Deliver, CallbacksSoFar, Places
  <2>3. CASE route = "callback"
    <3>1. at' \in {"app", "caught"} /\ log' = Append(log, "onMessage")
      BY <1>3, <2>3 DEF Deliver, Thrown
    <3>2. /\ log \in Seq(Calls) /\ 1 <= Len(log) /\ Len(log) \in Nat
          /\ \A i \in 1..Len(log) : log[i] = IF i = 1 THEN "onOpen" ELSE "onMessage"
      BY <2>1, <2>3 DEF CallbacksSoFar
    <3>3. /\ log' \in Seq(Calls) /\ Len(log') = Len(log) + 1 /\ log'[Len(log) + 1] = "onMessage"
          /\ \A i \in 1..Len(log) : log'[i] = log[i]
      BY <3>1, <3>2, AppendProperties
    <3>4. \A i \in 1..Len(log) + 1 : i \in 1..Len(log) \/ (i = Len(log) + 1 /\ i # 1)
      BY <3>2
    <3>5. \A i \in 1..Len(log') : log'[i] = IF i = 1 THEN "onOpen" ELSE "onMessage"
      BY <3>2, <3>3, <3>4
    <3>6. 1 <= Len(log')
      BY <3>2, <3>3
    <3> QED BY <2>1, <2>3, <3>1, <3>3, <3>5, <3>6 DEF CallbacksSoFar, Places
  <2> QED BY <2>2, <2>3 DEF CallbacksSoFar
<1>4. CASE CallOnClose
  <2>1. at = "leaving" /\ at' = "ended" /\ log' = Append(log, "onClose") /\ UNCHANGED <<route, owner>>
    BY <1>4 DEF CallOnClose, vars
  <2>2. route = "callback"
    BY <2>1 DEF CallbacksSoFar
  <2>3. /\ log \in Seq(Calls) /\ 1 <= Len(log) /\ Len(log) \in Nat
        /\ \A i \in 1..Len(log) : log[i] = IF i = 1 THEN "onOpen" ELSE "onMessage"
    BY <2>1, <2>2 DEF CallbacksSoFar
  <2>4. /\ log' \in Seq(Calls) /\ Len(log') = Len(log) + 1 /\ log'[Len(log) + 1] = "onClose"
        /\ \A i \in 1..Len(log) : log'[i] = log[i]
    BY <2>1, <2>3, AppendProperties
  <2>5. \A i \in 1..Len(log) + 1 : (i \in 1..Len(log) /\ i # Len(log) + 1) \/ (i = Len(log) + 1 /\ i # 1)
    BY <2>3
  <2>6. \A i \in 1..Len(log') : log'[i] = IF i = 1 THEN "onOpen" ELSE IF i = Len(log') THEN "onClose" ELSE "onMessage"
    BY <2>3, <2>4, <2>5
  <2>7. 1 <= Len(log') /\ 2 <= Len(log')
    BY <2>3, <2>4
  <2> QED BY <2>1, <2>2, <2>4, <2>6, <2>7 DEF CallbacksSoFar, Places
<1>5. CASE EndClose \/ EndDestroy
  <2>1. at = "ended" /\ UNCHANGED <<route, at, log>>
    BY <1>5 DEF EndClose, EndDestroy, svars
  <2> QED BY <2>1, CallbacksUntouched
<1>6. CASE ReadStep \/ RawSend \/ RawClose
  <2>1. UNCHANGED <<route, log>> /\ at \in {"reading", "app"} /\ at' \in {at, "closeMessage", "message"} /\ (owner' = "gone" => owner = "gone")
    BY <1>6, ChainLeavesOwner DEF ReadStep, RawSend, RawClose, svars, ReadBad, ReadClose, ReadPing, ReadData, Reading, CloseWith, vars
  <2> QED BY <2>1 DEF CallbacksSoFar, Places
<1>7. CASE Recv \/ ReadFails \/ RawReturn \/ DeliverClose \/ Caught
  <2>1. /\ UNCHANGED <<route, log, owner>>
        /\ at \notin {"opening", "ended"}
        /\ route = "callback" => at' \in Places \ {"opening", "ended"}
        /\ route = "raw" => at' \in Places \ {"caught", "leaving"}
    BY <1>7 DEF CallbacksSoFar, Recv, ReadFails, RawReturn, DeliverClose, Caught, Thrown, vars, Places
  <2> QED BY <2>1 DEF CallbacksSoFar
<1> QED
  BY <1>1, <1>2, <1>3, <1>4, <1>5, <1>6, <1>7 DEF SessionNext, CoroutineStep

LEMMA CallbacksInitially == SessionInit => CallbacksSoFar
BY DEF SessionInit, Init, CallbacksSoFar, Places

(* A callback route sees onOpen first and onClose last, each once, and         *)
(* onMessage only between them, in every session, whatever throws.             *)
THEOREM CallbacksInOrder == SessionSpec => []CallbackOrder
<1>1. CallbacksSoFar => CallbackOrder
  <2> SUFFICES ASSUME CallbacksSoFar PROVE CallbackOrder
    OBVIOUS
  <2>1. DOMAIN log = 1..Len(log) /\ Len(log) \in Nat
    BY DEF CallbacksSoFar
  <2>2. CASE log = <<>>
    <3>1. ~(owner = "gone" /\ route = "callback")
      BY <2>2 DEF CallbacksSoFar
    <3> QED BY <2>1, <2>2, <3>1 DEF CallbackOrder
  <2>3. CASE log # <<>>
    <3>1. route = "callback" /\ at # "opening"
      BY <2>3 DEF CallbacksSoFar
    <3>2. \A i \in 1..Len(log) : log[i] = IF i = 1 THEN "onOpen" ELSE IF at = "ended" /\ i = Len(log) THEN "onClose" ELSE "onMessage"
      BY <3>1 DEF CallbacksSoFar
    <3>3. owner = "gone" => log[Len(log)] = "onClose"
      <4> DEFINE l == Len(log)
      <4>0. at = "ended" => 2 <= l
        BY <3>1 DEF CallbacksSoFar
      <4>1. at = "ended" => l \in 1..l /\ l # 1
        <5> HIDE DEF l
        <5>1. l \in Nat
          BY <2>1 DEF l
        <5> QED BY <4>0, <5>1
      <4>2. owner = "gone" => at = "ended"
        BY DEF CallbacksSoFar
      <4> QED BY <3>2, <4>1, <4>2
    <3>4. (\A i \in 1..Len(log) : (log[i] = "onOpen") = (i = 1)) /\ (\A i \in 1..Len(log) : log[i] = "onClose" => i = Len(log))
      BY <3>2
    <3> QED BY <2>1, <2>3, <3>3, <3>4 DEF CallbackOrder, Last
  <2> QED BY <2>2, <2>3
<1>2. CallbacksSoFar /\ [SessionNext]_allvars => CallbacksSoFar'
  BY CallbacksStep
<1> QED
  BY <1>1, <1>2, CallbacksInitially, PTL DEF SessionSpec
--------------------------------------------------------------------------------
(* s holds the sums of the sizes of the first parts, up to n of them.          *)
Sums(frames, parts, n, s) ==
    s = [k \in 0..n |-> IF k = 0 THEN 0 ELSE s[k - 1] + frames[parts[k]].size]

(* There are such sums, for any number of parts.                               *)
LEMMA SumsExist ==
    ASSUME NEW frames, NEW parts, NEW n \in Nat
    PROVE  \E s : Sums(frames, parts, n, s)
<1> DEFINE Bad == {k \in Nat : ~\E s : Sums(frames, parts, k, s)}
<1> SUFFICES ASSUME Bad # {} PROVE FALSE
  OBVIOUS
<1>1. PICK m \in Bad : \A k \in Bad : m <= k
  <2>1. Bad \in SUBSET Nat
    OBVIOUS
  <2> HIDE DEF Bad
  <2> QED BY <2>1, LeastNumber
<1>2. m \in Nat /\ ~\E s : Sums(frames, parts, m, s)
  OBVIOUS
<1>3. m # 0
  <2>1. SUFFICES ASSUME m = 0 PROVE FALSE
    OBVIOUS
  <2> DEFINE s == [k \in 0..0 |-> 0]
  <2>2. Sums(frames, parts, 0, s)
    BY DEF Sums
  <2> QED BY <1>2, <2>1, <2>2
<1>4. m - 1 \in Nat /\ m - 1 \notin Bad
  <2>1. m - 1 \in Nat /\ ~(m <= m - 1)
    BY <1>2, <1>3
  <2> HIDE DEF Bad
  <2> QED BY <1>1, <2>1
<1>5. PICK s : Sums(frames, parts, m - 1, s)
  BY <1>4
<1> DEFINE t == [k \in 0..m |-> IF k = m THEN s[m - 1] + frames[parts[m]].size ELSE s[k]]
<1>6. \A k \in 0..m : t[k] = IF k = 0 THEN 0 ELSE t[k - 1] + frames[parts[k]].size
  <2> TAKE k \in 0..m
  <2> HIDE DEF Bad
  <2>1. m \in Nat /\ m # 0 /\ k \in Nat /\ k <= m
    BY <1>2, <1>3
  <2>2. CASE k = m
    <3>1. m - 1 \in 0..m /\ m - 1 # m
      BY <2>1
    <3> QED BY <2>1, <2>2, <3>1
  <2>3. CASE k # m
    <3>1. k \in 0..m - 1 /\ (k # 0 => k - 1 \in 0..m /\ k - 1 # m)
      BY <2>1, <2>3
    <3>2. s[k] = IF k = 0 THEN 0 ELSE s[k - 1] + frames[parts[k]].size
      BY <1>5, <3>1 DEF Sums
    <3> QED BY <2>1, <2>3, <3>1, <3>2
  <2> QED BY <2>2, <2>3
<1>7. Sums(frames, parts, m, t)
  <2> HIDE DEF Bad
  <2>1. DOMAIN t = 0..m /\ t = [k \in 0..m |-> t[k]]
    OBVIOUS
  <2> HIDE DEF t
  <2> QED BY <1>6, <2>1 DEF Sums
<1> QED BY <1>2, <1>7

(* The first m parts are of frames of the same sizes.                          *)
SameSizes(f, p, g, q, m) == \A i \in 1..m : f[p[i]].size = g[q[i]].size

(* Sums over frames of the same sizes are the same.                            *)
LEMMA SumsAgree ==
    ASSUME NEW f, NEW g, NEW p, NEW q, NEW s, NEW t, NEW m \in Nat, NEW k \in Nat,
           Sums(f, p, m, s), Sums(g, q, k, t), m <= k, SameSizes(f, p, g, q, m)
    PROVE  s[m] = t[m]
<1> DEFINE Bad == {j \in 0..m : s[j] # t[j]}
<1> SUFFICES ASSUME Bad # {} PROVE FALSE
  <2>1. m \in 0..m
    OBVIOUS
  <2> QED BY <2>1
<1>1. PICK j \in Bad : \A i \in Bad : j <= i
  <2>1. Bad \in SUBSET Nat
    OBVIOUS
  <2> HIDE DEF Bad
  <2> QED BY <2>1, LeastNumber
<1>2. j \in 0..m /\ j \in 0..k /\ s[j] # t[j]
  OBVIOUS
<1>3. s[j] = (IF j = 0 THEN 0 ELSE s[j - 1] + f[p[j]].size) /\ t[j] = (IF j = 0 THEN 0 ELSE t[j - 1] + g[q[j]].size)
  <2> HIDE DEF Bad
  <2> QED BY <1>2 DEF Sums
<1>4. j # 0
  BY <1>2, <1>3
<1>5. j - 1 \in 0..m /\ ~(j <= j - 1) /\ j \in 1..m
  BY <1>2, <1>4
<1>6. s[j - 1] = t[j - 1]
  BY <1>1, <1>5
<1> QED
  <2> HIDE DEF Bad
  <2> QED BY <1>2, <1>3, <1>4, <1>5, <1>6 DEF SameSizes

(* SizeOf is the last of the sums.                                             *)
LEMMA SizeIsSum ==
    ASSUME NEW frames, NEW parts, Len(parts) \in Nat
    PROVE  \E s : Sums(frames, parts, Len(parts), s) /\ SizeOf(frames, parts) = s[Len(parts)]
<1> DEFINE s == CHOOSE s : Sums(frames, parts, Len(parts), s)
<1>1. Sums(frames, parts, Len(parts), s)
  BY SumsExist
<1>2. SizeOf(frames, parts) = s[Len(parts)]
  BY Zenon DEF SizeOf, Sums
<1> QED BY <1>1, <1>2

(* The frames read later add nothing to the size of a message.                 *)
LEMMA SizeKept ==
    ASSUME NEW f, NEW g, NEW parts, Len(parts) \in Nat,
           SameSizes(f, parts, g, parts, Len(parts))
    PROVE  SizeOf(f, parts) = SizeOf(g, parts)
<1> DEFINE n == Len(parts)
<1>1. PICK s : Sums(f, parts, n, s) /\ SizeOf(f, parts) = s[n]
  BY SizeIsSum
<1>2. PICK t : Sums(g, parts, n, t) /\ SizeOf(g, parts) = t[n]
  BY SizeIsSum
<1>3. n \in Nat /\ n <= n /\ SameSizes(f, parts, g, parts, n)
  OBVIOUS
<1> HIDE DEF n
<1>4. s[n] = t[n]
  BY <1>1, <1>2, <1>3, SumsAgree
<1> QED BY <1>1, <1>2, <1>4

(* One more frame adds its size.                                               *)
LEMMA SizeOfAppend ==
    ASSUME NEW frames, NEW parts \in Seq(Nat), NEW x \in Nat
    PROVE  SizeOf(frames, Append(parts, x)) = SizeOf(frames, parts) + frames[x].size
<1> DEFINE longer == Append(parts, x)
           n == Len(parts)
           k == n + 1
<1>1. /\ n \in Nat /\ k \in Nat /\ n <= k /\ Len(parts) = n /\ Len(longer) = k
  BY AppendProperties, LenProperties
<1>2. longer[k] = x /\ \A i \in 1..n : parts[i] = longer[i]
  BY AppendProperties, LenProperties
<1>3. k # 0 /\ k \in 0..k /\ k - 1 = n
  BY <1>1
<1> HIDE DEF longer, k, n
<1>4. PICK s : Sums(frames, parts, n, s) /\ SizeOf(frames, parts) = s[n]
  BY <1>1, SizeIsSum
<1>5. PICK t : Sums(frames, longer, k, t) /\ SizeOf(frames, longer) = t[k]
  BY <1>1, SizeIsSum
<1>6. SameSizes(frames, parts, frames, longer, n)
  BY <1>2 DEF SameSizes
<1>7. s[n] = t[n]
  BY <1>1, <1>4, <1>5, <1>6, SumsAgree
<1>8. t[k] = t[n] + frames[x].size
  BY <1>2, <1>3, <1>5 DEF Sums
<1>9. SizeOf(frames, longer) = SizeOf(frames, parts) + frames[x].size
  BY <1>4, <1>5, <1>7, <1>8
<1> QED BY Zenon, <1>9 DEF longer

(* The size of a message of one frame.                                         *)
LEMMA SizeOfOne ==
    ASSUME NEW frames, NEW x \in Nat, frames[x].size \in Nat
    PROVE  SizeOf(frames, <<x>>) = frames[x].size
<1> DEFINE one == <<x>>
<1>1. Len(one) = 1 /\ one[1] = x
  OBVIOUS
<1> HIDE DEF one
<1>2. PICK s : Sums(frames, one, 1, s) /\ SizeOf(frames, one) = s[1]
  <2>1. Len(one) \in Nat
    BY <1>1
  <2> QED BY <1>1, <2>1, SizeIsSum
<1>3. s[0] = 0 /\ s[1] = s[0] + frames[x].size
  <2>1. 0 \in 0..1 /\ 1 \in 0..1 /\ 1 - 1 = 0 /\ 1 # 0
    OBVIOUS
  <2>2. s[0] = 0 /\ s[1] = s[1 - 1] + frames[one[1]].size
    BY <1>2, <2>1 DEF Sums
  <2> QED BY <1>1, <2>1, <2>2
<1>4. SizeOf(frames, one) = frames[x].size
  BY <1>2, <1>3
<1> QED BY Zenon, <1>4 DEF one
--------------------------------------------------------------------------------
(* Consecutive frames that begin a message and continue it, none but the last  *)
(* with fin, within the limits.                                                *)
Run(frames, p) ==
    /\ p \in Seq(Nat) /\ p # <<>>
    /\ \A i \in 1..Len(p) : p[i] = p[1] + i - 1 /\ p[i] \in 1..Len(frames)
    /\ \A i \in 1..Len(p) : frames[p[i]].op = "cont" <=> i > 1
    /\ \A i \in 1..Len(p) : i < Len(p) => ~frames[p[i]].fin
    /\ SizeOf(frames, p) \in Nat
    /\ SizeOf(frames, p) <= MaxMessageBytes \/ (Len(p) = 1 /\ SizeOf(frames, p) <= MaxFrameBytes)

(* ... with fin at the end, and told as what its first frame says it is.       *)
Whole(frames, m) ==
    /\ Run(frames, m.parts)
    /\ frames[m.parts[Len(m.parts)]].fin
    /\ m.text <=> frames[m.parts[1]].op = "text"

(* What readMessage has collected, and what the handler got.                   *)
FramesCollected ==
    /\ stream \in Seq(ClientFrames) /\ started \in BOOLEAN /\ acc \in Seq(Nat)
    /\ messages \in Seq([text : BOOLEAN, parts : Seq(Nat)])
    /\ at = "reading" /\ ~started => acc = <<>>
    /\ at = "message" => started
    /\ at \in {"reading", "message"} /\ started =>
          /\ Run(stream, acc) /\ acc[Len(acc)] = Len(stream)
          /\ opcode = "text" <=> stream[acc[1]].op = "text"
          /\ stream[Len(stream)].fin <=> at = "message"
          /\ \A k \in 1..Len(messages) : acc[1] > messages[k].parts[Len(messages[k].parts)]

MessagesGiven ==
    /\ \A k \in 1..Len(messages) : Whole(stream, messages[k])
    /\ \A k, j \in 1..Len(messages) :
          j < k => messages[k].parts[1] > messages[j].parts[Len(messages[j].parts)]

LEMMA RunKept ==
    ASSUME NEW s \in Seq(ClientFrames), NEW f \in ClientFrames, NEW p, Run(s, p)
    PROVE  Run(Append(s, f), p)
<1> DEFINE t == Append(s, f)
<1>1. Len(t) = Len(s) + 1 /\ Len(s) \in Nat /\ \A i \in 1..Len(s) : t[i] = s[i]
  BY AppendProperties
<1> HIDE DEF t
<1>2. /\ p \in Seq(Nat) /\ p # <<>>
      /\ \A i \in 1..Len(p) : p[i] = p[1] + i - 1 /\ p[i] \in 1..Len(s) /\ t[p[i]] = s[p[i]]
  BY <1>1 DEF Run
<1>3. SameSizes(t, p, s, p, Len(p))
  BY <1>2 DEF SameSizes
<1>4. SizeOf(t, p) = SizeOf(s, p)
  BY <1>2, <1>3, SizeKept
<1>5. \A j \in 1..Len(s) : j \in 1..Len(t)
  BY <1>1
<1>6. Run(t, p)
  BY <1>2, <1>4, <1>5 DEF Run
<1> QED BY <1>6 DEF t

LEMMA WholeKept ==
    ASSUME NEW s \in Seq(ClientFrames), NEW f \in ClientFrames,
           NEW m \in [text : BOOLEAN, parts : Seq(Nat)], Whole(s, m)
    PROVE  Whole(Append(s, f), m)
<1> DEFINE t == Append(s, f)
           p == m.parts
<1>1. Len(s) \in Nat /\ \A i \in 1..Len(s) : t[i] = s[i]
  BY AppendProperties
<1>2. Run(s, p) /\ Run(t, p)
  BY RunKept DEF Whole
<1>3. 1 \in 1..Len(p) /\ Len(p) \in 1..Len(p)
  BY <1>2, EmptySeq, LenProperties DEF Run
<1> HIDE DEF t, p
<1>4. p[1] \in 1..Len(s) /\ p[Len(p)] \in 1..Len(s)
  BY <1>2, <1>3 DEF Run
<1>5. t[p[1]] = s[p[1]] /\ t[p[Len(p)]] = s[p[Len(p)]]
  BY <1>1, <1>4
<1> QED BY <1>2, <1>5 DEF Whole, t, p

(* A frame that is no continuation begins a message.                           *)
LEMMA RunBegins ==
    ASSUME NEW s \in Seq(ClientFrames), NEW f \in ClientFrames, f.op # "cont", f.size <= MaxFrameBytes
    PROVE  Run(Append(s, f), <<Len(s) + 1>>)
<1> DEFINE t == Append(s, f)
           x == Len(s) + 1
           p == <<x>>
<1>1. x \in Nat /\ Len(t) = x /\ t[x] = f /\ x \in 1..x
  BY AppendProperties
<1>2. p \in Seq(Nat) /\ p # <<>> /\ Len(p) = 1 /\ p[1] = x
  BY <1>1
<1>3. f.size \in Nat
  BY SessionAssumption
<1>4. SizeOf(t, <<x>>) = f.size
  <2> HIDE DEF t, x
  <2> QED BY <1>1, <1>3, SizeOfOne
<1>5. SizeOf(t, p) \in Nat /\ SizeOf(t, p) <= MaxFrameBytes
  BY <1>3, <1>4
<1> HIDE DEF t, x, p
<1>6. \A i \in 1..Len(p) : i = 1 /\ p[i] = p[1] + i - 1 /\ ~(i < Len(p)) /\ ~(i > 1)
  BY <1>1, <1>2
<1>7. Run(t, p)
  BY <1>1, <1>2, <1>5, <1>6 DEF Run
<1> QED BY <1>7 DEF t, x, p

(* A continuation adds to it, while there is room.                             *)
LEMMA RunGrows ==
    ASSUME NEW s \in Seq(ClientFrames), NEW f \in ClientFrames, NEW p, Run(s, p), f.op = "cont",
           p[Len(p)] = Len(s), ~s[Len(s)].fin, SizeOf(s, p) + f.size <= MaxMessageBytes
    PROVE  Run(Append(s, f), Append(p, Len(s) + 1))
<1> DEFINE t == Append(s, f)
           x == Len(s) + 1
           q == Append(p, x)
           n == Len(p)
<1>1. x \in Nat /\ Len(t) = x /\ t[x] = f /\ x \in 1..x /\ \A i \in 1..Len(s) : t[i] = s[i] /\ i \in 1..x
  BY AppendProperties
<1>2. /\ p \in Seq(Nat) /\ n \in Nat /\ 1 <= n
  BY EmptySeq, LenProperties DEF Run
<1>3. q \in Seq(Nat) /\ q # <<>> /\ Len(q) = n + 1 /\ q[n + 1] = x /\ \A i \in 1..n : q[i] = p[i]
  BY <1>1, <1>2, AppendProperties
<1>4. Run(t, p)
  BY RunKept
<1>5. f.size \in Nat
  BY SessionAssumption
<1>6. SizeOf(t, p) = SizeOf(s, p) /\ SizeOf(s, p) \in Nat
  <2>1. SameSizes(t, p, s, p, n)
    <3> HIDE DEF t, x, q, n
    <3> QED BY <1>1 DEF Run, SameSizes, n
  <2> HIDE DEF t, x, q
  <2>2. SizeOf(s, p) \in Nat
    BY DEF Run
  <2> QED BY <1>2, <2>1, <2>2, SizeKept
<1>7. SizeOf(t, Append(p, x)) = SizeOf(t, p) + t[x].size
  <2> HIDE DEF t, x, n, q
  <2> QED BY <1>1, <1>2, SizeOfAppend
<1> HIDE DEF t, x, q, n
<1>8. SizeOf(t, q) \in Nat /\ SizeOf(t, q) <= MaxMessageBytes
  <2>1. SizeOf(t, q) = SizeOf(s, p) + f.size
    BY <1>1, <1>6, <1>7 DEF q
  <2> QED BY <1>5, <1>6, <2>1
<1>9. x = p[1] + (n + 1) - 1
  <2>1. p[n] = p[1] + n - 1 /\ p[n] = Len(s) /\ p[1] \in Nat
    <3>1. n \in 1..n /\ 1 \in 1..n
      BY <1>2
    <3>2. p[n] = Len(s) /\ \A i \in 1..n : p[i] = p[1] + i - 1 /\ p[i] \in 1..Len(s)
      BY DEF Run, n
    <3> QED BY <3>1, <3>2
  <2> QED BY <1>2, <2>1 DEF x
<1>10. q[1] = p[1]
  <2>1. 1 \in 1..n
    BY <1>2
  <2> QED BY <1>3, <2>1
<1>11. \A i \in 1..n + 1 : (i \in 1..n /\ i # n + 1) \/ (i = n + 1 /\ i > 1)
  BY <1>2
<1>12. \A i \in 1..Len(q) : q[i] = q[1] + i - 1 /\ q[i] \in 1..Len(t)
  BY <1>1, <1>3, <1>4, <1>9, <1>10, <1>11 DEF Run, n
<1>13. \A i \in 1..Len(q) : t[q[i]].op = "cont" <=> i > 1
  BY <1>1, <1>3, <1>4, <1>11 DEF Run, n
<1>14. \A i \in 1..Len(q) : i < Len(q) => ~t[q[i]].fin
  <2>1. \A i \in 1..n : ~t[p[i]].fin
    <3> TAKE i \in 1..n
    <3>1. CASE i < n
      BY <1>4, <3>1 DEF Run, n
    <3>2. CASE i = n
      <4>1. p[n] = Len(s) /\ Len(s) \in 1..Len(s)
        <5>1. p[n] = Len(s) /\ p[n] \in 1..Len(s)
          BY <3>2 DEF Run, n
        <5> QED BY <5>1
      <4> QED BY <1>1, <3>2, <4>1
    <3> QED BY <1>2, <3>1, <3>2
  <2> QED BY <1>2, <1>3, <1>11, <2>1
<1>15. Run(t, q)
  BY <1>3, <1>8, <1>12, <1>13, <1>14 DEF Run
<1> QED BY <1>15 DEF t, x, q
--------------------------------------------------------------------------------
LEMMA FramesUntouched ==
    ASSUME FramesCollected, MessagesGiven, UNCHANGED <<stream, started, acc, messages, opcode>>,
           at' = at \/ at' \notin {"reading", "message"}
    PROVE  FramesCollected' /\ MessagesGiven'
BY DEF FramesCollected, MessagesGiven

(* What is known of the frames when a data frame has been read.                *)
LEMMA ReadDataStep ==
    ASSUME FramesCollected, MessagesGiven, NEW f \in ClientFrames, ReadData(f)
    PROVE  FramesCollected' /\ MessagesGiven'
<1> DEFINE x == Len(stream) + 1
<1>1. /\ at = "reading" /\ ProtocolError(f) = 0 /\ f.op \notin {"ping", "pong", "close"}
      /\ stream' = Append(stream, f) /\ started' = TRUE /\ messages' = messages
      /\ opcode' = (IF f.op = "cont" THEN opcode ELSE f.op)
      /\ acc' = (IF f.op = "cont" THEN Append(acc, Len(stream')) ELSE <<Len(stream')>>)
      /\ at' = (IF f.fin THEN "message" ELSE at)
  BY DEF ReadData, Reading
<1>2. /\ stream \in Seq(ClientFrames) /\ acc \in Seq(Nat) /\ Len(stream) \in Nat
      /\ messages \in Seq([text : BOOLEAN, parts : Seq(Nat)])
  BY LenProperties DEF FramesCollected
<1>3. /\ stream' \in Seq(ClientFrames) /\ Len(stream') = x /\ x \in Nat /\ stream'[x] = f
      /\ \A i \in 1..Len(stream) : stream'[i] = stream[i]
  BY <1>1, <1>2, AppendProperties
<1>4. f.fin \in BOOLEAN /\ f.size \in Nat /\ MaxFrameBytes \in Nat /\ MaxMessageBytes \in Nat
  BY SessionAssumption
<1>5. f.size <= MaxFrameBytes /\ (f.op = "cont" => started /\ SizeOf(stream, acc) + f.size <= MaxMessageBytes)
  <2>1. f.size <= MaxFrameBytes \/ f.size > MaxFrameBytes
    BY <1>4
  <2>2. f.op = "cont" /\ started => Run(stream, acc)
    BY <1>1 DEF FramesCollected
  <2>3. f.op = "cont" /\ started => SizeOf(stream, acc) \in Nat
    BY <2>2 DEF Run
  <2>4. f.op = "cont" /\ started => ~(SizeOf(stream, acc) + f.size > MaxMessageBytes)
    BY <1>1 DEF ProtocolError, Control
  <2>5. f.op = "cont" => started
    BY <1>1 DEF ProtocolError, Control
  <2>6. ~(f.size > MaxFrameBytes)
    BY <1>1 DEF ProtocolError
  <2> QED BY <1>4, <2>1, <2>3, <2>4, <2>5, <2>6
<1>6. /\ Run(stream', acc') /\ acc' \in Seq(Nat) /\ acc'[Len(acc')] = x
      /\ opcode' = "text" <=> stream'[acc'[1]].op = "text"
      /\ \A k \in 1..Len(messages) : acc'[1] > messages[k].parts[Len(messages[k].parts)]
  <2>1. CASE f.op = "cont"
    <3>1. /\ Run(stream, acc) /\ acc[Len(acc)] = Len(stream) /\ ~stream[Len(stream)].fin
          /\ opcode = "text" <=> stream[acc[1]].op = "text"
          /\ \A k \in 1..Len(messages) : acc[1] > messages[k].parts[Len(messages[k].parts)]
      BY <1>1, <1>5, <2>1 DEF FramesCollected
    <3>2. acc' = Append(acc, x) /\ opcode' = opcode
      BY <1>1, <1>3, <2>1
    <3>3. Run(stream', acc')
      <4>1. Run(Append(stream, f), Append(acc, Len(stream) + 1))
        BY <1>2, <1>5, <2>1, <3>1, RunGrows
      <4> QED BY <1>1, <3>2, <4>1, Zenon
    <3>4. acc' \in Seq(Nat) /\ acc'[Len(acc')] = x /\ acc'[1] = acc[1] /\ acc[1] \in 1..Len(stream)
      <4> DEFINE n == Len(acc)
      <4>1. n \in Nat /\ 1 \in 1..n /\ acc[1] \in 1..Len(stream)
        BY <1>2, <3>1, EmptySeq, LenProperties DEF Run
      <4>2. acc' \in Seq(Nat) /\ Len(acc') = n + 1 /\ acc'[n + 1] = x /\ \A i \in 1..n : acc'[i] = acc[i]
        BY <1>2, <1>3, <3>2, AppendProperties
      <4> HIDE DEF n, x
      <4> QED BY <4>1, <4>2
    <3>5. stream'[acc'[1]] = stream[acc[1]]
      BY <1>3, <3>4
    <3> QED BY <3>1, <3>2, <3>3, <3>4, <3>5
  <2>2. CASE f.op # "cont"
    <3>1. acc' = <<x>> /\ opcode' = f.op
      BY <1>1, <1>3, <2>2
    <3>2. Run(stream', acc')
      <4>1. Run(Append(stream, f), <<Len(stream) + 1>>)
        BY <1>2, <1>5, <2>2, RunBegins
      <4> QED BY <1>1, <3>1, <4>1, Zenon
    <3>3. acc' \in Seq(Nat) /\ Len(acc') = 1 /\ acc'[1] = x
      BY <1>3, <3>1
    <3>4. ASSUME NEW k \in 1..Len(messages) PROVE x > messages[k].parts[Len(messages[k].parts)]
      <4> DEFINE p == messages[k].parts
      <4>1. Run(stream, p)
        BY DEF MessagesGiven, Whole
      <4>2. Len(p) \in 1..Len(p)
        BY <4>1, EmptySeq, LenProperties DEF Run
      <4> HIDE DEF p
      <4>3. p[Len(p)] \in 1..Len(stream)
        BY <4>1, <4>2 DEF Run
      <4>4. x > p[Len(p)]
        BY <1>2, <4>3
      <4> QED BY <4>4 DEF p
    <3> HIDE DEF x
    <3> QED BY <1>3, <3>1, <3>2, <3>3, <3>4
  <2> QED BY <2>1, <2>2
<1>7. FramesCollected'
  <2> HIDE DEF x
  <2>1. stream'[Len(stream')].fin <=> at' = "message"
    BY <1>1, <1>3
  <2>2. started' \in BOOLEAN /\ started' /\ messages' = messages /\ acc'[Len(acc')] = Len(stream')
    BY <1>1, <1>3, <1>6
  <2> QED BY <1>2, <1>3, <1>6, <2>1, <2>2 DEF FramesCollected
<1>8. \A k \in 1..Len(messages) : Whole(stream', messages[k])
  <2> TAKE k \in 1..Len(messages)
  <2>1. messages[k] \in [text : BOOLEAN, parts : Seq(Nat)] /\ Whole(stream, messages[k])
    BY <1>2, ElementOfSeq DEF MessagesGiven
  <2>2. Whole(Append(stream, f), messages[k])
    BY <1>2, <2>1, WholeKept
  <2> QED BY <1>1, <2>2, Zenon
<1>9. MessagesGiven'
  BY <1>1, <1>8 DEF MessagesGiven
<1> QED BY <1>7, <1>9

LEMMA DeliverStep ==
    ASSUME FramesCollected, MessagesGiven, Deliver
    PROVE  FramesCollected' /\ MessagesGiven'
<1> DEFINE m == [text |-> opcode = "text", parts |-> acc]
           n == Len(messages)
           T == [text : BOOLEAN, parts : Seq(Nat)]
<1>1. /\ at = "message" /\ at' \notin {"reading", "message"} /\ messages' = Append(messages, m)
      /\ UNCHANGED <<stream, started, acc, opcode>>
  BY DEF Deliver, Thrown
<1>2. /\ stream \in Seq(ClientFrames) /\ acc \in Seq(Nat) /\ messages \in Seq(T) /\ n \in Nat /\ m \in T
  BY LenProperties DEF FramesCollected
<1>3. /\ messages' \in Seq(T) /\ Len(messages') = n + 1 /\ messages'[n + 1] = m
      /\ \A k \in 1..n : messages'[k] = messages[k]
  <2> HIDE DEF m, T
  <2> QED BY <1>1, <1>2, AppendProperties
<1>4. /\ Run(stream, acc) /\ acc[Len(acc)] = Len(stream)
      /\ opcode = "text" <=> stream[acc[1]].op = "text"
      /\ stream[Len(stream)].fin
      /\ \A k \in 1..n : acc[1] > messages[k].parts[Len(messages[k].parts)]
  BY <1>1 DEF FramesCollected
<1>5. Whole(stream, m) /\ m.parts = acc
  BY <1>4 DEF Whole
<1>6. FramesCollected'
  <2> HIDE DEF m
  <2> QED BY <1>1, <1>2, <1>3 DEF FramesCollected
<1> HIDE DEF m, n, T
<1>7. \A k \in 1..n + 1 : (k \in 1..n /\ k # n + 1 /\ k < n + 1) \/ k = n + 1
  BY <1>2
<1>8. \A k \in 1..n + 1 : Whole(stream, messages'[k])
  BY <1>3, <1>5, <1>7 DEF MessagesGiven, n
<1>9. \A k, j \in 1..n + 1 : j < k => messages'[k].parts[1] > messages'[j].parts[Len(messages'[j].parts)]
  <2> TAKE k, j \in 1..n + 1
  <2> HAVE j < k
  <2>1. j \in 1..n
    BY <1>2, <1>7
  <2>2. CASE k = n + 1
    BY <1>3, <1>4, <1>5, <2>1, <2>2
  <2>3. CASE k \in 1..n
    BY <1>3, <2>1, <2>3 DEF MessagesGiven, n
  <2> QED BY <1>7, <2>2, <2>3
<1>10. MessagesGiven'
  BY <1>1, <1>3, <1>8, <1>9 DEF MessagesGiven
<1> QED BY <1>6, <1>10

LEMMA FramesStep ==
    ASSUME FramesCollected, MessagesGiven, [SessionNext]_allvars
    PROVE  FramesCollected' /\ MessagesGiven'
<1>1. ASSUME NEW f \in ClientFrames, ReadBad(f) \/ ReadClose(f) \/ ReadPing(f) PROVE FramesCollected' /\ MessagesGiven'
  <2>1. UNCHANGED <<stream, started, acc, messages, opcode>> /\ at' \in {at, "closeMessage"}
    BY <1>1 DEF ReadBad, ReadClose, ReadPing, CloseWith
  <2> QED BY <2>1, FramesUntouched
<1>2. CASE ReadStep
  BY <1>1, <1>2, ReadDataStep DEF ReadStep
<1>3. CASE Recv
  <2>1. at = "app" /\ UNCHANGED <<stream, messages>> /\ started' = FALSE /\ acc' = <<>> /\ at' # "message"
    BY <1>3 DEF Recv
  <2>2. acc' \in Seq(Nat) /\ started' \in BOOLEAN
    BY <2>1, EmptySeq
  <2> QED BY <2>1, <2>2 DEF FramesCollected, MessagesGiven
<1>4. CASE ChainStep \/ UNCHANGED allvars \/ RawSend \/ EndDestroy
  <2>1. UNCHANGED svars
    BY <1>4 DEF ChainStep, RawSend, EndDestroy, allvars
  <2> QED BY <2>1, FramesUntouched DEF svars
<1>5. CASE Begin \/ DeliverClose \/ Caught \/ CallOnClose \/ EndClose \/ ReadFails \/ RawClose \/ RawReturn
  <2>1. UNCHANGED <<stream, started, acc, messages, opcode>> /\ (at' = at \/ at' \notin {"reading", "message"})
    BY <1>5 DEF Begin, DeliverClose, Caught, CallOnClose, EndClose, ReadFails, RawClose, RawReturn, Thrown
  <2> QED BY <2>1, FramesUntouched
<1> QED BY <1>2, <1>3, <1>4, <1>5, DeliverStep DEF SessionNext, CoroutineStep

LEMMA FramesInitially == SessionInit => FramesCollected /\ MessagesGiven
<1> SUFFICES ASSUME SessionInit PROVE FramesCollected /\ MessagesGiven
  OBVIOUS
<1>1. /\ stream = <<>> /\ messages = <<>> /\ acc = <<>> /\ started = FALSE /\ at = "opening"
      /\ <<>> \in Seq(ClientFrames) /\ <<>> \in Seq(Nat) /\ <<>> \in Seq([text : BOOLEAN, parts : Seq(Nat)])
      /\ 1..Len(<<>>) = {}
  BY EmptySeq DEF SessionInit
<1> QED BY <1>1 DEF FramesCollected, MessagesGiven

LEMMA ExactWhenCollected == FramesCollected /\ MessagesGiven => MessagesExact
<1> SUFFICES ASSUME FramesCollected, MessagesGiven PROVE MessagesExact
  OBVIOUS
<1>1. messages \in Seq([text : BOOLEAN, parts : Seq(Nat)]) /\ stream \in Seq(ClientFrames)
      /\ DOMAIN messages = 1..Len(messages) /\ Len(messages) \in Nat
  BY LenProperties DEF FramesCollected
<1>2. ASSUME NEW k \in 1..Len(messages)
      PROVE  LET parts == messages[k].parts
                 first == parts[1]
             IN  /\ parts = [i \in 1..Len(parts) |-> first + i - 1]
                 /\ messages[k].text = (stream[first].op = "text")
                 /\ \A i \in DOMAIN parts : (stream[parts[i]].op = "cont") = (i > 1)
                 /\ \A i \in DOMAIN parts : stream[parts[i]].fin = (i = Len(parts))
                 /\ k > 1 => first > Last(messages[k - 1].parts)
                 /\ SizeOf(stream, parts) <= MaxMessageBytes \/ (Len(parts) = 1 /\ SizeOf(stream, parts) <= MaxFrameBytes)
  <2> DEFINE p == messages[k].parts
             n == Len(p)
  <2>1. Whole(stream, messages[k]) /\ Run(stream, p) /\ messages[k].text \in BOOLEAN
    <3>1. messages[k] \in [text : BOOLEAN, parts : Seq(Nat)]
      BY <1>1, ElementOfSeq
    <3>2. Whole(stream, messages[k])
      BY DEF MessagesGiven
    <3> QED BY <3>1, <3>2 DEF Whole
  <2>2. p \in Seq(Nat) /\ n \in Nat /\ DOMAIN p = 1..n /\ n \in 1..n /\ 1 \in 1..n
    BY <2>1, EmptySeq, LenProperties DEF Run
  <2>3. p = [i \in 1..n |-> p[1] + i - 1]
    <3>1. p = [i \in DOMAIN p |-> p[i]]
      <4> HIDE DEF p
      <4> QED BY <2>2, LenProperties
    <3>2. \A i \in 1..n : p[i] = p[1] + i - 1
      BY <2>1 DEF Run
    <3> HIDE DEF p, n
    <3> QED BY <2>2, <3>1, <3>2
  <2>4. messages[k].text = (stream[p[1]].op = "text")
    BY <2>1 DEF Whole
  <2>5. \A i \in DOMAIN p : (stream[p[i]].op = "cont") = (i > 1)
    <3> HIDE DEF p
    <3> QED BY <2>1, <2>2 DEF Run
  <2>6. \A i \in DOMAIN p : stream[p[i]].fin = (i = n)
    <3> TAKE i \in DOMAIN p
    <3>1. p[i] \in 1..Len(stream) /\ i \in 1..n
      <4> HIDE DEF p
      <4> QED BY <2>1, <2>2 DEF Run
    <3>2. stream[p[i]].fin \in BOOLEAN
      BY <1>1, <3>1, ElementOfSeq, SessionAssumption
    <3>3. stream[p[n]].fin
      BY <2>1 DEF Whole
    <3>4. i < n => ~stream[p[i]].fin
      <4> HIDE DEF p
      <4> QED BY <2>1, <3>1 DEF Run
    <3> HIDE DEF p, n
    <3>5. i = n \/ i < n
      BY <2>2, <3>1
    <3> QED BY <3>2, <3>3, <3>4, <3>5
  <2>7. k > 1 => p[1] > Last(messages[k - 1].parts)
    <3>1. k > 1 => k - 1 \in 1..Len(messages) /\ k - 1 < k
      BY <1>1
    <3> QED BY <3>1 DEF MessagesGiven, Last
  <2>8. SizeOf(stream, p) <= MaxMessageBytes \/ (n = 1 /\ SizeOf(stream, p) <= MaxFrameBytes)
    BY <2>1 DEF Run
  <2> QED BY <2>3, <2>4, <2>5, <2>6, <2>7, <2>8
<1>3. MessagesAreFrames
  BY <1>1, <1>2 DEF MessagesAreFrames
<1>4. MessageSizeBounded
  BY <1>1, <1>2 DEF MessageSizeBounded
<1> QED BY <1>3, <1>4 DEF MessagesExact

(* What the application gets are the messages the client sent, whole, in       *)
(* order and none that the limits forbid, whatever the client sends.           *)
THEOREM MessagesAsSent == SessionSpec => []MessagesExact
<1>1. FramesCollected /\ MessagesGiven /\ [SessionNext]_allvars => FramesCollected' /\ MessagesGiven'
  BY FramesStep
<1> QED
  BY <1>1, FramesInitially, ExactWhenCollected, PTL DEF SessionSpec
================================================================================
