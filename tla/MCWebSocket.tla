----------------------------- MODULE MCWebSocket -----------------------------
(* A WebSocket session on a small instance: frames that pass and fail every    *)
(* check of readMessage.                                                       *)
EXTENDS WebSocketSession

Frame(op, fin, size) == [op |-> op, fin |-> fin, masked |-> TRUE, size |-> size]
SomeFrames ==
    {Frame("text", FALSE, 1), Frame("binary", TRUE, 2), Frame("cont", FALSE, 1), Frame("cont", TRUE, 1),
     Frame("ping", TRUE, 1), Frame("close", TRUE, 0), Frame("close", TRUE, 2),
     Frame("reservedControl", TRUE, 1), Frame("text", TRUE, 3),
     [Frame("text", TRUE, 1) EXCEPT !.masked = FALSE]}
================================================================================
