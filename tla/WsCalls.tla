------------------------------- MODULE WsCalls -------------------------------
(***************************************************************************)
(* What ends a WebSocket connection, what sends on it, and the calls of    *)
(* the user's: src/src/websockets/ws_conn.c.  These functions make         *)
(* callbacks, and the user calls them in callbacks, so that what a         *)
(* callback does is a parameter; WsConn has this module twice.             *)
(*                                                                         *)
(* An operator takes the connection with the history and returns what the  *)
(* function makes of it: x has c and h as in WsConn, the result ret, the   *)
(* outcome of the writes of the step, the plan of the user and the number  *)
(* of callbacks so far.                                                    *)
(***************************************************************************)
EXTENDS Integers

CONSTANTS
  Called(_),      \* a callback of the user's: from before it to after it
  LateFails,      \* the write of a last close frame, or of a refusal, may fail fatally
  MaxSends        \* bound: compressed messages

\* A notification: on_open comes first and once, nothing follows the end or the user's
\* close; a refused request is told by on_error and may be followed by one more end.
Notify(x, what) ==
  LET right == /\ ~x.h.gone /\ ~x.h.ended
               /\ what = "open" => ~x.h.opened /\ ~x.h.refused
               /\ what = "message" => x.h.opened /\ x.c.state # "CLOSED"
               /\ what = "refused" => ~x.h.opened
               /\ what \in {"close", "error"} => x.c.state = "CLOSED"
               /\ what = "error" => ~x.h.refused
  IN Called([x EXCEPT !.h.ok = @ /\ right, !.h.opened = @ \/ what = "open",
                      !.h.ended = @ \/ what \in {"close", "error"},
                      !.h.refused = @ \/ what = "refused"])

-----------------------------------------------------------------------------
(* Ends. *)

ws_close_socket(x) == [x EXCEPT !.c.stream = IF @ = "none" THEN @ ELSE "closed"]

\* State, timer and stream of a connection that has ended.
Closed(x) == ws_close_socket([x EXCEPT !.c.state = "CLOSED", !.c.timer = FALSE])

ws_enter_closed(x) ==
  IF x.c.state = "CLOSED" \/ x.c.destroyed THEN x ELSE Notify(Closed(x), "close")

\* An error of the stream; the error of a connection that is not made is an on_error.
\* (ws_fatal sends nothing here: its err is not PROTOCOL.)
ws_stream_on_error(x, err) ==
  IF x.c.destroyed \/ x.c.state = "CLOSED" THEN x
  ELSE IF err \in {"CONNECT", "HANDSHAKE"} THEN Notify(Closed(x), "error")
  ELSE ws_enter_closed(x)

-----------------------------------------------------------------------------
(* Sending. *)

\* External: a fatal error closes the stream and is told by on_error before the write
\* returns; a stream that is not open refuses.
stream_write(x, put) ==
  IF x.c.stream \notin {"open", "shut"} THEN [x EXCEPT !.ret = "WRITE"]
  ELSE IF x.outcome = "fatal" \/ x.c.stream = "shut"
  THEN [ws_stream_on_error([x EXCEPT !.c.stream = "closed"], "WRITE") EXCEPT !.ret = "WRITE"]
  ELSE IF x.outcome = "nomem" THEN [x EXCEPT !.ret = "NOMEM"]
  ELSE [x EXCEPT !.ret = "ok", !.h = put]

\* What a frame on the wire is to the peer: data does not follow a close, and what was
\* compressed refers only to what the peer has.  That is nothing if it resets its context
\* after every message, which the ends have agreed on in the handshake.
OnWire(hist, frame) ==
  [hist EXCEPT !.ok = @ /\ (frame.data => ~hist.closed),
               !.closed = @ \/ frame.close,
               !.sync = @ /\ frame.ctx \in {-1, 0, hist.peer_ctx},
               !.peer_ctx = IF frame.ctx = -1 \/ hist.resets THEN @ ELSE frame.ctx + 1]

Frame(kind, ctx) == [data |-> kind = "data", close |-> kind = "close", ctx |-> ctx]

\* Data is sent in OPEN, control frames also in CLOSING.
send_frame_raw(x, frame) ==
  IF (x.c.state = "CLOSING" /\ frame.data) \/ x.c.state \notin {"OPEN", "CLOSING"}
  THEN [x EXCEPT !.ret = "INVAL"]
  ELSE stream_write(x, OnWire(x.h, frame))

send_frame(x, kind) == send_frame_raw(x, Frame(kind, -1))

\* The message is compressed, which changes the context, before it is known whether it can be sent.
send_message(x) ==
  LET y == [x EXCEPT !.c.ctx = IF x.c.deflate.reset THEN 0 ELSE @ + 1]
      z == send_frame_raw(y, Frame("data", x.c.ctx))
  IN IF x.c.deflate.on THEN [z EXCEPT !.h.lost = @ \/ z.ret = "NOMEM"] ELSE send_frame(x, "data")

ws_send_close_code(x) == ws_enter_closed(send_frame(x, "close"))

\* The last close frame is sent if the connection is open and the error is one of protocol.
ws_fatal(x, err) ==
  LET sent == IF err = "PROTOCOL" /\ x.c.state = "OPEN"
              THEN LET y == send_frame([x EXCEPT !.c.state = "CLOSING",
                                                 !.outcome = IF LateFails THEN @ ELSE "ok"], "close")
                   IN [y EXCEPT !.outcome = x.outcome]
              ELSE x
  IN IF x.c.destroyed \/ x.c.state = "CLOSED" THEN x ELSE Notify(Closed(sent), "error")

\* What the senders do with the result.
Sent(x) == IF x.ret = "WRITE" THEN ws_fatal(x, "WRITE") ELSE x

sevent_ws_send_text(x) == Sent(send_message([x EXCEPT !.h.sends = @ + 1]))

sevent_ws_ping(x) == Sent(send_frame(x, "ping"))

\* Mutant: the state changes whatever happened in the call.
sevent_ws_shutdown_blind(x) ==
  IF x.c.state # "OPEN" THEN [x EXCEPT !.ret = "INVAL"]
  ELSE Sent([send_frame(x, "close") EXCEPT !.c.state = "CLOSING"])

sevent_ws_shutdown(x) ==
  LET y == send_frame(x, "close")
  IN IF x.c.state # "OPEN" THEN [x EXCEPT !.ret = "INVAL"]
     ELSE Sent(IF y.ret = "ok" /\ ~y.c.destroyed /\ y.c.state # "CLOSED"
               THEN [y EXCEPT !.c.state = "CLOSING"] ELSE y)

sevent_ws_close(x) == [Closed(x) EXCEPT !.c.destroyed = TRUE, !.h.gone = TRUE]

\* The release is posted.
sevent_ws_destroy(x) == [sevent_ws_close(x) EXCEPT !.c.life = "posted"]

\* A call of the user's; an object that is destroyed is not used any more.
Act(x, act) ==
  IF x.c.life # "live" THEN x
  ELSE CASE act = "send"     -> IF x.h.sends < MaxSends THEN sevent_ws_send_text(x) ELSE x
         [] act = "ping"     -> sevent_ws_ping(x)
         [] act = "shutdown" -> sevent_ws_shutdown(x)
         [] act = "close"    -> sevent_ws_close(x)
         [] act = "destroy"  -> sevent_ws_destroy(x)
=============================================================================
