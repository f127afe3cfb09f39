---------------------------- MODULE WsCallsProofs ----------------------------
(***************************************************************************)
(* What the functions of WsCalls keep, whatever the callbacks they make    *)
(* do, as long as the callbacks keep it too (Callbacks). WsConn has        *)
(* WsCalls twice: below a callback of the user's, where a callback does    *)
(* nothing more, and around one. So are these lemmas used in               *)
(* PostWsConnProofs: the ones about the inner functions give Callbacks for *)
(* the outer ones.                                                         *)
(*                                                                         *)
(* Good is what holds between any two calls: what the user has been told   *)
(* agrees with the state, and the state with the stream and the            *)
(* compressor. In the middle of a function only Told holds. Keeps is what  *)
(* no function changes.                                                    *)
(***************************************************************************)
EXTENDS WsCalls, TLAPS

\* The sets of configurations, receive buffers, extension headers, plans and outcomes.
CONSTANTS Cfg, Buffer, Header, Plan, Outcome

\* The connection, the history, and the two in a step.
Conn ==
  [life : {"none", "live", "posted", "released"}, cfg : Cfg,
   state : {"CONNECTING", "HANDSHAKE", "OPEN", "CLOSING", "CLOSED"}, destroyed : BOOLEAN, timer : BOOLEAN,
   stream : {"none", "opening", "open", "shut", "closed"}, buf : Buffer, key : Nat, redirects : Nat,
   deflate : [on : BOOLEAN, cbw : Int, sbw : Int, reset : BOOLEAN], ctx : Nat,
   busy : {"no", "handshake", "data"}]

Hist ==
  [opened : BOOLEAN, ended : BOOLEAN, gone : BOOLEAN, refused : BOOLEAN, ok : BOOLEAN, closed : BOOLEAN,
   peer_ctx : Nat, sync : BOOLEAN, lost : BOOLEAN, resets : BOOLEAN, answer : Header, sends : Nat]

State ==
  [c : Conn, h : Hist, ret : {"ok", "WRITE", "NOMEM", "INVAL", "PROTOCOL"}, calls : Nat, plan : Plan,
   outcome : Outcome \cup {"ok"}]

\* The contexts of the two ends may differ: a message was dropped, or only the peer resets.
Apart(x) == ~x.c.deflate.reset /\ (x.h.lost \/ x.h.resets)

\* No notification was wrong so far; what ended the connection has closed the stream and
\* stopped the timer; frames are read only after on_open; and no compressed message was
\* wrong, but one of a compressor that keeps its context while the peer has not all of it.
Told(x) ==
  /\ x.h.ok /\ (x.h.sync \/ Apart(x))
  /\ x.h.gone => x.c.destroyed
  /\ x.c.destroyed => x.c.state = "CLOSED" /\ ~x.c.timer
  /\ x.h.ended => x.c.state = "CLOSED"
  /\ x.c.life \in {"posted", "released"} => x.c.destroyed
  /\ x.c.state = "CLOSED" => x.c.stream \in {"none", "closed"}
  /\ x.c.busy # "no" => x.h.opened

\* A connection whose user has been told nothing yet, and which has compressed nothing.
Opening(x) ==
  /\ ~x.h.opened /\ ~x.h.refused /\ ~x.h.closed
  /\ ~x.c.deflate.on /\ x.c.ctx = 0 /\ x.h.peer_ctx = 0 /\ x.h.sync

\* The compressor refers to what the peer has got, if the contexts can be the same.
InStep(x) ==
  x.c.deflate.on => IF x.c.deflate.reset THEN x.c.ctx = 0
                    ELSE ~x.h.lost /\ ~x.h.resets => x.c.ctx = x.h.peer_ctx

\* What each state of the connection says of the stream, the history and the compressor.
Live(x) ==
  /\ x.c.state = "CONNECTING" => Opening(x) /\ x.c.stream \in {"none", "opening", "closed"}
  /\ x.c.state = "HANDSHAKE" => Opening(x) /\ x.c.stream = "open"
  /\ x.c.state = "OPEN" => x.h.opened /\ ~x.h.refused /\ ~x.h.closed /\ x.c.stream = "open" /\ InStep(x)
  /\ x.c.state = "CLOSING" => IF x.h.refused THEN ~x.h.opened /\ x.c.stream = "shut"
                                             ELSE x.h.opened /\ x.c.stream = "open"

\* Between two calls.
Good(x) == x \in State /\ Told(x) /\ Live(x)

\* From x to y: the configuration, the buffer and the results of the handshake are as they
\* were, and the state went on, not back.
Keeps(x, y) ==
  /\ y.plan = x.plan /\ y.outcome = x.outcome
  /\ y.c.cfg = x.c.cfg /\ y.c.buf = x.c.buf /\ y.c.busy = x.c.busy /\ y.c.deflate = x.c.deflate
  /\ y.c.key = x.c.key /\ y.c.redirects = x.c.redirects
  /\ (y.h.opened <=> x.h.opened) /\ (y.h.refused <=> x.h.refused) /\ y.h.answer = x.h.answer
  /\ (x.h.lost => y.h.lost) /\ (y.h.resets <=> x.h.resets)
  /\ y.c.life = x.c.life \/ (x.c.life = "live" /\ y.c.life = "posted")
  /\ x.c.state = "CLOSED" => y.c.state = "CLOSED"
  /\ x.c.state \in {"CONNECTING", "HANDSHAKE"} => y.c.state \in {x.c.state, "CLOSED"}
  /\ x.c.state \in {"OPEN", "CLOSING"} => y.c.state \in {"OPEN", "CLOSING", "CLOSED"}

\* What is asked of callbacks.
Callbacks == \A x \in State : Good(x) => Good(Called(x)) /\ Keeps(x, Called(x))

-----------------------------------------------------------------------------
(* Ends. *)

\* Functions that are called one after the other.
LEMMA KeepsTwice ==
  ASSUME NEW x, NEW y, NEW z, Keeps(x, y), Keeps(y, z)
  PROVE  Keeps(x, z)
BY DEF Keeps

\* A function that returns early.
LEMMA KeepsSelf ==
  ASSUME NEW x \in State
  PROVE  Keeps(x, x)
BY DEF Keeps, State, Conn

\* State, timer and stream are those of an end, and nothing else has changed.
LEMMA ClosedIs ==
  ASSUME NEW x \in State
  PROVE  /\ Closed(x) \in State /\ Keeps(x, Closed(x)) /\ Closed(x).h = x.h
         /\ Closed(x).c.state = "CLOSED" /\ Closed(x).c.stream \in {"none", "closed"} /\ ~Closed(x).c.timer
         /\ Closed(x).c.destroyed = x.c.destroyed /\ Closed(x).c.life = x.c.life
BY ZenonT(60) DEF Closed, ws_close_socket, Keeps, State, Conn

\* What the history says after a notification.
Right(x, what) ==
  /\ ~x.h.gone /\ ~x.h.ended
  /\ what = "open" => ~x.h.opened /\ ~x.h.refused
  /\ what = "message" => x.h.opened /\ x.c.state # "CLOSED"
  /\ what = "refused" => ~x.h.opened
  /\ what \in {"close", "error"} => x.c.state = "CLOSED"
  /\ what = "error" => ~x.h.refused

\* What Notify makes of x before the callback.
Telling(x, what) ==
  [x EXCEPT !.h.ok = @ /\ Right(x, what), !.h.opened = @ \/ what = "open",
            !.h.ended = @ \/ what \in {"close", "error"},
            !.h.refused = @ \/ what = "refused"]

\* The history is brought up to date before the callback is made.
LEMMA TellingIs ==
  ASSUME NEW x \in State, NEW what \in {"open", "message", "refused", "close", "error"}
  PROVE  /\ Notify(x, what) = Called(Telling(x, what))
         /\ Telling(x, what) \in State
         /\ (Telling(x, what).h.ok <=> x.h.ok /\ Right(x, what))
         /\ (Telling(x, what).h.opened <=> (x.h.opened \/ what = "open"))
         /\ (Telling(x, what).h.ended <=> (x.h.ended \/ what \in {"close", "error"}))
         /\ (Telling(x, what).h.refused <=> (x.h.refused \/ what = "refused"))
         /\ Telling(x, what).c = x.c /\ Telling(x, what).plan = x.plan
         /\ Telling(x, what).outcome = x.outcome
         /\ (Telling(x, what).h.gone <=> x.h.gone) /\ (Telling(x, what).h.closed <=> x.h.closed)
         /\ Telling(x, what).h.peer_ctx = x.h.peer_ctx /\ (Telling(x, what).h.sync <=> x.h.sync)
         /\ Telling(x, what).h.answer = x.h.answer
         /\ (Telling(x, what).h.lost <=> x.h.lost) /\ (Telling(x, what).h.resets <=> x.h.resets)
<1>1. Notify(x, what) = Called(Telling(x, what))
  BY DEF Notify, Telling, Right
<1>2. Right(x, what) \in BOOLEAN
  BY DEF Right
<1> DEFINE a == x.h.ok /\ Right(x, what)
           b == x.h.opened \/ what = "open"
           d == x.h.ended \/ what \in {"close", "error"}
           e == x.h.refused \/ what = "refused"
<1>3. a \in BOOLEAN /\ b \in BOOLEAN /\ d \in BOOLEAN /\ e \in BOOLEAN
  OBVIOUS
<1>4. Telling(x, what) = [x EXCEPT !.h.ok = a, !.h.opened = b, !.h.ended = d, !.h.refused = e]
  BY DEF Telling
<1> HIDE DEF a, b, d, e
<1> DEFINE g == [x.h EXCEPT !.ok = a, !.opened = b, !.ended = d, !.refused = e]
<1>6. x.h \in Hist
  BY DEF State
<1>7. /\ g \in Hist /\ g.ok = a /\ g.opened = b /\ g.ended = d /\ g.refused = e
      /\ g.gone = x.h.gone /\ g.closed = x.h.closed /\ g.peer_ctx = x.h.peer_ctx /\ g.sync = x.h.sync
      /\ g.answer = x.h.answer /\ g.lost = x.h.lost /\ g.resets = x.h.resets
  BY <1>3, <1>6, ZenonT(60) DEF Hist
<1>8. Telling(x, what) = [x EXCEPT !.h = g]
  BY <1>4, <1>6 DEF State, Hist
<1> HIDE DEF g
<1>5. /\ Telling(x, what) \in State
      /\ Telling(x, what).h.ok = a
      /\ Telling(x, what).h.opened = b
      /\ Telling(x, what).h.ended = d
      /\ Telling(x, what).h.refused = e
      /\ Telling(x, what).c = x.c /\ Telling(x, what).plan = x.plan
      /\ Telling(x, what).outcome = x.outcome
      /\ Telling(x, what).h.gone = x.h.gone /\ Telling(x, what).h.closed = x.h.closed
      /\ Telling(x, what).h.peer_ctx = x.h.peer_ctx /\ Telling(x, what).h.sync = x.h.sync
      /\ Telling(x, what).h.answer = x.h.answer
      /\ Telling(x, what).h.lost = x.h.lost /\ Telling(x, what).h.resets = x.h.resets
  BY <1>7, <1>8 DEF State
<1> QED BY <1>1, <1>5 DEF a, b, d, e

\* An end is told once, and to a user who has not closed.
LEMMA EndTold ==
  ASSUME Callbacks, NEW x \in State, Told(x), x.c.state # "CLOSED",
         NEW what \in {"close", "error"}, what = "error" => ~x.h.refused
  PROVE  /\ Good(Notify(Closed(x), what)) /\ Keeps(x, Notify(Closed(x), what))
         /\ Notify(Closed(x), what).c.state = "CLOSED"
<1> DEFINE y == Closed(x)
           z == Telling(y, what)
<1>1. /\ y \in State /\ Keeps(x, y) /\ y.h = x.h /\ y.c.state = "CLOSED" /\ y.c.stream \in {"none", "closed"} /\ ~y.c.timer
      /\ y.c.destroyed = x.c.destroyed /\ y.c.life = x.c.life
  BY ClosedIs
<1> HIDE DEF y
<1>2. Notify(y, what) = Called(z)
  BY <1>1, TellingIs
<1>3. Good(z) /\ Keeps(y, z) /\ z.c.state = "CLOSED"
  <2>1. Right(y, what)
    BY <1>1 DEF Told, Apart, Right
  <2>2. /\ z \in State /\ z.c = y.c /\ z.h.ok /\ z.h.ended /\ (z.h.opened <=> y.h.opened) /\ (z.h.refused <=> y.h.refused)
        /\ (z.h.gone <=> y.h.gone) /\ z.h.answer = y.h.answer /\ (z.h.sync <=> y.h.sync)
        /\ (z.h.lost <=> y.h.lost) /\ (z.h.resets <=> y.h.resets)
        /\ z.plan = y.plan /\ z.outcome = y.outcome
    BY <1>1, <2>1, TellingIs DEF Told, Apart
  <2> HIDE DEF z
  <2>3. Good(z)
    BY <1>1, <2>2 DEF Good, Told, Apart, Live, Keeps
  <2> QED BY <1>1, <2>2, <2>3 DEF Keeps, State, Conn
<1> HIDE DEF z
<1>4. Good(Called(z)) /\ Keeps(z, Called(z))
  BY <1>3 DEF Callbacks, Good
<1>5. Called(z).c.state = "CLOSED"
  BY <1>3, <1>4 DEF Keeps
<1> QED BY <1>1, <1>2, <1>3, <1>4, <1>5, KeepsTwice DEF y

\* The connection has ended, if it had not before.
Ended(x, y) == Good(y) /\ Keeps(x, y) /\ y.c.state = "CLOSED"

\* The result of a function is not the connection's.
LEMMA ResultOnly ==
  ASSUME NEW x, Good(x), NEW r \in {"ok", "WRITE", "NOMEM", "INVAL", "PROTOCOL"}
  PROVE  /\ Good([x EXCEPT !.ret = r]) /\ Keeps(x, [x EXCEPT !.ret = r])
         /\ [x EXCEPT !.ret = r].c = x.c /\ [x EXCEPT !.ret = r].ret = r
<1> DEFINE y == [x EXCEPT !.ret = r]
<1>1. y \in State /\ y.c = x.c /\ y.h = x.h /\ y.plan = x.plan /\ y.outcome = x.outcome /\ y.ret = r
  BY DEF Good, State
<1> HIDE DEF y
<1>2. Good(y)
  BY <1>1 DEF Good, Told, Apart, Live, Opening, InStep
<1>3. Keeps(x, y)
  BY <1>1 DEF Keeps, Good, State, Conn
<1> QED BY <1>1, <1>2, <1>3 DEF y

\* ws_enter_closed: on_close comes unless the end has been told.
LEMMA EnterClosed ==
  ASSUME Callbacks, NEW x \in State, Told(x)
  PROVE  Ended(x, ws_enter_closed(x))
<1>1. CASE x.c.state = "CLOSED"
  BY <1>1, KeepsSelf DEF ws_enter_closed, Ended, Good, Live
<1>2. CASE x.c.state # "CLOSED"
  <2>1. ~x.c.destroyed
    BY <1>2 DEF Told, Apart
  <2> QED BY <1>2, <2>1, EndTold DEF ws_enter_closed, Ended
<1> QED BY <1>1, <1>2

\* An error of the stream ends the connection; before on_open it is an on_error.
LEMMA StreamError ==
  ASSUME Callbacks, NEW x \in State, Told(x), NEW err,
         err \in {"CONNECT", "HANDSHAKE"} /\ x.c.state # "CLOSED" => ~x.h.refused
  PROVE  Ended(x, ws_stream_on_error(x, err))
<1>1. CASE x.c.state = "CLOSED"
  BY <1>1, KeepsSelf DEF ws_stream_on_error, Ended, Good, Live
<1>2. CASE x.c.state # "CLOSED"
  <2>1. ~x.c.destroyed
    BY <1>2 DEF Told, Apart
  <2>2. CASE err \in {"CONNECT", "HANDSHAKE"}
    BY <1>2, <2>1, <2>2, EndTold DEF ws_stream_on_error, Ended
  <2>3. CASE err \notin {"CONNECT", "HANDSHAKE"}
    BY <1>2, <2>1, <2>3, EnterClosed DEF ws_stream_on_error
  <2> QED BY <2>2, <2>3
<1> QED BY <1>1, <1>2

\* A write is done, refused without a change, or fatal, and then the connection has ended.
LEMMA Written ==
  ASSUME Callbacks, NEW x \in State, Told(x), NEW put
  PROVE  \/ x.c.stream = "open" /\ stream_write(x, put) = [x EXCEPT !.ret = "ok", !.h = put]
         \/ x.c.stream \notin {"open", "shut"} /\ stream_write(x, put) = [x EXCEPT !.ret = "WRITE"]
         \/ x.c.stream = "open" /\ x.outcome = "nomem" /\ stream_write(x, put) = [x EXCEPT !.ret = "NOMEM"]
         \/ /\ x.outcome = "fatal" \/ x.c.stream = "shut"
            /\ stream_write(x, put).ret = "WRITE" /\ Ended(x, stream_write(x, put))
<1> DEFINE y == [x EXCEPT !.c.stream = "closed"]
           z == ws_stream_on_error(y, "WRITE")
<1>1. CASE x.c.stream \in {"open", "shut"} /\ (x.outcome = "fatal" \/ x.c.stream = "shut")
  <2>1. y \in State /\ Told(y) /\ Keeps(x, y)
    BY DEF Told, Apart, Keeps, State, Conn
  <2> HIDE DEF y
  <2>2. Ended(y, z)
    BY <2>1, StreamError
  <2> HIDE DEF z
  <2>3. stream_write(x, put) = [z EXCEPT !.ret = "WRITE"]
    BY <1>1 DEF stream_write, y, z
  <2>4. Ended(y, [z EXCEPT !.ret = "WRITE"]) /\ [z EXCEPT !.ret = "WRITE"].ret = "WRITE"
    BY <2>2, ResultOnly, KeepsTwice DEF Ended
  <2> QED BY <1>1, <2>1, <2>3, <2>4, KeepsTwice DEF Ended
<1>2. CASE x.c.stream \notin {"open", "shut"}
  BY <1>2 DEF stream_write
<1>3. CASE x.c.stream = "open" /\ x.outcome # "fatal"
  BY <1>3 DEF stream_write
<1> QED BY <1>1, <1>2, <1>3
-----------------------------------------------------------------------------
(* Sending. *)

\* f is the history g with one more frame on the wire.
Adds(g, kind, n, f) ==
  /\ f \in Hist
  /\ f.ok <=> g.ok /\ (kind = "data" => ~g.closed)
  /\ f.closed <=> g.closed \/ kind = "close"
  /\ f.sync <=> g.sync /\ n \in {-1, 0, g.peer_ctx}
  /\ f.peer_ctx = IF n = -1 \/ g.resets THEN g.peer_ctx ELSE n + 1
  /\ (f.lost <=> g.lost) /\ (f.resets <=> g.resets)
  /\ (f.opened <=> g.opened) /\ (f.ended <=> g.ended) /\ (f.gone <=> g.gone)
  /\ (f.refused <=> g.refused) /\ f.answer = g.answer

\* The peer reads a frame that was sent.
LEMMA OnWireAdds ==
  ASSUME NEW g \in Hist, NEW kind \in {"data", "close", "ping", "pong"}, NEW n \in Nat \cup {-1}
  PROVE  Adds(g, kind, n, OnWire(g, Frame(kind, n)))
<1> DEFINE a == g.ok /\ (kind = "data" => ~g.closed)
           b == g.closed \/ kind = "close"
           d == g.sync /\ n \in {-1, 0, g.peer_ctx}
           p == IF n = -1 \/ g.resets THEN g.peer_ctx ELSE n + 1
           f == OnWire(g, Frame(kind, n))
<1>1. a \in BOOLEAN /\ b \in BOOLEAN /\ d \in BOOLEAN
  OBVIOUS
<1>2. p \in Nat
  BY DEF Hist
<1>3. f = [g EXCEPT !.ok = a, !.closed = b, !.sync = d, !.peer_ctx = p]
  BY DEF OnWire, Frame
<1> HIDE DEF a, b, d, p, f
<1>4. /\ f \in Hist /\ f.ok = a /\ f.closed = b /\ f.sync = d /\ f.peer_ctx = p
      /\ f.opened = g.opened /\ f.ended = g.ended /\ f.gone = g.gone
      /\ f.refused = g.refused /\ f.answer = g.answer /\ f.lost = g.lost /\ f.resets = g.resets
  BY <1>1, <1>2, <1>3, ZenonT(60) DEF Hist
<1>5. Adds(g, kind, n, f)
  BY <1>4 DEF Adds, a, b, d, p
<1> QED BY <1>5 DEF f

\* A control frame adds nothing but a close to the history.
LEMMA ControlAdds ==
  ASSUME NEW g \in Hist, NEW kind \in {"close", "ping", "pong"}
  PROVE  Adds(g, kind, -1, OnWire(g, Frame(kind, -1)))
<1>1. kind \in {"data", "close", "ping", "pong"} /\ -1 \in Nat \cup {-1}
  OBVIOUS
<1> QED BY <1>1, OnWireAdds

\* A frame that is neither data nor a close changes nothing.
LEMMA ControlSent ==
  ASSUME Callbacks, NEW x, Good(x), NEW kind \in {"ping", "pong"}
  PROVE  LET y == send_frame(x, kind)
         IN Good(y) /\ Keeps(x, y) /\ (y.ret = "WRITE" => y.c.state = "CLOSED")
<1> DEFINE put == OnWire(x.h, Frame(kind, -1))
           y == send_frame(x, kind)
<1>0. x \in State /\ Told(x) /\ Live(x) /\ x.h \in Hist
  BY DEF Good, State
<1>1. CASE x.c.state \notin {"OPEN", "CLOSING"}
  <2>1. y = [x EXCEPT !.ret = "INVAL"]
    BY <1>1 DEF send_frame, send_frame_raw, Frame
  <2> QED BY <2>1, ResultOnly
<1>2. CASE x.c.state \in {"OPEN", "CLOSING"}
  <2>1. y = stream_write(x, put)
    BY <1>2 DEF send_frame, send_frame_raw, Frame
  <2>2. x.c.stream \in {"open", "shut"}
    BY <1>0, <1>2 DEF Live
  <2>3. CASE y = [x EXCEPT !.ret = "ok", !.h = put]
    <3>1. /\ put \in Hist
          /\ (put.ok <=> x.h.ok) /\ (put.closed <=> x.h.closed) /\ (put.sync <=> x.h.sync)
          /\ put.peer_ctx = x.h.peer_ctx
          /\ (put.opened <=> x.h.opened) /\ (put.ended <=> x.h.ended) /\ (put.gone <=> x.h.gone)
          /\ (put.refused <=> x.h.refused) /\ put.answer = x.h.answer
          /\ (put.lost <=> x.h.lost) /\ (put.resets <=> x.h.resets)
      <4>1. Adds(x.h, kind, -1, put)
        BY <1>0, ControlAdds
      <4> HIDE DEF put
      <4> QED BY <4>1 DEF Adds
    <3> HIDE DEF put, y
    <3>2. y \in State /\ y.c = x.c /\ y.h = put /\ y.plan = x.plan /\ y.outcome = x.outcome /\ y.ret = "ok"
      BY <1>0, <2>3, <3>1 DEF State
    <3>3. Good(y)
      BY <1>0, <3>1, <3>2 DEF Good, Told, Apart, Live, Opening, InStep
    <3>4. Keeps(x, y)
      BY <1>0, <3>1, <3>2 DEF Keeps, State, Conn
    <3> QED BY <3>2, <3>3, <3>4 DEF y
  <2>4. CASE y = [x EXCEPT !.ret = "NOMEM"]
    BY <2>4, ResultOnly
  <2>5. CASE Ended(x, y)
    BY <2>5 DEF Ended
  <2> QED BY <1>0, <2>1, <2>2, <2>3, <2>4, <2>5, Written
<1> QED BY <1>1, <1>2

\* A close frame is on the wire and nothing else has changed, or the sending has failed.
LEMMA CloseSent ==
  ASSUME Callbacks, NEW x, Good(x)
  PROVE  LET y == send_frame(x, "close")
         IN /\ y \in State /\ Told(y) /\ Keeps(x, y)
            /\ IF y.ret = "ok" THEN x.c.state \in {"OPEN", "CLOSING"} /\ y.c = x.c
               ELSE Good(y) /\ (y.ret = "WRITE" => y.c.state = "CLOSED")
<1> DEFINE put == OnWire(x.h, Frame("close", -1))
           y == send_frame(x, "close")
<1>0. x \in State /\ Told(x) /\ Live(x) /\ x.h \in Hist
  BY DEF Good, State
<1>1. CASE x.c.state \notin {"OPEN", "CLOSING"}
  <2>1. y = [x EXCEPT !.ret = "INVAL"]
    BY <1>1 DEF send_frame, send_frame_raw, Frame
  <2> QED BY <2>1, ResultOnly DEF Good
<1>2. CASE x.c.state \in {"OPEN", "CLOSING"}
  <2>1. y = stream_write(x, put)
    BY <1>2 DEF send_frame, send_frame_raw, Frame
  <2>2. x.c.stream \in {"open", "shut"}
    BY <1>0, <1>2 DEF Live
  <2>3. CASE y = [x EXCEPT !.ret = "ok", !.h = put]
    <3>1. /\ put \in Hist
          /\ (put.ok <=> x.h.ok) /\ (put.sync <=> x.h.sync)
          /\ (put.opened <=> x.h.opened) /\ (put.ended <=> x.h.ended) /\ (put.gone <=> x.h.gone)
          /\ (put.refused <=> x.h.refused) /\ put.answer = x.h.answer
          /\ (put.lost <=> x.h.lost) /\ (put.resets <=> x.h.resets)
      <4>1. Adds(x.h, "close", -1, put)
        BY <1>0, ControlAdds
      <4> HIDE DEF put
      <4> QED BY <4>1 DEF Adds
    <3> HIDE DEF put, y
    <3>2. y \in State /\ y.c = x.c /\ y.h = put /\ y.plan = x.plan /\ y.outcome = x.outcome /\ y.ret = "ok"
      BY <1>0, <2>3, <3>1 DEF State
    <3>3. Told(y)
      BY <1>0, <3>1, <3>2 DEF Told, Apart
    <3>4. Keeps(x, y)
      BY <1>0, <3>1, <3>2 DEF Keeps, State, Conn
    <3> QED BY <1>2, <3>2, <3>3, <3>4 DEF y
  <2>4. CASE y = [x EXCEPT !.ret = "NOMEM"]
    BY <2>4, ResultOnly DEF Good
  <2>5. CASE y.ret = "WRITE" /\ Ended(x, y)
    BY <2>5 DEF Ended, Good
  <2> QED BY <1>0, <2>1, <2>2, <2>3, <2>4, <2>5, Written, ZenonT(60)
<1> QED BY <1>1, <1>2

\* ws_send_close_code ends the connection whether the frame could be sent or not.
LEMMA CloseCodeSent ==
  ASSUME Callbacks, NEW x, Good(x)
  PROVE  Ended(x, ws_send_close_code(x))
<1> DEFINE y == send_frame(x, "close")
<1>1. y \in State /\ Told(y) /\ Keeps(x, y)
  BY CloseSent
<1> HIDE DEF y
<1>2. Ended(y, ws_enter_closed(y))
  BY <1>1, EnterClosed
<1> QED BY <1>1, <1>2, KeepsTwice DEF Ended, ws_send_close_code, y

\* Data with the context n, from a connection that is open and has its compressor one
\* further: it is on the wire, or there was no memory for it, or the connection has ended.
LEMMA DataSent ==
  ASSUME Callbacks, NEW x \in State, Told(x), x.c.state = "OPEN", x.c.stream = "open",
         x.h.opened, ~x.h.refused, ~x.h.closed, NEW n \in Nat \cup {-1},
         n \in {-1, 0, x.h.peer_ctx} \/ Apart(x),
         x.c.deflate.on => IF x.c.deflate.reset THEN x.c.ctx = 0
                           ELSE ~x.h.lost /\ ~x.h.resets => x.c.ctx = IF n = -1 THEN x.h.peer_ctx ELSE n + 1
  PROVE  LET y == send_frame_raw(x, Frame("data", n))
         IN \/ y = [x EXCEPT !.ret = "NOMEM"]
            \/ Good(y) /\ Keeps(x, y) /\ y.ret # "NOMEM" /\ (y.ret = "WRITE" => y.c.state = "CLOSED")
<1> DEFINE put == OnWire(x.h, Frame("data", n))
           y == send_frame_raw(x, Frame("data", n))
<1>0. x.h \in Hist
  BY DEF State
<1>1. y = stream_write(x, put)
  BY DEF send_frame_raw, Frame
<1>2. CASE y = [x EXCEPT !.ret = "ok", !.h = put]
  <2>1. /\ put \in Hist
        /\ put.ok <=> x.h.ok /\ ~x.h.closed
        /\ put.closed <=> x.h.closed
        /\ put.sync <=> x.h.sync /\ n \in {-1, 0, x.h.peer_ctx}
        /\ put.peer_ctx = IF n = -1 \/ x.h.resets THEN x.h.peer_ctx ELSE n + 1
        /\ (put.lost <=> x.h.lost) /\ (put.resets <=> x.h.resets)
        /\ (put.opened <=> x.h.opened) /\ (put.ended <=> x.h.ended) /\ (put.gone <=> x.h.gone)
        /\ (put.refused <=> x.h.refused) /\ put.answer = x.h.answer
    <3>1. Adds(x.h, "data", n, put)
      BY <1>0, OnWireAdds
    <3> HIDE DEF put
    <3> QED BY <3>1 DEF Adds
  <2> HIDE DEF put, y
  <2>2. y \in State /\ y.c = x.c /\ y.h = put /\ y.plan = x.plan /\ y.outcome = x.outcome /\ y.ret = "ok"
    BY <1>2, <2>1 DEF State
  <2>3. Told(y)
    BY <2>1, <2>2 DEF Told, Apart
  <2>4. Live(y)
    BY <2>1, <2>2 DEF Live, InStep
  <2>5. Keeps(x, y)
    BY <2>1, <2>2 DEF Keeps, State, Conn
  <2> QED BY <2>2, <2>3, <2>4, <2>5 DEF Good, y
<1>3. CASE y = [x EXCEPT !.ret = "NOMEM"]
  BY <1>3
<1>4. CASE y.ret = "WRITE" /\ Ended(x, y)
  BY <1>4 DEF Ended
<1>5. \/ y = [x EXCEPT !.ret = "ok", !.h = put]
      \/ y = [x EXCEPT !.ret = "NOMEM"]
      \/ y.ret = "WRITE" /\ Ended(x, y)
  <2>1. \/ x.c.stream = "open" /\ y = [x EXCEPT !.ret = "ok", !.h = put]
        \/ x.c.stream \notin {"open", "shut"} /\ y = [x EXCEPT !.ret = "WRITE"]
        \/ x.c.stream = "open" /\ x.outcome = "nomem" /\ y = [x EXCEPT !.ret = "NOMEM"]
        \/ /\ x.outcome = "fatal" \/ x.c.stream = "shut"
           /\ y.ret = "WRITE" /\ Ended(x, y)
    <3> HIDE DEF put, y
    <3> QED BY <1>1, Written, Zenon
  <2> HIDE DEF put, y
  <2> QED BY <2>1
<1> QED BY <1>2, <1>3, <1>4, <1>5

\* A dropped message is noted: the contexts need not be the same any more.
LEMMA LostNoted ==
  ASSUME NEW x \in State, Told(x), NEW b \in BOOLEAN,
         \/ Live(x)
         \/ /\ b /\ x.c.state = "OPEN" /\ x.h.opened /\ ~x.h.refused /\ ~x.h.closed /\ x.c.stream = "open"
            /\ x.c.deflate.on /\ x.c.deflate.reset => x.c.ctx = 0
  PROVE  LET y == [x EXCEPT !.h.lost = @ \/ b]
         IN Good(y) /\ Keeps(x, y) /\ y.c = x.c /\ y.ret = x.ret
<1> DEFINE a == x.h.lost \/ b
           y == [x EXCEPT !.h.lost = a]
<1>1. a \in BOOLEAN
  OBVIOUS
<1>2. (a <=> x.h.lost \/ b) /\ y = [x EXCEPT !.h.lost = @ \/ b]
  OBVIOUS
<1> HIDE DEF a
<1>3. /\ y \in State /\ y.c = x.c /\ y.plan = x.plan /\ y.outcome = x.outcome /\ y.ret = x.ret
      /\ y.h.lost = a
      /\ y.h.ok = x.h.ok /\ y.h.sync = x.h.sync /\ y.h.gone = x.h.gone /\ y.h.resets = x.h.resets
      /\ y.h.ended = x.h.ended /\ y.h.opened = x.h.opened /\ y.h.refused = x.h.refused
      /\ y.h.closed = x.h.closed /\ y.h.peer_ctx = x.h.peer_ctx /\ y.h.answer = x.h.answer
  BY <1>1 DEF State, Hist
<1> HIDE DEF y
<1>4. Told(y)
  BY <1>2, <1>3 DEF Told, Apart
<1>5. Live(y)
  BY <1>2, <1>3 DEF Live, Opening, InStep
<1>6. Keeps(x, y)
  BY <1>2, <1>3 DEF Keeps, State, Conn
<1> QED BY <1>2, <1>3, <1>4, <1>5, <1>6 DEF Good

\* A message, compressed or not: the contexts of the two ends stay the same, or it is noted.
LEMMA MessageSent ==
  ASSUME Callbacks, NEW x, Good(x)
  PROVE  LET y == send_message(x)
         IN Good(y) /\ Keeps(x, y) /\ (y.ret = "WRITE" => y.c.state = "CLOSED")
<1>0. x \in State /\ Told(x) /\ Live(x) /\ x.c \in Conn
  BY DEF Good, State
<1>1. CASE ~x.c.deflate.on /\ x.c.state # "OPEN"
  <2>1. send_message(x) = [x EXCEPT !.ret = "INVAL"]
    BY <1>1 DEF send_message, send_frame, send_frame_raw, Frame
  <2> QED BY <2>1, ResultOnly
<1>2. CASE ~x.c.deflate.on /\ x.c.state = "OPEN"
  <2>1. send_message(x) = send_frame_raw(x, Frame("data", -1))
    BY <1>2 DEF send_message, send_frame
  <2>2. x.c.stream = "open" /\ x.h.opened /\ ~x.h.refused /\ ~x.h.closed
    BY <1>0, <1>2 DEF Live
  <2>3. -1 \in Nat \cup {-1} /\ -1 \in {-1, 0, x.h.peer_ctx}
    OBVIOUS
  <2> DEFINE y == send_frame_raw(x, Frame("data", -1))
  <2>4. \/ y = [x EXCEPT !.ret = "NOMEM"]
        \/ Good(y) /\ Keeps(x, y) /\ y.ret # "NOMEM" /\ (y.ret = "WRITE" => y.c.state = "CLOSED")
    BY <1>0, <1>2, <2>2, <2>3, DataSent
  <2> HIDE DEF y
  <2>5. CASE y = [x EXCEPT !.ret = "NOMEM"]
    <3>1. Good(y) /\ Keeps(x, y) /\ y.ret = "NOMEM"
      BY <2>5, ResultOnly
    <3> QED BY <2>1, <3>1 DEF y
  <2> QED BY <2>1, <2>4, <2>5 DEF y
<1>3. CASE x.c.deflate.on
  <2> DEFINE n == IF x.c.deflate.reset THEN 0 ELSE x.c.ctx + 1
             y == [x EXCEPT !.c.ctx = n]
             z == send_frame_raw(y, Frame("data", x.c.ctx))
             b == z.ret = "NOMEM"
             w == [z EXCEPT !.h.lost = @ \/ b]
  <2>1. send_message(x) = w /\ b \in BOOLEAN
    BY <1>3 DEF send_message
  <2>2. n \in Nat /\ x.c.ctx \in Nat
    BY <1>0 DEF Conn
  <2> HIDE DEF n
  <2>3. /\ y \in State /\ y.h = x.h /\ y.plan = x.plan /\ y.outcome = x.outcome
        /\ y.c.ctx = n /\ y.c.state = x.c.state /\ y.c.stream = x.c.stream /\ y.c.deflate = x.c.deflate
        /\ y.c.destroyed = x.c.destroyed /\ y.c.timer = x.c.timer /\ y.c.busy = x.c.busy /\ y.c.life = x.c.life
    BY <1>0, <2>2 DEF State, Conn
  <2>4. Keeps(x, y)
    BY <1>0, <2>2 DEF Keeps, State, Conn
  <2> HIDE DEF y
  <2>5. Told(y)
    BY <1>0, <2>3 DEF Told, Apart
  <2>6. CASE x.c.state # "OPEN"
    <3>1. Good(y)
      BY <1>0, <1>3, <2>3, <2>5, <2>6 DEF Good, Live, Opening
    <3>2. z = [y EXCEPT !.ret = "INVAL"]
      BY <2>3, <2>6 DEF send_frame_raw, Frame
    <3>3. Good(z) /\ Keeps(y, z) /\ z.ret = "INVAL"
      BY <3>1, <3>2, ResultOnly
    <3> HIDE DEF z
    <3>4. Good(w) /\ Keeps(z, w) /\ w.ret = z.ret
      BY <2>1, <3>3, LostNoted DEF Good
    <3> HIDE DEF w
    <3> QED BY <2>1, <2>4, <3>3, <3>4, KeepsTwice
  <2>7. CASE x.c.state = "OPEN"
    <3>1. y.c.state = "OPEN" /\ y.c.stream = "open" /\ y.h.opened /\ ~y.h.refused /\ ~y.h.closed
      BY <1>0, <2>3, <2>7 DEF Live
    <3>2. x.c.ctx \in {-1, 0, y.h.peer_ctx} \/ Apart(y)
      BY <1>0, <1>3, <2>3, <2>7 DEF Live, InStep, Apart
    <3>3. y.c.deflate.on => IF y.c.deflate.reset THEN y.c.ctx = 0
                            ELSE ~y.h.lost /\ ~y.h.resets =>
                                   y.c.ctx = IF x.c.ctx = -1 THEN y.h.peer_ctx ELSE x.c.ctx + 1
      BY <2>2, <2>3 DEF n
    <3>4. \/ z = [y EXCEPT !.ret = "NOMEM"]
          \/ Good(z) /\ Keeps(y, z) /\ z.ret # "NOMEM" /\ (z.ret = "WRITE" => z.c.state = "CLOSED")
      BY <2>2, <2>3, <2>5, <3>1, <3>2, <3>3, DataSent
    <3> HIDE DEF z
    <3>5. /\ z \in State /\ Told(z) /\ Keeps(y, z) /\ (z.ret = "WRITE" => z.c.state = "CLOSED")
          /\ \/ Live(z)
             \/ /\ b /\ z.c.state = "OPEN" /\ z.h.opened /\ ~z.h.refused /\ ~z.h.closed /\ z.c.stream = "open"
                /\ z.c.deflate.on /\ z.c.deflate.reset => z.c.ctx = 0
      <4>1. CASE z = [y EXCEPT !.ret = "NOMEM"]
        <5>1. z \in State /\ z.c = y.c /\ z.h = y.h /\ z.plan = y.plan /\ z.outcome = y.outcome /\ z.ret = "NOMEM"
          BY <2>3, <4>1 DEF State
        <5>2. Told(z) /\ Keeps(y, z)
          BY <2>3, <2>5, <5>1 DEF Told, Apart, Keeps, State, Conn
        <5> QED BY <3>1, <3>3, <5>1, <5>2
      <4>2. CASE Good(z) /\ Keeps(y, z) /\ z.ret # "NOMEM" /\ (z.ret = "WRITE" => z.c.state = "CLOSED")
        BY <4>2 DEF Good
      <4> QED BY <3>4, <4>1, <4>2
    <3> HIDE DEF b
    <3>6. Good(w) /\ Keeps(z, w) /\ w.c = z.c /\ w.ret = z.ret
      BY <2>1, <3>5, LostNoted
    <3> HIDE DEF w
    <3> QED BY <2>1, <2>4, <3>5, <3>6, KeepsTwice
  <2> QED BY <2>6, <2>7
<1> QED BY <1>1, <1>2, <1>3

-----------------------------------------------------------------------------
(* Errors. *)

\* A fatal error ends the connection; it is told unless the end has been told.
LEMMA Fatal ==
  ASSUME Callbacks, ~LateFails, NEW x \in State, Told(x), NEW err,
         x.c.state # "CLOSED" => ~x.h.refused, x.c.state = "OPEN" => x.c.stream # "shut"
  PROVE  Ended(x, ws_fatal(x, err))
<1>1. CASE x.c.state = "CLOSED"
  BY <1>1, KeepsSelf DEF ws_fatal, Ended, Good, Live
<1>2. CASE x.c.state # "CLOSED" /\ ~(err = "PROTOCOL" /\ x.c.state = "OPEN")
  <2>1. ~x.c.destroyed
    BY <1>2 DEF Told, Apart
  <2> QED BY <1>2, <2>1, EndTold DEF ws_fatal, Ended
<1>3. CASE err = "PROTOCOL" /\ x.c.state = "OPEN"
  <2> DEFINE u == [x EXCEPT !.c.state = "CLOSING", !.outcome = "ok"]
             v == send_frame(u, "close")
             w == [v EXCEPT !.outcome = x.outcome]
             put == OnWire(u.h, Frame("close", -1))
  <2>0. ~x.c.destroyed
    BY <1>3 DEF Told, Apart
  <2>1. ws_fatal(x, err) = Notify(Closed(w), "error")
    BY <1>3, <2>0 DEF ws_fatal
  <2>2. /\ u \in State /\ u.h = x.h /\ u.plan = x.plan /\ u.outcome = "ok"
        /\ u.c.state = "CLOSING" /\ u.c.stream = x.c.stream /\ u.c.deflate = x.c.deflate
        /\ u.c.destroyed = x.c.destroyed /\ u.c.timer = x.c.timer /\ u.c.busy = x.c.busy
        /\ u.c.cfg = x.c.cfg /\ u.c.buf = x.c.buf /\ u.c.key = x.c.key /\ u.c.redirects = x.c.redirects
        /\ u.c.life = x.c.life
    BY DEF State, Conn
  <2> HIDE DEF u
  <2>3. Told(u)
    BY <1>3, <2>0, <2>2 DEF Told, Apart
  <2>4. v = stream_write(u, put)
    BY <2>2 DEF send_frame, send_frame_raw, Frame
  <2>5. v = [u EXCEPT !.ret = "ok", !.h = put] \/ v = [u EXCEPT !.ret = "WRITE"]
    BY <1>3, <2>2, <2>4 DEF stream_write, State, Conn
  <2>6. /\ put \in Hist
        /\ (put.ok <=> x.h.ok) /\ (put.sync <=> x.h.sync)
        /\ (put.opened <=> x.h.opened) /\ (put.ended <=> x.h.ended) /\ (put.gone <=> x.h.gone)
        /\ (put.refused <=> x.h.refused) /\ put.answer = x.h.answer
        /\ (put.lost <=> x.h.lost) /\ (put.resets <=> x.h.resets)
    <3>1. u.h \in Hist
      BY <2>2 DEF State
    <3>2. Adds(u.h, "close", -1, put)
      BY <3>1, ControlAdds
    <3> HIDE DEF put
    <3> QED BY <2>2, <3>2 DEF Adds
  <2> HIDE DEF v, put
  <2>7. /\ w \in State /\ w.c = u.c /\ w.h \in {u.h, put} /\ w.plan = u.plan /\ w.outcome = x.outcome
    BY <2>2, <2>5, <2>6 DEF State
  <2> HIDE DEF w
  <2>8. Told(w)
    BY <2>2, <2>3, <2>6, <2>7 DEF Told, Apart
  <2>9. Keeps(x, w)
    BY <1>3, <2>2, <2>6, <2>7 DEF Keeps
  <2>10. w.c.state # "CLOSED" /\ ~w.h.refused
    BY <1>3, <2>2, <2>6, <2>7
  <2> QED BY <2>1, <2>7, <2>8, <2>9, <2>10, EndTold, KeepsTwice DEF Ended
<1> QED BY <1>1, <1>2, <1>3

\* What the senders do with the result: where the stream has failed, it has told of the end.
LEMMA SentSame ==
  ASSUME NEW x, x.ret = "WRITE" => x.c.state = "CLOSED"
  PROVE  Sent(x) = x
BY DEF Sent, ws_fatal

-----------------------------------------------------------------------------
(* The calls of the user's. *)

\* sevent_ws_send_text.
LEMMA TextSent ==
  ASSUME Callbacks, NEW x, Good(x)
  PROVE  Good(sevent_ws_send_text(x)) /\ Keeps(x, sevent_ws_send_text(x))
<1> DEFINE y == [x EXCEPT !.h.sends = @ + 1]
           z == send_message(y)
<1>1. /\ y \in State /\ y.c = x.c /\ y.plan = x.plan /\ y.outcome = x.outcome
      /\ (y.h.ok <=> x.h.ok) /\ (y.h.sync <=> x.h.sync) /\ (y.h.gone <=> x.h.gone)
      /\ (y.h.ended <=> x.h.ended) /\ (y.h.opened <=> x.h.opened) /\ (y.h.refused <=> x.h.refused)
      /\ (y.h.closed <=> x.h.closed) /\ y.h.peer_ctx = x.h.peer_ctx /\ y.h.answer = x.h.answer
      /\ (y.h.lost <=> x.h.lost) /\ (y.h.resets <=> x.h.resets)
  BY DEF Good, State, Hist
<1> HIDE DEF y
<1>2. Good(y)
  BY <1>1 DEF Good, Told, Apart, Live, Opening, InStep
<1>3. Keeps(x, y)
  BY <1>1 DEF Keeps, Good, State, Conn
<1>4. Good(z) /\ Keeps(y, z) /\ (z.ret = "WRITE" => z.c.state = "CLOSED")
  BY <1>2, MessageSent
<1> HIDE DEF z
<1>5. sevent_ws_send_text(x) = z
  BY <1>4, SentSame DEF sevent_ws_send_text, y, z
<1> QED BY <1>3, <1>4, <1>5, KeepsTwice

\* sevent_ws_ping.
LEMMA PingSent ==
  ASSUME Callbacks, NEW x, Good(x)
  PROVE  Good(sevent_ws_ping(x)) /\ Keeps(x, sevent_ws_ping(x))
<1> DEFINE y == send_frame(x, "ping")
<1>1. Good(y) /\ Keeps(x, y) /\ (y.ret = "WRITE" => y.c.state = "CLOSED")
  BY ControlSent
<1> HIDE DEF y
<1>2. sevent_ws_ping(x) = y
  BY <1>1, SentSame DEF sevent_ws_ping, y
<1> QED BY <1>1, <1>2

\* sevent_ws_shutdown: CLOSING only if the connection has not ended in the call.
LEMMA ShutDown ==
  ASSUME Callbacks, NEW x, Good(x)
  PROVE  Good(sevent_ws_shutdown(x)) /\ Keeps(x, sevent_ws_shutdown(x))
<1> DEFINE y == send_frame(x, "close")
           z == [y EXCEPT !.c.state = "CLOSING"]
<1>1. CASE x.c.state # "OPEN"
  BY <1>1, ResultOnly DEF sevent_ws_shutdown
<1>2. CASE x.c.state = "OPEN"
  <2>1. /\ y \in State /\ Told(y) /\ Keeps(x, y)
        /\ IF y.ret = "ok" THEN y.c = x.c
           ELSE Good(y) /\ (y.ret = "WRITE" => y.c.state = "CLOSED")
    BY CloseSent
  <2> HIDE DEF y
  <2>2. CASE y.ret = "ok"
    <3>1. y.c.state = "OPEN" /\ ~y.c.destroyed /\ y.c.stream = "open" /\ y.h.opened /\ ~y.h.refused
      BY <1>2, <2>1, <2>2 DEF Good, Live, Told, Apart, Keeps
    <3>2. /\ z \in State /\ z.h = y.h /\ z.plan = y.plan /\ z.outcome = y.outcome /\ z.ret = "ok"
          /\ z.c.state = "CLOSING" /\ z.c.stream = y.c.stream /\ z.c.timer = y.c.timer
          /\ z.c.destroyed = y.c.destroyed /\ z.c.busy = y.c.busy /\ z.c.life = y.c.life
          /\ z.c.deflate = y.c.deflate
      BY <2>1, <2>2 DEF State, Conn
    <3>3. Keeps(y, z)
      BY <2>1, <2>2, <3>1 DEF Keeps, State, Conn
    <3> HIDE DEF z
    <3>4. Good(z)
      BY <2>1, <3>1, <3>2 DEF Good, Told, Apart, Live
    <3>5. sevent_ws_shutdown(x) = Sent(z)
      BY <1>2, <2>2, <3>1 DEF sevent_ws_shutdown, y, z
    <3> QED BY <2>1, <3>2, <3>3, <3>4, <3>5, SentSame, KeepsTwice
  <2>3. CASE y.ret # "ok"
    <3>1. sevent_ws_shutdown(x) = Sent(y)
      BY <1>2, <2>3 DEF sevent_ws_shutdown, y
    <3> QED BY <2>1, <2>3, <3>1, SentSame
  <2> QED BY <2>2, <2>3
<1> QED BY <1>1, <1>2

\* sevent_ws_close and sevent_ws_destroy: nothing is told after them.
LEMMA UserClosed ==
  ASSUME NEW x, Good(x)
  PROVE  /\ Good(sevent_ws_close(x)) /\ Keeps(x, sevent_ws_close(x))
         /\ x.c.life = "live" => Good(sevent_ws_destroy(x)) /\ Keeps(x, sevent_ws_destroy(x))
<1> DEFINE y == Closed(x)
           z == sevent_ws_close(x)
           w == sevent_ws_destroy(x)
<1>1. /\ y \in State /\ Keeps(x, y) /\ y.h = x.h /\ y.c.state = "CLOSED" /\ y.c.stream \in {"none", "closed"} /\ ~y.c.timer
      /\ y.c.destroyed = x.c.destroyed /\ y.c.life = x.c.life
  BY ClosedIs DEF Good
<1> HIDE DEF y
<1>2. z = [y EXCEPT !.c.destroyed = TRUE, !.h.gone = TRUE] /\ w = [z EXCEPT !.c.life = "posted"]
  BY DEF sevent_ws_close, sevent_ws_destroy, y
<1> HIDE DEF z, w
<1>3. /\ z \in State /\ z.plan = y.plan /\ z.outcome = y.outcome
      /\ (z.h.ok <=> y.h.ok) /\ (z.h.sync <=> y.h.sync) /\ (z.h.opened <=> y.h.opened)
      /\ (z.h.refused <=> y.h.refused) /\ z.h.answer = y.h.answer
      /\ (z.h.lost <=> y.h.lost) /\ (z.h.resets <=> y.h.resets)
      /\ z.c.state = "CLOSED" /\ z.c.stream = y.c.stream /\ ~z.c.timer /\ z.c.destroyed
      /\ z.c.busy = y.c.busy /\ z.c.life = y.c.life /\ z.c.cfg = y.c.cfg /\ z.c.buf = y.c.buf
      /\ z.c.key = y.c.key /\ z.c.redirects = y.c.redirects /\ z.c.deflate = y.c.deflate
  BY <1>1, <1>2, ZenonT(60) DEF State, Conn, Hist
<1>4. Good(z)
  BY <1>1, <1>3 DEF Good, Told, Apart, Live, Keeps
<1>5. Keeps(x, z)
  BY <1>1, <1>3 DEF Keeps
<1>6. ASSUME x.c.life = "live" PROVE Good(w) /\ Keeps(x, w)
  <2>0. z \in State /\ w = [z EXCEPT !.c.life = "posted"]
    BY <1>2, <1>3
  <2>1. /\ w \in State /\ w.plan = z.plan /\ w.outcome = z.outcome /\ w.h = z.h
        /\ w.c.state = z.c.state /\ w.c.stream = z.c.stream /\ w.c.timer = z.c.timer
        /\ w.c.destroyed = z.c.destroyed
        /\ w.c.busy = z.c.busy /\ w.c.life = "posted" /\ w.c.cfg = z.c.cfg /\ w.c.buf = z.c.buf
        /\ w.c.key = z.c.key /\ w.c.redirects = z.c.redirects /\ w.c.deflate = z.c.deflate
    BY <2>0 DEF State, Conn
  <2>2. Good(w)
    BY <1>3, <1>4, <2>1 DEF Good, Told, Apart, Live
  <2> QED BY <1>3, <1>5, <1>6, <2>1, <2>2 DEF Keeps
<1> QED BY <1>4, <1>5, <1>6 DEF z, w

\* A call of the user's, in a callback or not, keeps what the notifications rest on.
LEMMA Acted ==
  ASSUME Callbacks, NEW x, Good(x), NEW act \in {"send", "ping", "shutdown", "close", "destroy"}
  PROVE  Good(Act(x, act)) /\ Keeps(x, Act(x, act))
<1>1. CASE x.c.life # "live"
  BY <1>1, KeepsSelf DEF Act, Good
<1>2. CASE x.c.life = "live" /\ act = "send"
  BY <1>2, TextSent, KeepsSelf DEF Act, Good
<1>3. CASE x.c.life = "live" /\ act = "ping"
  BY <1>3, PingSent DEF Act
<1>4. CASE x.c.life = "live" /\ act = "shutdown"
  BY <1>4, ShutDown DEF Act
<1>5. CASE x.c.life = "live" /\ act \in {"close", "destroy"}
  BY <1>5, UserClosed DEF Act
<1> QED BY <1>1, <1>2, <1>3, <1>4, <1>5

-----------------------------------------------------------------------------
(* Notifications other than ends. *)

\* on_message of a connection that was opened and has not ended.
LEMMA MessageTold ==
  ASSUME Callbacks, NEW x, Good(x), x.h.opened, x.c.state # "CLOSED"
  PROVE  Good(Notify(x, "message")) /\ Keeps(x, Notify(x, "message"))
<1> DEFINE z == Telling(x, "message")
<1>1. x \in State /\ Told(x) /\ Live(x) /\ Right(x, "message")
  BY DEF Good, Told, Apart, Right
<1>2. /\ Notify(x, "message") = Called(z) /\ z \in State /\ z.c = x.c
      /\ (z.h.ok <=> x.h.ok) /\ (z.h.opened <=> x.h.opened) /\ (z.h.ended <=> x.h.ended)
      /\ (z.h.refused <=> x.h.refused) /\ (z.h.gone <=> x.h.gone) /\ (z.h.closed <=> x.h.closed)
      /\ z.h.peer_ctx = x.h.peer_ctx /\ (z.h.sync <=> x.h.sync) /\ z.h.answer = x.h.answer
      /\ (z.h.lost <=> x.h.lost) /\ (z.h.resets <=> x.h.resets)
      /\ z.plan = x.plan /\ z.outcome = x.outcome
  BY <1>1, TellingIs
<1> HIDE DEF z
<1>3. Good(z)
  BY <1>1, <1>2 DEF Good, Told, Apart, Live, Opening, InStep
<1>4. Keeps(x, z)
  BY <1>1, <1>2 DEF Keeps, State, Conn
<1>5. Good(Called(z)) /\ Keeps(z, Called(z))
  BY <1>3 DEF Callbacks, Good
<1> QED BY <1>2, <1>4, <1>5, KeepsTwice

\* on_open; t is the connection when the callback begins.
LEMMA OpenTold ==
  ASSUME Callbacks, NEW x \in State, Told(x), x.c.state = "OPEN", x.c.stream = "open",
         ~x.h.opened, ~x.h.refused, ~x.h.closed, InStep(x)
  PROVE  /\ Good(Notify(x, "open"))
         /\ \E t : /\ t.c = x.c /\ t.h.opened /\ t.h.answer = x.h.answer /\ (x.h.lost => t.h.lost)
                   /\ Keeps(t, Notify(x, "open"))
<1> DEFINE z == Telling(x, "open")
<1>1. Right(x, "open")
  BY DEF Told, Apart, Right
<1>2. /\ Notify(x, "open") = Called(z) /\ z \in State /\ z.c = x.c
      /\ (z.h.ok <=> x.h.ok) /\ z.h.opened /\ (z.h.ended <=> x.h.ended)
      /\ (z.h.refused <=> x.h.refused) /\ (z.h.gone <=> x.h.gone) /\ (z.h.closed <=> x.h.closed)
      /\ z.h.peer_ctx = x.h.peer_ctx /\ (z.h.sync <=> x.h.sync) /\ z.h.answer = x.h.answer
      /\ (z.h.lost <=> x.h.lost) /\ (z.h.resets <=> x.h.resets)
      /\ z.plan = x.plan /\ z.outcome = x.outcome
  BY <1>1, TellingIs
<1> HIDE DEF z
<1>3. Good(z)
  BY <1>1, <1>2 DEF Good, Told, Apart, Live, InStep
<1>4. Good(Called(z)) /\ Keeps(z, Called(z))
  BY <1>3 DEF Callbacks, Good
<1> QED BY <1>2, <1>4

\* The refusal of a request.
LEMMA RefusalTold ==
  ASSUME Callbacks, NEW x \in State, Told(x), x.c.state = "CLOSING", x.c.stream = "shut", ~x.h.opened
  PROVE  /\ Good(Notify(x, "refused"))
         /\ \E t : t.c = x.c /\ ~t.h.opened /\ Keeps(t, Notify(x, "refused"))
<1> DEFINE z == Telling(x, "refused")
<1>1. Right(x, "refused")
  BY DEF Told, Apart, Right
<1>2. /\ Notify(x, "refused") = Called(z) /\ z \in State /\ z.c = x.c
      /\ (z.h.ok <=> x.h.ok) /\ ~z.h.opened /\ (z.h.ended <=> x.h.ended)
      /\ z.h.refused /\ (z.h.gone <=> x.h.gone) /\ (z.h.sync <=> x.h.sync)
      /\ (z.h.lost <=> x.h.lost) /\ (z.h.resets <=> x.h.resets)
  BY <1>1, TellingIs
<1> HIDE DEF z
<1>3. Good(z)
  BY <1>1, <1>2 DEF Good, Told, Apart, Live
<1>4. Good(Called(z)) /\ Keeps(z, Called(z))
  BY <1>3 DEF Callbacks, Good
<1> QED BY <1>2, <1>4
=============================================================================
