------------------------------- MODULE WsConn -------------------------------
(***************************************************************************)
(* The life of a WebSocket connection: src/src/websockets/ws_conn.c.       *)
(* Opening as a client (with redirects) or as a server (accept, upgrade),  *)
(* sending, closing handshake, heartbeat, errors, close and destroy.       *)
(*                                                                         *)
(* A step is one callback of the transport or the loop, or one call of the *)
(* user's.  An operator with the name of a function of the code takes the  *)
(* connection with the history and returns what the function makes of it;  *)
(* ret is its result.  A step chooses the outcome of its writes, and one   *)
(* of its callbacks in which the user acts (plan): notifications, writes   *)
(* and the user's calls nest as they do in the code.  The peer sends items *)
(* (parts of HTTP messages, requests, responses, frames); how frames are   *)
(* read from bytes is WsRecv's.                                            *)
(***************************************************************************)
EXTENDS WsHandshake

CONSTANTS
  Configs,        \* configurations of the user
  Requests,       \* requests of clients that are not this library's
  Extensions,     \* extension headers of servers that are not this library's
  Acts,           \* what the user does in callbacks
  Outcomes,       \* outcomes of writes: "ok", "fatal", "nomem"
  LateFails,      \* the write of a last close frame, or of a refusal, may fail fatally
  Talkative,      \* a peer whose request was refused sends on
  MaxRedirects,   \* SEVENT_WS_MAX_REDIRECTS
  Cap,            \* recv_cap, in items
  MaxSends        \* bound: compressed messages

Calls == {"send", "ping", "shutdown", "close", "destroy"}

ConfigType ==
  [is_client : BOOLEAN, http_cb : BOOLEAN, ping : BOOLEAN, deflate : BOOLEAN,
   cnct : BOOLEAN, snct : BOOLEAN, cmwb : Nat, smwb : Nat]

ASSUME ConnAssumption ==
  /\ Configs \subseteq ConfigType
  /\ \A req \in Requests : req.is = "request"
  /\ \A ext \in Extensions : {First(ext, CMWB), First(ext, SMWB)} \subseteq Int
  /\ {MaxRedirects, Cap, MaxSends} \subseteq Nat
  /\ {LateFails, Talkative} \subseteq BOOLEAN
  /\ Acts \subseteq Calls /\ Outcomes \subseteq {"ok", "fatal", "nomem"}

VARIABLES
  c,   \* struct sevent_ws_conn, the state of its stream included
  h    \* history: what the user has been told and has done, what is on the wire

conn_vars == <<c, h>>

ConnInit ==
  /\ c = [life |-> "none", cfg |-> <<>>, state |-> "CONNECTING", destroyed |-> FALSE, timer |-> FALSE,
          stream |-> "none", buf |-> <<>>, key |-> 0, redirects |-> 0, deflate |-> NoDeflate, ctx |-> 0,
          busy |-> "no"]
  /\ h = [opened |-> FALSE, ended |-> FALSE, gone |-> FALSE, refused |-> FALSE, ok |-> TRUE,
          closed |-> FALSE, peer_ctx |-> 0, sync |-> TRUE, lost |-> FALSE, resets |-> FALSE,
          answer |-> <<>>, sends |-> 0]

-----------------------------------------------------------------------------
(* The step: x has c, h, ret, the plan and the number of callbacks so far. *)

NoPlan == [at |-> 0, act |-> "none"]
Plans == {NoPlan} \cup [at : 1 .. 2, act : Acts]

Step(plan, outcome) == [c |-> c, h |-> h, ret |-> "ok", calls |-> 0, plan |-> plan, outcome |-> outcome]

\* A callback in which the user does nothing that counts, such as one below the one of the plan.
Quiet(x) == [x EXCEPT !.calls = @ + 1]

Nested == INSTANCE WsCalls WITH Called <- Quiet

\* A callback; the user acts in it if it is the one of the plan.
Called(x) ==
  LET y == Quiet(x)
  IN IF y.calls = y.plan.at THEN Nested!Act(y, y.plan.act) ELSE y

INSTANCE WsCalls

-----------------------------------------------------------------------------
(* Frames. *)

\* CLOSE is answered unless this end has sent one.
handle_close(x) ==
  ws_enter_closed(IF x.c.state = "CLOSING" THEN x ELSE [send_frame(x, "close") EXCEPT !.ret = "ok"])

handle_frame(x, kind) ==
  CASE kind = "data"     -> Notify(x, "message")
    [] kind = "bad text" -> ws_send_close_code(x)
    [] kind = "ping"     -> send_frame(x, "pong")
    [] kind = "pong"     -> Called(x)
    [] kind = "close"    -> handle_close(x)
    [] kind = "bad"      -> [x EXCEPT !.ret = "PROTOCOL"]

\* The results that count as errors behind the handshake and later.
Error(x) == IF x.c.busy = "handshake" THEN x.ret \notin {"ok", "NOMEM"} ELSE x.ret # "ok"

\* The next frame; HTTP in the place of a frame is bad.  The results of calls of the user's
\* are not the frame's.
process_frame(x) ==
  LET item == Head(x.c.buf)
      kind == IF item.is = "frame" THEN item.kind ELSE "bad"
      y    == handle_frame(x, kind)
      z    == IF kind \in {"ping", "bad"} THEN y ELSE [y EXCEPT !.ret = "ok"]
  IN IF Error(z) THEN ws_fatal([z EXCEPT !.c.busy = "no"], z.ret)
     ELSE IF z.ret # "ok" THEN [z EXCEPT !.c.busy = "no"]
     ELSE [z EXCEPT !.c.buf = Tail(@)]

-----------------------------------------------------------------------------
(* Handshakes. *)

\* OPEN, on_open, the heartbeat, and the frames that came with the HTTP message.
Established(x, n) ==
  LET y == Notify([x EXCEPT !.c.buf = SubSeq(@, n + 1, Len(@)), !.c.state = "OPEN"], "open")
  IN IF y.c.destroyed THEN y
     ELSE [y EXCEPT !.c.timer = @ \/ y.c.cfg.ping, !.c.busy = "handshake"]

\* The refusal is sent and the stream half closed; the peer's EOF is to follow.
ws_server_handshake_fail(x) ==
  LET y == stream_write([x EXCEPT !.outcome = IF LateFails THEN @ ELSE "ok"], x.h)
      z == [y EXCEPT !.c.stream = IF @ = "open" THEN "shut" ELSE @, !.c.state = "CLOSING",
                     !.outcome = x.outcome]
  IN Notify(z, "refused")

ws_server_establish(x, req) ==
  LET d == IF x.c.cfg.deflate /\ req.deflate_offered THEN ws_deflate_create(0, 0, req.nct) ELSE NoDeflate
      y == stream_write([x EXCEPT !.c.deflate = d],
                        [x.h EXCEPT !.answer = ws_build_response(req.key, d.on).ext])
  IN IF y.ret # "ok" THEN ws_fatal(y, "WRITE") ELSE Established(y, req.n)

ws_handshake_data_server(x) ==
  LET req == ws_parse_request(x.c.buf)
  IN IF req.n = 0 THEN x
     ELSE IF req.status # 0 THEN ws_server_handshake_fail(x)
     ELSE ws_server_establish(x, req)

\* Mutant: redirects are not counted.
ws_redirect_reconnect_uncounted(x) ==
  IF x.outcome = "ok" THEN [x EXCEPT !.c.buf = <<>>, !.c.state = "CONNECTING", !.c.stream = "opening"]
  ELSE ws_fatal(ws_close_socket([x EXCEPT !.c.buf = <<>>, !.c.state = "CONNECTING"]), "CONNECT")

\* The stream is closed and opened again, which may fail.
ws_redirect_reconnect(x) ==
  LET y == ws_close_socket([x EXCEPT !.c.buf = <<>>, !.c.state = "CONNECTING", !.c.redirects = @ + 1])
  IN IF x.outcome = "ok" THEN [y EXCEPT !.c.stream = "opening"] ELSE ws_fatal(y, "CONNECT")

\* The answer to a client: redirected, refused, or the connection is established.
ws_handshake_data(x) ==
  LET a   == ws_parse_response(x.c.buf)
      r   == a.resp
      cfg == x.c.cfg
      redirect == 300 <= r.status /\ r.status < 400 /\ r.location # "none"
      right == r.status = SWITCHING /\ ws_verify_accept(x.c.key, r.accept)
      shown == Called(x)   \* on_http_response
  IN IF ~cfg.is_client THEN ws_handshake_data_server(x)
     ELSE IF a.n = 0 THEN x
     ELSE IF a.n < 0 THEN ws_fatal(IF cfg.http_cb THEN shown ELSE x, "HANDSHAKE")
     ELSE IF redirect /\ (x.c.redirects >= MaxRedirects \/ ~ws_redirect_parse(r.location))
     THEN ws_fatal(x, "HANDSHAKE")
     ELSE IF redirect THEN ws_redirect_reconnect(x)
     ELSE IF cfg.http_cb /\ ~right THEN ws_enter_closed(shown)
     ELSE IF ~ws_verify_accept(x.c.key, r.accept) THEN ws_fatal(x, "HANDSHAKE")
     ELSE IF ~ws_extensions_ok(r.ext, cfg.deflate) THEN ws_fatal(x, "HANDSHAKE")
     ELSE IF cfg.deflate /\ ~Negotiable(cfg, r.ext) THEN ws_fatal(x, "PROTOCOL")
     ELSE Established([x EXCEPT !.c.deflate = IF x.outcome = "nomem" THEN NoDeflate ELSE Negotiated(cfg, r.ext),
                                !.h.lost = x.outcome = "nomem" /\ r.ext # <<>>, !.h.answer = r.ext,
                                !.h.resets = cfg.cnct \/ Named(r.ext, CNCT)], a.n)

-----------------------------------------------------------------------------
(* Steps of the loop. *)

\* (A plan for a callback that does not come is none.)
Chosen(Op(_)) ==
  \E outcome \in Outcomes :
    LET quiet == Op(Step(NoPlan, outcome))
        plans == {plan \in Plans : plan.at <= quiet.calls}
    IN \E x \in {Op(Step(plan, outcome)) : plan \in plans} : c' = x.c /\ h' = x.h

\* The request is sent; a server waits for one.
ws_stream_on_open ==
  /\ c.life = "live" /\ c.stream = "opening" /\ c.busy = "no"
  /\ Chosen(LAMBDA x :
       LET y == [x EXCEPT !.c.stream = "open", !.c.state = "HANDSHAKE"]
           z == stream_write([y EXCEPT !.c.key = c.redirects + 1], x.h)
       IN IF ~c.cfg.is_client THEN y
          ELSE IF z.ret = "ok" THEN z ELSE ws_fatal(z, "CONNECT"))

open_fails ==
  /\ c.life = "live" /\ c.stream = "opening" /\ c.busy = "no"
  /\ \E err \in {"CONNECT", "HANDSHAKE"} :
       Chosen(LAMBDA x : ws_stream_on_error([x EXCEPT !.c.stream = "closed"], err))

\* What a peer may send.
Frames == {[is |-> "frame", kind |-> k] : k \in {"data", "bad text", "ping", "pong", "close", "bad"}}

Answers ==
  {ws_build_response(c.key, pmd) : pmd \in {c.cfg.deflate, FALSE}}
    \cup {Response(SWITCHING, ws_compute_accept(c.key), "none", e) : e \in Extensions}
    \cup {Response(SWITCHING, a, "none", <<>>) : a \in {NoAccept, [of |-> c.key + 10]}}
    \cup {Response(302, NoAccept, l, <<>>) : l \in {"path", "ws", "other"}}
    \cup {[Response(302, NoAccept, "path", <<>>) EXCEPT !.whole = FALSE],
          Response(404, NoAccept, "none", <<>>)}

GoodRequest == ws_build_request(1, CHOOSE k \in Configs : k.is_client /\ k.deflate)

Asked == Requests \cup {ws_build_request(1, cfg) : cfg \in {k \in Configs : k.is_client}}

Part == [is |-> "part"]
Data == [is |-> "frame", kind |-> "data"]

\* One item, or a frame behind a message of HTTP that establishes the connection or behind data.
Inputs ==
  LET http == IF c.cfg.is_client THEN Answers ELSE Asked
      good == IF c.cfg.is_client THEN {ws_build_response(c.key, c.cfg.deflate)} ELSE {GoodRequest}
      item == IF c.state = "HANDSHAKE" THEN {Part} \cup http
              ELSE IF h.refused THEN {Part} ELSE Frames
      first == IF c.state = "HANDSHAKE" THEN good ELSE IF h.refused THEN {} ELSE {Data}
  IN {<<i>> : i \in item} \cup {<<i, f>> : i \in first, f \in Frames}

\* Data for a connection that has ended is dropped; what does not fit is a protocol error.
ws_stream_on_data ==
  /\ c.life # "none" /\ c.stream \in {"open", "shut"} /\ c.busy = "no"
  /\ h.refused => Talkative
  /\ \E items \in Inputs :
       Chosen(LAMBDA x :
         LET y == [x EXCEPT !.c.buf = @ \o items]
         IN IF c.destroyed \/ c.state = "CLOSED" THEN x
            ELSE IF Len(y.c.buf) > Cap THEN ws_fatal(x, "PROTOCOL")
            ELSE IF c.state = "HANDSHAKE" THEN ws_handshake_data(y)
            ELSE [y EXCEPT !.c.busy = "data"])

\* Frames are processed one per step, to an error or the end of the connection.
process_frames ==
  /\ c.busy # "no"
  /\ IF c.buf = <<>> \/ c.destroyed \/ c.state = "CLOSED" THEN c' = [c EXCEPT !.busy = "no"] /\ UNCHANGED h
     ELSE Chosen(process_frame)

\* EOF.
ws_stream_on_close ==
  /\ c.life # "none" /\ c.stream \in {"open", "shut"} /\ c.busy = "no"
  /\ Chosen(LAMBDA x :
       LET y == [x EXCEPT !.c.stream = "closed"]
       IN IF c.destroyed \/ c.state = "CLOSED" THEN y
          ELSE IF c.state = "HANDSHAKE" THEN ws_fatal(y, "HANDSHAKE")
          ELSE ws_enter_closed(y))

read_error ==
  /\ c.life # "none" /\ c.stream \in {"open", "shut"} /\ c.busy = "no"
  /\ Chosen(LAMBDA x : ws_stream_on_error([x EXCEPT !.c.stream = "closed"], "READ"))

on_ping_timer ==
  /\ c.timer /\ c.busy = "no"
  /\ Chosen(LAMBDA x : IF c.destroyed \/ c.state # "OPEN" THEN x ELSE send_frame(x, "ping"))

\* run_posts.
ws_cleanup_conn ==
  /\ c.life = "posted" /\ c.busy = "no"
  /\ c' = [c EXCEPT !.life = "released", !.stream = "none", !.buf = <<>>, !.deflate = NoDeflate]
  /\ UNCHANGED h

-----------------------------------------------------------------------------
(* Calls of the user's. *)

\* A call that fails leaves nothing behind.
Created(cfg, stream) == [c EXCEPT !.life = "live", !.cfg = cfg, !.stream = stream]

sevent_ws_connect ==
  /\ c.life = "none"
  /\ \E cfg \in Configs : cfg.is_client /\ c' = Created(cfg, "opening")
  /\ UNCHANGED h

sevent_ws_accept ==
  /\ c.life = "none"
  /\ \E cfg \in Configs : ~cfg.is_client /\ c' = Created(cfg, "opening")
  /\ UNCHANGED h

\* The request, and what came with it, is in the buffer of the HTTP connection.
sevent_ws_upgrade ==
  /\ c.life = "none"
  /\ \E cfg \in {k \in Configs : ~k.is_client}, items \in {<<i>> : i \in Asked} \cup {<<GoodRequest, f>> : f \in Frames} :
       Chosen(LAMBDA x :
         ws_handshake_data_server([x EXCEPT !.c = [Created(cfg, "open") EXCEPT !.buf = items]]))

user_call ==
  /\ c.life = "live" /\ c.busy = "no"
  /\ \E act \in Calls : (act = "send" => h.sends < MaxSends) /\ Chosen(LAMBDA x : Act(x, act))

ConnNext ==
  \/ sevent_ws_connect \/ sevent_ws_accept \/ sevent_ws_upgrade \/ user_call
  \/ ws_stream_on_open \/ open_fails \/ ws_stream_on_data \/ process_frames
  \/ ws_stream_on_close \/ read_error
  \/ on_ping_timer \/ ws_cleanup_conn

ConnSpec == ConnInit /\ [][ConnNext]_conn_vars

\* An attempt to connect ends (the transport has a timeout for it); a peer that does not
\* answer a request, or send one, closes in the end: the handshake has no timeout.
ConnFairSpec ==
  /\ ConnSpec
  /\ WF_conn_vars(open_fails)
  /\ WF_conn_vars(c.state = "HANDSHAKE" /\ ws_stream_on_close)

-----------------------------------------------------------------------------
(* Types. *)

Headers == {<<>>, <<[name |-> PMD, params |-> NoParams]>>} \cup Extensions

Item ==
  {Part, GoodRequest} \cup Frames \cup Asked
    \cup [is : {"response"}, whole : BOOLEAN, status : Nat, accept : [of : Nat],
          location : {"none", "path", "ws", "other"}, ext : Headers]

ConnTypeOK ==
  /\ c \in [life : {"none", "live", "posted", "released"}, cfg : Configs \cup {<<>>},
            state : {"CONNECTING", "HANDSHAKE", "OPEN", "CLOSING", "CLOSED"}, destroyed : BOOLEAN,
            timer : BOOLEAN, stream : {"none", "opening", "open", "shut", "closed"}, buf : Seq(Item),
            key : Nat, redirects : Nat,
            deflate : [on : BOOLEAN, cbw : Int, sbw : Int, reset : BOOLEAN], ctx : Nat,
            busy : {"no", "handshake", "data"}]
  /\ h \in [opened : BOOLEAN, ended : BOOLEAN, gone : BOOLEAN, refused : BOOLEAN, ok : BOOLEAN,
            closed : BOOLEAN, peer_ctx : Nat, sync : BOOLEAN, lost : BOOLEAN, resets : BOOLEAN,
            answer : Headers, sends : Nat]

-----------------------------------------------------------------------------
(* Properties. *)

\* on_open comes once and before messages; the end is told once and is the last word; after
\* the user's close or destroy nothing is told, whatever was nested in which callback, and
\* no timer is left with a pointer to the connection; on the wire no data follows a close frame.
NotificationOrder == h.ok /\ (c.destroyed => ~c.timer)

\* The client's window has 8 bits, which sevent_ws.h:114 allows and zlib does not.
EightBits(cfg, answer) ==
  LET named == First(answer, CMWB)
  IN cfg.is_client /\ (IF named # 0 THEN named ELSE cfg.cmwb) = 8

\* The window that the answer leaves to param.
Limit(ext, param) == IF First(ext, param) = 0 THEN 15 ELSE First(ext, param)

\* Both ends have the same idea of compression, whatever was offered and answered: a
\* compressor exists exactly if the answer names the extension, its window is one the peer
\* can read and its own can hold the peer's; and an end that resets its context after every
\* message never refers to one that the peer has not got, another only once a compressed
\* message was dropped for want of memory, or with a server that resets and says so in its
\* answer, where ws_conn.c:1423 overwrites what 1375 has read.  Excepted from the first part
\* are compressors that could not be created: for want of memory, or with 8 bits.
InSync ==
  /\ h.sync \/ (~c.deflate.reset /\ (h.lost \/ h.resets))
  /\ h.opened /\ c.life # "released" /\ ~h.lost /\ ~EightBits(c.cfg, h.answer) =>
       /\ c.deflate.on = (h.answer # <<>>)
       /\ c.deflate.on => c.deflate.cbw <= Limit(h.answer, CMWB) /\ c.deflate.sbw >= Limit(h.answer, SMWB)

\* No compressed message refers to one that the peer has not got.  False of the code: see InSync.
ContextsAgree == h.sync

\* There is a compressor if the answer names the extension.  False of the code: see InSync.
CompressorThere == h.opened /\ c.life # "released" => c.deflate.on = (h.answer # <<>>)

\* An attempt to open ends, however often it is redirected.
OpeningEnds ==
  (c.life = "live" /\ c.state \in {"CONNECTING", "HANDSHAKE"})
    ~> (c.state \notin {"CONNECTING", "HANDSHAKE"})
=============================================================================
