------------------------------- MODULE WsRecv -------------------------------
(***************************************************************************)
(* Reception of WebSocket messages, src/src/websockets/ws_conn.c: the      *)
(* receive buffer, frames that are processed whole or streamed, fragments, *)
(* decompression, control frames, and the on_message calls of all that.    *)
(*                                                                         *)
(* The connection is open; the transport pushes bytes, and a push is       *)
(* processed one frame per step.  Each operator below that has a function  *)
(* of the code as its name takes the connection with the history and       *)
(* returns what the function makes of it.  In a step the user may act in   *)
(* one of the callbacks of the step, which the step chooses (plan).        *)
(***************************************************************************)
EXTENDS WsFrame, SequencesExt

CONSTANTS
  Cap,        \* recv_cap
  Clients,    \* values of c->is_client
  Deflate,    \* permessage-deflate has been negotiated
  Batch,      \* SEVENT_WS_DECOMP_BATCH
  Sizes,      \* payload sizes of data frames
  ZSizes,     \* payload sizes of data frames in compressed messages
  Chunks,     \* sizes of pushes
  Roles,      \* roles of payload bytes: of UTF-8, or data that inflate refuses
  Acts,       \* what the user does in a callback
  Mixed,      \* a message goes from large frames to small ones and back
  Reserved,   \* reserved opcodes that come with RSV1
  MaxFrag,    \* bound: frames of a message
  MaxPipe     \* bound: bytes on their way when the peer sends a frame

ASSUME RecvAssumption ==
  /\ {Cap, Batch, MaxFrag, MaxPipe} \subseteq Nat /\ Batch > 0
  /\ {Deflate, Mixed} \subseteq BOOLEAN /\ Clients \subseteq BOOLEAN
  /\ Sizes \cup ZSizes \subseteq Nat
  /\ Chunks \subseteq 1 .. Cap \div 2   \* recv_buf_size of the stream is recv_cap / 2
  /\ Acts \subseteq {"close", "fatal"}

VARIABLES
  c,     \* struct sevent_ws_conn: buf is recv_buf from recv_pos to recv_len
  app,   \* history: what the application has seen, and what it has still to see; mid, late:
         \* the user has closed within a message, and was called again after the close
  peer,  \* the message the peer is sending; split: the last code point so far is not complete,
         \* apart: one was completed behind a part that is not in frag_buf any more;
         \* closed, quiet: it has sent a close, or an unlawful frame
  pipe,  \* bytes on their way
  busy   \* process_frames is in its loop

recv_vars == <<c, app, peer, pipe, busy>>

\* Types.  A byte of a message, the message that is being received, and one that is expected.
Octet == [v : Nat, c : Roles \cup {"one", "trail"}, k : SUBSET Nat]
Msg == {m \in [mode : {"NONE", "FRAG", "STREAM"}, bin : BOOLEAN, compressed : BOOLEAN, total : Nat,
               fin_sent : BOOLEAN] : m.compressed => Deflate}
Expected == [n : Nat, bin : BOOLEAN, compressed : BOOLEAN, fin : BOOLEAN]

Conn ==
  [is_client : BOOLEAN, state : {"OPEN", "CLOSED"}, destroyed : BOOLEAN, buf : Seq(Octet), msg : Msg,
   frag : Seq(Octet), remaining : Nat, fin : BOOLEAN, key : {<<>>} \cup [1 .. 4 -> Octet], mask_off : Nat,
   z : Seq(Octet), err : {0, 1}]

\* The choices of a step: which callback the user acts in, and how.
Plans == {<<0, "none">>} \cup ((1 .. 3) \X Acts)

App ==
  [seen : Nat, pieces : {0, 1}, expect : Seq(Expected), over : BOOLEAN, ok : BOOLEAN, excuse : BOOLEAN,
   mid : BOOLEAN, late : BOOLEAN, calls : Nat, plan : Plans]

Peer == [frames : Nat, large : 0 .. 2, split : BOOLEAN, apart : BOOLEAN, closed : BOOLEAN, quiet : BOOLEAN]

RecvTypeOK == c \in Conn /\ app \in App /\ peer \in Peer /\ pipe \in Seq(Octet) /\ busy \in BOOLEAN

\* A client's peer does not mask its frames.
IsClient == c.is_client

NoMsg == [mode |-> "NONE", bin |-> FALSE, compressed |-> FALSE, total |-> 0, fin_sent |-> FALSE]

RecvInit ==
  /\ \E client \in Clients :
     c = [is_client |-> client, state |-> "OPEN", destroyed |-> FALSE, buf |-> <<>>, msg |-> NoMsg, frag |-> <<>>,
          remaining |-> 0, fin |-> FALSE, key |-> <<>>, mask_off |-> 0, z |-> <<>>, err |-> 0]
  /\ app = [seen |-> 0, pieces |-> 0, expect |-> <<>>, over |-> FALSE, ok |-> TRUE,
            excuse |-> FALSE, mid |-> FALSE, late |-> FALSE, calls |-> 0, plan |-> <<0, "none">>]
  /\ peer = [frames |-> 0, large |-> 0, split |-> FALSE, apart |-> FALSE, closed |-> FALSE, quiet |-> FALSE]
  /\ pipe = <<>> /\ busy = FALSE

-----------------------------------------------------------------------------
(* Callbacks.  x is [c, app].  app.expect holds the messages the peer has    *)
(* begun and the application has not seen the end of.                        *)

\* The user closes or destroys the connection, or sends something and the transport fails.
Act(x, act) ==
  CASE act = "close" ->
         [x EXCEPT !.c.destroyed = TRUE, !.c.state = "CLOSED", !.app.over = TRUE, !.app.excuse = TRUE]
    [] act = "fatal" ->
         [x EXCEPT !.c.state = "CLOSED", !.app.over = TRUE, !.app.excuse = TRUE]

\* A callback returns; the user has acted if it is the one of the plan.
Called(x) ==
  LET y == [x EXCEPT !.app.calls = @ + 1]
  IN IF y.app.calls = y.app.plan[1] THEN Act(y, y.app.plan[2]) ELSE y

\* The data are the next bytes of the first message expected, in clear; fin comes
\* with its last byte and with its length.
Right(a, data, bin, mode, fin, total) ==
  /\ ~a.over /\ a.expect # <<>>
  /\ LET e == Head(a.expect)
     IN /\ bin = e.bin
        /\ \A i \in DOMAIN data : data[i].v = a.seen + i /\ data[i].k = {}
        /\ a.seen + Len(data) <= e.n
        /\ fin => /\ e.fin /\ a.seen + Len(data) = e.n
                  /\ total = IF e.compressed THEN 0 ELSE e.n
                  /\ (a.pieces = 0 /\ ~bin /\ ~e.compressed /\ mode # "STREAM" /\ Len(data) < Cap)
                       => ws_utf8_validate(data)

\* Once the user has closed within a message, the rest of that message is not judged.
on_message(x, data, fin, total) ==
  LET bin == x.c.msg.bin
      seen == [x EXCEPT !.app.ok = @ /\ (x.app.mid \/ Right(x.app, data, bin, x.c.msg.mode, fin, total)),
                        !.app.seen = IF fin THEN 0 ELSE @ + Len(data),
                        !.app.pieces = IF fin THEN 0 ELSE 1,
                        !.app.expect = IF fin /\ @ # <<>> THEN Tail(@) ELSE @,
                        !.app.late = @ \/ x.c.destroyed]
      done == Called(seen)
  IN [done EXCEPT !.app.mid = ~fin /\ done.c.destroyed /\ (@ \/ ~x.c.destroyed)]

\* The end of the connection is told: on_close or on_error.
Ended(x) == Called([x EXCEPT !.c.state = "CLOSED", !.app.ok = @ /\ ~x.app.over, !.app.over = TRUE])

ws_enter_closed(x) == IF x.c.state = "CLOSED" \/ x.c.destroyed THEN x ELSE Ended(x)

ws_fatal(x) == IF x.c.state = "CLOSED" \/ x.c.destroyed THEN x ELSE Ended(x)

\* What follows a callback is not done when the callback has destroyed the connection.
Then(x, Op(_)) == IF x.c.destroyed THEN x ELSE Op(x)

\* A call of process_frames ends with an error.
Fail(x) == [x EXCEPT !.c.err = 1]

-----------------------------------------------------------------------------
(* Decompression.  c.z is what inflate holds back.  Compressed bytes stand   *)
(* for themselves; inflate keeps the last byte of its input back.            *)

Batches(data) ==
  [i \in 1 .. (Len(data) + Batch - 1) \div Batch |->
     SubSeq(data, (i - 1) * Batch + 1, IF i * Batch < Len(data) THEN i * Batch ELSE Len(data))]

\* One call for each batch; only a call tells the loop that the connection is destroyed.
OutBatches(x, data) ==
  LET b == Batches(data)
      f[i \in 0 .. Len(b)] ==
        IF i = 0 THEN x
        ELSE IF i > 1 /\ f[i - 1].c.destroyed THEN f[i - 1] ELSE on_message(f[i - 1], b[i], FALSE, 0)
  IN f[Len(b)]

\* inflate refuses data with a byte of these roles: in a message of one small frame, and in
\* one that has fragments or may be streamed.
Refused == {"corrupt", "corrupt_part"}
Corrupt(data) == \E i \in DOMAIN data : data[i].c \in Refused

\* An error resets the stream and is returned; the callers in the paths of fragments
\* do not look at it.
decompress_stream_chunk(x, data) ==
  LET all == x.c.z \o data
      n   == Len(all)
  IN IF Corrupt(data) THEN [x EXCEPT !.c.z = <<>>]
     ELSE IF data = <<>> THEN x
     ELSE OutBatches([x EXCEPT !.c.z = SubSeq(all, n, n)], SubSeq(all, 1, n - 1))

\* The tail makes inflate put out everything; then fin, unless it counts as sent.
decompress_stream_end(x) ==
  LET y == OutBatches([x EXCEPT !.c.z = <<>>], x.c.z)
  IN IF (x.c.z # <<>> /\ y.c.destroyed) \/ y.c.msg.fin_sent THEN y
     ELSE on_message([y EXCEPT !.c.msg.fin_sent = TRUE], <<>>, TRUE, 0)

decompress_oneshot(x, data) ==
  IF Corrupt(data) THEN Fail(x)
  ELSE Then(OutBatches(x, data), LAMBDA y : on_message(y, <<>>, TRUE, 0))

-----------------------------------------------------------------------------
(* Fragments and streamed frames. *)

\* Mutant: the message ends without the empty fin callback.
msg_end_silent(x) ==
  [(IF x.c.msg.compressed THEN decompress_stream_end(x) ELSE x)
     EXCEPT !.c.msg = NoMsg, !.c.frag = <<>>]

msg_end(x) ==
  LET y == IF x.c.msg.mode = "NONE" THEN x
           ELSE IF x.c.msg.compressed THEN decompress_stream_end(x)
           ELSE IF ~x.c.msg.fin_sent THEN on_message(x, <<>>, TRUE, x.c.msg.total)
           ELSE x
  IN [y EXCEPT !.c.msg = NoMsg, !.c.frag = <<>>]

Deliver(x, data, fin, total) ==
  IF x.c.msg.compressed THEN decompress_stream_chunk(x, data) ELSE on_message(x, data, fin, total)

\* A piece that does not fit makes the older ones go first.
frag_append(x, data) ==
  LET added(y, old) == [y EXCEPT !.c.frag = old \o data, !.c.msg.total = @ + Len(data)]
  IN IF data = <<>> THEN x
     ELSE IF Len(x.c.frag) + Len(data) <= Cap THEN added(x, x.c.frag)
     ELSE Then(Deliver(x, x.c.frag, FALSE, 0), LAMBDA y : added(y, <<>>))

\* The rest of the pieces, and the end of the message.
flush_end(x) ==
  IF x.c.frag = <<>> THEN msg_end(x)
  ELSE IF ~x.c.msg.bin /\ ~x.c.msg.compressed /\ ~ws_utf8_validate(x.c.frag) THEN ws_enter_closed(x)
  ELSE Then(Deliver([x EXCEPT !.c.msg.fin_sent = @ \/ ~x.c.msg.compressed], x.c.frag, TRUE, x.c.msg.total),
            LAMBDA y : msg_end([y EXCEPT !.c.frag = <<>>]))

\* A full buffer goes out at the end of the message, or at once if compressed.
frag_flush(x, fin) ==
  LET full == Len(x.c.frag) = Cap /\ (fin \/ x.c.msg.compressed)
      told == [x EXCEPT !.c.msg.fin_sent = @ \/ fin]
      end(y) == IF fin THEN flush_end(y) ELSE y
  IN IF full THEN Then(Deliver(told, x.c.frag, fin, x.c.msg.total), LAMBDA y : end([y EXCEPT !.c.frag = <<>>]))
     ELSE end(x)

\* Mutant: the pieces stay in the buffer.
frag_flush_tail_kept(x) == x

frag_flush_tail(x) ==
  IF x.c.frag = <<>> THEN x
  ELSE [Deliver(x, x.c.frag, FALSE, 0) EXCEPT !.c.frag = <<>>]

Unmasked(x, data) ==
  IF x.c.key = <<>> THEN data ELSE ws_frame_apply_mask_offset(data, x.c.key, x.c.mask_off)

\* n bytes of the frame have been handed over.
stream_consumed(x, n) ==
  LET fed  == [x EXCEPT !.c.buf = SubSeq(@, n + 1, Len(@)), !.c.remaining = @ - n, !.c.mask_off = @ + n]
      done == [fed EXCEPT !.c.fin = FALSE, !.c.key = <<>>, !.c.mask_off = 0]
  IN IF fed.c.remaining > 0 THEN fed ELSE IF x.c.fin THEN msg_end(done) ELSE done

\* What the buffer holds of the frame is handed over; at its end the message may end, also
\* when a callback for compressed data has destroyed the connection.
\* (fin, key and mask_off are not read any more when remaining is 0, and cleared here.)
stream_consume(x) ==
  LET n    == IF Len(x.c.buf) < x.c.remaining THEN Len(x.c.buf) ELSE x.c.remaining
      data == Unmasked(x, SubSeq(x.c.buf, 1, n))
      last == n = x.c.remaining /\ x.c.fin
      told == [x EXCEPT !.c.msg.fin_sent = @ \/ last]
      handed == IF n = 0 THEN x
                ELSE IF x.c.msg.compressed THEN decompress_stream_chunk(x, data)
                ELSE on_message(told, data, last, IF last THEN x.c.msg.total ELSE 0)
  IN IF n > 0 /\ (IF x.c.msg.compressed THEN Corrupt(data) ELSE handed.c.destroyed) THEN handed
     ELSE stream_consumed(handed, n)

-----------------------------------------------------------------------------
(* Frames. *)

Begin(x, h, mode) ==
  [x EXCEPT !.c.msg = [mode |-> mode, bin |-> h.opcode = BINARY, compressed |-> h.rsv1,
                       total |-> 0, fin_sent |-> FALSE]]

\* A message in one frame is handed over as it is.
handle_text_binary(x, h, data) ==
  IF x.c.msg.mode # "NONE" THEN Fail(x)
  ELSE IF ~h.fin THEN frag_flush(frag_append(Begin(x, h, "FRAG"), data), FALSE)
  ELSE IF h.opcode = TEXT /\ ~ws_utf8_validate(data) THEN ws_enter_closed(x)
  ELSE LET y == on_message([x EXCEPT !.c.msg.bin = h.opcode = BINARY], data, TRUE, Len(data))
       IN [y EXCEPT !.c.msg = NoMsg]

\* frag_flush follows also when the callback of frag_append has destroyed the connection.
handle_cont(x, h, data) ==
  IF x.c.msg.mode = "NONE" THEN Fail(x) ELSE frag_flush(frag_append(x, data), h.fin)

\* The answer may fail, which ends the connection.
handle_ping(x, sent) == IF sent THEN x ELSE Fail([x EXCEPT !.app.excuse = TRUE])

handle_pong(x) == Called(x)

\* With a code that is not valid it is a protocol error; else the close is answered and
\* the connection ends.
handle_close(x, data) ==
  IF Len(data) >= 2 /\ ~ws_close_code_valid(data[1].v * 256 + data[2].v) THEN Fail(x)
  ELSE ws_enter_closed(x)

\* The checks on a frame that is streamed.
StreamAllowed(x, h) ==
  /\ ~h.rsv2 /\ ~h.rsv3
  /\ h.rsv1 => Deflate /\ h.opcode # CONT
  /\ h.mask # IsClient
  /\ IF x.c.msg.mode = "NONE" THEN h.opcode \in {TEXT, BINARY} ELSE h.opcode = CONT

\* Mutant: a frame is streamed only if it cannot fit the buffer.
Streamed_late(h) == h.n + h.payload_len > Cap

\* A frame that has not come in full is streamed if it is larger than half the buffer.
Streamed(h) == h.n + h.payload_len > Cap \div 2

\* The connection behind the header of a frame that is streamed.
Streaming(conn, h) ==
  [conn EXCEPT !.msg = [conn.msg EXCEPT !.mode = "STREAM", !.total = conn.msg.total + h.payload_len],
               !.remaining = h.payload_len, !.fin = h.fin, !.key = h.mask_key, !.mask_off = 0,
               !.buf = SubSeq(conn.buf, h.n + 1, Len(conn.buf))]

stream_begin(x, h) ==
  IF ~StreamAllowed(x, h) THEN Fail(x)
  ELSE Then(IF x.c.msg.mode = "FRAG" THEN frag_flush_tail(x)
            ELSE IF x.c.msg.mode = "NONE" THEN Begin(x, h, "STREAM") ELSE x,
            LAMBDA y : stream_consume([y EXCEPT !.c = Streaming(y.c, h)]))

\* The checks on a frame that has come in full, before its opcode is looked at.
FrameAllowed(h) ==
  /\ h.mask # IsClient
  /\ ~h.rsv2 /\ ~h.rsv3
  /\ h.rsv1 => ~IsControl(h.opcode) /\ Deflate /\ h.opcode # CONT

\* A whole frame by its kind.
frame_handle(x, h, data, sent) ==
  CASE h.rsv1 /\ h.fin ->
         IF x.c.msg.mode # "NONE" THEN Fail(x)
         ELSE [decompress_oneshot([x EXCEPT !.c.msg.bin = h.opcode = BINARY], data) EXCEPT !.c.msg = NoMsg]
    [] ~(h.rsv1 /\ h.fin) /\ IsControl(h.opcode) /\ (h.payload_len > 125 \/ ~h.fin) -> Fail(x)
    [] ~(h.rsv1 /\ h.fin) /\ ~(IsControl(h.opcode) /\ (h.payload_len > 125 \/ ~h.fin)) ->
         CASE h.opcode = CLOSE            -> handle_close(x, data)
           [] h.opcode \in {TEXT, BINARY} -> handle_text_binary(x, h, data)
           [] h.opcode = CONT             -> handle_cont(x, h, data)
           [] h.opcode = PING             -> handle_ping(x, sent)
           [] h.opcode = PONG             -> handle_pong(x)
           [] OTHER                       -> Fail(x)

\* A frame that has been handled leaves the buffer, unless the connection has ended.
frame_done(x, size) ==
  IF x.c.destroyed \/ x.c.state = "CLOSED" \/ x.c.err # 0 THEN x
  ELSE [x EXCEPT !.c.buf = SubSeq(@, size + 1, Len(@))]

frame_whole(x, h, sent) ==
  LET size == h.n + h.payload_len
      raw  == SubSeq(x.c.buf, h.n + 1, size)
      data == IF h.mask THEN ws_frame_apply_mask(raw, h.mask_key) ELSE raw
  IN IF ~FrameAllowed(h) THEN Fail(x) ELSE frame_done(frame_handle(x, h, data, sent), size)

-----------------------------------------------------------------------------
(* Steps. *)

With(plan) == [c |-> c, app |-> [app EXCEPT !.calls = 0, !.plan = plan]]
Becomes(x) ==
  \E y \in {x} : c' = y.c /\ app' = [y.app EXCEPT !.calls = 0, !.plan = <<0, "none">>]

\* Nothing is done for a connection that has ended.  Otherwise the push is added; a streamed
\* frame goes on first, then frames are processed.  An overflow, which must not happen, would
\* be a protocol error.
ws_stream_on_data ==
  /\ ~busy /\ ~c.destroyed /\ c.state # "CLOSED"
  /\ \E n \in Chunks, plan \in Plans :
       /\ n <= Len(pipe)
       /\ pipe' = SubSeq(pipe, n + 1, Len(pipe))
       /\ LET x == With(plan)
              y == [x EXCEPT !.c.buf = @ \o SubSeq(pipe, 1, n)]
          IN IF Len(y.c.buf) > Cap THEN Becomes(ws_fatal(x)) /\ UNCHANGED busy
             ELSE /\ Becomes(IF c.msg.mode = "STREAM" /\ c.remaining > 0 THEN stream_consume(y) ELSE y)
                  /\ busy' = (c'.remaining = 0)
  /\ UNCHANGED peer

\* process_frames looks at the next frame: none complete, one to be streamed, or a whole one.
process_frames ==
  /\ busy
  /\ \E h \in {ws_frame_parse_header(c.buf)} :
       LET whole == h.n > 0 /\ Len(c.buf) >= h.n + h.payload_len
       IN IF c.buf = <<>> \/ c.state = "CLOSED" \/ c.destroyed \/ h.n = 0 \/ (h.n > 0 /\ ~whole /\ ~Streamed(h))
          THEN busy' = FALSE /\ UNCHANGED <<c, app>>
          ELSE \E plan \in Plans, sent \in BOOLEAN :
               \E y \in {IF h.n < 0 THEN Fail(With(plan))
                          ELSE IF whole THEN frame_whole(With(plan), h, sent) ELSE stream_begin(With(plan), h)} :
                 /\ Becomes(IF y.c.err = 0 THEN y ELSE ws_fatal([y EXCEPT !.c.err = 0]))
                 /\ busy' = (whole /\ y.c.err = 0)
  /\ UNCHANGED <<peer, pipe>>

-----------------------------------------------------------------------------
(* The peer (RFC 6455, RFC 7692).  One frame that is not allowed, or any frame  *)
(* after a close, may follow lawful ones; it is the last.                       *)

Key == [i \in 1 .. 4 |-> Byte(i, "one")]

MaySend == ~peer.quiet /\ Len(pipe) <= MaxPipe /\ ~busy /\ ~app.over

Open == app.expect # <<>> /\ ~Last(app.expect).fin

Lawful(fin, rsv1, rsv2, opcode, masked) ==
  /\ ~peer.closed /\ ~rsv2 /\ masked # IsClient
  /\ rsv1 => Deflate /\ opcode \in {TEXT, BINARY}
  /\ opcode \in {CONT, TEXT, BINARY, CLOSE, PING, PONG}
  /\ IsControl(opcode) => fin
  /\ ~IsControl(opcode) => (opcode = CONT <=> Open)

Compressed(rsv1, opcode) == IF opcode = CONT THEN Open /\ Last(app.expect).compressed ELSE rsv1
Text(rsv1, opcode) ==
  ~Compressed(rsv1, opcode) /\ (IF opcode = CONT THEN Open /\ ~Last(app.expect).bin ELSE opcode = TEXT)

\* Whether a frame of that payload is streamed can depend on how it arrives.
HeaderLen == IF IsClient THEN 2 ELSE 6
MayStream(size) == HeaderLen + size > Cap \div 2
MayKeep(size) == size > 0 /\ size < Cap \div 2

\* peer.large: 1 when the message has had a large frame, 2 when a small one came after it.
LargeThen(size) ==
  IF peer.large > 0 /\ MayKeep(size) THEN 2
  ELSE IF peer.large = 0 /\ MayStream(size) THEN 1 ELSE peer.large

SendFrame(fin, rsv1, rsv2, opcode, masked, payload) ==
  LET header == ws_frame_build_header(fin, rsv1, opcode, IF masked THEN Key ELSE <<>>, Len(payload))
      marked == [header EXCEPT ![1].v = @ + (IF rsv2 THEN 32 ELSE 0)]
  IN /\ pipe' = pipe \o marked \o (IF masked THEN ws_frame_apply_mask(payload, Key) ELSE payload)
     /\ UNCHANGED <<c, busy>>

\* The roles of a frame's bytes: a code point may go on from the frame before and into the
\* next one; other bytes that are special come first.
RoleOf(role, size, i) ==
  IF peer.split /\ i = 1 THEN "trail"
  ELSE IF role = "lead" THEN (IF i = size THEN "lead" ELSE "one")
  ELSE IF i = 1 THEN role ELSE "one"

\* The frame completes a code point, the beginning of which may have left frag_buf.
Apart(n, size) == peer.split /\ size > 0 /\ (peer.large > 0 \/ n + size > Cap)

\* Where the peer puts a byte that is not text, or not what deflate makes.
RoleAllowed(role, fin, rsv1, opcode, size) ==
  LET small == rsv1 /\ fin /\ ~MayStream(size)
  IN role # "one" =>
       /\ size > 0
       /\ CASE role = "corrupt"      -> small
            [] role = "corrupt_part" -> Compressed(rsv1, opcode) /\ ~small
            [] role = "lead"         -> Text(rsv1, opcode) /\ ~fin /\ size > 1
            [] OTHER                 -> opcode = TEXT /\ ~rsv1

peer_data ==
  /\ MaySend /\ ~peer.closed
  /\ \E fin \in BOOLEAN, rsv1 \in BOOLEAN, opcode \in {CONT, TEXT, BINARY}, role \in Roles :
     \E size \in IF Compressed(rsv1, opcode) THEN ZSizes ELSE Sizes :
       /\ Lawful(fin, rsv1, FALSE, opcode, ~IsClient)
       /\ fin \/ peer.frames + 1 < MaxFrag
       /\ Mixed \/ ~(peer.large = 2 /\ MayStream(size))
       /\ RoleAllowed(role, fin, rsv1, opcode, size)
       /\ peer.split => role \in {"one", "lead"} /\ (fin => size > 0)
       /\ LET old  == IF opcode = CONT THEN Last(app.expect)
                      ELSE [n |-> 0, bin |-> opcode = BINARY, compressed |-> rsv1, fin |-> FALSE]
              new  == [old EXCEPT !.n = @ + size, !.fin = fin]
              data == [i \in 1 .. size |-> Byte(old.n + i, RoleOf(role, size, i))]
          IN /\ app' = [app EXCEPT !.expect = Append(IF opcode = CONT THEN Front(@) ELSE @, new),
                                   !.excuse = @ \/ role = "bad" \/ role \in Refused]
             /\ SendFrame(fin, rsv1, FALSE, opcode, ~IsClient, data)
             /\ peer' = [peer EXCEPT !.frames = IF fin THEN 0 ELSE @ + 1,
                                     !.large = IF fin THEN 0 ELSE LargeThen(size),
                                     !.split = IF size > 0 THEN role = "lead" ELSE @,
                                     !.apart = @ \/ Apart(old.n, size)]

peer_control ==
  /\ MaySend /\ ~peer.closed
  /\ \E opcode \in {PING, PONG} :
       SendFrame(TRUE, FALSE, FALSE, opcode, ~IsClient, <<Byte(0, "one")>>)
  /\ UNCHANGED <<app, peer>>

peer_close ==
  /\ MaySend /\ ~peer.closed
  /\ \E payload \in {<<>>} \cup {<<Byte(code \div 256, "one"), Byte(code % 256, "one")>> : code \in {1000, 1006}} :
       SendFrame(TRUE, FALSE, FALSE, CLOSE, ~IsClient, payload)
  /\ peer' = [peer EXCEPT !.closed = TRUE]
  /\ app' = [app EXCEPT !.excuse = TRUE]

\* A frame with one fault; its bytes are marked by the value 0.
peer_unlawful ==
  /\ MaySend /\ (pipe = <<>> \/ peer.closed)
  /\ \E fin, rsv1, rsv2, masked \in BOOLEAN, opcode \in {CONT, TEXT, 3, CLOSE}, size \in Sizes \ {0} :
       /\ ~Lawful(fin, rsv1, rsv2, opcode, masked)
       /\ (~rsv2 /\ masked # IsClient) \/ Lawful(fin, rsv1, FALSE, opcode, ~IsClient)
       /\ rsv1 /\ Deflate => opcode # 3 \/ 3 \in Reserved
       /\ SendFrame(fin, rsv1, rsv2, opcode, masked, [i \in 1 .. size |-> Byte(0, "one")])
  /\ peer' = [peer EXCEPT !.quiet = TRUE]
  /\ app' = [app EXCEPT !.excuse = TRUE]

-----------------------------------------------------------------------------
RecvNext == ws_stream_on_data \/ process_frames \/ peer_data \/ peer_control \/ peer_close \/ peer_unlawful

RecvSpec == RecvInit /\ [][RecvNext]_recv_vars

-----------------------------------------------------------------------------
(* Properties. *)

\* Every message comes to on_message whole, in order and in clear, in pieces of which
\* exactly one, the last, says so and gives its length; nothing of a frame that breaks the
\* protocol is delivered, nothing comes after the end of the connection has been told or
\* the user has closed it, the end is told once, and a text that comes in one piece is
\* valid, unless it was streamed or fills the buffer (the code does not check those).
\* Excepted is the rest of a message within which the user closes: see NothingAfterClose.
MessagesIntact == app.ok

\* sevent_ws.h:219: close is safe in on_message and nothing is called after it.  Does not
\* hold within a message: a compressed frame that is streamed goes on to the end of the
\* message, and frag_flush delivers again what frag_append has delivered.
NothingAfterClose == ~app.late

\* The arithmetic of the buffers: what is left of a push is at most half of recv_buf, so
\* that the next push fits, and frag_buf never overflows.
BufferFits ==
  /\ ~busy /\ c.state # "CLOSED" => Len(c.buf) + Cap \div 2 <= Cap
  /\ Len(c.frag) <= Cap

\* When nothing is on its way, every message the peer has completed has been delivered to
\* its end, and a connection whose peer and user keep to the rules is still open, code points
\* that are split between frames included, unless the part before the split had already
\* been delivered (see TextAccepted).
AllDelivered ==
  ~busy /\ pipe = <<>> /\ ~app.excuse /\ ~peer.apart
    => c.state # "CLOSED" /\ \A i \in DOMAIN app.expect : ~app.expect[i].fin

\* sevent_ws.h:44: a connection is closed with 1007 for payload that is not valid.  Does not
\* hold: of a text whose first part has been delivered, frag_flush validates the rest alone.
TextAccepted == ~busy /\ pipe = <<>> /\ ~app.excuse => c.state # "CLOSED"
=============================================================================
