------------------------------- MODULE TlsConn -------------------------------
(***************************************************************************)
(* One TLS connection object, src/src/tls_conn.c: the handshake, the       *)
(* plaintext in and out, parked writes, the end of a connection and what   *)
(* the user is told, reopening and the deferred release.                   *)
(*                                                                         *)
(* The object has no lock; everything runs on the loop thread, so the      *)
(* state of the thread is a stack of frames: user callbacks, and the loops *)
(* of tls_conn.c that go on after a nested call.  User code runs when the  *)
(* stack is empty or a user callback is on top.  The TCP connection below  *)
(* is reduced to its state and its callbacks (see TcpConn), the session    *)
(* to what SslBackend makes of it.                                         *)
(***************************************************************************)
EXTENDS SslBackend, Integers, FiniteSets

CONSTANTS
  MaxOpen,    \* bound: calls of open and accept that succeed
  MaxByte,    \* bound: bytes written
  MaxChunk,   \* bound: records in one tcp on_data
  MaxRecv,    \* bound: records that arrive on a connection
  MaxDepth,   \* bound: frames
  Reopens,    \* a connection that has ended is reopened without close()
  RegFails,   \* sevent_io_register may fail in a write
  NestedClose \* close and destroy are called in the on_error of a failed write

ASSUME TlsAssumption ==
  /\ {MaxOpen, MaxByte, MaxChunk, MaxRecv, MaxDepth} \subseteq Nat
  /\ {Reopens, RegFails, NestedClose} \subseteq BOOLEAN

VARIABLES
  t,       \* struct tls_conn
  tcp,     \* state of t->tcp
  frames,  \* the loop thread, innermost first
  life,    \* of the memory: "live", "posted" (tls_cleanup), "tcp" (its second post), "freed"
  view,    \* history: the connection as the user's callbacks tell it
  opens,   \* history: connections so far
  recvd,   \* history: records received on this connection
  byte,    \* history: the last byte written
  wire,    \* history: bytes the session has taken, in order
  taken    \* history: bytes of writes that have returned 0

history == <<opens, recvd, byte, wire, taken>>
vars    == <<t, tcp, frames, life, view, history>>

LibFn == {"read", "pump", "flush", "write", "send"}
Callback == {"open", "data", "close", "error"}

\* at: where the function goes on; val: what it holds over the nested call;
\* sc: what tls_send_cipher has returned to it.
F(fn, at, val) == [fn |-> fn, at |-> at, val |-> val, sc |-> 0]
Cb(what) == F("cb", what, <<>>)

Bytes == Seq(1 .. MaxByte)

Conn ==
  [ctx : Contexts, server : BOOLEAN, established : BOOLEAN, handshake_done : BOOLEAN,
   closed_notified : BOOLEAN, destroyed : BOOLEAN, ssl : Session \cup {NoSsl}, pending : Bytes]

Frame ==
  [fn : {"cb"}, at : Callback, val : {<<>>}, sc : {0}]
    \cup [fn : {"send"}, at : {"loop", "failed"}, val : {<<>>}, sc : {0}]
    \cup [fn : {"read", "pump"}, at : {"loop"}, val : {<<>>}, sc : {0}]
    \cup [fn : {"read"}, at : {"sent"}, val : {"data", "eof", "want_read", "want_write", "err"},
          sc : {-1, 0, 1}]
    \cup [fn : {"pump"}, at : {"sent"}, val : {"done", "want_read", "want_write", "fail"},
          sc : {-1, 0, 1}]
    \cup [fn : {"flush"}, at : {"start"}, val : {<<>>}, sc : {0}]
    \cup [fn : {"flush"}, at : {"loop", "sent"}, val : Bytes, sc : {-1, 0, 1}]
    \cup [fn : {"write"}, at : {"loop", "sent"}, val : [left : Bytes, all : Bytes], sc : {-1, 0, 1}]

TypeOK ==
  /\ t \in Conn /\ frames \in Seq(Frame)
  /\ tcp \in {"IDLE", "OPENING", "OPEN"}
  /\ life \in {"live", "posted", "tcp", "freed"}
  /\ view \in {"none", "opening", "open", "ended", "wrong"}
  /\ opens \in 0 .. MaxOpen /\ recvd \in 0 .. MaxRecv /\ byte \in 0 .. MaxByte
  /\ wire \in Bytes /\ taken \subseteq 1 .. MaxByte

\* A context is any that sevent_ssl_ctx_new makes; of two that behave alike in
\* every role one is enough.
Init ==
  /\ \E ctx \in {c \in Contexts : c.peer_verify /\ c.ca_available} :
       t = [ctx |-> ctx, server |-> FALSE, established |-> FALSE, handshake_done |-> FALSE,
            closed_notified |-> FALSE, destroyed |-> FALSE, ssl |-> NoSsl, pending |-> <<>>]
  /\ tcp = "IDLE" /\ frames = <<>> /\ life = "live" /\ view = "none"
  /\ opens = 0 /\ recvd = 0 /\ byte = 0 /\ wire = <<>> /\ taken = {}

-----------------------------------------------------------------------------
(* The end of a connection. *)

tls_reset_after_term(c) ==
  [c EXCEPT !.ssl = NoSsl, !.pending = <<>>, !.established = FALSE,
            !.handshake_done = FALSE, !.closed_notified = FALSE]

\* How the user's view of the connection changes with a callback.
See(what) ==
  CASE what = "open" /\ view = "opening"                          -> "open"
    [] what = "data" /\ view = "open"                             -> "open"
    [] what \in {"close", "error"} /\ view \in {"opening", "open"} -> "ended"
    [] OTHER                                                      -> "wrong"

Call(what, below) ==
  /\ frames' = <<Cb(what)>> \o below
  /\ view' = See(what)

\* Mutant: the notification is not made once only.
tls_fail_again(c, below) ==
  t' = [tls_reset_after_term(c) EXCEPT !.closed_notified = TRUE] /\ Call("error", below)

\* The object is reset first; on_error follows unless the end has been told.
tls_fail(c, below) ==
  IF c.closed_notified
  THEN t' = tls_reset_after_term(c) /\ frames' = below /\ UNCHANGED view
  ELSE t' = [tls_reset_after_term(c) EXCEPT !.closed_notified = TRUE] /\ Call("error", below)

tls_notify_close(c, below) ==
  IF c.closed_notified
  THEN t' = c /\ frames' = below /\ UNCHANGED view
  ELSE t' = [tls_reset_after_term(c) EXCEPT !.closed_notified = TRUE] /\ Call("close", below)

-----------------------------------------------------------------------------
(* Library functions.  On(fn, at): fn is the innermost frame and at that    *)
(* point.  A return goes to the frame below.                                *)

Top == Head(frames)
Below == Tail(frames)
On(fn, at) == frames # <<>> /\ Top.fn = fn /\ Top.at = at /\ life # "freed"

\* tls_send_cipher returns rc to the frame below it.
Returned(rc) == <<[Head(Below) EXCEPT !.sc = rc]>> \o Tail(Below)

\* fn calls tls_send_cipher, right after it has used the session, and goes on at
\* "sent" with val.
CallSend(val) ==
  <<F("send", "loop", <<>>)>> \o <<[Top EXCEPT !.at = "sent", !.val = val, !.sc = 0]>> \o Below

Gone == t.destroyed \/ t.ssl = NoSsl

\* Nothing left to drain.
send_done ==
  /\ On("send", "loop") /\ t.ssl # NoSsl /\ t.ssl.out = 0
  /\ frames' = Returned(0)
  /\ UNCHANGED <<t, tcp, life, view, history>>

\* What sevent_tcp_conn_write does: take the data; refuse it (not OPEN, no memory);
\* end the connection, call on_error and fail; take the data, end the connection
\* for want of a handle and call on_close.
tcp_conn_write ==
  IF tcp # "OPEN" THEN {"INVAL"}
  ELSE {"OK", "NOMEM", "WRITE"} \cup {r \in {"UNREGISTERED"} : RegFails}

\* A record is drained and written.
send_write ==
  /\ On("send", "loop") /\ t.ssl # NoSsl /\ t.ssl.out > 0
  /\ \E rc \in tcp_conn_write :
       LET drained == [t EXCEPT !.ssl = ossl_drain(@)]
           ended   == [drained EXCEPT !.ssl = ossl_peer_close(@)]
           failed  == <<[Top EXCEPT !.at = "failed"]>> \o Below
       IN /\ tcp' = IF rc \in {"WRITE", "UNREGISTERED"} THEN "IDLE" ELSE tcp
          /\ CASE rc = "INVAL" -> t' = drained /\ frames' = Returned(1) /\ UNCHANGED view
               [] rc = "OK"    -> t' = drained /\ UNCHANGED <<frames, view>>
               [] rc = "NOMEM" -> tls_fail(drained, Returned(-1))
               [] rc = "WRITE" -> tls_fail(drained, failed)
               [] rc = "UNREGISTERED" ->
                    IF t.handshake_done
                    THEN /\ t' = ended /\ UNCHANGED view
                         /\ frames' = <<F("read", "loop", <<>>)>> \o frames
                    ELSE tls_fail(drained, frames)
  /\ UNCHANGED <<life, history>>

\* sevent_tcp_conn_write has returned an error, after on_error.
send_failed ==
  /\ On("send", "failed")
  /\ tls_fail(t, Returned(-1))
  /\ UNCHANGED <<tcp, life, history>>

read_loop ==
  /\ On("read", "loop")
  /\ IF Gone
     THEN frames' = Below /\ UNCHANGED t
     ELSE \E res \in ossl_read(t.ssl) :
            t' = [t EXCEPT !.ssl = res.s] /\ frames' = CallSend(res.r)
  /\ UNCHANGED <<tcp, life, view, history>>

read_sent ==
  /\ On("read", "sent")
  /\ \/ /\ Top.sc = -1 \/ Top.val \in {"want_read", "want_write"}
        /\ frames' = Below /\ UNCHANGED <<t, view>>
     \/ /\ Top.sc # -1 /\ Top.val = "data"
        /\ Call("data", <<F("read", "loop", <<>>)>> \o Below) /\ UNCHANGED t
     \/ /\ Top.sc # -1 /\ Top.val = "eof"
        /\ tls_notify_close(t, Below)
     \/ /\ Top.sc # -1 /\ Top.val = "err"
        /\ tls_fail(t, Below)
  /\ UNCHANGED <<tcp, life, history>>

pump_loop ==
  /\ On("pump", "loop")
  /\ IF Gone
     THEN frames' = Below /\ UNCHANGED t
     ELSE LET res == ossl_handshake(t.ssl)
          IN t' = [t EXCEPT !.ssl = res.s] /\ frames' = CallSend(res.rc)
  /\ UNCHANGED <<tcp, life, view, history>>

\* Mutant: plaintext that came with the handshake is left in the session.
pump_sent_no_read ==
  /\ On("pump", "sent")
  /\ \/ /\ Top.sc = -1 \/ Top.val = "want_read"
        /\ frames' = Below /\ UNCHANGED <<t, view>>
     \/ /\ Top.sc # -1 /\ Top.val = "done"
        /\ t' = [t EXCEPT !.handshake_done = TRUE]
        /\ Call("open", Below)
     \/ /\ Top.sc # -1 /\ Top.val = "want_write"
        /\ frames' = <<F("pump", "loop", <<>>)>> \o Below /\ UNCHANGED <<t, view>>
     \/ /\ Top.sc # -1 /\ Top.val = "fail"
        /\ tls_fail(t, Below)
  /\ UNCHANGED <<tcp, life, history>>

\* Done: on_open, and then what has come with the handshake is read.
pump_sent ==
  /\ On("pump", "sent")
  /\ \/ /\ Top.sc = -1 \/ Top.val = "want_read"
        /\ frames' = Below /\ UNCHANGED <<t, view>>
     \/ /\ Top.sc # -1 /\ Top.val = "done"
        /\ t' = [t EXCEPT !.handshake_done = TRUE]
        /\ Call("open", <<F("read", "loop", <<>>)>> \o Below)
     \/ /\ Top.sc # -1 /\ Top.val = "want_write"
        /\ frames' = <<F("pump", "loop", <<>>)>> \o Below /\ UNCHANGED <<t, view>>
     \/ /\ Top.sc # -1 /\ Top.val = "fail"
        /\ tls_fail(t, Below)
  /\ UNCHANGED <<tcp, life, history>>

\* Parked bytes are written as soon as the session has been fed.
tls_flush_pending ==
  /\ On("flush", "start")
  /\ frames' = IF t.pending = <<>> \/ t.destroyed THEN Below
               ELSE <<F("flush", "loop", t.pending)>> \o Below
  /\ UNCHANGED <<t, tcp, life, view, history>>

flush_end == t' = [t EXCEPT !.pending = <<>>]

flush_loop ==
  /\ On("flush", "loop")
  /\ \/ /\ Top.val = <<>> \/ Gone
        /\ flush_end /\ frames' = Below /\ UNCHANGED <<view, wire>>
     \/ /\ Top.val # <<>> /\ ~Gone
        /\ \E res \in ossl_write(t.ssl, Len(Top.val)) :
             IF res.want = "error"
             THEN tls_fail(t, Below) /\ UNCHANGED wire
             ELSE /\ t' = [t EXCEPT !.ssl = res.s]
                  /\ wire' = wire \o SubSeq(Top.val, 1, res.n)
                  /\ frames' = CallSend(SubSeq(Top.val, res.n + 1, Len(Top.val)))
                  /\ UNCHANGED view
  /\ UNCHANGED <<tcp, life, opens, recvd, byte, taken>>

flush_sent ==
  /\ On("flush", "sent")
  /\ IF Top.sc # 0
     THEN flush_end /\ frames' = Below
     ELSE frames' = <<F("flush", "loop", Top.val)>> \o Below /\ UNCHANGED t
  /\ UNCHANGED <<tcp, life, view, history>>

\* The rest of a write waits for data from the peer.
tls_park_write(c, data) == [c EXCEPT !.pending = data]

\* sevent_tls_conn_write in its loop; val: the bytes left and all bytes of the call.
write_loop ==
  /\ On("write", "loop")
  /\ LET left == Top.val.left
         accept == frames' = Below /\ taken' = taken \cup ToSet(Top.val.all)
     IN \/ /\ left = <<>>
           /\ accept /\ UNCHANGED <<t, view, wire>>
        \/ /\ left # <<>> /\ Gone
           /\ frames' = Below /\ UNCHANGED <<t, view, wire, taken>>
        \/ /\ left # <<>> /\ ~Gone
           /\ \E res \in ossl_write(t.ssl, Len(left)) :
                \/ /\ res.want = "error"
                   /\ tls_fail(t, Below) /\ UNCHANGED <<wire, taken>>
                \/ /\ res.want = "read"
                   /\ t' = tls_park_write([t EXCEPT !.ssl = res.s], left)
                   /\ accept /\ UNCHANGED <<view, wire>>
                \/ /\ res.want = "read"  \* no memory to park
                   /\ t' = [t EXCEPT !.ssl = res.s]
                   /\ frames' = Below /\ UNCHANGED <<view, wire, taken>>
                \/ /\ res.want \in {"none", "write"}
                   /\ t' = [t EXCEPT !.ssl = res.s]
                   /\ wire' = wire \o SubSeq(left, 1, res.n)
                   /\ frames' = CallSend([left |-> SubSeq(left, res.n + 1, Len(left)),
                                          all |-> Top.val.all])
                   /\ UNCHANGED <<view, taken>>
  /\ UNCHANGED <<tcp, life, opens, recvd, byte>>

write_sent ==
  /\ On("write", "sent")
  /\ frames' = IF Top.sc # 0 THEN Below ELSE <<F("write", "loop", Top.val)>> \o Below
  /\ UNCHANGED <<t, tcp, life, view, history>>

-----------------------------------------------------------------------------
(* Callbacks of the TCP connection, from the loop. *)

FromLoop == frames = <<>> /\ life \in {"live", "posted"}

\* tls_start_handshake: a session is made, unless the context is not fit for a
\* server or memory is short.
tcp_cb_open ==
  /\ FromLoop /\ tcp = "OPENING" /\ tcp' = "OPEN"
  /\ IF t.destroyed THEN UNCHANGED <<t, frames, view>>
     ELSE \/ /\ t.server => ServerReady(t.ctx)
             /\ t' = [t EXCEPT !.ssl = ossl_ssl_new]
             /\ frames' = <<F("pump", "loop", <<>>)>> /\ UNCHANGED view
          \/ tls_fail(t, <<>>)
  /\ UNCHANGED <<life, history>>

tcp_cb_data ==
  /\ FromLoop /\ tcp = "OPEN"
  /\ \E data \in UNION {[1 .. n -> Records] : n \in 1 .. MaxChunk} :
       /\ recvd + Len(data) <= MaxRecv /\ recvd' = recvd + Len(data)
       /\ IF Gone THEN UNCHANGED <<t, frames, view>>
          ELSE IF ~FeedFits(t.ssl, data) THEN tls_fail(t, <<>>)
          ELSE /\ t' = [t EXCEPT !.ssl = ossl_feed(@, data)]
               /\ frames' = IF t.handshake_done
                            THEN <<F("read", "loop", <<>>), F("flush", "start", <<>>)>>
                            ELSE <<F("pump", "loop", <<>>)>>
               /\ UNCHANGED view
  /\ UNCHANGED <<tcp, life, opens, byte, wire, taken>>

\* Mutant: an end in the handshake is not told.
tcp_cb_close_quiet ==
  /\ FromLoop /\ tcp \in {"OPENING", "OPEN"} /\ tcp' = "IDLE"
  /\ IF Gone \/ ~t.handshake_done THEN UNCHANGED <<t, frames, view>>
     ELSE /\ t' = [t EXCEPT !.ssl = ossl_peer_close(@)]
          /\ frames' = <<F("read", "loop", <<>>)>> /\ UNCHANGED view
  /\ UNCHANGED <<life, history>>

\* The end of the channel: what is left in the session is read, then on_close.
tcp_cb_close ==
  /\ FromLoop /\ tcp \in {"OPENING", "OPEN"} /\ tcp' = "IDLE"
  /\ IF t.destroyed THEN UNCHANGED <<t, frames, view>>
     ELSE IF ~t.handshake_done THEN tls_fail(t, <<>>)
     ELSE /\ t' = [t EXCEPT !.ssl = ossl_peer_close(@)]
          /\ frames' = <<F("read", "loop", <<>>)>> /\ UNCHANGED view
  /\ UNCHANGED <<life, history>>

tcp_cb_error ==
  /\ FromLoop /\ tcp \in {"OPENING", "OPEN"} /\ tcp' = "IDLE"
  /\ IF t.destroyed THEN UNCHANGED <<t, frames, view>> ELSE tls_fail(t, <<>>)
  /\ UNCHANGED <<life, history>>

-----------------------------------------------------------------------------
(* The API, called from user code. *)

UserTurn == life = "live" /\ (frames # <<>> => Top.fn = "cb") /\ Len(frames) < MaxDepth

\* sevent_tls_conn_open and accept: after the object's own tests the TCP connection
\* is opened; any failure from there on resets the object.
Establish(server) ==
  /\ UserTurn /\ ~t.established /\ ~t.destroyed
  /\ opens < MaxOpen
  /\ Reopens \/ view = "none"
  /\ \/ /\ tcp = "IDLE" /\ tcp' = "OPENING"
        /\ t' = [t EXCEPT !.server = server, !.established = TRUE]
        /\ view' = "opening" /\ opens' = opens + 1
        /\ recvd' = 0 /\ wire' = <<>> /\ taken' = {}
     \/ /\ t' = [tls_reset_after_term(t) EXCEPT !.server = server]
        /\ UNCHANGED <<tcp, view, opens, recvd, wire, taken>>
  /\ UNCHANGED <<frames, life, byte>>

sevent_tls_conn_open == Establish(FALSE)
sevent_tls_conn_accept == Establish(TRUE)

\* Mutant: a write is accepted while another one is parked.
sevent_tls_conn_write_overtakes ==
  /\ UserTurn /\ t.established /\ t.handshake_done /\ ~Gone
  /\ \E n \in 1 .. 2 :
       /\ byte + n <= MaxByte /\ byte' = byte + n
       /\ LET data == [i \in 1 .. n |-> byte + i]
          IN frames' = <<F("write", "loop", [left |-> data, all |-> data])>> \o frames
  /\ UNCHANGED <<t, tcp, life, view, opens, recvd, wire, taken>>

\* Refused without a session or while a write is parked.
sevent_tls_conn_write ==
  /\ UserTurn /\ t.established /\ t.handshake_done /\ ~Gone /\ t.pending = <<>>
  /\ \E n \in 1 .. 2 :
       /\ byte + n <= MaxByte /\ byte' = byte + n
       /\ LET data == [i \in 1 .. n |-> byte + i]
          IN frames' = <<F("write", "loop", [left |-> data, all |-> data])>> \o frames
  /\ UNCHANGED <<t, tcp, life, view, opens, recvd, wire, taken>>

MayClose == UserTurn /\ (NestedClose \/ \A i \in DOMAIN frames : frames[i].at # "failed")

sevent_tls_conn_close ==
  /\ MayClose
  /\ t' = tls_reset_after_term(t) /\ tcp' = "IDLE" /\ view' = "none"
  /\ UNCHANGED <<frames, life, history>>

\* The object is closed and its release posted.
sevent_tls_conn_destroy ==
  /\ MayClose /\ ~t.destroyed
  /\ t' = [tls_reset_after_term(t) EXCEPT !.destroyed = TRUE] /\ tcp' = "IDLE"
  /\ view' = "none" /\ life' = "posted"
  /\ UNCHANGED <<frames, history>>

\* tls_cleanup releases the object and posts the release of the TCP connection.
tls_cleanup ==
  /\ frames = <<>>
  /\ \/ life = "posted" /\ life' = "tcp"
     \/ life = "tcp" /\ life' = "freed"
  /\ UNCHANGED <<t, tcp, frames, view, history>>

callback_return ==
  /\ frames # <<>> /\ Top.fn = "cb"
  /\ frames' = Below
  /\ UNCHANGED <<t, tcp, life, view, history>>

-----------------------------------------------------------------------------
Library ==
  \/ send_done \/ send_write \/ send_failed \/ read_loop \/ read_sent
  \/ pump_loop \/ pump_sent \/ tls_flush_pending \/ flush_loop \/ flush_sent
  \/ write_loop \/ write_sent

Tcp == tcp_cb_open \/ tcp_cb_data \/ tcp_cb_close \/ tcp_cb_error

User ==
  \/ sevent_tls_conn_open \/ sevent_tls_conn_accept \/ sevent_tls_conn_write
  \/ sevent_tls_conn_close \/ sevent_tls_conn_destroy

Next == Library \/ Tcp \/ User \/ tls_cleanup \/ callback_return

Spec == Init /\ [][Next]_vars

-----------------------------------------------------------------------------
(* Properties. *)

\* on_open comes once and first, on_data after it, and one on_close or on_error ends
\* a connection; after that, and after close(), nothing is told any more.
NotificationOrder == view # "wrong"

\* When the TCP connection is down and no call is in progress, the user has been told
\* of the end or has closed the connection himself.
EndTold == frames = <<>> /\ tcp = "IDLE" => view \notin {"opening", "open"}

\* When control is back in the event loop and the channel is up, nothing is stuck in
\* the session: the plaintext that has come, also together with the last handshake
\* record, has been handed to on_data, and every record for the peer has been sent.
NothingStuck ==
  frames = <<>> /\ tcp = "OPEN" /\ t.ssl # NoSsl
    => t.ssl.out = 0 /\ (t.handshake_done => t.ssl.in = <<>>)

\* Bytes reach the session in the order of the writes, and a write that has returned
\* 0 has its bytes in the session or parked, as long as the session lives.
WriteOrder ==
  /\ \A i, j \in DOMAIN wire : i < j => wire[i] < wire[j]
  /\ t.ssl # NoSsl => taken \subseteq ToSet(wire) \cup ToSet(t.pending)

\* tls_conn.c:120: tls_send_cipher does not use a session that a callback has released.  Does
\* not hold: that is looked at once, before the loop, and a write may end the TCP connection and
\* with it this one, and still return 0 (RegFails; tcp_conn.c:185).
SessionAlive == On("send", "loop") => t.ssl # NoSsl
=============================================================================
