------------------------------ MODULE SslBackend ------------------------------
(***************************************************************************)
(* The TLS library behind src/src/ssl/: the configuration it accepts and a *)
(* session as the data channel tls_conn.c uses.  What OpenSSL does inside  *)
(* a session is external; it is modelled by what ssl_openssl.c makes of    *)
(* it.  A session takes records in (feed), puts records out (drain) and    *)
(* answers handshake, read and write.                                      *)
(***************************************************************************)
EXTENDS Naturals, Sequences, SequencesExt

CONSTANTS
  OutCap,     \* OSSL_PAIR_SIZE: records that wait for drain
  FeedCap,    \* OSSL_PAIR_SIZE: records that one feed can add
  Flight,     \* records of the handshake this side sends
  MaxNeed,    \* bound: feeds a write may have to wait for
  ChannelEnd  \* what a read makes of the end of the channel without close_notify

ASSUME SslAssumption ==
  /\ {OutCap, FeedCap, Flight} \subseteq Nat \ {0} /\ MaxNeed \in Nat
  /\ ChannelEnd # {} /\ ChannelEnd \subseteq {"eof", "want_read", "err"}

NoSsl == [none |-> TRUE]

\* Records that arrive: the peer's handshake, application data, a request to
\* update keys (answered with a record), close_notify, garbage.
Records == {"hs", "data", "update", "notify", "bad"}

-----------------------------------------------------------------------------
(* Configuration.  Each of ca, cert and key is the set of channels it was   *)
(* given by; loads is what the library manages to load.                     *)

Channel == {"path", "pem"}
Config == [ca : SUBSET Channel, cert : SUBSET Channel, key : SUBSET Channel,
           peer_verify : BOOLEAN, loads : SUBSET {"ca", "cert", "system"}]

\* Each pair of channels excludes the other, and certificate and key come in
\* pairs by the same channel.
ssl_config_check(cfg) ==
  /\ \A f \in {cfg.ca, cfg.cert, cfg.key} : f # Channel
  /\ cfg.cert = cfg.key

NoCtx == [none |-> TRUE]

\* Loading fails for a CA or a certificate that was given and is no good; without
\* a CA the system's is taken, if there is one.
ossl_ctx_new(cfg) ==
  IF \/ cfg.ca # {} /\ "ca" \notin cfg.loads
     \/ cfg.cert # {} /\ "cert" \notin cfg.loads
  THEN NoCtx
  ELSE [cert |-> cfg.cert # {}, peer_verify |-> cfg.peer_verify,
        ca_available |-> cfg.ca # {} \/ "system" \in cfg.loads]

sevent_ssl_ctx_new(cfg) == IF ssl_config_check(cfg) THEN ossl_ctx_new(cfg) ELSE NoCtx

Contexts == {sevent_ssl_ctx_new(cfg) : cfg \in Config} \ {NoCtx}

\* A server needs a certificate, and a CA if it verifies its clients.
ServerReady(ctx) == ctx.cert /\ (ctx.peer_verify => ctx.ca_available)

-----------------------------------------------------------------------------
(* Sessions.  todo: records of the own flight not yet put out; need: feeds   *)
(* before a write can go on, in a renegotiation, of which there is one.      *)

Session == [in : Seq(Records), closed : BOOLEAN, out : 0 .. OutCap,
            todo : 0 .. Flight, need : 0 .. MaxNeed, renegotiated : BOOLEAN]

ossl_ssl_new ==
  [in |-> <<>>, closed |-> FALSE, out |-> 0, todo |-> Flight, need |-> 0, renegotiated |-> FALSE]

\* The pair buffer takes all or the feed fails.
FeedFits(s, data) == Len(s.in) + Len(data) <= FeedCap
ossl_feed(s, data) ==
  [s EXCEPT !.in = @ \o data, !.need = IF @ = 0 THEN 0 ELSE @ - 1]

ossl_drain(s) == [s EXCEPT !.out = @ - 1]

ossl_peer_close(s) == [s EXCEPT !.closed = TRUE]

\* The own flight goes out as far as the pair buffer has room; then the peer's is
\* waited for.  rc is 0, "want_write", "want_read" or "fail".
ossl_handshake(s) ==
  IF s.todo > OutCap - s.out
  THEN [rc |-> "want_write", s |-> [s EXCEPT !.out = OutCap, !.todo = @ - (OutCap - s.out)]]
  ELSE LET sent == [s EXCEPT !.out = @ + s.todo, !.todo = 0]
       IN IF s.in = <<>>
          THEN [rc |-> IF s.closed THEN "fail" ELSE "want_read", s |-> sent]
          ELSE IF Head(s.in) = "hs"
               THEN [rc |-> "done", s |-> [sent EXCEPT !.in = Tail(@)]]
               ELSE [rc |-> "fail", s |-> sent]

\* A read gives data, the end, a wait or an error.  It answers requests to update
\* keys on its way to the next record, and waits for a drain when an answer finds no
\* room.  The end of the channel is the end for OpenSSL 3; before, it is what errno
\* has been left at.
ossl_read(s) ==
  LET i == SelectInSeq(s.in, LAMBDA r : r # "update")
      updates == IF i = 0 THEN Len(s.in) ELSE i - 1
      first == IF i = 0 THEN "none" ELSE s.in[i]
      room == OutCap - s.out
      After(n) == [s EXCEPT !.in = SubSeq(@, n + 1, Len(@)), !.out = @ + n]
      u == After(updates)
  IN IF updates > room THEN {[r |-> "want_write", s |-> After(room)]}
     ELSE CASE first = "data"   -> {[r |-> "data", s |-> [u EXCEPT !.in = Tail(@)]]}
            [] first = "notify" -> {[r |-> "eof", s |-> u]}
            [] first = "none"   -> {[r |-> e, s |-> u] : e \in IF s.closed THEN ChannelEnd
                                                              ELSE {"want_read"}}
            [] OTHER            -> {[r |-> "err", s |-> u]}

\* A write takes some of the n bytes, has to wait for room or for the peer, or fails.
\* One that does not fit fills the buffer first, and is taken when it is repeated.
ossl_write(s, n) ==
  IF s.need > 0 THEN {[n |-> 0, want |-> "read", s |-> s]}
  ELSE IF s.out = OutCap THEN {[n |-> 0, want |-> "write", s |-> s]}
  ELSE {[n |-> k, want |-> "none", s |-> [s EXCEPT !.out = @ + 1]] : k \in 1 .. n}
       \cup {[n |-> 0, want |-> "write", s |-> [s EXCEPT !.out = OutCap]]}
       \cup {[n |-> 0, want |-> "error", s |-> s]}
       \cup {[n |-> 0, want |-> "read", s |-> [s EXCEPT !.need = k, !.renegotiated = TRUE]] :
              k \in {i \in 1 .. MaxNeed : ~s.renegotiated}}
=============================================================================
