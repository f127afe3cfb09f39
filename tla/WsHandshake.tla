----------------------------- MODULE WsHandshake -----------------------------
(***************************************************************************)
(* The WebSocket opening handshake: src/src/websockets/ws_handshake.c, the *)
(* negotiation of permessage-deflate in ws_conn.c and ws_deflate.c.        *)
(* Requests and responses are records of the headers the code looks at.    *)
(* A header of extensions is a sequence of [name, params], where params    *)
(* gives each parameter its value: 0 if it has none, -1 if it is not a     *)
(* number.                                                                 *)
(***************************************************************************)
EXTENDS Integers, Sequences, SequencesExt

PMD == "permessage-deflate"
CNCT == "client_no_context_takeover"
SNCT == "server_no_context_takeover"
CMWB == "client_max_window_bits"
SMWB == "server_max_window_bits"

SWITCHING == 101

NoParams == [p \in {} |-> 0]
Given(set, param, value) == IF set THEN param :> value ELSE NoParams

-----------------------------------------------------------------------------
(* Compression. *)

\* No compression: the deflate pointer is NULL.
NoDeflate == [on |-> FALSE, cbw |-> 0, sbw |-> 0, reset |-> FALSE]

\* zlib does not make a raw deflate stream with a window of 8 bits.
ws_deflate_create(cbw, sbw, reset) ==
  LET bits(b) == IF b = 0 THEN 15 ELSE b
  IN IF bits(cbw) = 8 THEN NoDeflate
     ELSE [on |-> TRUE, cbw |-> bits(cbw), sbw |-> bits(sbw), reset |-> reset]

Valid(bits) == 8 <= bits /\ bits <= 15

-----------------------------------------------------------------------------
(* Keys. *)

ws_compute_accept(key) == [of |-> key]

ws_verify_accept(key, accept) == accept = ws_compute_accept(key)

-----------------------------------------------------------------------------
(* The client's request and the server's answer. *)

\* cfg: the configuration of the connection.
Offer(cfg) ==
  IF ~cfg.deflate THEN <<>>
  ELSE <<[name |-> PMD,
          params |-> (CMWB :> IF Valid(cfg.cmwb) THEN cfg.cmwb ELSE 0)
                       @@ Given(Valid(cfg.smwb), SMWB, cfg.smwb)
                       @@ Given(cfg.cnct, CNCT, 0) @@ Given(cfg.snct, SNCT, 0)]>>

ws_build_request(key, cfg) ==
  [is |-> "request", method |-> "GET", upgrade |-> "websocket", connection |-> {"upgrade"},
   key |-> key, version |-> 13, ext |-> Offer(cfg)]

\* Names of extensions and of parameters without a value are looked up alike.
ext_token_has(ext, token) ==
  \E i \in DOMAIN ext : ext[i].name = token
                        \/ (token \in DOMAIN ext[i].params /\ ext[i].params[token] = 0)

\* The status of the answer, 0 if the request is accepted.  Key 0 stands for a key that is
\* missing or not of 24 characters.
RequestStatus(req) ==
  IF req.method # "GET" \/ req.upgrade # "websocket" \/ "upgrade" \notin req.connection \/ req.key = 0 THEN 400
  ELSE IF req.version # 13 THEN 426 ELSE 0

\* n: the items consumed, 0 for a request that is not complete, -1 for a malformed one.
ws_parse_request(buf) ==
  LET n == SelectInSeq(buf, LAMBDA item : item.is # "part")
      r == buf[n]
      offered == ext_token_has(r.ext, PMD)
      bad(ret, status) == [n |-> ret, status |-> status, key |-> 0, deflate_offered |-> FALSE, nct |-> FALSE]
  IN IF n = 0 THEN bad(0, -1)
     ELSE IF r.is # "request" THEN bad(-1, -1)
     ELSE IF RequestStatus(r) # 0 THEN bad(n, RequestStatus(r))
     ELSE [n |-> n, status |-> 0, key |-> r.key,
           deflate_offered |-> offered, nct |-> offered /\ ext_token_has(r.ext, CNCT)]

Response(status, accept, location, ext) ==
  [is |-> "response", whole |-> TRUE, status |-> status, accept |-> accept,
   location |-> location, ext |-> ext]

NoAccept == [of |-> 0]

ws_build_response(key, pmd) ==
  Response(SWITCHING, ws_compute_accept(key), "none",
           IF pmd THEN <<[name |-> PMD, params |-> NoParams]>> ELSE <<>>)

NoResponse == [Response(0, NoAccept, "none", <<>>) EXCEPT !.whole = FALSE]

\* A response whose head is complete and whose body is not (whole is FALSE) has its status
\* looked for behind the second space, where the reason is: it is malformed.
ws_parse_response(buf) ==
  LET n == SelectInSeq(buf, LAMBDA item : item.is # "part")
      r == buf[n]
  IN IF n = 0 THEN [n |-> 0, resp |-> NoResponse]
     ELSE IF r.is # "response" \/ ~r.whole THEN [n |-> -1, resp |-> NoResponse]
     ELSE IF r.status = SWITCHING /\ r.accept = NoAccept THEN [n |-> -1, resp |-> r]
     ELSE [n |-> n, resp |-> r]

-----------------------------------------------------------------------------
(* What the client makes of the answer. *)

ws_extensions_ok(ext, offered) == ext = <<>> \/ (offered /\ \A i \in DOMAIN ext : ext[i].name = PMD)

\* Locations: a path, ws://host with a port or not, and those that are refused (another
\* scheme, no host, a port that is not a port).
ws_redirect_parse(location) == location \in {"path", "ws"}

\* The first occurrence of a parameter; 0 if there is none or it has no value.
First(ext, param) ==
  LET i == SelectInSeq(ext, LAMBDA e : param \in DOMAIN e.params)
  IN IF i = 0 THEN 0 ELSE ext[i].params[param]

Named(ext, param) == \E i \in DOMAIN ext : param \in DOMAIN ext[i].params

\* A window the server names: it has to be valid and not larger than what was asked for.
WindowOk(value, asked) == value = 0 \/ (Valid(value) /\ (asked = 0 \/ value <= asked))

Negotiable(cfg, ext) ==
  WindowOk(First(ext, CMWB), cfg.cmwb) /\ WindowOk(First(ext, SMWB), cfg.smwb)

\* Mutant: the window the server allows is taken over only where it was asked for.
Negotiated_as_offered(cfg, ext) ==
  IF ~cfg.deflate \/ ext = <<>> THEN NoDeflate
  ELSE ws_deflate_create(IF Valid(cfg.cmwb) THEN cfg.cmwb ELSE 0, First(ext, SMWB), cfg.cnct)

\* The window of the client is the one the server names, else the one it offered; its
\* context is reset as it has been configured, whatever the server says of it.
Negotiated(cfg, ext) ==
  LET named == First(ext, CMWB)
  IN IF ~cfg.deflate \/ ext = <<>> THEN NoDeflate
     ELSE ws_deflate_create(IF named # 0 THEN named ELSE IF Valid(cfg.cmwb) THEN cfg.cmwb ELSE 0,
                            First(ext, SMWB), cfg.cnct)
=============================================================================
