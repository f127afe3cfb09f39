-------------------------- MODULE TlsAcceptorProofs ---------------------------
(***************************************************************************)
(* The proofs about the two components on top of and beside a TCP          *)
(* connection: first TlsConn, then TcpAcceptor.                            *)
(***************************************************************************)
EXTENDS TlsConn, TcpAcceptor, DataLemmas

(***************************************************************************)
(* TlsConn, for any session, bounds and nesting of callbacks. The          *)
(* properties need to know what the loop thread is going to do after a     *)
(* callback. While there is a session its stack has one of a few shapes;   *)
(* once the session is gone, nothing that is left on the stack touches it, *)
(* and it does not come back before the stack is empty.                    *)
(***************************************************************************)

Live == t.ssl # NoSsl

-----------------------------------------------------------------------------
(* The inductive invariant. *)

\* What the flags, the session and the TCP connection are in each state of the
\* connection as the user sees it.
Relation ==
  /\ view # "wrong"
  /\ t.established <=> view \in {"opening", "open"}
  /\ t.handshake_done <=> view = "open"
  /\ Live <=> view = "open" \/ (view = "opening" /\ tcp = "OPEN")
  /\ t.closed_notified => view = "ended"
  /\ view = "none" => tcp = "IDLE"
  /\ view = "opening" => tcp # "IDLE"
  /\ view = "open" => tcp # "OPENING"
  /\ view = "ended" => tcp # "OPENING" /\ (tcp = "OPEN" => t.closed_notified)
  /\ t.destroyed => view = "none"
  /\ view # "open" => t.pending = <<>>

\* A frame that waits for the one above and goes on whatever that has done: a
\* callback, a read that looks at the session again, a flush that has not begun.
Awaiting(f) ==
  f.fn = "cb" \/ (f.fn = "read" /\ f.at = "loop") \/ (f.fn = "flush" /\ f.at = "start")

\* A frame to which tls_send_cipher has returned that the connection is over.
Over(f) == f.at = "sent" /\ f.sc = -1

AllWait(s) == \A f \in ToSet(s) : Awaiting(f)
AllOver(s) == \A f \in ToSet(s) : Awaiting(f) \/ Over(f)

\* The innermost frame is the handshake; reads, flushes or writes; sends for the
\* one below; has failed to send for the one below.
Pumps(s) == s # <<>> /\ Head(s).fn = "pump" /\ Head(s).sc # -1 /\ Tail(s) = <<>>
Works(s) ==
  /\ s # <<>> /\ Head(s).fn \in {"read", "flush", "write"} /\ Head(s).at \in {"loop", "sent"}
  /\ Head(s).sc # -1 /\ AllWait(Tail(s))
Sends(s) ==
  /\ s # <<>> /\ Head(s).fn = "send" /\ Head(s).at = "loop"
  /\ Tail(s) # <<>> /\ Head(Tail(s)).at = "sent"
Fails(s) ==
  /\ s # <<>> /\ Head(s).fn = "send" /\ Head(s).at = "failed"
  /\ Tail(s) # <<>> /\ Head(Tail(s)).at = "sent" /\ AllOver(Tail(Tail(s)))

PumpSends(s) == Sends(s) /\ Pumps(Tail(s))
WorkSends(s) == Sends(s) /\ Works(Tail(s))
FailTold(s) == s # <<>> /\ Head(s).fn = "cb" /\ Fails(Tail(s))

LiveShape(v, s) ==
  \/ v = "opening" /\ (s = <<>> \/ Pumps(s) \/ PumpSends(s))
  \/ v = "open" /\ (AllWait(s) \/ Works(s) \/ WorkSends(s))
DeadShape(told, s) == AllOver(s) \/ (told /\ (Fails(s) \/ FailTold(s)))

Shape ==
  IF Live THEN LiveShape(view, frames)
  ELSE DeadShape(t.closed_notified /\ tcp = "IDLE", frames)

\* The pair buffers are alike, as OSSL_PAIR_SIZE makes them, and the end of the channel
\* is never taken for a wait.
Sized == FeedCap <= OutCap /\ "want_read" \notin ChannelEnd

\* A read that is going to empty the session or to end the connection.
Reads(f) == f.fn = "read" /\ (f.at = "loop" \/ f.val \notin {"want_read", "want_write"})
Reading(s) == \E f \in ToSet(s) : Reads(f)

\* What the session holds: records to send only while tls_send_cipher runs, records
\* received only while somebody is going to read them, or until the channel is down.
SessionInv ==
  Live =>
    /\ tcp = "IDLE" => t.ssl.closed /\ \A f \in ToSet(frames) : f.fn # "flush"
    /\ tcp = "OPEN" => /\ t.ssl.out = 0 \/ (frames # <<>> /\ Top.fn = "send")
                       /\ \A f \in ToSet(frames) : f.sc # 1
    /\ view = "open" /\ Sized => (tcp = "OPEN" /\ t.ssl.in = <<>>) \/ Reading(frames)

\* What has been received fits in a pair buffer, and has been read when the channel
\* goes down: so a read has room for every answer it makes.
Received ==
  Live => Len(t.ssl.in) <= FeedCap /\ (Sized /\ tcp = "IDLE" => t.ssl.in = <<>>)

\* The frame that uses the session, and the bytes still to be given to it.
Working(s) == IF Head(s).fn = "send" THEN Head(Tail(s)) ELSE Head(s)
Writes(s) == s # <<>> /\ Working(s).fn = "write"
Flushes(s) == s # <<>> /\ Working(s).fn = "flush" /\ Working(s).at # "start"
Rest(c, s) ==
  IF Writes(s) THEN Working(s).val.left ELSE IF Flushes(s) THEN Working(s).val ELSE c.pending

Increasing(s) == \A i, j \in DOMAIN s : i < j => s[i] < s[j]

\* Bytes in the session and bytes to come are in order, the next write has greater
\* ones, and whatever a write has returned 0 for is among them.
Ordered(w, r, n) == Increasing(w \o r) /\ \A b \in ToSet(w \o r) : b <= n
BytesInv ==
  /\ Increasing(wire)
  /\ view = "opening" => wire = <<>> /\ taken = {}
  /\ Live =>
       /\ Ordered(wire, Rest(t, frames), byte)
       /\ taken \subseteq ToSet(wire) \cup ToSet(t.pending)
       /\ Writes(frames) =>
            /\ t.pending = <<>>
            /\ ToSet(Working(frames).val.all) \subseteq ToSet(wire) \cup ToSet(Working(frames).val.left)
       /\ Flushes(frames) => taken \subseteq ToSet(wire) \cup ToSet(Working(frames).val)

Inv == TypeOK /\ Relation /\ Shape /\ SessionInv /\ BytesInv

-----------------------------------------------------------------------------
(* Sessions: what SslBackend's operators keep. *)

LEMMA NoSslApart == NoSsl \notin Session
<1>1. ASSUME NEW s \in Session PROVE s # NoSsl
  <2>1. "in" \in DOMAIN s
    BY DEF Session
  <2>2. "in" \notin DOMAIN NoSsl
    BY DEF NoSsl
  <2> QED BY <2>1, <2>2
<1> QED BY <1>1

\* ossl_read: a read that has to wait has emptied the session, or found no room.
LEMMA ReadKeeps ==
  ASSUME NEW s \in Session, NEW res \in ossl_read(s)
  PROVE  /\ res.s \in Session /\ res.s.closed = s.closed /\ Len(res.s.in) <= Len(s.in)
         /\ res.r \in {"data", "eof", "want_read", "want_write", "err"}
         /\ res.r = "want_write" => OutCap - s.out < Len(s.in)
         /\ res.r = "want_read" => res.s.in = <<>> /\ (s.closed => "want_read" \in ChannelEnd)
<1> DEFINE i == SelectInSeq(s.in, LAMBDA r : r # "update")
           updates == IF i = 0 THEN Len(s.in) ELSE i - 1
           first == IF i = 0 THEN "none" ELSE s.in[i]
           room == OutCap - s.out
           After(n) == [s EXCEPT !.in = SubSeq(@, n + 1, Len(@)), !.out = @ + n]
           u == After(updates)
<1>1. s.in \in Seq(Records) /\ Len(s.in) \in Nat
  BY DEF Session
<1>2. i \in 0 .. Len(s.in)
  <2> DEFINE T == {k \in 1 .. Len(s.in) : s.in[k] # "update"}
  <2>1. T \subseteq Nat /\ i = IF T # {} THEN Min(T) ELSE 0
    BY DEF SelectInSeq
  <2>2. T \subseteq 1 .. Len(s.in)
    OBVIOUS
  <2> HIDE DEF T, i
  <2>3. CASE T # {}
    <3>1. Min(T) \in T
      BY <2>1, <2>3, MinOfNats
    <3>2. i \in 1 .. Len(s.in)
      BY <2>1, <2>2, <2>3, <3>1, Zenon
    <3> QED BY <1>1, <3>2
  <2>4. CASE T = {}
    BY <1>1, <2>1, <2>4
  <2> QED BY <2>3, <2>4
<1>3. res \in IF updates > room THEN {[r |-> "want_write", s |-> After(room)]}
              ELSE CASE first = "data"   -> {[r |-> "data", s |-> [u EXCEPT !.in = Tail(@)]]}
                     [] first = "notify" -> {[r |-> "eof", s |-> u]}
                     [] first = "none"   -> {[r |-> e, s |-> u] : e \in IF s.closed THEN ChannelEnd
                                                                       ELSE {"want_read"}}
                     [] OTHER            -> {[r |-> "err", s |-> u]}
  BY DEF ossl_read
<1>4. /\ updates \in 0 .. Len(s.in)
      /\ i = 0 => updates = Len(s.in)
      /\ i # 0 => updates < Len(s.in)
  BY <1>1, <1>2
<1> HIDE DEF i
<1>5. first = "none" => i = 0
  BY <1>1, <1>2 DEF Records
<1>6. room \in Nat /\ s.out + room = OutCap /\ s.out \in Nat /\ OutCap \in Nat
  BY SslAssumption DEF Session
<1> HIDE DEF updates, first, room
<1>7. ASSUME NEW n \in 0 .. Len(s.in), n <= room
      PROVE  /\ After(n) \in Session /\ After(n).closed = s.closed
             /\ After(n).in \in Seq(Records) /\ Len(After(n).in) = Len(s.in) - n
  <2> DEFINE rest == SubSeq(s.in, n + 1, Len(s.in))
             v == [s EXCEPT !.in = rest, !.out = s.out + n]
  <2>1. n + 1 \in Int /\ Len(s.in) \in Int /\ n \in Nat /\ n <= Len(s.in)
    BY <1>1
  <2>2. \A j \in (n + 1) .. Len(s.in) : s.in[j] \in Records
    <3>1. \A j \in (n + 1) .. Len(s.in) : j \in 1 .. Len(s.in)
      BY <2>1
    <3> QED BY <1>1, <3>1
  <2>3. rest \in Seq(Records) /\ Len(rest) = Len(s.in) - n
    BY <1>1, <2>1, <2>2
  <2>4. s.out + n \in 0 .. OutCap
    BY <1>6, <1>7, <2>1
  <2>5. After(n) = v
    OBVIOUS
  <2> HIDE DEF rest
  <2>6. v \in Session /\ v.closed = s.closed /\ v.in = rest
    BY <2>3, <2>4 DEF Session
  <2> QED BY <2>3, <2>5, <2>6
<1> HIDE DEF After
<1>8. CASE updates > room
  <2>1. room \in 0 .. Len(s.in) /\ room < Len(s.in)
    BY <1>1, <1>4, <1>6, <1>8
  <2> DEFINE v == After(room)
  <2>2. res = [r |-> "want_write", s |-> v]
    BY <1>3, <1>8
  <2>3. v \in Session /\ v.closed = s.closed /\ Len(v.in) = Len(s.in) - room
    BY <1>6, <1>7, <2>1
  <2> HIDE DEF v
  <2>4. Len(v.in) <= Len(s.in) /\ OutCap - s.out < Len(s.in)
    BY <1>1, <1>6, <2>1, <2>3 DEF room
  <2> QED BY <2>2, <2>3, <2>4
<1>9. CASE ~(updates > room)
  <2>1. /\ u \in Session /\ u.closed = s.closed
        /\ u.in \in Seq(Records) /\ Len(u.in) = Len(s.in) - updates
    BY <1>4, <1>6, <1>7, <1>9
  <2> HIDE DEF u
  <2>2. Len(u.in) <= Len(s.in) /\ (updates = Len(s.in) => u.in = <<>>)
        /\ (updates < Len(s.in) => u.in # <<>>)
    BY <1>1, <1>4, <2>1, EmptySeq
  <2>3. CASE first = "data"
    <3>1. u.in # <<>>
      BY <1>4, <2>2, <2>3 DEF first
    <3>2. Tail(u.in) \in Seq(Records) /\ Len(Tail(u.in)) <= Len(s.in)
      BY <1>1, <2>1, <2>2, <3>1
    <3> DEFINE v == [u EXCEPT !.in = Tail(u.in)]
    <3>3. res = [r |-> "data", s |-> v]
      BY <1>3, <1>9, <2>1, <2>3
    <3>4. v \in Session /\ v.closed = s.closed /\ v.in = Tail(u.in)
      BY <2>1, <3>2 DEF Session
    <3> HIDE DEF v
    <3> QED BY <3>2, <3>3, <3>4
  <2>4. CASE first = "none"
    <3>1. u.in = <<>>
      BY <1>4, <1>5, <2>2, <2>4
    <3>2. PICK e \in IF s.closed THEN ChannelEnd ELSE {"want_read"} : res = [r |-> e, s |-> u]
      BY <1>3, <1>9, <2>4
    <3>3. e \in {"data", "eof", "want_read", "want_write", "err"} /\ e # "want_write"
      BY <3>2, SslAssumption
    <3> QED BY <2>1, <2>2, <3>1, <3>2, <3>3
  <2>5. CASE first # "data" /\ first # "none"
    <3>1. res \in {[r |-> "eof", s |-> u], [r |-> "err", s |-> u]}
      BY <1>3, <1>9, <2>5
    <3> QED BY <2>1, <2>2, <3>1
  <2> QED BY <2>3, <2>4, <2>5
<1> QED BY <1>8, <1>9

\* ossl_handshake neither ends the channel nor makes room it has not got.
LEMMA HandshakeKeeps ==
  ASSUME NEW s \in Session
  PROVE  /\ ossl_handshake(s).s \in Session /\ ossl_handshake(s).s.closed = s.closed
         /\ ossl_handshake(s).rc \in {"done", "want_read", "want_write", "fail"}
         /\ Len(ossl_handshake(s).s.in) <= Len(s.in)
<1> DEFINE room == OutCap - s.out
           sent == [s EXCEPT !.out = @ + s.todo, !.todo = 0]
<1>1. /\ s.out \in 0 .. OutCap /\ s.todo \in 0 .. Flight /\ OutCap \in Nat /\ Flight \in Nat
      /\ s.in \in Seq(Records)
  BY SslAssumption DEF Session
<1>2. CASE s.todo > room
  <2>1. s.todo - room \in 0 .. Flight /\ OutCap \in 0 .. OutCap
    BY <1>1, <1>2
  <2> DEFINE v == [s EXCEPT !.out = OutCap, !.todo = s.todo - room]
  <2>2. ossl_handshake(s) = [rc |-> "want_write", s |-> v]
    BY <1>2 DEF ossl_handshake
  <2>3. v \in Session /\ v.closed = s.closed /\ v.in = s.in
    BY <2>1 DEF Session
  <2> HIDE DEF v
  <2> QED BY <1>1, <2>2, <2>3
<1>3. CASE ~(s.todo > room)
  <2>1. s.out + s.todo \in 0 .. OutCap /\ 0 \in 0 .. Flight
    BY <1>1, <1>3
  <2>2. sent \in Session /\ sent.closed = s.closed /\ sent.in = s.in
    BY <2>1 DEF Session
  <2>3. ossl_handshake(s) =
          IF s.in = <<>>
          THEN [rc |-> IF s.closed THEN "fail" ELSE "want_read", s |-> sent]
          ELSE IF Head(s.in) = "hs"
               THEN [rc |-> "done", s |-> [sent EXCEPT !.in = Tail(@)]]
               ELSE [rc |-> "fail", s |-> sent]
    BY <1>3 DEF ossl_handshake
  <2> HIDE DEF sent
  <2>4. s.in # <<>> => Tail(s.in) \in Seq(Records) /\ Len(Tail(s.in)) <= Len(s.in)
    BY <1>1
  <2> DEFINE v == [sent EXCEPT !.in = Tail(s.in)]
  <2>5. s.in # <<>> => v \in Session /\ v.closed = s.closed /\ v.in = Tail(s.in)
    BY <2>2, <2>4 DEF Session
  <2>6. s.in # <<>> /\ Head(s.in) = "hs" => ossl_handshake(s) = [rc |-> "done", s |-> v]
    BY <2>2, <2>3
  <2>7. ~(s.in # <<>> /\ Head(s.in) = "hs") =>
          /\ ossl_handshake(s).s = sent
          /\ ossl_handshake(s).rc \in {"done", "want_read", "want_write", "fail"}
    BY <2>3
  <2> HIDE DEF v
  <2>8. CASE s.in # <<>> /\ Head(s.in) = "hs"
    <3>1. ossl_handshake(s).s = v /\ ossl_handshake(s).rc = "done"
      BY <2>6, <2>8
    <3>2. v \in Session /\ v.closed = s.closed /\ Len(v.in) <= Len(s.in)
      BY <2>4, <2>5, <2>8
    <3> QED BY <3>1, <3>2
  <2>9. CASE ~(s.in # <<>> /\ Head(s.in) = "hs")
    <3>1. ossl_handshake(s).s = sent /\ Len(s.in) \in Nat
      BY <1>1, <2>7, <2>9
    <3> QED BY <2>2, <2>7, <2>9, <3>1
  <2> QED BY <2>8, <2>9
<1> QED BY <1>2, <1>3

\* ossl_write takes at most what it is given, and nothing if it has to wait.
LEMMA WriteKeeps ==
  ASSUME NEW s \in Session, NEW n \in Nat, NEW res \in ossl_write(s, n)
  PROVE  /\ res.s \in Session /\ res.s.closed = s.closed /\ res.s.in = s.in
         /\ res.n \in 0 .. n /\ res.want \in {"none", "read", "write", "error"}
         /\ res.want = "read" => res.s.out = s.out
<1>1. s.out \in 0 .. OutCap /\ OutCap \in Nat /\ s.need \in 0 .. MaxNeed /\ MaxNeed \in Nat /\ 0 \in 0 .. n
  BY SslAssumption DEF Session
<1>2. \/ res = [n |-> 0, want |-> "read", s |-> s]
      \/ res = [n |-> 0, want |-> "write", s |-> s]
      \/ res = [n |-> 0, want |-> "write", s |-> [s EXCEPT !.out = OutCap]]
      \/ s.out # OutCap /\ \E k \in 1 .. n : res = [n |-> k, want |-> "none", s |-> [s EXCEPT !.out = @ + 1]]
      \/ res = [n |-> 0, want |-> "error", s |-> s]
      \/ \E k \in 1 .. MaxNeed : res = [n |-> 0, want |-> "read",
                                        s |-> [s EXCEPT !.need = k, !.renegotiated = TRUE]]
  BY DEF ossl_write
<1>3. ASSUME s.out # OutCap, NEW k \in 1 .. n,
             res = [n |-> k, want |-> "none", s |-> [s EXCEPT !.out = @ + 1]]
      PROVE  res.s \in Session /\ res.s.closed = s.closed /\ res.s.in = s.in /\ res.n \in 0 .. n
  <2>1. s.out + 1 \in 0 .. OutCap /\ k \in 0 .. n
    BY <1>1, <1>3
  <2> QED BY <1>3, <2>1 DEF Session
<1>4. ASSUME NEW k \in 1 .. MaxNeed,
             res = [n |-> 0, want |-> "read", s |-> [s EXCEPT !.need = k, !.renegotiated = TRUE]]
      PROVE  res.s \in Session /\ res.s.closed = s.closed /\ res.s.in = s.in /\ res.s.out = s.out
  <2>1. k \in 0 .. MaxNeed
    BY <1>1
  <2> QED BY <1>4, <2>1 DEF Session
<1>5. CASE res.s = s /\ res.n = 0 /\ res.want \in {"none", "read", "write", "error"}
  BY <1>1, <1>5
<1>6. CASE \E k \in 1 .. n : res = [n |-> k, want |-> "none", s |-> [s EXCEPT !.out = @ + 1]]
           /\ s.out # OutCap
  BY <1>3, <1>6
<1>7. CASE \E k \in 1 .. MaxNeed : res = [n |-> 0, want |-> "read",
                                         s |-> [s EXCEPT !.need = k, !.renegotiated = TRUE]]
  <2>1. PICK k \in 1 .. MaxNeed : res = [n |-> 0, want |-> "read",
                                         s |-> [s EXCEPT !.need = k, !.renegotiated = TRUE]]
    BY <1>7
  <2>2. res.s \in Session /\ res.s.closed = s.closed /\ res.s.in = s.in /\ res.s.out = s.out
    BY <1>4, <2>1
  <2>3. res.n = 0 /\ res.want = "read"
    BY <2>1
  <2> QED BY <1>1, <2>2, <2>3
<1>8. CASE res \in {[n |-> 0, want |-> w, s |-> s] : w \in {"read", "write", "error"}}
  BY <1>5, <1>8
<1>10. CASE res = [n |-> 0, want |-> "write", s |-> [s EXCEPT !.out = OutCap]]
  <2>1. OutCap \in 0 .. OutCap
    BY <1>1
  <2>2. [s EXCEPT !.out = OutCap] \in Session
    BY <2>1 DEF Session
  <2>3. [s EXCEPT !.out = OutCap].closed = s.closed /\ [s EXCEPT !.out = OutCap].in = s.in
    BY DEF Session
  <2> QED BY <1>1, <1>10, <2>2, <2>3
<1>9. \/ res \in {[n |-> 0, want |-> w, s |-> s] : w \in {"read", "write", "error"}}
      \/ res = [n |-> 0, want |-> "write", s |-> [s EXCEPT !.out = OutCap]]
      \/ s.out # OutCap /\ \E k \in 1 .. n : res = [n |-> k, want |-> "none", s |-> [s EXCEPT !.out = @ + 1]]
      \/ \E k \in 1 .. MaxNeed : res = [n |-> 0, want |-> "read",
                                        s |-> [s EXCEPT !.need = k, !.renegotiated = TRUE]]
  BY <1>2, Zenon
<1> QED BY <1>6, <1>7, <1>8, <1>9, <1>10, Zenon

-----------------------------------------------------------------------------
(* Frames and stacks. *)

Plaintext == [left : Bytes, all : Bytes]

\* What a frame can be.
LEMMA FrameCases ==
  ASSUME NEW f \in Frame
  PROVE  /\ f = [fn |-> f.fn, at |-> f.at, val |-> f.val, sc |-> f.sc]
         /\ f.fn \in {"cb", "send", "read", "pump", "flush", "write"} /\ f.sc \in {-1, 0, 1}
         /\ f.fn = "cb" => f.at \in Callback
         /\ f.fn = "send" => f.at \in {"loop", "failed"} /\ f.val = <<>> /\ f.sc = 0
         /\ f.fn = "read" => f.at \in {"loop", "sent"}
         /\ f.fn = "read" /\ f.at = "sent" => f.val \in {"data", "eof", "want_read", "want_write", "err"}
         /\ f.fn = "pump" => f.at \in {"loop", "sent"}
         /\ f.fn = "pump" /\ f.at = "sent" => f.val \in {"done", "want_read", "want_write", "fail"}
         /\ f.fn = "flush" => f.at \in {"start", "loop", "sent"}
         /\ f.fn = "flush" /\ f.at \in {"loop", "sent"} => f.val \in Bytes
         /\ f.fn = "write" => f.at \in {"loop", "sent"} /\ f.val \in Plaintext
<1> DEFINE A == [fn : {"cb"}, at : Callback, val : {<<>>}, sc : {0}]
           B == [fn : {"send"}, at : {"loop", "failed"}, val : {<<>>}, sc : {0}]
           C == [fn : {"read", "pump"}, at : {"loop"}, val : {<<>>}, sc : {0}]
           D == [fn : {"read"}, at : {"sent"}, val : {"data", "eof", "want_read", "want_write", "err"}, sc : {-1, 0, 1}]
           E == [fn : {"pump"}, at : {"sent"}, val : {"done", "want_read", "want_write", "fail"},
                 sc : {-1, 0, 1}]
           G == [fn : {"flush"}, at : {"start"}, val : {<<>>}, sc : {0}]
           H == [fn : {"flush"}, at : {"loop", "sent"}, val : Bytes, sc : {-1, 0, 1}]
           K == [fn : {"write"}, at : {"loop", "sent"}, val : [left : Bytes, all : Bytes], sc : {-1, 0, 1}]
<1>1. CASE f \in A
  BY <1>1
<1>2. CASE f \in B
  BY <1>2
<1>3. CASE f \in C
  BY <1>3
<1>4. CASE f \in D
  BY <1>4
<1>5. CASE f \in E
  BY <1>5
<1>6. CASE f \in G
  BY <1>6
<1>7. CASE f \in H
  BY <1>7
<1>8. CASE f \in K
  BY <1>8 DEF Plaintext
<1>9. f \in A \/ f \in B \/ f \in C \/ f \in D \/ f \in E \/ f \in G \/ f \in H \/ f \in K
  <2> HIDE DEF A, B, C, D, E, G, H, K
  <2>1. Frame = A \cup B \cup C \cup D \cup E \cup G \cup H \cup K
    BY DEF Frame, A, B, C, D, E, G, H, K
  <2> QED BY <2>1
<1> HIDE DEF A, B, C, D, E, G, H, K
<1> QED BY <1>1, <1>2, <1>3, <1>4, <1>5, <1>6, <1>7, <1>8, <1>9

\* ... and what makes a frame.
LEMMA FrameMade ==
  ASSUME NEW fn, NEW at, NEW val, NEW sc,
         \/ fn = "cb" /\ at \in Callback /\ val = <<>> /\ sc = 0
         \/ fn = "send" /\ at \in {"loop", "failed"} /\ val = <<>> /\ sc = 0
         \/ fn \in {"read", "pump"} /\ at = "loop" /\ val = <<>> /\ sc = 0
         \/ fn = "read" /\ at = "sent" /\ val \in {"data", "eof", "want_read", "want_write", "err"} /\ sc \in {-1, 0, 1}
         \/ /\ fn = "pump" /\ at = "sent" /\ val \in {"done", "want_read", "want_write", "fail"}
            /\ sc \in {-1, 0, 1}
         \/ fn = "flush" /\ at = "start" /\ val = <<>> /\ sc = 0
         \/ fn = "flush" /\ at \in {"loop", "sent"} /\ val \in Bytes /\ sc \in {-1, 0, 1}
         \/ fn = "write" /\ at \in {"loop", "sent"} /\ val \in Plaintext /\ sc \in {-1, 0, 1}
  PROVE  [fn |-> fn, at |-> at, val |-> val, sc |-> sc] \in Frame
BY DEF Frame, Plaintext

\* The frames that the functions push.
LEMMA Made ==
  /\ \A what \in Callback : Cb(what) \in Frame /\ Cb(what).fn = "cb" /\ Cb(what).sc = 0
  /\ \A fn \in {"read", "pump", "send"} :
       LET f == F(fn, "loop", <<>>) IN f \in Frame /\ f.fn = fn /\ f.at = "loop" /\ f.sc = 0
  /\ LET f == F("flush", "start", <<>>) IN f \in Frame /\ f.fn = "flush" /\ f.at = "start" /\ f.sc = 0
  /\ \A v \in Bytes :
       LET f == F("flush", "loop", v)
       IN f \in Frame /\ f.fn = "flush" /\ f.at = "loop" /\ f.sc = 0 /\ f.val = v
  /\ \A v \in Plaintext :
       LET f == F("write", "loop", v)
       IN f \in Frame /\ f.fn = "write" /\ f.at = "loop" /\ f.sc = 0 /\ f.val = v
BY FrameMade DEF F, Cb

LEMMA SentFields ==
  ASSUME NEW f \in Frame, NEW v
  PROVE  [f EXCEPT !.at = "sent", !.val = v, !.sc = 0] = [fn |-> f.fn, at |-> "sent", val |-> v, sc |-> 0]
<1> DEFINE g == [f EXCEPT !.at = "sent", !.val = v, !.sc = 0]
           h == [fn |-> f.fn, at |-> "sent", val |-> v, sc |-> 0]
<1>1. DOMAIN f = {"fn", "at", "val", "sc"}
  <2>1. f = [fn |-> f.fn, at |-> f.at, val |-> f.val, sc |-> f.sc]
    BY FrameCases
  <2> QED BY <2>1
<1>2. g = [x \in DOMAIN g |-> g[x]] /\ DOMAIN g = {"fn", "at", "val", "sc"}
  BY <1>1
<1>3. h = [x \in DOMAIN h |-> h[x]] /\ DOMAIN h = {"fn", "at", "val", "sc"}
  OBVIOUS
<1>4. g.fn = h.fn
  BY <1>1
<1>5. g.at = h.at
  BY <1>1
<1>6. g.val = h.val
  BY <1>1
<1>7. g.sc = h.sc
  BY <1>1
<1> HIDE DEF g, h
<1>8. \A x \in {"fn", "at", "val", "sc"} : g[x] = h[x]
  BY <1>4, <1>5, <1>6, <1>7
<1> QED BY <1>2, <1>3, <1>8 DEF g, h

\* A frame that goes on after tls_send_cipher.
LEMMA MadeSent ==
  ASSUME NEW f \in Frame, NEW v,
         \/ f.fn = "read" /\ v \in {"data", "eof", "want_read", "want_write", "err"}
         \/ f.fn = "pump" /\ v \in {"done", "want_read", "want_write", "fail"}
         \/ f.fn = "flush" /\ v \in Bytes
         \/ f.fn = "write" /\ v \in Plaintext
  PROVE  LET g == [f EXCEPT !.at = "sent", !.val = v, !.sc = 0]
         IN g \in Frame /\ g.fn = f.fn /\ g.at = "sent" /\ g.val = v /\ g.sc = 0
<1> DEFINE g == [f EXCEPT !.at = "sent", !.val = v, !.sc = 0]
<1>2. g = [fn |-> f.fn, at |-> "sent", val |-> v, sc |-> 0]
  BY SentFields, Zenon
<1>3. [fn |-> f.fn, at |-> "sent", val |-> v, sc |-> 0] \in Frame
  BY FrameMade
<1> QED BY <1>2, <1>3

\* tls_send_cipher returns to a frame.
LEMMA MadeReturned ==
  ASSUME NEW f \in Frame, f.at = "sent", f.fn # "cb", NEW rc \in {-1, 0, 1}
  PROVE  LET g == [f EXCEPT !.sc = rc]
         IN g \in Frame /\ g.fn = f.fn /\ g.at = "sent" /\ g.val = f.val /\ g.sc = rc
<1> DEFINE g == [f EXCEPT !.sc = rc]
<1>1. f = [fn |-> f.fn, at |-> f.at, val |-> f.val, sc |-> f.sc]
  BY FrameCases
<1>2. g = [fn |-> f.fn, at |-> "sent", val |-> f.val, sc |-> rc]
  BY <1>1
<1>3. f.fn \in {"read", "pump", "flush", "write"}
  BY FrameCases
<1>4. [fn |-> f.fn, at |-> "sent", val |-> f.val, sc |-> rc] \in Frame
  BY <1>3, FrameCases, FrameMade
<1> QED BY <1>2, <1>4

\* A sending frame whose write has failed.
LEMMA MadeFailed ==
  ASSUME NEW f \in Frame, f.fn = "send"
  PROVE  LET g == [f EXCEPT !.at = "failed"]
         IN g \in Frame /\ g.fn = "send" /\ g.at = "failed" /\ g.sc = 0
<1> DEFINE g == [f EXCEPT !.at = "failed"]
<1>1. f = [fn |-> f.fn, at |-> f.at, val |-> f.val, sc |-> f.sc] /\ f.val = <<>> /\ f.sc = 0
  BY FrameCases
<1>2. g = [fn |-> "send", at |-> "failed", val |-> <<>>, sc |-> 0]
  BY <1>1
<1>3. [fn |-> "send", at |-> "failed", val |-> <<>>, sc |-> 0] \in Frame
  BY FrameMade
<1> QED BY <1>2, <1>3

\* What tls_send_cipher returns.
LEMMA ReturnCodes == 0 # -1 /\ 1 # -1 /\ 0 # 1
OBVIOUS

\* The empty stack.
LEMMA Empty ==
  <<>> \in Seq(Frame) /\ ToSet(<<>>) = {} /\ AllWait(<<>>) /\ AllOver(<<>>)
BY DEF ToSet, AllWait, AllOver

\* A stack is its top and what is below.
LEMMA Popped ==
  ASSUME NEW s \in Seq(Frame), s # <<>>
  PROVE  /\ Head(s) \in Frame /\ Tail(s) \in Seq(Frame)
         /\ ToSet(s) = ToSet(Tail(s)) \cup {Head(s)} /\ ToSet(s) \subseteq Frame
         /\ AllWait(s) <=> Awaiting(Head(s)) /\ AllWait(Tail(s))
         /\ AllOver(s) <=> (Awaiting(Head(s)) \/ Over(Head(s))) /\ AllOver(Tail(s))
         /\ Reading(s) <=> Reads(Head(s)) \/ Reading(Tail(s))
<1>1. Head(s) \in Frame /\ Tail(s) \in Seq(Frame) /\ ToSet(s) = ToSet(Tail(s)) \cup {Head(s)}
  BY Pop, ZenonT(60)
<1>2. ToSet(s) \subseteq Frame
  BY DEF ToSet
<1> QED BY <1>1, <1>2, Zenon DEF AllWait, AllOver, Reading

LEMMA Pushed ==
  ASSUME NEW s \in Seq(Frame), NEW f \in Frame
  PROVE  /\ <<f>> \o s \in Seq(Frame) /\ <<f>> \o s # <<>>
         /\ Head(<<f>> \o s) = f /\ Tail(<<f>> \o s) = s
         /\ ToSet(<<f>> \o s) = ToSet(s) \cup {f}
<1>1. <<f>> \o s \in Seq(Frame) /\ <<f>> \o s # <<>>
  BY Push, Zenon
<1>2. Head(<<f>> \o s) = f /\ Tail(<<f>> \o s) = s
  BY Push, ZenonT(60)
<1>3. ToSet(<<f>> \o s) = ToSet(s) \cup {f}
  BY Push
<1> QED BY <1>1, <1>2, <1>3

\* Frames that wait hold no bytes and are over when the connection is.
LEMMA AllWaiting ==
  ASSUME NEW s \in Seq(Frame), AllWait(s)
  PROVE  /\ AllOver(s) /\ ~Writes(s) /\ ~Flushes(s) /\ \A c : Rest(c, s) = c.pending
<1>1. AllOver(s)
  BY Zenon DEF AllWait, AllOver
<1>2. ASSUME s # <<>> PROVE Working(s) = Head(s) /\ Awaiting(Head(s))
  <2>1. Awaiting(Head(s))
    BY <1>2, Popped, Zenon
  <2> QED BY <2>1 DEF Awaiting, Working
<1>3. ~Writes(s) /\ ~Flushes(s)
  BY <1>2 DEF Writes, Flushes, Awaiting
<1> QED BY <1>1, <1>3 DEF Rest

-----------------------------------------------------------------------------
(* The end of a connection. *)

\* tls_reset_after_term.
LEMMA ResetOnly ==
  ASSUME NEW c \in Conn
  PROVE  LET d == tls_reset_after_term(c)
         IN /\ d \in Conn /\ d.ssl = NoSsl /\ d.pending = <<>>
            /\ d.established = FALSE /\ d.handshake_done = FALSE
            /\ d.closed_notified = FALSE /\ d.destroyed = c.destroyed
<1> DEFINE d == tls_reset_after_term(c)
<1>1. <<>> \in Bytes /\ NoSsl \in Session \cup {NoSsl}
  BY DEF Bytes
<1>2. d \in Conn
  BY <1>1 DEF tls_reset_after_term, Conn
<1>3. d.ssl = NoSsl /\ d.pending = <<>>
  BY DEF tls_reset_after_term, Conn
<1>4. d.established = FALSE /\ d.handshake_done = FALSE
  BY DEF tls_reset_after_term, Conn
<1>5. d.closed_notified = FALSE /\ d.destroyed = c.destroyed
  BY DEF tls_reset_after_term, Conn
<1> QED BY <1>2, <1>3, <1>4, <1>5

\* ... before on_close or on_error.
LEMMA Reset ==
  ASSUME NEW c \in Conn
  PROVE  LET d == [tls_reset_after_term(c) EXCEPT !.closed_notified = TRUE]
         IN /\ d \in Conn /\ d.ssl = NoSsl /\ d.pending = <<>>
            /\ d.established = FALSE /\ d.handshake_done = FALSE
            /\ d.closed_notified = TRUE /\ d.destroyed = c.destroyed
<1> DEFINE r == tls_reset_after_term(c)
           d == [r EXCEPT !.closed_notified = TRUE]
<1>1. /\ r \in Conn /\ r.ssl = NoSsl /\ r.pending = <<>> /\ r.established = FALSE
      /\ r.handshake_done = FALSE /\ r.destroyed = c.destroyed
  BY ResetOnly
<1> HIDE DEF r
<1>2. d \in Conn
  BY <1>1 DEF Conn
<1>3. d.ssl = NoSsl /\ d.pending = <<>>
  BY <1>1 DEF Conn
<1>4. d.established = FALSE /\ d.handshake_done = FALSE
  BY <1>1 DEF Conn
<1>5. d.closed_notified = TRUE /\ d.destroyed = c.destroyed
  BY <1>1 DEF Conn
<1> QED BY <1>2, <1>3, <1>4, <1>5 DEF r

\* A session lives while the connection is open or shakes hands; nothing has been
\* told of its end, and the object is not destroyed.
LEMMA Alive ==
  ASSUME Inv, Live
  PROVE  /\ t.ssl \in Session /\ view \in {"opening", "open"} /\ ~t.closed_notified /\ ~t.destroyed /\ ~Gone
         /\ LiveShape(view, frames)
         /\ view = "opening" => tcp = "OPEN"
         /\ tcp # "OPENING"
<1>1. t.ssl \in Session
  BY DEF Inv, TypeOK, Conn, Live
<1>2. view \in {"opening", "open"} /\ LiveShape(view, frames) /\ tcp # "OPENING" /\ (view = "opening" => tcp = "OPEN")
  BY DEF Inv, Relation, Shape
<1>3. ~t.closed_notified /\ ~t.destroyed
  BY <1>2 DEF Inv, Relation
<1> QED BY <1>1, <1>2, <1>3 DEF Gone, Live

\* tls_fail and tls_notify_close on a connection whose end has not been told: the
\* session is gone and the callback is on top of what is left.
LEMMA Ends ==
  ASSUME Inv, NEW c \in Conn, NEW below \in Seq(Frame), NEW what \in {"close", "error"},
         t' = [tls_reset_after_term(c) EXCEPT !.closed_notified = TRUE], Call(what, below),
         view \in {"opening", "open"}, ~c.destroyed,
         AllOver(below) \/ (Fails(below) /\ tcp' = "IDLE"), tcp' \in {"IDLE", "OPEN"},
         UNCHANGED <<life, opens, byte, wire, taken>>, recvd' \in 0 .. MaxRecv
  PROVE  Inv'
<1>1. /\ t' \in Conn /\ t'.ssl = NoSsl /\ t'.pending = <<>>
      /\ t'.established = FALSE /\ t'.handshake_done = FALSE
      /\ t'.closed_notified = TRUE /\ t'.destroyed = c.destroyed
  BY Reset
<1>2. view' = "ended" /\ frames' = <<Cb(what)>> \o below
  BY DEF Call, See
<1>3. Cb(what) \in Frame /\ Cb(what).fn = "cb"
  BY Made DEF Callback
<1>4. /\ frames' \in Seq(Frame) /\ frames' # <<>> /\ Head(frames') = Cb(what) /\ Tail(frames') = below
  BY <1>2, <1>3, Pushed
<1>5. TypeOK'
  BY <1>1, <1>2, <1>4 DEF Inv, TypeOK
<1>6. Relation'
  BY <1>1, <1>2 DEF Relation, Live
<1>7. Shape'
  <2>1. CASE AllOver(below)
    <3>1. AllOver(frames')
      BY <1>3, <1>4, <2>1, Popped DEF Awaiting
    <3> QED BY <1>1, <3>1 DEF Shape, Live, DeadShape
  <2>2. CASE Fails(below) /\ tcp' = "IDLE"
    <3>1. FailTold(frames')
      BY <1>3, <1>4, <2>2 DEF FailTold
    <3> QED BY <1>1, <2>2, <3>1 DEF Shape, Live, DeadShape
  <2> QED BY <2>1, <2>2
<1>8. SessionInv' /\ BytesInv'
  BY <1>1, <1>2 DEF SessionInv, BytesInv, Live, Inv
<1> QED BY <1>5, <1>6, <1>7, <1>8 DEF Inv

\* tls_fail with a live session, whatever has been drained from it or fed to it.
LEMMA FailLive ==
  ASSUME Inv, Live, NEW c \in Conn, c.closed_notified = t.closed_notified, c.destroyed = t.destroyed,
         NEW below \in Seq(Frame), tls_fail(c, below),
         AllOver(below) \/ (Fails(below) /\ tcp' = "IDLE"), tcp' \in {tcp, "IDLE"},
         UNCHANGED <<life, opens, byte, wire, taken>>, recvd' \in 0 .. MaxRecv
  PROVE  Inv'
<1>1. ~c.closed_notified /\ ~c.destroyed /\ view \in {"opening", "open"} /\ tcp # "OPENING"
  BY Alive
<1>2. t' = [tls_reset_after_term(c) EXCEPT !.closed_notified = TRUE] /\ Call("error", below)
  BY <1>1 DEF tls_fail
<1>3. tcp' \in {"IDLE", "OPEN"}
  BY <1>1 DEF Inv, TypeOK
<1> QED BY <1>1, <1>2, <1>3, Ends

\* A step that leaves the object without a session and the rest of the stack.
LEMMA DeadPop ==
  ASSUME Inv, ~Live, frames # <<>>, AllOver(frames), frames' = Below,
         UNCHANGED <<t, tcp, life, view, history>>
  PROVE  Inv'
<1>1. Below \in Seq(Frame) /\ AllOver(Below)
  BY Popped DEF Inv, TypeOK, Below
<1>2. TypeOK'
  BY <1>1 DEF Inv, TypeOK, history
<1>3. Relation' /\ ~Live'
  BY DEF Inv, Relation, Live
<1>4. Shape'
  BY <1>1, <1>3 DEF Shape, DeadShape
<1>5. SessionInv' /\ BytesInv'
  BY <1>3 DEF SessionInv, BytesInv, Inv, history
<1> QED BY <1>2, <1>3, <1>4, <1>5 DEF Inv

\* What is on top tells whether the session lives.
LEMMA TopSend ==
  ASSUME Inv, frames # <<>>, Top.fn = "send"
  PROVE  /\ Top.at = "loop" => Live /\ Sends(frames)
         /\ Top.at = "failed" => ~Live /\ Fails(frames) /\ t.closed_notified /\ tcp = "IDLE" /\ view = "ended"
<1>1. Top \in Frame /\ Top = Head(frames) /\ ~Awaiting(Top) /\ ~Over(Top)
  <2>1. Top \in Frame
    BY Popped DEF Inv, TypeOK, Top
  <2>2. Top.at \in {"loop", "failed"}
    BY <2>1, FrameCases
  <2> QED BY <2>1, <2>2 DEF Top, Awaiting, Over
<1>2. ~AllWait(frames) /\ ~AllOver(frames)
  BY <1>1, Popped DEF Inv, TypeOK
<1>3. CASE Live
  <2>1. LiveShape(view, frames)
    BY <1>3, Alive
  <2>2. Sends(frames)
    BY <1>1, <1>2, <2>1 DEF LiveShape, Pumps, PumpSends, Works, WorkSends
  <2> QED BY <1>1, <1>3, <2>2 DEF Sends
<1>4. CASE ~Live
  <2>1. Fails(frames) /\ t.closed_notified /\ tcp = "IDLE"
    BY <1>1, <1>2, <1>4 DEF Inv, Shape, DeadShape, FailTold
  <2>2. view = "ended"
    BY <2>1 DEF Inv, Relation
  <2> QED BY <1>1, <1>4, <2>1, <2>2 DEF Fails
<1> QED BY <1>3, <1>4

\* A function at its loop has a session, except for a read.
LEMMA TopLoop ==
  ASSUME Inv, frames # <<>>, Top.fn \in {"read", "pump", "flush", "write"}, Top.at = "loop"
  PROVE  /\ Top.fn # "read" => Live
         /\ Live => IF Top.fn = "pump" THEN view = "opening" /\ Below = <<>>
                    ELSE view = "open" /\ AllWait(Below)
         /\ ~Live => AllOver(frames)
<1>1. Top = Head(frames) /\ Below = Tail(frames) /\ ~Over(Top) /\ (Top.fn # "read" => ~Awaiting(Top))
  BY DEF Top, Below, Over, Awaiting
<1>2. /\ AllWait(frames) => Awaiting(Top) /\ AllWait(Below)
      /\ AllOver(frames) => Awaiting(Top) \/ Over(Top)
  BY <1>1, Popped DEF Inv, TypeOK
<1>3. CASE Live
  <2>1. LiveShape(view, frames)
    BY <1>3, Alive
  <2> QED BY <1>1, <1>2, <1>3, <2>1
          DEF LiveShape, Pumps, PumpSends, Works, WorkSends, Sends, Awaiting
<1>4. CASE ~Live
  <2>1. AllOver(frames)
    BY <1>1, <1>4 DEF Inv, Shape, DeadShape, Fails, FailTold
  <2> QED BY <1>1, <1>2, <1>4, <2>1
<1> QED BY <1>3, <1>4

\* A function to which tls_send_cipher has returned: -1 means that the session is gone.
LEMMA TopSent ==
  ASSUME Inv, frames # <<>>, Top.at = "sent"
  PROVE  /\ Top.sc = -1 <=> ~Live
         /\ Live => IF Top.fn = "pump" THEN view = "opening" /\ Below = <<>>
                    ELSE view = "open" /\ AllWait(Below)
         /\ ~Live => AllOver(frames)
<1>1. Top = Head(frames) /\ Below = Tail(frames) /\ ~Awaiting(Top) /\ Top.fn \notin {"send", "cb"}
  <2>1. Top \in Frame /\ Top = Head(frames) /\ Below = Tail(frames)
    BY Popped DEF Inv, TypeOK, Top, Below
  <2>2. Top.fn \notin {"send", "cb"}
    BY <2>1, FrameCases DEF Callback
  <2> QED BY <2>1, <2>2 DEF Awaiting
<1>2. /\ ~AllWait(frames)
      /\ AllOver(frames) => Over(Top)
  BY <1>1, Popped DEF Inv, TypeOK
<1>3. CASE Live
  <2>1. LiveShape(view, frames)
    BY <1>3, Alive
  <2> QED BY <1>1, <1>2, <1>3, <2>1 DEF LiveShape, Pumps, PumpSends, Works, WorkSends, Sends
<1>4. CASE ~Live
  <2>1. AllOver(frames)
    BY <1>1, <1>4 DEF Inv, Shape, DeadShape, Fails, FailTold
  <2> QED BY <1>1, <1>2, <1>4, <2>1 DEF Over
<1> QED BY <1>3, <1>4

-----------------------------------------------------------------------------
(* Steps that keep the session. *)

LEMMA WithSsl ==
  ASSUME NEW c \in Conn, NEW v \in Session
  PROVE  LET d == [c EXCEPT !.ssl = v]
         IN /\ d \in Conn /\ d.ssl = v /\ d.pending = c.pending
            /\ d.established = c.established /\ d.handshake_done = c.handshake_done
            /\ d.closed_notified = c.closed_notified /\ d.destroyed = c.destroyed
<1> DEFINE d == [c EXCEPT !.ssl = v]
<1>1. d \in Conn
  BY DEF Conn
<1>2. d.ssl = v /\ d.pending = c.pending
  BY DEF Conn
<1>3. d.established = c.established /\ d.handshake_done = c.handshake_done
  BY DEF Conn
<1>4. d.closed_notified = c.closed_notified /\ d.destroyed = c.destroyed
  BY DEF Conn
<1> QED BY <1>1, <1>2, <1>3, <1>4

LEMMA WithPending ==
  ASSUME NEW c \in Conn, NEW v \in Bytes
  PROVE  LET d == [c EXCEPT !.pending = v]
         IN /\ d \in Conn /\ d.ssl = c.ssl /\ d.pending = v
            /\ d.established = c.established /\ d.handshake_done = c.handshake_done
            /\ d.closed_notified = c.closed_notified /\ d.destroyed = c.destroyed
<1> DEFINE d == [c EXCEPT !.pending = v]
<1>1. d \in Conn
  BY DEF Conn
<1>2. d.ssl = c.ssl /\ d.pending = v
  BY DEF Conn
<1>3. d.established = c.established /\ d.handshake_done = c.handshake_done
  BY DEF Conn
<1>4. d.closed_notified = c.closed_notified /\ d.destroyed = c.destroyed
  BY DEF Conn
<1> QED BY <1>1, <1>2, <1>3, <1>4

SameFlags ==
  /\ t'.established = t.established /\ t'.handshake_done = t.handshake_done
  /\ t'.closed_notified = t.closed_notified /\ t'.destroyed = t.destroyed

\* Types, flags and shape after a step of the library on a live session.
LEMMA LiveStep ==
  ASSUME Inv, Live, t' \in Conn, t'.ssl \in Session, SameFlags,
         view = "open" \/ t'.pending = <<>>,
         UNCHANGED <<tcp, life, view, opens>>, recvd' \in 0 .. MaxRecv, byte' \in 0 .. MaxByte,
         wire' \in Bytes, taken' \subseteq 1 .. MaxByte,
         frames' \in Seq(Frame), LiveShape(view, frames')
  PROVE  TypeOK' /\ Relation' /\ Shape' /\ Live'
<1>1. Live'
  BY NoSslApart DEF Live
<1>2. TypeOK'
  BY DEF Inv, TypeOK
<1>3. Relation'
  <2>1. view' = view /\ tcp' = tcp /\ (Live' <=> Live)
    BY <1>1
  <2>2. view' # "open" => t'.pending = <<>>
    OBVIOUS
  <2>3. Relation
    BY DEF Inv
  <2> HIDE DEF Live
  <2> QED BY <2>1, <2>2, <2>3 DEF Relation, SameFlags
<1>4. Shape'
  BY <1>1 DEF Shape
<1> QED BY <1>1, <1>2, <1>3, <1>4

\* A step that moves no bytes.
SameBytes ==
  /\ UNCHANGED <<wire, taken, byte, view>> /\ t'.pending = t.pending
  /\ Writes(frames') <=> Writes(frames)
  /\ Flushes(frames') <=> Flushes(frames)
  /\ Writes(frames) \/ Flushes(frames) => Working(frames').val = Working(frames).val

LEMMA BytesStay ==
  ASSUME BytesInv, Live, SameBytes
  PROVE  BytesInv'
<1>1. Rest(t', frames') = Rest(t, frames)
  BY DEF SameBytes, Rest
<1>2. Ordered(wire, Rest(t, frames), byte) => Ordered(wire', Rest(t', frames'), byte')
  BY <1>1 DEF SameBytes
<1>3. /\ Increasing(wire')
      /\ view' = "opening" => wire' = <<>> /\ taken' = {}
      /\ Ordered(wire', Rest(t', frames'), byte')
  BY <1>2 DEF BytesInv, SameBytes
<1>4. taken' \subseteq ToSet(wire') \cup ToSet(t'.pending)
  BY DEF BytesInv, SameBytes
<1>5. Writes(frames') =>
        /\ t'.pending = <<>>
        /\ ToSet(Working(frames').val.all) \subseteq ToSet(wire') \cup ToSet(Working(frames').val.left)
  BY DEF BytesInv, SameBytes
<1>6. Flushes(frames') => taken' \subseteq ToSet(wire') \cup ToSet(Working(frames').val)
  BY DEF BytesInv, SameBytes
<1> QED BY <1>3, <1>4, <1>5, <1>6 DEF BytesInv

\* The stack when a function calls tls_send_cipher.
LEMMA Calling ==
  ASSUME Inv, frames # <<>>, NEW v,
         \/ Top.fn = "read" /\ v \in {"data", "eof", "want_read", "want_write", "err"}
         \/ Top.fn = "pump" /\ v \in {"done", "want_read", "want_write", "fail"}
         \/ Top.fn = "flush" /\ v \in Bytes
         \/ Top.fn = "write" /\ v \in Plaintext
  PROVE  LET s == CallSend(v)
         IN /\ s \in Seq(Frame) /\ Sends(s) /\ Tail(s) \in Seq(Frame) /\ Tail(Tail(s)) = Below
            /\ Working(s) = Head(Tail(s)) /\ Working(s).fn = Top.fn /\ Working(s).val = v /\ Working(s).at = "sent"
            /\ Working(s).sc = 0 /\ Head(s).sc = 0
            /\ ToSet(s) = ToSet(Below) \cup {Working(s), Head(s)}
<1> DEFINE g == [Top EXCEPT !.at = "sent", !.val = v, !.sc = 0]
           f == F("send", "loop", <<>>)
           s == CallSend(v)
<1>1. Top \in Frame /\ Below \in Seq(Frame)
  BY Popped DEF Inv, TypeOK, Top, Below
<1>2. g \in Frame /\ g.fn = Top.fn /\ g.at = "sent" /\ g.val = v /\ g.sc = 0
  BY <1>1, MadeSent
<1>3. f \in Frame /\ f.fn = "send" /\ f.at = "loop" /\ f.sc = 0
  BY Made
<1>4. s = <<f>> \o <<g>> \o Below
  BY DEF CallSend
<1> HIDE DEF g, f, s
<1>5. s = <<f>> \o (<<g>> \o Below)
  <2>1. <<f>> \in Seq(Frame) /\ <<g>> \in Seq(Frame)
    BY <1>2, <1>3
  <2> QED BY <1>1, <1>4, <2>1, ConcatAssociative
<1> DEFINE r == <<g>> \o Below
<1>6. r \in Seq(Frame) /\ r # <<>> /\ Head(r) = g /\ Tail(r) = Below /\ ToSet(r) = ToSet(Below) \cup {g}
  BY <1>1, <1>2, Pushed
<1> HIDE DEF r
<1>7. s \in Seq(Frame) /\ s # <<>> /\ Head(s) = f /\ Tail(s) = r /\ ToSet(s) = ToSet(r) \cup {f}
  <2>1. s = <<f>> \o r
    BY <1>5 DEF r
  <2> QED BY <1>3, <1>6, <2>1, Pushed
<1>8. Working(s) = g /\ Sends(s)
  BY <1>2, <1>3, <1>6, <1>7 DEF Working, Sends
<1>9. ToSet(s) = ToSet(Below) \cup {g, f}
  BY <1>6, <1>7
<1> QED BY <1>2, <1>3, <1>6, <1>7, <1>8, <1>9 DEF s

\* ... and when tls_send_cipher returns.
LEMMA Returning ==
  ASSUME Inv, Sends(frames) \/ Fails(frames), NEW rc \in {-1, 0, 1}
  PROVE  LET s == Returned(rc)
             h == Head(Below)
         IN /\ s \in Seq(Frame) /\ s # <<>> /\ Tail(s) = Tail(Below) /\ Tail(s) \in Seq(Frame)
            /\ Head(s) \in Frame /\ Head(s).fn = h.fn /\ Head(s).at = "sent" /\ Head(s).val = h.val
            /\ Head(s).sc = rc /\ Head(s).fn \in {"read", "pump", "flush", "write"}
            /\ ToSet(s) = ToSet(Tail(s)) \cup {Head(s)}
            /\ ToSet(frames) = ToSet(Tail(s)) \cup {h, Top}
<1> DEFINE h == Head(Below)
           r == Tail(Below)
           g == [h EXCEPT !.sc = rc]
           s == Returned(rc)
<1>1. frames # <<>> /\ frames \in Seq(Frame) /\ Below # <<>> /\ h.at = "sent"
  BY DEF Sends, Fails, Inv, TypeOK, Below
<1>2. Top \in Frame /\ Below \in Seq(Frame) /\ ToSet(frames) = ToSet(Below) \cup {Top}
  BY <1>1, Popped DEF Top, Below
<1>3. h \in Frame /\ r \in Seq(Frame) /\ ToSet(Below) = ToSet(r) \cup {h}
  BY <1>1, <1>2, Popped
<1>4. h.fn \in {"read", "pump", "flush", "write"}
  BY <1>1, <1>3, FrameCases DEF Callback
<1>5. g \in Frame /\ g.fn = h.fn /\ g.at = "sent" /\ g.val = h.val /\ g.sc = rc
  BY <1>1, <1>3, <1>4, MadeReturned
<1>6. s = <<g>> \o r
  BY DEF Returned
<1> HIDE DEF g, s, r, h
<1>7. s \in Seq(Frame) /\ s # <<>> /\ Head(s) = g /\ Tail(s) = r /\ ToSet(s) = ToSet(r) \cup {g}
  BY <1>3, <1>5, <1>6, Pushed
<1>8. ToSet(frames) = ToSet(r) \cup {h, Top}
  BY <1>2, <1>3
<1> QED BY <1>3, <1>4, <1>5, <1>7, <1>8 DEF s, h, r

-----------------------------------------------------------------------------
(* tls_send_cipher. *)

\* It returns to the function that called it, with the session alive.
LEMMA SendReturns ==
  ASSUME Inv, Live, Sends(frames), NEW rc \in {0, 1}, frames' = Returned(rc),
         t' \in Conn, t'.ssl \in Session, SameFlags, t'.pending = t.pending,
         t'.ssl.in = t.ssl.in, t'.ssl.closed = t.ssl.closed,
         tcp = "OPEN" => rc = 0 /\ t'.ssl.out = 0,
         UNCHANGED <<tcp, life, view, history>>
  PROVE  Inv'
<1> DEFINE h == Head(Below)
<1>1. /\ frames' \in Seq(Frame) /\ frames' # <<>> /\ Tail(frames') = Tail(Below) /\ Tail(frames') \in Seq(Frame)
      /\ Head(frames') \in Frame /\ Head(frames').fn = h.fn /\ Head(frames').at = "sent"
      /\ Head(frames').val = h.val
      /\ Head(frames').sc = rc /\ Head(frames').fn \in {"read", "pump", "flush", "write"}
      /\ ToSet(frames') = ToSet(Tail(frames')) \cup {Head(frames')}
      /\ ToSet(frames) = ToSet(Tail(frames')) \cup {h, Top}
  BY Returning
<1>2. Top.fn = "send" /\ frames # <<>> /\ h.at = "sent" /\ Below = Tail(frames) /\ Top = Head(frames)
  BY DEF Sends, Top, Below
<1>3. LiveShape(view, frames) /\ (view = "open" \/ t.pending = <<>>)
  BY Alive DEF Inv, Relation
<1>4. LiveShape(view, frames')
  <2>1. frames \in Seq(Frame) /\ ~AllWait(frames)
    BY <1>2, Popped DEF Inv, TypeOK, Awaiting
  <2>2. \/ view = "opening" /\ Pumps(Tail(frames))
        \/ view = "open" /\ Works(Tail(frames))
    BY <1>2, <1>3, <2>1 DEF LiveShape, Pumps, PumpSends, Works, WorkSends
  <2>3. CASE view = "opening" /\ Pumps(Tail(frames))
    BY <1>1, <1>2, <2>3 DEF Pumps, LiveShape
  <2>4. CASE view = "open" /\ Works(Tail(frames))
    <3>1. h.fn \in {"read", "flush", "write"} /\ AllWait(Tail(Below))
      BY <1>2, <2>4 DEF Works
    <3>2. Works(frames')
      <4>1. rc # -1
        OBVIOUS
      <4> HIDE DEF h
      <4>2. frames' # <<>> /\ Head(frames').fn \in {"read", "flush", "write"} /\ Head(frames').at = "sent"
        BY <1>1, <3>1
      <4>3. Head(frames').sc # -1 /\ AllWait(Tail(frames'))
        BY <1>1, <3>1, <4>1, Zenon
      <4> QED BY <4>2, <4>3 DEF Works
    <3> QED BY <2>4, <3>2 DEF LiveShape
  <2> QED BY <2>2, <2>3, <2>4
<1>5. TypeOK' /\ Relation' /\ Shape' /\ Live'
  <2>1. /\ UNCHANGED <<tcp, life, view, opens>> /\ recvd' \in 0 .. MaxRecv /\ byte' \in 0 .. MaxByte
        /\ wire' \in Bytes /\ taken' \subseteq 1 .. MaxByte
    BY DEF Inv, TypeOK, history
  <2> QED BY <1>1, <1>3, <1>4, <2>1, LiveStep
<1>6. SessionInv'
  <2>1. SessionInv
    BY DEF Inv
  <2>2. tcp = "IDLE" => t'.ssl.closed /\ \A f \in ToSet(frames') : f.fn # "flush"
    BY <1>1, <2>1 DEF SessionInv
  <2>3. tcp = "OPEN" => t'.ssl.out = 0 /\ \A f \in ToSet(frames') : f.sc # 1
    BY <1>1, <2>1 DEF SessionInv
  <2>4. Reading(frames) => Reading(frames')
    BY <1>1, <1>2 DEF Reading, Reads
  <2>5. view = "open" /\ Sized => (tcp = "OPEN" /\ t'.ssl.in = <<>>) \/ Reading(frames')
    BY <2>1, <2>4 DEF SessionInv
  <2> QED BY <2>2, <2>3, <2>5 DEF SessionInv
<1>7. SameBytes
  <2>1. Working(frames) = h
    BY <1>2 DEF Working
  <2>2. Working(frames') = Head(frames')
    BY <1>1 DEF Working
  <2> QED BY <1>1, <1>2, <2>1, <2>2 DEF SameBytes, Writes, Flushes, history
<1>8. BytesInv'
  BY <1>7, BytesStay DEF Inv
<1> QED BY <1>5, <1>6, <1>8 DEF Inv

\* What is left when it returns -1, or has failed to write, is over with the connection.
LEMMA SendLeaves ==
  ASSUME Inv, Sends(frames) \/ Fails(frames), Live <=> Sends(frames)
  PROVE  /\ Returned(-1) \in Seq(Frame) /\ AllOver(Returned(-1))
         /\ LET s == <<[Top EXCEPT !.at = "failed"]>> \o Below IN s \in Seq(Frame) /\ Fails(s)
<1> DEFINE s == Returned(-1)
           h == Head(Below)
<1>1. /\ s \in Seq(Frame) /\ s # <<>> /\ Tail(s) = Tail(Below) /\ Head(s).at = "sent" /\ Head(s).sc = -1
  BY Returning
<1>2. /\ frames # <<>> /\ Top \in Frame /\ Top.fn = "send" /\ Below \in Seq(Frame) /\ Below # <<>>
      /\ h.at = "sent" /\ Below = Tail(frames) /\ Top = Head(frames) /\ Tail(Below) \in Seq(Frame)
  BY Popped DEF Inv, TypeOK, Sends, Fails, Top, Below
<1>3. AllOver(Tail(Below))
  <2>1. CASE Fails(frames)
    BY <1>2, <2>1 DEF Fails
  <2>2. CASE Live
    <3>1. ~AllWait(frames)
      BY <1>2, Popped DEF Inv, TypeOK, Awaiting
    <3>2. Tail(Below) = <<>> \/ AllWait(Tail(Below))
      BY <1>2, <2>2, <3>1, Alive DEF LiveShape, Pumps, PumpSends, Works, WorkSends
    <3> QED BY <1>2, <3>2, AllWaiting, Empty
  <2> QED BY <2>1, <2>2
<1>4. AllOver(s)
  BY <1>1, <1>3, Popped DEF Over
<1> DEFINE g == [Top EXCEPT !.at = "failed"]
<1>5. g \in Frame /\ g.fn = "send" /\ g.at = "failed"
  BY <1>2, MadeFailed
<1> HIDE DEF g
<1>6. LET r == <<g>> \o Below IN r \in Seq(Frame) /\ Fails(r)
  BY <1>2, <1>3, <1>5, Pushed DEF Fails
<1> QED BY <1>1, <1>4, <1>6 DEF g

LEMMA InvSendDone == ASSUME Inv, send_done PROVE Inv'
<1>1. frames # <<>> /\ Top.fn = "send" /\ Top.at = "loop" /\ t.ssl.out = 0 /\ frames' = Returned(0)
  BY DEF send_done, On
<1>2. UNCHANGED <<t, tcp, life, view, history>>
  BY DEF send_done
<1>3. Live /\ Sends(frames)
  BY <1>1, TopSend
<1>4. t' \in Conn /\ t'.ssl \in Session /\ SameFlags
  BY <1>2, <1>3, Alive DEF Inv, TypeOK, SameFlags
<1> QED BY <1>1, <1>2, <1>3, <1>4, SendReturns

\* A session that ossl_drain has taken a record from.
LEMMA DrainKeeps ==
  ASSUME NEW v \in Session, v.out > 0
  PROVE  LET d == ossl_drain(v) IN d \in Session /\ d.in = v.in /\ d.closed = v.closed
<1>1. v.out - 1 \in 0 .. OutCap
  BY SslAssumption DEF Session
<1> QED BY <1>1 DEF Session, ossl_drain

LEMMA InvSendWrite ==
  ASSUME RegFails = FALSE, Inv, send_write
  PROVE  Inv'
<1>1. /\ frames # <<>> /\ Top.fn = "send" /\ Top.at = "loop" /\ t.ssl.out > 0
      /\ UNCHANGED <<life, opens, recvd, byte, wire, taken>> /\ UNCHANGED history
  BY DEF send_write, On, history
<1>2. Live /\ Sends(frames)
  BY <1>1, TopSend
<1> DEFINE drained == [t EXCEPT !.ssl = ossl_drain(t.ssl)]
           failed == <<[Top EXCEPT !.at = "failed"]>> \o Below
<1>3. t \in Conn /\ t.ssl \in Session
  BY <1>2, Alive DEF Inv, TypeOK
<1>4. /\ ossl_drain(t.ssl) \in Session
      /\ ossl_drain(t.ssl).in = t.ssl.in /\ ossl_drain(t.ssl).closed = t.ssl.closed
  BY <1>1, <1>3, DrainKeeps
<1>5. /\ drained \in Conn /\ drained.ssl = ossl_drain(t.ssl) /\ drained.pending = t.pending
      /\ drained.established = t.established /\ drained.handshake_done = t.handshake_done
      /\ drained.closed_notified = t.closed_notified /\ drained.destroyed = t.destroyed
  BY <1>3, <1>4, WithSsl
<1>6. \/ tcp # "OPEN" /\ tcp' = tcp /\ t' = drained /\ frames' = Returned(1) /\ UNCHANGED view
      \/ tcp = "OPEN" /\ tcp' = tcp /\ t' = drained /\ UNCHANGED <<frames, view>>
      \/ tcp' = tcp /\ tls_fail(drained, Returned(-1))
      \/ tcp' = "IDLE" /\ tls_fail(drained, failed)
  BY DEF send_write, tcp_conn_write
<1> HIDE DEF drained, failed
<1>7. CASE tcp # "OPEN" /\ tcp' = tcp /\ t' = drained /\ frames' = Returned(1) /\ UNCHANGED view
  <2>1. t' \in Conn /\ t'.ssl \in Session /\ SameFlags /\ t'.pending = t.pending
    BY <1>4, <1>5, <1>7 DEF SameFlags
  <2>2. t'.ssl.in = t.ssl.in /\ t'.ssl.closed = t.ssl.closed
    BY <1>4, <1>5, <1>7
  <2> QED BY <1>1, <1>2, <1>7, <2>1, <2>2, SendReturns
<1>8. CASE tcp = "OPEN" /\ tcp' = tcp /\ t' = drained /\ UNCHANGED <<frames, view>>
  <2>1. t' \in Conn /\ t'.ssl \in Session /\ SameFlags /\ t'.pending = t.pending
    BY <1>4, <1>5, <1>8 DEF SameFlags
  <2>2. /\ frames' \in Seq(Frame) /\ LiveShape(view, frames') /\ (view = "open" \/ t'.pending = <<>>)
        /\ byte' \in 0 .. MaxByte /\ wire' \in Bytes /\ taken' \subseteq 1 .. MaxByte /\ recvd' \in 0 .. MaxRecv
    BY <1>1, <1>2, <1>8, <2>1, Alive DEF Inv, TypeOK, Relation
  <2>3. TypeOK' /\ Relation' /\ Shape' /\ Live'
    BY <1>1, <1>2, <1>8, <2>1, <2>2, LiveStep
  <2>4. SessionInv'
    <3>1. t'.ssl.in = t.ssl.in /\ t'.ssl.closed = t.ssl.closed
      BY <1>4, <1>5, <1>8
    <3>2. frames' # <<>> /\ Head(frames').fn = "send"
      BY <1>1, <1>8 DEF Top
    <3> QED BY <1>2, <1>8, <3>1, <3>2 DEF SessionInv, Inv, Top
  <2>5. SameBytes
    BY <1>1, <1>8, <2>1 DEF SameBytes
  <2> QED BY <1>2, <2>3, <2>4, <2>5, BytesStay DEF Inv
<1>9. recvd' \in 0 .. MaxRecv
  BY <1>1 DEF Inv, TypeOK
<1>10. CASE tcp' = tcp /\ tls_fail(drained, Returned(-1))
  BY <1>1, <1>2, <1>5, <1>9, <1>10, SendLeaves, FailLive
<1>11. CASE tcp' = "IDLE" /\ tls_fail(drained, failed)
  <2>1. failed \in Seq(Frame) /\ Fails(failed)
    BY <1>2, SendLeaves DEF failed
  <2> QED BY <1>1, <1>2, <1>5, <1>9, <1>11, <2>1, FailLive
<1> QED BY <1>6, <1>7, <1>8, <1>10, <1>11

\* The second tls_fail of a failed write finds the end told: it resets the object again.
LEMMA InvSendFailed == ASSUME Inv, send_failed PROVE Inv'
<1>1. /\ frames # <<>> /\ Top.fn = "send" /\ Top.at = "failed" /\ tls_fail(t, Returned(-1))
      /\ UNCHANGED <<tcp, life, opens, recvd, byte, wire, taken>>
  BY DEF send_failed, On, history
<1>2. ~Live /\ Fails(frames) /\ t.closed_notified /\ tcp = "IDLE" /\ view = "ended"
  BY <1>1, TopSend
<1>3. t' = tls_reset_after_term(t) /\ frames' = Returned(-1) /\ UNCHANGED view
  BY <1>1, <1>2 DEF tls_fail
<1>4. /\ t' \in Conn /\ t'.ssl = NoSsl /\ t'.pending = <<>>
      /\ t'.established = FALSE /\ t'.handshake_done = FALSE
      /\ t'.closed_notified = FALSE /\ t'.destroyed = t.destroyed
  BY <1>3, ResetOnly DEF Inv, TypeOK
<1>5. frames' \in Seq(Frame) /\ AllOver(frames')
  <2>1. ~Sends(frames)
    BY <1>1 DEF Sends, Top
  <2> QED BY <1>2, <1>3, <2>1, SendLeaves
<1>6. TypeOK'
  BY <1>1, <1>3, <1>4, <1>5 DEF Inv, TypeOK
<1>7. Relation'
  BY <1>1, <1>2, <1>3, <1>4 DEF Inv, Relation, Live
<1>8. Shape' /\ SessionInv' /\ BytesInv'
  BY <1>1, <1>2, <1>3, <1>4, <1>5 DEF Shape, DeadShape, SessionInv, BytesInv, Live, Inv
<1> QED BY <1>6, <1>7, <1>8 DEF Inv

-----------------------------------------------------------------------------
(* The functions on the session. *)

\* One of them calls tls_send_cipher.
LEMMA ToSend ==
  ASSUME Inv, Live, frames # <<>>, NEW v, frames' = CallSend(v),
         \/ Top.fn = "read" /\ v \in {"data", "eof", "want_read", "want_write", "err"}
         \/ Top.fn = "pump" /\ v \in {"done", "want_read", "want_write", "fail"}
         \/ Top.fn = "flush" /\ v \in Bytes
         \/ Top.fn = "write" /\ v \in Plaintext,
         IF Top.fn = "pump" THEN view = "opening" /\ Below = <<>> ELSE view = "open" /\ AllWait(Below),
         NEW w \in Session, w.closed = t.ssl.closed, t' = [t EXCEPT !.ssl = w],
         UNCHANGED <<tcp, life, view, opens, recvd, byte, taken>>, wire' \in Bytes,
         view = "open" /\ Sized => (tcp = "OPEN" /\ w.in = <<>>) \/ Reading(frames'),
         BytesInv'
  PROVE  Inv'
<1>1. /\ frames' \in Seq(Frame) /\ Sends(frames') /\ Tail(frames') \in Seq(Frame)
      /\ Tail(Tail(frames')) = Below
      /\ Working(frames') = Head(Tail(frames')) /\ Working(frames').fn = Top.fn
      /\ Working(frames').at = "sent" /\ Working(frames').sc = 0 /\ Head(frames').sc = 0
      /\ ToSet(frames') = ToSet(Below) \cup {Working(frames'), Head(frames')}
  BY Calling
<1>2. t' \in Conn /\ t'.ssl = w /\ t'.pending = t.pending /\ SameFlags
  BY WithSsl DEF Inv, TypeOK, SameFlags
<1>3. LiveShape(view, frames')
  <2>1. CASE Top.fn = "pump"
    BY <1>1, <2>1 DEF LiveShape, PumpSends, Pumps, Sends
  <2>2. CASE Top.fn # "pump"
    <3>1. Top.fn \in {"read", "flush", "write"}
      BY <2>2
    <3>2. Works(Tail(frames'))
      <4>1. Tail(frames') # <<>> /\ AllWait(Tail(Tail(frames')))
        BY <1>1, <2>2 DEF Sends
      <4>2. Head(Tail(frames')).fn \in {"read", "flush", "write"} /\ Head(Tail(frames')).at = "sent"
        BY <1>1, <3>1
      <4>3. Head(Tail(frames')).sc # -1
        <5>1. Head(Tail(frames')).sc = 0
          BY <1>1, Zenon
        <5> QED BY <5>1, ReturnCodes, Zenon
      <4> QED BY <4>1, <4>2, <4>3 DEF Works
    <3> QED BY <1>1, <2>2, <3>2 DEF LiveShape, WorkSends
  <2> QED BY <2>1, <2>2
<1>4. /\ view = "open" \/ t'.pending = <<>>
      /\ recvd' \in 0 .. MaxRecv /\ byte' \in 0 .. MaxByte /\ taken' \subseteq 1 .. MaxByte
  BY <1>2 DEF Inv, TypeOK, Relation
<1>5. TypeOK' /\ Relation' /\ Shape' /\ Live'
  BY <1>1, <1>2, <1>3, <1>4, LiveStep
<1>6. SessionInv'
  <2>1. SessionInv /\ frames \in Seq(Frame)
    BY DEF Inv, TypeOK
  <2>2. ToSet(frames) = ToSet(Below) \cup {Top}
    BY <2>1, Popped DEF Top, Below
  <2>3. Head(frames').fn = "send" /\ frames' # <<>>
    BY <1>1 DEF Sends
  <2>4. tcp = "IDLE" => t'.ssl.closed /\ \A f \in ToSet(frames') : f.fn # "flush"
    BY <1>1, <1>2, <2>1, <2>2, <2>3 DEF SessionInv
  <2>5. ASSUME tcp = "OPEN", NEW f \in ToSet(frames') PROVE f.sc # 1
    <3>1. f \in ToSet(frames) \/ f.sc = 0
      BY <1>1, <2>2
    <3> QED BY <2>1, <2>5, <3>1 DEF SessionInv
  <2> QED BY <1>2, <2>3, <2>4, <2>5 DEF SessionInv, Top
<1> QED BY <1>5, <1>6 DEF Inv

\* One of them returns to frames that wait, and the session goes on.
LEMMA LiveBack ==
  ASSUME Inv, Live, view = "open", frames # <<>>, frames' = Below, AllWait(Below),
         Top.fn # "send", ~Reads(Top),
         t' \in Conn, t'.ssl \in Session, SameFlags,
         t'.ssl.in = t.ssl.in, t'.ssl.closed = t.ssl.closed, t'.ssl.out = t.ssl.out,
         UNCHANGED <<tcp, life, view, opens, recvd, byte, wire>>, taken' \subseteq 1 .. MaxByte,
         taken' \subseteq ToSet(wire) \cup ToSet(t'.pending),
         Ordered(wire, t'.pending, byte)
  PROVE  Inv'
<1>1. frames \in Seq(Frame) /\ Below \in Seq(Frame) /\ ToSet(frames) = ToSet(Below) \cup {Top}
  BY Popped DEF Inv, TypeOK, Top, Below
<1>2. LiveShape(view, frames')
  BY DEF LiveShape
<1>3. recvd' \in 0 .. MaxRecv /\ byte' \in 0 .. MaxByte /\ wire' \in Bytes
  BY DEF Inv, TypeOK
<1>4. TypeOK' /\ Relation' /\ Shape' /\ Live'
  BY <1>1, <1>2, <1>3, LiveStep
<1>5. SessionInv'
  <2>1. SessionInv
    BY DEF Inv
  <2>2. Reading(frames) => Reading(frames')
    BY <1>1 DEF Reading
  <2>3. tcp = "OPEN" => t'.ssl.out = 0
    BY <2>1 DEF SessionInv
  <2> QED BY <1>1, <2>1, <2>2, <2>3 DEF SessionInv
<1>6. BytesInv'
  <2>1. ~Writes(frames') /\ ~Flushes(frames') /\ Rest(t', frames') = t'.pending
    BY <1>1, AllWaiting
  <2>2. Increasing(wire)
    BY DEF Inv, BytesInv
  <2> QED BY <2>1, <2>2 DEF BytesInv
<1> QED BY <1>4, <1>5, <1>6 DEF Inv

\* A frame that holds no bytes is on top.
LEMMA NothingHeld ==
  ASSUME Inv, Live, frames # <<>>, Top.fn \in {"cb", "read", "pump"} \/ (Top.fn = "flush" /\ Top.at = "start")
  PROVE  /\ ~Writes(frames) /\ ~Flushes(frames) /\ Rest(t, frames) = t.pending
         /\ Ordered(wire, t.pending, byte) /\ taken \subseteq ToSet(wire) \cup ToSet(t.pending)
<1>1. ~Writes(frames) /\ ~Flushes(frames)
  BY DEF Writes, Flushes, Working, Top
<1>2. Rest(t, frames) = t.pending
  BY <1>1 DEF Rest
<1> QED BY <1>1, <1>2 DEF Inv, BytesInv

LEMMA InvReadLoop == ASSUME Inv, Received, read_loop PROVE Inv'
<1>1. /\ frames # <<>> /\ Top.fn = "read" /\ Top.at = "loop"
      /\ UNCHANGED <<tcp, life, view, history>>
  BY DEF read_loop, On
<1>2. CASE ~Live
  <2>1. AllOver(frames)
    BY <1>1, <1>2, TopLoop
  <2>2. Gone
    BY <1>2 DEF Gone, Live
  <2> QED BY <1>1, <1>2, <2>1, <2>2, DeadPop DEF read_loop
<1>3. CASE Live
  <2>1. ~Gone /\ t.ssl \in Session /\ tcp # "OPENING"
    BY <1>3, Alive
  <2>2. PICK res \in ossl_read(t.ssl) : t' = [t EXCEPT !.ssl = res.s] /\ frames' = CallSend(res.r)
    BY <2>1 DEF read_loop
  <2>3. /\ res.s \in Session /\ res.s.closed = t.ssl.closed
        /\ res.r \in {"data", "eof", "want_read", "want_write", "err"}
        /\ res.r = "want_write" => OutCap - t.ssl.out < Len(t.ssl.in)
        /\ res.r = "want_read" => res.s.in = <<>> /\ (t.ssl.closed => "want_read" \in ChannelEnd)
    BY <2>1, ReadKeeps
  <2>4. view = "open" /\ AllWait(Below)
    BY <1>1, <1>3, TopLoop
  <2>5. /\ frames' \in Seq(Frame) /\ Head(frames').fn = "send" /\ frames' # <<>>
        /\ Working(frames').fn = "read" /\ Working(frames').val = res.r
        /\ Working(frames') \in ToSet(frames')
    BY <1>1, <2>2, <2>3, Calling DEF Sends
  <2>6. ASSUME Sized PROVE (tcp = "OPEN" /\ res.s.in = <<>>) \/ Reading(frames')
    <3>1. tcp \in {"IDLE", "OPEN"} /\ (tcp = "IDLE" => t.ssl.closed)
      BY <1>3, <2>1 DEF Inv, TypeOK, SessionInv
    <3>2. res.r # "want_write"
      <4>1. OutCap \in Nat /\ FeedCap \in Nat /\ t.ssl.out \in 0 .. OutCap /\ FeedCap <= OutCap
            /\ Len(t.ssl.in) \in Nat
        BY <2>1, <2>6, SslAssumption DEF Session, Sized
      <4>2. CASE tcp = "OPEN"
        <5>1. t.ssl.out = 0 /\ Len(t.ssl.in) <= FeedCap
          BY <1>1, <1>3, <4>2 DEF Inv, SessionInv, Received
        <5> QED BY <2>3, <4>1, <5>1
      <4>3. CASE tcp = "IDLE"
        <5>1. Len(t.ssl.in) = 0
          BY <1>3, <2>6, <4>3 DEF Received
        <5> QED BY <2>3, <4>1, <5>1
      <4> QED BY <3>1, <4>2, <4>3
    <3>3. CASE res.r = "want_read"
      BY <2>3, <2>6, <3>1, <3>3 DEF Sized
    <3>4. CASE res.r # "want_read"
      BY <2>5, <3>2, <3>4 DEF Reading, Reads
    <3> QED BY <3>3, <3>4
  <2>7. BytesInv'
    <3>1. ~Writes(frames') /\ ~Flushes(frames')
      BY <2>5 DEF Writes, Flushes
    <3>2. ~Writes(frames) /\ ~Flushes(frames)
      BY <1>1, <1>3, NothingHeld
    <3>3. t'.pending = t.pending
      BY <2>2, <2>3, WithSsl DEF Inv, TypeOK
    <3>4. SameBytes
      BY <1>1, <3>1, <3>2, <3>3 DEF SameBytes, history
    <3> QED BY <1>3, <3>4, BytesStay DEF Inv
  <2>8. wire' \in Bytes /\ UNCHANGED <<opens, recvd, byte, taken>>
    BY <1>1 DEF Inv, TypeOK, history
  <2> QED BY <1>1, <1>3, <2>2, <2>3, <2>4, <2>6, <2>7, <2>8, ToSend
<1> QED BY <1>2, <1>3

\* A callback of a connection that goes on, with a read below it.
LEMMA CalledBack ==
  ASSUME NEW what \in Callback, NEW s \in Seq(Frame), AllWait(s)
  PROVE  LET r == <<Cb(what)>> \o (<<F("read", "loop", <<>>)>> \o s)
         IN /\ r \in Seq(Frame) /\ r # <<>> /\ AllWait(r) /\ Reading(r) /\ Head(r).fn = "cb"
            /\ \A f \in ToSet(r) \ ToSet(s) : f.fn # "flush" /\ f.sc = 0
<1> DEFINE c == Cb(what)
           f == F("read", "loop", <<>>)
           q == <<f>> \o s
           r == <<c>> \o q
<1>1. c \in Frame /\ c.fn = "cb" /\ c.sc = 0
  BY Made
<1>2. f \in Frame /\ f.fn = "read" /\ f.at = "loop" /\ f.sc = 0
  BY Made
<1> HIDE DEF c, f
<1>3. q \in Seq(Frame) /\ ToSet(q) = ToSet(s) \cup {f}
  BY <1>2, Pushed
<1> HIDE DEF q
<1>4. r \in Seq(Frame) /\ r # <<>> /\ Head(r) = c /\ ToSet(r) = ToSet(q) \cup {c}
  BY <1>1, <1>3, Pushed
<1> HIDE DEF r
<1>5. AllWait(r) /\ Reading(r)
  BY <1>1, <1>2, <1>3, <1>4 DEF AllWait, Awaiting, Reading, Reads
<1>6. \A g \in ToSet(r) \ ToSet(s) : g.fn # "flush" /\ g.sc = 0
  BY <1>1, <1>2, <1>3, <1>4
<1>7. r \in Seq(Frame) /\ r # <<>> /\ AllWait(r) /\ Reading(r) /\ Head(r).fn = "cb"
  BY <1>1, <1>4, <1>5
<1> QED BY <1>6, <1>7 DEF r, q, c, f

LEMMA InvReadSent == ASSUME Inv, read_sent PROVE Inv'
<1>1. /\ frames # <<>> /\ Top.fn = "read" /\ Top.at = "sent"
      /\ UNCHANGED <<tcp, life, history>>
  BY DEF read_sent, On
<1>2. CASE ~Live
  <2>1. AllOver(frames) /\ Top.sc = -1
    BY <1>1, <1>2, TopSent
  <2>2. frames' = Below /\ UNCHANGED <<t, view>>
    BY <2>1 DEF read_sent
  <2> QED BY <1>1, <1>2, <2>1, <2>2, DeadPop
<1>3. CASE Live
  <2>1. Top.sc # -1 /\ view = "open" /\ AllWait(Below)
    BY <1>1, <1>3, TopSent
  <2>2. frames \in Seq(Frame) /\ Below \in Seq(Frame) /\ ToSet(frames) = ToSet(Below) \cup {Top} /\ t \in Conn
    BY <1>1, Popped DEF Inv, TypeOK, Top, Below
  <2>3. /\ ~Writes(frames) /\ ~Flushes(frames) /\ Ordered(wire, t.pending, byte)
        /\ taken \subseteq ToSet(wire) \cup ToSet(t.pending)
    BY <1>1, <1>3, NothingHeld
  <2>4. AllOver(Below) /\ ~t.closed_notified /\ ~t.destroyed /\ t.ssl \in Session /\ tcp # "OPENING"
    BY <1>3, <2>1, <2>2, AllWaiting, Alive
  <2>5. /\ UNCHANGED <<opens, recvd, byte, wire, taken>> /\ wire' \in Bytes /\ taken' \subseteq 1 .. MaxByte
        /\ recvd' \in 0 .. MaxRecv /\ byte' \in 0 .. MaxByte /\ tcp' \in {"IDLE", "OPEN"}
    BY <1>1, <2>4 DEF Inv, TypeOK, history
  <2>6. CASE Top.val \in {"want_read", "want_write"} /\ frames' = Below /\ UNCHANGED <<t, view>>
    <3>1. ~Reads(Top)
      BY <1>1, <2>6 DEF Reads
    <3>2. SameFlags
      BY <2>6 DEF SameFlags
    <3> QED BY <1>1, <1>3, <2>1, <2>2, <2>3, <2>4, <2>5, <2>6, <3>1, <3>2, LiveBack
  <2>7. CASE Call("data", <<F("read", "loop", <<>>)>> \o Below) /\ UNCHANGED t
    <3>1. view' = view /\ frames' = <<Cb("data")>> \o (<<F("read", "loop", <<>>)>> \o Below)
      BY <2>1, <2>7 DEF Call, See
    <3>2. /\ frames' \in Seq(Frame) /\ frames' # <<>> /\ AllWait(frames') /\ Reading(frames')
          /\ Head(frames').fn = "cb" /\ \A f \in ToSet(frames') \ ToSet(Below) : f.fn # "flush" /\ f.sc = 0
      BY <2>1, <2>2, <3>1, CalledBack DEF Callback
    <3>3. LiveShape(view, frames') /\ SameFlags
      BY <2>1, <2>7, <3>2 DEF LiveShape, SameFlags
    <3>4. TypeOK' /\ Relation' /\ Shape' /\ Live'
      BY <1>1, <1>3, <2>1, <2>2, <2>4, <2>5, <2>7, <3>1, <3>2, <3>3, LiveStep
    <3>5. SessionInv'
      <4>1. SessionInv
        BY DEF Inv
      <4>2. tcp = "OPEN" => t.ssl.out = 0
        BY <1>1, <1>3, <4>1 DEF SessionInv
      <4>3. tcp = "IDLE" => t.ssl.closed /\ \A f \in ToSet(frames') : f.fn # "flush"
        BY <1>3, <2>2, <3>2, <4>1 DEF SessionInv
      <4>4. tcp = "OPEN" => \A f \in ToSet(frames') : f.sc # 1
        BY <1>3, <2>2, <3>2, <4>1 DEF SessionInv
      <4> QED BY <1>1, <2>7, <3>1, <3>2, <4>2, <4>3, <4>4 DEF SessionInv
    <3>6. BytesInv'
      <4>1. ~Writes(frames') /\ ~Flushes(frames')
        BY <3>2, AllWaiting
      <4>2. SameBytes
        BY <2>3, <2>5, <2>7, <3>1, <4>1 DEF SameBytes
      <4> QED BY <1>3, <4>2, BytesStay DEF Inv
    <3> QED BY <3>4, <3>5, <3>6 DEF Inv
  <2>8. CASE tls_notify_close(t, Below)
    <3>1. t' = [tls_reset_after_term(t) EXCEPT !.closed_notified = TRUE] /\ Call("close", Below)
      BY <2>4, <2>8 DEF tls_notify_close
    <3> QED BY <1>1, <2>1, <2>2, <2>4, <2>5, <3>1, Ends
  <2>9. CASE tls_fail(t, Below)
    BY <1>1, <1>3, <2>2, <2>4, <2>5, <2>9, FailLive
  <2> QED BY <2>1, <2>6, <2>7, <2>8, <2>9 DEF read_sent
<1> QED BY <1>2, <1>3

\* In the handshake there is nothing below and nothing written yet.
LEMMA InHandshake ==
  ASSUME Inv, Live, view = "opening"
  PROVE  /\ wire = <<>> /\ taken = {} /\ t.pending = <<>> /\ tcp = "OPEN" /\ ~t.handshake_done
         /\ t.established
BY Alive DEF Inv, BytesInv, Relation

LEMMA InvPumpLoop == ASSUME Inv, pump_loop PROVE Inv'
<1>1. /\ frames # <<>> /\ Top.fn = "pump" /\ Top.at = "loop"
      /\ UNCHANGED <<tcp, life, view, history>>
  BY DEF pump_loop, On
<1>2. Live /\ view = "opening" /\ Below = <<>>
  BY <1>1, TopLoop
<1> DEFINE res == ossl_handshake(t.ssl)
<1>3. ~Gone /\ t.ssl \in Session
  BY <1>2, Alive
<1>4. t' = [t EXCEPT !.ssl = res.s] /\ frames' = CallSend(res.rc)
  BY <1>3 DEF pump_loop
<1>5. /\ res.s \in Session /\ res.s.closed = t.ssl.closed
      /\ res.rc \in {"done", "want_read", "want_write", "fail"}
  BY <1>3, HandshakeKeeps
<1> HIDE DEF res
<1>6. Working(frames').fn = "pump"
  BY <1>1, <1>4, <1>5, Calling
<1>7. BytesInv'
  <2>1. ~Writes(frames') /\ ~Flushes(frames')
    BY <1>6 DEF Writes, Flushes
  <2>2. ~Writes(frames) /\ ~Flushes(frames)
    BY <1>1, <1>2, NothingHeld
  <2>3. t'.pending = t.pending
    BY <1>4, <1>5, WithSsl DEF Inv, TypeOK
  <2>4. SameBytes
    BY <1>1, <2>1, <2>2, <2>3 DEF SameBytes, history
  <2> QED BY <1>2, <2>4, BytesStay DEF Inv
<1>8. wire' \in Bytes /\ UNCHANGED <<opens, recvd, byte, taken>>
  BY <1>1 DEF Inv, TypeOK, history
<1> QED BY <1>1, <1>2, <1>4, <1>5, <1>7, <1>8, ToSend

\* A step of the handshake that leaves the session as it is.
LEMMA PumpStays ==
  ASSUME Inv, Live, view = "opening", frames # <<>>, Top.fn = "pump",
         frames' \in Seq(Frame), frames' = <<>> \/ Pumps(frames'),
         \A f \in ToSet(frames') : f.fn = "pump" /\ f.sc # 1,
         UNCHANGED <<t, tcp, life, view, history>>
  PROVE  Inv'
<1>1. t' \in Conn /\ t'.ssl \in Session /\ SameFlags /\ t'.pending = <<>> /\ tcp = "OPEN"
  BY Alive, InHandshake DEF SameFlags, Inv, TypeOK
<1>2. LiveShape(view, frames')
  BY DEF LiveShape
<1>3. /\ recvd' \in 0 .. MaxRecv /\ byte' \in 0 .. MaxByte /\ wire' \in Bytes /\ taken' \subseteq 1 .. MaxByte
      /\ UNCHANGED <<tcp, life, view, opens, recvd, byte, wire, taken>>
  BY DEF Inv, TypeOK, history
<1>4. TypeOK' /\ Relation' /\ Shape' /\ Live'
  BY <1>1, <1>2, <1>3, LiveStep
<1>5. SessionInv'
  BY <1>1 DEF SessionInv, Inv
<1>6. BytesInv'
  <2>1. ~Writes(frames) /\ ~Flushes(frames)
    BY NothingHeld
  <2>2. ~Writes(frames') /\ ~Flushes(frames')
    BY DEF Writes, Flushes, Working, Pumps
  <2>3. SameBytes
    BY <1>3, <2>1, <2>2 DEF SameBytes
  <2> QED BY <2>3, BytesStay DEF Inv
<1> QED BY <1>4, <1>5, <1>6 DEF Inv

LEMMA WithDone ==
  ASSUME NEW c \in Conn
  PROVE  LET d == [c EXCEPT !.handshake_done = TRUE]
         IN /\ d \in Conn /\ d.ssl = c.ssl /\ d.pending = c.pending
            /\ d.established = c.established /\ d.handshake_done = TRUE
            /\ d.closed_notified = c.closed_notified /\ d.destroyed = c.destroyed
<1> DEFINE d == [c EXCEPT !.handshake_done = TRUE]
<1>1. d \in Conn
  BY DEF Conn
<1>2. d.ssl = c.ssl /\ d.pending = c.pending
  BY DEF Conn
<1>3. d.established = c.established /\ d.handshake_done = TRUE
  BY DEF Conn
<1>4. d.closed_notified = c.closed_notified /\ d.destroyed = c.destroyed
  BY DEF Conn
<1> QED BY <1>1, <1>2, <1>3, <1>4

LEMMA InvPumpSent == ASSUME Inv, pump_sent PROVE Inv'
<1>1. /\ frames # <<>> /\ Top.fn = "pump" /\ Top.at = "sent"
      /\ UNCHANGED <<tcp, life, history>>
  BY DEF pump_sent, On
<1>2. CASE ~Live
  <2>1. AllOver(frames) /\ Top.sc = -1
    BY <1>1, <1>2, TopSent
  <2>2. frames' = Below /\ UNCHANGED <<t, view>>
    BY <2>1 DEF pump_sent
  <2> QED BY <1>1, <1>2, <2>1, <2>2, DeadPop
<1>3. CASE Live
  <2>1. Top.sc # -1 /\ view = "opening" /\ Below = <<>>
    BY <1>1, <1>3, TopSent
  <2>2. /\ wire = <<>> /\ taken = {} /\ t.pending = <<>> /\ tcp = "OPEN" /\ t.established
        /\ t.ssl \in Session /\ ~t.closed_notified /\ ~t.destroyed /\ t \in Conn
    BY <1>3, <2>1, InHandshake, Alive DEF Inv, TypeOK
  <2>3. CASE frames' = Below /\ UNCHANGED <<t, view>>
    <3>1. frames' \in Seq(Frame) /\ frames' = <<>> /\ ToSet(frames') = {}
      BY <2>1, <2>3, Empty
    <3> QED BY <1>1, <1>3, <2>1, <2>3, <3>1, PumpStays
  <2>4. CASE frames' = <<F("pump", "loop", <<>>)>> \o Below /\ UNCHANGED <<t, view>>
    <3> DEFINE f == F("pump", "loop", <<>>)
    <3>1. f \in Frame /\ f.fn = "pump" /\ f.sc = 0
      BY Made
    <3> HIDE DEF f
    <3>2. /\ frames' \in Seq(Frame) /\ frames' # <<>> /\ Head(frames') = f /\ Tail(frames') = <<>>
          /\ ToSet(frames') = {f}
      <4>1. frames' = <<f>> \o <<>> /\ <<>> \in Seq(Frame) /\ ToSet(<<>>) = {}
        BY <2>1, <2>4, Empty, Zenon DEF f
      <4>2. ToSet(frames') = ToSet(<<>>) \cup {f}
        BY <3>1, <4>1, Pushed, Zenon
      <4> QED BY <3>1, <4>1, <4>2, Pushed
    <3>3. f.sc # -1 /\ f.sc # 1
      BY <3>1
    <3>4. Pumps(frames')
      BY <3>1, <3>2, <3>3 DEF Pumps
    <3>5. \A g \in ToSet(frames') : g.fn = "pump" /\ g.sc # 1
      BY <3>1, <3>2, <3>3
    <3> QED BY <1>1, <1>3, <2>1, <2>4, <3>2, <3>4, <3>5, PumpStays
  <2>5. CASE t' = [t EXCEPT !.handshake_done = TRUE] /\ Call("open", <<F("read", "loop", <<>>)>> \o Below)
    <3>1. view' = "open" /\ frames' = <<Cb("open")>> \o (<<F("read", "loop", <<>>)>> \o Below)
      BY <2>1, <2>5 DEF Call, See
    <3>2. /\ frames' \in Seq(Frame) /\ frames' # <<>> /\ AllWait(frames') /\ Reading(frames')
          /\ Head(frames').fn = "cb" /\ \A f \in ToSet(frames') : f.fn # "flush" /\ f.sc = 0
      BY <2>1, <3>1, CalledBack, Empty DEF Callback
    <3>3. /\ t' \in Conn /\ t'.ssl = t.ssl /\ t'.pending = t.pending
          /\ t'.established = t.established /\ t'.handshake_done = TRUE
          /\ t'.closed_notified = t.closed_notified /\ t'.destroyed = t.destroyed
      BY <2>2, <2>5, WithDone
    <3>4. Live' /\ UNCHANGED <<opens, recvd, byte, wire, taken>>
      BY <1>1, <1>3, <3>3 DEF Live, history
    <3>5. TypeOK'
      BY <1>1, <3>1, <3>2, <3>3, <3>4 DEF Inv, TypeOK
    <3>6. Relation'
      BY <1>1, <2>2, <3>1, <3>3, <3>4 DEF Relation
    <3>7. Shape'
      BY <3>1, <3>2, <3>4 DEF Shape, LiveShape
    <3>8. SessionInv'
      <4>1. t.ssl.out = 0
        BY <1>1, <1>3, <2>2 DEF Inv, SessionInv
      <4>2. \A f \in ToSet(frames') : f.sc # 1
        BY <3>2
      <4> QED BY <1>1, <2>2, <3>1, <3>2, <3>3, <4>1, <4>2 DEF SessionInv
    <3>9. BytesInv'
      <4>1. ~Writes(frames') /\ ~Flushes(frames') /\ Rest(t', frames') = t'.pending
        BY <3>2, AllWaiting
      <4>2. Ordered(wire, t.pending, byte) /\ Increasing(wire)
        BY <1>1, <1>3, NothingHeld DEF Inv, BytesInv
      <4> QED BY <2>2, <3>1, <3>3, <3>4, <4>1, <4>2 DEF BytesInv
    <3> QED BY <3>5, <3>6, <3>7, <3>8, <3>9 DEF Inv
  <2>6. CASE tls_fail(t, Below)
    <3>1. /\ UNCHANGED <<life, opens, byte, wire, taken>> /\ recvd' \in 0 .. MaxRecv
          /\ Below \in Seq(Frame) /\ AllOver(Below)
      BY <1>1, <2>1, Empty DEF Inv, TypeOK, history
    <3> QED BY <1>1, <1>3, <2>2, <2>6, <3>1, FailLive
  <2> QED BY <2>3, <2>4, <2>5, <2>6 DEF pump_sent
<1> QED BY <1>2, <1>3

-----------------------------------------------------------------------------
(* Bytes. *)

\* What comes first of an increasing sequence is increasing.
LEMMA FirstIncreasing ==
  ASSUME NEW a \in Bytes, NEW b \in Bytes, Increasing(a \o b)
  PROVE  Increasing(a)
<1> DEFINE r == a \o b
<1>1. /\ r \in Bytes /\ Len(r) = Len(a) + Len(b) /\ \A i \in 1 .. Len(a) : r[i] = a[i]
  BY ConcatElements DEF Bytes
<1>2. Len(a) \in Nat /\ Len(b) \in Nat /\ DOMAIN a = 1 .. Len(a) /\ DOMAIN r = 1 .. Len(r)
  BY <1>1, LenProperties DEF Bytes
<1>3. \A i, j \in DOMAIN r : i < j => r[i] < r[j]
  BY DEF Increasing
<1> HIDE DEF r
<1>4. ASSUME NEW i \in DOMAIN a, NEW j \in DOMAIN a, i < j PROVE a[i] < a[j]
  <2>1. i \in DOMAIN r /\ j \in DOMAIN r
    BY <1>1, <1>2
  <2>2. r[i] = a[i] /\ r[j] = a[j]
    BY <1>1, <1>2
  <2>3. r[i] < r[j]
    BY <1>3, <1>4, <2>1
  <2> QED BY <2>2, <2>3
<1> QED BY <1>4 DEF Increasing

\* The session takes the first n bytes of v: the whole stays the same.
LEMMA Moved ==
  ASSUME NEW w \in Bytes, NEW v \in Bytes, NEW n \in 0 .. Len(v), NEW k, Ordered(w, v, k)
  PROVE  LET x == w \o SubSeq(v, 1, n)
             y == SubSeq(v, n + 1, Len(v))
         IN /\ x \in Bytes /\ y \in Bytes /\ Ordered(x, y, k) /\ Increasing(x)
            /\ ToSet(x) \cup ToSet(y) = ToSet(w) \cup ToSet(v) /\ ToSet(w) \subseteq ToSet(x)
<1> DEFINE a == SubSeq(v, 1, n)
           y == SubSeq(v, n + 1, Len(v))
           x == w \o a
<1>1. a \in Bytes /\ y \in Bytes /\ a \o y = v
  BY Cut DEF Bytes
<1> HIDE DEF a, y
<1>2. x \in Bytes /\ ToSet(x) = ToSet(w) \cup ToSet(a)
  BY <1>1, ConcatElements DEF Bytes
<1>3. x \o y = w \o v
  <2>1. x \o y = w \o (a \o y)
    <3> DEFINE S == 1 .. MaxByte
    <3>1. w \in Seq(S) /\ a \in Seq(S) /\ y \in Seq(S)
      BY <1>1 DEF Bytes
    <3> HIDE DEF S
    <3>2. \A p, q, r \in Seq(S) : (p \o q) \o r = p \o (q \o r)
      BY ConcatAssociative, SMTT(30)
    <3>3. (w \o a) \o y = w \o (a \o y)
      BY <3>1, <3>2, Zenon
    <3> QED BY <3>3
  <2> QED BY <1>1, <2>1
<1>4. ToSet(v) = ToSet(a) \cup ToSet(y)
  <2>1. ToSet(a \o y) = ToSet(a) \cup ToSet(y)
    BY <1>1, ConcatElements, ZenonT(60) DEF Bytes
  <2> QED BY <1>1, <2>1
<1> HIDE DEF x
<1>5. Ordered(x, y, k)
  BY <1>3 DEF Ordered
<1>6. Increasing(x)
  BY <1>1, <1>2, <1>5, FirstIncreasing DEF Ordered
<1> QED BY <1>1, <1>2, <1>4, <1>5, <1>6 DEF x, y, a

\* Bytes may be dropped.
LEMMA Dropped ==
  ASSUME NEW w \in Bytes, NEW v \in Bytes, NEW k, Ordered(w, v, k)
  PROVE  <<>> \in Bytes /\ ToSet(<<>>) = {} /\ Ordered(w, <<>>, k)
<1>1. <<>> \in Bytes /\ ToSet(<<>>) = {}
  BY DEF Bytes, ToSet
<1>2. w \o <<>> = w
  BY ConcatEmptySeq DEF Bytes
<1>3. Increasing(w)
  BY FirstIncreasing DEF Ordered
<1>4. ToSet(w) \subseteq ToSet(w \o v)
  BY ConcatElements DEF Bytes
<1>5. \A b \in ToSet(w) : b <= k
  BY <1>4 DEF Ordered
<1> QED BY <1>1, <1>2, <1>3, <1>5 DEF Ordered

\* New bytes are greater.
LEMMA Added ==
  ASSUME NEW w \in Bytes, NEW k \in Nat, NEW n \in 1 .. 2, k + n <= MaxByte, Ordered(w, <<>>, k)
  PROVE  LET d == [i \in 1 .. n |-> k + i] IN d \in Bytes /\ Ordered(w, d, k + n)
<1> DEFINE d == [i \in 1 .. n |-> k + i]
           r == w \o d
<1>0. MaxByte \in Nat /\ n \in Nat
  BY TlsAssumption
<1>1. d \in Bytes /\ Len(d) = n /\ \A i \in 1 .. n : d[i] = k + i
  <2>1. \A i \in 1 .. n : k + i \in 1 .. MaxByte
    BY <1>0
  <2>2. d \in [1 .. n -> 1 .. MaxByte] /\ DOMAIN d = 1 .. n
    BY <2>1
  <2> QED BY <1>0, <2>2 DEF Bytes
<1> HIDE DEF d
<1>2. /\ r \in Bytes /\ Len(r) = Len(w) + n
      /\ \A i \in 1 .. Len(w) : r[i] = w[i]
      /\ \A i \in 1 .. n : r[Len(w) + i] = d[i]
  BY <1>1, ConcatElements DEF Bytes
<1>3. /\ Len(w) \in Nat /\ DOMAIN w = 1 .. Len(w) /\ DOMAIN r = 1 .. Len(r)
      /\ \A i \in 1 .. Len(w) : w[i] \in 1 .. MaxByte
  BY <1>2, LenProperties, ElementOfSeq DEF Bytes
<1>4. Increasing(w) /\ \A i \in 1 .. Len(w) : w[i] <= k
  <2>1. w \o <<>> = w
    BY ConcatEmptySeq DEF Bytes
  <2>2. Increasing(w) /\ \A b \in ToSet(w) : b <= k
    BY <2>1 DEF Ordered
  <2> QED BY <1>3, <2>2 DEF ToSet
<1> HIDE DEF r
<1>5. ASSUME NEW i \in DOMAIN r
      PROVE  \/ i \in DOMAIN w /\ r[i] = w[i] /\ r[i] <= k
             \/ i > Len(w) /\ r[i] = k + (i - Len(w))
  <2>1. CASE i <= Len(w)
    BY <1>2, <1>3, <1>4, <2>1
  <2>2. CASE ~(i <= Len(w))
    <3> DEFINE j == i - Len(w)
    <3>1. j \in 1 .. n /\ i = Len(w) + j
      BY <1>0, <1>2, <1>3, <2>2
    <3> HIDE DEF j
    <3>2. r[Len(w) + j] = d[j] /\ d[j] = k + j
      BY <1>1, <1>2, <3>1
    <3>3. r[i] = k + j
      BY <3>1, <3>2
    <3>4. i > Len(w)
      BY <1>2, <1>3, <2>2
    <3> QED BY <3>3, <3>4 DEF j
  <2> QED BY <2>1, <2>2
<1>6. ASSUME NEW i \in DOMAIN r, NEW j \in DOMAIN r, i < j PROVE r[i] < r[j]
  <2>1. i \in Nat /\ j \in Nat
    BY <1>0, <1>2, <1>3
  <2>2. CASE j \in DOMAIN w /\ r[j] = w[j]
    <3>1. i \in DOMAIN w /\ ~(i > Len(w))
      BY <1>3, <1>6, <2>1, <2>2
    <3>2. r[i] = w[i]
      BY <1>5, <3>1
    <3>3. w[i] < w[j]
      BY <1>4, <1>6, <2>2, <3>1 DEF Increasing
    <3> QED BY <2>2, <3>2, <3>3
  <2>3. CASE j > Len(w) /\ r[j] = k + (j - Len(w))
    <3>1. \/ i \in DOMAIN w /\ r[i] = w[i] /\ r[i] <= k
          \/ i > Len(w) /\ r[i] = k + (i - Len(w))
      BY <1>5
    <3>2. CASE i \in DOMAIN w /\ r[i] = w[i] /\ r[i] <= k
      <4>1. r[i] \in Nat
        BY <1>3, <3>2
      <4>2. k < k + (j - Len(w)) /\ k + (j - Len(w)) \in Nat
        BY <1>3, <2>1, <2>3
      <4>3. r[j] \in Nat /\ k < r[j]
        BY <2>3, <4>2
      <4> QED BY <3>2, <4>1, <4>3
    <3>3. CASE i > Len(w) /\ r[i] = k + (i - Len(w))
      <4>1. k + (i - Len(w)) < k + (j - Len(w))
        BY <1>3, <1>6, <2>1
      <4> QED BY <2>3, <3>3, <4>1
    <3> QED BY <3>1, <3>2, <3>3
  <2> QED BY <1>5, <2>2, <2>3
<1>7. ASSUME NEW i \in DOMAIN r PROVE r[i] <= k + n
  <2>1. CASE i \in DOMAIN w /\ r[i] = w[i] /\ r[i] <= k
    <3>1. r[i] \in Nat
      BY <1>3, <2>1
    <3> QED BY <1>0, <2>1, <3>1
  <2>2. CASE i > Len(w) /\ r[i] = k + (i - Len(w))
    <3>1. k + (i - Len(w)) <= k + n
      BY <1>0, <1>2, <1>3, <2>2
    <3> QED BY <2>2, <3>1
  <2> QED BY <1>5, <2>1, <2>2
<1>8. Ordered(w, d, k + n)
  BY <1>6, <1>7 DEF Ordered, Increasing, ToSet, r
<1> QED BY <1>1, <1>8 DEF d

-----------------------------------------------------------------------------
(* Parked and new plaintext. *)

\* A flush or a write at its loop takes the place of the innermost frame.
LEMMA Goes ==
  ASSUME Inv, Live, view = "open", frames # <<>>, AllWait(Below), Top.fn # "send", ~Reads(Top),
         NEW f \in Frame, f.fn \in {"flush", "write"}, f.fn = Top.fn, f.at = "loop", f.sc = 0,
         frames' = <<f>> \o Below, UNCHANGED <<t, tcp, life, view, history>>, BytesInv'
  PROVE  Inv'
<1>1. Below \in Seq(Frame) /\ ToSet(frames) = ToSet(Below) \cup {Top} /\ t \in Conn /\ t.ssl \in Session
  BY Popped, Alive DEF Inv, TypeOK, Top, Below
<1>2. /\ frames' \in Seq(Frame) /\ frames' # <<>> /\ Head(frames') = f /\ Tail(frames') = Below
      /\ ToSet(frames') = ToSet(Below) \cup {f}
  BY <1>1, Pushed
<1>3. f.sc # -1 /\ f.sc # 1
  BY ReturnCodes
<1>4. LiveShape(view, frames') /\ SameFlags
  BY <1>2, <1>3 DEF LiveShape, Works, SameFlags
<1>5. /\ recvd' \in 0 .. MaxRecv /\ byte' \in 0 .. MaxByte /\ wire' \in Bytes /\ taken' \subseteq 1 .. MaxByte
      /\ UNCHANGED opens
  BY DEF Inv, TypeOK, history
<1>6. TypeOK' /\ Relation' /\ Shape' /\ Live'
  BY <1>1, <1>2, <1>4, <1>5, LiveStep
<1>7. SessionInv'
  <2>1. SessionInv
    BY DEF Inv
  <2>2. Reading(frames) => Reading(frames')
    BY <1>1, <1>2 DEF Reading
  <2>3. tcp = "OPEN" => t.ssl.out = 0 /\ \A g \in ToSet(frames') : g.sc # 1
    BY <1>1, <1>2, <1>3, <2>1 DEF SessionInv
  <2>4. tcp = "IDLE" => t.ssl.closed /\ \A g \in ToSet(frames') : g.fn # "flush"
    BY <1>1, <1>2, <2>1 DEF SessionInv
  <2> QED BY <2>1, <2>2, <2>3, <2>4 DEF SessionInv
<1> QED BY <1>6, <1>7 DEF Inv

LEMMA InvFlushPending == ASSUME Inv, tls_flush_pending PROVE Inv'
<1>1. /\ frames # <<>> /\ Top.fn = "flush" /\ Top.at = "start"
      /\ UNCHANGED <<t, tcp, life, view, history>>
  BY DEF tls_flush_pending, On
<1>2. /\ Top = Head(frames) /\ Below = Tail(frames) /\ frames \in Seq(Frame) /\ Below \in Seq(Frame)
      /\ t \in Conn
  BY <1>1, Popped DEF Inv, TypeOK, Top, Below
<1>3. CASE ~Live
  <2>1. AllOver(frames)
    BY <1>1, <1>2, <1>3 DEF Inv, Shape, DeadShape, Fails, FailTold
  <2>2. t.pending = <<>>
    BY <1>3 DEF Inv, Relation
  <2>3. frames' = Below
    BY <2>2 DEF tls_flush_pending
  <2> QED BY <1>1, <1>3, <2>1, <2>3, DeadPop
<1>4. CASE Live
  <2>1. view = "open" /\ AllWait(Below)
    <3>1. LiveShape(view, frames)
      BY <1>4, Alive
    <3>2. view = "open" /\ AllWait(frames)
      BY <1>1, <1>2, <3>1 DEF LiveShape, Pumps, PumpSends, Works, WorkSends, Sends
    <3> QED BY <1>1, <1>2, <3>2, Popped
  <2>2. /\ ~Writes(frames) /\ ~Flushes(frames) /\ Ordered(wire, t.pending, byte)
        /\ taken \subseteq ToSet(wire) \cup ToSet(t.pending)
    BY <1>1, <1>4, NothingHeld
  <2>3. ~t.destroyed /\ t.ssl \in Session /\ ~Reads(Top) /\ t.pending \in Bytes
    BY <1>1, <1>2, <1>4, Alive DEF Reads, Conn
  <2>4. CASE t.pending = <<>>
    <3>1. frames' = Below /\ SameFlags
      BY <1>1, <2>4 DEF tls_flush_pending, SameFlags
    <3>2. taken' \subseteq 1 .. MaxByte /\ UNCHANGED <<opens, recvd, byte, wire, taken>>
      BY <1>1 DEF Inv, TypeOK, history
    <3> QED BY <1>1, <1>2, <1>4, <2>1, <2>2, <2>3, <3>1, <3>2, LiveBack
  <2>5. CASE t.pending # <<>>
    <3> DEFINE f == F("flush", "loop", t.pending)
    <3>1. frames' = <<f>> \o Below
      BY <2>3, <2>5 DEF tls_flush_pending
    <3>2. f \in Frame /\ f.fn = "flush" /\ f.at = "loop" /\ f.sc = 0 /\ f.val = t.pending
      BY <2>3, Made
    <3> HIDE DEF f
    <3>3. BytesInv'
      <4>1. frames' # <<>> /\ Head(frames') = f
        BY <1>2, <3>1, <3>2, Pushed
      <4>2. Working(frames') = f
        BY <3>2, <4>1 DEF Working
      <4>3. ~Writes(frames') /\ Rest(t', frames') = t.pending
        BY <3>2, <4>1, <4>2 DEF Writes, Flushes, Rest
      <4>4. Increasing(wire) /\ UNCHANGED <<wire, taken, byte>>
        BY <1>1 DEF Inv, BytesInv, history
      <4> QED BY <1>1, <2>1, <2>2, <3>2, <4>2, <4>3, <4>4 DEF BytesInv
    <3> QED BY <1>1, <1>4, <2>1, <2>3, <3>1, <3>2, <3>3, Goes
  <2> QED BY <2>4, <2>5
<1> QED BY <1>3, <1>4

\* A flush that uses the session.
LEMMA FlushHolds ==
  ASSUME Inv, Live, frames # <<>>, Top.fn = "flush", Top.at \in {"loop", "sent"}
  PROVE  /\ Top.val \in Bytes /\ Working(frames) = Top /\ ~Writes(frames) /\ Flushes(frames)
         /\ Ordered(wire, Top.val, byte) /\ taken \subseteq ToSet(wire) \cup ToSet(Top.val)
         /\ taken \subseteq ToSet(wire) \cup ToSet(t.pending) /\ ~Reads(Top)
         /\ Below \in Seq(Frame) /\ Top \in Frame /\ ToSet(frames) = ToSet(Below) \cup {Top}
         /\ wire \in Bytes /\ t \in Conn /\ Top.sc # 1
<1>1. /\ Below \in Seq(Frame) /\ Top \in Frame /\ ToSet(frames) = ToSet(Below) \cup {Top}
      /\ wire \in Bytes /\ t \in Conn
  BY Popped DEF Inv, TypeOK, Top, Below
<1>2. Top.val \in Bytes /\ ~Reads(Top)
  BY <1>1, FrameCases DEF Reads
<1>3. Working(frames) = Top
  BY DEF Working, Top
<1>4. ~Writes(frames) /\ Flushes(frames) /\ Rest(t, frames) = Top.val
  BY <1>3 DEF Writes, Flushes, Rest
<1>5. /\ Ordered(wire, Top.val, byte) /\ taken \subseteq ToSet(wire) \cup ToSet(Top.val)
      /\ taken \subseteq ToSet(wire) \cup ToSet(t.pending)
  BY <1>3, <1>4 DEF Inv, BytesInv
<1>6. Top.sc # 1
  <2>1. tcp # "IDLE" /\ tcp # "OPENING"
    BY <1>1, Alive DEF Inv, SessionInv
  <2> QED BY <1>1, <2>1 DEF Inv, TypeOK, SessionInv
<1> QED BY <1>1, <1>2, <1>3, <1>4, <1>5, <1>6

\* What was being read still is.
LEMMA StillReading ==
  ASSUME Inv, Live, view = "open", frames # <<>>, ~Reads(Top), ToSet(Below) \subseteq ToSet(frames')
  PROVE  Sized => (tcp = "OPEN" /\ t.ssl.in = <<>>) \/ Reading(frames')
<1>1. ToSet(frames) = ToSet(Below) \cup {Top}
  BY Popped DEF Inv, TypeOK, Top, Below
<1>2. Reading(frames) => Reading(frames')
  BY <1>1 DEF Reading
<1> QED BY <1>2 DEF Inv, SessionInv

LEMMA InvFlushLoop == ASSUME Inv, flush_loop PROVE Inv'
<1>1. /\ frames # <<>> /\ Top.fn = "flush" /\ Top.at = "loop"
      /\ UNCHANGED <<tcp, life, opens, recvd, byte, taken>>
  BY DEF flush_loop, On
<1>2. Live /\ view = "open" /\ AllWait(Below)
  BY <1>1, TopLoop
<1> DEFINE v == Top.val
<1>3. /\ v \in Bytes /\ Working(frames) = Top /\ ~Writes(frames) /\ Flushes(frames)
      /\ Ordered(wire, v, byte) /\ taken \subseteq ToSet(wire) \cup ToSet(v)
      /\ taken \subseteq ToSet(wire) \cup ToSet(t.pending) /\ ~Reads(Top)
      /\ Below \in Seq(Frame) /\ Top \in Frame /\ ToSet(frames) = ToSet(Below) \cup {Top}
      /\ wire \in Bytes /\ t \in Conn
  BY <1>1, <1>2, FlushHolds
<1>4. ~Gone /\ t.ssl \in Session /\ ~t.destroyed /\ ~t.closed_notified
  BY <1>2, Alive
<1>5. recvd' \in 0 .. MaxRecv /\ taken' \subseteq 1 .. MaxByte
  BY <1>1 DEF Inv, TypeOK
<1>6. CASE v = <<>> /\ flush_end /\ frames' = Below /\ UNCHANGED <<view, wire>>
  <2>1. <<>> \in Bytes /\ t' = [t EXCEPT !.pending = <<>>]
    BY <1>6 DEF flush_end, Bytes
  <2>2. t' \in Conn /\ t'.ssl = t.ssl /\ t'.pending = <<>> /\ SameFlags
    BY <1>3, <2>1, WithPending DEF SameFlags
  <2>3. Ordered(wire, t'.pending, byte) /\ taken' \subseteq ToSet(wire) \cup ToSet(t'.pending)
    BY <1>1, <1>3, <1>6, <2>2
  <2> QED BY <1>1, <1>2, <1>3, <1>4, <1>5, <1>6, <2>2, <2>3, LiveBack
<1>7. ASSUME NEW res \in ossl_write(t.ssl, Len(v)),
             IF res.want = "error"
             THEN tls_fail(t, Below) /\ UNCHANGED wire
             ELSE /\ t' = [t EXCEPT !.ssl = res.s]
                  /\ wire' = wire \o SubSeq(v, 1, res.n)
                  /\ frames' = CallSend(SubSeq(v, res.n + 1, Len(v)))
                  /\ UNCHANGED view
      PROVE  Inv'
  <2>1. Len(v) \in Nat
    BY <1>3, LenProperties DEF Bytes
  <2>2. /\ res.s \in Session /\ res.s.closed = t.ssl.closed /\ res.s.in = t.ssl.in /\ res.n \in 0 .. Len(v)
    BY <1>4, <2>1, WriteKeeps
  <2>3. CASE res.want = "error"
    <3>1. tls_fail(t, Below) /\ UNCHANGED wire /\ AllOver(Below)
      BY <1>2, <1>3, <1>7, <2>3, AllWaiting
    <3> QED BY <1>1, <1>2, <1>3, <1>5, <3>1, FailLive
  <2>4. CASE res.want # "error"
    <3> DEFINE y == SubSeq(v, res.n + 1, Len(v))
    <3>1. /\ t' = [t EXCEPT !.ssl = res.s] /\ wire' = wire \o SubSeq(v, 1, res.n)
          /\ frames' = CallSend(y) /\ UNCHANGED view
      BY <1>7, <2>4
    <3>2. /\ wire' \in Bytes /\ y \in Bytes /\ Ordered(wire', y, byte) /\ Increasing(wire')
          /\ ToSet(wire') \cup ToSet(y) = ToSet(wire) \cup ToSet(v) /\ ToSet(wire) \subseteq ToSet(wire')
      BY <1>3, <2>2, <3>1, Moved
    <3> HIDE DEF y
    <3>3. /\ frames' \in Seq(Frame) /\ Working(frames').fn = "flush" /\ Working(frames').at = "sent"
          /\ Working(frames').val = y /\ frames' # <<>> /\ ToSet(Below) \subseteq ToSet(frames')
      BY <1>1, <3>1, <3>2, Calling DEF Sends
    <3>4. Sized => (tcp = "OPEN" /\ res.s.in = <<>>) \/ Reading(frames')
      BY <1>1, <1>2, <1>3, <2>2, <3>3, StillReading
    <3>5. t'.pending = t.pending
      BY <1>3, <2>2, <3>1, WithSsl
    <3>6. BytesInv'
      <4>1. ~Writes(frames') /\ Flushes(frames') /\ Rest(t', frames') = y
        BY <3>3 DEF Writes, Flushes, Rest
      <4>2. taken' \subseteq ToSet(wire') \cup ToSet(y) /\ taken' \subseteq ToSet(wire') \cup ToSet(t'.pending)
        BY <1>1, <1>3, <3>2, <3>5
      <4> QED BY <1>1, <1>2, <3>1, <3>2, <3>3, <4>1, <4>2 DEF BytesInv
    <3> QED BY <1>1, <1>2, <2>2, <3>1, <3>2, <3>4, <3>6, ToSend
  <2> QED BY <2>3, <2>4
<1> QED BY <1>4, <1>6, <1>7 DEF flush_loop

LEMMA InvFlushSent == ASSUME Inv, flush_sent PROVE Inv'
<1>1. /\ frames # <<>> /\ Top.fn = "flush" /\ Top.at = "sent"
      /\ UNCHANGED <<tcp, life, view, history>>
  BY DEF flush_sent, On
<1>2. CASE ~Live
  <2>1. AllOver(frames) /\ Top.sc = -1
    BY <1>1, <1>2, TopSent
  <2>2. t' = [t EXCEPT !.pending = <<>>] /\ frames' = Below
    BY <2>1 DEF flush_sent, flush_end
  <2>3. t.pending = <<>> /\ t \in Conn
    BY <1>2 DEF Inv, Relation, TypeOK
  <2>4. t' = t
    BY <2>2, <2>3 DEF Conn
  <2> QED BY <1>1, <1>2, <2>1, <2>2, <2>4, DeadPop
<1>3. CASE Live
  <2> DEFINE v == Top.val
             f == F("flush", "loop", v)
  <2>1. /\ v \in Bytes /\ Working(frames) = Top /\ ~Writes(frames) /\ Flushes(frames) /\ ~Reads(Top)
        /\ Below \in Seq(Frame) /\ Top \in Frame /\ Top.sc # 1
    BY <1>1, <1>3, FlushHolds
  <2>2. Top.sc # -1 /\ view = "open" /\ AllWait(Below)
    BY <1>1, <1>3, TopSent
  <2>3. Top.sc = 0
    BY <2>1, <2>2, FrameCases
  <2>4. frames' = <<f>> \o Below /\ UNCHANGED t
    BY <2>3 DEF flush_sent
  <2>5. f \in Frame /\ f.fn = "flush" /\ f.at = "loop" /\ f.sc = 0 /\ f.val = v
    BY <2>1, Made
  <2> HIDE DEF f
  <2>6. BytesInv'
    <3>1. frames' # <<>> /\ Head(frames') = f
      BY <2>1, <2>4, <2>5, Pushed
    <3>2. Working(frames') = f
      BY <2>5, <3>1 DEF Working
    <3>3. SameBytes
      BY <1>1, <2>1, <2>4, <2>5, <3>1, <3>2 DEF SameBytes, Writes, Flushes, history
    <3> QED BY <1>3, <3>3, BytesStay DEF Inv
  <2> QED BY <1>1, <1>3, <2>1, <2>2, <2>4, <2>5, <2>6, Goes
<1> QED BY <1>2, <1>3

\* A write that uses the session: nothing is parked meanwhile.
LEMMA WriteHolds ==
  ASSUME Inv, Live, frames # <<>>, Top.fn = "write"
  PROVE  /\ Top.at \in {"loop", "sent"} /\ Top.val \in Plaintext /\ Top.val.left \in Bytes /\ Top.val.all \in Bytes
         /\ Working(frames) = Top /\ Writes(frames) /\ ~Flushes(frames) /\ ~Reads(Top)
         /\ Ordered(wire, Top.val.left, byte) /\ taken \subseteq ToSet(wire)
         /\ ToSet(Top.val.all) \subseteq ToSet(wire) \cup ToSet(Top.val.left)
         /\ ToSet(Top.val.all) \subseteq 1 .. MaxByte
         /\ t.pending = <<>> /\ ToSet(t.pending) = {} /\ wire \in Bytes /\ taken \subseteq 1 .. MaxByte
         /\ Below \in Seq(Frame) /\ Top \in Frame /\ ToSet(frames) = ToSet(Below) \cup {Top}
         /\ t \in Conn /\ t.ssl \in Session
<1>1. /\ Below \in Seq(Frame) /\ Top \in Frame /\ ToSet(frames) = ToSet(Below) \cup {Top}
      /\ wire \in Bytes /\ t \in Conn /\ taken \subseteq 1 .. MaxByte /\ t.ssl \in Session
  BY Popped, Alive DEF Inv, TypeOK, Top, Below
<1>2. Top.at \in {"loop", "sent"} /\ Top.val \in Plaintext /\ ~Reads(Top)
  BY <1>1, FrameCases DEF Reads
<1>3. Top.val.left \in Bytes /\ Top.val.all \in Bytes
  BY <1>2 DEF Plaintext
<1>4. Working(frames) = Top
  BY DEF Working, Top
<1>5. Writes(frames) /\ ~Flushes(frames) /\ Rest(t, frames) = Top.val.left
  BY <1>4 DEF Writes, Flushes, Rest
<1>6. /\ Ordered(wire, Top.val.left, byte) /\ taken \subseteq ToSet(wire) \cup ToSet(t.pending)
      /\ t.pending = <<>> /\ ToSet(Top.val.all) \subseteq ToSet(wire) \cup ToSet(Top.val.left)
  BY <1>4, <1>5 DEF Inv, BytesInv
<1>7. ToSet(t.pending) = {} /\ taken \subseteq ToSet(wire)
  BY <1>6, Empty
<1>8. ToSet(Top.val.all) \subseteq 1 .. MaxByte
  <2> DEFINE S == 1 .. MaxByte
             q == Top.val.all
  <2>1. q \in Seq(S)
    BY <1>3 DEF Bytes
  <2> HIDE DEF S, q
  <2>2. ToSet(q) \subseteq S
    BY <2>1 DEF ToSet
  <2> QED BY <2>2 DEF S, q
<1> QED BY <1>1, <1>2, <1>3, <1>4, <1>5, <1>6, <1>7, <1>8

LEMMA InvWriteLoop == ASSUME Inv, write_loop PROVE Inv'
<1>1. /\ frames # <<>> /\ Top.fn = "write" /\ Top.at = "loop"
      /\ UNCHANGED <<tcp, life, opens, recvd, byte>>
  BY DEF write_loop, On
<1>2. Live /\ view = "open" /\ AllWait(Below)
  BY <1>1, TopLoop
<1> DEFINE v == Top.val.left
           all == Top.val.all
<1>3. /\ v \in Bytes /\ all \in Bytes /\ Writes(frames) /\ ~Flushes(frames) /\ ~Reads(Top)
      /\ Ordered(wire, v, byte) /\ taken \subseteq ToSet(wire)
      /\ ToSet(all) \subseteq ToSet(wire) \cup ToSet(v) /\ ToSet(all) \subseteq 1 .. MaxByte
      /\ t.pending = <<>> /\ ToSet(t.pending) = {} /\ wire \in Bytes /\ taken \subseteq 1 .. MaxByte
      /\ Below \in Seq(Frame) /\ t \in Conn /\ t.ssl \in Session
  BY <1>1, <1>2, WriteHolds
<1>4. ~Gone /\ ~t.destroyed /\ ~t.closed_notified /\ recvd' \in 0 .. MaxRecv
  BY <1>1, <1>2, Alive DEF Inv, TypeOK
<1>5. Ordered(wire, t.pending, byte)
  BY <1>3, Dropped
<1>6. CASE v = <<>> /\ frames' = Below /\ taken' = taken \cup ToSet(all) /\ UNCHANGED <<t, view, wire>>
  <2>1. taken' \subseteq 1 .. MaxByte /\ taken' \subseteq ToSet(wire) \cup ToSet(t'.pending) /\ SameFlags
    BY <1>3, <1>6 DEF SameFlags
  <2> QED BY <1>1, <1>2, <1>3, <1>5, <1>6, <2>1, LiveBack
<1>7. ASSUME NEW res \in ossl_write(t.ssl, Len(v)),
             \/ /\ res.want = "error"
                /\ tls_fail(t, Below) /\ UNCHANGED <<wire, taken>>
             \/ /\ res.want = "read"
                /\ t' = tls_park_write([t EXCEPT !.ssl = res.s], v)
                /\ frames' = Below /\ taken' = taken \cup ToSet(all) /\ UNCHANGED <<view, wire>>
             \/ /\ res.want = "read"
                /\ t' = [t EXCEPT !.ssl = res.s]
                /\ frames' = Below /\ UNCHANGED <<view, wire, taken>>
             \/ /\ t' = [t EXCEPT !.ssl = res.s]
                /\ wire' = wire \o SubSeq(v, 1, res.n)
                /\ frames' = CallSend([left |-> SubSeq(v, res.n + 1, Len(v)), all |-> all])
                /\ UNCHANGED <<view, taken>>
      PROVE  Inv'
  <2>1. Len(v) \in Nat
    BY <1>3, LenProperties DEF Bytes
  <2>2. /\ res.s \in Session /\ res.s.closed = t.ssl.closed /\ res.s.in = t.ssl.in /\ res.n \in 0 .. Len(v)
        /\ res.want = "read" => res.s.out = t.ssl.out
    BY <1>3, <2>1, WriteKeeps
  <2> DEFINE u == [t EXCEPT !.ssl = res.s]
  <2>3. /\ u \in Conn /\ u.ssl = res.s /\ u.pending = t.pending
        /\ u.established = t.established /\ u.handshake_done = t.handshake_done
        /\ u.closed_notified = t.closed_notified /\ u.destroyed = t.destroyed
    BY <1>3, <2>2, WithSsl
  <2>4. CASE tls_fail(t, Below) /\ UNCHANGED <<wire, taken>>
    <3>1. AllOver(Below)
      BY <1>2, <1>3, AllWaiting
    <3> QED BY <1>1, <1>2, <1>3, <1>4, <2>4, <3>1, FailLive
  <2>5. CASE /\ res.want = "read"
             /\ t' = tls_park_write([t EXCEPT !.ssl = res.s], v)
             /\ frames' = Below /\ taken' = taken \cup ToSet(all) /\ UNCHANGED <<view, wire>>
    <3>1. t' = [u EXCEPT !.pending = v]
      BY <2>5 DEF tls_park_write
    <3> HIDE DEF u
    <3>2. t' \in Conn /\ t'.ssl = res.s /\ t'.pending = v /\ SameFlags
      BY <1>3, <2>3, <3>1, WithPending DEF SameFlags
    <3>3. taken' \subseteq 1 .. MaxByte /\ taken' \subseteq ToSet(wire) \cup ToSet(t'.pending)
      BY <1>3, <2>5, <3>2
    <3>4. Ordered(wire, t'.pending, byte)
      BY <1>3, <3>2
    <3> QED BY <1>1, <1>2, <1>3, <2>2, <2>5, <3>2, <3>3, <3>4, LiveBack
  <2>6. CASE /\ res.want = "read" /\ t' = [t EXCEPT !.ssl = res.s]
             /\ frames' = Below /\ UNCHANGED <<view, wire, taken>>
    <3>1. t' \in Conn /\ t'.ssl = res.s /\ t'.pending = t.pending /\ SameFlags
      BY <2>3, <2>6 DEF SameFlags
    <3>2. taken' \subseteq 1 .. MaxByte /\ taken' \subseteq ToSet(wire) \cup ToSet(t'.pending)
      BY <1>3, <2>6
    <3>3. Ordered(wire, t'.pending, byte)
      BY <1>5, <3>1
    <3> QED BY <1>1, <1>2, <1>3, <2>2, <2>6, <3>1, <3>2, <3>3, LiveBack
  <2>7. CASE /\ t' = [t EXCEPT !.ssl = res.s]
             /\ wire' = wire \o SubSeq(v, 1, res.n)
             /\ frames' = CallSend([left |-> SubSeq(v, res.n + 1, Len(v)), all |-> all])
             /\ UNCHANGED <<view, taken>>
    <3> DEFINE y == SubSeq(v, res.n + 1, Len(v))
    <3>1. /\ wire' \in Bytes /\ y \in Bytes /\ Ordered(wire', y, byte) /\ Increasing(wire')
          /\ ToSet(wire') \cup ToSet(y) = ToSet(wire) \cup ToSet(v) /\ ToSet(wire) \subseteq ToSet(wire')
      BY <1>3, <2>2, <2>7, Moved
    <3> DEFINE p == [left |-> y, all |-> all]
    <3>2. frames' = CallSend(p)
      BY <2>7
    <3> HIDE DEF y
    <3>3. p \in Plaintext /\ p.left = y /\ p.all = all
      BY <1>3, <3>1 DEF Plaintext
    <3> HIDE DEF p
    <3>4. /\ frames' \in Seq(Frame) /\ Working(frames').fn = "write"
          /\ Working(frames').val = p /\ frames' # <<>> /\ ToSet(Below) \subseteq ToSet(frames')
      BY <1>1, <3>2, <3>3, Calling DEF Sends
    <3>5. Sized => (tcp = "OPEN" /\ res.s.in = <<>>) \/ Reading(frames')
      BY <1>1, <1>2, <1>3, <2>2, <3>4, StillReading
    <3>6. BytesInv'
      <4>1. Writes(frames') /\ ~Flushes(frames') /\ Rest(t', frames') = y
        BY <3>3, <3>4 DEF Writes, Flushes, Rest
      <4>2. t'.pending = <<>>
        BY <1>3, <2>3, <2>7
      <4>3. taken' \subseteq ToSet(wire') \cup ToSet(t'.pending)
        BY <1>3, <2>7, <3>1
      <4>4. ToSet(Working(frames').val.all) \subseteq ToSet(wire') \cup ToSet(Working(frames').val.left)
        BY <1>3, <3>1, <3>3, <3>4
      <4> QED BY <1>1, <1>2, <2>7, <3>1, <4>1, <4>2, <4>3, <4>4 DEF BytesInv
    <3> QED BY <1>1, <1>2, <2>2, <2>7, <3>1, <3>2, <3>3, <3>5, <3>6, ToSend
  <2> QED BY <1>7, <2>4, <2>5, <2>6, <2>7
<1> QED BY <1>4, <1>6, <1>7 DEF write_loop

LEMMA InvWriteSent == ASSUME Inv, write_sent PROVE Inv'
<1>1. /\ frames # <<>> /\ Top.fn = "write" /\ Top.at = "sent"
      /\ UNCHANGED <<t, tcp, life, view, history>>
  BY DEF write_sent, On
<1>2. CASE ~Live
  <2>1. AllOver(frames) /\ Top.sc = -1
    BY <1>1, <1>2, TopSent
  <2>2. frames' = Below
    BY <2>1 DEF write_sent
  <2> QED BY <1>1, <1>2, <2>1, <2>2, DeadPop
<1>3. CASE Live
  <2> DEFINE v == Top.val
             f == F("write", "loop", v)
  <2>1. /\ v \in Plaintext /\ v.left \in Bytes /\ Working(frames) = Top /\ Writes(frames) /\ ~Flushes(frames)
        /\ ~Reads(Top) /\ Ordered(wire, v.left, byte) /\ taken \subseteq ToSet(wire)
        /\ t.pending = <<>> /\ wire \in Bytes /\ taken \subseteq 1 .. MaxByte
        /\ Below \in Seq(Frame) /\ t \in Conn /\ t.ssl \in Session
    BY <1>1, <1>3, WriteHolds
  <2>2. view = "open" /\ AllWait(Below)
    BY <1>1, <1>3, TopSent
  <2>3. CASE Top.sc # 0
    <3>1. frames' = Below /\ SameFlags
      BY <1>1, <2>3 DEF write_sent, SameFlags
    <3>2. Ordered(wire, t'.pending, byte) /\ UNCHANGED <<opens, recvd, byte, wire, taken>>
      BY <1>1, <2>1, Dropped DEF history
    <3>3. taken' \subseteq 1 .. MaxByte /\ taken' \subseteq ToSet(wire) \cup ToSet(t'.pending)
      BY <2>1, <3>2
    <3> QED BY <1>1, <1>3, <2>1, <2>2, <3>1, <3>2, <3>3, LiveBack
  <2>4. CASE Top.sc = 0
    <3>1. frames' = <<f>> \o Below
      BY <2>4 DEF write_sent
    <3>2. f \in Frame /\ f.fn = "write" /\ f.at = "loop" /\ f.sc = 0 /\ f.val = v
      BY <2>1, Made
    <3> HIDE DEF f
    <3>3. BytesInv'
      <4>1. frames' # <<>> /\ Head(frames') = f
        BY <2>1, <3>1, <3>2, Pushed
      <4>2. Working(frames') = f
        BY <3>2, <4>1 DEF Working
      <4>3. SameBytes
        BY <1>1, <2>1, <3>2, <4>1, <4>2 DEF SameBytes, Writes, Flushes, history
      <4> QED BY <1>3, <4>3, BytesStay DEF Inv
    <3> QED BY <1>1, <1>3, <2>1, <2>2, <3>1, <3>2, <3>3, Goes
  <2> QED BY <2>3, <2>4
<1> QED BY <1>2, <1>3

-----------------------------------------------------------------------------
(* Callbacks of the TCP connection. *)

LEMMA One ==
  ASSUME NEW f \in Frame
  PROVE  <<f>> \in Seq(Frame) /\ <<f>> # <<>> /\ Head(<<f>>) = f /\ Tail(<<f>>) = <<>> /\ ToSet(<<f>>) = {f}
<1>1. <<f>> \in Seq(Frame) /\ <<f>> # <<>> /\ Head(<<f>>) = f /\ Tail(<<f>>) = <<>>
  OBVIOUS
<1>2. ToSet(<<f>>) = ToSet(Tail(<<f>>)) \cup {Head(<<f>>)}
  BY <1>1, Popped
<1> QED BY <1>1, <1>2, Empty

\* tls_fail from the loop, with the TCP connection gone: the end is told, unless it has
\* been told while the channel was still up.
LEMMA FailFromLoop ==
  ASSUME Inv, frames = <<>>, tcp \in {"OPENING", "OPEN"}, tcp' = "IDLE", tls_fail(t, <<>>),
         UNCHANGED <<life, history>>
  PROVE  Inv'
<1>1. t \in Conn /\ recvd' \in 0 .. MaxRecv /\ UNCHANGED <<opens, recvd, byte, wire, taken>>
  BY DEF Inv, TypeOK, history
<1>2. view \in {"opening", "open", "ended"} /\ ~t.destroyed
  BY DEF Inv, TypeOK, Relation
<1>3. CASE view \in {"opening", "open"}
  <2>1. ~t.closed_notified
    BY <1>3 DEF Inv, Relation
  <2>2. t' = [tls_reset_after_term(t) EXCEPT !.closed_notified = TRUE] /\ Call("error", <<>>)
    BY <2>1 DEF tls_fail
  <2> QED BY <1>1, <1>2, <1>3, <2>2, Ends, Empty
<1>4. CASE view = "ended"
  <2>1. t.closed_notified /\ ~Live
    BY <1>4 DEF Inv, Relation
  <2>2. t' = tls_reset_after_term(t) /\ frames' = <<>> /\ view' = view
    BY <2>1 DEF tls_fail
  <2>3. /\ t' \in Conn /\ t'.ssl = NoSsl /\ t'.pending = <<>>
        /\ t'.established = FALSE /\ t'.handshake_done = FALSE
        /\ t'.closed_notified = FALSE /\ t'.destroyed = t.destroyed
    BY <1>1, <2>2, ResetOnly
  <2>4. TypeOK'
    BY <1>1, <2>2, <2>3, Empty DEF Inv, TypeOK
  <2>5. Relation'
    BY <1>2, <1>4, <2>2, <2>3 DEF Relation, Live
  <2>6. Shape'
    BY <2>2, <2>3, Empty DEF Shape, DeadShape, Live
  <2>7. SessionInv' /\ BytesInv'
    BY <1>1, <1>4, <2>2, <2>3 DEF SessionInv, BytesInv, Live, Inv
  <2> QED BY <2>4, <2>5, <2>6, <2>7 DEF Inv
<1> QED BY <1>2, <1>3, <1>4

LEMMA InvCbError == ASSUME Inv, tcp_cb_error PROVE Inv'
<1>1. frames = <<>> /\ tcp \in {"OPENING", "OPEN"} /\ tcp' = "IDLE" /\ UNCHANGED <<life, history>>
  BY DEF tcp_cb_error, FromLoop
<1>2. ~t.destroyed
  BY <1>1 DEF Inv, Relation
<1> QED BY <1>1, <1>2, FailFromLoop DEF tcp_cb_error

\* Types, flags and shape after a callback that keeps or makes a session.
LEMMA Begins ==
  ASSUME Inv, t' \in Conn, t'.ssl \in Session, SameFlags, t'.pending = t.pending,
         view = "open" \/ (view = "opening" /\ tcp' = "OPEN"), tcp' \in {"IDLE", "OPEN"},
         UNCHANGED <<life, view, opens, byte, wire, taken>>, recvd' \in 0 .. MaxRecv,
         frames' \in Seq(Frame), LiveShape(view, frames')
  PROVE  TypeOK' /\ Relation' /\ Shape' /\ Live'
<1>1. Live'
  BY NoSslApart DEF Live
<1>2. TypeOK'
  BY DEF Inv, TypeOK
<1>3. Relation'
  <2>1. Relation
    BY DEF Inv
  <2> HIDE DEF Live
  <2> QED BY <1>1, <2>1 DEF Relation, SameFlags
<1>4. Shape'
  BY <1>1 DEF Shape
<1> QED BY <1>1, <1>2, <1>3, <1>4

LEMMA NewSession == ossl_ssl_new \in Session /\ ossl_ssl_new.out = 0
<1>1. 0 \in 0 .. OutCap /\ Flight \in 0 .. Flight /\ 0 \in 0 .. MaxNeed /\ <<>> \in Seq(Records)
  BY SslAssumption
<1> QED BY <1>1 DEF ossl_ssl_new, Session

LEMMA InvCbOpen == ASSUME Inv, tcp_cb_open PROVE Inv'
<1>1. frames = <<>> /\ tcp = "OPENING" /\ tcp' = "OPEN" /\ UNCHANGED <<life, history>>
  BY DEF tcp_cb_open, FromLoop
<1>2. view = "opening" /\ ~t.destroyed /\ ~t.closed_notified /\ t.pending = <<>> /\ t \in Conn
  BY <1>1 DEF Inv, TypeOK, Relation
<1>3. UNCHANGED <<opens, recvd, byte, wire, taken>> /\ recvd' \in 0 .. MaxRecv
  BY <1>1 DEF Inv, TypeOK, history
<1>4. CASE tls_fail(t, <<>>)
  <2>1. t' = [tls_reset_after_term(t) EXCEPT !.closed_notified = TRUE] /\ Call("error", <<>>)
    BY <1>2, <1>4 DEF tls_fail
  <2> QED BY <1>1, <1>2, <1>3, <2>1, Ends, Empty
<1>5. CASE t' = [t EXCEPT !.ssl = ossl_ssl_new] /\ frames' = <<F("pump", "loop", <<>>)>> /\ UNCHANGED view
  <2> DEFINE f == F("pump", "loop", <<>>)
  <2>1. f \in Frame /\ f.fn = "pump" /\ f.at = "loop" /\ f.sc = 0
    BY Made
  <2> HIDE DEF f
  <2>2. /\ frames' \in Seq(Frame) /\ frames' # <<>> /\ Head(frames') = f /\ Tail(frames') = <<>>
        /\ ToSet(frames') = {f}
    BY <1>5, <2>1, One DEF f
  <2>3. t' \in Conn /\ t'.ssl = ossl_ssl_new /\ t'.pending = t.pending /\ SameFlags
    BY <1>2, <1>5, NewSession, WithSsl DEF SameFlags
  <2>4. LiveShape(view, frames')
    <3>1. f.sc # -1
      BY <2>1, ReturnCodes, Zenon
    <3> QED BY <1>2, <2>1, <2>2, <3>1 DEF LiveShape, Pumps
  <2>5. TypeOK' /\ Relation' /\ Shape' /\ Live'
    BY <1>1, <1>2, <1>3, <1>5, <2>2, <2>3, <2>4, NewSession, Begins
  <2>6. SessionInv'
    BY <1>1, <1>2, <1>5, <2>1, <2>2, <2>3, NewSession DEF SessionInv
  <2>7. BytesInv'
    <3>1. wire = <<>> /\ taken = {} /\ Increasing(wire)
      BY <1>2 DEF Inv, BytesInv
    <3>2. ~Writes(frames') /\ ~Flushes(frames') /\ Rest(t', frames') = <<>>
      BY <1>2, <2>1, <2>2, <2>3 DEF Writes, Flushes, Rest, Working
    <3>3. Ordered(wire', <<>>, byte')
      <4>1. wire' = <<>> /\ <<>> \o <<>> = <<>>
        BY <1>3, <3>1
      <4> QED BY <4>1, Empty DEF Ordered, Increasing
    <3> QED BY <1>3, <3>1, <3>2, <3>3 DEF BytesInv
  <2> QED BY <2>5, <2>6, <2>7 DEF Inv
<1> QED BY <1>2, <1>4, <1>5 DEF tcp_cb_open

\* Nothing but the count of records changes.
LEMMA Counted ==
  ASSUME Inv, UNCHANGED <<t, tcp, frames, view, life, opens, byte, wire, taken>>, recvd' \in 0 .. MaxRecv
  PROVE  Inv'
<1>1. TypeOK'
  BY DEF Inv, TypeOK
<1>2. Relation' /\ (Live' <=> Live)
  BY DEF Inv, Relation, Live
<1>3. Shape'
  BY <1>2 DEF Inv, Shape
<1>4. SessionInv'
  BY <1>2 DEF Inv, SessionInv, Top
<1>5. BytesInv'
  BY <1>2 DEF Inv, BytesInv
<1> QED BY <1>1, <1>2, <1>3, <1>4, <1>5 DEF Inv

\* Nothing is held on an empty stack, or on one that waits.
LEMMA Idle ==
  ASSUME Inv, Live, AllWait(frames)
  PROVE  Ordered(wire, t.pending, byte) /\ taken \subseteq ToSet(wire) \cup ToSet(t.pending)
<1>1. Rest(t, frames) = t.pending
  BY AllWaiting DEF Inv, TypeOK
<1> QED BY <1>1 DEF Inv, BytesInv

\* A session that has been fed.
LEMMA FeedKeeps ==
  ASSUME NEW v \in Session, NEW data \in Seq(Records)
  PROVE  LET d == ossl_feed(v, data) IN d \in Session /\ d.closed = v.closed /\ d.out = v.out
<1>1. v.in \o data \in Seq(Records)
  BY DEF Session
<1>2. (IF v.need = 0 THEN 0 ELSE v.need - 1) \in 0 .. MaxNeed
  BY SslAssumption DEF Session
<1> DEFINE a == v.in \o data
           b == IF v.need = 0 THEN 0 ELSE v.need - 1
           d == [v EXCEPT !.in = a, !.need = b]
<1> HIDE DEF a, b
<1>3. d \in Session
  BY <1>1, <1>2 DEF Session, a, b
<1>4. d.closed = v.closed /\ d.out = v.out
  BY DEF Session
<1>5. ossl_feed(v, data) = d
  BY DEF ossl_feed, a, b
<1> QED BY <1>3, <1>4, <1>5

LEMMA InvCbData == ASSUME Inv, tcp_cb_data PROVE Inv'
<1>1. /\ frames = <<>> /\ tcp = "OPEN" /\ UNCHANGED <<tcp, life, opens, byte, wire, taken>>
      /\ \E data \in UNION {[1 .. n -> Records] : n \in 1 .. MaxChunk} :
           /\ recvd + Len(data) <= MaxRecv /\ recvd' = recvd + Len(data)
           /\ IF Gone THEN UNCHANGED <<t, frames, view>>
              ELSE IF ~FeedFits(t.ssl, data) THEN tls_fail(t, <<>>)
              ELSE /\ t' = [t EXCEPT !.ssl = ossl_feed(t.ssl, data)]
                   /\ frames' = IF t.handshake_done
                                THEN <<F("read", "loop", <<>>), F("flush", "start", <<>>)>>
                                ELSE <<F("pump", "loop", <<>>)>>
                   /\ UNCHANGED view
  BY DEF tcp_cb_data, FromLoop
<1>2. PICK data \in UNION {[1 .. n -> Records] : n \in 1 .. MaxChunk} :
        /\ recvd + Len(data) <= MaxRecv /\ recvd' = recvd + Len(data)
        /\ \/ Gone /\ UNCHANGED <<t, frames, view>>
           \/ ~Gone /\ tls_fail(t, <<>>)
           \/ /\ ~Gone /\ t' = [t EXCEPT !.ssl = ossl_feed(t.ssl, data)]
              /\ frames' = IF t.handshake_done
                           THEN <<F("read", "loop", <<>>), F("flush", "start", <<>>)>>
                           ELSE <<F("pump", "loop", <<>>)>>
              /\ UNCHANGED view
  BY <1>1, Zenon
<1>3. data \in Seq(Records) /\ Len(data) \in Nat
  <2>1. PICK n \in 1 .. MaxChunk : data \in [1 .. n -> Records]
    OBVIOUS
  <2>2. n \in Nat
    BY TlsAssumption
  <2>3. data \in Seq(Records)
    BY <2>1, <2>2
  <2> QED BY <2>3, LenProperties
<1>4. recvd' \in 0 .. MaxRecv /\ t \in Conn
  BY <1>2, <1>3, TlsAssumption DEF Inv, TypeOK
<1>5. CASE Gone /\ UNCHANGED <<t, frames, view>>
  BY <1>1, <1>4, <1>5, Counted
<1>6. CASE ~Gone /\ tls_fail(t, <<>>)
  <2>1. Live
    BY <1>6 DEF Gone, Live
  <2> QED BY <1>1, <1>4, <1>6, <2>1, FailLive, Empty
<1>7. CASE /\ ~Gone /\ t' = [t EXCEPT !.ssl = ossl_feed(t.ssl, data)]
           /\ frames' = IF t.handshake_done
                        THEN <<F("read", "loop", <<>>), F("flush", "start", <<>>)>>
                        ELSE <<F("pump", "loop", <<>>)>>
           /\ UNCHANGED view
  <2>1. Live
    BY <1>7 DEF Gone, Live
  <2>2. t.ssl \in Session /\ view \in {"opening", "open"} /\ (t.handshake_done <=> view = "open")
    BY <2>1, Alive DEF Inv, Relation
  <2> DEFINE w == ossl_feed(t.ssl, data)
  <2>3. w \in Session /\ w.closed = t.ssl.closed /\ w.out = t.ssl.out
    BY <1>3, <2>2, FeedKeeps
  <2>4. t' = [t EXCEPT !.ssl = w]
    BY <1>7
  <2> HIDE DEF w
  <2>5. t' \in Conn /\ t'.ssl = w /\ t'.pending = t.pending /\ SameFlags
    BY <1>4, <2>3, <2>4, WithSsl DEF SameFlags
  <2>6. w.out = 0
    BY <1>1, <2>1, <2>3 DEF Inv, SessionInv
  <2>7. Ordered(wire, t.pending, byte) /\ taken \subseteq ToSet(wire) \cup ToSet(t.pending)
    BY <1>1, <2>1, Idle, Empty
  <2>8. ASSUME ~Writes(frames'), ~Flushes(frames') PROVE BytesInv'
    <3>1. Rest(t', frames') = t.pending
      BY <2>5, <2>8 DEF Rest
    <3> QED BY <1>1, <1>7, <2>5, <2>7, <2>8, <3>1 DEF Inv, BytesInv, Live
  <2>9. CASE view = "open"
    <3> DEFINE f == F("read", "loop", <<>>)
               g == F("flush", "start", <<>>)
    <3>1. frames' = <<f, g>>
      BY <1>7, <2>2, <2>9
    <3>2. f \in Frame /\ f.fn = "read" /\ f.at = "loop" /\ f.sc = 0
      BY Made
    <3>3. g \in Frame /\ g.fn = "flush" /\ g.at = "start" /\ g.sc = 0
      BY Made
    <3> HIDE DEF f, g
    <3>4. <<g>> \in Seq(Frame) /\ ToSet(<<g>>) = {g}
      BY <3>3, One
    <3>5. <<f, g>> = <<f>> \o <<g>>
      <4>1. <<f, g>> \o <<>> = <<f>> \o (<<g>> \o <<>>)
        <5> DEFINE e == <<>>
        <5>1. e \in Seq(Frame)
          OBVIOUS
        <5> HIDE DEF e
        <5>2. <<f, g>> \o e = <<f>> \o (<<g>> \o e)
          BY <3>2, <3>3, <5>1, PushTwo
        <5> QED BY <5>2 DEF e
      <4>2. <<f, g>> \in Seq(Frame)
        BY <3>2, <3>3
      <4> QED BY <3>4, <4>1, <4>2, ConcatEmptySeq
    <3>6. frames' \in Seq(Frame) /\ frames' # <<>> /\ Head(frames') = f /\ ToSet(frames') = {f, g}
      BY <3>1, <3>2, <3>4, <3>5, Pushed
    <3>7. AllWait(frames') /\ Reading(frames') /\ LiveShape(view, frames')
      BY <2>9, <3>2, <3>3, <3>6 DEF AllWait, Awaiting, Reading, Reads, LiveShape
    <3>8. TypeOK' /\ Relation' /\ Shape' /\ Live'
      BY <1>1, <1>4, <1>7, <2>3, <2>5, <2>9, <3>6, <3>7, Begins
    <3>9. SessionInv'
      BY <1>1, <2>5, <2>6, <3>2, <3>3, <3>6, <3>7 DEF SessionInv
    <3>10. BytesInv'
      BY <2>8, <3>6, <3>7, AllWaiting
    <3> QED BY <3>8, <3>9, <3>10 DEF Inv
  <2>10. CASE view = "opening"
    <3> DEFINE f == F("pump", "loop", <<>>)
    <3>1. frames' = <<f>>
      BY <1>7, <2>2, <2>10
    <3>2. f \in Frame /\ f.fn = "pump" /\ f.at = "loop" /\ f.sc = 0
      BY Made
    <3> HIDE DEF f
    <3>3. /\ frames' \in Seq(Frame) /\ frames' # <<>> /\ Head(frames') = f /\ Tail(frames') = <<>>
          /\ ToSet(frames') = {f}
      BY <3>1, <3>2, One
    <3>4. LiveShape(view, frames')
      <4>1. f.sc # -1
        BY <3>2, ReturnCodes, Zenon
      <4> QED BY <2>10, <3>2, <3>3, <4>1 DEF LiveShape, Pumps
    <3>5. TypeOK' /\ Relation' /\ Shape' /\ Live'
      BY <1>1, <1>4, <1>7, <2>3, <2>5, <2>10, <3>3, <3>4, Begins
    <3>6. SessionInv'
      BY <1>1, <1>7, <2>5, <2>6, <2>10, <3>2, <3>3 DEF SessionInv
    <3>7. BytesInv'
      BY <2>8, <3>2, <3>3 DEF Writes, Flushes, Working
    <3> QED BY <3>5, <3>6, <3>7 DEF Inv
  <2> QED BY <2>2, <2>9, <2>10
<1> QED BY <1>2, <1>5, <1>6, <1>7

LEMMA InvCbClose == ASSUME Inv, tcp_cb_close PROVE Inv'
<1>1. /\ frames = <<>> /\ tcp \in {"OPENING", "OPEN"} /\ tcp' = "IDLE" /\ UNCHANGED <<life, history>>
      /\ UNCHANGED <<opens, recvd, byte, wire, taken>>
  BY DEF tcp_cb_close, FromLoop, history
<1>2. ~t.destroyed /\ t \in Conn /\ recvd' \in 0 .. MaxRecv
  BY <1>1 DEF Inv, TypeOK, Relation
<1>3. CASE ~t.handshake_done
  <2>1. tls_fail(t, <<>>)
    BY <1>2, <1>3 DEF tcp_cb_close
  <2> QED BY <1>1, <2>1, FailFromLoop
<1>4. CASE t.handshake_done
  <2> DEFINE w == ossl_peer_close(t.ssl)
             f == F("read", "loop", <<>>)
  <2>1. t' = [t EXCEPT !.ssl = w] /\ frames' = <<f>> /\ UNCHANGED view
    BY <1>2, <1>4 DEF tcp_cb_close
  <2>2. view = "open" /\ Live
    BY <1>4 DEF Inv, Relation
  <2>3. t.ssl \in Session
    BY <2>2, Alive
  <2>4. w \in Session /\ w.closed = TRUE
    BY <2>3 DEF ossl_peer_close, Session
  <2> HIDE DEF w
  <2>5. t' \in Conn /\ t'.ssl = w /\ t'.pending = t.pending /\ SameFlags
    BY <1>2, <2>1, <2>4, WithSsl DEF SameFlags
  <2>6. f \in Frame /\ f.fn = "read" /\ f.at = "loop" /\ f.sc = 0
    BY Made
  <2> HIDE DEF f
  <2>7. frames' \in Seq(Frame) /\ frames' # <<>> /\ Head(frames') = f /\ ToSet(frames') = {f}
    BY <2>1, <2>6, One
  <2>8. AllWait(frames') /\ Reading(frames') /\ LiveShape(view, frames')
    BY <2>2, <2>6, <2>7 DEF AllWait, Awaiting, Reading, Reads, LiveShape
  <2>9. TypeOK' /\ Relation' /\ Shape' /\ Live'
    BY <1>1, <1>2, <2>1, <2>2, <2>4, <2>5, <2>7, <2>8, Begins
  <2>10. SessionInv'
    BY <1>1, <2>4, <2>5, <2>6, <2>7, <2>8 DEF SessionInv
  <2>11. BytesInv'
    <3>1. ~Writes(frames') /\ ~Flushes(frames') /\ Rest(t', frames') = t.pending
      BY <2>5, <2>7, <2>8, AllWaiting
    <3>2. Ordered(wire, t.pending, byte) /\ taken \subseteq ToSet(wire) \cup ToSet(t.pending)
      BY <1>1, <2>2, Idle, Empty
    <3> QED BY <1>1, <2>1, <2>5, <3>1, <3>2 DEF Inv, BytesInv, Live
  <2> QED BY <2>9, <2>10, <2>11 DEF Inv
<1> QED BY <1>3, <1>4

-----------------------------------------------------------------------------
(* The API. *)

\* User code has frames that wait below it, as long as the session lives.
LEMMA UserWaits ==
  ASSUME Inv, Live, frames # <<>> => Top.fn = "cb"
  PROVE  /\ AllWait(frames)
         /\ frames # <<>> => view = "open"
<1>1. LiveShape(view, frames)
  BY Alive
<1>2. CASE frames = <<>>
  BY <1>2, Empty
<1>3. CASE frames # <<>>
  <2>1. Head(frames).fn = "cb"
    BY <1>3 DEF Top
  <2> QED BY <1>1, <1>3, <2>1 DEF LiveShape, Pumps, PumpSends, Works, WorkSends, Sends
<1> QED BY <1>2, <1>3

LEMMA InvEstablish ==
  ASSUME Reopens = FALSE, Inv, NEW server \in BOOLEAN, Establish(server)
  PROVE  Inv'
<1>1. /\ UserTurn /\ ~t.destroyed /\ opens < MaxOpen /\ view = "none" /\ UNCHANGED <<frames, life, byte>>
  BY DEF Establish
<1>2. /\ ~Live /\ tcp = "IDLE" /\ t.established = FALSE /\ t.handshake_done = FALSE
      /\ t.closed_notified = FALSE /\ t.destroyed = FALSE /\ t.pending = <<>> /\ t.ssl = NoSsl
  <2>1. /\ ~Live /\ tcp = "IDLE" /\ ~t.established /\ ~t.handshake_done
        /\ ~t.closed_notified /\ t.pending = <<>>
    BY <1>1 DEF Inv, Relation
  <2>2. /\ t.established \in BOOLEAN /\ t.handshake_done \in BOOLEAN /\ t.closed_notified \in BOOLEAN
        /\ t.destroyed \in BOOLEAN
    BY DEF Inv, TypeOK, Conn
  <2> QED BY <1>1, <2>1, <2>2 DEF Live
<1>3. AllOver(frames) /\ frames \in Seq(Frame) /\ t \in Conn
  BY <1>2 DEF Inv, Shape, DeadShape, TypeOK
<1>4. CASE /\ tcp' = "OPENING" /\ t' = [t EXCEPT !.server = server, !.established = TRUE]
           /\ view' = "opening" /\ opens' = opens + 1
           /\ recvd' = 0 /\ wire' = <<>> /\ taken' = {}
  <2>1. t' \in Conn
    BY <1>3, <1>4 DEF Conn
  <2>2. /\ t'.ssl = NoSsl /\ t'.pending = <<>>
    BY <1>2, <1>3, <1>4 DEF Conn
  <2>3. t'.established = TRUE /\ t'.handshake_done = FALSE
    BY <1>2, <1>3, <1>4 DEF Conn
  <2>4. t'.closed_notified = FALSE /\ t'.destroyed = FALSE
    BY <1>2, <1>3, <1>4 DEF Conn
  <2>5. opens' \in 0 .. MaxOpen /\ recvd' \in 0 .. MaxRecv /\ byte' \in 0 .. MaxByte /\ wire' \in Bytes
    BY <1>1, <1>4, TlsAssumption DEF Inv, TypeOK, Bytes
  <2>6. TypeOK'
    BY <1>1, <1>3, <1>4, <2>1, <2>5 DEF Inv, TypeOK
  <2>7. Relation'
    BY <1>4, <2>2, <2>3, <2>4 DEF Relation, Live
  <2>8. Shape'
    BY <1>1, <1>3, <2>2 DEF Shape, DeadShape, Live
  <2>9. SessionInv' /\ BytesInv'
    BY <1>4, <2>2 DEF SessionInv, BytesInv, Live, Increasing
  <2> QED BY <2>6, <2>7, <2>8, <2>9 DEF Inv
<1>5. CASE /\ t' = [tls_reset_after_term(t) EXCEPT !.server = server]
           /\ UNCHANGED <<tcp, view, opens, recvd, wire, taken>>
  <2> DEFINE r == tls_reset_after_term(t)
  <2>1. /\ r \in Conn /\ r.ssl = NoSsl /\ r.pending = <<>>
        /\ r.established = FALSE /\ r.handshake_done = FALSE
        /\ r.closed_notified = FALSE /\ r.destroyed = FALSE
    BY <1>2, <1>3, ResetOnly
  <2>2. t' = [r EXCEPT !.server = server]
    BY <1>5
  <2> HIDE DEF r
  <2>3. t' \in Conn
    BY <2>1, <2>2 DEF Conn
  <2>4. /\ t'.ssl = NoSsl /\ t'.pending = <<>>
    BY <2>1, <2>2 DEF Conn
  <2>5. t'.established = FALSE /\ t'.handshake_done = FALSE
    BY <2>1, <2>2 DEF Conn
  <2>6. t'.closed_notified = FALSE /\ t'.destroyed = FALSE
    BY <2>1, <2>2 DEF Conn
  <2>7. TypeOK'
    BY <1>1, <1>3, <1>5, <2>3 DEF Inv, TypeOK
  <2>8. Relation'
    BY <1>1, <1>2, <1>5, <2>4, <2>5, <2>6 DEF Relation, Live
  <2>9. Shape'
    BY <1>1, <1>3, <2>4 DEF Shape, DeadShape, Live
  <2>10. SessionInv' /\ BytesInv'
    BY <1>1, <1>5, <2>4 DEF SessionInv, BytesInv, Live, Inv
  <2> QED BY <2>7, <2>8, <2>9, <2>10 DEF Inv
<1> QED BY <1>4, <1>5 DEF Establish

LEMMA InvWrite == ASSUME Inv, sevent_tls_conn_write PROVE Inv'
<1>1. /\ frames # <<>> => Top.fn = "cb"
      /\ t.handshake_done /\ ~Gone /\ t.pending = <<>>
      /\ UNCHANGED <<t, tcp, life, view, opens, recvd, wire, taken>>
  BY DEF sevent_tls_conn_write, UserTurn
<1>2. PICK n \in 1 .. 2 :
        /\ byte + n <= MaxByte /\ byte' = byte + n
        /\ LET data == [i \in 1 .. n |-> byte + i]
           IN frames' = <<F("write", "loop", [left |-> data, all |-> data])>> \o frames
  BY DEF sevent_tls_conn_write
<1>3. Live /\ view = "open"
  BY <1>1 DEF Gone, Live, Inv, Relation
<1>4. AllWait(frames) /\ frames \in Seq(Frame) /\ t \in Conn /\ t.ssl \in Session
  BY <1>1, <1>3, UserWaits, Alive DEF Inv, TypeOK
<1>5. Ordered(wire, <<>>, byte) /\ taken \subseteq ToSet(wire)
  BY <1>1, <1>3, <1>4, Idle, Empty
<1>6. wire \in Bytes /\ byte \in Nat /\ MaxByte \in Nat /\ recvd' \in 0 .. MaxRecv /\ taken \subseteq 1 .. MaxByte
  BY <1>1, TlsAssumption DEF Inv, TypeOK
<1> DEFINE data == [i \in 1 .. n |-> byte + i]
           p == [left |-> data, all |-> data]
           f == F("write", "loop", p)
<1>7. data \in Bytes /\ Ordered(wire, data, byte + n)
  BY <1>2, <1>5, <1>6, Added
<1>8. frames' = <<f>> \o frames
  BY <1>2
<1> HIDE DEF data
<1>9. p \in Plaintext /\ p.left = data /\ p.all = data
  BY <1>7 DEF Plaintext
<1> HIDE DEF p
<1>10. f \in Frame /\ f.fn = "write" /\ f.at = "loop" /\ f.sc = 0 /\ f.val = p
  BY <1>9, Made
<1> HIDE DEF f
<1>11. /\ frames' \in Seq(Frame) /\ frames' # <<>> /\ Head(frames') = f /\ Tail(frames') = frames
       /\ ToSet(frames') = ToSet(frames) \cup {f}
  BY <1>4, <1>8, <1>10, Pushed
<1>12. f.sc # -1 /\ f.sc # 1
  BY <1>10, ReturnCodes
<1>13. LiveShape(view, frames') /\ SameFlags
  BY <1>1, <1>3, <1>4, <1>10, <1>11, <1>12 DEF LiveShape, Works, SameFlags
<1>14. byte' \in 0 .. MaxByte
  BY <1>2, <1>6
<1>15. TypeOK' /\ Relation' /\ Shape' /\ Live'
  BY <1>1, <1>3, <1>4, <1>6, <1>11, <1>13, <1>14, LiveStep
<1>16. SessionInv'
  <2>1. SessionInv
    BY DEF Inv
  <2>2. Reading(frames) => Reading(frames')
    BY <1>11 DEF Reading
  <2>3. tcp = "OPEN" => t.ssl.out = 0 /\ \A g \in ToSet(frames') : g.sc # 1
    BY <1>1, <1>3, <1>11, <1>12, <2>1 DEF SessionInv
  <2>4. tcp = "IDLE" => t.ssl.closed /\ \A g \in ToSet(frames') : g.fn # "flush"
    BY <1>3, <1>10, <1>11, <2>1 DEF SessionInv
  <2> QED BY <1>1, <1>3, <2>1, <2>2, <2>3, <2>4 DEF SessionInv
<1>17. BytesInv'
  <2>1. Working(frames') = f
    BY <1>10, <1>11 DEF Working
  <2>2. Writes(frames') /\ ~Flushes(frames') /\ Rest(t', frames') = data
    BY <1>9, <1>10, <1>11, <2>1 DEF Writes, Flushes, Rest
  <2>3. Increasing(wire)
    BY DEF Inv, BytesInv
  <2>4. ToSet(Working(frames').val.all) \subseteq ToSet(wire') \cup ToSet(Working(frames').val.left)
    BY <1>9, <1>10, <2>1
  <2> QED BY <1>1, <1>2, <1>3, <1>5, <1>7, <2>2, <2>3, <2>4 DEF BytesInv
<1> QED BY <1>15, <1>16, <1>17 DEF Inv

\* What a user may close from is over with the connection, as long as he does not do it
\* in the on_error of a failed write.
LEMMA CloseLeaves ==
  ASSUME NestedClose = FALSE, Inv, MayClose
  PROVE  AllOver(frames) /\ frames \in Seq(Frame) /\ t \in Conn
<1>1. /\ frames # <<>> => Top.fn = "cb"
      /\ \A i \in DOMAIN frames : frames[i].at # "failed"
  BY DEF MayClose, UserTurn
<1>2. frames \in Seq(Frame) /\ t \in Conn
  BY DEF Inv, TypeOK
<1>3. \A f \in ToSet(frames) : f.at # "failed"
  BY <1>1 DEF ToSet
<1>4. CASE Live
  BY <1>1, <1>2, <1>4, UserWaits, AllWaiting
<1>5. CASE ~Live
  <2>1. ~Fails(frames)
    BY <1>1 DEF Fails, Top
  <2>2. ~FailTold(frames)
    <3>1. SUFFICES ASSUME FailTold(frames) PROVE FALSE
      OBVIOUS
    <3>2. frames # <<>> /\ Tail(frames) # <<>> /\ Head(Tail(frames)).at = "failed"
      BY <3>1 DEF FailTold, Fails
    <3>3. Tail(frames) \in Seq(Frame) /\ ToSet(Tail(frames)) \subseteq ToSet(frames)
      BY <1>2, <3>2, Popped
    <3>4. Head(Tail(frames)) \in ToSet(Tail(frames))
      BY <3>2, <3>3, Popped
    <3> QED BY <1>3, <3>2, <3>3, <3>4
  <2> QED BY <1>2, <1>5, <2>1, <2>2 DEF Inv, Shape, DeadShape
<1> QED BY <1>2, <1>4, <1>5

\* The object is reset and the TCP connection closed, with the stack as it is.
LEMMA Closed ==
  ASSUME Inv, AllOver(frames), UNCHANGED <<frames, history>>, tcp' = "IDLE", view' = "none",
         t' \in Conn, t'.ssl = NoSsl, t'.pending = <<>>, t'.established = FALSE,
         t'.handshake_done = FALSE, t'.closed_notified = FALSE, life' \in {"live", "posted", "tcp", "freed"}
  PROVE  Inv'
<1>1. TypeOK'
  BY DEF Inv, TypeOK, history
<1>2. Relation'
  BY DEF Relation, Live
<1>3. Shape'
  BY DEF Shape, DeadShape, Live
<1>4. SessionInv' /\ BytesInv'
  BY DEF SessionInv, BytesInv, Live, Inv, history
<1> QED BY <1>1, <1>2, <1>3, <1>4 DEF Inv

LEMMA InvClose == ASSUME NestedClose = FALSE, Inv, sevent_tls_conn_close PROVE Inv'
<1>1. AllOver(frames) /\ t \in Conn
  BY CloseLeaves DEF sevent_tls_conn_close
<1>2. /\ t' \in Conn /\ t'.ssl = NoSsl /\ t'.pending = <<>>
      /\ t'.established = FALSE /\ t'.handshake_done = FALSE
      /\ t'.closed_notified = FALSE
  BY <1>1, ResetOnly DEF sevent_tls_conn_close
<1>3. life' \in {"live", "posted", "tcp", "freed"}
  BY DEF sevent_tls_conn_close, Inv, TypeOK
<1> QED BY <1>1, <1>2, <1>3, Closed DEF sevent_tls_conn_close

LEMMA InvDestroy == ASSUME NestedClose = FALSE, Inv, sevent_tls_conn_destroy PROVE Inv'
<1>1. AllOver(frames) /\ t \in Conn
  BY CloseLeaves DEF sevent_tls_conn_destroy
<1> DEFINE r == tls_reset_after_term(t)
<1>2. /\ r \in Conn /\ r.ssl = NoSsl /\ r.pending = <<>>
      /\ r.established = FALSE /\ r.handshake_done = FALSE
      /\ r.closed_notified = FALSE
  BY <1>1, ResetOnly
<1>3. t' = [r EXCEPT !.destroyed = TRUE]
  BY DEF sevent_tls_conn_destroy
<1> HIDE DEF r
<1>4. t' \in Conn
  BY <1>2, <1>3 DEF Conn
<1>5. t'.ssl = NoSsl /\ t'.pending = <<>>
  BY <1>2, <1>3 DEF Conn
<1>6. t'.established = FALSE /\ t'.handshake_done = FALSE
  BY <1>2, <1>3 DEF Conn
<1>7. t'.closed_notified = FALSE
  BY <1>2, <1>3 DEF Conn
<1> QED BY <1>1, <1>4, <1>5, <1>6, <1>7, Closed DEF sevent_tls_conn_destroy

LEMMA InvCleanup == ASSUME Inv, tls_cleanup PROVE Inv'
<1>1. /\ UNCHANGED <<t, tcp, frames, view, opens, recvd, byte, wire, taken>>
      /\ life' \in {"live", "posted", "tcp", "freed"}
  BY DEF tls_cleanup, history
<1>2. TypeOK'
  BY <1>1 DEF Inv, TypeOK
<1>3. Relation' /\ (Live' <=> Live)
  BY <1>1 DEF Inv, Relation, Live
<1>4. Shape'
  BY <1>1, <1>3 DEF Inv, Shape
<1>5. SessionInv'
  BY <1>1, <1>3 DEF Inv, SessionInv, Top
<1>6. BytesInv'
  BY <1>1, <1>3 DEF Inv, BytesInv
<1> QED BY <1>2, <1>3, <1>4, <1>5, <1>6 DEF Inv

LEMMA InvCallbackReturn == ASSUME Inv, callback_return PROVE Inv'
<1>1. /\ frames # <<>> /\ Top.fn = "cb" /\ frames' = Below
      /\ UNCHANGED <<t, tcp, life, view, history>> /\ UNCHANGED <<opens, recvd, byte, wire, taken>>
  BY DEF callback_return, history
<1>2. Below \in Seq(Frame) /\ frames \in Seq(Frame) /\ t \in Conn /\ taken' \subseteq 1 .. MaxByte
  BY <1>1, Popped DEF Inv, TypeOK, Below
<1>3. CASE Live
  <2>1. AllWait(frames) /\ view = "open" /\ t.ssl \in Session
    BY <1>1, <1>3, UserWaits, Alive
  <2>2. AllWait(Below) /\ ~Reads(Top) /\ SameFlags
    BY <1>1, <1>2, <2>1, Popped DEF Below, Reads, SameFlags
  <2>3. Ordered(wire, t.pending, byte) /\ taken \subseteq ToSet(wire) \cup ToSet(t.pending)
    BY <1>3, <2>1, Idle
  <2> QED BY <1>1, <1>2, <1>3, <2>1, <2>2, <2>3, LiveBack
<1>4. CASE ~Live /\ AllOver(frames)
  BY <1>1, <1>4, DeadPop
<1>5. CASE ~Live /\ ~AllOver(frames)
  <2>1. t.closed_notified /\ tcp = "IDLE" /\ Fails(Below)
    BY <1>1, <1>5 DEF Inv, Shape, DeadShape, Fails, FailTold, Top, Below
  <2>2. TypeOK'
    BY <1>1, <1>2 DEF Inv, TypeOK
  <2>3. Relation' /\ ~Live'
    BY <1>1, <1>5 DEF Inv, Relation, Live
  <2>4. Shape'
    BY <1>1, <2>1, <2>3 DEF Shape, DeadShape
  <2>5. SessionInv' /\ BytesInv'
    BY <1>1, <2>3 DEF SessionInv, BytesInv, Inv
  <2> QED BY <2>2, <2>3, <2>4, <2>5 DEF Inv
<1> QED BY <1>3, <1>4, <1>5

-----------------------------------------------------------------------------
(* The theorems.  They are about a user who closes a connection that has     *)
(* ended before he opens it again and does not close it in the on_error of a *)
(* failed write, and a loop that always finds a handle: the settings of the  *)
(* run of TlsConn.                                                           *)

LEMMA InvInit == ASSUME Init PROVE Inv
<1>1. PICK ctx \in Contexts :
        t = [ctx |-> ctx, server |-> FALSE, established |-> FALSE, handshake_done |-> FALSE,
             closed_notified |-> FALSE, destroyed |-> FALSE, ssl |-> NoSsl, pending |-> <<>>]
  BY DEF Init
<1>2. /\ tcp = "IDLE" /\ frames = <<>> /\ life = "live" /\ view = "none"
      /\ opens = 0 /\ recvd = 0 /\ byte = 0 /\ wire = <<>> /\ taken = {}
  BY DEF Init
<1>3. t \in Conn
  <2>1. <<>> \in Bytes /\ NoSsl \in Session \cup {NoSsl}
    BY DEF Bytes
  <2> QED BY <1>1, <2>1 DEF Conn
<1>4. t.ssl = NoSsl /\ t.pending = <<>>
  BY <1>1
<1>5. ~t.established /\ ~t.handshake_done /\ ~t.closed_notified /\ ~t.destroyed
  BY <1>1
<1>6. TypeOK
  <2>1. opens \in 0 .. MaxOpen /\ recvd \in 0 .. MaxRecv /\ byte \in 0 .. MaxByte
    BY <1>2, TlsAssumption
  <2> QED BY <1>2, <1>3, <2>1, Empty DEF TypeOK, Bytes
<1>7. Relation
  BY <1>2, <1>4, <1>5 DEF Relation, Live
<1>8. Shape
  BY <1>2, <1>4, Empty DEF Shape, DeadShape, Live
<1>9. SessionInv /\ BytesInv
  BY <1>2, <1>4 DEF SessionInv, BytesInv, Live, Increasing
<1> QED BY <1>6, <1>7, <1>8, <1>9 DEF Inv

LEMMA InvStep ==
  ASSUME Reopens = FALSE, RegFails = FALSE, NestedClose = FALSE, Inv, Received, [Next]_vars
  PROVE  Inv'
<1>1. CASE Library
  BY <1>1, InvSendDone, InvSendWrite, InvSendFailed, InvReadLoop, InvReadSent, InvPumpLoop, InvPumpSent,
     InvFlushPending, InvFlushLoop, InvFlushSent, InvWriteLoop, InvWriteSent DEF Library
<1>2. CASE Tcp
  BY <1>2, InvCbOpen, InvCbData, InvCbClose, InvCbError DEF Tcp
<1>3. CASE User
  BY <1>3, InvEstablish, InvWrite, InvClose, InvDestroy
     DEF User, sevent_tls_conn_open, sevent_tls_conn_accept
<1>4. CASE tls_cleanup \/ callback_return
  BY <1>4, InvCleanup, InvCallbackReturn
<1>5. CASE UNCHANGED vars
  <2>1. recvd' \in 0 .. MaxRecv
    BY <1>5 DEF Inv, TypeOK, vars, history
  <2> QED BY <1>5, <2>1, Counted DEF vars, history
<1> QED BY <1>1, <1>2, <1>3, <1>4, <1>5 DEF Next

\* A step that adds nothing to what has been received.
LEMMA ReceivedLess ==
  ASSUME Inv, Received, Inv', t'.ssl # NoSsl => Live /\ Len(t'.ssl.in) <= Len(t.ssl.in),
         tcp' = tcp \/ t'.ssl = NoSsl
  PROVE  Received'
<1>1. CASE t'.ssl = NoSsl
  BY <1>1 DEF Received, Live
<1>2. CASE t'.ssl # NoSsl
  <2>1. t.ssl \in Session /\ t'.ssl \in Session
    BY <1>2 DEF Inv, TypeOK, Conn, Live
  <2>2. /\ Len(t.ssl.in) \in Nat /\ Len(t'.ssl.in) \in Nat /\ FeedCap \in Nat
        /\ t.ssl.in \in Seq(Records) /\ t'.ssl.in \in Seq(Records)
    BY <2>1, SslAssumption, SMTT(30) DEF Session
  <2>3. Len(t.ssl.in) <= FeedCap /\ (Sized /\ tcp = "IDLE" => Len(t.ssl.in) = 0)
    BY <1>2 DEF Received
  <2>4. Len(t'.ssl.in) <= FeedCap /\ (Sized /\ tcp' = "IDLE" => Len(t'.ssl.in) = 0)
    BY <1>2, <2>2, <2>3
  <2>5. Sized /\ tcp' = "IDLE" => t'.ssl.in = <<>>
    BY <2>2, <2>4, EmptySeq
  <2> QED BY <2>4, <2>5 DEF Received
<1> QED BY <1>1, <1>2

\* tls_fail leaves no session.
LEMMA FailGone ==
  ASSUME NEW c \in Conn, NEW below, tls_fail(c, below)
  PROVE  t'.ssl = NoSsl
BY Reset, ResetOnly, ZenonT(60) DEF tls_fail

\* Received is kept: records are added by tcp_cb_data alone, and only if they fit, and
\* the channel goes down in the event loop, when all that had come has been read.
LEMMA ReceivedStep ==
  ASSUME Reopens = FALSE, RegFails = FALSE, NestedClose = FALSE, Inv, Received, [Next]_vars
  PROVE  Received'
<1>1. Inv' /\ t \in Conn
  BY InvStep DEF Inv, TypeOK
<1>2. Live => t.ssl \in Session /\ Len(t.ssl.in) \in Nat
  BY Alive DEF Session
<1>3. CASE t'.ssl = t.ssl /\ tcp' = tcp
  BY <1>1, <1>2, <1>3, ReceivedLess DEF Live
<1>4. CASE t'.ssl = NoSsl
  BY <1>4 DEF Received, Live
<1>5. CASE send_done \/ pump_sent \/ tls_flush_pending \/ flush_sent \/ write_sent \/ tls_cleanup
           \/ callback_return \/ sevent_tls_conn_write \/ UNCHANGED vars
  <2>1. tcp' = tcp
    BY <1>5 DEF send_done, pump_sent, tls_flush_pending, flush_sent, write_sent, tls_cleanup,
                callback_return, sevent_tls_conn_write, vars
  <2>2. CASE ~pump_sent /\ ~flush_sent
    BY <1>3, <1>5, <2>1, <2>2 DEF send_done, tls_flush_pending, write_sent, tls_cleanup,
                                  callback_return, sevent_tls_conn_write, vars
  <2>3. CASE flush_sent
    <3>1. t' = t \/ t' = [t EXCEPT !.pending = <<>>]
      BY <2>3 DEF flush_sent, flush_end
    <3>2. t'.ssl = t.ssl
      BY <1>1, <3>1 DEF Conn
    <3> QED BY <1>3, <2>1, <3>2
  <2>4. CASE pump_sent
    <3>1. t' = t \/ t' = [t EXCEPT !.handshake_done = TRUE] \/ tls_fail(t, Below)
      BY <2>4 DEF pump_sent
    <3>2. t'.ssl = t.ssl \/ t'.ssl = NoSsl
      BY <1>1, <3>1, WithDone, FailGone
    <3> QED BY <1>3, <1>4, <2>1, <3>2
  <2> QED BY <2>2, <2>3, <2>4
<1>6. CASE send_write
  <2>1. t.ssl # NoSsl /\ t.ssl.out > 0
    BY <1>6 DEF send_write
  <2> DEFINE w == ossl_drain(t.ssl)
             drained == [t EXCEPT !.ssl = w]
  <2>2. w \in Session /\ w.in = t.ssl.in
    BY <1>2, <2>1, DrainKeeps DEF Live
  <2>3. \/ tcp' = tcp /\ t' = drained
        \/ \E below : tls_fail(drained, below)
    BY <1>6 DEF send_write, tcp_conn_write
  <2> HIDE DEF w
  <2>4. drained \in Conn /\ drained.ssl = w
    BY <1>1, <2>2, WithSsl
  <2> HIDE DEF drained
  <2>5. CASE tcp' = tcp /\ t' = drained
    BY <1>1, <1>2, <2>1, <2>2, <2>4, <2>5, ReceivedLess DEF Live
  <2>6. CASE \E below : tls_fail(drained, below)
    BY <1>4, <2>4, <2>6, FailGone
  <2> QED BY <2>3, <2>5, <2>6
<1>7. CASE send_failed
  BY <1>1, <1>4, <1>7, FailGone DEF send_failed
<1>8. CASE read_loop
  <2>1. tcp' = tcp /\ (t' = t \/ (~Gone /\ \E res \in ossl_read(t.ssl) : t' = [t EXCEPT !.ssl = res.s]))
    BY <1>8 DEF read_loop
  <2>2. CASE t' = t
    BY <1>3, <2>1, <2>2
  <2>3. ASSUME ~Gone, NEW res \in ossl_read(t.ssl), t' = [t EXCEPT !.ssl = res.s] PROVE Received'
    <3>1. Live
      BY <2>3 DEF Gone, Live
    <3>2. res.s \in Session /\ Len(res.s.in) <= Len(t.ssl.in)
      BY <1>2, <3>1, ReadKeeps
    <3>3. t'.ssl = res.s
      BY <1>1, <2>3, <3>2, WithSsl
    <3> QED BY <1>1, <2>1, <3>1, <3>2, <3>3, ReceivedLess
  <2> QED BY <2>1, <2>2, <2>3
<1>9. CASE read_sent
  <2>1. tcp' = tcp /\ (t' = t \/ tls_notify_close(t, Below) \/ tls_fail(t, Below))
    BY <1>9 DEF read_sent
  <2>2. t'.ssl = t.ssl \/ t'.ssl = NoSsl
    BY <1>1, <2>1, FailGone, Reset DEF tls_notify_close
  <2> QED BY <1>3, <1>4, <2>1, <2>2
<1>10. CASE pump_loop
  <2>1. tcp' = tcp /\ (t' = t \/ (~Gone /\ t' = [t EXCEPT !.ssl = ossl_handshake(t.ssl).s]))
    BY <1>10 DEF pump_loop
  <2>2. CASE t' = t
    BY <1>3, <2>1, <2>2
  <2>3. CASE ~Gone /\ t' = [t EXCEPT !.ssl = ossl_handshake(t.ssl).s]
    <3>1. Live
      BY <2>3 DEF Gone, Live
    <3> DEFINE w == ossl_handshake(t.ssl).s
    <3>2. w \in Session /\ Len(w.in) <= Len(t.ssl.in)
      BY <1>2, <3>1, HandshakeKeeps
    <3> HIDE DEF w
    <3>3. t'.ssl = w
      BY <1>1, <2>3, <3>2, WithSsl DEF w
    <3> QED BY <1>1, <2>1, <3>1, <3>2, <3>3, ReceivedLess
  <2> QED BY <2>1, <2>2, <2>3
<1>11. ASSUME Live, NEW v \in Bytes, NEW res \in ossl_write(t.ssl, Len(v)), tcp' = tcp,
              t' = [t EXCEPT !.ssl = res.s] \/ t' = tls_park_write([t EXCEPT !.ssl = res.s], v)
       PROVE  Received'
  <2>1. Len(v) \in Nat
    BY <1>11, LenProperties DEF Bytes
  <2>2. res.s \in Session /\ res.s.in = t.ssl.in
    BY <1>2, <1>11, <2>1, WriteKeeps
  <2> DEFINE u == [t EXCEPT !.ssl = res.s]
  <2>3. u \in Conn /\ u.ssl = res.s
    BY <1>1, <2>2, WithSsl
  <2>4. t' = u \/ t' = [u EXCEPT !.pending = v]
    BY <1>11 DEF tls_park_write
  <2> HIDE DEF u
  <2>5. t'.ssl = res.s
    BY <2>3, <2>4 DEF Conn
  <2> QED BY <1>1, <1>2, <1>11, <2>2, <2>5, ReceivedLess
<1>12. CASE flush_loop
  <2>1. frames # <<>> /\ Top.fn = "flush" /\ Top.at = "loop" /\ tcp' = tcp
    BY <1>12 DEF flush_loop, On
  <2>2. Live /\ Top.val \in Bytes
    BY <2>1, TopLoop, FlushHolds
  <2>3. \/ t' = [t EXCEPT !.pending = <<>>] \/ tls_fail(t, Below)
        \/ \E res \in ossl_write(t.ssl, Len(Top.val)) : t' = [t EXCEPT !.ssl = res.s]
    BY <1>12 DEF flush_loop, flush_end
  <2>4. CASE t' = [t EXCEPT !.pending = <<>>] \/ tls_fail(t, Below)
    <3>1. t'.ssl = t.ssl \/ t'.ssl = NoSsl
      BY <1>1, <2>4, FailGone DEF Conn
    <3> QED BY <1>3, <1>4, <2>1, <3>1
  <2> QED BY <1>11, <2>1, <2>2, <2>3, <2>4
<1>13. CASE write_loop
  <2>1. frames # <<>> /\ Top.fn = "write" /\ Top.at = "loop" /\ tcp' = tcp
    BY <1>13 DEF write_loop, On
  <2>2. Live /\ Top.val.left \in Bytes
    BY <2>1, TopLoop, WriteHolds
  <2>3. \/ t' = t \/ tls_fail(t, Below)
        \/ \E res \in ossl_write(t.ssl, Len(Top.val.left)) :
             \/ t' = [t EXCEPT !.ssl = res.s]
             \/ t' = tls_park_write([t EXCEPT !.ssl = res.s], Top.val.left)
    BY <1>13 DEF write_loop
  <2>4. CASE t' = t \/ tls_fail(t, Below)
    <3>1. t'.ssl = t.ssl \/ t'.ssl = NoSsl
      BY <1>1, <2>4, FailGone
    <3> QED BY <1>3, <1>4, <2>1, <3>1
  <2> QED BY <1>11, <2>1, <2>2, <2>3, <2>4
<1>14. CASE tcp_cb_open
  <2>1. tcp' = "OPEN" /\ t.ssl = NoSsl
    BY <1>14, Alive DEF tcp_cb_open, Live
  <2>2. t' = t \/ t' = [t EXCEPT !.ssl = ossl_ssl_new] \/ tls_fail(t, <<>>)
    BY <1>14 DEF tcp_cb_open
  <2>3. CASE t' = t \/ tls_fail(t, <<>>)
    BY <1>1, <1>4, <2>1, <2>3, FailGone
  <2>4. CASE t' = [t EXCEPT !.ssl = ossl_ssl_new]
    <3>1. t'.ssl = ossl_ssl_new
      BY <1>1, <2>4, NewSession, WithSsl
    <3>2. t'.ssl.in = <<>> /\ Len(<<>>) <= FeedCap
      BY <3>1, SslAssumption DEF ossl_ssl_new
    <3> QED BY <3>2 DEF Received
  <2> QED BY <2>2, <2>3, <2>4
<1>15. CASE tcp_cb_data
  <2>1. tcp = "OPEN" /\ tcp' = tcp
    BY <1>15 DEF tcp_cb_data
  <2>2. PICK data \in UNION {[1 .. n -> Records] : n \in 1 .. MaxChunk} :
          \/ t' = t \/ tls_fail(t, <<>>)
          \/ ~Gone /\ FeedFits(t.ssl, data) /\ t' = [t EXCEPT !.ssl = ossl_feed(t.ssl, data)]
    BY <1>15 DEF tcp_cb_data
  <2>3. CASE t' = t \/ tls_fail(t, <<>>)
    BY <1>1, <1>3, <1>4, <2>1, <2>3, FailGone
  <2>4. CASE ~Gone /\ FeedFits(t.ssl, data) /\ t' = [t EXCEPT !.ssl = ossl_feed(t.ssl, data)]
    <3>1. data \in Seq(Records) /\ Len(data) \in Nat
      <4>1. PICK n \in 1 .. MaxChunk : data \in [1 .. n -> Records]
        OBVIOUS
      <4>2. n \in Nat
        BY TlsAssumption
      <4>3. data \in Seq(Records)
        BY <4>1, <4>2
      <4> QED BY <4>3, LenProperties
    <3> DEFINE w == ossl_feed(t.ssl, data)
    <3>2. t.ssl \in Session /\ w \in Session
      BY <1>2, <2>4, <3>1, FeedKeeps DEF Gone, Live
    <3>3. w.in = t.ssl.in \o data /\ t.ssl.in \in Seq(Records)
      BY <3>2 DEF ossl_feed, Session
    <3> HIDE DEF w
    <3>4. Len(w.in) <= FeedCap
      BY <2>4, <3>1, <3>3 DEF FeedFits
    <3>5. t'.ssl = w
      BY <1>1, <2>4, <3>2, WithSsl DEF w
    <3> QED BY <2>1, <3>4, <3>5 DEF Received
  <2> QED BY <2>2, <2>3, <2>4
<1>16. CASE tcp_cb_close
  <2>1. /\ tcp' = "IDLE" /\ frames = <<>>
        /\ \/ (t' = t /\ t.destroyed) \/ tls_fail(t, <<>>)
           \/ t.handshake_done /\ t' = [t EXCEPT !.ssl = ossl_peer_close(t.ssl)]
    BY <1>16 DEF tcp_cb_close, FromLoop
  <2>2. CASE (t' = t /\ t.destroyed) \/ tls_fail(t, <<>>)
    BY <1>1, <1>4, <2>2, Alive, FailGone DEF Live
  <2>3. CASE t.handshake_done /\ t' = [t EXCEPT !.ssl = ossl_peer_close(t.ssl)]
    <3>1. view = "open" /\ Live
      BY <2>3 DEF Inv, Relation
    <3>2. ~Reading(frames)
      BY <2>1, Empty DEF Reading
    <3>3. Sized => t.ssl.in = <<>>
      BY <3>1, <3>2 DEF Inv, SessionInv
    <3> DEFINE w == ossl_peer_close(t.ssl)
    <3>4. w \in Session /\ w.in = t.ssl.in
      BY <1>2, <3>1 DEF ossl_peer_close, Session
    <3> HIDE DEF w
    <3>5. t'.ssl = w
      BY <1>1, <2>3, <3>4, WithSsl DEF w
    <3> QED BY <3>1, <3>3, <3>4, <3>5 DEF Received
  <2> QED BY <2>1, <2>2, <2>3
<1>17. CASE tcp_cb_error
  <2>1. (t' = t /\ t.destroyed) \/ tls_fail(t, <<>>)
    BY <1>17 DEF tcp_cb_error
  <2> QED BY <1>1, <1>4, <2>1, Alive, FailGone DEF Live
<1>18. CASE Establish(TRUE) \/ Establish(FALSE)
  <2>1. PICK server \in BOOLEAN : Establish(server)
    BY <1>18
  <2>2. ~t.established
    BY <2>1 DEF Establish
  <2>3. t.ssl = NoSsl
    BY <2>2 DEF Inv, Relation, Live
  <2>4. \/ t' = [t EXCEPT !.server = server, !.established = TRUE]
        \/ t' = [tls_reset_after_term(t) EXCEPT !.server = server]
    BY <2>1 DEF Establish
  <2> DEFINE r == tls_reset_after_term(t)
  <2>5. r \in Conn /\ r.ssl = NoSsl
    BY <1>1, ResetOnly
  <2> HIDE DEF r
  <2>6. t'.ssl = NoSsl
    BY <1>1, <2>3, <2>4, <2>5 DEF r, Conn
  <2> QED BY <1>4, <2>6
<1>19. CASE sevent_tls_conn_close \/ sevent_tls_conn_destroy
  <2> DEFINE r == tls_reset_after_term(t)
  <2>1. r \in Conn /\ r.ssl = NoSsl
    BY <1>1, ResetOnly
  <2>2. t' = r \/ t' = [r EXCEPT !.destroyed = TRUE]
    BY <1>19 DEF sevent_tls_conn_close, sevent_tls_conn_destroy
  <2> HIDE DEF r
  <2>3. t'.ssl = NoSsl
    BY <2>1, <2>2 DEF Conn
  <2> QED BY <1>4, <2>3
<1> QED BY <1>5, <1>6, <1>7, <1>8, <1>9, <1>10, <1>12, <1>13, <1>14, <1>15, <1>16, <1>17, <1>18, <1>19
        DEF Next, Library, Tcp, User, sevent_tls_conn_open, sevent_tls_conn_accept

\* The inductive invariant holds, whatever the sizes of the session's buffers, the
\* chunks that arrive, the bytes that are written and the depth of the nesting.
THEOREM InvHolds ==
  ASSUME Reopens = FALSE, RegFails = FALSE, NestedClose = FALSE
  PROVE  Spec => [](Inv /\ Received)
<1>1. Init => Inv /\ Received
  <2>1. Init => t.ssl = NoSsl
    BY DEF Init
  <2> QED BY <2>1, InvInit DEF Received, Live
<1>2. Inv /\ Received /\ [Next]_vars => (Inv /\ Received)'
  BY InvStep, ReceivedStep
<1> QED BY <1>1, <1>2, PTL DEF Spec

\* The fields of struct tls_conn and the frames of the loop thread keep their types.
THEOREM TypeCorrect ==
  ASSUME Reopens = FALSE, RegFails = FALSE, NestedClose = FALSE
  PROVE  Spec => []TypeOK
<1>1. Inv => TypeOK
  BY DEF Inv
<1> QED BY <1>1, InvHolds, PTL

\* The user's callbacks come in order, and nothing after the end: the flags of struct
\* tls_conn follow what has been told, and no frame left on the stack tells more.
THEOREM NotificationOrderHolds ==
  ASSUME Reopens = FALSE, RegFails = FALSE, NestedClose = FALSE
  PROVE  Spec => []NotificationOrder
<1>1. Inv => NotificationOrder
  BY DEF Inv, Relation, NotificationOrder
<1> QED BY <1>1, InvHolds, PTL

\* The user learns of the end of every connection he has not closed himself: a session
\* whose channel is down is read until on_close or on_error. No read on the way has to
\* wait: the end of the channel is no wait, and pair buffers of one size have room for
\* the answers to all that has come.
THEOREM EndToldHolds ==
  ASSUME Reopens = FALSE, RegFails = FALSE, NestedClose = FALSE, Sized
  PROVE  Spec => []EndTold
<1>1. Inv => EndTold
  <2>1. SUFFICES ASSUME Inv, frames = <<>>, tcp = "IDLE" PROVE view \notin {"opening", "open"}
    BY DEF EndTold
  <2>2. view # "opening"
    BY <2>1 DEF Inv, Relation
  <2>3. ~Reading(frames)
    BY <2>1, Empty DEF Reading
  <2>4. view # "open"
    BY <2>1, <2>3 DEF Inv, Relation, SessionInv
  <2> QED BY <2>2, <2>4
<1> QED BY <1>1, InvHolds, PTL

\* Back in the event loop, with the channel up, the session holds neither plaintext
\* nor records to send, for pair buffers of one size: a read that found no room for an
\* answer would leave the records behind it, tls_read_plain does not go on after it.
THEOREM NothingStuckHolds ==
  ASSUME Reopens = FALSE, RegFails = FALSE, NestedClose = FALSE, Sized
  PROVE  Spec => []NothingStuck
<1>1. Inv => NothingStuck
  <2>1. SUFFICES ASSUME Inv, frames = <<>>, tcp = "OPEN", Live
                 PROVE  t.ssl.out = 0 /\ (t.handshake_done => t.ssl.in = <<>>)
    BY DEF NothingStuck, Live
  <2>2. ~Reading(frames)
    BY <2>1, Empty DEF Reading
  <2> QED BY <2>1, <2>2 DEF Inv, Relation, SessionInv
<1> QED BY <1>1, InvHolds, PTL

\* Bytes reach the session in the order of the writes, and a write that has returned 0
\* is in the session or parked as long as the session lives.
THEOREM WriteOrderHolds ==
  ASSUME Reopens = FALSE, RegFails = FALSE, NestedClose = FALSE
  PROVE  Spec => []WriteOrder
<1>1. Inv => WriteOrder
  BY DEF Inv, BytesInv, WriteOrder, Increasing, Live
<1> QED BY <1>1, InvHolds, PTL

-----------------------------------------------------------------------------
(***************************************************************************)
(* TcpAcceptor, for any threads, descriptors and bounds.                   *)
(***************************************************************************)

\* destroy is one thread's, once; from its mark to its close it is the only
\* one that may still find the listening socket open.
DestroyInv ==
  /\ \A th \in Thread : dpos[th] # "out" => acc.destroyed /\ acc_life = "live"
  /\ \A th, u \in Thread : dpos[th] # "out" /\ dpos[u] # "out" => th = u
  /\ acc.destroyed /\ acc.fd # None => \E th \in Thread : dpos[th] = "close"
  /\ acc_life # "live" => acc.destroyed
  /\ acc_life = "freed" => loop = "rest"

\* The object's descriptor is the only listening one, and its callback is the
\* one that was given with that socket.
SocketInv ==
  /\ \A f \in Fd : open[f][1] = "listen" <=> f = acc.fd
  /\ acc.handle \in {acc.fd, None}
  /\ acc.fd # None => open[acc.fd] = <<"listen", acc.on_accept>>

\* Connections are numbered as they arrive; one is in one queue or handed
\* over, not both, and later ones of a socket have the higher numbers.
ArrivalInv ==
  /\ \A n \in DOMAIN queue : \A i \in DOMAIN queue[n] : queue[n][i] <= conns
  /\ \A n, m \in DOMAIN queue : \A i \in DOMAIN queue[n], j \in DOMAIN queue[m] :
       n # m => queue[n][i] # queue[m][j]
  /\ \A n \in DOMAIN queue : \A i, j \in DOMAIN queue[n] : i < j => queue[n][i] < queue[n][j]
  /\ \A k \in DOMAIN handed :
       /\ handed[k].conn <= conns
       /\ \A n \in DOMAIN queue : \A i \in DOMAIN queue[n] :
            /\ queue[n][i] # handed[k].conn
            /\ handed[k].from = n => handed[k].conn < queue[n][i]

\* The inductive invariant.
AcceptorInv == AcceptorTypeOK /\ DestroyInv /\ SocketInv /\ ArrivalInv /\ HandedRight

-----------------------------------------------------------------------------
\* The acceptor as tcp_acceptor_create leaves it.
LEMMA AcceptorInvInit == AcceptorInit => AcceptorInv
<1> SUFFICES ASSUME AcceptorInit PROVE AcceptorInv
  OBVIOUS
<1>1. acc \in Acceptor /\ Free \in Use
  BY AcceptorAssumption DEF AcceptorInit, Acceptor, Use
<1>2. held \in BOOLEAN /\ open \in [Fd -> Use] /\ dpos \in [Thread -> {"out", "close", "post"}]
  BY <1>1 DEF AcceptorInit
<1>5. AcceptorTypeOK
  BY <1>1, <1>2, AcceptorAssumption DEF AcceptorInit, AcceptorTypeOK
<1>3. DestroyInv /\ SocketInv
  BY AcceptorAssumption DEF AcceptorInit, DestroyInv, SocketInv, Free
<1>4. ArrivalInv /\ HandedRight
  BY DEF AcceptorInit, ArrivalInv, HandedRight
<1> QED BY <1>3, <1>4, <1>5 DEF AcceptorInv

\* Listening sockets are numbered 1 to Len(queue), and a new one has an empty queue.
LEMMA NewQueue ==
  ASSUME AcceptorTypeOK, Len(queue) < MaxListen, queue' = Append(queue, <<>>)
  PROVE  /\ queue' \in Seq(Seq(1 .. MaxConn)) /\ Len(queue') = Len(queue) + 1
         /\ Len(queue') <= MaxListen /\ Len(queue) + 1 \in 1 .. MaxListen
         /\ \A n \in DOMAIN queue' : \A i \in DOMAIN queue'[n] :
              n \in DOMAIN queue /\ i \in DOMAIN queue[n] /\ queue'[n] = queue[n]
<1>1. queue \in Seq(Seq(1 .. MaxConn)) /\ MaxListen \in Nat /\ <<>> \in Seq(1 .. MaxConn)
  BY AcceptorAssumption DEF AcceptorTypeOK
<1>2. /\ queue' \in Seq(Seq(1 .. MaxConn)) /\ Len(queue') = Len(queue) + 1
      /\ \A n \in 1 .. Len(queue) : queue'[n] = queue[n]
      /\ queue'[Len(queue) + 1] = <<>>
  BY <1>1
<1>3. Len(queue') <= MaxListen /\ Len(queue) + 1 \in 1 .. MaxListen
  BY <1>1, <1>2
<1>4. ASSUME NEW n \in DOMAIN queue', NEW i \in DOMAIN queue'[n]
      PROVE  n \in DOMAIN queue /\ i \in DOMAIN queue[n] /\ queue'[n] = queue[n]
  BY <1>1, <1>2, <1>4
<1> QED BY <1>2, <1>3, <1>4

\* Queues that become shorter at the front, or empty, keep the order of arrival.
LEMMA Shorter ==
  ASSUME ArrivalInv, UNCHANGED <<conns, handed>>,
         \A n \in DOMAIN queue' : \A i \in DOMAIN queue'[n] :
           n \in DOMAIN queue /\ i \in DOMAIN queue[n] /\ queue'[n] = queue[n]
  PROVE  ArrivalInv'
BY DEF ArrivalInv

\* listen, also one that fails, adds a socket without connections; the object
\* had none before, so that the socket is the only one that listens.
LEMMA InvListen == ASSUME AcceptorInv, listen \/ listen_fails PROVE AcceptorInv'
<1>1. /\ MayCall(Loop) /\ acc.fd = None /\ Len(queue) < MaxListen
      /\ queue' = Append(queue, <<>>)
      /\ UNCHANGED <<held, loop, dpos, acc_life, conns, handed>>
  BY DEF listen, listen_fails, listens
<1>2. ArrivalInv' /\ HandedRight'
  BY <1>1, NewQueue, Shorter DEF AcceptorInv, HandedRight
<1>3. Len(queue) + 1 \in 1 .. MaxListen /\ queue' \in Seq(Seq(1 .. MaxConn)) /\ Len(queue') <= MaxListen
  BY <1>1, NewQueue DEF AcceptorInv
<1>4. CASE listen
  <2>1. PICK f \in FreeFd :
          /\ acc' = [acc EXCEPT !.fd = f, !.handle = f, !.on_accept = Len(queue) + 1]
          /\ open' = [open EXCEPT ![f] = <<"listen", Len(queue) + 1>>]
    BY <1>4 DEF listen, listens
  <2>2. f \in Fd /\ f # None
    BY AcceptorAssumption DEF FreeFd
  <2>3. /\ acc'.fd = f /\ acc'.handle = f /\ acc'.on_accept = Len(queue) + 1
        /\ acc'.destroyed = acc.destroyed /\ acc' \in Acceptor
    <3>1. acc \in Acceptor /\ Len(queue) + 1 \in 0 .. MaxListen
      BY <1>3 DEF AcceptorInv, AcceptorTypeOK
    <3> QED BY <2>1, <2>2, <3>1 DEF Acceptor
  <2>4. <<"listen", Len(queue) + 1>> \in Use
    BY <1>3 DEF Use
  <2>5. AcceptorTypeOK'
    BY <1>1, <1>3, <2>1, <2>2, <2>3, <2>4 DEF AcceptorInv, AcceptorTypeOK
  <2>6. SocketInv'
    <3>1. open'[f] = <<"listen", Len(queue) + 1>> /\ \A g \in Fd : g # f => open'[g] = open[g]
      BY <2>1, <2>2 DEF AcceptorInv, AcceptorTypeOK
    <3> QED BY <1>1, <2>2, <2>3, <3>1, AcceptorAssumption DEF AcceptorInv, SocketInv
  <2>7. DestroyInv'
    BY <1>1, <2>3 DEF AcceptorInv, DestroyInv, MayCall
  <2> QED BY <1>2, <2>5, <2>6, <2>7 DEF AcceptorInv
<1>5. CASE listen_fails
  <2>1. /\ acc' \in {acc, [acc EXCEPT !.on_accept = Len(queue) + 1]}
        /\ UNCHANGED open
    BY <1>5 DEF listen_fails, listens
  <2>2. /\ acc'.fd = acc.fd /\ acc'.handle = acc.handle /\ acc'.destroyed = acc.destroyed
        /\ acc' \in Acceptor
    <3>1. acc \in Acceptor /\ Len(queue) + 1 \in 0 .. MaxListen
      BY <1>3 DEF AcceptorInv, AcceptorTypeOK
    <3> QED BY <2>1, <3>1 DEF Acceptor
  <2>3. AcceptorTypeOK'
    BY <1>1, <1>3, <2>1, <2>2 DEF AcceptorInv, AcceptorTypeOK
  <2>4. SocketInv' /\ DestroyInv'
    BY <1>1, <2>1, <2>2 DEF AcceptorInv, SocketInv, DestroyInv
  <2> QED BY <1>2, <2>3, <2>4 DEF AcceptorInv
<1> QED BY <1>4, <1>5

\* A connection that arrives has the highest number.
LEMMA InvConnect == ASSUME AcceptorInv, NEW n \in DOMAIN queue, connect(n) PROVE AcceptorInv'
<1>1. /\ conns < MaxConn /\ conns' = conns + 1
      /\ queue' = [queue EXCEPT ![n] = Append(@, conns + 1)]
      /\ UNCHANGED <<acc, held, open, loop, dpos, acc_life, handed>>
  BY DEF connect
<1>2. queue \in Seq(Seq(1 .. MaxConn)) /\ conns \in 0 .. MaxConn /\ MaxConn \in Nat
  BY AcceptorAssumption DEF AcceptorInv, AcceptorTypeOK
<1>3. conns + 1 \in 1 .. MaxConn /\ queue[n] \in Seq(1 .. MaxConn)
  BY <1>1, <1>2
<1>4. Append(queue[n], conns + 1) \in Seq(1 .. MaxConn)
  BY <1>3
<1>5. queue' \in Seq(Seq(1 .. MaxConn)) /\ Len(queue') = Len(queue)
  BY <1>1, <1>2, <1>4
<1>6. AcceptorTypeOK'
  BY <1>1, <1>2, <1>3, <1>5 DEF AcceptorInv, AcceptorTypeOK
<1>7. /\ DOMAIN queue' = DOMAIN queue
      /\ \A m \in DOMAIN queue : m # n => queue'[m] = queue[m]
      /\ \A i \in DOMAIN queue'[n] :
           \/ i \in DOMAIN queue[n] /\ queue'[n][i] = queue[n][i]
           \/ i = Len(queue[n]) + 1 /\ queue'[n][i] = conns + 1
      /\ \A i \in DOMAIN queue[n] : i < Len(queue[n]) + 1
  <2>1. queue'[n] = Append(queue[n], conns + 1)
    BY <1>1
  <2> QED BY <1>1, <1>2, <1>3, <2>1
<1>8. ArrivalInv'
  <2> DEFINE Old(m, i) == m \in DOMAIN queue /\ i \in DOMAIN queue[m] /\ queue'[m][i] = queue[m][i]
             New(m, i) == m = n /\ i = Len(queue[n]) + 1 /\ queue'[m][i] = conns + 1
  <2>1. \A m \in DOMAIN queue' : \A i \in DOMAIN queue'[m] : Old(m, i) \/ New(m, i)
    BY <1>7
  <2>2. \A m \in DOMAIN queue : \A i \in DOMAIN queue[m] : queue[m][i] \in Nat /\ queue[m][i] <= conns
    BY <1>2 DEF AcceptorInv, ArrivalInv
  <2>3. \A k \in DOMAIN handed : handed[k].conn \in Nat /\ handed[k].conn <= conns
    <3>1. \A k \in DOMAIN handed : handed[k] \in Handover
      BY DEF AcceptorInv, AcceptorTypeOK
    <3> QED BY <3>1 DEF AcceptorInv, ArrivalInv, Handover
  <2>4. \A m \in DOMAIN queue' : \A i \in DOMAIN queue'[m] : queue'[m][i] <= conns'
    BY <1>1, <1>2, <2>1, <2>2
  <2> HIDE DEF Old, New
  <2>5. ASSUME NEW m \in DOMAIN queue', NEW p \in DOMAIN queue',
               NEW i \in DOMAIN queue'[m], NEW j \in DOMAIN queue'[p], m # p
        PROVE  queue'[m][i] # queue'[p][j]
    <3>1. CASE Old(m, i) /\ Old(p, j)
      BY <2>5, <3>1 DEF Old, AcceptorInv, ArrivalInv
    <3>2. CASE Old(m, i) /\ New(p, j)
      BY <1>2, <2>2, <3>2 DEF Old, New
    <3>3. CASE New(m, i) /\ Old(p, j)
      BY <1>2, <2>2, <3>3 DEF Old, New
    <3> QED BY <2>1, <2>5, <3>1, <3>2, <3>3 DEF New
  <2>6. ASSUME NEW m \in DOMAIN queue', NEW i \in DOMAIN queue'[m], NEW j \in DOMAIN queue'[m], i < j
        PROVE  queue'[m][i] < queue'[m][j]
    <3>1. CASE Old(m, i) /\ Old(m, j)
      BY <2>6, <3>1 DEF Old, AcceptorInv, ArrivalInv
    <3>2. CASE Old(m, i) /\ New(m, j)
      BY <1>2, <2>2, <3>2 DEF Old, New
    <3>3. ASSUME New(m, i) PROVE FALSE
      <4>1. m = n /\ i = Len(queue[n]) + 1 /\ Len(queue[n]) \in Nat
        BY <1>3, <3>3 DEF New
      <4>2. j = Len(queue[n]) + 1 \/ j < Len(queue[n]) + 1
        BY <1>7, <4>1
      <4> QED BY <2>6, <4>1, <4>2
    <3> QED BY <2>1, <3>1, <3>2, <3>3
  <2>7. ASSUME NEW k \in DOMAIN handed
        PROVE  /\ handed[k].conn <= conns + 1
               /\ \A m \in DOMAIN queue' : \A i \in DOMAIN queue'[m] :
                    /\ queue'[m][i] # handed[k].conn
                    /\ handed[k].from = m => handed[k].conn < queue'[m][i]
    <3>1. handed[k].conn <= conns + 1 /\ handed[k].conn < conns + 1
      BY <1>2, <2>3
    <3>2. ASSUME NEW m \in DOMAIN queue', NEW i \in DOMAIN queue'[m]
          PROVE  /\ queue'[m][i] # handed[k].conn
                 /\ handed[k].from = m => handed[k].conn < queue'[m][i]
      <4>1. CASE Old(m, i)
        BY <4>1 DEF Old, AcceptorInv, ArrivalInv
      <4>2. CASE New(m, i)
        BY <1>2, <2>3, <3>1, <4>2 DEF New
      <4> QED BY <2>1, <4>1, <4>2
    <3> QED BY <3>1, <3>2
  <2> QED BY <1>1, <2>4, <2>5, <2>6, <2>7 DEF ArrivalInv
<1>9. SocketInv' /\ DestroyInv' /\ HandedRight'
  BY <1>1 DEF AcceptorInv, SocketInv, DestroyInv, HandedRight
<1> QED BY <1>6, <1>8, <1>9 DEF AcceptorInv

\* A closed descriptor is free, and a queue is as it was or empty.
LEMMA Closing ==
  ASSUME AcceptorInv, NEW f \in Fd, CloseFd(f)
  PROVE  /\ open' \in [Fd -> Use] /\ open'[f] = Free
         /\ \A g \in Fd : g # f => open'[g] = open[g]
         /\ queue' \in Seq(Seq(1 .. MaxConn)) /\ Len(queue') <= MaxListen
         /\ \A n \in DOMAIN queue' : \A i \in DOMAIN queue'[n] :
              n \in DOMAIN queue /\ i \in DOMAIN queue[n] /\ queue'[n] = queue[n]
<1>1. open \in [Fd -> Use] /\ Free \in Use
  BY DEF AcceptorInv, AcceptorTypeOK, Use
<1>2. queue \in Seq(Seq(1 .. MaxConn)) /\ Len(queue) <= MaxListen
  BY DEF AcceptorInv, AcceptorTypeOK
<1>3. queue' = [n \in DOMAIN queue |-> IF open[f] = <<"listen", n>> THEN <<>> ELSE queue[n]]
  BY DEF CloseFd
<1> DEFINE S == Seq(1 .. MaxConn)
<1>4. <<>> \in S /\ \A n \in DOMAIN queue : queue[n] \in S
  BY <1>2
<1> HIDE DEF S
<1>5. DOMAIN queue' = DOMAIN queue /\ \A n \in DOMAIN queue : queue'[n] \in {<<>>, queue[n]}
  BY <1>3
<1>6. queue' \in Seq(S) /\ Len(queue') = Len(queue)
  <2>1. DOMAIN queue = 1 .. Len(queue) /\ Len(queue) \in Nat
    BY <1>2, LenProperties
  <2>2. queue' \in [1 .. Len(queue) -> S]
    BY <1>3, <1>4, <2>1
  <2>3. queue' \in Seq(S)
    BY <2>1, <2>2, SeqDef
  <2> QED BY <1>5, <2>1, <2>3, LenProperties
<1>7. open' = [open EXCEPT ![f] = Free]
  BY DEF CloseFd
<1> QED BY <1>1, <1>2, <1>5, <1>6, <1>7 DEF S

\* The user closes a descriptor that accept gave it: not the listening one.
LEMMA InvCloseConn == ASSUME AcceptorInv, NEW f \in Fd, close_conn(f) PROVE AcceptorInv'
<1>1. open[f][1] = "conn" /\ CloseFd(f) /\ UNCHANGED <<acc, held, loop, dpos, acc_life, conns, handed>>
  BY DEF close_conn
<1>2. f # acc.fd
  BY <1>1 DEF AcceptorInv, SocketInv
<1>3. AcceptorTypeOK'
  BY <1>1, Closing DEF AcceptorInv, AcceptorTypeOK
<1>4. SocketInv'
  <2>1. open'[f][1] # "listen"
    BY <1>1, Closing DEF Free
  <2>2. acc.fd # None => acc.fd \in Fd
    BY DEF AcceptorInv, AcceptorTypeOK, Acceptor
  <2> QED BY <1>1, <1>2, <2>1, <2>2, Closing DEF AcceptorInv, SocketInv
<1>5. ArrivalInv'
  BY <1>1, Closing, Shorter DEF AcceptorInv
<1>6. DestroyInv' /\ HandedRight'
  BY <1>1 DEF AcceptorInv, DestroyInv, HandedRight
<1> QED BY <1>3, <1>4, <1>5, <1>6 DEF AcceptorInv

\* acc_close_io leaves no listening socket and no handle.
LEMMA ClosedIo ==
  ASSUME AcceptorInv, acc_close_io, UNCHANGED <<conns, handed>>
  PROVE  /\ acc' \in Acceptor /\ acc'.fd = None /\ acc'.destroyed = acc.destroyed
         /\ open' \in [Fd -> Use]
         /\ queue' \in Seq(Seq(1 .. MaxConn)) /\ Len(queue') <= MaxListen
         /\ SocketInv' /\ ArrivalInv' /\ HandedRight'
<1>1. /\ acc' = [acc EXCEPT !.fd = None, !.handle = None]
      /\ IF acc.fd = None THEN UNCHANGED <<open, queue>> ELSE CloseFd(acc.fd)
  BY DEF acc_close_io
<1>2. acc \in Acceptor
  BY DEF AcceptorInv, AcceptorTypeOK
<1>3. acc' \in Acceptor /\ acc'.fd = None /\ acc'.handle = None /\ acc'.destroyed = acc.destroyed
  BY <1>1, <1>2 DEF Acceptor
<1>4. HandedRight'
  BY DEF AcceptorInv, HandedRight
<1>5. CASE acc.fd = None
  <2>1. UNCHANGED <<open, queue>>
    BY <1>1, <1>5
  <2>2. SocketInv' /\ ArrivalInv'
    BY <1>3, <1>5, <2>1 DEF AcceptorInv, SocketInv, ArrivalInv
  <2> QED BY <1>3, <1>4, <2>1, <2>2 DEF AcceptorInv, AcceptorTypeOK
<1>6. CASE acc.fd # None
  <2>1. acc.fd \in Fd /\ CloseFd(acc.fd)
    BY <1>1, <1>2, <1>6 DEF Acceptor
  <2>2. open'[acc.fd][1] # "listen"
    BY <2>1, Closing DEF Free
  <2>3. \A g \in Fd : open'[g][1] # "listen"
    BY <2>1, <2>2, Closing DEF AcceptorInv, SocketInv
  <2>4. SocketInv'
    BY <1>3, <2>3, AcceptorAssumption DEF SocketInv
  <2>5. ArrivalInv'
    BY <2>1, Closing, Shorter DEF AcceptorInv
  <2> QED BY <1>3, <1>4, <2>1, <2>4, <2>5, Closing
<1> QED BY <1>5, <1>6

\* close, from any thread and from on_accept.
LEMMA AcceptorInvClose == ASSUME AcceptorInv, NEW th \in Thread, sevent_tcp_acceptor_close(th) PROVE AcceptorInv'
<1>1. MayCall(th) /\ acc_close_io /\ UNCHANGED <<held, loop, dpos, acc_life, conns, handed>>
  BY DEF sevent_tcp_acceptor_close
<1>2. AcceptorTypeOK'
  BY <1>1, ClosedIo DEF AcceptorInv, AcceptorTypeOK
<1>3. DestroyInv'
  BY <1>1, ClosedIo DEF AcceptorInv, DestroyInv
<1> QED BY <1>1, <1>2, <1>3, ClosedIo DEF AcceptorInv

\* destroy: the mark, the close, the post and the release.
LEMMA AcceptorInvDestroy ==
  ASSUME AcceptorInv, NEW th \in Thread, sevent_tcp_acceptor_destroy(th) \/ Destroying(th)
  PROVE  AcceptorInv'
<1>1. dpos \in [Thread -> {"out", "close", "post"}] /\ acc \in Acceptor
  BY DEF AcceptorInv, AcceptorTypeOK
<1>2. CASE sevent_tcp_acceptor_destroy(th)
  <2>1. /\ dpos[th] = "out" /\ ~acc.destroyed /\ acc_life = "live"
        /\ acc' = [acc EXCEPT !.destroyed = TRUE]
        /\ dpos' = [dpos EXCEPT ![th] = "close"]
        /\ UNCHANGED <<held, open, queue, loop, acc_life, conns, handed>>
    BY <1>2 DEF sevent_tcp_acceptor_destroy, MayCall
  <2>2. /\ acc' \in Acceptor /\ acc'.destroyed /\ acc'.fd = acc.fd
        /\ acc'.handle = acc.handle /\ acc'.on_accept = acc.on_accept
    BY <1>1, <2>1 DEF Acceptor
  <2>3. AcceptorTypeOK'
    BY <1>1, <2>1, <2>2 DEF AcceptorInv, AcceptorTypeOK
  <2>4. \A u \in Thread : dpos[u] = "out"
    BY <2>1 DEF AcceptorInv, DestroyInv
  <2>5. DestroyInv'
    BY <1>1, <2>1, <2>2, <2>4 DEF DestroyInv
  <2>6. SocketInv' /\ ArrivalInv' /\ HandedRight'
    BY <2>1, <2>2 DEF AcceptorInv, SocketInv, ArrivalInv, HandedRight
  <2> QED BY <2>3, <2>5, <2>6 DEF AcceptorInv
<1>3. CASE destroy_close(th)
  <2>1. /\ dpos[th] = "close" /\ acc_close_io /\ dpos' = [dpos EXCEPT ![th] = "post"]
        /\ UNCHANGED <<held, loop, acc_life, conns, handed>>
    BY <1>3 DEF destroy_close
  <2>2. AcceptorTypeOK'
    BY <1>1, <2>1, ClosedIo DEF AcceptorInv, AcceptorTypeOK
  <2>3. DestroyInv'
    BY <1>1, <2>1, ClosedIo DEF AcceptorInv, DestroyInv
  <2> QED BY <2>1, <2>2, <2>3, ClosedIo DEF AcceptorInv
<1>4. CASE destroy_post(th)
  <2>1. /\ dpos[th] = "post" /\ dpos' = [dpos EXCEPT ![th] = "out"] /\ acc_life' = "posted"
        /\ UNCHANGED <<acc, held, open, queue, loop, conns, handed>>
    BY <1>4 DEF destroy_post
  <2>2. AcceptorTypeOK'
    BY <1>1, <2>1 DEF AcceptorInv, AcceptorTypeOK
  <2>3. \A u \in Thread : u # th => dpos[u] = "out"
    BY <2>1 DEF AcceptorInv, DestroyInv
  <2>4. DestroyInv'
    BY <1>1, <2>1, <2>3 DEF AcceptorInv, DestroyInv
  <2>5. SocketInv' /\ ArrivalInv' /\ HandedRight'
    BY <2>1 DEF AcceptorInv, SocketInv, ArrivalInv, HandedRight
  <2> QED BY <2>2, <2>4, <2>5 DEF AcceptorInv
<1> QED BY <1>2, <1>3, <1>4 DEF Destroying

\* accept takes the oldest connection of the queue; the others move up by one.
LEMMA Taken ==
  ASSUME AcceptorInv, NEW n \in Waiting, queue' = [queue EXCEPT ![n] = Tail(@)]
  PROVE  /\ n \in DOMAIN queue /\ n = acc.on_accept /\ n \in 1 .. MaxListen
         /\ 1 \in DOMAIN queue[n] /\ Head(queue[n]) = queue[n][1] /\ queue[n][1] \in 1 .. MaxConn
         /\ queue' \in Seq(Seq(1 .. MaxConn)) /\ Len(queue') = Len(queue)
         /\ \A m \in DOMAIN queue' : \A i \in DOMAIN queue'[m] :
              /\ m \in DOMAIN queue
              /\ m = n => /\ i + 1 \in DOMAIN queue[n] /\ 1 < i + 1
                          /\ queue'[n][i] = queue[n][i + 1] /\ i \in Nat
              /\ m # n => i \in DOMAIN queue[m] /\ queue'[m] = queue[m]
<1>1. n \in DOMAIN queue /\ acc.fd # None /\ open[acc.fd] = <<"listen", n>> /\ queue[n] # <<>>
  BY DEF Waiting
<1>2. n = acc.on_accept
  BY <1>1 DEF AcceptorInv, SocketInv
<1>3. queue \in Seq(Seq(1 .. MaxConn)) /\ Len(queue) <= MaxListen /\ MaxListen \in Nat
  BY AcceptorAssumption DEF AcceptorInv, AcceptorTypeOK
<1>4. n \in 1 .. MaxListen /\ queue[n] \in Seq(1 .. MaxConn)
  BY <1>1, <1>3
<1>5. /\ 1 \in DOMAIN queue[n] /\ Head(queue[n]) = queue[n][1] /\ queue[n][1] \in 1 .. MaxConn
      /\ Tail(queue[n]) \in Seq(1 .. MaxConn)
      /\ \A i \in DOMAIN Tail(queue[n]) :
           i \in Nat /\ 1 < i + 1 /\ i + 1 \in DOMAIN queue[n] /\ Tail(queue[n])[i] = queue[n][i + 1]
  <2> DEFINE q == queue[n]
             C == 1 .. MaxConn
  <2>1. q \in Seq(C) /\ q # <<>>
    BY <1>1, <1>4
  <2> HIDE DEF q, C
  <2>2. /\ Len(q) \in Nat /\ Len(q) >= 1 /\ DOMAIN q = 1 .. Len(q)
        /\ Head(q) \in C /\ Head(q) = q[1] /\ Tail(q) \in Seq(C) /\ Len(Tail(q)) = Len(q) - 1
    BY <2>1
  <2>3. DOMAIN Tail(q) = 1 .. (Len(q) - 1)
    BY <2>2, LenProperties
  <2>4. \A i \in 1 .. (Len(q) - 1) : Tail(q)[i] = q[i + 1]
    BY <2>1, <2>2
  <2>5. \A i \in DOMAIN Tail(q) : i \in Nat /\ 1 < i + 1 /\ i + 1 \in DOMAIN q /\ Tail(q)[i] = q[i + 1]
    BY <2>2, <2>3, <2>4
  <2> QED BY <2>2, <2>5 DEF q, C
<1> DEFINE T == Tail(queue[n])
           S == Seq(1 .. MaxConn)
<1>6. T \in S /\ queue \in Seq(S)
  BY <1>3, <1>5
<1> HIDE DEF S, T
<1>7. /\ queue' \in Seq(S) /\ Len(queue') = Len(queue) /\ DOMAIN queue' = DOMAIN queue
      /\ queue'[n] = T /\ \A m \in DOMAIN queue : m # n => queue'[m] = queue[m]
  <2>1. queue' = [queue EXCEPT ![n] = T]
    BY DEF T
  <2>2. DOMAIN queue = 1 .. Len(queue)
    BY <1>6, LenProperties
  <2>3. queue' \in Seq(S) /\ Len(queue') = Len(queue)
    <3>1. [queue EXCEPT ![n] = T] \in Seq(S) /\ Len([queue EXCEPT ![n] = T]) = Len(queue)
      BY <1>1, <1>6, <2>2, ExceptSeq, Zenon
    <3> QED BY <2>1, <3>1
  <2>4. DOMAIN queue' = DOMAIN queue
    BY <2>1
  <2> QED BY <1>1, <2>1, <2>3, <2>4
<1>8. ASSUME NEW m \in DOMAIN queue', NEW i \in DOMAIN queue'[m]
      PROVE  /\ m \in DOMAIN queue
             /\ m = n => /\ i + 1 \in DOMAIN queue[n] /\ 1 < i + 1
                         /\ queue'[n][i] = queue[n][i + 1] /\ i \in Nat
             /\ m # n => i \in DOMAIN queue[m] /\ queue'[m] = queue[m]
  BY <1>5, <1>7, <1>8 DEF T
<1> QED BY <1>1, <1>2, <1>4, <1>5, <1>7, <1>8 DEF S

\* What accept leaves in the queues when it takes a connection from queue n.
LeftInOrder(n) ==
  /\ \A m \in DOMAIN queue' : \A i \in DOMAIN queue'[m] :
       /\ queue'[m][i] <= conns' /\ queue'[m][i] # queue[n][1]
       /\ m = n => queue[n][1] < queue'[m][i]
       /\ \A k \in DOMAIN handed :
            /\ queue'[m][i] # handed[k].conn
            /\ handed[k].from = m => handed[k].conn < queue'[m][i]
  /\ \A m, p \in DOMAIN queue' : \A i \in DOMAIN queue'[m], j \in DOMAIN queue'[p] :
       m # p => queue'[m][i] # queue'[p][j]
  /\ \A m \in DOMAIN queue' : \A i, j \in DOMAIN queue'[m] : i < j => queue'[m][i] < queue'[m][j]

\* The others keep their order, and are younger than the one taken.
LEMMA TakenOrder ==
  ASSUME AcceptorInv, NEW n \in Waiting, queue' = [queue EXCEPT ![n] = Tail(@)], UNCHANGED conns
  PROVE  LeftInOrder(n)
<1> DEFINE At(m, i) == IF m = n THEN i + 1 ELSE i
<1>1. \A m \in DOMAIN queue' : \A i \in DOMAIN queue'[m] :
        /\ m \in DOMAIN queue /\ At(m, i) \in DOMAIN queue[m] /\ queue'[m][i] = queue[m][At(m, i)]
        /\ m = n => 1 < At(m, i)
  <2> SUFFICES ASSUME NEW m \in DOMAIN queue', NEW i \in DOMAIN queue'[m]
               PROVE  /\ m \in DOMAIN queue /\ At(m, i) \in DOMAIN queue[m]
                      /\ queue'[m][i] = queue[m][At(m, i)] /\ (m = n => 1 < At(m, i))
    OBVIOUS
  <2>1. /\ m \in DOMAIN queue
        /\ m = n => i + 1 \in DOMAIN queue[n] /\ 1 < i + 1 /\ queue'[n][i] = queue[n][i + 1]
        /\ m # n => i \in DOMAIN queue[m] /\ queue'[m] = queue[m]
    BY Taken
  <2>2. CASE m = n
    BY <2>1, <2>2
  <2>3. CASE m # n
    BY <2>1, <2>3
  <2> QED BY <2>2, <2>3
<1>2. \A m \in DOMAIN queue' : \A i, j \in DOMAIN queue'[m] : i < j => At(m, i) < At(m, j)
  BY Taken
<1>3. n \in DOMAIN queue /\ 1 \in DOMAIN queue[n]
  BY Taken
<1>6. \A m \in DOMAIN queue : \A i \in DOMAIN queue[m] : queue[m][i] \in Nat
  <2>1. queue \in Seq(Seq(1 .. MaxConn))
    BY DEF AcceptorInv, AcceptorTypeOK
  <2>2. ASSUME NEW m \in DOMAIN queue PROVE queue[m] \in Seq(1 .. MaxConn)
    BY <2>1
  <2>3. ASSUME NEW m \in DOMAIN queue, NEW i \in DOMAIN queue[m] PROVE queue[m][i] \in 1 .. MaxConn
    BY <2>2, <2>3, LenProperties, ElementOfSeq
  <2> QED BY <2>3
<1> HIDE DEF At
<1>4. ASSUME NEW m \in DOMAIN queue', NEW i \in DOMAIN queue'[m]
      PROVE  /\ queue'[m][i] <= conns' /\ queue'[m][i] # queue[n][1]
             /\ m = n => queue[n][1] < queue'[m][i]
             /\ \A k \in DOMAIN handed :
                  /\ queue'[m][i] # handed[k].conn
                  /\ handed[k].from = m => handed[k].conn < queue'[m][i]
  <2>1. /\ m \in DOMAIN queue /\ At(m, i) \in DOMAIN queue[m] /\ queue'[m][i] = queue[m][At(m, i)]
        /\ m = n => 1 < At(m, i)
    BY <1>1
  <2>2. CASE m = n
    <3>1. queue[n][1] < queue'[m][i]
      BY <1>3, <2>1, <2>2 DEF AcceptorInv, ArrivalInv
    <3>2. queue[n][1] \in Nat /\ queue'[m][i] \in Nat
      BY <1>3, <1>6, <2>1, <2>2
    <3> QED BY <2>1, <2>2, <3>1, <3>2 DEF AcceptorInv, ArrivalInv
  <2>3. CASE m # n
    BY <1>3, <2>1, <2>3 DEF AcceptorInv, ArrivalInv
  <2> QED BY <2>2, <2>3
<1>5. ASSUME NEW m \in DOMAIN queue', NEW p \in DOMAIN queue',
             NEW i \in DOMAIN queue'[m], NEW j \in DOMAIN queue'[p], m # p
      PROVE  queue'[m][i] # queue'[p][j]
  BY <1>1, <1>5 DEF AcceptorInv, ArrivalInv
<1>7. ASSUME NEW m \in DOMAIN queue', NEW i \in DOMAIN queue'[m], NEW j \in DOMAIN queue'[m], i < j
      PROVE  queue'[m][i] < queue'[m][j]
  BY <1>1, <1>2, <1>7 DEF AcceptorInv, ArrivalInv
<1> QED BY <1>4, <1>5, <1>7 DEF LeftInOrder

\* A connection that accept returns came in on the socket of the callback that
\* gets it, after those that socket has handed over.
LEMMA InvAccept == ASSUME AcceptorInv, accept PROVE AcceptorInv'
<1>1. /\ loop = "accept" /\ loop' = "callback" /\ UNCHANGED <<acc, held, dpos, acc_life, conns>>
  BY DEF accept
<1>2. PICK n \in Waiting, f \in FreeFd :
        /\ open' = [open EXCEPT ![f] = <<"conn", Head(queue[n])>>]
        /\ queue' = [queue EXCEPT ![n] = Tail(@)]
        /\ handed' = Append(handed, [conn |-> Head(queue[n]), from |-> n, to |-> acc.on_accept])
  BY DEF accept
<1> DEFINE c == queue[n][1]
           h == [conn |-> c, from |-> n, to |-> n]
<1>3. /\ n \in DOMAIN queue /\ n \in 1 .. MaxListen /\ c \in 1 .. MaxConn /\ 1 \in DOMAIN queue[n]
      /\ handed' = Append(handed, h) /\ open' = [open EXCEPT ![f] = <<"conn", c>>]
      /\ queue' \in Seq(Seq(1 .. MaxConn)) /\ Len(queue') = Len(queue)
  BY <1>2, Taken
<1>4. h \in Handover /\ h.conn = c /\ h.from = n /\ h.to = n
  BY <1>3 DEF Handover
<1> HIDE DEF c, h
<1>5. f \in Fd /\ open[f] = Free /\ <<"conn", c>> \in Use
  BY <1>3 DEF FreeFd, Use
<1>6. handed \in Seq(Handover) /\ open \in [Fd -> Use]
  BY DEF AcceptorInv, AcceptorTypeOK
<1>7. /\ handed' \in Seq(Handover) /\ Len(handed') = Len(handed) + 1
      /\ handed'[Len(handed) + 1] = h /\ Len(handed) \in Nat
      /\ \A k \in DOMAIN handed : k \in DOMAIN handed' /\ handed'[k] = handed[k] /\ k < Len(handed) + 1
      /\ \A k \in DOMAIN handed' : k \in DOMAIN handed \/ k = Len(handed) + 1
  BY <1>3, <1>4, <1>6
<1>8. open' \in [Fd -> Use] /\ open'[f] = <<"conn", c>> /\ \A g \in Fd : g # f => open'[g] = open[g]
  BY <1>3, <1>5, <1>6
<1>9. AcceptorTypeOK'
  BY <1>1, <1>3, <1>7, <1>8 DEF AcceptorInv, AcceptorTypeOK
<1>10. SocketInv'
  <2>1. f # acc.fd /\ open'[f][1] # "listen"
    BY <1>5, <1>8 DEF AcceptorInv, SocketInv, Free
  <2>2. acc.fd # None => acc.fd \in Fd
    BY DEF AcceptorInv, AcceptorTypeOK, Acceptor
  <2> QED BY <1>1, <1>8, <2>1, <2>2 DEF AcceptorInv, SocketInv
<1>11. DestroyInv'
  BY <1>1 DEF AcceptorInv, DestroyInv
<1>12. c <= conns /\ \A k \in DOMAIN handed : handed[k].conn # c /\ (handed[k].from = n => handed[k].conn < c)
  BY <1>3 DEF c, AcceptorInv, ArrivalInv
<1>15. LeftInOrder(n)
  BY <1>1, <1>2, TakenOrder
<1>13. ArrivalInv'
  <2> DEFINE Later(k) ==
        /\ handed'[k].conn <= conns'
        /\ \A m \in DOMAIN queue' : \A i \in DOMAIN queue'[m] :
             /\ queue'[m][i] # handed'[k].conn
             /\ handed'[k].from = m => handed'[k].conn < queue'[m][i]
  <2>1. ASSUME NEW k \in DOMAIN handed' PROVE Later(k)
    <3>1. CASE k \in DOMAIN handed
      <4>1. handed'[k] = handed[k] /\ handed[k].conn <= conns'
        BY <1>1, <1>7, <3>1 DEF AcceptorInv, ArrivalInv
      <4> QED BY <1>1, <1>15, <3>1, <4>1 DEF LeftInOrder
    <3>2. CASE k = Len(handed) + 1
      <4>1. handed'[k].conn = c /\ handed'[k].from = n /\ c <= conns'
        BY <1>1, <1>4, <1>7, <1>12, <3>2
      <4> QED BY <1>15, <4>1 DEF c, LeftInOrder
    <3> QED BY <1>7, <3>1, <3>2
  <2> QED BY <1>15, <2>1 DEF ArrivalInv, LeftInOrder
<1>14. HandedRight'
  <2>1. ASSUME NEW i \in DOMAIN handed', NEW j \in DOMAIN handed', i < j
        PROVE  /\ handed'[i].conn # handed'[j].conn
               /\ handed'[i].from = handed'[j].from => handed'[i].conn < handed'[j].conn
    <3>1. CASE i \in DOMAIN handed /\ j \in DOMAIN handed
      BY <1>7, <2>1, <3>1 DEF AcceptorInv, HandedRight
    <3>2. CASE i \in DOMAIN handed /\ j = Len(handed) + 1
      BY <1>4, <1>7, <1>12, <3>2
    <3>3. i # Len(handed) + 1
      BY <1>7, <2>1
    <3> QED BY <1>7, <3>1, <3>2, <3>3
  <2>2. ASSUME NEW i \in DOMAIN handed' PROVE handed'[i].to = handed'[i].from
    <3>1. CASE i \in DOMAIN handed
      BY <1>7, <3>1 DEF AcceptorInv, HandedRight
    <3>2. CASE i = Len(handed) + 1
      BY <1>4, <1>7, <3>2
    <3> QED BY <1>7, <3>1, <3>2
  <2> QED BY <2>1, <2>2 DEF HandedRight
<1> QED BY <1>9, <1>10, <1>11, <1>13, <1>14 DEF AcceptorInv

\* accept that fails leaves the queues, or loses the oldest connection of one.
LEMMA InvAcceptFails == ASSUME AcceptorInv, accept_fails PROVE AcceptorInv'
<1>1. loop' = "rest" /\ held' = FALSE /\ UNCHANGED <<acc, open, dpos, acc_life, conns, handed>>
  BY DEF accept_fails, Leave
<1>2. /\ queue' \in Seq(Seq(1 .. MaxConn)) /\ Len(queue') <= MaxListen /\ ArrivalInv'
  <2>1. CASE UNCHANGED queue
    BY <1>1, <2>1 DEF AcceptorInv, AcceptorTypeOK, ArrivalInv
  <2>2. CASE \E n \in Waiting : queue' = [queue EXCEPT ![n] = Tail(@)]
    <3>1. PICK n \in Waiting : queue' = [queue EXCEPT ![n] = Tail(@)]
      BY <2>2
    <3>2. queue' \in Seq(Seq(1 .. MaxConn)) /\ Len(queue') <= MaxListen
      BY <3>1, Taken DEF AcceptorInv, AcceptorTypeOK
    <3>3. ArrivalInv'
      <4>1. \A k \in DOMAIN handed : handed[k].conn <= conns
        BY DEF AcceptorInv, ArrivalInv
      <4>2. LeftInOrder(n)
        BY <1>1, <3>1, TakenOrder
      <4> QED BY <1>1, <4>1, <4>2 DEF ArrivalInv, LeftInOrder
    <3> QED BY <3>2, <3>3
  <2> QED BY <2>1, <2>2 DEF accept_fails
<1>4. held' \in BOOLEAN
  BY <1>1
<1>3. AcceptorTypeOK'
  BY <1>1, <1>2, <1>4 DEF AcceptorInv, AcceptorTypeOK
<1> QED BY <1>1, <1>2, <1>3 DEF AcceptorInv, DestroyInv, SocketInv, HandedRight

\* The loop's own steps.  The handle of a released object is gone, so that select
\* does not find it ready.
LEMMA InvLoop == ASSUME AcceptorInv, LoopStep PROVE AcceptorInv'
<1>1. CASE select_ready
  <2>1. /\ acc.handle # None /\ loop' = "called"
        /\ UNCHANGED <<acc, held, open, queue, dpos, acc_life, conns, handed>>
    BY <1>1 DEF select_ready
  <2>2. acc_life # "freed"
    BY <2>1 DEF AcceptorInv, SocketInv, DestroyInv
  <2>3. AcceptorTypeOK' /\ DestroyInv'
    BY <2>1, <2>2 DEF AcceptorInv, AcceptorTypeOK, DestroyInv
  <2> QED BY <2>1, <2>3 DEF AcceptorInv, SocketInv, ArrivalInv, HandedRight
<1>2. CASE on_accept_ready \/ on_accept_return
  <2>1. /\ loop # "rest" /\ loop' \in {"rest", "accept"} /\ held' \in BOOLEAN
        /\ UNCHANGED <<acc, open, queue, dpos, acc_life, conns, handed>>
    BY <1>2 DEF on_accept_ready, on_accept_return, AcceptorInv, AcceptorTypeOK
  <2>2. AcceptorTypeOK' /\ DestroyInv'
    BY <2>1 DEF AcceptorInv, AcceptorTypeOK, DestroyInv
  <2> QED BY <2>1, <2>2 DEF AcceptorInv, SocketInv, ArrivalInv, HandedRight
<1>3. CASE acc_cleanup
  <2>1. /\ acc_life = "posted" /\ loop = "rest" /\ acc_life' = "freed"
        /\ UNCHANGED <<acc, held, open, queue, loop, dpos, conns, handed>>
    BY <1>3 DEF acc_cleanup
  <2>2. AcceptorTypeOK' /\ DestroyInv'
    BY <2>1 DEF AcceptorInv, AcceptorTypeOK, DestroyInv
  <2> QED BY <2>1, <2>2 DEF AcceptorInv, SocketInv, ArrivalInv, HandedRight
<1> QED BY <1>1, <1>2, <1>3, InvAccept, InvAcceptFails DEF LoopStep

-----------------------------------------------------------------------------
\* The invariant holds in every state, whichever threads close and destroy the
\* acceptor and whenever on_accept listens again.
THEOREM AcceptorInvHolds == AcceptorSpec => []AcceptorInv
<1>1. ASSUME AcceptorInv, [AcceptorNext]_acceptor_vars PROVE AcceptorInv'
  <2>1. CASE UNCHANGED acceptor_vars
    BY <1>1, <2>1 DEF acceptor_vars, AcceptorInv, AcceptorTypeOK, DestroyInv, SocketInv, ArrivalInv, HandedRight
  <2> QED BY <1>1, <2>1, InvLoop, InvListen, InvConnect, InvCloseConn, AcceptorInvClose, AcceptorInvDestroy DEF AcceptorNext
<1> QED BY <1>1, AcceptorInvInit, PTL DEF AcceptorSpec

\* Type correctness.
THEOREM AcceptorTypeCorrect == AcceptorSpec => []AcceptorTypeOK
BY AcceptorInvHolds, PTL DEF AcceptorInv

\* acc_close_io and acc_cleanup give everything back once: the process's listening
\* sockets are the one a->fd names, and the object is released when neither
\* on_accept_ready nor a thread in destroy still uses it.
THEOREM OwnedOnceHolds == AcceptorSpec => []OwnedOnce
<1>1. AcceptorInv => OwnedOnce
  BY DEF AcceptorInv, DestroyInv, SocketInv, OwnedOnce
<1> QED BY <1>1, AcceptorInvHolds, PTL

\* on_accept_ready hands every connection over at most once, in order, to the
\* callback of the listen it came in on.
THEOREM HandedRightHolds == AcceptorSpec => []HandedRight
BY AcceptorInvHolds, PTL DEF AcceptorInv
=============================================================================
