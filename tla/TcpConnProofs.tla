----------------------------- MODULE TcpConnProofs ----------------------------
(***************************************************************************)
(* Proofs about TcpConn, for any threads, descriptors and bounds.          *)
(***************************************************************************)
EXTENDS TcpConn, SequenceTheorems, TLAPS

\* What the invariants lack to be inductive: a connection that is not open
\* has no data, one that is not yet open has had none, the user was told of
\* every change of state, and the loop only reads from open connections: what
\* it has decided to call before a close cannot meet a new connection.
Shape ==
  /\ state # "OPEN" => queue = <<>>
  /\ state = "OPENING" => accepted = 0 /\ wire = <<>> /\ ~fin
  /\ told = [IDLE |-> "ended", OPENING |-> "fresh", OPEN |-> "opened"][state]
  /\ io \cap {"read", "write"} # {} => state = "OPEN"
  /\ call \in {"read", "write"} => state # "OPENING"

\* The inductive invariant.
Inv == TypeOK /\ Shape /\ Registered /\ FdOwned /\ WriteInterest /\ FinLast /\ InOrder

\* Concatenation is associative.
LEMMA Regroup ==
  \A a, b, c \in Seq(Byte) : (a \o b) \o c = a \o (b \o c)
OBVIOUS

\* New bytes continue the numbering of the bytes sent and queued (tcp_enqueue).
LEMMA Enqueued ==
  ASSUME NEW w \in Seq(Byte), NEW q \in Seq(Byte), NEW b \in Seq(Byte),
         \A i \in 1..Len(w \o q) : (w \o q)[i] = i,
         \A i \in 1..Len(b) : b[i] = Len(w \o q) + i
  PROVE  /\ q \o b \in Seq(Byte)
         /\ Len(w \o (q \o b)) = Len(w \o q) + Len(b)
         /\ \A i \in 1..Len(w \o (q \o b)) : (w \o (q \o b))[i] = i
<1> DEFINE p == w \o q
<1>1. q \o b \in Seq(Byte) /\ p \in Seq(Byte) /\ w \o (q \o b) = p \o b
  BY Regroup
<1>2. (\A i \in 1..Len(p) : p[i] = i) /\ \A i \in 1..Len(b) : b[i] = Len(p) + i
  OBVIOUS
<1> HIDE DEF p
<1>3. /\ Len(p \o b) = Len(p) + Len(b)
      /\ \A i \in 1..(Len(p) + Len(b)) :
           (p \o b)[i] = IF i <= Len(p) THEN p[i] ELSE b[i - Len(p)]
  BY <1>1, ConcatProperties
<1>4. \A i \in 1..(Len(p) + Len(b)) : (p \o b)[i] = i
  BY <1>1, <1>2, <1>3
<1> QED BY <1>1, <1>3, <1>4 DEF p

\* The bytes sent, of a queue h \o r of which h was sent, are in order too.
LEMMA Flushed ==
  ASSUME NEW w \in Seq(Byte), NEW h \in Seq(Byte), NEW r \in Seq(Byte),
         \A i \in 1..Len(w \o (h \o r)) : (w \o (h \o r))[i] = i
  PROVE  /\ w \o h \in Seq(Byte)
         /\ (w \o h) \o r = w \o (h \o r)
         /\ Len(w \o (h \o r)) = Len(w \o h) + Len(r)
         /\ \A i \in 1..Len(w \o h) : (w \o h)[i] = i
<1> DEFINE s == w \o h
<1>1. s \in Seq(Byte) /\ s \o r = w \o (h \o r)
  BY Regroup
<1>2. \A i \in 1..Len(s \o r) : (s \o r)[i] = i
  BY <1>1
<1> HIDE DEF s
<1>3. Len(s \o r) = Len(s) + Len(r) /\ \A i \in 1..Len(s) : (s \o r)[i] = s[i]
  BY <1>1
<1>4. Len(s) \in Nat /\ Len(r) \in Nat
  BY <1>1
<1>5. ASSUME NEW i \in 1..Len(s) PROVE s[i] = i
  <2>1. i \in 1..Len(s \o r)
    BY <1>3, <1>4
  <2> QED BY <1>2, <1>3, <2>1
<1> QED BY <1>1, <1>3, <1>5 DEF s

\* A queue is what is taken of it and what is left.
LEMMA Split ==
  ASSUME NEW q \in Seq(Byte), NEW k \in 0..Len(q)
  PROVE  /\ SubSeq(q, 1, k) \in Seq(Byte) /\ Len(SubSeq(q, 1, k)) = k
         /\ SubSeq(q, k + 1, Len(q)) \in Seq(Byte)
         /\ Len(SubSeq(q, k + 1, Len(q))) = Len(q) - k
         /\ SubSeq(q, 1, k) \o SubSeq(q, k + 1, Len(q)) = q
<1>1. 1 \in 1..(Len(q) + 1) /\ k \in (1 - 1)..Len(q) /\ Len(q) \in k..Len(q)
  OBVIOUS
<1>2. SubSeq(q, 1, k) \o SubSeq(q, k + 1, Len(q)) = SubSeq(q, 1, Len(q))
  BY <1>1, ConcatAdjacentSubSeq
<1>3. SubSeq(q, 1, k) \o SubSeq(q, k + 1, Len(q)) = q
  BY <1>2, SubSeqFull
<1>4. /\ SubSeq(q, 1, k) \in Seq(Byte) /\ Len(SubSeq(q, 1, k)) = k
      /\ SubSeq(q, k + 1, Len(q)) \in Seq(Byte)
      /\ Len(SubSeq(q, k + 1, Len(q))) = Len(q) - k
  OBVIOUS
<1> QED BY <1>3, <1>4

-------------------------------------------------------------------------------

\* The connection as sevent_tcp_conn_create leaves it.
LEMMA InvInit == Init => Inv
<1> SUFFICES ASSUME Init PROVE Inv
  OBVIOUS
<1>1. FlagsOK
  BY Zenon DEF Init, FlagsOK
<1>4. TypeOK
  BY <1>1 DEF Init, TypeOK, Callback
<1>2. InOrder
  BY DEF Init, InOrder
<1>3. Shape /\ Registered /\ FdOwned /\ WriteInterest /\ FinLast
  BY DEF Init, Shape, Registered, FdOwned, WriteInterest, FinLast
<1> QED BY <1>2, <1>3, <1>4 DEF Inv

\* A user callback that begins keeps lock and stack together.
LEMMA Notified ==
  ASSUME TypeOK, NEW x \in Thread, NEW k \in Notification,
         Notify(x, k)
  PROVE  /\ owner' \in Thread \cup {None}
         /\ frames' \in Seq(Notification)
         /\ (owner' = None <=> frames' = <<>>)
BY ConnAssumption DEF TypeOK, Notify

\* tcp_teardown, for any number of bytes sent before it: what was sent is in
\* order, nothing is left registered.
LEMMA Torn ==
  ASSUME Inv, NEW x \in Thread, NEW k \in {"on_close", "on_error"}, tcp_teardown(x, k),
         ~destroyed, state # "IDLE",
         wire' \in Seq(Byte), \A i \in 1..Len(wire') : wire'[i] = i,
         Len(wire') <= accepted', accepted' \in Nat,
         UNCHANGED <<life, killer, caller, asked>>, call' \in Callback \cup {"none"},
         pending' \in BOOLEAN, fin' \in BOOLEAN
  PROVE  Inv'
<1>1. TypeOK'
  <2>1. owner' \in Thread \cup {None}
    BY Notified DEF Inv, tcp_teardown, Notification
  <2>2. frames' \in Seq(Notification)
    BY Notified DEF Inv, tcp_teardown, Notification
  <2>3. (owner' = None <=> frames' = <<>>)
    BY Notified DEF Inv, tcp_teardown, Notification
  <2>4. kernel' \in SUBSET Fd /\ caller' \in SUBSET kernel'
    BY DEF Inv, TypeOK, tcp_teardown, tcp_close_io, FdOwned
  <2>5. /\ state' = "IDLE" /\ fd' = None /\ io' = {} /\ timer' = FALSE
        /\ queue' = <<>> /\ told' = "ended"
    BY DEF tcp_teardown, tcp_close_io, tcp_queue_clear
  <2>6. life' = life /\ killer' = killer /\ asked' = asked
    OBVIOUS
  <2>7. FlagsOK'
    BY <2>5, <2>6, Zenon DEF Inv, TypeOK, FlagsOK
  <2> QED BY <2>1, <2>2, <2>3, <2>4, <2>5, <2>6, <2>7 DEF Inv, TypeOK
<1>2. state' = "IDLE" /\ queue' = <<>> /\ fd' = None /\ io' = {} /\ timer' = FALSE
  BY DEF tcp_teardown, tcp_close_io, tcp_queue_clear
<1>3. FdOwned'
  BY <1>2, ConnAssumption
     DEF Inv, TypeOK, FdOwned, tcp_teardown, tcp_close_io
<1>4. wire' \o queue' = wire'
  BY <1>2, <1>1 DEF TypeOK
<1>5. InOrder'
  BY <1>2, <1>4 DEF InOrder
<1>6. told' = "ended"
  BY DEF tcp_teardown
<1> QED BY <1>1, <1>2, <1>3, <1>5, <1>6 DEF Inv, Shape, Registered, WriteInterest, FinLast


\* What tcp_flush leaves of a queue whose bytes are numbered up to a.
LEMMA Flushing ==
  ASSUME Inv, NEW q \in Seq(Byte), NEW a \in Nat, Len(wire \o q) = a,
         \A i \in 1..Len(wire \o q) : (wire \o q)[i] = i,
         NEW k \in 0..Len(q), Taken(q, k)
  PROVE  /\ wire' \in Seq(Byte) /\ Len(wire') <= a /\ (k = Len(q) => Len(wire') = a)
         /\ \A i \in 1..Len(wire') : wire'[i] = i
         /\ SubSeq(q, k + 1, Len(q)) \in Seq(Byte)
         /\ Len(wire' \o SubSeq(q, k + 1, Len(q))) = a
         /\ \A i \in 1..Len(wire' \o SubSeq(q, k + 1, Len(q))) :
              (wire' \o SubSeq(q, k + 1, Len(q)))[i] = i
<1> DEFINE h == SubSeq(q, 1, k)
           r == SubSeq(q, k + 1, Len(q))
<1>1. wire \in Seq(Byte) /\ wire' = wire \o h
  BY DEF Inv, TypeOK, Taken
<1>2. h \in Seq(Byte) /\ r \in Seq(Byte) /\ Len(r) = Len(q) - k /\ h \o r = q
  BY Split
<1> HIDE DEF h, r
<1>3. /\ wire' \in Seq(Byte) /\ wire' \o r = wire \o q
      /\ Len(wire \o q) = Len(wire') + Len(r)
      /\ \A i \in 1..Len(wire') : wire'[i] = i
  <2>1. \A i \in 1..Len(wire \o (h \o r)) : (wire \o (h \o r))[i] = i
    BY <1>2
  <2>2. /\ wire \o h \in Seq(Byte)
        /\ (wire \o h) \o r = wire \o (h \o r)
        /\ Len(wire \o (h \o r)) = Len(wire \o h) + Len(r)
        /\ \A i \in 1..Len(wire \o h) : (wire \o h)[i] = i
    BY <1>1, <1>2, <2>1, Flushed
  <2> QED BY <1>1, <1>2, <2>2
<1>4. Len(wire') \in Nat /\ Len(q) \in Nat
  BY <1>3
<1>5. Len(wire') <= a /\ (k = Len(q) => Len(wire') = a)
  <2>1. a = Len(wire') + (Len(q) - k)
    BY <1>2, <1>3
  <2> DEFINE u == Len(wire')
             v == Len(q)
  <2>2. u \in Nat /\ v \in Nat /\ k \in 0..v /\ a = u + (v - k)
    BY <1>4, <2>1
  <2> HIDE DEF u, v
  <2>3. u <= a /\ (k = v => u = a)
    BY <2>2
  <2> QED BY <2>3 DEF u, v
<1>6. Len(wire' \o r) = a /\ \A i \in 1..Len(wire' \o r) : (wire' \o r)[i] = i
  BY <1>3
<1> QED BY <1>2, <1>3, <1>5, <1>6 DEF r

\* A connection that stays open, whose bytes are numbered and whose remaining
\* data has its write callback.
LEMMA Kept ==
  ASSUME Inv, state = "OPEN", state' = "OPEN", accepted' \in Nat,
         wire' \in Seq(Byte), queue' \in Seq(Byte),
         Len(wire' \o queue') = accepted',
         \A i \in 1..Len(wire' \o queue') : (wire' \o queue')[i] = i,
         UNCHANGED <<fd, timer, kernel, caller, life, killer, told, asked, owner, frames>>,
         call' \in Callback \cup {"none"}, pending' \in BOOLEAN, fin' \in BOOLEAN,
         io' \in SUBSET (Callback \ {"timeout"}), io' # {},
         queue' # <<>> => "write" \in io', fin' => queue' = <<>>
  PROVE  Inv'
<1>1. FlagsOK'
  BY Zenon DEF Inv, TypeOK, FlagsOK
<1>2. TypeOK'
  BY <1>1 DEF Inv, TypeOK
<1>3. InOrder'
  BY DEF InOrder
<1>4. Shape' /\ Registered' /\ FdOwned' /\ WriteInterest' /\ FinLast'
  BY DEF Inv, Shape, Registered, FdOwned, WriteInterest, FinLast
<1> QED BY <1>2, <1>3, <1>4 DEF Inv

\* sevent_tcp_conn_write, each outcome of its flush.
LEMMA InvWrite ==
  ASSUME Inv, NEW x \in Thread, NEW n \in 1..MaxByte, sevent_tcp_conn_write(x, n)
  PROVE  Inv'
<1> DEFINE q == tcp_enqueue(n)
           a == accepted + n
<1>1. n \in Nat /\ accepted \in Nat /\ a \in Nat /\ accepted' = a
  BY ConnAssumption DEF Inv, TypeOK, sevent_tcp_conn_write
<1>2. ~destroyed /\ state = "OPEN" /\ UNCHANGED <<life, killer, caller, call, asked>>
  BY DEF sevent_tcp_conn_write, CanCall
<1>3. q \in Seq(Byte) /\ Len(wire \o q) = a /\ \A i \in 1..Len(wire \o q) : (wire \o q)[i] = i
  <2>1. NewBytes(n) \in Seq(Byte) /\ Len(NewBytes(n)) = n
        /\ \A i \in 1..n : NewBytes(n)[i] = accepted + i
    BY <1>1 DEF NewBytes, Byte
  <2>2. wire \in Seq(Byte) /\ queue \in Seq(Byte) /\ Len(wire \o queue) = accepted
        /\ \A i \in 1..Len(wire \o queue) : (wire \o queue)[i] = i
    BY <1>2 DEF Inv, TypeOK, InOrder
  <2>3. \A i \in 1..Len(NewBytes(n)) : NewBytes(n)[i] = Len(wire \o queue) + i
    BY <2>1, <2>2
  <2> DEFINE b == NewBytes(n)
  <2>4. b \in Seq(Byte) /\ Len(b) = n /\ \A i \in 1..Len(b) : b[i] = Len(wire \o queue) + i
    BY <2>1, <2>3
  <2> HIDE DEF b
  <2>5. /\ queue \o b \in Seq(Byte)
        /\ Len(wire \o (queue \o b)) = Len(wire \o queue) + Len(b)
        /\ \A i \in 1..Len(wire \o (queue \o b)) : (wire \o (queue \o b))[i] = i
    BY <2>2, <2>4, Enqueued
  <2>6. q = queue \o b
    BY DEF tcp_enqueue, b
  <2> HIDE DEF q
  <2> QED BY <2>2, <2>4, <2>5, <2>6
<1>4. call' \in Callback \cup {"none"} /\ pending \in BOOLEAN /\ fin \in BOOLEAN
  BY <1>2 DEF Inv, TypeOK, FlagsOK
<1> HIDE DEF q, a
<1>5. CASE /\ flush_done(q) /\ queue' = <<>> /\ tcp_maybe_shutdown_wr
           /\ Quiet /\ UNCHANGED <<state, fd, io, timer, kernel, told>>
  <2>1. Len(q) \in 0..Len(q) /\ Taken(q, Len(q))
    BY <1>3, <1>5 DEF flush_done
  <2>2. wire' \in Seq(Byte) /\ Len(wire') = a /\ \A i \in 1..Len(wire') : wire'[i] = i
    BY <1>1, <1>3, <2>1, Flushing
  <2>3. wire' \o queue' = wire' /\ queue' \in Seq(Byte)
    BY <1>5, <2>2
  <2>4. pending' \in BOOLEAN /\ fin' \in BOOLEAN
    BY <1>4, <1>5, Zenon DEF tcp_maybe_shutdown_wr
  <2>5. io' \in SUBSET (Callback \ {"timeout"}) /\ io' # {}
    BY <1>2, <1>5 DEF Inv, TypeOK, Registered
  <2> QED BY <1>1, <1>2, <1>4, <1>5, <2>2, <2>3, <2>4, <2>5, Kept DEF Quiet
<1>6. ASSUME NEW k \in 0..Len(q), flush_blocked(q, k), queue' = SubSeq(q, k + 1, Len(q)),
             io' = Interest(queue'), Quiet,
             UNCHANGED <<state, fd, timer, kernel, told, pending, fin>>
      PROVE  Inv'
  <2>1. Taken(q, k) /\ ~fin
    BY <1>6 DEF flush_blocked
  <2>2. /\ wire' \in Seq(Byte) /\ queue' \in Seq(Byte) /\ Len(wire' \o queue') = a
        /\ \A i \in 1..Len(wire' \o queue') : (wire' \o queue')[i] = i
    BY <1>1, <1>3, <1>6, <2>1, Flushing
  <2>3. /\ io' \in SUBSET (Callback \ {"timeout"}) /\ io' # {}
        /\ queue' # <<>> => "write" \in io'
    BY <1>6 DEF Interest, Callback
  <2> QED BY <1>1, <1>2, <1>4, <1>6, <2>1, <2>2, <2>3, Kept DEF Quiet
<1>7. ASSUME NEW k \in 0..Len(q), Taken(q, k), NEW c \in {"on_close", "on_error"},
             tcp_teardown(x, c), UNCHANGED <<pending, fin>>
      PROVE  Inv'
  <2>1. wire' \in Seq(Byte) /\ Len(wire') <= a /\ \A i \in 1..Len(wire') : wire'[i] = i
    BY <1>1, <1>3, <1>7, Flushing
  <2> QED BY <1>1, <1>2, <1>4, <1>7, <2>1, Torn
<1> QED BY <1>5, <1>6, <1>7 DEF sevent_tcp_conn_write, flush_failed, flush_blocked, q

\* Steps that leave the connection and its bytes alone.
LEMMA Still ==
  ASSUME Inv, UNCHANGED <<state, fd, io, timer, queue, pending, kernel, caller, wire, fin, accepted, told>>,
         UNCHANGED <<asked, killer, life, owner, frames>>,
         call' \in Callback \cup {"none"}, call' \in {"read", "write"} => state # "OPENING"
  PROVE  Inv'
<1>1. FlagsOK'
  BY Zenon DEF Inv, TypeOK, FlagsOK
<1>2. TypeOK'
  BY <1>1 DEF Inv, TypeOK
<1>3. Shape' /\ Registered' /\ FdOwned' /\ WriteInterest' /\ FinLast' /\ InOrder'
  BY DEF Inv, Shape, Registered, FdOwned, WriteInterest, FinLast, InOrder
<1> QED BY <1>2, <1>3 DEF Inv

\* on_write_ready, each outcome of its flush.
LEMMA InvWriteReady ==
  ASSUME Inv, on_write_ready
  PROVE  Inv'
<1>1. UNCHANGED <<life, killer, caller, accepted, asked>> /\ call' = "none" /\ accepted \in Nat
  BY DEF on_write_ready, Enter, Inv, TypeOK
<1>2. CASE Ignore
  BY <1>1, <1>2, Still DEF Ignore, link
<1>3. CASE ~destroyed /\ state = "OPEN"
  <2>1. /\ queue \in Seq(Byte) /\ Len(wire \o queue) = accepted
        /\ \A i \in 1..Len(wire \o queue) : (wire \o queue)[i] = i
    BY <1>3 DEF Inv, TypeOK, InOrder
  <2>2. pending \in BOOLEAN /\ fin \in BOOLEAN
    BY Zenon DEF Inv, TypeOK, FlagsOK
  <2>3. Len(queue) \in 0..Len(queue)
    BY <2>1
  <2>4. ASSUME flush_done(queue), tcp_maybe_shutdown_wr
        PROVE  /\ wire' \in Seq(Byte) /\ Len(wire') = accepted
               /\ \A i \in 1..Len(wire') : wire'[i] = i
               /\ pending' \in BOOLEAN /\ fin' \in BOOLEAN
    <3>1. Taken(queue, Len(queue))
      BY <2>4 DEF flush_done
    <3>2. /\ wire' \in Seq(Byte) /\ Len(wire') = accepted
          /\ \A i \in 1..Len(wire') : wire'[i] = i
      BY <1>1, <2>1, <2>3, <3>1, Flushing
    <3>3. pending' \in BOOLEAN /\ fin' \in BOOLEAN
      BY <2>2, <2>4, Zenon DEF tcp_maybe_shutdown_wr
    <3> QED BY <3>2, <3>3
  <2>5. CASE /\ flush_done(queue) /\ tcp_maybe_shutdown_wr
             /\ queue' = <<>> /\ io' = Interest(<<>>)
             /\ Quiet /\ UNCHANGED <<state, fd, timer, kernel, told>>
    <3>1. wire' \in Seq(Byte) /\ queue' \in Seq(Byte) /\ wire' \o queue' = wire'
      BY <2>4, <2>5
    <3>2. io' \in SUBSET (Callback \ {"timeout"}) /\ io' # {}
      BY <2>5 DEF Interest, Callback
    <3> QED BY <1>1, <1>3, <2>4, <2>5, <3>1, <3>2, Kept DEF Quiet
  <2>6. CASE /\ flush_done(queue) /\ tcp_maybe_shutdown_wr
             /\ tcp_teardown(Loop, "on_close")
    <3>1. Len(wire') <= accepted' /\ accepted' \in Nat
      BY <1>1, <2>4, <2>6
    <3> QED BY <1>1, <1>3, <2>4, <2>6, <3>1, Torn DEF Thread
  <2>7. ASSUME NEW k \in 0..Len(queue), flush_blocked(queue, k),
               queue' = SubSeq(queue, k + 1, Len(queue)), Quiet,
               UNCHANGED <<state, fd, io, timer, kernel, told, pending, fin>>
        PROVE  Inv'
    <3>1. Taken(queue, k) /\ ~fin /\ queue # <<>>
      BY <2>1, <2>7 DEF flush_blocked
    <3>2. /\ wire' \in Seq(Byte) /\ queue' \in Seq(Byte) /\ Len(wire' \o queue') = accepted
          /\ \A i \in 1..Len(wire' \o queue') : (wire' \o queue')[i] = i
      BY <1>1, <2>1, <2>7, <3>1, Flushing
    <3>3. io' \in SUBSET (Callback \ {"timeout"}) /\ io' # {} /\ "write" \in io'
      BY <1>3, <2>7, <3>1 DEF Inv, TypeOK, WriteInterest
    <3> QED BY <1>1, <1>3, <2>2, <2>7, <3>1, <3>2, <3>3, Kept DEF Quiet
  <2>8. ASSUME NEW k \in 0..Len(queue), flush_failed(Loop, queue, k)
        PROVE  Inv'
    <3>1. Taken(queue, k) /\ tcp_teardown(Loop, "on_error") /\ UNCHANGED <<pending, fin>>
      BY <2>8 DEF flush_failed
    <3>2. wire' \in Seq(Byte) /\ Len(wire') <= accepted /\ \A i \in 1..Len(wire') : wire'[i] = i
      BY <1>1, <2>1, <3>1, Flushing
    <3> QED BY <1>1, <1>3, <2>2, <3>1, <3>2, Torn DEF Thread
  <2> QED BY <1>3, <2>5, <2>6, <2>7, <2>8 DEF on_write_ready
<1> QED BY <1>2, <1>3 DEF on_write_ready

\* open and accept: the new connection starts with a clean record.
LEMMA Fresh ==
  ASSUME Inv, NEW f \in Fd, NEW c \in {"connect", "first"}, Established(f, {c}),
         state = "IDLE", timer' \in BOOLEAN, call = "none",
         kernel' \in SUBSET Fd, caller' \in SUBSET kernel', f \notin caller',
         kernel' = caller' \cup {f},
         UNCHANGED <<queue, pending, life, killer, call, owner, frames>>
  PROVE  Inv'
<1>1. FlagsOK'
  BY Zenon DEF Inv, TypeOK, FlagsOK, Established
<1>2. queue' = <<>> /\ wire' = <<>> /\ accepted' = 0
  BY DEF Inv, Shape, Established
<1>3. TypeOK'
  BY <1>1, <1>2 DEF Inv, TypeOK, Established, Callback
<1>4. InOrder'
  BY <1>2 DEF InOrder, Established
<1>5. Shape'
  BY <1>2 DEF Shape, Established
<1>6. Registered' /\ FdOwned' /\ WriteInterest' /\ FinLast'
  BY <1>2, ConnAssumption DEF Registered, FdOwned, WriteInterest, FinLast, Established
<1> QED BY <1>3, <1>4, <1>5, <1>6 DEF Inv

\* open, accept, and the descriptors of the application.
LEMMA InvApp ==
  ASSUME Inv, App
  PROVE  Inv'
<1>1. PICK f \in Fd :
        \/ sevent_tcp_conn_open(f) \/ open_fails(f) \/ app_accept(f) \/ app_close(f)
        \/ sevent_tcp_conn_accept(f)
  BY DEF App
<1>2. CASE sevent_tcp_conn_open(f)
  <2>1. fd = None /\ kernel = caller /\ kernel \in SUBSET Fd
    BY <1>2 DEF sevent_tcp_conn_open, CanOpen, Inv, TypeOK, Registered, FdOwned
  <2>2. /\ kernel' \in SUBSET Fd /\ caller' \in SUBSET kernel' /\ f \notin caller'
        /\ kernel' = caller' \cup {f}
    BY <1>2, <2>1 DEF sevent_tcp_conn_open
  <2> QED BY <1>2, <2>2, Fresh DEF sevent_tcp_conn_open, CanOpen
<1>3. CASE open_fails(f)
  BY <1>3, Still DEF open_fails, vars, link, history, Inv, TypeOK, Shape
<1>4. CASE app_accept(f) \/ app_close(f)
  <2>1. FlagsOK'
    BY <1>4, Zenon DEF app_accept, app_close, link, history, Inv, TypeOK, FlagsOK
  <2>2. TypeOK'
    BY <1>4, <2>1 DEF app_accept, app_close, link, history, Inv, TypeOK
  <2>3. FdOwned'
    <3>1. fd \notin caller /\ kernel = caller \cup ({fd} \ {None}) /\ fd' = fd /\ f # None
      BY <1>4, ConnAssumption DEF app_accept, app_close, link, Inv, FdOwned
    <3>2. CASE app_accept(f)
      BY <3>1, <3>2 DEF app_accept, FdOwned
    <3>3. CASE app_close(f)
      BY <3>1, <3>3 DEF app_close, FdOwned
    <3> QED BY <1>4, <3>2, <3>3
  <2>4. Shape' /\ Registered' /\ WriteInterest' /\ FinLast' /\ InOrder'
    BY <1>4 DEF app_accept, app_close, link, history, Inv, Shape, Registered, WriteInterest,
                FinLast, InOrder
  <2> QED BY <2>2, <2>3, <2>4 DEF Inv
<1>5. CASE sevent_tcp_conn_accept(f)
  <2>1. fd = None /\ kernel = caller /\ kernel \in SUBSET Fd /\ timer \in BOOLEAN
    BY <1>5 DEF sevent_tcp_conn_accept, CanOpen, Inv, TypeOK, FlagsOK, Registered, FdOwned
  <2>2. /\ kernel' \in SUBSET Fd /\ caller' \in SUBSET kernel' /\ f \notin caller'
        /\ kernel' = caller' \cup {f} /\ timer' \in BOOLEAN
    BY <1>5, <2>1 DEF sevent_tcp_conn_accept
  <2> QED BY <1>5, <2>2, Fresh DEF sevent_tcp_conn_accept, CanOpen
<1> QED BY <1>1, <1>2, <1>3, <1>4, <1>5

\* sevent_tcp_conn_close, also as part of destroy.
LEMMA InvClosed ==
  ASSUME Inv, Closed, killer' = killer,
         life' \in {"alive", "marked", "closed", "posted", "freed", "dropped"}
  PROVE  Inv'
<1>1. /\ state' = "IDLE" /\ queue' = <<>> /\ fd' = None /\ io' = {} /\ timer' = FALSE
      /\ told' = "ended" /\ kernel' = kernel \ {fd}
      /\ UNCHANGED <<pending, caller, call, owner, frames, wire, fin, accepted, asked>>
  BY DEF Closed, tcp_close_io, tcp_queue_clear
<1>2. FlagsOK'
  BY <1>1, Zenon DEF Inv, TypeOK, FlagsOK
<1>3. TypeOK'
  BY <1>1, <1>2 DEF Inv, TypeOK, FdOwned
<1>4. InOrder'
  <2>1. wire \in Seq(Byte) /\ queue \in Seq(Byte) /\ wire' \o queue' = wire
    BY <1>1 DEF Inv, TypeOK
  <2>2. Len(wire) <= Len(wire \o queue) /\ \A i \in 1..Len(wire) : (wire \o queue)[i] = wire[i]
    BY <2>1
  <2>3. Len(wire \o queue) <= accepted /\ \A i \in 1..Len(wire \o queue) : (wire \o queue)[i] = i
    BY DEF Inv, InOrder
  <2>4. Len(wire) \in Nat /\ Len(wire \o queue) \in Nat /\ accepted \in Nat
    BY <2>1 DEF Inv, TypeOK
  <2>5. Len(wire) <= accepted /\ \A i \in 1..Len(wire) : wire[i] = i
    BY <2>2, <2>3, <2>4
  <2> QED BY <1>1, <2>1, <2>5 DEF InOrder
<1>5. FdOwned'
  BY <1>1, ConnAssumption DEF Inv, TypeOK, FdOwned
<1>6. Shape' /\ Registered' /\ WriteInterest' /\ FinLast'
  BY <1>1 DEF Shape, Registered, WriteInterest, FinLast
<1> QED BY <1>3, <1>4, <1>5, <1>6 DEF Inv

\* The stack without its last callback.
LEMMA Popped ==
  ASSUME NEW S, NEW s \in Seq(S), s # <<>>
  PROVE  /\ SubSeq(s, 1, Len(s) - 1) \in Seq(S)
         /\ Len(SubSeq(s, 1, Len(s) - 1)) = Len(s) - 1
         /\ SubSeq(s, 1, Len(s) - 1) = <<>> <=> Len(s) = 1
<1> DEFINE t == SubSeq(s, 1, Len(s) - 1)
<1>1. Len(s) \in Nat \ {0}
  OBVIOUS
<1>2. t \in Seq(S) /\ Len(t) = Len(s) - 1
  <2> DEFINE m == Len(s) - 1
  <2>1. m \in Int /\ 1 \in Int /\ \A i \in 1..m : s[i] \in S
    BY <1>1
  <2>2. m = 0 \/ 1 <= m
    <3>1. \A l \in Nat \ {0} : l - 1 = 0 \/ 1 <= l - 1
      OBVIOUS
    <3> QED BY <1>1, <3>1, Zenon
  <2> HIDE DEF m
  <2>3. /\ SubSeq(s, 1, m) \in Seq(S)
        /\ Len(SubSeq(s, 1, m)) = IF 1 <= m THEN m - 1 + 1 ELSE 0
    BY <2>1, SubSeqProperties
  <2>4. Len(SubSeq(s, 1, m)) = m
    BY <2>1, <2>2, <2>3
  <2> QED BY <2>3, <2>4 DEF m
<1> HIDE DEF t
<1>3. t = <<>> <=> Len(t) = 0
  BY <1>2, EmptySeq
<1> QED BY <1>1, <1>2, <1>3 DEF t

\* shutdown, close, the steps of destroy and the return of user callbacks.
LEMMA InvCalls ==
  ASSUME Inv, NEW x \in Thread,
         \/ sevent_tcp_conn_shutdown(x) \/ sevent_tcp_conn_close(x)
         \/ sevent_tcp_conn_destroy(x) \/ DestroyStep(x) \/ callback_return(x) \/ tcp_cleanup
  PROVE  Inv'
<1>1. CASE sevent_tcp_conn_shutdown(x)
  <2>1. FlagsOK'
    BY <1>1, Zenon DEF sevent_tcp_conn_shutdown, link, Inv, TypeOK, FlagsOK
  <2>2. TypeOK'
    BY <1>1, <2>1 DEF sevent_tcp_conn_shutdown, link, Inv, TypeOK
  <2>3. Shape' /\ Registered' /\ FdOwned' /\ WriteInterest' /\ FinLast' /\ InOrder'
    BY <1>1 DEF sevent_tcp_conn_shutdown, link, Inv, Shape, Registered, FdOwned, WriteInterest,
                FinLast, InOrder
  <2> QED BY <2>2, <2>3 DEF Inv
<1>2. CASE sevent_tcp_conn_close(x)
  BY <1>2, InvClosed DEF sevent_tcp_conn_close, Inv, TypeOK
<1>3. CASE destroy_close(x)
  BY <1>3, InvClosed DEF destroy_close
<1>4. CASE \/ sevent_tcp_conn_destroy(x) \/ destroy_post(x) \/ destroy_post_fails(x)
           \/ callback_return(x) \/ tcp_cleanup
  <2>1. UNCHANGED <<link, pending, kernel, caller, call, wire, fin, history>>
    BY <1>4 DEF sevent_tcp_conn_destroy, destroy_post, destroy_post_fails, callback_return,
                tcp_cleanup
  <2>2. FlagsOK'
    BY <2>1, Zenon DEF link, history, Inv, TypeOK, FlagsOK
  <2>3. /\ life' \in {"alive", "marked", "closed", "posted", "freed", "dropped"}
        /\ killer' \in Thread \cup {None}
    BY <1>4 DEF sevent_tcp_conn_destroy, destroy_post, destroy_post_fails, callback_return,
                tcp_cleanup, Inv, TypeOK
  <2>4. /\ owner' \in Thread \cup {None}
        /\ frames' \in Seq(Notification)
        /\ (owner' = None <=> frames' = <<>>)
    <3>1. CASE callback_return(x)
      <4>1. frames # <<>> /\ x # None /\ frames' = SubSeq(frames, 1, Len(frames) - 1)
        BY <3>1, ConnAssumption DEF callback_return, Front, Inv, TypeOK
      <4>2. frames \in Seq(Notification)
        BY DEF Inv, TypeOK
      <4>3. /\ SubSeq(frames, 1, Len(frames) - 1) \in Seq(Notification)
            /\ SubSeq(frames, 1, Len(frames) - 1) = <<>> <=> Len(frames) = 1
        BY <4>1, <4>2, Popped
      <4> QED BY <3>1, <4>1, <4>3 DEF callback_return
    <3>2. CASE UNCHANGED <<owner, frames>>
      BY <3>2 DEF Inv, TypeOK
    <3> QED BY <1>4, <3>1, <3>2
            DEF sevent_tcp_conn_destroy, destroy_post, destroy_post_fails, tcp_cleanup
  <2>5. TypeOK'
    BY <2>1, <2>2, <2>3, <2>4 DEF link, history, Inv, TypeOK
  <2>6. Shape' /\ Registered' /\ FdOwned' /\ WriteInterest' /\ FinLast' /\ InOrder'
    BY <2>1 DEF link, history, Inv, Shape, Registered, FdOwned, WriteInterest, FinLast, InOrder
  <2> QED BY <2>5, <2>6 DEF Inv
<1> QED BY <1>1, <1>2, <1>3, <1>4 DEF DestroyStep

\* The loop's decision to call changes nothing of the connection.
LEMMA InvSelect ==
  ASSUME Inv, NEW c \in Callback, select_call(c)
  PROVE  Inv'
<1>1. c \in {"read", "write"} => state # "OPENING"
  BY DEF select_call, Inv, Shape, TypeOK
<1> QED BY <1>1, Still DEF select_call, link, history

\* The callbacks that establish a connection or give it up.
LEMMA InvEstablish ==
  ASSUME Inv, ~destroyed, state = "OPENING", call' = "none",
         UNCHANGED <<life, killer, caller, accepted, asked, wire, pending, fin>>,
         Opened \/ \E k \in {"on_close", "on_error"} : tcp_teardown(Loop, k)
  PROVE  Inv'
<1>1. /\ wire = <<>> /\ queue = <<>> /\ accepted = 0 /\ ~fin
      /\ pending \in BOOLEAN /\ fin \in BOOLEAN /\ asked \in BOOLEAN
  BY DEF Inv, Shape, TypeOK, FlagsOK
<1>2. /\ wire' \in Seq(Byte) /\ (\A i \in 1..Len(wire') : wire'[i] = i)
      /\ Len(wire') <= accepted' /\ accepted' \in Nat
  BY <1>1
<1>3. ASSUME NEW k \in {"on_close", "on_error"}, tcp_teardown(Loop, k) PROVE Inv'
  BY <1>1, <1>2, <1>3, Torn DEF Thread
<1>4. CASE /\ state' = "OPEN" /\ timer' = FALSE /\ io' = Interest(queue)
           /\ told' = "opened" /\ Notify(Loop, "on_open")
           /\ UNCHANGED <<fd, queue, kernel>>
  <2>1. FlagsOK'
    BY <1>1, <1>4, Zenon DEF FlagsOK
  <2>2. /\ owner' \in Thread \cup {None} /\ frames' \in Seq(Notification)
        /\ (owner' = None <=> frames' = <<>>)
    BY <1>4, Notified DEF Thread, Notification, Inv
  <2>3. io' = {"read"}
    BY <1>1, <1>4 DEF Interest
  <2>4. TypeOK'
    BY <1>4, <2>1, <2>2, <2>3 DEF Inv, TypeOK, Callback
  <2>5. InOrder'
    BY <1>1, <1>4 DEF InOrder
  <2>6. Shape' /\ Registered' /\ FdOwned' /\ WriteInterest' /\ FinLast'
    BY <1>1, <1>4, <2>3 DEF Inv, Shape, Registered, FdOwned, WriteInterest, FinLast
  <2> QED BY <2>4, <2>5, <2>6 DEF Inv
<1> QED BY <1>3, <1>4 DEF Opened

\* Every callback of the loop.
LEMMA InvHandlers ==
  ASSUME Inv, on_connect_ready \/ on_connect_timeout \/ on_first_ready \/ on_readable
  PROVE  Inv'
<1>1. call' = "none" /\ UNCHANGED <<life, killer, caller, accepted, asked>>
  BY DEF on_connect_ready, on_connect_timeout, on_first_ready, on_readable, Enter
<1>2. CASE Ignore
  BY <1>1, <1>2, Still DEF Ignore, link
<1>3. CASE ~destroyed /\ state = "OPENING"
           /\ (on_connect_ready \/ on_connect_timeout \/ on_first_ready)
  BY <1>1, <1>3, InvEstablish DEF on_connect_ready, on_connect_timeout, on_first_ready
<1>4. CASE Notify(Loop, "on_data") /\ UNCHANGED <<link, kernel, told, wire, pending, fin>>
  <2>1. FlagsOK'
    BY <1>1, <1>4, Zenon DEF link, Inv, TypeOK, FlagsOK
  <2>2. /\ owner' \in Thread \cup {None} /\ frames' \in Seq(Notification)
        /\ (owner' = None <=> frames' = <<>>)
    BY <1>4, Notified DEF Thread, Notification, Inv
  <2>3. TypeOK'
    BY <1>1, <1>4, <2>1, <2>2 DEF link, Inv, TypeOK
  <2>4. Shape' /\ Registered' /\ FdOwned' /\ WriteInterest' /\ FinLast' /\ InOrder'
    BY <1>1, <1>4 DEF link, Inv, Shape, Registered, FdOwned, WriteInterest, FinLast, InOrder
  <2> QED BY <2>3, <2>4 DEF Inv
<1>5. ASSUME NEW k \in {"on_close", "on_error"}, ~destroyed, tcp_teardown(Loop, k),
             UNCHANGED <<wire, pending, fin>>
      PROVE  Inv'
  <2>1. CASE state = "IDLE"
    BY <1>1, <1>5, <2>1, Still DEF tcp_teardown, link, Quiet
  <2>2. CASE state # "IDLE"
    <3>1. wire \in Seq(Byte) /\ queue \in Seq(Byte) /\ accepted \in Nat
      BY DEF Inv, TypeOK
    <3>2. /\ Len(wire) <= Len(wire \o queue)
          /\ \A i \in 1..Len(wire) : (wire \o queue)[i] = wire[i]
      BY <3>1
    <3>3. /\ Len(wire \o queue) <= accepted
          /\ \A i \in 1..Len(wire \o queue) : (wire \o queue)[i] = i
      BY DEF Inv, InOrder
    <3>4. Len(wire) \in Nat /\ Len(wire \o queue) \in Nat
      BY <3>1
    <3>5. Len(wire) <= accepted /\ \A i \in 1..Len(wire) : wire[i] = i
      BY <3>1, <3>2, <3>3, <3>4
    <3>6. pending' \in BOOLEAN /\ fin' \in BOOLEAN
      BY <1>5, Zenon DEF Inv, TypeOK, FlagsOK
    <3> QED BY <1>1, <1>5, <2>2, <3>1, <3>5, <3>6, Torn DEF Thread
  <2> QED BY <2>1, <2>2
<1>6. CASE on_readable
  BY <1>2, <1>4, <1>5, <1>6 DEF on_readable
<1> QED BY <1>2, <1>3, <1>6 DEF on_connect_ready, on_connect_timeout, on_first_ready

\* Inv holds in every reachable state.
THEOREM InvHolds == Spec => []Inv
<1>1. Init => Inv
  BY InvInit
<1>2. Inv /\ [Next]_vars => Inv'
  <2> SUFFICES ASSUME Inv, [Next]_vars PROVE Inv'
    OBVIOUS
  <2>1. CASE UNCHANGED vars
    BY <2>1, Still DEF vars, link, history, Inv, TypeOK, Shape
  <2>2. CASE App
    BY <2>2, InvApp
  <2>3. ASSUME NEW x \in Thread, Api(x) \/ DestroyStep(x) \/ callback_return(x)
        PROVE  Inv'
    BY <2>3, InvWrite, InvCalls DEF Api
  <2>4. ASSUME NEW c \in Callback, select_call(c) PROVE Inv'
    BY <2>4, InvSelect
  <2>5. CASE Handler
    BY <2>5, InvHandlers, InvWriteReady DEF Handler
  <2>6. CASE tcp_cleanup
    <3>1. Loop \in Thread
      BY DEF Thread
    <3> QED BY <2>6, <3>1, InvCalls
  <2> QED BY <2>1, <2>2, <2>3, <2>4, <2>5, <2>6 DEF Next
<1> QED BY <1>1, <1>2, PTL DEF Spec

-------------------------------------------------------------------------------

\* The connection object keeps its types, and t->lock is held exactly while
\* user callbacks are in progress.
THEOREM TypeCorrect == Spec => []TypeOK
BY InvHolds, PTL DEF Inv

\* Bytes accepted by sevent_tcp_conn_write reach the kernel once and in order.
THEOREM InOrderHolds == Spec => []InOrder
BY InvHolds, PTL DEF Inv

\* Data left by tcp_flush always has on_write_ready registered for it.
THEOREM WriteInterestHolds == Spec => []WriteInterest
BY InvHolds, PTL DEF Inv

\* SHUT_WR is never sent ahead of queued data.
THEOREM FinLastHolds == Spec => []FinLast
BY InvHolds, PTL DEF Inv

\* Handle, descriptor and timer are registered exactly as the state says.
THEOREM RegisteredHolds == Spec => []Registered
BY InvHolds, PTL DEF Inv

\* No descriptor leaks and none is closed twice.
THEOREM FdOwnedHolds == Spec => []FdOwned
BY InvHolds, PTL DEF Inv

\* The user is notified in the order on_open, on_data, on_close or on_error,
\* late callbacks of the loop included.
THEOREM CallbackOrderHolds == Spec => CallbackOrder
<1> DEFINE A == /\ Starts("on_open") => told = "fresh"
                /\ Starts("on_data") => told = "opened"
                /\ Starts("on_close") \/ Starts("on_error") => told \in {"fresh", "opened"}
<1>1. Inv /\ [Next]_vars => [A]_vars
  <2> SUFFICES ASSUME Inv, Next PROVE A
    OBVIOUS
  <2>1. frames \in Seq(Notification) /\ state \in {"IDLE", "OPENING", "OPEN"}
    BY DEF Inv, TypeOK
  <2>2. /\ state = "OPENING" => told = "fresh"
        /\ state = "OPEN" => told = "opened"
        /\ state # "IDLE" => told \in {"fresh", "opened"}
    BY <2>1 DEF Inv, Shape
  <2>3. ASSUME NEW x \in Thread, NEW k \in Notification, Notify(x, k), NEW j \in Notification,
               Starts(j)
        PROVE  j = k
    BY <2>1, <2>3 DEF Notify, Starts, Last
  <2>4. ASSUME UNCHANGED frames, NEW j, Starts(j) PROVE FALSE
    BY <2>1, <2>4 DEF Starts
  <2>5. ASSUME NEW x \in Thread, NEW k \in {"on_close", "on_error"}, tcp_teardown(x, k) PROVE A
    <3>1. CASE state = "IDLE" \/ destroyed
      BY <2>4, <2>5, <3>1 DEF tcp_teardown, Quiet
    <3>2. CASE state # "IDLE" /\ ~destroyed
      BY <2>2, <2>3, <2>5, <3>2 DEF tcp_teardown, Notification
    <3> QED BY <3>1, <3>2
  <2>6. ASSUME Opened, state = "OPENING" PROVE A
    BY <2>2, <2>3, <2>5, <2>6 DEF Opened, Notification, Thread
  <2>7. CASE on_connect_ready \/ on_connect_timeout \/ on_first_ready
    BY <2>4, <2>5, <2>6, <2>7
       DEF on_connect_ready, on_connect_timeout, on_first_ready, Ignore, Thread
  <2>8. CASE on_readable
    <3>1. fd # None => state = "OPEN"
      BY <2>1, <2>8 DEF on_readable, Enter, Inv, Shape, Registered
    <3> QED BY <2>2, <2>3, <2>4, <2>5, <2>8, <3>1
            DEF on_readable, Ignore, Notification, Thread
  <2>9. CASE on_write_ready
    BY <2>4, <2>5, <2>9 DEF on_write_ready, Ignore, Quiet, flush_failed, Thread
  <2>10. ASSUME NEW x \in Thread, NEW n \in 1..MaxByte, sevent_tcp_conn_write(x, n) PROVE A
    BY <2>4, <2>5, <2>10 DEF sevent_tcp_conn_write, Quiet, flush_failed
  <2>11. ASSUME NEW x \in Thread, callback_return(x) PROVE A
    <3>1. frames # <<>>
      BY <2>11, ConnAssumption DEF callback_return, Inv, TypeOK
    <3>2. Len(SubSeq(frames, 1, Len(frames) - 1)) = Len(frames) - 1
      BY <2>1, <3>1, Popped
    <3>3. Len(frames) \in Nat /\ Len(frames') = Len(frames) - 1
      BY <2>1, <2>11, <3>2 DEF callback_return, Front
    <3> QED BY <3>3 DEF Starts
  <2>12. ASSUME NEW x \in Thread,
                \/ sevent_tcp_conn_shutdown(x) \/ sevent_tcp_conn_close(x)
                \/ sevent_tcp_conn_destroy(x) \/ DestroyStep(x)
         PROVE  A
    BY <2>4, <2>12 DEF sevent_tcp_conn_shutdown, sevent_tcp_conn_close, Closed,
       sevent_tcp_conn_destroy, DestroyStep, destroy_close, destroy_post, destroy_post_fails
  <2>13. CASE App \/ tcp_cleanup \/ \E c \in Callback : select_call(c)
    BY <2>4, <2>13 DEF App, sevent_tcp_conn_open, open_fails, app_accept, app_close,
       sevent_tcp_conn_accept, tcp_cleanup, select_call, vars
  <2> QED BY <2>7, <2>8, <2>9, <2>10, <2>11, <2>12, <2>13 DEF Next, Api, Handler
<1> QED BY <1>1, InvHolds, PTL DEF Spec, CallbackOrder

-------------------------------------------------------------------------------

\* How far destroy has come bounds who can still be inside the object: once it
\* has closed the connection only the loop, which runs tcp_cleanup itself.
LifeInv ==
  /\ life # "alive" => killer \in Thread
  /\ life = "marked" => owner # killer \/ killer = Loop
  /\ life \in {"closed", "posted", "freed", "dropped"} => state = "IDLE" /\ owner \in {None, Loop}
  /\ life = "freed" => call = "none" /\ owner = None

\* sevent_tcp_conn_destroy is safe in callbacks of the loop thread and outside
\* callbacks in any thread: tcp_cleanup finds no call in progress on the object.
\* Not covered: a callback in another thread, which the run tcp_destroy refutes,
\* and the release at once when sevent_post fails.
THEOREM NoUseAfterFreeHolds ==
  ASSUME "worker_cb" \notin DestroyAt
  PROVE  Spec => []NoUseAfterFree
<1>1. Init => LifeInv
  BY DEF Init, LifeInv
<1>2. Inv /\ LifeInv /\ [Next]_vars => LifeInv'
  <2> SUFFICES ASSUME Inv, LifeInv, [Next]_vars PROVE LifeInv'
    OBVIOUS
  <2>1. Loop \in Thread /\ None \notin Thread
    BY ConnAssumption DEF Thread
  <2>2. ASSUME life = "alive", life' = life PROVE LifeInv'
    BY <2>2 DEF LifeInv
  <2>3. ASSUME UNCHANGED <<life, killer, owner, state>>, call' = call \/ call' = "none"
        PROVE  LifeInv'
    BY <2>3 DEF LifeInv
  <2>4. CASE UNCHANGED vars
    BY <2>3, <2>4 DEF vars, link
  <2>5. CASE App
    <3>1. PICK f \in Fd :
            \/ sevent_tcp_conn_open(f) \/ open_fails(f) \/ app_accept(f) \/ app_close(f)
            \/ sevent_tcp_conn_accept(f)
      BY <2>5 DEF App
    <3>2. CASE sevent_tcp_conn_open(f) \/ sevent_tcp_conn_accept(f)
      BY <2>2, <3>2 DEF sevent_tcp_conn_open, sevent_tcp_conn_accept, CanOpen, destroyed
    <3>3. CASE open_fails(f) \/ app_accept(f) \/ app_close(f)
      BY <2>3, <3>3 DEF open_fails, app_accept, app_close, vars, link
    <3> QED BY <3>1, <3>2, <3>3
  <2>6. ASSUME NEW x \in Thread,
               \/ \E n \in 1..MaxByte : sevent_tcp_conn_write(x, n)
               \/ sevent_tcp_conn_shutdown(x) \/ sevent_tcp_conn_close(x)
        PROVE  LifeInv'
    BY <2>2, <2>6 DEF sevent_tcp_conn_write, sevent_tcp_conn_shutdown, sevent_tcp_conn_close,
       CanCall, destroyed
  <2>7. ASSUME NEW x \in Thread, sevent_tcp_conn_destroy(x) PROVE LifeInv'
    BY <2>1, <2>7 DEF sevent_tcp_conn_destroy, Where, LifeInv
  <2>8. ASSUME NEW x \in Thread, destroy_close(x) PROVE LifeInv'
    BY <2>1, <2>8 DEF destroy_close, Closed, LifeInv
  <2>9. ASSUME NEW x \in Thread, destroy_post(x) \/ destroy_post_fails(x) PROVE LifeInv'
    BY <2>9 DEF destroy_post, destroy_post_fails, link, LifeInv
  <2>10. ASSUME NEW x \in Thread, callback_return(x) PROVE LifeInv'
    BY <2>1, <2>10 DEF callback_return, link, LifeInv
  <2>11. ASSUME NEW c \in Callback, select_call(c) PROVE LifeInv'
    <3>1. state # "IDLE"
      BY <2>11 DEF select_call, Inv, Registered
    <3> QED BY <2>11, <3>1 DEF select_call, link, LifeInv
  <2>12. CASE Handler
    <3>1. life' = life /\ killer' = killer /\ call' = "none"
      BY <2>12 DEF Handler, on_connect_ready, on_connect_timeout, on_first_ready, on_readable,
         on_write_ready, Enter
    <3>2. CASE destroyed
      <4>1. UNCHANGED <<state, owner>>
        BY <2>12, <3>2 DEF Handler, on_connect_ready, on_connect_timeout, on_first_ready,
           on_readable, on_write_ready, Ignore, link
      <4> QED BY <2>3, <3>1, <4>1
    <3>3. CASE ~destroyed
      BY <2>2, <3>1, <3>3 DEF destroyed
    <3> QED BY <3>2, <3>3
  <2>13. CASE tcp_cleanup
    BY <2>13 DEF tcp_cleanup, LoopFree, link, LifeInv
  <2> QED BY <2>4, <2>5, <2>6, <2>7, <2>8, <2>9, <2>10, <2>11, <2>12, <2>13
          DEF Next, Api, DestroyStep
<1>3. Inv /\ LifeInv => NoUseAfterFree
  BY DEF Inv, TypeOK, LifeInv, NoUseAfterFree
<1> QED BY <1>1, <1>2, <1>3, InvHolds, PTL DEF Spec
===============================================================================
