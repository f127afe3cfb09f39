--------------------------- MODULE HttpServerProofs ---------------------------
(***************************************************************************)
(* Proofs about HttpServer, for any connections, buffer sizes, budgets and *)
(* traffic.                                                                *)
(***************************************************************************)
EXTENDS HttpServer, DataLemmas

\* Frames of a request's callback, and frames that may be on top of any other.
Callback == {"on_request", "on_upgrade", "no_upgrade"}
Upper == {"on_conn_close", "walk", "walk_close"}

\* How frames are nested: at the bottom conn_on_data's loop or on_accept, then
\* http_process, then the callback of the request it has dispatched.
Shape(s) ==
  \A i \in 1 .. Len(s) :
    /\ s[i].f \in {"overflow", "on_accept"} => i = Len(s)
    /\ s[i].f = "process" =>
         \/ i = Len(s)
         \/ i + 1 = Len(s) /\ s[i + 1].f = "overflow" /\ s[i + 1].c = s[i].c
    /\ s[i].f \in Callback => i + 1 <= Len(s) /\ s[i + 1].f = "process" /\ s[i + 1].c = s[i].c
    /\ s[i].f = "no_upgrade" => i = 1

StackOK(s) == s \in Seq(Frame) /\ Shape(s)

\* The callback of a request that is running.
Callbacks(s) == {fr \in ToSet(s) : fr.f \in Callback}

Active == {"PARSING", "REQUEST", "AWAIT_RESP", "RESPONDING"}

\* Where the buffer of a connection is in the numbering of its cells, without
\* and with a callback running.
Position(c) ==
  LET base == cells[c] - Len(recv[c])
  IN /\ Len(recv[c]) <= cells[c]
     /\ \A i \in 1 .. Len(recv[c]) : recv[c][i].n = base + i
     /\ (\A fr \in Callbacks(stack) : fr.c # c) => last[c] = base
     /\ \A fr \in Callbacks(stack) : fr.c = c => fr.n \in 1 .. Len(recv[c]) /\ last[c] = base + fr.n

\* The buffers, and the data that conn_on_data still holds.
BufferInv ==
  /\ \A c \in Conn : state[c] \in {"NONE", "NEW"} => recv[c] = <<>> /\ cells[c] = 0 /\ last[c] = 0
  /\ \A c \in Conn : state[c] \in Active => Position(c)
  /\ \A fr \in ToSet(stack) : fr.f = "overflow" => \A i \in 1 .. Len(fr.d) : fr.d[i].n = cells[fr.c] + i
  /\ \A c \in stream : state[c] # "NONE"

Inv == TypeOK /\ StackOK(stack) /\ BufferInv

-------------------------------------------------------------------------------
(* Frames and stacks. *)

\* The fields of a frame.
LEMMA FrameFields ==
  ASSUME NEW fr \in Frame
  PROVE  /\ fr.f \in {"process", "on_accept", "on_request", "on_upgrade", "no_upgrade", "on_conn_close"} =>
              fr.c \in Conn /\ fr.n \in Nat
         /\ fr.f = "overflow" => fr.c \in Conn /\ fr.n \in Nat /\ fr.d \in Seq(Cell)
         /\ fr.f = "walk" => fr.c \in Conn \cup {None}
         /\ fr.f = "walk_close" => fr.c \in Conn /\ fr.next \in Conn \cup {None}
         /\ fr.f \in Callback \cup Upper \cup {"process", "on_accept", "overflow"}
BY DEF Frame, Callback, Upper

\* The frames that the code pushes.
LEMMA FrameMake ==
  /\ \A c \in Conn, n \in Nat :
       \A f \in {"process", "on_accept", "on_request", "on_upgrade", "no_upgrade", "on_conn_close"} :
         [f |-> f, c |-> c, n |-> n] \in Frame
  /\ \A c \in Conn, n \in Nat, d \in Seq(Cell) : [f |-> "overflow", c |-> c, n |-> n, d |-> d] \in Frame
  /\ \A c \in Conn \cup {None} : [f |-> "walk", c |-> c] \in Frame
  /\ \A c \in Conn, m \in Conn \cup {None} : [f |-> "walk_close", c |-> c, next |-> m] \in Frame
BY DEF Frame

\* The frame of http_process and that of conn_on_data's loop with another count.
LEMMA FrameCount ==
  ASSUME NEW fr \in Frame, fr.f \in {"process", "overflow"}, NEW n \in Nat
  PROVE  /\ [fr EXCEPT !.n = n] \in Frame
         /\ [fr EXCEPT !.n = n].f = fr.f /\ [fr EXCEPT !.n = n].c = fr.c
         /\ fr.f = "overflow" => [fr EXCEPT !.n = n].d = fr.d
<1>1. CASE fr.f = "process"
  <2>1. fr \in [f : {"process", "on_accept", "on_request", "on_upgrade", "no_upgrade", "on_conn_close"},
                c : Conn, n : Nat]
    BY <1>1 DEF Frame
  <2> QED BY <1>1, <2>1 DEF Frame
<1>2. CASE fr.f = "overflow"
  <2>1. fr \in [f : {"overflow"}, c : Conn, n : Nat, d : Seq(Cell)]
    BY <1>2 DEF Frame
  <2> QED BY <1>2, <2>1 DEF Frame
<1> QED BY <1>1, <1>2

\* What the shape says of the innermost frame.
LEMMA TopFrame ==
  ASSUME NEW s, StackOK(s), s # <<>>
  PROVE  /\ Head(s) = s[1] /\ s[1] \in Frame /\ Tail(s) \in Seq(Frame)
         /\ s[1].f \in {"overflow", "on_accept"} => Tail(s) = <<>>
         /\ s[1].f = "process" => /\ Tail(s) = <<>> \/ (Tail(s)[1].f = "overflow" /\ Tail(Tail(s)) = <<>>)
                                  /\ Callbacks(s) = {}
         /\ s[1].f \in Callback => Tail(s) # <<>> /\ Callbacks(s) = {s[1]} /\ Callbacks(Tail(s)) = {}
                                   /\ Tail(s)[1].f = "process" /\ Tail(s)[1].c = s[1].c
         /\ s[1].f \notin Callback => Callbacks(Tail(s)) = Callbacks(s)
         /\ Tail(s) # <<>> => Tail(s)[1].f # "no_upgrade"
<1> DEFINE n == Len(s)
<1>1. /\ n \in Nat \ {0} /\ Head(s) = s[1] /\ s[1] \in Frame /\ Tail(s) \in Seq(Frame) /\ Len(Tail(s)) = n - 1
      /\ \A i \in 1 .. (n - 1) : Tail(s)[i] = s[i + 1]
      /\ ToSet(s) = ToSet(Tail(s)) \cup {s[1]}
      /\ DOMAIN s = 1 .. n /\ DOMAIN Tail(s) = 1 .. (n - 1)
  BY Pop DEF StackOK
<1>2. \A t \in Seq(Frame) : Len(t) = 0 => t = <<>>
  BY EmptySeq
<1>8. ASSUME NEW i \in 1 .. n
      PROVE  /\ s[i].f \in {"overflow", "on_accept"} => i = n
             /\ s[i].f = "process" => i = n \/ (i + 1 = n /\ s[i + 1].f = "overflow")
             /\ s[i].f \in Callback => i + 1 <= n /\ s[i + 1].f = "process" /\ s[i + 1].c = s[i].c
             /\ s[i].f = "no_upgrade" => i = 1
  BY DEF StackOK, Shape
<1> HIDE DEF n
<1>9. 1 \in 1 .. n /\ 1 + 1 = 2 /\ 2 + 1 = 3
  BY <1>1
<1>3. ASSUME s[1].f \in {"overflow", "on_accept"} PROVE Tail(s) = <<>>
  <2>1. n = 1
    BY <1>3, <1>8, <1>9
  <2> QED BY <1>1, <1>2, <2>1
<1>4. ASSUME s[1].f = "process"
      PROVE  /\ Tail(s) = <<>> \/ (Tail(s)[1].f = "overflow" /\ Tail(Tail(s)) = <<>>)
             /\ Callbacks(s) = {}
  <2>1. 1 = n \/ (2 = n /\ s[2].f = "overflow")
    BY <1>4, <1>8, <1>9
  <2>2. CASE n = 1
    BY <1>1, <1>2, <1>4, <2>2 DEF Callbacks, Callback, ToSet
  <2>3. CASE n = 2 /\ s[2].f = "overflow"
    <3>1. Tail(s)[1] = s[2] /\ Tail(s) # <<>>
      BY <1>1, <2>3
    <3>2. Tail(Tail(s)) \in Seq(Frame) /\ Len(Tail(Tail(s))) = 0
      BY <1>1, <2>3, <3>1, HeadTailProperties
    <3>3. ToSet(s) = {s[1], s[2]}
      BY <1>1, <2>3 DEF ToSet
    <3>4. Callbacks(s) = {}
      BY <1>4, <2>3, <3>3 DEF Callbacks, Callback
    <3> QED BY <1>2, <2>3, <3>1, <3>2, <3>4
  <2> QED BY <2>1, <2>2, <2>3
<1>5. ASSUME s[1].f \in Callback
      PROVE  /\ Tail(s) # <<>> /\ Callbacks(s) = {s[1]} /\ Callbacks(Tail(s)) = {}
             /\ Tail(s)[1].f = "process" /\ Tail(s)[1].c = s[1].c
  <2>1. 2 <= n /\ s[2].f = "process" /\ s[2].c = s[1].c
    BY <1>5, <1>8, <1>9
  <2>2. n = 2 \/ (n = 3 /\ s[3].f = "overflow")
    <3>1. 2 \in 1 .. n
      BY <1>1, <2>1
    <3> QED BY <1>8, <1>9, <2>1, <3>1
  <2>3. Tail(s) # <<>> /\ Tail(s)[1] = s[2]
    <3>1. 1 \in 1 .. (n - 1) /\ Len(Tail(s)) # 0
      BY <1>1, <2>1
    <3>2. Tail(s)[1] = s[1 + 1]
      BY <1>1, <3>1
    <3>3. Tail(s) # <<>>
      BY <3>1, EmptySeq
    <3> QED BY <1>9, <3>2, <3>3
  <2>4. \A i \in 1 .. (n - 1) : Tail(s)[i].f \notin Callback
    <3>1. \A i \in 2 .. n : s[i].f \notin Callback
      BY <2>1, <2>2 DEF Callback
    <3> QED BY <1>1, <3>1
  <2>5. Callbacks(Tail(s)) = {}
    BY <1>1, <2>4 DEF Callbacks, ToSet
  <2>6. Callbacks(s) = {s[1]}
    BY <1>1, <1>5, <2>5 DEF Callbacks
  <2> QED BY <2>1, <2>3, <2>5, <2>6
<1>6. ASSUME s[1].f \notin Callback PROVE Callbacks(Tail(s)) = Callbacks(s)
  BY <1>1, <1>6 DEF Callbacks
<1>7. ASSUME Tail(s) # <<>> PROVE Tail(s)[1].f # "no_upgrade"
  <2>1. 2 \in 1 .. n /\ Tail(s)[1] = s[2]
    BY <1>1, <1>2, <1>7
  <2> QED BY <2>1 DEF StackOK, Shape, n
<1> QED BY <1>1, <1>3, <1>4, <1>5, <1>6, <1>7

\* The shape is kept when the innermost frame returns ...
LEMMA OkPop ==
  ASSUME NEW s, StackOK(s), s # <<>>
  PROVE  StackOK(Tail(s))
<1> DEFINE n == Len(s)
           t == Tail(s)
<1>1. /\ n \in Nat \ {0} /\ t \in Seq(Frame) /\ Len(t) = n - 1
      /\ \A i \in 1 .. (n - 1) : t[i] = s[i + 1]
  BY Pop DEF StackOK
<1>2. ASSUME NEW i \in 1 .. n
      PROVE  /\ s[i].f \in {"overflow", "on_accept"} => i = n
             /\ s[i].f = "process" => i = n \/ (i + 1 = n /\ s[i + 1].f = "overflow" /\ s[i + 1].c = s[i].c)
             /\ s[i].f \in Callback => i + 1 <= n /\ s[i + 1].f = "process" /\ s[i + 1].c = s[i].c
             /\ s[i].f = "no_upgrade" => i = 1
  BY DEF StackOK, Shape
<1> HIDE DEF n, t
<1>3. ASSUME NEW i \in 1 .. Len(t)
      PROVE  /\ t[i].f \in {"overflow", "on_accept"} => i = Len(t)
             /\ t[i].f = "process" =>
                  i = Len(t) \/ (i + 1 = Len(t) /\ t[i + 1].f = "overflow" /\ t[i + 1].c = t[i].c)
             /\ t[i].f \in Callback => i + 1 <= Len(t) /\ t[i + 1].f = "process" /\ t[i + 1].c = t[i].c
             /\ t[i].f = "no_upgrade" => i = 1
  <2>1. i + 1 \in 1 .. n /\ t[i] = s[i + 1]
    BY <1>1
  <2> DEFINE j == i + 1
  <2>2. j < n => t[i + 1] = s[j + 1]
    BY <1>1
  <2>3. i \in Nat /\ Len(t) = n - 1 /\ j = i + 1 /\ j \in 1 .. n /\ t[i] = s[j] /\ n \in Nat
    BY <1>1, <2>1
  <2> HIDE DEF j
  <2>4. t[i].f \in {"overflow", "on_accept"} => i = Len(t)
    BY <1>2, <2>3
  <2>5. t[i].f = "process" =>
          i = Len(t) \/ (i + 1 = Len(t) /\ t[i + 1].f = "overflow" /\ t[i + 1].c = t[i].c)
    BY <1>2, <2>2, <2>3
  <2>6. t[i].f \in Callback => i + 1 <= Len(t) /\ t[i + 1].f = "process" /\ t[i + 1].c = t[i].c
    <3>1. s[j].f \in Callback => j + 1 <= n /\ s[j + 1].f = "process" /\ s[j + 1].c = s[j].c
      BY <1>2, <2>3
    <3>2. j + 1 <= n => j < n /\ i + 1 <= Len(t)
      BY <2>3
    <3> QED BY <2>2, <2>3, <3>1, <3>2, Zenon
  <2>7. t[i].f = "no_upgrade" => i = 1
    BY <1>2, <2>3
  <2> QED BY <2>4, <2>5, <2>6, <2>7
<1> QED BY <1>1, <1>3 DEF StackOK, Shape, t

\* ... and when a frame is pushed that fits on the one below.
Fitting(fr, s) ==
  /\ fr.f \in {"overflow", "on_accept"} => s = <<>>
  /\ fr.f = "process" => s = <<>> \/ (Tail(s) = <<>> /\ s[1].f = "overflow" /\ s[1].c = fr.c)
  /\ fr.f \in Callback => s # <<>> /\ s[1].f = "process" /\ s[1].c = fr.c
  /\ s # <<>> => s[1].f # "no_upgrade"

LEMMA OkPush ==
  ASSUME NEW s, StackOK(s), NEW fr \in Frame, Fitting(fr, s)
  PROVE  StackOK(<<fr>> \o s)
<1> DEFINE n == Len(s)
           t == <<fr>> \o s
<1>1. /\ n \in Nat /\ t \in Seq(Frame) /\ Len(t) = n + 1 /\ t[1] = fr
      /\ \A i \in 1 .. n : t[i + 1] = s[i]
  BY Push, LenProperties DEF StackOK
<1>2. ASSUME NEW i \in 1 .. n
      PROVE  /\ s[i].f \in {"overflow", "on_accept"} => i = n
             /\ s[i].f = "process" => i = n \/ (i + 1 = n /\ s[i + 1].f = "overflow" /\ s[i + 1].c = s[i].c)
             /\ s[i].f \in Callback => i + 1 <= n /\ s[i + 1].f = "process" /\ s[i + 1].c = s[i].c
             /\ s[i].f = "no_upgrade" => i = 1
  BY DEF StackOK, Shape
<1>3. (s = <<>> <=> n = 0) /\ (s # <<>> /\ Tail(s) = <<>> => n = 1)
  <2>1. s \in Seq(Frame) /\ Len(s) \in Nat /\ Len(<<>>) = 0
    BY LenProperties, EmptySeq DEF StackOK
  <2>2. s # <<>> => Len(s) # 0 /\ Len(Tail(s)) = Len(s) - 1
    BY <2>1, Pop
  <2>3. s = <<>> => Len(s) = 0
    BY <2>1
  <2>4. s # <<>> /\ Tail(s) = <<>> => Len(s) = 1
    <3>1. Tail(s) = <<>> => Len(Tail(s)) = 0
      BY <2>1
    <3> QED BY <2>1, <2>2, <3>1
  <2> QED BY <2>2, <2>3, <2>4 DEF n
<1> HIDE DEF n, t
<1>4. ASSUME NEW i \in 1 .. Len(t)
      PROVE  /\ t[i].f \in {"overflow", "on_accept"} => i = Len(t)
             /\ t[i].f = "process" =>
                  i = Len(t) \/ (i + 1 = Len(t) /\ t[i + 1].f = "overflow" /\ t[i + 1].c = t[i].c)
             /\ t[i].f \in Callback => i + 1 <= Len(t) /\ t[i + 1].f = "process" /\ t[i + 1].c = t[i].c
             /\ t[i].f = "no_upgrade" => i = 1
  <2>1. CASE i = 1
    <3>1. n # 0 => t[1 + 1] = s[1]
      BY <1>1
    <3>2. t[i] = fr
      BY <1>1, <2>1
    <3>3. fr.f \in {"overflow", "on_accept"} => i = Len(t)
      BY <1>1, <1>3, <2>1 DEF Fitting
    <3>4. fr.f = "process" =>
            i = Len(t) \/ (i + 1 = Len(t) /\ t[i + 1].f = "overflow" /\ t[i + 1].c = fr.c)
      BY <1>1, <1>3, <2>1, <3>1 DEF Fitting
    <3>5. fr.f \in Callback => i + 1 <= Len(t) /\ t[i + 1].f = "process" /\ t[i + 1].c = fr.c
      BY <1>1, <1>3, <2>1, <3>1 DEF Fitting
    <3> QED BY <2>1, <3>2, <3>3, <3>4, <3>5
  <2>2. CASE i # 1
    <3> DEFINE j == i - 1
    <3>1. j \in 1 .. n /\ i = j + 1 /\ t[i] = s[j]
      BY <1>1, <2>2
    <3>2. j < n => t[i + 1] = s[j + 1]
      BY <1>1, <3>1
    <3> HIDE DEF j
    <3>3. s[j].f # "no_upgrade"
      <4>1. ASSUME s[j].f = "no_upgrade" PROVE FALSE
        <5>1. j = 1
          BY <1>2, <3>1, <4>1
        <5> QED BY <1>1, <1>3, <3>1, <4>1, <5>1 DEF Fitting
      <4> QED BY <4>1
    <3> QED BY <1>1, <1>2, <3>1, <3>2, <3>3
  <2> QED BY <2>1, <2>2
<1> QED BY <1>1, <1>4 DEF StackOK, Shape, t

\* No frames.
LEMMA OkEmpty == StackOK(<<>>)
BY DEF StackOK, Shape

-------------------------------------------------------------------------------
(* Steps in general. *)

Typed == TypeOK /\ StackOK(stack)

\* Nothing that Position says of connection c changes.
QuietFor(c) ==
  /\ recv'[c] = recv[c] /\ cells'[c] = cells[c] /\ last'[c] = last[c]
  /\ \A fr : fr.c = c => (fr \in Callbacks(stack') <=> fr \in Callbacks(stack))

\* Data held by conn_on_data is held on.
SameOverflow ==
  \A fr \in ToSet(stack') :
    fr.f = "overflow" => \E gr \in ToSet(stack) : gr.f = "overflow" /\ gr.c = fr.c /\ gr.d = fr.d

\* A step keeps the buffers right if it does so for each connection it touches.
Keeps(c) ==
  /\ state'[c] \in {"NONE", "NEW"} =>
       state[c] \in {"NONE", "NEW"} /\ recv'[c] = recv[c] /\ cells'[c] = cells[c] /\ last'[c] = last[c]
  /\ state'[c] \in Active => Position(c)' \/ (state[c] \in Active /\ QuietFor(c))

LEMMA QuietPosition ==
  ASSUME NEW c \in Conn, Position(c), QuietFor(c)
  PROVE  Position(c)'
BY DEF Position, QuietFor, Callbacks

LEMMA BufferKept ==
  ASSUME BufferInv, \A c \in Conn : Keeps(c),
         \A fr \in ToSet(stack') : fr.f = "overflow" => \A i \in 1 .. Len(fr.d) : fr.d[i].n = cells'[fr.c] + i,
         \A c \in stream' : state'[c] # "NONE"
  PROVE  BufferInv'
<1>1. ASSUME NEW c \in Conn, state'[c] \in {"NONE", "NEW"}
      PROVE  recv'[c] = <<>> /\ cells'[c] = 0 /\ last'[c] = 0
  BY <1>1 DEF Keeps, QuietFor, BufferInv
<1>2. ASSUME NEW c \in Conn, state'[c] \in Active PROVE Position(c)'
  BY <1>2, QuietPosition DEF Keeps, BufferInv
<1> QED BY <1>1, <1>2 DEF BufferInv

\* The usual case: no buffer changes, and callbacks only of connections that end.
Quiet ==
  /\ UNCHANGED <<recv, cells, last>> /\ SameOverflow
  /\ \A c \in Conn :
       /\ state'[c] \in {"NONE", "NEW"} => state[c] \in {"NONE", "NEW"}
       /\ state'[c] \in Active => state[c] \in Active
       /\ state'[c] \in Active \cup {"NONE", "NEW"} =>
            \A fr : fr.c = c => (fr \in Callbacks(stack') <=> fr \in Callbacks(stack))
  /\ \A c \in stream' : state'[c] # "NONE"

LEMMA QuietStep == ASSUME BufferInv, Quiet PROVE BufferInv'
<1>1. ASSUME NEW c \in Conn PROVE Keeps(c)
  BY DEF Quiet, Keeps, QuietFor
<1>2. ASSUME NEW fr \in ToSet(stack'), fr.f = "overflow", NEW i \in 1 .. Len(fr.d)
      PROVE  fr.d[i].n = cells'[fr.c] + i
  <2>1. PICK gr \in ToSet(stack) : gr.f = "overflow" /\ gr.c = fr.c /\ gr.d = fr.d
    BY <1>2 DEF Quiet, SameOverflow
  <2> QED BY <1>2, <2>1 DEF Quiet, BufferInv
<1>3. \A c \in stream' : state'[c] # "NONE"
  BY DEF Quiet
<1> QED BY <1>1, <1>2, <1>3, BufferKept

\* Posted tasks.
LEMMA TaskMake ==
  /\ \A c \in Conn : [f |-> "http_process", c |-> c] \in Task /\ [f |-> "conn_cleanup", c |-> c] \in Task
  /\ [f |-> "srv_cleanup", c |-> None] \in Task
BY DEF Task

LEMMA PostTyped ==
  ASSUME posts \in Seq(Task), NEW f, NEW c, [f |-> f, c |-> c] \in Task, sevent_post(f, c)
  PROVE  posts' \in Seq(Task)
<1> DEFINE t == [f |-> f, c |-> c]
<1>1. posts' = Append(posts, t) /\ t \in Task
  BY DEF sevent_post
<1> HIDE DEF t
<1> QED BY <1>1

LEMMA FreeTyped ==
  ASSUME TypeOK, NEW c \in Conn, deferred_free(c)
  PROVE  posts' \in Seq(Task) /\ freed' \in SUBSET Conn
<1>1. posts \in Seq(Task) /\ freed \in SUBSET Conn
  BY DEF TypeOK
<1>2. CASE sevent_post("conn_cleanup", c) /\ UNCHANGED freed
  BY <1>1, <1>2, PostTyped, TaskMake
<1>3. CASE freed' = freed \cup {c} /\ UNCHANGED posts
  BY <1>1, <1>3
<1> QED BY <1>2, <1>3 DEF deferred_free

\* What is on the stack after a push and a return.
LEMMA PushSets ==
  ASSUME NEW s \in Seq(Frame), NEW fr \in Frame
  PROVE  /\ ToSet(<<fr>> \o s) = ToSet(s) \cup {fr}
         /\ fr.f \notin Callback => Callbacks(<<fr>> \o s) = Callbacks(s)
<1>1. ToSet(<<fr>> \o s) = ToSet(s) \cup {fr}
  BY Push
<1> QED BY <1>1 DEF Callbacks

\* The end of a connection: on_conn_close is called on top of the frames below.
LEMMA Terminated ==
  ASSUME Typed, NEW c \in Conn, NEW below, StackOK(below), below # <<>> => below[1].f # "no_upgrade",
         conn_terminate(c, below)
  PROVE  /\ state' = [state EXCEPT ![c] = "CLOSED"] /\ state' \in [Conn -> State]
         /\ idle' \in SUBSET Conn /\ stream' \in SUBSET Conn /\ conns' \in Seq(Conn)
         /\ closes' \in [Conn -> Nat] /\ stream' = stream \ {c}
         /\ StackOK(stack') /\ Callbacks(stack') = Callbacks(below)
         /\ \A fr \in ToSet(stack') : fr.f = "overflow" => fr \in ToSet(below)
<1>1. /\ state' = [state EXCEPT ![c] = "CLOSED"] /\ idle' = idle \ {c} /\ stream' = stream \ {c}
      /\ conns' = RemoveFirst(conns, c) /\ closes' = [closes EXCEPT ![c] = @ + 1]
  BY DEF conn_terminate, http_state_set, conn_idle_stop, conn_unlink
<1> DEFINE fr == [f |-> "on_conn_close", c |-> c, n |-> 0]
<1>2. stack' = <<fr>> \o below
  BY DEF conn_terminate
<1>3. fr \in Frame /\ fr.f = "on_conn_close"
  BY FrameMake
<1>4. conns' \in Seq(Conn)
  BY <1>1, RemoveFirstElements DEF Typed, TypeOK
<1>5. closes' \in [Conn -> Nat] /\ state' \in [Conn -> State]
  BY <1>1 DEF Typed, TypeOK, State
<1> HIDE DEF fr
<1>6. StackOK(stack')
  BY <1>2, <1>3, OkPush DEF Fitting, Callback
<1>7. Callbacks(stack') = Callbacks(below) /\ ToSet(stack') = ToSet(below) \cup {fr}
  BY <1>2, <1>3, PushSets DEF StackOK, Callback
<1>8. idle' \in SUBSET Conn /\ stream' \in SUBSET Conn
  BY <1>1 DEF Typed, TypeOK
<1> QED BY <1>1, <1>3, <1>4, <1>5, <1>6, <1>7, <1>8

-------------------------------------------------------------------------------
(* Calm steps: no buffer and no callback of a request changes, and one
   connection at most goes on or ends. *)

StackQuiet == StackOK(stack') /\ SameOverflow /\ Callbacks(stack') = Callbacks(stack)

StateStep(c) ==
  \/ state' = state
  \/ \E s \in State \ {"NONE", "NEW"} :
       state' = [state EXCEPT ![c] = s] /\ (s \in Active => state[c] \in Active)

\* The types of what BufferInv does not mention.
Others ==
  /\ close_pending \in SUBSET Conn /\ wrote \in SUBSET Conn /\ idle \in SUBSET Conn /\ freed \in SUBSET Conn
  /\ conns \in Seq(Conn) /\ posts \in Seq(Task)
  /\ server \in {"up", "destroyed", "freed"} /\ upgrades \in BOOLEAN
  /\ closes \in [Conn -> Nat]

LEMMA Calm ==
  ASSUME Inv, NEW c, StateStep(c), StackQuiet, UNCHANGED <<recv, cells, last>>,
         stream' \subseteq stream, Others'
  PROVE  Inv'
<1>1. state' \in [Conn -> State]
  BY DEF Inv, TypeOK, StateStep, State
<1>2. TypeOK'
  BY <1>1 DEF Inv, TypeOK, Others, StackQuiet, StackOK
<1>3. ASSUME NEW d \in Conn
      PROVE  /\ state'[d] \in {"NONE", "NEW"} => state[d] \in {"NONE", "NEW"}
             /\ state'[d] \in Active => state[d] \in Active
             /\ state'[d] = "NONE" => state[d] = "NONE"
  BY DEF Inv, TypeOK, StateStep, Active
<1>4. \A d \in stream' : d \in Conn /\ state'[d] # "NONE"
  BY <1>3 DEF Inv, BufferInv, TypeOK
<1>5. Quiet
  BY <1>3, <1>4 DEF Quiet, StackQuiet
<1> QED BY <1>2, <1>5, QuietStep DEF Inv, StackQuiet

\* The stack, in the ways a calm step treats it.
LEMMA StackSame == ASSUME StackOK(stack), stack' = stack PROVE StackQuiet
BY DEF StackQuiet, SameOverflow

LEMMA StackPop ==
  ASSUME StackOK(stack), stack # <<>>, Top.f \notin Callback, stack' = Tail(stack)
  PROVE  StackQuiet
<1>1. StackOK(stack') /\ Callbacks(stack') = Callbacks(stack)
  BY OkPop, TopFrame DEF Top
<1>2. ToSet(stack') \subseteq ToSet(stack)
  BY Pop DEF StackOK
<1> QED BY <1>1, <1>2 DEF StackQuiet, SameOverflow

LEMMA StackPush ==
  ASSUME StackOK(stack), NEW fr \in Frame, Fitting(fr, stack), fr.f \notin Callback \cup {"overflow"},
         stack' = <<fr>> \o stack
  PROVE  StackQuiet
<1>1. StackOK(stack')
  BY OkPush
<1>2. ToSet(stack') = ToSet(stack) \cup {fr} /\ Callbacks(stack') = Callbacks(stack)
  BY PushSets DEF StackOK
<1>3. SameOverflow
  BY <1>2 DEF SameOverflow
<1> QED BY <1>1, <1>2, <1>3 DEF StackQuiet

LEMMA StackReplace ==
  ASSUME StackOK(stack), stack # <<>>, Top.f \notin Callback,
         NEW fr \in Frame, Fitting(fr, Tail(stack)), fr.f \notin Callback \cup {"overflow"},
         stack' = <<fr>> \o Tail(stack)
  PROVE  StackQuiet
<1>1. StackOK(Tail(stack)) /\ Callbacks(Tail(stack)) = Callbacks(stack)
  BY OkPop, TopFrame DEF Top
<1>2. StackOK(stack')
  BY <1>1, OkPush
<1>3. ToSet(stack') = ToSet(Tail(stack)) \cup {fr} /\ Callbacks(stack') = Callbacks(stack)
  BY <1>1, PushSets DEF StackOK
<1>4. ToSet(Tail(stack)) \subseteq ToSet(stack)
  BY Pop DEF StackOK
<1>5. SameOverflow
  BY <1>3, <1>4 DEF SameOverflow
<1> QED BY <1>2, <1>3, <1>5 DEF StackQuiet

\* User code is not on top of a frame that answers an upgrade with 400.
LEMMA UserStack == ASSUME StackOK(stack), UserCode PROVE stack # <<>> => stack[1].f # "no_upgrade"
BY TopFrame DEF UserCode, UserCallback, Top

LEMMA Typing == ASSUME Inv PROVE Typed /\ StackOK(stack) /\ TypeOK /\ Others
BY DEF Inv, Typed, TypeOK, Others

\* The end of a connection in user code, or with no frames, is calm.
LEMMA TerminateCalm ==
  ASSUME Inv, NEW c \in Conn, UserCode, conn_terminate(c, stack),
         UNCHANGED <<recv, wrote, rest, cells, last, close_pending, posts>>
  PROVE  Inv'
<1>1. stack # <<>> => stack[1].f # "no_upgrade"
  BY UserStack, Typing
<1>2. /\ state' = [state EXCEPT ![c] = "CLOSED"] /\ stream' = stream \ {c}
      /\ idle' \in SUBSET Conn /\ conns' \in Seq(Conn) /\ closes' \in [Conn -> Nat]
      /\ StackOK(stack') /\ Callbacks(stack') = Callbacks(stack)
      /\ \A fr \in ToSet(stack') : fr.f = "overflow" => fr \in ToSet(stack)
  BY <1>1, Typing, Terminated
<1>3. StackQuiet
  BY <1>2 DEF StackQuiet, SameOverflow
<1>4. StateStep(c)
  <2>1. "CLOSED" \in State \ {"NONE", "NEW"} /\ "CLOSED" \notin Active
    BY DEF State, Active
  <2> QED BY <1>2, <2>1 DEF StateStep
<1>5. Others'
  BY <1>2, Typing DEF Others, rest
<1>6. UNCHANGED <<recv, cells, last>> /\ stream' \subseteq stream
  BY <1>2
<1> QED BY <1>3, <1>4, <1>5, <1>6, Calm

\* The end of an answer: the connection is served on or half closed.
LEMMA Completed ==
  ASSUME Inv, NEW c \in Conn, state[c] \in Active, NEW async, conn_response_complete(c, async)
  PROVE  StateStep(c) /\ idle' \in SUBSET Conn /\ posts' \in Seq(Task)
<1>1. state \in [Conn -> State] /\ idle \in SUBSET Conn /\ posts \in Seq(Task)
  BY DEF Inv, TypeOK
<1>2. CASE conn_close_graceful(c) /\ UNCHANGED <<idle, posts>>
  BY <1>1, <1>2 DEF conn_close_graceful, StateStep, State, Active
<1>3. CASE /\ conn_idle_reset(c)
           /\ http_state_set(c, "PARSING") \/ http_state_set(c, "CLOSING")
           /\ sevent_post("http_process", c) \/ UNCHANGED posts
  <2>1. StateStep(c)
    BY <1>3 DEF http_state_set, StateStep, State, Active
  <2>2. idle' \in SUBSET Conn
    BY <1>1, <1>3 DEF conn_idle_reset
  <2>3. posts' \in Seq(Task)
    BY <1>1, <1>3, PostTyped, TaskMake
  <2> QED BY <2>1, <2>2, <2>3
<1> QED BY <1>2, <1>3 DEF conn_response_complete

-------------------------------------------------------------------------------
(* The API. *)

LEMMA Respond ==
  ASSUME Inv, NEW c \in Conn, NEW close \in BOOLEAN, sevent_http_conn_respond(c, close)
  PROVE  Inv'
<1>1. state[c] \in Active /\ UserCode /\ UNCHANGED <<recv, wrote, rest, cells, last>>
  BY DEF sevent_http_conn_respond, Active, CanWrite
<1>2. CASE /\ close_pending' = IF close THEN close_pending \cup {c} ELSE close_pending
           /\ conn_response_complete(c, state[c] = "AWAIT_RESP")
           /\ UNCHANGED <<ends, stack>>
  <2>1. StateStep(c) /\ idle' \in SUBSET Conn /\ posts' \in Seq(Task)
    BY <1>1, <1>2, Completed
  <2>2. StackQuiet
    BY <1>2, StackSame, Typing
  <2>3. close_pending' \in SUBSET Conn
    BY <1>2, Typing DEF Others
  <2>4. Others'
    BY <1>1, <1>2, <2>1, <2>3, Typing DEF Others, rest, ends
  <2>5. UNCHANGED <<recv, cells, last>> /\ stream' \subseteq stream
    BY <1>1, <1>2 DEF ends
  <2> QED BY <2>1, <2>2, <2>4, <2>5, Calm
<1>3. CASE conn_terminate(c, stack) /\ UNCHANGED <<close_pending, posts>>
  BY <1>1, <1>3, TerminateCalm
<1> QED BY <1>2, <1>3 DEF sevent_http_conn_respond

LEMMA Write == ASSUME Inv, NEW c \in Conn, sevent_http_conn_write(c) PROVE Inv'
<1>1. state[c] \in Active /\ UserCode /\ UNCHANGED <<recv, close_pending, rest, posts, cells, last>>
  BY DEF sevent_http_conn_write, Active, CanWrite
<1>2. CASE /\ wrote' = wrote \cup {c}
           /\ state' = IF state[c] = "AWAIT_RESP" THEN [state EXCEPT ![c] = "RESPONDING"] ELSE state
           /\ UNCHANGED <<idle, ends, stack>>
  <2>1. StateStep(c)
    <3>1. "RESPONDING" \in State \ {"NONE", "NEW"}
      BY DEF State
    <3> QED BY <1>1, <1>2, <3>1 DEF StateStep
  <2>2. StackQuiet
    BY <1>2, StackSame, Typing
  <2>3. Others'
    BY <1>1, <1>2, Typing DEF Others, rest, ends
  <2>4. UNCHANGED <<recv, cells, last>> /\ stream' \subseteq stream
    BY <1>1, <1>2 DEF ends
  <2> QED BY <2>1, <2>2, <2>3, <2>4, Calm
<1>3. CASE conn_terminate(c, stack) /\ UNCHANGED wrote
  BY <1>1, <1>3, TerminateCalm
<1> QED BY <1>2, <1>3 DEF sevent_http_conn_write

LEMMA WriteEnd == ASSUME Inv, NEW c \in Conn, sevent_http_conn_write_end(c) PROVE Inv'
<1>1. /\ state[c] \in Active /\ conn_response_complete(c, state[c] = "RESPONDING")
      /\ UNCHANGED <<close_pending, ends, stack, recv, wrote, rest, cells, last>>
  BY DEF sevent_http_conn_write_end, Active
<1>2. StateStep(c) /\ idle' \in SUBSET Conn /\ posts' \in Seq(Task)
  BY <1>1, Completed
<1>3. StackQuiet
  BY <1>1, StackSame, Typing
<1>4. Others'
  BY <1>1, <1>2, Typing DEF Others, rest, ends
<1>5. UNCHANGED <<recv, cells, last>> /\ stream' \subseteq stream
  BY <1>1 DEF ends
<1> QED BY <1>2, <1>3, <1>4, <1>5, Calm

\* A half close.
LEMMA Graceful ==
  ASSUME state \in [Conn -> State], NEW c \in Conn, conn_close_graceful(c)
  PROVE  StateStep(c)
<1>1. "CLOSING" \in State \ {"NONE", "NEW"} /\ "CLOSING" \notin Active
  BY DEF State, Active
<1> QED BY <1>1 DEF conn_close_graceful, StateStep

LEMMA Close == ASSUME Inv, NEW c \in Conn, sevent_http_conn_close(c) PROVE Inv'
<1>1. /\ close_pending' = close_pending \cup {c} /\ conn_close_graceful(c)
      /\ UNCHANGED <<idle, ends, stack, posts, recv, wrote, rest, cells, last>>
  BY DEF sevent_http_conn_close
<1>2. StateStep(c)
  BY <1>1, Graceful DEF Inv, TypeOK
<1>3. StackQuiet
  BY <1>1, StackSame, Typing
<1>4. Others'
  BY <1>1, Typing DEF Others, rest, ends
<1>5. UNCHANGED <<recv, cells, last>> /\ stream' \subseteq stream
  BY <1>1 DEF ends
<1> QED BY <1>2, <1>3, <1>4, <1>5, Calm

\* The hand-over takes the buffer; the connection does not use it any more.
LEMMA Upgrade == ASSUME Inv, NEW c \in Conn, sevent_ws_upgrade(c) PROVE Inv'
<1>1. /\ state' = [state EXCEPT ![c] = "RELEASED"] /\ idle' = idle \ {c} /\ conns' = RemoveFirst(conns, c)
      /\ stream' = stream \ {c} /\ recv' = [recv EXCEPT ![c] = <<>>] /\ deferred_free(c)
      /\ UNCHANGED <<flags, server, upgrades, stack, history>>
  BY DEF sevent_ws_upgrade, http_state_set, conn_idle_stop, conn_unlink
<1>2. posts' \in Seq(Task) /\ freed' \in SUBSET Conn
  BY <1>1, FreeTyped, Typing
<1>3. conns' \in Seq(Conn)
  BY <1>1, RemoveFirstElements DEF Inv, TypeOK
<1>4. state' \in [Conn -> State]
  BY <1>1 DEF Inv, TypeOK, State
<1>5. recv' \in [Conn -> Seq(Cell)] /\ \A d \in Conn : Len(recv'[d]) <= Cap
  BY <1>1, EmptySeq, HttpAssumption DEF Inv, TypeOK
<1>6. TypeOK'
  BY <1>1, <1>2, <1>3, <1>4, <1>5 DEF Inv, TypeOK, flags, history
<1>7. ASSUME NEW d \in Conn PROVE Keeps(d)
  <2>1. CASE d = c
    BY <1>1, <2>1 DEF Keeps, Inv, TypeOK, Active
  <2>2. CASE d # c
    BY <1>1, <2>2 DEF Keeps, Inv, TypeOK, QuietFor, history
  <2> QED BY <2>1, <2>2
<1>8. \A fr \in ToSet(stack') : fr.f = "overflow" => \A i \in 1 .. Len(fr.d) : fr.d[i].n = cells'[fr.c] + i
  BY <1>1 DEF Inv, BufferInv, history
<1>9. \A d \in stream' : state'[d] # "NONE"
  BY <1>1 DEF Inv, BufferInv, TypeOK
<1> QED BY <1>1, <1>6, <1>7, <1>8, <1>9, BufferKept DEF Inv

\* srv_cleanup starts at the head of the list.
LEMMA WalkFrame == ASSUME conns \in Seq(Conn) PROVE Walk \in Frame /\ Walk.f = "walk"
<1>1. (IF conns = <<>> THEN None ELSE Head(conns)) \in Conn \cup {None}
  BY HeadTailProperties
<1> QED BY <1>1, FrameMake DEF Walk

LEMMA Destroy == ASSUME Inv, sevent_http_server_destroy PROVE Inv'
<1>1. /\ UserCode /\ server' = "destroyed"
      /\ UNCHANGED <<state, stream, recv, flags, idle, conns, freed, upgrades, history>>
  BY DEF sevent_http_server_destroy
<1>2. posts' \in Seq(Task) /\ StackQuiet
  <2>1. CASE sevent_post("srv_cleanup", None) /\ UNCHANGED stack
    BY <2>1, PostTyped, TaskMake, StackSame, Typing DEF Others
  <2>2. CASE stack' = <<Walk>> \o stack /\ UNCHANGED posts
    <3>1. Fitting(Walk, stack) /\ Walk \in Frame /\ Walk.f \notin Callback \cup {"overflow"}
      BY <1>1, WalkFrame, UserStack, Typing DEF Fitting, Callback, Others
    <3>2. StackQuiet
      BY <2>2, <3>1, StackPush, Typing
    <3> QED BY <2>2, <3>2, Typing DEF Others
  <2> QED BY <2>1, <2>2 DEF sevent_http_server_destroy
<1>3. Others'
  BY <1>1, <1>2, Typing DEF Others, flags, history
<1> QED BY <1>1, <1>2, <1>3, Calm DEF StateStep, history

-------------------------------------------------------------------------------
(* Events of the loop. *)

\* The first and the last frame.
LEMMA OneFrame ==
  ASSUME NEW fr \in Frame, fr.f \notin Callback
  PROVE  /\ StackOK(<<fr>>) /\ <<fr>> \o <<>> = <<fr>>
         /\ ToSet(<<fr>>) = {fr} /\ Callbacks(<<fr>>) = {} /\ Callbacks(<<>>) = {}
<1>1. <<fr>> \o <<>> = <<fr>>
  OBVIOUS
<1>2. StackOK(<<fr>> \o <<>>)
  BY OkPush, OkEmpty DEF Fitting
<1>3. ToSet(<<fr>>) = {fr} /\ ToSet(<<>>) = {}
  BY DEF ToSet
<1> QED BY <1>1, <1>2, <1>3 DEF Callbacks

\* A list and a stack grow at the head.
LEMMA Accept == ASSUME Inv, NEW c \in Conn, srv_on_accept(c) PROVE Inv'
<1>1. /\ stack = <<>> /\ state[c] = "NONE" /\ state' = [state EXCEPT ![c] = "NEW"]
      /\ stream' = stream \cup {c} /\ conns' = <<c>> \o conns
      /\ UNCHANGED <<recv, flags, idle, rest, posts, stack, history>>
  BY DEF srv_on_accept, http_state_set
<1>2. conns' \in Seq(Conn)
  BY <1>1 DEF Inv, TypeOK
<1>3. state' \in [Conn -> State]
  BY <1>1 DEF Inv, TypeOK, State
<1>4. TypeOK'
  BY <1>1, <1>2, <1>3 DEF Inv, TypeOK, flags, rest, history
<1>5. Quiet
  <2>1. SameOverflow
    BY <1>1 DEF SameOverflow
  <2>2. ASSUME NEW d \in Conn
        PROVE  /\ state'[d] \in {"NONE", "NEW"} => state[d] \in {"NONE", "NEW"}
               /\ state'[d] \in Active => state[d] \in Active
    BY <1>1 DEF Inv, TypeOK, Active
  <2>3. \A d \in stream' : state'[d] # "NONE"
    BY <1>1 DEF Inv, BufferInv, TypeOK
  <2> QED BY <1>1, <2>1, <2>2, <2>3 DEF Quiet, history
<1> QED BY <1>1, <1>4, <1>5, QuietStep DEF Inv

LEMMA Open == ASSUME Inv, NEW c \in Conn, conn_on_open(c) PROVE Inv'
<1> DEFINE fr == [f |-> "on_accept", c |-> c, n |-> 0]
<1>1. /\ stack = <<>> /\ stack' = <<fr>>
      /\ UNCHANGED <<state, stream, recv, flags, idle, conns, rest, posts, history>>
  BY DEF conn_on_open
<1>2. fr \in Frame /\ fr.f = "on_accept"
  BY FrameMake
<1> HIDE DEF fr
<1>3. stack' = <<fr>> \o stack
  BY <1>1, <1>2, OneFrame DEF Callback
<1>4. StackQuiet
  BY <1>1, <1>2, <1>3, StackPush, Typing DEF Fitting, Callback
<1>5. Others'
  BY <1>1, Typing DEF Others, flags, rest, history
<1> QED BY <1>1, <1>4, <1>5, Calm DEF StateStep, history

LEMMA End == ASSUME Inv, NEW c \in Conn, conn_on_end(c) PROVE Inv'
<1>1. /\ stack = <<>> /\ conn_terminate(c, stack) /\ UNCHANGED <<recv, flags, rest, posts, cells, last>>
  BY DEF conn_on_end
<1> QED BY <1>1, TerminateCalm DEF flags, UserCode

LEMMA Idle == ASSUME Inv, NEW c \in Conn, on_idle_timeout(c) PROVE Inv'
<1>1. stack = <<>> /\ UNCHANGED <<recv, flags, rest, posts, cells, last>>
  BY DEF on_idle_timeout
<1>2. CASE conn_terminate(c, <<>>)
  BY <1>1, <1>2, TerminateCalm DEF flags, UserCode
<1>3. CASE conn_idle_stop(c) /\ UNCHANGED <<state, ends, stack>>
  <2>1. StackQuiet
    BY <1>3, StackSame, Typing
  <2>2. Others'
    BY <1>1, <1>3, Typing DEF Others, flags, rest, ends, conn_idle_stop
  <2> QED BY <1>1, <1>3, <2>1, <2>2, Calm DEF StateStep, ends
<1> QED BY <1>2, <1>3 DEF on_idle_timeout

\* The connection of on_accept has no cells and no callback: now it is parsed.
LEMMA AcceptReturn == ASSUME Inv, on_accept_return PROVE Inv'
<1> DEFINE c == Top.c
<1>1. /\ stack # <<>> /\ Top.f = "on_accept" /\ stack' = Tail(stack) /\ idle' = idle \cup {c}
      /\ state' = IF conn_dying(c) THEN state ELSE [state EXCEPT ![c] = "PARSING"]
      /\ UNCHANGED <<stream, recv, flags, conns, rest, posts, history>>
  BY DEF on_accept_return, InLib, Return, conn_idle_reset
<1>2. c \in Conn /\ stack' = <<>> /\ Callbacks(stack) = {}
  <2>1. Head(stack) = stack[1] /\ stack[1] \in Frame /\ Tail(stack) = <<>> /\ Callbacks(Tail(stack)) = Callbacks(stack)
    BY <1>1, TopFrame, Typing DEF Top, Callback
  <2>2. Callbacks(<<>>) = {}
    BY DEF Callbacks, ToSet
  <2> QED BY <1>1, <2>1, <2>2, FrameFields DEF Top
<1> HIDE DEF c
<1>3. state' \in [Conn -> State]
  BY <1>1, <1>2 DEF Inv, TypeOK, State
<1>4. TypeOK'
  BY <1>1, <1>2, <1>3 DEF Inv, TypeOK, flags, rest, history
<1>5. SameOverflow /\ Callbacks(stack') = {} /\ StackOK(stack')
  BY <1>2, OkEmpty DEF SameOverflow, Callbacks, ToSet
<1>6. ASSUME NEW d \in Conn PROVE Keeps(d)
  <2>1. QuietFor(d)
    BY <1>1, <1>2, <1>5 DEF QuietFor, history
  <2>2. CASE state'[d] = state[d]
    BY <2>1, <2>2 DEF Keeps, QuietFor
  <2>3. CASE d = c /\ state'[d] = "PARSING" /\ ~conn_dying(d)
    <3>1. CASE state[d] \in Active
      BY <2>1, <2>3, <3>1 DEF Keeps, Active
    <3>2. CASE state[d] \in {"NONE", "NEW"}
      <4>1. recv[d] = <<>> /\ cells[d] = 0 /\ last[d] = 0
        BY <3>2 DEF Inv, BufferInv
      <4>2. recv'[d] = <<>> /\ cells'[d] = 0 /\ last'[d] = 0 /\ Len(<<>>) = 0
        BY <1>1, <4>1, EmptySeq DEF history
      <4>3. Position(d)'
        <5>3. Len(recv'[d]) = 0
          BY <4>2, Zenon
        <5>4. 0 - 0 = 0 /\ \A i \in 1 .. 0 : FALSE
          OBVIOUS
        <5>5. cells'[d] - Len(recv'[d]) = 0
          BY <4>2, <5>3, <5>4, Zenon
        <5>6. \A i \in 1 .. Len(recv'[d]) : FALSE
          BY <5>3, <5>4, Zenon
        <5>1. Len(recv'[d]) <= cells'[d] /\ cells'[d] - Len(recv'[d]) = 0 /\ \A i \in 1 .. Len(recv'[d]) : FALSE
          <6>1. 0 <= 0
            OBVIOUS
          <6> QED BY <4>2, <5>3, <5>5, <5>6, <6>1, Zenon
        <5>2. \A fr \in Callbacks(stack') : FALSE
          BY <1>5
        <5> QED BY <4>2, <5>1, <5>2 DEF Position
      <4> QED BY <2>3, <4>3 DEF Keeps
    <3> QED BY <2>3, <3>1, <3>2 DEF Inv, TypeOK, conn_dying, State, Active
  <2> QED BY <1>1, <1>2, <2>2, <2>3 DEF Inv, TypeOK
<1>7. \A d \in stream' : state'[d] # "NONE"
  BY <1>1, <1>2 DEF Inv, BufferInv, TypeOK
<1>8. \A fr \in ToSet(stack') : fr.f # "overflow"
  BY <1>2 DEF ToSet
<1> QED BY <1>4, <1>5, <1>6, <1>7, <1>8, BufferKept DEF Inv

LEMMA CloseReturn == ASSUME Inv, on_conn_close_return PROVE Inv'
<1>1. /\ stack # <<>> /\ Top.f = "on_conn_close" /\ stack' = Tail(stack) /\ deferred_free(Top.c)
      /\ UNCHANGED <<state, stream, recv, flags, idle, conns, server, upgrades, history>>
  BY DEF on_conn_close_return, InLib, Return
<1>2. Top \in Frame /\ Top.c \in Conn
  BY <1>1, TopFrame, FrameFields, Typing DEF Top
<1>3. posts' \in Seq(Task) /\ freed' \in SUBSET Conn
  BY <1>1, <1>2, FreeTyped, Typing
<1>4. StackQuiet
  BY <1>1, StackPop, Typing DEF Callback
<1>5. Others'
  BY <1>1, <1>3, Typing DEF Others, flags, history
<1> QED BY <1>1, <1>4, <1>5, Calm DEF StateStep, history

-------------------------------------------------------------------------------
(* Posted tasks and the walk of srv_cleanup. *)

\* Running a posted task takes it off the queue.
LEMMA Ran ==
  ASSUME Inv, NEW f, CanRun(f)
  PROVE  /\ stack = <<>> /\ posts' \in Seq(Task) /\ Head(posts) \in Task
         /\ f # "srv_cleanup" => Head(posts).c \in Conn
<1>1. stack = <<>> /\ posts # <<>> /\ Head(posts).f = f /\ posts' = Tail(posts) /\ posts \in Seq(Task)
  BY DEF CanRun, Inv, TypeOK
<1>2. posts' \in Seq(Task) /\ Head(posts) \in Task
  BY <1>1, HeadTailProperties
<1> QED BY <1>1, <1>2 DEF Task

LEMMA ProcessFrame ==
  ASSUME NEW c \in Conn
  PROVE  Process(c) \in Frame /\ Process(c).f = "process" /\ Process(c).c = c
BY FrameMake, HttpAssumption DEF Process

LEMMA ProcessPost == ASSUME Inv, http_process_post PROVE Inv'
<1> DEFINE c == Head(posts).c
<1>1. /\ CanRun("http_process") /\ stack' = IF ~conn_dying(c) /\ recv[c] # <<>> THEN <<Process(c)>> ELSE <<>>
      /\ UNCHANGED <<state, stream, recv, flags, idle, conns, rest, history>>
  BY DEF http_process_post
<1>2. stack = <<>> /\ posts' \in Seq(Task) /\ c \in Conn
  BY <1>1, Ran
<1> HIDE DEF c
<1>3. StackQuiet
  <2>1. CASE stack' = stack
    BY <2>1, StackSame, Typing
  <2>2. CASE stack' = <<Process(c)>>
    <3> DEFINE fr == Process(c)
    <3>1. fr \in Frame /\ fr.f = "process"
      BY <1>2, ProcessFrame
    <3> HIDE DEF fr
    <3>2. stack' = <<fr>> \o stack
      BY <1>2, <2>2, <3>1, OneFrame DEF fr, Callback
    <3> QED BY <1>2, <3>1, <3>2, StackPush, Typing DEF Fitting, Callback
  <2> QED BY <1>1, <1>2, <2>1, <2>2
<1>4. Others'
  BY <1>1, <1>2, Typing DEF Others, flags, rest, history
<1> QED BY <1>1, <1>3, <1>4, Calm DEF StateStep, history

LEMMA ConnCleanup == ASSUME Inv, conn_cleanup PROVE Inv'
<1>1. /\ CanRun("conn_cleanup") /\ freed' = freed \cup {Head(posts).c}
      /\ UNCHANGED <<state, stream, recv, flags, idle, conns, server, upgrades, stack, history>>
  BY DEF conn_cleanup
<1>2. posts' \in Seq(Task) /\ Head(posts).c \in Conn
  BY <1>1, Ran
<1>3. StackQuiet
  BY <1>1, StackSame, Typing
<1>4. Others'
  BY <1>1, <1>2, Typing DEF Others, flags, history
<1> QED BY <1>1, <1>3, <1>4, Calm DEF StateStep, history

LEMMA SrvCleanup == ASSUME Inv, srv_cleanup PROVE Inv'
<1>1. /\ CanRun("srv_cleanup") /\ stack' = <<Walk>>
      /\ UNCHANGED <<state, stream, recv, flags, idle, conns, rest, history>>
  BY DEF srv_cleanup
<1>2. stack = <<>> /\ posts' \in Seq(Task)
  BY <1>1, Ran
<1>3. Walk \in Frame /\ Walk.f = "walk"
  BY WalkFrame, Typing DEF Others
<1>4. stack' = <<Walk>> \o stack
  BY <1>1, <1>2, <1>3, OneFrame DEF Callback
<1>5. StackQuiet
  BY <1>2, <1>3, <1>4, StackPush, Typing DEF Fitting, Callback
<1>6. Others'
  BY <1>1, <1>2, Typing DEF Others, flags, rest, history
<1> QED BY <1>1, <1>5, <1>6, Calm DEF StateStep, history

\* The next connection of the list.
LEMMA SuccessorTyped == ASSUME conns \in Seq(Conn), NEW c PROVE Successor(c) \in Conn \cup {None}
<1> DEFINE S == {j \in 1 .. Len(conns) - 1 : conns[j] = c}
<1>1. Successor(c) = IF S = {} THEN None ELSE conns[Min(S) + 1]
  BY DEF Successor
<1>2. S \subseteq 1 .. Len(conns) - 1 /\ Len(conns) \in Nat /\ S \subseteq Nat
  BY LenProperties
<1> HIDE DEF S
<1>3. S # {} => Min(S) \in S
  BY <1>2, MinOfNats
<1>4. S # {} => Min(S) + 1 \in 1 .. Len(conns)
  <2>1. S # {} => Min(S) \in 1 .. Len(conns) - 1
    BY <1>2, <1>3
  <2> DEFINE m == Min(S)
  <2> HIDE DEF m
  <2>2. S # {} => m + 1 \in 1 .. Len(conns)
    BY <1>2, <2>1 DEF m
  <2> QED BY <2>2 DEF m
<1>5. S # {} => conns[Min(S) + 1] \in Conn
  BY <1>4, ElementOfSeq
<1> QED BY <1>1, <1>5

LEMMA WalkStep == ASSUME Inv, walk_step PROVE Inv'
<1> DEFINE c == Top.c
           fr == [f |-> "walk_close", c |-> c, next |-> Successor(c)]
<1>1. /\ stack # <<>> /\ Top.f = "walk" /\ c # None
      /\ state' = [state EXCEPT ![c] = "CLOSED"] /\ idle' = idle \ {c}
      /\ closes' = [closes EXCEPT ![c] = @ + 1] /\ stack' = <<fr>> \o Tail(stack)
      /\ UNCHANGED <<stream, recv, flags, conns, rest, posts, cells, last>>
  BY DEF walk_step, walk_conn, InLib, http_state_set, conn_idle_stop
<1>2. Top \in Frame /\ c \in Conn
  BY <1>1, TopFrame, FrameFields, Typing DEF Top
<1>3. fr \in Frame /\ fr.f = "walk_close"
  BY <1>2, FrameMake, SuccessorTyped, Typing DEF Others
<1> HIDE DEF c, fr
<1>4. StackQuiet
  <2>1. Tail(stack) # <<>> => Tail(stack)[1].f # "no_upgrade"
    BY <1>1, TopFrame, Typing
  <2> QED BY <1>1, <1>3, <2>1, StackReplace, Typing DEF Fitting, Callback
<1>5. StateStep(c)
  <2>1. "CLOSED" \in State \ {"NONE", "NEW"} /\ "CLOSED" \notin Active
    BY DEF State, Active
  <2> QED BY <1>1, <2>1 DEF StateStep
<1>6. closes' \in [Conn -> Nat]
  BY <1>1, <1>2, Typing DEF Others
<1>7. Others'
  BY <1>1, <1>6, Typing DEF Others, flags, rest
<1> QED BY <1>1, <1>4, <1>5, <1>7, Calm

LEMMA WalkCloseReturn == ASSUME Inv, walk_close_return PROVE Inv'
<1> DEFINE fr == [f |-> "walk", c |-> Top.next]
<1>1. /\ stack # <<>> /\ Top.f = "walk_close" /\ stream' = stream \ {Top.c} /\ deferred_free(Top.c)
      /\ stack' = <<fr>> \o Tail(stack)
      /\ UNCHANGED <<state, recv, flags, idle, conns, server, upgrades, history>>
  BY DEF walk_close_return, InLib
<1>2. Top \in Frame /\ Top.c \in Conn /\ Top.next \in Conn \cup {None}
  BY <1>1, TopFrame, FrameFields, Typing DEF Top
<1>3. fr \in Frame /\ fr.f = "walk"
  BY <1>2, FrameMake
<1> HIDE DEF fr
<1>4. StackQuiet
  <2>1. Tail(stack) # <<>> => Tail(stack)[1].f # "no_upgrade"
    BY <1>1, TopFrame, Typing
  <2> QED BY <1>1, <1>3, <2>1, StackReplace, Typing DEF Fitting, Callback
<1>5. posts' \in Seq(Task) /\ freed' \in SUBSET Conn
  BY <1>1, <1>2, FreeTyped, Typing
<1>6. Others'
  BY <1>1, <1>5, Typing DEF Others, flags, history
<1> QED BY <1>1, <1>4, <1>6, Calm DEF StateStep, history

LEMMA WalkEnd == ASSUME Inv, walk_end PROVE Inv'
<1>1. /\ stack # <<>> /\ Top.f = "walk" /\ conns' = <<>> /\ server' = "freed" /\ stack' = Tail(stack)
      /\ UNCHANGED <<state, stream, recv, flags, idle, freed, upgrades, posts, history>>
  BY DEF walk_end, InLib, Return
<1>2. StackQuiet
  BY <1>1, StackPop, Typing DEF Callback
<1>3. Others'
  BY <1>1, EmptySeq, Typing DEF Others, flags, history
<1> QED BY <1>1, <1>2, <1>3, Calm DEF StateStep, history

-------------------------------------------------------------------------------
(* http_process. *)

\* While http_process is on top no callback of a request runs.
LEMMA TopProcess ==
  ASSUME Inv, NEW c, At("process", c)
  PROVE  /\ stack # <<>> /\ Top \in Frame /\ Top.f = "process" /\ Top.c = c /\ Top.n \in Nat /\ c \in Conn
         /\ Callbacks(stack) = {} /\ StackOK(Tail(stack))
         /\ Tail(stack) # <<>> => Tail(stack)[1].f # "no_upgrade"
         /\ Callbacks(Tail(stack)) = Callbacks(stack)
<1>1. stack # <<>> /\ Top.f = "process" /\ Top.c = c
  BY DEF At, InLib
<1>2. Top \in Frame /\ Callbacks(stack) = {} /\ (Tail(stack) # <<>> => Tail(stack)[1].f # "no_upgrade")
  BY <1>1, TopFrame, Typing DEF Top
<1>3. Callbacks(Tail(stack)) = Callbacks(stack)
  BY <1>1, TopFrame, Typing DEF Top, Callback
<1> QED BY <1>1, <1>2, <1>3, FrameFields, OkPop, Typing

LEMMA ProcessPop == ASSUME Inv, NEW c, At("process", c), Return PROVE StackQuiet
BY TopProcess, StackPop, Typing DEF Return, Callback

LEMMA Stop == ASSUME Inv, NEW c \in Conn, process_stop(c) PROVE Inv'
<1>1. /\ At("process", c) /\ Return
      /\ UNCHANGED <<state, stream, recv, flags, idle, conns, rest, posts, history>>
  BY DEF process_stop
<1>2. StackQuiet
  BY <1>1, ProcessPop
<1>3. Others'
  BY <1>1, Typing DEF Others, flags, rest, history
<1> QED BY <1>1, <1>2, <1>3, Calm DEF StateStep, history

LEMMA Partial == ASSUME Inv, NEW c \in Conn, process_partial(c) PROVE Inv'
<1>1. /\ At("process", c) /\ Return
      /\ UNCHANGED <<state, stream, recv, flags, idle, conns, rest, posts, history>>
  BY DEF process_partial, Parsed, More
<1>2. StackQuiet
  BY <1>1, ProcessPop
<1>3. Others'
  BY <1>1, Typing DEF Others, flags, rest, history
<1> QED BY <1>1, <1>2, <1>3, Calm DEF StateStep, history

LEMMA Yield == ASSUME Inv, NEW c \in Conn, process_yield(c) PROVE Inv'
<1>1. /\ At("process", c) /\ Return
      /\ UNCHANGED <<stream, recv, flags, idle, conns, rest, history>>
  BY DEF process_yield, More
<1>2. StackQuiet
  BY <1>1, ProcessPop
<1>3. StateStep(c) /\ posts' \in Seq(Task)
  <2>1. CASE sevent_post("http_process", c) /\ UNCHANGED state
    BY <2>1, PostTyped, TaskMake, Typing DEF StateStep, Others
  <2>2. CASE conn_close_graceful(c) /\ UNCHANGED posts
    BY <2>2, Graceful, Typing DEF TypeOK, Others
  <2> QED BY <2>1, <2>2 DEF process_yield
<1>4. Others'
  BY <1>1, <1>3, Typing DEF Others, flags, rest, history
<1> QED BY <1>1, <1>2, <1>3, <1>4, Calm DEF history

\* 400 and 413 end the frames above the ones below.
LEMMA Internal ==
  ASSUME Inv, NEW c \in Conn, NEW rc, NEW below, http_respond_internal(c, rc, below),
         StackOK(below), below # <<>> => below[1].f # "no_upgrade",
         UNCHANGED <<wrote, rest, posts>>
  PROVE  /\ StateStep(c) /\ stream' \subseteq stream /\ Others'
         /\ StackOK(stack') /\ Callbacks(stack') = Callbacks(below)
         /\ \A fr \in ToSet(stack') : fr.f = "overflow" => fr \in ToSet(below)
         /\ rc # "REFUSED" => state'[c] \in {"CLOSING", "CLOSED", "RELEASED"}
<1>1. CASE /\ close_pending' = close_pending \cup {c} /\ conn_close_graceful(c) /\ stack' = below
           /\ UNCHANGED <<idle, ends>>
  <2>1. StateStep(c)
    BY <1>1, Graceful, Typing DEF TypeOK
  <2>2. state'[c] \in {"CLOSING", "CLOSED", "RELEASED"}
    BY <1>1, Typing DEF conn_close_graceful, conn_dying, TypeOK
  <2>3. Others'
    BY <1>1, Typing DEF Others, ends, rest
  <2> QED BY <1>1, <2>1, <2>2, <2>3 DEF ends
<1>2. CASE rc = "REFUSED" /\ stack' = below /\ UNCHANGED <<state, close_pending, idle, ends>>
  <2>1. Others'
    BY <1>2, Typing DEF Others, ends, rest
  <2> QED BY <1>2, <2>1 DEF StateStep, ends
<1>3. CASE conn_terminate(c, below) /\ UNCHANGED close_pending
  <2>1. /\ state' = [state EXCEPT ![c] = "CLOSED"] /\ stream' = stream \ {c}
        /\ idle' \in SUBSET Conn /\ conns' \in Seq(Conn) /\ closes' \in [Conn -> Nat]
        /\ StackOK(stack') /\ Callbacks(stack') = Callbacks(below)
        /\ \A fr \in ToSet(stack') : fr.f = "overflow" => fr \in ToSet(below)
    BY <1>3, Typing, Terminated
  <2>2. StateStep(c)
    <3>1. "CLOSED" \in State \ {"NONE", "NEW"} /\ "CLOSED" \notin Active
      BY DEF State, Active
    <3> QED BY <2>1, <3>1 DEF StateStep
  <2>3. Others'
    BY <1>3, <2>1, Typing DEF Others, rest
  <2>4. state'[c] = "CLOSED"
    BY <2>1, Typing DEF TypeOK
  <2> QED BY <2>1, <2>2, <2>3, <2>4
<1> QED BY <1>1, <1>2, <1>3 DEF http_respond_internal

LEMMA Reject == ASSUME Inv, NEW c \in Conn, process_reject(c) PROVE Inv'
<1>1. At("process", c) /\ UNCHANGED <<recv, wrote, rest, posts, cells, last>>
  BY DEF process_reject, Parsed, More
<1>2. PICK rc \in conn_respond_build : http_respond_internal(c, rc, Tail(stack))
  BY DEF process_reject
<1>3. /\ stack # <<>> /\ StackOK(Tail(stack)) /\ Callbacks(Tail(stack)) = Callbacks(stack)
      /\ Tail(stack) # <<>> => Tail(stack)[1].f # "no_upgrade"
  BY <1>1, TopProcess
<1>4. /\ StateStep(c) /\ stream' \subseteq stream /\ Others'
      /\ StackOK(stack') /\ Callbacks(stack') = Callbacks(Tail(stack))
      /\ \A fr \in ToSet(stack') : fr.f = "overflow" => fr \in ToSet(Tail(stack))
  BY <1>1, <1>2, <1>3, Internal
<1>5. ToSet(Tail(stack)) \subseteq ToSet(stack)
  BY <1>3, Pop, Typing DEF StackOK
<1>6. StackQuiet
  BY <1>3, <1>4, <1>5 DEF StackQuiet, SameOverflow
<1> QED BY <1>1, <1>4, <1>6, Calm

-------------------------------------------------------------------------------
(* Buffers. *)

\* The length of a complete request.
LEMMA RequestLength ==
  ASSUME NEW b \in Seq(Cell), ReqLen(b) # 0
  PROVE  ReqLen(b) \in 1 .. Len(b)
<1> DEFINE S == {i \in 1 .. Len(b) : b[i].k # "part"}
<1>1. ReqLen(b) = IF S = {} THEN 0 ELSE Min(S)
  BY DEF ReqLen
<1>2. S \subseteq 1 .. Len(b) /\ S \subseteq Nat
  BY LenProperties
<1> HIDE DEF S
<1>3. S # {} => Min(S) \in S
  BY <1>2, MinOfNats
<1> QED BY <1>1, <1>2, <1>3

\* The request that is dispatched is the one that follows the last.
LEMMA Dispatch == ASSUME Inv, NEW c \in Conn, process_dispatch(c) PROVE Inv'
<1> DEFINE n == ReqLen(recv[c])
           f == IF First(c) # "up" THEN "on_request" ELSE IF upgrades THEN "on_upgrade" ELSE "no_upgrade"
           fr == [f |-> f, c |-> c, n |-> n]
           gr == [Top EXCEPT !.n = Top.n - 1]
<1>1. /\ At("process", c) /\ state[c] = "PARSING" /\ Top.n > 0 /\ n # 0
      /\ state' = [state EXCEPT ![c] = "REQUEST"]
      /\ close_pending' = IF First(c) = "last" THEN close_pending \cup {c} ELSE close_pending \ {c}
      /\ wrote' = wrote \ {c}
      /\ last' = [last EXCEPT ![c] = recv[c][n].n]
      /\ stack' = <<fr, gr>> \o Tail(stack)
      /\ UNCHANGED <<recv, idle, ends, rest, posts, cells>>
  BY DEF process_dispatch, Request, Parsed, More, http_state_set
<1>2. /\ stack # <<>> /\ Top \in Frame /\ Top.f = "process" /\ Top.c = c /\ Top.n \in Nat
      /\ Callbacks(stack) = {} /\ StackOK(Tail(stack)) /\ Callbacks(Tail(stack)) = {}
  BY <1>1, TopProcess
<1>3. n \in 1 .. Len(recv[c]) /\ recv[c] \in Seq(Cell) /\ Len(recv[c]) \in Nat /\ n \in Nat
  BY <1>1, RequestLength, LenProperties DEF Inv, TypeOK
<1>4. f \in Callback
  BY DEF Callback
<1> HIDE DEF f
<1>5. fr \in Frame /\ fr.f \in Callback /\ fr.c = c /\ fr.n = n
  BY <1>3, <1>4, FrameMake DEF Callback
<1>6. gr \in Frame /\ gr.f = "process" /\ gr.c = c
  <2>1. Top.n - 1 \in Nat
    BY <1>1, <1>2
  <2> QED BY <1>2, <2>1, FrameCount
<1> HIDE DEF fr, gr, n
<1>7. StackOK(stack') /\ Callbacks(stack') = {fr} /\ ToSet(stack') = ToSet(Tail(stack)) \cup {fr, gr}
  <2> DEFINE s == <<gr>> \o Tail(stack)
  <2>1. stack' = <<fr>> \o s
    BY <1>1, <1>2, <1>5, <1>6, PushTwo DEF StackOK
  <2>2. Fitting(gr, Tail(stack))
    <3>1. stack = <<Top>> \o Tail(stack)
      BY <1>2, HeadTailProperties, Typing DEF StackOK, Top
    <3>2. Tail(stack) = <<>> \/ (Tail(stack)[1].f = "overflow" /\ Tail(Tail(stack)) = <<>>)
      BY <1>2, TopFrame, Typing DEF Top
    <3>3. Tail(stack) # <<>> => Tail(stack)[1].c = c
      <4>1. ASSUME Tail(stack) # <<>> PROVE Tail(stack)[1].c = c
        <5>1. Tail(stack)[1].f = "overflow" /\ Len(Tail(stack)) # 0
          BY <3>2, <4>1, EmptySeq, <1>2 DEF StackOK
        <5>2. stack \in Seq(Frame) /\ Len(stack) \in Nat \ {0} /\ Len(Tail(stack)) = Len(stack) - 1
              /\ \A i \in 1 .. (Len(stack) - 1) : Tail(stack)[i] = stack[i + 1]
          BY <1>2, Pop, Typing DEF StackOK
        <5>3. 1 \in 1 .. Len(stack) /\ 1 # Len(stack) /\ Tail(stack)[1] = stack[1 + 1]
          BY <5>1, <5>2
        <5>4. stack[1].f = "process" /\ stack[1].c = c
          BY <1>2, TopFrame, Typing DEF Top
        <5> QED BY <5>3, <5>4, Typing DEF StackOK, Shape
      <4> QED BY <4>1
    <3> QED BY <1>6, <3>2, <3>3 DEF Fitting, Callback
  <2>3. StackOK(s) /\ s \in Seq(Frame) /\ s # <<>> /\ s[1] = gr
    <3>1. StackOK(s)
      BY <1>2, <1>6, <2>2, OkPush
    <3>2. s \in Seq(Frame) /\ Len(s) = Len(Tail(stack)) + 1 /\ s[1] = gr /\ Len(Tail(stack)) \in Nat
      BY <1>2, <1>6, Push, LenProperties DEF StackOK
    <3>3. s # <<>>
      BY <3>2, EmptySeq
    <3> QED BY <3>1, <3>2, <3>3
  <2>4. ToSet(s) = ToSet(Tail(stack)) \cup {gr}
    BY <1>2, <1>6, PushSets DEF StackOK
  <2> HIDE DEF s
  <2>5. Fitting(fr, s)
    BY <1>5, <1>6, <2>3 DEF Fitting, Callback
  <2>6. StackOK(stack') /\ ToSet(stack') = ToSet(s) \cup {fr}
    BY <1>5, <2>1, <2>3, <2>5, OkPush, PushSets
  <2>7. Callbacks(stack') = {fr}
    <3>1. \A x \in ToSet(Tail(stack)) : x.f \notin Callback
      BY <1>2 DEF Callbacks
    <3>2. "process" \notin Callback
      BY DEF Callback
    <3> QED BY <1>5, <1>6, <2>4, <2>6, <3>1, <3>2 DEF Callbacks
  <2> QED BY <2>4, <2>6, <2>7
<1>8. last' \in [Conn -> Nat] /\ state' \in [Conn -> State]
  <2>1. recv[c][n] \in Cell
    BY <1>3, ElementOfSeq
  <2>2. recv[c][n].n \in Nat
    BY <2>1 DEF Cell
  <2> QED BY <1>1, <2>2 DEF Inv, TypeOK, State
<1>9. TypeOK'
  BY <1>1, <1>7, <1>8 DEF Inv, TypeOK, ends, rest, StackOK
<1>10. ASSUME NEW d \in Conn PROVE Keeps(d)
  <2>1. CASE d = c
    <3>1. Position(c)
      BY <1>1 DEF Inv, BufferInv, Active
    <3>2. state'[c] = "REQUEST" /\ last'[c] = recv[c][n].n
      BY <1>1 DEF Inv, TypeOK
    <3>3. /\ Len(recv[c]) <= cells[c] /\ cells[c] \in Nat
          /\ \A i \in 1 .. Len(recv[c]) : recv[c][i].n = (cells[c] - Len(recv[c])) + i
      BY <3>1 DEF Position, Inv, TypeOK
    <3>4. last'[c] = (cells[c] - Len(recv[c])) + n
      BY <1>3, <3>2, <3>3
    <3>5. Position(c)'
      BY <1>1, <1>3, <1>5, <1>7, <3>3, <3>4 DEF Position
    <3> QED BY <2>1, <3>2, <3>5 DEF Keeps, Active
  <2>2. CASE d # c
    <3>1. QuietFor(d)
      BY <1>1, <1>2, <1>5, <1>7, <2>2 DEF QuietFor, Inv, TypeOK
    <3> QED BY <1>1, <2>2, <3>1 DEF Keeps, QuietFor, Inv, TypeOK
  <2> QED BY <2>1, <2>2
<1>11. ASSUME NEW x \in ToSet(stack'), x.f = "overflow", NEW i \in 1 .. Len(x.d)
       PROVE  x.d[i].n = cells'[x.c] + i
  <2>1. x \in ToSet(stack)
    <3>1. x # fr /\ x # gr
      BY <1>5, <1>6, <1>11 DEF Callback
    <3>2. ToSet(Tail(stack)) \subseteq ToSet(stack)
      BY <1>2, Pop, Typing DEF StackOK
    <3> QED BY <1>7, <1>11, <3>1, <3>2
  <2> QED BY <1>1, <1>11, <2>1 DEF Inv, BufferInv
<1>12. \A d \in stream' : state'[d] # "NONE"
  BY <1>1 DEF Inv, BufferInv, TypeOK, ends
<1> QED BY <1>7, <1>9, <1>10, <1>11, <1>12, BufferKept DEF Inv

\* The callback of a request is on top of http_process for its connection.
LEMMA TopCallback ==
  ASSUME Inv, stack # <<>>, Top.f \in Callback
  PROVE  /\ Top \in Frame /\ Top.c \in Conn /\ Top.n \in Nat /\ Callbacks(stack) = {Top}
         /\ StackOK(Tail(stack)) /\ Callbacks(Tail(stack)) = {} /\ ToSet(Tail(stack)) \subseteq ToSet(stack)
         /\ StackOK(Tail(Tail(stack))) /\ Callbacks(Tail(Tail(stack))) = {}
         /\ ToSet(Tail(Tail(stack))) \subseteq ToSet(stack)
         /\ Tail(Tail(stack)) # <<>> => Tail(Tail(stack))[1].f # "no_upgrade"
<1> DEFINE s == Tail(stack)
<1>1. /\ Top = stack[1] /\ stack[1] \in Frame /\ s # <<>> /\ Callbacks(stack) = {stack[1]}
      /\ Callbacks(s) = {} /\ s[1].f = "process"
  BY TopFrame, Typing DEF Top
<1>2. StackOK(s)
  BY OkPop, Typing
<1>3. ToSet(s) \subseteq ToSet(stack)
  BY Pop, Typing DEF StackOK
<1> HIDE DEF s
<1>4. StackOK(Tail(s)) /\ ToSet(Tail(s)) \subseteq ToSet(s)
  BY <1>1, <1>2, OkPop, Pop DEF StackOK
<1>5. Callbacks(Tail(s)) = Callbacks(s) /\ (Tail(s) # <<>> => Tail(s)[1].f # "no_upgrade")
  <2>1. "process" \notin Callback
    BY DEF Callback
  <2> QED BY <1>1, <1>2, <2>1, TopFrame
<1>6. Top.c \in Conn /\ Top.n \in Nat
  BY <1>1, FrameFields DEF Callback
<1> QED BY <1>1, <1>2, <1>3, <1>4, <1>5, <1>6 DEF s

\* When it returns, the buffer begins after the request, if the connection is
\* still in use.
LEMMA AfterCallback ==
  ASSUME Inv, stack # <<>>, Top.f \in Callback, NEW c, NEW n, Top.c = c, Top.n = n, request_after_callback(c, n),
         UNCHANGED <<ends, flags, rest, posts, cells, last>>
  PROVE  Inv'
<1>1. /\ c \in Conn /\ n \in Nat /\ Callbacks(stack) = {Top}
      /\ StackOK(Tail(stack)) /\ Callbacks(Tail(stack)) = {} /\ ToSet(Tail(stack)) \subseteq ToSet(stack)
      /\ StackOK(Tail(Tail(stack))) /\ Callbacks(Tail(Tail(stack))) = {}
      /\ ToSet(Tail(Tail(stack))) \subseteq ToSet(stack)
  BY TopCallback
<1>2. stack' = Tail(stack) \/ stack' = Tail(Tail(stack))
  BY DEF request_after_callback, Return
<1>3. StackOK(stack') /\ Callbacks(stack') = {} /\ ToSet(stack') \subseteq ToSet(stack)
  BY <1>1, <1>2
<1>4. Top.c = c /\ Top.n = n /\ request_after_callback(c, n)
  OBVIOUS
<1>5. idle' \in SUBSET Conn
  BY <1>1, <1>4, Typing DEF request_after_callback, conn_idle_reset, Others
<1>6. state' = state \/ (state[c] = "REQUEST" /\ \E s \in {"RESPONDING", "AWAIT_RESP"} : state' = [state EXCEPT ![c] = s])
  BY <1>4 DEF request_after_callback
<1>7. /\ state' \in [Conn -> State]
      /\ \A d \in Conn : /\ state'[d] \in {"NONE", "NEW"} => state[d] \in {"NONE", "NEW"}
                         /\ state'[d] \in Active => state[d] \in Active
                         /\ state'[d] = "NONE" => state[d] = "NONE"
  BY <1>1, <1>6, Typing DEF TypeOK, State, Active
<1>8. Others'
  BY <1>5, Typing DEF Others, ends, flags, rest
<1>9. ASSUME NEW x \in ToSet(stack'), x.f = "overflow", NEW i \in 1 .. Len(x.d)
      PROVE  x.d[i].n = cells'[x.c] + i
  BY <1>3, <1>9 DEF Inv, BufferInv
<1>10. \A d \in stream' : state'[d] # "NONE"
  BY <1>7 DEF Inv, BufferInv, TypeOK, ends
<1>11. ASSUME recv' = recv, conn_dying(c) PROVE Inv'
  <2>1. ASSUME NEW d \in Conn PROVE Keeps(d)
    <3>1. CASE d = c
      <4>1. state[d] \in {"CLOSING", "CLOSED", "RELEASED"}
        BY <1>11, <3>1 DEF conn_dying
      <4>2. state'[d] \notin {"NONE", "NEW"} /\ state'[d] \notin Active
        BY <1>7, <4>1 DEF Active
      <4> QED BY <4>2 DEF Keeps
    <3>2. CASE d # c
      BY <1>1, <1>3, <1>4, <1>7, <1>11, <3>2 DEF Keeps, QuietFor
    <3> QED BY <3>1, <3>2
  <2>2. TypeOK'
    BY <1>3, <1>7, <1>8, <1>11 DEF Inv, TypeOK, Others, StackOK, ends
  <2> QED BY <1>3, <1>9, <1>10, <2>1, <2>2, BufferKept DEF Inv
<1>12. ASSUME Consumed(c, n) PROVE Inv'
  <2> DEFINE b == recv[c]
             e == SubSeq(b, n + 1, Len(b))
  <2>1. b \in Seq(Cell) /\ Len(b) \in Nat /\ Len(b) <= Cap
    BY <1>1, LenProperties, Typing DEF TypeOK
  <2>2. /\ e \in Seq(Cell)
        /\ Len(e) = IF n + 1 <= Len(b) THEN Len(b) - n ELSE 0
        /\ \A i \in 1 .. Len(b) - n : e[i] = b[n + i]
    <3>1. \A i \in (n + 1) .. Len(b) : b[i] \in Cell
      BY <1>1, <2>1, ElementOfSeq
    <3>2. /\ e \in Seq(Cell)
          /\ Len(e) = IF n + 1 <= Len(b) THEN Len(b) - (n + 1) + 1 ELSE 0
          /\ \A i \in 1 .. Len(b) - (n + 1) + 1 : e[i] = b[(n + 1) + i - 1]
      BY <1>1, <2>1, <3>1, SubSeqProperties
    <3> HIDE DEF e, b
    <3>3. \A i \in Nat : (n + 1) + i - 1 = n + i
      BY <1>1
    <3>4. Len(b) - (n + 1) + 1 = Len(b) - n
      BY <1>1, <2>1
    <3>5. ASSUME NEW i \in 1 .. Len(b) - n PROVE e[i] = b[n + i]
      BY <3>2, <3>3, <3>4
    <3> QED BY <3>2, <3>4, <3>5
  <2>3. recv' = [recv EXCEPT ![c] = e]
    BY <1>12 DEF Consumed
  <2> HIDE DEF e
  <2>4. Len(e) <= Cap /\ Len(e) \in Nat
    BY <1>1, <2>1, <2>2, HttpAssumption
  <2>5. recv' \in [Conn -> Seq(Cell)] /\ (\A d \in Conn : Len(recv'[d]) <= Cap) /\ recv'[c] = e
    BY <1>1, <2>2, <2>3, <2>4, Typing DEF TypeOK
  <2>6. TypeOK'
    BY <1>3, <1>7, <1>8, <2>5 DEF Inv, TypeOK, Others, StackOK, ends
  <2>7. ASSUME state[c] \in Active PROVE Position(c)'
    <3>1. Position(c)
      BY <1>1, <2>7 DEF Inv, BufferInv
    <3>2. /\ Len(b) <= cells[c] /\ cells[c] \in Nat /\ last[c] \in Nat
          /\ \A i \in 1 .. Len(b) : b[i].n = (cells[c] - Len(b)) + i
          /\ n \in 1 .. Len(b) /\ last[c] = (cells[c] - Len(b)) + n
      BY <1>1, <1>4, <3>1, Typing DEF Position, TypeOK
    <3> HIDE DEF b
    <3>3. Len(e) = Len(b) - n /\ cells[c] - Len(e) = last[c] /\ Len(e) <= cells[c]
      <4>1. n \in Nat /\ 1 <= n /\ n <= Len(b) /\ Len(b) \in Nat
        BY <1>1, <2>1, <3>2
      <4>2. Len(e) = Len(b) - n
        BY <2>2, <4>1
      <4> QED BY <3>2, <4>1, <4>2
    <3>4. ASSUME NEW i \in 1 .. Len(e) PROVE e[i].n = (cells[c] - Len(e)) + i
      <4> DEFINE j == n + i
      <4>1. e[i] = b[j] /\ j \in 1 .. Len(b) /\ j = n + i
        BY <1>1, <2>1, <2>2, <3>3
      <4> HIDE DEF j
      <4>2. b[j].n = (cells[c] - Len(b)) + j
        BY <3>2, <4>1
      <4>3. (cells[c] - Len(b)) + j = (cells[c] - Len(e)) + i
        BY <1>1, <2>1, <3>2, <3>3, <4>1
      <4> QED BY <4>1, <4>2, <4>3
    <3>5. last'[c] = cells'[c] - Len(recv'[c]) /\ Len(recv'[c]) <= cells'[c]
      BY <2>5, <3>3
    <3>6. \A i \in 1 .. Len(recv'[c]) : recv'[c][i].n = (cells'[c] - Len(recv'[c])) + i
      BY <2>5, <3>4
    <3>7. \A fr \in Callbacks(stack') : FALSE
      BY <1>3
    <3>8. /\ (\A fr \in Callbacks(stack') : fr.c # c) => last'[c] = cells'[c] - Len(recv'[c])
          /\ \A fr \in Callbacks(stack') :
               fr.c = c => fr.n \in 1 .. Len(recv'[c]) /\ last'[c] = (cells'[c] - Len(recv'[c])) + fr.n
      BY <3>5, <3>7
    <3> QED BY <3>5, <3>6, <3>8 DEF Position
  <2>8. ASSUME state[c] \in {"NONE", "NEW"} PROVE recv'[c] = recv[c]
    <3>1. b = <<>>
      BY <1>1, <2>8 DEF Inv, BufferInv
    <3>2. Len(b) = 0
      BY <3>1
    <3>3. Len(e) = 0
      BY <1>1, <2>2, <3>2
    <3>4. e = <<>>
      BY <2>2, <3>3, EmptySeq
    <3> QED BY <2>5, <3>1, <3>4
  <2>9. ASSUME NEW d \in Conn PROVE Keeps(d)
    <3>1. CASE d = c
      <4>1. state'[c] \in {"NONE", "NEW"} =>
              state[c] \in {"NONE", "NEW"} /\ recv'[c] = recv[c] /\ cells'[c] = cells[c] /\ last'[c] = last[c]
        BY <1>1, <1>7, <2>8
      <4>2. state'[c] \in Active => Position(c)'
        BY <1>1, <1>7, <2>7
      <4> QED BY <3>1, <4>1, <4>2 DEF Keeps
    <3>2. CASE d # c
      <4>1. recv'[d] = recv[d]
        BY <2>3, <3>2, Typing DEF TypeOK
      <4>2. QuietFor(d)
        BY <1>1, <1>3, <1>4, <3>2, <4>1 DEF QuietFor
      <4> QED BY <1>7, <4>2 DEF Keeps, QuietFor
    <3> QED BY <3>1, <3>2
  <2> QED BY <1>3, <1>9, <1>10, <2>6, <2>9, BufferKept DEF Inv
<1> QED BY <1>4, <1>11, <1>12 DEF request_after_callback

LEMMA CallbackReturn == ASSUME Inv, callback_return PROVE Inv'
BY AfterCallback DEF callback_return, InLib, Callback

LEMMA NoUpgrade == ASSUME Inv, NEW c \in Conn, no_upgrade(c) PROVE Inv'
<1>1. /\ stack # <<>> /\ Top.f = "no_upgrade" /\ Top.c = c /\ UNCHANGED <<wrote, rest, posts, cells, last>>
  BY DEF no_upgrade, At, InLib
<1>2. CASE request_after_callback(c, Top.n) /\ UNCHANGED <<ends, close_pending>>
  BY <1>1, <1>2, AfterCallback DEF Callback, flags
<1>3. ASSUME NEW rc, rc # "REFUSED", http_respond_internal(c, rc, Tail(Tail(stack))), UNCHANGED recv PROVE Inv'
  <2> DEFINE below == Tail(Tail(stack))
  <2>1. /\ Callbacks(stack) = {Top} /\ StackOK(below) /\ Callbacks(below) = {} /\ ToSet(below) \subseteq ToSet(stack)
        /\ below # <<>> => below[1].f # "no_upgrade"
    BY <1>1, TopCallback DEF Callback
  <2> HIDE DEF below
  <2>2. /\ StateStep(c) /\ stream' \subseteq stream /\ Others'
        /\ StackOK(stack') /\ Callbacks(stack') = {}
        /\ \A fr \in ToSet(stack') : fr.f = "overflow" => fr \in ToSet(below)
        /\ state'[c] \in {"CLOSING", "CLOSED", "RELEASED"}
    BY <1>1, <1>3, <2>1, Internal DEF below
  <2>3. SameOverflow
    BY <2>1, <2>2 DEF SameOverflow
  <2>4. state' \in [Conn -> State]
    BY <2>2, Typing DEF TypeOK, StateStep, State
  <2>5. TypeOK'
    BY <1>1, <1>3, <2>2, <2>4, Typing DEF TypeOK, Others, StackOK
  <2>6. ASSUME NEW d \in Conn
        PROVE  /\ state'[d] \in {"NONE", "NEW"} => state[d] \in {"NONE", "NEW"}
               /\ state'[d] \in Active => state[d] \in Active
               /\ state'[d] = "NONE" => state[d] = "NONE"
    BY <2>2, Typing DEF TypeOK, StateStep, Active
  <2>7. ASSUME NEW d \in Conn, state'[d] \in Active \cup {"NONE", "NEW"}, NEW fr, fr.c = d
        PROVE  fr \in Callbacks(stack') <=> fr \in Callbacks(stack)
    <3>1. d # c
      BY <2>2, <2>7 DEF Active
    <3> QED BY <1>1, <2>1, <2>2, <2>7, <3>1
  <2>8. \A d \in stream' : state'[d] # "NONE"
    BY <2>2, <2>6 DEF Inv, BufferInv, TypeOK
  <2>9. Quiet
    BY <1>1, <1>3, <2>3, <2>6, <2>7, <2>8 DEF Quiet
  <2> QED BY <2>2, <2>5, <2>9, QuietStep DEF Inv
<1> QED BY <1>2, <1>3 DEF no_upgrade

\* Data is appended to the buffer, and processed if the connection is parsing.
LEMMA Received ==
  ASSUME Inv, NEW c \in Conn, NEW d \in Seq(Cell), Fits(c, d), state[c] \in Active, Callbacks(stack) = {},
         \A i \in 1 .. Len(d) : d[i].n = cells[c] + i,
         Receive(c, d, <<>>), UNCHANGED <<ends, flags, rest, posts, last>>
  PROVE  Inv'
<1> DEFINE b == recv[c]
           e == b \o d
           m == cells[c]
<1>1. /\ recv' = [recv EXCEPT ![c] = e] /\ cells' = [cells EXCEPT ![c] = m + Len(d)]
      /\ idle' = idle \cup {c} /\ UNCHANGED state
      /\ stack' = (IF state[c] = "PARSING" THEN <<Process(c)>> ELSE <<>>) \o <<>>
  BY DEF Receive, conn_idle_reset
<1>2. b \in Seq(Cell) /\ Len(b) \in Nat /\ Len(b) <= Cap /\ Len(d) \in Nat /\ m \in Nat
  BY LenProperties, Typing DEF TypeOK
<1>3. e \in Seq(Cell) /\ Len(e) = Len(b) + Len(d) /\ Len(e) \in Nat
  BY <1>2, ConcatProperties
<1>4. Len(e) <= Cap
  BY <1>2, <1>3, HttpAssumption DEF Fits
<1>5. \A i \in 1 .. Len(b) + Len(d) : e[i] = IF i <= Len(b) THEN b[i] ELSE d[i - Len(b)]
  BY <1>2, ConcatProperties
<1>6. StackOK(stack') /\ Callbacks(stack') = {} /\ \A fr \in ToSet(stack') : fr.f # "overflow"
  <2> DEFINE fr == Process(c)
  <2>1. fr \in Frame /\ fr.f = "process" /\ fr.f \notin Callback
    BY ProcessFrame DEF Callback
  <2> HIDE DEF fr
  <2>2. CASE stack' = <<fr>>
    BY <2>1, <2>2, OneFrame
  <2>3. CASE stack' = <<>>
    BY <2>3, OkEmpty DEF Callbacks, ToSet
  <2>4. stack' = <<fr>> \/ stack' = <<>>
    BY <1>1, <2>1, OneFrame, ConcatEmptySeq, EmptySeq DEF fr
  <2> QED BY <2>2, <2>3, <2>4
<1>7. Position(c)
  BY DEF Inv, BufferInv
<1>8. /\ Len(b) <= m /\ last[c] = m - Len(b)
      /\ \A i \in 1 .. Len(b) : b[i].n = (m - Len(b)) + i
  BY <1>7 DEF Position
<1> HIDE DEF b, e, m
<1>9. ASSUME NEW i \in 1 .. Len(e) PROVE e[i].n = (m - Len(b)) + i
  <2>1. CASE i <= Len(b)
    <3>1. i \in 1 .. Len(b) /\ i \in 1 .. Len(b) + Len(d)
      BY <1>2, <1>3, <2>1
    <3>2. e[i] = b[i]
      BY <1>5, <2>1, <3>1
    <3> QED BY <1>8, <3>1, <3>2, Zenon
  <2>2. CASE i > Len(b)
    <3> DEFINE j == i - Len(b)
    <3>1. j \in 1 .. Len(d) /\ i = j + Len(b) /\ e[i] = d[j]
      BY <1>2, <1>3, <1>5, <2>2
    <3> HIDE DEF j
    <3>2. d[j].n = m + j
      BY <3>1 DEF m
    <3>3. m + j = (m - Len(b)) + i
      BY <1>2, <1>3, <3>1
    <3> QED BY <3>1, <3>2, <3>3
  <2> QED BY <1>2, <1>3, <2>1, <2>2
<1>10. recv'[c] = e /\ cells'[c] = m + Len(d)
  BY <1>1, Typing DEF TypeOK
<1>11. Position(c)'
  <2>1. last'[c] = cells'[c] - Len(recv'[c]) /\ Len(recv'[c]) <= cells'[c]
    <3>1. last[c] = (m + Len(d)) - Len(e) /\ Len(e) <= m + Len(d)
      BY <1>2, <1>3, <1>8
    <3> QED BY <1>10, <3>1
  <2>2. \A i \in 1 .. Len(recv'[c]) : recv'[c][i].n = (cells'[c] - Len(recv'[c])) + i
    <3>1. (m + Len(d)) - Len(e) = m - Len(b)
      BY <1>2, <1>3
    <3> QED BY <1>9, <1>10, <3>1
  <2>3. \A fr \in Callbacks(stack') : FALSE
    BY <1>6
  <2> QED BY <2>1, <2>2, <2>3 DEF Position
<1>12. ASSUME NEW x \in Conn PROVE Keeps(x)
  <2>1. CASE x = c
    BY <1>1, <1>11, <2>1 DEF Keeps, Active
  <2>2. CASE x # c
    <3>1. recv'[x] = recv[x] /\ cells'[x] = cells[x]
      BY <1>1, <2>2, Typing DEF TypeOK
    <3>2. QuietFor(x)
      BY <1>6, <3>1 DEF QuietFor
    <3> QED BY <1>1, <3>2 DEF Keeps, QuietFor
  <2> QED BY <2>1, <2>2
<1>13. recv' \in [Conn -> Seq(Cell)] /\ \A x \in Conn : Len(recv'[x]) <= Cap
  BY <1>1, <1>3, <1>4, Typing DEF TypeOK
<1>14. cells' \in [Conn -> Nat]
  <2>1. m + Len(d) \in Nat
    BY <1>2
  <2> QED BY <1>1, <2>1, Typing DEF TypeOK
<1>15. TypeOK'
  BY <1>1, <1>6, <1>13, <1>14, Typing DEF TypeOK, ends, flags, rest, StackOK
<1>16. \A x \in stream' : state'[x] # "NONE"
  BY <1>1 DEF Inv, BufferInv, ends
<1> QED BY <1>6, <1>12, <1>15, <1>16, BufferKept DEF Inv

LEMMA Data == ASSUME Inv, NEW c \in Conn, NEW ks \in Chunk, conn_on_data(c, ks) PROVE Inv'
<1> DEFINE d == [i \in 1 .. Len(ks) |-> [k |-> ks[i], n |-> cells[c] + i]]
<1>1. /\ stack = <<>> /\ c \in stream /\ state[c] # "NEW" /\ ~conn_dying(c)
      /\ UNCHANGED <<ends, flags, rest, posts, last>>
  BY DEF conn_on_data
<1>2. d \in Seq(Cell) /\ Len(d) = Len(ks) /\ \A i \in 1 .. Len(d) : d[i].n = cells[c] + i
  <2>1. PICK m \in 1 .. MaxChunk : ks \in [1 .. m -> Kind]
    BY DEF Chunk
  <2>2. m \in Nat /\ cells[c] \in Nat /\ Kind \subseteq Cells
    BY <2>1, HttpAssumption, Typing DEF TypeOK
  <2>3. ks \in Seq(Kind) /\ Len(ks) = m
    BY <2>1, <2>2
  <2>4. \A i \in 1 .. m : [k |-> ks[i], n |-> cells[c] + i] \in Cell
    BY <2>1, <2>2 DEF Cell
  <2>5. d \in [1 .. m -> Cell]
    BY <2>3, <2>4
  <2>6. d \in Seq(Cell) /\ Len(d) = m
    BY <2>2, <2>5
  <2> QED BY <2>3, <2>6
<1>3. state[c] \in Active
  BY <1>1 DEF Inv, BufferInv, TypeOK, State, conn_dying, Active
<1>4. Callbacks(stack) = {}
  BY <1>1 DEF Callbacks, ToSet
<1>5. \/ Fits(c, d) /\ Receive(c, d, <<>>)
      \/ /\ stack' = <<[f |-> "overflow", c |-> c, n |-> 0, d |-> d]>>
         /\ UNCHANGED <<state, recv, idle, cells>>
      \/ conn_close_graceful(c) /\ UNCHANGED <<recv, idle, stack, cells>>
  BY DEF conn_on_data
<1> HIDE DEF d
<1>6. CASE Fits(c, d) /\ Receive(c, d, <<>>)
  BY <1>1, <1>2, <1>3, <1>4, <1>6, Received
<1>7. CASE /\ stack' = <<[f |-> "overflow", c |-> c, n |-> 0, d |-> d]>>
           /\ UNCHANGED <<state, recv, idle, cells>>
  <2> DEFINE fr == [f |-> "overflow", c |-> c, n |-> 0, d |-> d]
  <2>1. fr \in Frame /\ fr.f = "overflow" /\ fr.c = c /\ fr.d = d
    BY <1>2, FrameMake
  <2>2. stack' = <<fr>>
    BY <1>7
  <2> HIDE DEF fr
  <2>3. StackOK(stack') /\ ToSet(stack') = {fr} /\ Callbacks(stack') = {}
    BY <2>1, <2>2, OneFrame DEF Callback
  <2>4. TypeOK'
    BY <1>1, <1>7, <2>3, Typing DEF TypeOK, ends, flags, rest, StackOK
  <2>5. ASSUME NEW x \in Conn PROVE Keeps(x)
    BY <1>1, <1>4, <1>7, <2>3 DEF Keeps, QuietFor
  <2>6. \A x \in ToSet(stack') : x.f = "overflow" => \A i \in 1 .. Len(x.d) : x.d[i].n = cells'[x.c] + i
    BY <1>2, <1>7, <2>1, <2>3
  <2>7. \A x \in stream' : state'[x] # "NONE"
    BY <1>1, <1>7 DEF Inv, BufferInv, ends
  <2> QED BY <2>3, <2>4, <2>5, <2>6, <2>7, BufferKept DEF Inv
<1>8. CASE conn_close_graceful(c) /\ UNCHANGED <<recv, idle, stack, cells>>
  <2>1. StateStep(c)
    BY <1>8, Graceful, Typing DEF TypeOK
  <2>2. StackQuiet
    BY <1>8, StackSame, Typing
  <2>3. Others'
    BY <1>1, <1>8, Typing DEF Others, ends, flags, rest
  <2> QED BY <1>1, <1>8, <2>1, <2>2, <2>3, Calm DEF ends
<1> QED BY <1>5, <1>6, <1>7, <1>8

LEMMA Overflow == ASSUME Inv, NEW c \in Conn, overflow_step(c) PROVE Inv'
<1>1. stack # <<>> /\ Top.f = "overflow" /\ Top.c = c /\ UNCHANGED <<ends, flags, rest, posts, last>>
  BY DEF overflow_step, At, InLib
<1>2. /\ Top \in Frame /\ Top.n \in Nat /\ Top.d \in Seq(Cell) /\ Tail(stack) = <<>> /\ Top \in ToSet(stack)
      /\ Callbacks(stack) = {}
  <2>1. Top = stack[1] /\ Top \in Frame /\ Tail(stack) = <<>> /\ Callbacks(Tail(stack)) = Callbacks(stack)
    BY <1>1, TopFrame, Typing DEF Top, Callback
  <2>2. ToSet(stack) = ToSet(Tail(stack)) \cup {stack[1]}
    BY <1>1, Pop, Typing DEF StackOK
  <2>3. Callbacks(<<>>) = {}
    BY DEF Callbacks, ToSet
  <2> QED BY <1>1, <2>1, <2>2, <2>3, FrameFields
<1>3. CASE /\ stack' = <<Process(c), [Top EXCEPT !.n = Top.n + 1]>> \o Tail(stack)
           /\ UNCHANGED <<state, recv, idle, cells>>
  <2> DEFINE fr == Process(c)
             gr == [Top EXCEPT !.n = Top.n + 1]
  <2>1. fr \in Frame /\ fr.f = "process" /\ fr.c = c
    BY ProcessFrame
  <2>2. gr \in Frame /\ gr.f = "overflow" /\ gr.c = c /\ gr.d = Top.d
    <3>1. Top.n + 1 \in Nat
      BY <1>2
    <3> QED BY <1>1, <1>2, <3>1, FrameCount
  <2>3. stack' = <<fr, gr>> \o Tail(stack)
    BY <1>3
  <2> HIDE DEF fr, gr
  <2>4. stack' = <<fr>> \o <<gr>> /\ StackOK(<<gr>>) /\ ToSet(<<gr>>) = {gr} /\ Callbacks(<<gr>>) = {}
    <3>2. Tail(stack) \in Seq(Frame)
      BY <1>1, TopFrame, Typing
    <3>3. stack' = <<fr>> \o (<<gr>> \o Tail(stack))
      BY <2>1, <2>2, <2>3, <3>2, PushTwo
    <3>1. stack' = <<fr>> \o (<<gr>> \o <<>>)
      BY <1>2, <3>3
    <3> QED BY <2>2, <3>1, OneFrame DEF Callback
  <2>5. Fitting(fr, <<gr>>)
    <3>1. <<gr>>[1] = gr /\ Tail(<<gr>>) = <<>>
      OBVIOUS
    <3> QED BY <2>1, <2>2, <3>1 DEF Fitting, Callback
  <2>6. StackOK(stack') /\ Callbacks(stack') = {} /\ ToSet(stack') = {fr, gr}
    <3>1. <<gr>> \in Seq(Frame) /\ "process" \notin Callback
      BY <2>2 DEF Callback
    <3> QED BY <2>1, <2>4, <2>5, <3>1, OkPush, PushSets
  <2>7. SameOverflow
    BY <1>1, <1>2, <2>1, <2>2, <2>6 DEF SameOverflow
  <2>8. StackQuiet
    BY <1>2, <2>6, <2>7 DEF StackQuiet
  <2>9. Others'
    BY <1>1, <1>3, Typing DEF Others, ends, flags, rest
  <2> QED BY <1>1, <1>3, <2>8, <2>9, Calm DEF StateStep, ends
<1>4. CASE state[c] = "PARSING" /\ Fits(c, Top.d) /\ Receive(c, Top.d, Tail(stack))
  <2>1. \A i \in 1 .. Len(Top.d) : Top.d[i].n = cells[c] + i
    BY <1>1, <1>2 DEF Inv, BufferInv
  <2> QED BY <1>1, <1>2, <1>4, <2>1, Received DEF Active
<1>5. CASE conn_close_graceful(c) /\ Return /\ UNCHANGED <<recv, idle, cells>>
  <2>1. StateStep(c)
    BY <1>5, Graceful, Typing DEF TypeOK
  <2>2. StackQuiet
    BY <1>1, <1>5, StackPop, Typing DEF Callback, Return
  <2>3. Others'
    BY <1>1, <1>5, Typing DEF Others, ends, flags, rest
  <2> QED BY <1>1, <1>5, <2>1, <2>2, <2>3, Calm DEF ends
<1> QED BY <1>3, <1>4, <1>5 DEF overflow_step

-------------------------------------------------------------------------------
\* Every step of the server keeps the invariant.
LEMMA Step == ASSUME Inv, [Next]_vars PROVE Inv'
<1>1. CASE Api
  BY <1>1, Respond, Write, WriteEnd, Close, Upgrade, Destroy DEF Api
<1>2. CASE Event
  BY <1>2, Accept, Open, End, Idle, Data DEF Event
<1>3. CASE Running
  BY <1>3, AcceptReturn, CloseReturn, CallbackReturn, WalkStep, WalkCloseReturn, WalkEnd,
     Overflow, Stop, Yield, Partial, Reject, Dispatch, NoUpgrade DEF Running
<1>4. CASE Post
  BY <1>4, ProcessPost, ConnCleanup, SrvCleanup DEF Post
<1>5. CASE UNCHANGED vars
  <2>1. StackQuiet
    BY <1>5, StackSame, Typing DEF vars
  <2>2. Others'
    BY <1>5, Typing DEF Others, vars, flags, history
  <2> QED BY <1>5, <2>1, <2>2, Calm DEF StateStep, vars, history
<1> QED BY <1>1, <1>2, <1>3, <1>4, <1>5 DEF Next

LEMMA Start == ASSUME Init PROVE Inv
<1>1. Len(<<>>) = 0 /\ ToSet(<<>>) = {}
  BY EmptySeq DEF ToSet
<1>2. TypeOK
  BY <1>1, EmptySeq, HttpAssumption DEF Init, TypeOK, State
<1>3. StackOK(stack)
  BY OkEmpty DEF Init
<1>4. BufferInv
  BY <1>1 DEF Init, BufferInv, Active
<1> QED BY <1>2, <1>3, <1>4 DEF Inv

\* Types, the nesting of frames and the place of the buffers, in every state.
THEOREM InvHolds == Spec => []Inv
BY Start, Step, PTL DEF Spec

\* The types of the server's state.
THEOREM TypeCorrect == Spec => []TypeOK
<1>1. Inv => TypeOK
  BY DEF Inv
<1> QED BY <1>1, InvHolds, PTL

\* Pipelined requests are dispatched once each, in order and without a gap, and
\* the receive buffer is never overrun, for every buffer size, budget, limit and
\* sequence of chunks.
THEOREM RequestsOnceHolds == Spec => []RequestsOnce
<1>1. ASSUME Inv PROVE RequestsOnce
  <2>1. ASSUME NEW c \in Conn PROVE Len(recv[c]) <= Cap
    BY <1>1 DEF Inv, TypeOK
  <2>2. ASSUME NEW c \in Conn, state[c] \in {"PARSING", "REQUEST", "AWAIT_RESP", "RESPONDING"}
        PROVE  LET base == cells[c] - Len(recv[c])
               IN /\ \A i \in 1..Len(recv[c]) : recv[c][i].n = base + i
                  /\ IF InCallback(c) = {} THEN last[c] = base
                     ELSE \E i \in InCallback(c) : last[c] = base + stack[i].n
    <3>1. Position(c)
      BY <1>1, <2>2 DEF Inv, BufferInv, Active
    <3>2. stack \in Seq(Frame) /\ ToSet(stack) = {stack[i] : i \in 1 .. Len(stack)}
      BY <1>1, LenProperties DEF Inv, TypeOK, ToSet
    <3>3. ASSUME InCallback(c) = {} PROVE last[c] = cells[c] - Len(recv[c])
      <4>1. \A fr \in Callbacks(stack) : fr.c # c
        BY <3>2, <3>3 DEF Callbacks, Callback, InCallback
      <4> QED BY <3>1, <4>1 DEF Position
    <3>4. ASSUME NEW i \in InCallback(c) PROVE last[c] = cells[c] - Len(recv[c]) + stack[i].n
      <4>1. stack[i] \in Callbacks(stack) /\ stack[i].c = c
        BY <3>2, <3>4 DEF Callbacks, Callback, InCallback
      <4> QED BY <3>1, <4>1 DEF Position
    <3>5. \A i \in 1..Len(recv[c]) : recv[c][i].n = (cells[c] - Len(recv[c])) + i
      BY <3>1 DEF Position
    <3> QED BY <3>3, <3>4, <3>5
  <2> QED BY <2>1, <2>2 DEF RequestsOnce
<1> QED BY <1>1, InvHolds, PTL

-------------------------------------------------------------------------------
(* The idle timer.  Only the state and the timer of one connection change. *)

Timed(s) == s \in {"PARSING", "AWAIT_RESP"}

IdleStep(c) ==
  /\ state' = state \/ \E s : state' = [state EXCEPT ![c] = s]
  /\ idle \ {c} \subseteq idle'
  /\ Timed(state'[c]) => c \in idle'

LEMMA IdleKept ==
  ASSUME state \in [Conn -> State], IdleGuard, NEW c \in Conn, IdleStep(c)
  PROVE  IdleGuard'
BY DEF IdleGuard, IdleStep, Timed

LEMMA IdleSame == ASSUME IdleGuard, UNCHANGED <<state, idle>> PROVE IdleGuard'
BY DEF IdleGuard

\* The helpers.
LEMMA IdleTerminate ==
  ASSUME state \in [Conn -> State], NEW c \in Conn, NEW below, conn_terminate(c, below)
  PROVE  IdleStep(c)
<1>1. state' = [state EXCEPT ![c] = "CLOSED"] /\ idle' = idle \ {c}
  BY DEF conn_terminate, http_state_set, conn_idle_stop
<1>2. ~Timed(state'[c])
  BY <1>1 DEF Timed
<1> QED BY <1>1, <1>2 DEF IdleStep

LEMMA IdleGraceful ==
  ASSUME state \in [Conn -> State], NEW c \in Conn, conn_close_graceful(c), UNCHANGED idle
  PROVE  IdleStep(c)
<1>1. state' = state \/ state' = [state EXCEPT ![c] = "CLOSING"]
  BY DEF conn_close_graceful
<1>2. ~Timed(state'[c])
  BY DEF conn_close_graceful, conn_dying, Timed
<1> QED BY <1>1, <1>2 DEF IdleStep

LEMMA IdleReset ==
  ASSUME NEW c \in Conn, NEW s, state' = state \/ state' = [state EXCEPT ![c] = s], conn_idle_reset(c)
  PROVE  IdleStep(c)
BY DEF IdleStep, conn_idle_reset

LEMMA IdleComplete ==
  ASSUME state \in [Conn -> State], NEW c \in Conn, NEW async, conn_response_complete(c, async)
  PROVE  IdleStep(c)
BY IdleGraceful, IdleReset DEF conn_response_complete, http_state_set

LEMMA IdleInternal ==
  ASSUME state \in [Conn -> State], NEW c \in Conn, NEW rc, NEW below, http_respond_internal(c, rc, below)
  PROVE  IdleStep(c) \/ UNCHANGED <<state, idle>>
BY IdleGraceful, IdleTerminate DEF http_respond_internal

LEMMA IdleAfterCallback ==
  ASSUME state \in [Conn -> State], NEW c \in Conn, NEW n, request_after_callback(c, n)
  PROVE  IdleStep(c) \/ UNCHANGED <<state, idle>>
BY IdleReset DEF request_after_callback

\* No step leaves a waiting connection without its timer.
LEMMA IdleNext == ASSUME Inv, IdleGuard, [Next]_vars PROVE IdleGuard'
<1>1. state \in [Conn -> State]
  BY DEF Inv, TypeOK
<1>2. ASSUME NEW c \in Conn, NEW close \in BOOLEAN, sevent_http_conn_respond(c, close) PROVE IdleGuard'
  <2>1. IdleStep(c)
    BY <1>1, <1>2, IdleComplete, IdleTerminate DEF sevent_http_conn_respond
  <2> QED BY <1>1, <2>1, IdleKept
<1>3. ASSUME NEW c \in Conn, sevent_http_conn_write(c) PROVE IdleGuard'
  <2>1. CASE conn_terminate(c, stack)
    BY <1>1, <2>1, IdleTerminate, IdleKept
  <2>2. CASE /\ state' = IF state[c] = "AWAIT_RESP" THEN [state EXCEPT ![c] = "RESPONDING"] ELSE state
             /\ UNCHANGED idle
    BY <1>1, <2>2 DEF IdleGuard
  <2> QED BY <1>3, <2>1, <2>2 DEF sevent_http_conn_write
<1>4. ASSUME NEW c \in Conn, sevent_http_conn_write_end(c) PROVE IdleGuard'
  BY <1>1, <1>4, IdleComplete, IdleKept DEF sevent_http_conn_write_end
<1>5. ASSUME NEW c \in Conn, sevent_http_conn_close(c) PROVE IdleGuard'
  BY <1>1, <1>5, IdleGraceful, IdleKept DEF sevent_http_conn_close
<1>6. ASSUME NEW c \in Conn, sevent_ws_upgrade(c) PROVE IdleGuard'
  BY <1>1, <1>6 DEF sevent_ws_upgrade, http_state_set, conn_idle_stop, IdleGuard
<1>7. CASE sevent_http_server_destroy
  BY <1>7, IdleSame DEF sevent_http_server_destroy
<1>8. ASSUME NEW c \in Conn, srv_on_accept(c) PROVE IdleGuard'
  BY <1>1, <1>8 DEF srv_on_accept, http_state_set, IdleGuard
<1>9. ASSUME NEW c \in Conn, conn_on_open(c) PROVE IdleGuard'
  BY <1>9, IdleSame DEF conn_on_open
<1>10. ASSUME NEW c \in Conn, conn_on_end(c) PROVE IdleGuard'
  BY <1>1, <1>10, IdleTerminate, IdleKept DEF conn_on_end
<1>11. ASSUME NEW c \in Conn, on_idle_timeout(c) PROVE IdleGuard'
  <2>1. CASE conn_terminate(c, <<>>)
    BY <1>1, <2>1, IdleTerminate, IdleKept
  <2>2. CASE state[c] \notin {"PARSING", "AWAIT_RESP"} /\ conn_idle_stop(c) /\ UNCHANGED state
    BY <1>1, <2>2 DEF conn_idle_stop, IdleGuard
  <2> QED BY <1>11, <2>1, <2>2 DEF on_idle_timeout
<1>12. ASSUME NEW c \in Conn, NEW ks \in Chunk, conn_on_data(c, ks) PROVE IdleGuard'
  <2>1. \/ conn_idle_reset(c) /\ UNCHANGED state
        \/ UNCHANGED <<state, idle>>
        \/ conn_close_graceful(c) /\ UNCHANGED idle
    BY <1>12 DEF conn_on_data, Receive
  <2> QED BY <1>1, <2>1, IdleSame, IdleGraceful, IdleReset, IdleKept
<1>13. CASE on_accept_return
  <2>1. Top.c \in Conn
    BY <1>13, TopFrame, FrameFields, Typing DEF on_accept_return, InLib, Top
  <2>2. IdleStep(Top.c)
    BY <1>13, <2>1, IdleReset DEF on_accept_return
  <2> QED BY <1>1, <2>1, <2>2, IdleKept
<1>14. CASE on_conn_close_return
  BY <1>14, IdleSame DEF on_conn_close_return
<1>15. CASE callback_return
  <2>1. Top.c \in Conn /\ request_after_callback(Top.c, Top.n)
    BY <1>15, TopFrame, FrameFields, Typing DEF callback_return, InLib, Top
  <2>2. IdleStep(Top.c) \/ UNCHANGED <<state, idle>>
    BY <1>1, <2>1, IdleAfterCallback
  <2> QED BY <1>1, <2>1, <2>2, IdleKept, IdleSame
<1>16. CASE walk_step
  <2>1. Top.c \in Conn /\ state' = [state EXCEPT ![Top.c] = "CLOSED"] /\ idle' = idle \ {Top.c}
    BY <1>16, TopFrame, FrameFields, Typing DEF walk_step, walk_conn, http_state_set, conn_idle_stop, InLib, Top
  <2> QED BY <1>1, <2>1 DEF IdleGuard
<1>17. CASE walk_close_return \/ walk_end
  BY <1>17, IdleSame DEF walk_close_return, walk_end
<1>18. ASSUME NEW c \in Conn, overflow_step(c) PROVE IdleGuard'
  <2>1. \/ conn_idle_reset(c) /\ UNCHANGED state
        \/ UNCHANGED <<state, idle>>
        \/ conn_close_graceful(c) /\ UNCHANGED idle
    BY <1>18 DEF overflow_step, Receive
  <2> QED BY <1>1, <2>1, IdleSame, IdleGraceful, IdleReset, IdleKept
<1>19. ASSUME NEW c \in Conn, process_stop(c) \/ process_partial(c) PROVE IdleGuard'
  BY <1>19, IdleSame DEF process_stop, process_partial
<1>20. ASSUME NEW c \in Conn, process_yield(c) PROVE IdleGuard'
  BY <1>1, <1>20, IdleSame, IdleGraceful, IdleKept DEF process_yield
<1>21. ASSUME NEW c \in Conn, process_reject(c) PROVE IdleGuard'
  BY <1>1, <1>21, IdleSame, IdleInternal, IdleKept DEF process_reject
<1>22. ASSUME NEW c \in Conn, process_dispatch(c) PROVE IdleGuard'
  BY <1>1, <1>22 DEF process_dispatch, http_state_set, IdleGuard
<1>23. ASSUME NEW c \in Conn, no_upgrade(c) PROVE IdleGuard'
  <2>1. IdleStep(c) \/ UNCHANGED <<state, idle>>
    BY <1>1, <1>23, IdleInternal, IdleAfterCallback DEF no_upgrade
  <2> QED BY <1>1, <2>1, IdleSame, IdleKept
<1>24. CASE Post
  BY <1>24, IdleSame DEF Post, http_process_post, conn_cleanup, srv_cleanup
<1>25. CASE UNCHANGED vars
  BY <1>25, IdleSame DEF vars
<1>26. CASE Api
  BY <1>2, <1>3, <1>4, <1>5, <1>6, <1>7, <1>26 DEF Api
<1>27. CASE Event
  BY <1>8, <1>9, <1>10, <1>11, <1>12, <1>27 DEF Event
<1>28. CASE Running
  BY <1>13, <1>14, <1>15, <1>16, <1>17, <1>18, <1>19, <1>20, <1>21, <1>22, <1>23, <1>28 DEF Running
<1> QED BY <1>24, <1>25, <1>26, <1>27, <1>28 DEF Next

\* A connection that waits for its peer or for an answer has its idle timer.
THEOREM IdleGuardHolds == Spec => []IdleGuard
<1>1. Init => IdleGuard
  BY DEF Init, IdleGuard
<1> QED BY <1>1, IdleNext, InvHolds, PTL DEF Spec

-------------------------------------------------------------------------------
(* The life of connections and server, for a loop that takes every task posted
   (Posted = {TRUE}) and on_conn_close callbacks of srv_cleanup that write to
   no other connection. *)

Alive(c) == state[c] \notin {"NONE", "CLOSED", "RELEASED"}

Closer == {"on_conn_close", "walk_close"}
WalkF == {"walk", "walk_close"}

Closers(s) == {fr \in ToSet(s) : fr.f \in Closer}
NoWalk(s) == \A fr \in ToSet(s) : fr.f \notin WalkF

\* on_conn_close runs once at a time for a connection.
CloserOnce(s) ==
  \A i, j \in 1 .. Len(s) : s[i].f \in Closer /\ s[j].f \in Closer /\ s[i].c = s[j].c => i = j

\* The task that releases an object is the last one posted for it.
CleanupLast(q) == \A i, j \in 1 .. Len(q) : q[i].f # "http_process" /\ q[j].c = q[i].c => j <= i

FrameLive(fr) ==
  /\ fr.c # None => state[fr.c] # "NONE" /\ fr.c \notin freed
  /\ fr.f \in Closer => state[fr.c] = "CLOSED"
  /\ fr.f = "on_accept" => state[fr.c] \in {"NEW", "CLOSING"}
  /\ fr.f = "no_upgrade" => state[fr.c] = "REQUEST"

TaskLive(tk) ==
  /\ tk.c # None => state[tk.c] # "NONE" /\ tk.c \notin freed
  /\ tk.f = "conn_cleanup" => conn_dead(tk.c) /\ \A fr \in Closers(stack) : fr.c # tk.c
  /\ tk.f = "srv_cleanup" => server = "destroyed" /\ NoWalk(stack)

\* What the state of a connection says of where it is still reached from.
ConnLive(c) ==
  /\ state[c] = "NONE" => c \notin stream /\ c \notin ToSet(conns) /\ c \notin idle /\ c \notin freed /\ closes[c] = 0
  /\ Alive(c) => c \in ToSet(conns) /\ closes[c] = 0 /\ c \notin freed
  /\ state[c] = "CLOSED" => closes[c] = 1 /\ c \notin idle
  /\ state[c] = "RELEASED" => closes[c] = 0 /\ c \notin idle /\ c \notin ToSet(conns)
  /\ c \in stream => Alive(c) \/ \E fr \in ToSet(stack) : fr.f = "walk_close" /\ fr.c = c
  /\ c \in ToSet(conns) => Alive(c) \/ ~NoWalk(stack)
  /\ c \in freed => c \notin ToSet(conns)

\* srv_cleanup has ended the first p connections of the list, and After(p) is next.
Walked(p) ==
  /\ \A i \in 1 .. Len(conns) : i <= p => state[conns[i]] = "CLOSED"
  /\ \A i \in 1 .. Len(conns) : i > p => Alive(conns[i])

After(p) == IF p < Len(conns) THEN conns[p + 1] ELSE None

WalkAt(fr) ==
  /\ fr.f \in WalkF => stack = <<fr>> /\ server = "destroyed"
  /\ fr.f = "walk" => \E p \in 0 .. Len(conns) : Walked(p) /\ fr.c = After(p)
  /\ fr.f = "walk_close" => \E p \in 1 .. Len(conns) : Walked(p) /\ conns[p] = fr.c /\ fr.next = After(p)

FramesInv == (\A fr \in ToSet(stack) : FrameLive(fr)) /\ CloserOnce(stack)
PostsInv  == (\A tk \in ToSet(posts) : TaskLive(tk)) /\ CleanupLast(posts)
ServerInv == Distinct(conns) /\ (server = "freed" => conns = <<>>)
WalkInv   == \A fr \in ToSet(stack) : WalkAt(fr)

LifeInv == FramesInv /\ PostsInv /\ (\A c \in Conn : ConnLive(c)) /\ ServerInv /\ WalkInv

\* Frames pushed and returned from.
LEMMA CloserPop ==
  ASSUME NEW s \in Seq(Frame), s # <<>>, CloserOnce(s)
  PROVE  /\ CloserOnce(Tail(s)) /\ Closers(Tail(s)) \subseteq Closers(s)
         /\ Head(s).f \in Closer => \A fr \in Closers(Tail(s)) : fr.c # Head(s).c
<1> DEFINE n == Len(s)
           t == Tail(s)
<1>1. /\ n \in Nat \ {0} /\ Head(s) = s[1] /\ Len(t) = n - 1 /\ \A i \in 1 .. (n - 1) : t[i] = s[i + 1]
      /\ ToSet(s) = ToSet(t) \cup {s[1]} /\ DOMAIN t = 1 .. (n - 1)
  BY Pop
<1>2. ASSUME NEW i \in 1 .. n, NEW j \in 1 .. n, s[i].f \in Closer, s[j].f \in Closer, s[i].c = s[j].c
      PROVE  i = j
  BY <1>2 DEF CloserOnce
<1> HIDE DEF n, t
<1>3. ASSUME NEW i \in 1 .. Len(t), NEW j \in 1 .. Len(t), t[i].f \in Closer, t[j].f \in Closer, t[i].c = t[j].c
      PROVE  i = j
  <2>1. t[i] = s[i + 1] /\ t[j] = s[j + 1] /\ i + 1 \in 1 .. n /\ j + 1 \in 1 .. n
    BY <1>1
  <2>2. i + 1 = j + 1
    BY <1>2, <1>3, <2>1
  <2> QED BY <1>1, <2>2
<1>4. ASSUME s[1].f \in Closer, NEW fr \in Closers(t), fr.c = s[1].c PROVE FALSE
  <2>1. PICK i \in 1 .. (n - 1) : fr = t[i]
    BY <1>1, <1>4 DEF Closers, ToSet
  <2>2. fr = s[i + 1] /\ i + 1 \in 1 .. n /\ 1 \in 1 .. n /\ i + 1 # 1 /\ fr.f \in Closer
    BY <1>1, <1>4, <2>1 DEF Closers
  <2> QED BY <1>2, <1>4, <2>2
<1>5. CloserOnce(t)
  BY <1>3 DEF CloserOnce
<1> QED BY <1>1, <1>4, <1>5 DEF Closers, t

LEMMA CloserPush ==
  ASSUME NEW s \in Seq(Frame), CloserOnce(s), NEW fr \in Frame,
         fr.f \in Closer => \A gr \in Closers(s) : gr.c # fr.c
  PROVE  /\ CloserOnce(<<fr>> \o s)
         /\ fr.f \notin Closer => Closers(<<fr>> \o s) = Closers(s)
         /\ fr.f \in Closer => Closers(<<fr>> \o s) = Closers(s) \cup {fr}
<1> DEFINE n == Len(s)
           t == <<fr>> \o s
<1>1. /\ n \in Nat /\ Len(t) = n + 1 /\ t[1] = fr /\ \A i \in 1 .. n : t[i + 1] = s[i]
      /\ ToSet(t) = ToSet(s) \cup {fr} /\ DOMAIN s = 1 .. n
  BY Push, LenProperties
<1>2. ASSUME NEW i \in 1 .. n, NEW j \in 1 .. n, s[i].f \in Closer, s[j].f \in Closer, s[i].c = s[j].c
      PROVE  i = j
  BY <1>2 DEF CloserOnce
<1> HIDE DEF n, t
<1>3. ASSUME NEW i \in 1 .. n, s[i].f \in Closer, fr.f \in Closer PROVE s[i].c # fr.c
  <2>1. s[i] \in Closers(s)
    BY <1>1, <1>3 DEF Closers, ToSet
  <2> QED BY <1>3, <2>1
<1>4. ASSUME NEW i \in 1 .. Len(t), NEW j \in 1 .. Len(t), t[i].f \in Closer, t[j].f \in Closer, t[i].c = t[j].c
      PROVE  i = j
  <2> DEFINE k == i - 1
             m == j - 1
  <2>1. /\ i = 1 \/ (k \in 1 .. n /\ i = k + 1 /\ t[i] = s[k])
        /\ j = 1 \/ (m \in 1 .. n /\ j = m + 1 /\ t[j] = s[m])
    BY <1>1
  <2> HIDE DEF k, m
  <2> QED BY <1>1, <1>2, <1>3, <1>4, <2>1
<1>5. CloserOnce(t)
  BY <1>4 DEF CloserOnce
<1> QED BY <1>1, <1>5 DEF Closers, t

\* Tasks posted and run.
LEMMA CleanupAppend ==
  ASSUME NEW q \in Seq(Task), CleanupLast(q), NEW tk \in Task,
         \A x \in ToSet(q) : x.f # "http_process" => x.c # tk.c
  PROVE  CleanupLast(Append(q, tk)) /\ ToSet(Append(q, tk)) = ToSet(q) \cup {tk}
<1> DEFINE n == Len(q)
           r == Append(q, tk)
<1>1. /\ n \in Nat /\ Len(r) = n + 1 /\ r[n + 1] = tk /\ \A i \in 1 .. n : r[i] = q[i]
      /\ DOMAIN q = 1 .. n /\ DOMAIN r = 1 .. n + 1
  BY AppendProperties, LenProperties
<1>2. ASSUME NEW i \in 1 .. n, NEW j \in 1 .. n, q[i].f # "http_process", q[j].c = q[i].c PROVE j <= i
  BY <1>2 DEF CleanupLast
<1> HIDE DEF n, r
<1>3. ASSUME NEW i \in 1 .. n, q[i].f # "http_process" PROVE q[i].c # tk.c
  BY <1>1, <1>3 DEF ToSet
<1>4. ASSUME NEW i \in 1 .. Len(r), NEW j \in 1 .. Len(r), r[i].f # "http_process", r[j].c = r[i].c PROVE j <= i
  <2>1. CASE i = n + 1
    BY <1>1, <2>1
  <2>2. CASE i \in 1 .. n /\ j \in 1 .. n
    BY <1>1, <1>2, <1>4, <2>2
  <2>3. CASE i \in 1 .. n /\ j = n + 1
    BY <1>1, <1>3, <1>4, <2>3
  <2> QED BY <1>1, <2>1, <2>2, <2>3
<1>5. CleanupLast(r)
  BY <1>4 DEF CleanupLast
<1>6. ToSet(r) = ToSet(q) \cup {tk}
  <2>1. ASSUME NEW x \in ToSet(r) PROVE x \in ToSet(q) \cup {tk}
    <3>1. PICK i \in 1 .. n + 1 : x = r[i]
      BY <1>1, <2>1 DEF ToSet
    <3>2. i \in 1 .. n \/ i = n + 1
      BY <1>1, <3>1
    <3> QED BY <1>1, <3>1, <3>2 DEF ToSet
  <2>2. ASSUME NEW x \in ToSet(q) PROVE x \in ToSet(r)
    <3>1. PICK i \in 1 .. n : x = q[i]
      BY <1>1, <2>2 DEF ToSet
    <3>2. x = r[i] /\ i \in 1 .. n + 1
      BY <1>1, <3>1
    <3> QED BY <1>1, <3>2 DEF ToSet
  <2>3. tk \in ToSet(r)
    <3>1. n + 1 \in 1 .. n + 1
      BY <1>1
    <3> QED BY <1>1, <3>1 DEF ToSet
  <2> QED BY <2>1, <2>2, <2>3
<1> QED BY <1>5, <1>6 DEF r

LEMMA CleanupTail ==
  ASSUME NEW q \in Seq(Task), q # <<>>, CleanupLast(q)
  PROVE  /\ CleanupLast(Tail(q)) /\ ToSet(Tail(q)) \subseteq ToSet(q) /\ Head(q) \in ToSet(q)
         /\ Head(q).f # "http_process" => \A x \in ToSet(Tail(q)) : x.c # Head(q).c
<1> DEFINE n == Len(q)
           t == Tail(q)
<1>1. /\ n \in Nat \ {0} /\ Head(q) = q[1] /\ Len(t) = n - 1 /\ \A i \in 1 .. (n - 1) : t[i] = q[i + 1]
      /\ ToSet(q) = ToSet(t) \cup {q[1]} /\ DOMAIN t = 1 .. (n - 1)
  BY Pop
<1>2. ASSUME NEW i \in 1 .. n, NEW j \in 1 .. n, q[i].f # "http_process", q[j].c = q[i].c PROVE j <= i
  BY <1>2 DEF CleanupLast
<1> HIDE DEF n, t
<1>3. ASSUME NEW i \in 1 .. Len(t), NEW j \in 1 .. Len(t), t[i].f # "http_process", t[j].c = t[i].c PROVE j <= i
  <2>1. t[i] = q[i + 1] /\ t[j] = q[j + 1] /\ i + 1 \in 1 .. n /\ j + 1 \in 1 .. n
    BY <1>1
  <2>2. j + 1 <= i + 1
    BY <1>2, <1>3, <2>1
  <2> QED BY <1>1, <2>2
<1>4. ASSUME q[1].f # "http_process", NEW x \in ToSet(t), x.c = q[1].c PROVE FALSE
  <2>1. PICK i \in 1 .. (n - 1) : x = t[i]
    BY <1>1, <1>4 DEF ToSet
  <2>2. x = q[i + 1] /\ i + 1 \in 1 .. n /\ 1 \in 1 .. n /\ ~(i + 1 <= 1)
    BY <1>1, <2>1
  <2> QED BY <1>2, <1>4, <2>2
<1>5. CleanupLast(t)
  BY <1>3 DEF CleanupLast
<1> QED BY <1>1, <1>4, <1>5 DEF t

-------------------------------------------------------------------------------
(* Mild steps: no connection begins or ends, and the list, the streams and the
   releases stay. *)

SameLife == \A d \in Conn : (Alive(d)' <=> Alive(d)) /\ (~Alive(d) => state'[d] = state[d])

\* A connection in use changes to another state in use.
StateMild(c) ==
  \/ state' = state
  \/ /\ Alive(c)
     /\ \E s \in State \ {"NONE", "CLOSED", "RELEASED"} : state' = [state EXCEPT ![c] = s]

PostsMild ==
  /\ CleanupLast(posts')
  /\ \A tk \in ToSet(posts') :
       \/ tk \in ToSet(posts)
       \/ tk.f = "http_process" /\ tk.c \in Conn /\ state[tk.c] # "NONE" /\ tk.c \notin freed

StackMild ==
  \/ stack' = stack
  \/ NoWalk(stack) /\ NoWalk(stack') /\ CloserOnce(stack') /\ Closers(stack') \subseteq Closers(stack)

LEMMA MildState ==
  ASSUME state \in [Conn -> State], NEW c \in Conn, StateMild(c)
  PROVE  SameLife /\ \A d \in Conn \ {c} : state'[d] = state[d]
BY DEF StateMild, SameLife, Alive, State

\* Frames in progress and tasks posted are what their types say.
LEMMA Elements ==
  ASSUME Inv
  PROVE  /\ \A fr \in ToSet(stack) : fr \in Frame /\ fr.c \in Conn \cup {None}
         /\ \A fr \in ToSet(stack) : fr.f # "walk" => fr.c \in Conn
         /\ \A tk \in ToSet(posts) : tk \in Task /\ (tk.c \in Conn \/ tk.c = None)
         /\ \A tk \in ToSet(posts) : tk.f # "srv_cleanup" => tk.c \in Conn
         /\ \A tk \in ToSet(posts) : tk.f = "srv_cleanup" => tk.c = None
         /\ \A i \in 1 .. Len(conns) : conns[i] \in Conn /\ conns[i] \in ToSet(conns)
         /\ ToSet(conns) \subseteq Conn
         /\ \A d \in ToSet(conns) : \E i \in 1 .. Len(conns) : conns[i] = d
<1>1. stack \in Seq(Frame) /\ posts \in Seq(Task) /\ conns \in Seq(Conn)
  BY DEF Inv, TypeOK
<1>2. ASSUME NEW fr \in ToSet(stack) PROVE fr \in Frame
  BY <1>1, ElementOfSeq, LenProperties DEF ToSet
<1>3. ASSUME NEW tk \in ToSet(posts) PROVE tk \in Task
  BY <1>1, ElementOfSeq, LenProperties DEF ToSet
<1>4. ASSUME NEW fr \in ToSet(stack) PROVE fr.c \in Conn \cup {None} /\ (fr.f # "walk" => fr.c \in Conn)
  BY <1>2, FrameFields DEF Callback, Upper
<1>5. ASSUME NEW tk \in ToSet(posts)
      PROVE  /\ tk.c \in Conn \/ tk.c = None
             /\ tk.f # "srv_cleanup" => tk.c \in Conn
             /\ tk.f = "srv_cleanup" => tk.c = None
  BY <1>3 DEF Task
<1>6. DOMAIN conns = 1 .. Len(conns)
  BY <1>1, LenProperties
<1>7. \A i \in 1 .. Len(conns) : conns[i] \in Conn /\ conns[i] \in ToSet(conns)
  BY <1>1, <1>6, ElementOfSeq DEF ToSet
<1>8. ToSet(conns) \subseteq Conn /\ \A d \in ToSet(conns) : \E i \in 1 .. Len(conns) : conns[i] = d
  BY <1>6, <1>7 DEF ToSet
<1> QED BY <1>2, <1>3, <1>4, <1>5, <1>7, <1>8

LEMMA Mild ==
  ASSUME Inv, Inv', LifeInv, SameLife, UNCHANGED <<stream, conns, closes, freed, server>>,
         \A d \in idle' : d \in idle \/ Alive(d), PostsMild, StackMild,
         \A fr \in ToSet(stack') : FrameLive(fr)'
  PROVE  LifeInv'
<1>1. ASSUME NEW d \in Conn
      PROVE  /\ state'[d] = "NONE" <=> state[d] = "NONE"
             /\ state'[d] = "CLOSED" <=> state[d] = "CLOSED"
             /\ state'[d] = "RELEASED" <=> state[d] = "RELEASED"
  BY DEF SameLife, Alive
<1>2. /\ CloserOnce(stack') /\ Closers(stack') \subseteq Closers(stack)
      /\ (NoWalk(stack) => NoWalk(stack')) /\ (stack' = stack \/ NoWalk(stack))
  BY DEF StackMild, LifeInv, FramesInv
<1>3. FramesInv'
  BY <1>2 DEF FramesInv
<1>4. PostsInv'
  <2>1. ASSUME NEW tk \in ToSet(posts') PROVE TaskLive(tk)'
    <3>1. CASE tk \in ToSet(posts)
      <4>1. TaskLive(tk) /\ (tk.c # None => tk.c \in Conn) /\ (tk.f = "conn_cleanup" => tk.c \in Conn)
        BY <3>1, Elements DEF LifeInv, PostsInv
      <4> QED BY <1>1, <1>2, <4>1 DEF TaskLive, conn_dead
    <3>2. CASE tk.f = "http_process" /\ tk.c \in Conn /\ state[tk.c] # "NONE" /\ tk.c \notin freed
      BY <1>1, <3>2 DEF TaskLive
    <3> QED BY <2>1, <3>1, <3>2 DEF PostsMild
  <2> QED BY <2>1 DEF PostsInv, PostsMild
<1>5. ASSUME NEW c \in Conn PROVE ConnLive(c)'
  <2>1. ConnLive(c)
    BY DEF LifeInv
  <2>2. c \in idle' => c \in idle \/ Alive(c)
    OBVIOUS
  <2>3. c \in stream => Alive(c) \/ \E fr \in ToSet(stack') : fr.f = "walk_close" /\ fr.c = c
    BY <1>2, <2>1 DEF ConnLive, NoWalk, WalkF
  <2>4. c \in ToSet(conns) => Alive(c) \/ ~NoWalk(stack')
    BY <1>2, <2>1 DEF ConnLive
  <2> QED BY <1>1, <2>1, <2>2, <2>3, <2>4 DEF ConnLive, Alive
<1>6. ServerInv'
  BY DEF LifeInv, ServerInv
<1>7. WalkInv'
  <2>1. CASE NoWalk(stack')
    BY <2>1 DEF WalkInv, WalkAt, NoWalk, WalkF
  <2>2. CASE stack' = stack
    <3>1. ASSUME NEW p, Walked(p) PROVE Walked(p)'
      BY <1>1, <3>1, Elements DEF Walked, Alive
    <3>2. ASSUME NEW fr \in ToSet(stack) PROVE WalkAt(fr)'
      <4>1. WalkAt(fr)
        BY DEF LifeInv, WalkInv
      <4>2. fr.f \in WalkF => stack' = <<fr>> /\ server' = "destroyed"
        BY <2>2, <4>1 DEF WalkAt
      <4>3. fr.f = "walk" => \E p \in 0 .. Len(conns') : Walked(p)' /\ fr.c = After(p)'
        BY <3>1, <4>1 DEF WalkAt, After
      <4>4. fr.f = "walk_close" =>
              \E p \in 1 .. Len(conns') : Walked(p)' /\ conns'[p] = fr.c /\ fr.next = After(p)'
        BY <3>1, <4>1 DEF WalkAt, After
      <4> QED BY <4>2, <4>3, <4>4 DEF WalkAt
    <3> QED BY <2>2, <3>2 DEF WalkInv
  <2> QED BY <1>2, <2>1, <2>2
<1> QED BY <1>3, <1>4, <1>5, <1>6, <1>7 DEF LifeInv

\* A frame stays right when its connection keeps its state, or needs no certain one.
LEMMA FrameKept ==
  ASSUME NEW fr \in Frame, fr.c \in Conn \cup {None}, fr.f # "walk" => fr.c \in Conn,
         FrameLive(fr), SameLife, freed' = freed,
         fr.f \in {"on_accept", "no_upgrade"} => state'[fr.c] = state[fr.c]
  PROVE  FrameLive(fr)'
<1>1. fr.c # None => fr.c \in Conn
  OBVIOUS
<1>2. fr.c # None => state'[fr.c] # "NONE" /\ fr.c \notin freed'
  BY <1>1 DEF FrameLive, SameLife, Alive
<1>3. fr.f \in Closer => state'[fr.c] = "CLOSED"
  BY DEF FrameLive, SameLife, Alive, Closer
<1> QED BY <1>2, <1>3 DEF FrameLive

\* http_process is posted for a connection in use.
LEMMA PostAlive ==
  ASSUME Inv, LifeInv, NEW c \in Conn, Alive(c), sevent_post("http_process", c) \/ UNCHANGED posts
  PROVE  PostsMild
<1>1. CASE UNCHANGED posts
  BY <1>1 DEF PostsMild, LifeInv, PostsInv
<1>2. CASE sevent_post("http_process", c)
  <2> DEFINE tk == [f |-> "http_process", c |-> c]
  <2>1. tk \in Task /\ tk.f = "http_process" /\ tk.c = c /\ posts' = Append(posts, tk)
    BY <1>2, TaskMake DEF sevent_post
  <2> HIDE DEF tk
  <2>2. ASSUME NEW x \in ToSet(posts), x.f # "http_process" PROVE x.c # tk.c
    <3>1. TaskLive(x) /\ x \in Task /\ (x.f = "srv_cleanup" => x.c = None)
      BY Elements DEF LifeInv, PostsInv
    <3>2. x.f \in {"srv_cleanup", "conn_cleanup"}
      BY <2>2, <3>1 DEF Task
    <3> QED BY <2>1, <3>1, <3>2, HttpAssumption DEF TaskLive, conn_dead, Alive
  <2>3. CleanupLast(posts') /\ ToSet(posts') = ToSet(posts) \cup {tk}
    BY <2>1, <2>2, CleanupAppend DEF LifeInv, PostsInv, Inv, TypeOK
  <2>4. state[c] # "NONE" /\ c \notin freed
    BY DEF Alive, LifeInv, ConnLive
  <2> QED BY <2>1, <2>3, <2>4 DEF PostsMild
<1> QED BY <1>1, <1>2

\* No frame of an answer to an upgrade is below user code.
LEMMA UserNoUpgrade == ASSUME Inv, UserCode PROVE \A fr \in ToSet(stack) : fr.f # "no_upgrade"
<1>1. stack \in Seq(Frame) /\ DOMAIN stack = 1 .. Len(stack)
  BY LenProperties, Typing DEF StackOK
<1>2. ASSUME NEW i \in 1 .. Len(stack), stack[i].f = "no_upgrade" PROVE FALSE
  <2>1. i = 1
    BY <1>2, Typing DEF StackOK, Shape
  <2>2. stack # <<>>
    BY <1>1, <1>2, EmptySeq
  <2> QED BY <1>2, <2>1, <2>2, UserStack, Typing
<1> QED BY <1>1, <1>2 DEF ToSet

\* A mild step of user code on a connection that is not being accepted.
LEMMA MildUser ==
  ASSUME Inv, Inv', LifeInv, UserCode, NEW c \in Conn, StateMild(c), Alive(c),
         state'[c] = state[c] \/ state'[c] = "CLOSING" \/ state[c] \in {"REQUEST", "AWAIT_RESP", "RESPONDING"},
         UNCHANGED <<stream, conns, closes, freed, server, stack>>,
         idle' \subseteq idle \cup {c}, sevent_post("http_process", c) \/ UNCHANGED posts
  PROVE  LifeInv'
<1>1. SameLife /\ \A d \in Conn \ {c} : state'[d] = state[d]
  BY MildState DEF Inv, TypeOK
<1>2. PostsMild
  BY PostAlive
<1>3. StackMild
  BY DEF StackMild
<1>4. ASSUME NEW fr \in ToSet(stack') PROVE FrameLive(fr)'
  <2>1. /\ fr \in ToSet(stack) /\ FrameLive(fr) /\ fr \in Frame /\ fr.c \in Conn \cup {None}
        /\ fr.f # "walk" => fr.c \in Conn
    BY Elements DEF LifeInv, FramesInv
  <2>2. fr.f # "no_upgrade"
    BY <2>1, UserNoUpgrade
  <2>3. CASE fr.f = "on_accept" /\ fr.c = c
    <3>1. state[c] \in {"NEW", "CLOSING"}
      BY <2>1, <2>3 DEF FrameLive
    <3>2. state'[c] \in {"NEW", "CLOSING"}
      BY <3>1
    <3> QED BY <2>1, <2>3, <3>2 DEF FrameLive, Closer
  <2>4. CASE ~(fr.f = "on_accept" /\ fr.c = c)
    <3>1. fr.f \in {"on_accept", "no_upgrade"} => state'[fr.c] = state[fr.c]
      BY <1>1, <2>1, <2>2, <2>4
    <3> QED BY <1>1, <2>1, <3>1, FrameKept
  <2> QED BY <2>3, <2>4
<1>5. \A d \in idle' : d \in idle \/ Alive(d)
  OBVIOUS
<1> QED BY <1>1, <1>2, <1>3, <1>4, <1>5, Mild

-------------------------------------------------------------------------------
(* The end of a connection. *)

LEMMA TerminateLife ==
  ASSUME Inv, Inv', LifeInv, NEW c \in Conn, Alive(c),
         NEW below \in Seq(Frame), ToSet(below) \subseteq ToSet(stack), CloserOnce(below), NoWalk(stack),
         \A fr \in ToSet(below) : fr.c = c => fr.f \notin {"on_accept", "no_upgrade"},
         conn_terminate(c, below), UNCHANGED <<freed, server, posts>>
  PROVE  LifeInv'
<1> DEFINE fr == [f |-> "on_conn_close", c |-> c, n |-> 0]
<1>1. /\ state' = [state EXCEPT ![c] = "CLOSED"] /\ idle' = idle \ {c} /\ stream' = stream \ {c}
      /\ conns' = RemoveFirst(conns, c) /\ closes' = [closes EXCEPT ![c] = @ + 1]
      /\ stack' = <<fr>> \o below
  BY DEF conn_terminate, http_state_set, conn_idle_stop, conn_unlink
<1>2. fr \in Frame /\ fr.f = "on_conn_close" /\ fr.c = c
  BY FrameMake
<1> HIDE DEF fr
<1>3. /\ state'[c] = "CLOSED" /\ \A d \in Conn \ {c} : state'[d] = state[d]
      /\ closes'[c] = closes[c] + 1 /\ \A d \in Conn \ {c} : closes'[d] = closes[d]
  BY <1>1, Typing DEF TypeOK
<1>4. /\ ToSet(conns') \subseteq ToSet(conns) /\ ToSet(conns) \subseteq ToSet(conns') \cup {c}
      /\ Distinct(conns') /\ c \notin ToSet(conns')
  BY <1>1, RemoveFirstElements, Typing DEF TypeOK, LifeInv, ServerInv
<1>5. /\ c \in ToSet(conns) /\ closes[c] = 0 /\ c \notin freed
  BY DEF LifeInv, ConnLive
<1>6. ToSet(stack') = ToSet(below) \cup {fr} /\ NoWalk(stack')
  <2>1. ToSet(stack') = ToSet(below) \cup {fr}
    BY <1>1, <1>2, PushSets
  <2> QED BY <1>2, <2>1 DEF NoWalk, WalkF
<1>7. ASSUME NEW gr \in ToSet(below)
      PROVE  /\ FrameLive(gr) /\ (gr.f # "walk" => gr.c \in Conn) /\ gr.f # "walk"
             /\ gr.f \in Closer => gr.c # c
  <2>1. gr \in ToSet(stack) /\ FrameLive(gr)
    BY DEF LifeInv, FramesInv
  <2> QED BY <2>1, Elements DEF FrameLive, Alive, NoWalk, WalkF
<1>8. FramesInv'
  <2>1. CloserOnce(stack')
    BY <1>1, <1>2, <1>7, CloserPush DEF Closers
  <2>3. ASSUME NEW gr \in ToSet(below) PROVE FrameLive(gr)'
    <3>1. gr.c \in Conn /\ FrameLive(gr) /\ (gr.f \in Closer => gr.c # c)
      BY <1>7
    <3>2. CASE gr.c = c
      BY <1>3, <1>5, <3>1, <3>2 DEF FrameLive
    <3>3. CASE gr.c # c
      BY <1>3, <3>1, <3>3 DEF FrameLive
    <3> QED BY <3>2, <3>3
  <2>4. ASSUME NEW gr \in ToSet(stack') PROVE FrameLive(gr)'
    <3>1. CASE gr = fr
      <4>1. state'[c] = "CLOSED" /\ c \notin freed'
        BY <1>3, <1>5
      <4> QED BY <1>2, <3>1, <4>1 DEF FrameLive
    <3> QED BY <1>6, <2>3, <3>1
  <2> QED BY <2>1, <2>4 DEF FramesInv
<1>9. PostsInv'
  <2>1. ASSUME NEW tk \in ToSet(posts') PROVE TaskLive(tk)'
    <3>1. /\ TaskLive(tk) /\ (tk.c # None => tk.c \in Conn) /\ (tk.f = "conn_cleanup" => tk.c \in Conn)
      BY Elements DEF LifeInv, PostsInv
    <3>2. tk.f = "conn_cleanup" => tk.c # c
      BY <3>1 DEF TaskLive, conn_dead, Alive
    <3>3. tk.c # None => state'[tk.c] # "NONE" /\ tk.c \notin freed'
      BY <1>3, <3>1 DEF TaskLive
    <3>4. ASSUME tk.f = "conn_cleanup" PROVE conn_dead(tk.c)' /\ \A gr \in Closers(stack') : gr.c # tk.c
      <4>1. conn_dead(tk.c)'
        BY <1>3, <3>1, <3>2, <3>4 DEF TaskLive, conn_dead
      <4>2. \A gr \in Closers(stack') : gr \in Closers(stack) \/ gr = fr
        BY <1>6 DEF Closers
      <4> QED BY <1>2, <3>1, <3>2, <3>4, <4>1, <4>2 DEF TaskLive
    <3> QED BY <1>6, <3>1, <3>3, <3>4 DEF TaskLive
  <2> QED BY <2>1 DEF PostsInv, LifeInv
<1>10. ASSUME NEW d \in Conn PROVE ConnLive(d)'
  <2>1. ConnLive(d)
    BY DEF LifeInv
  <2>2. CASE d = c
    <3>1. d \notin idle' /\ d \notin stream' /\ closes'[d] = 1 /\ state'[d] = "CLOSED" /\ d \notin ToSet(conns')
      BY <1>1, <1>3, <1>4, <1>5, <2>2
    <3> QED BY <3>1 DEF ConnLive, Alive
  <2>3. CASE d # c
    <3>1. state'[d] = state[d] /\ closes'[d] = closes[d] /\ (d \in idle' <=> d \in idle) /\ (d \in stream' <=> d \in stream)
          /\ (d \in ToSet(conns') <=> d \in ToSet(conns))
      BY <1>1, <1>3, <1>4, <2>3
    <3>2. (d \in stream => Alive(d)) /\ (d \in ToSet(conns) => Alive(d))
      BY <2>1 DEF ConnLive, NoWalk, WalkF
    <3> QED BY <2>1, <3>1, <3>2 DEF ConnLive, Alive
  <2> QED BY <2>2, <2>3
<1>11. ServerInv'
  <2>1. conns # <<>>
    BY <1>5 DEF ToSet
  <2> QED BY <1>4, <2>1 DEF LifeInv, ServerInv
<1>12. WalkInv'
  BY <1>6 DEF WalkInv, WalkAt, NoWalk, WalkF
<1> QED BY <1>8, <1>9, <1>10, <1>11, <1>12 DEF LifeInv

\* In user code that may write no walk is in progress.
LEMMA WriteNoWalk == ASSUME Inv, LifeInv, WalkWrites = FALSE, CanWrite PROVE NoWalk(stack)
<1>1. stack \in Seq(Frame) /\ ToSet(stack) = {stack[i] : i \in 1 .. Len(stack)}
  BY LenProperties, Typing DEF StackOK, ToSet
<1>2. ASSUME NEW fr \in ToSet(stack), fr.f \in WalkF PROVE FALSE
  <2>1. stack = <<fr>>
    BY <1>2 DEF LifeInv, WalkInv, WalkAt
  <2>2. stack # <<>> /\ Top = fr
    BY <2>1 DEF Top
  <2>3. fr.f # "walk"
    BY <2>2 DEF CanWrite, UserCode, UserCallback
  <2>4. fr.f # "walk_close"
    BY <1>1, <1>2 DEF CanWrite
  <2> QED BY <1>2, <2>3, <2>4 DEF WalkF
<1> QED BY <1>2 DEF NoWalk

\* A write that fails ends the connection in the middle of user code.
LEMMA TerminateUser ==
  ASSUME Inv, Inv', LifeInv, WalkWrites = FALSE, CanWrite,
         NEW c \in Conn, state[c] \in {"REQUEST", "AWAIT_RESP", "RESPONDING"},
         conn_terminate(c, stack), UNCHANGED <<freed, server, posts>>
  PROVE  LifeInv'
<1>1. NoWalk(stack) /\ UserCode
  BY WriteNoWalk DEF CanWrite
<1>2. Alive(c)
  BY DEF Alive
<1>3. stack \in Seq(Frame) /\ CloserOnce(stack)
  BY Typing DEF StackOK, LifeInv, FramesInv
<1>4. ASSUME NEW fr \in ToSet(stack), fr.c = c PROVE fr.f \notin {"on_accept", "no_upgrade"}
  <2>1. FrameLive(fr)
    BY DEF LifeInv, FramesInv
  <2> QED BY <1>1, <1>4, <2>1, UserNoUpgrade DEF FrameLive
<1> QED BY <1>1, <1>2, <1>3, <1>4, TerminateLife

\* The end in an event of the loop, with no frames.
LEMMA TerminateEvent ==
  ASSUME Inv, Inv', LifeInv, stack = <<>>, NEW c \in Conn, Alive(c),
         conn_terminate(c, <<>>), UNCHANGED <<freed, server, posts>>
  PROVE  LifeInv'
<1>1. ToSet(<<>>) = {} /\ <<>> \in Seq(Frame) /\ CloserOnce(<<>>)
  BY DEF ToSet, CloserOnce
<1> QED BY <1>1, TerminateLife DEF NoWalk

\* The end of an answer is mild.
LEMMA CompleteMild ==
  ASSUME Inv, NEW c \in Conn, state[c] \in {"REQUEST", "AWAIT_RESP", "RESPONDING"},
         NEW async, conn_response_complete(c, async)
  PROVE  /\ StateMild(c) /\ idle' \subseteq idle \cup {c}
         /\ sevent_post("http_process", c) \/ UNCHANGED posts
<1>1. Alive(c) /\ {"PARSING", "CLOSING"} \subseteq State \ {"NONE", "CLOSED", "RELEASED"}
  BY DEF Alive, State
<1>2. CASE conn_close_graceful(c) /\ UNCHANGED <<idle, posts>>
  BY <1>1, <1>2 DEF conn_close_graceful, StateMild
<1>3. CASE /\ conn_idle_reset(c)
           /\ http_state_set(c, "PARSING") \/ http_state_set(c, "CLOSING")
           /\ sevent_post("http_process", c) \/ UNCHANGED posts
  BY <1>1, <1>3 DEF conn_idle_reset, http_state_set, StateMild
<1> QED BY <1>2, <1>3 DEF conn_response_complete

-------------------------------------------------------------------------------
(* Mild steps that change the frames. *)

LEMMA MildStack ==
  ASSUME Inv, Inv', LifeInv, NEW c \in Conn, StateMild(c), PostsMild,
         UNCHANGED <<stream, conns, closes, freed, server>>, \A d \in idle' : d \in idle \/ Alive(d),
         NoWalk(stack), CloserOnce(stack'),
         \A fr \in ToSet(stack') :
           \/ fr \in ToSet(stack) /\ fr.f \notin {"on_accept", "no_upgrade"}
           \/ fr.f \notin Closer \cup WalkF /\ FrameLive(fr)'
  PROVE  LifeInv'
<1>1. SameLife
  BY MildState DEF Inv, TypeOK
<1>2. ASSUME NEW fr \in ToSet(stack') PROVE FrameLive(fr)' /\ fr.f \notin WalkF /\ (fr.f \in Closer => fr \in ToSet(stack))
  <2>1. CASE fr \in ToSet(stack) /\ fr.f \notin {"on_accept", "no_upgrade"}
    <3>1. FrameLive(fr) /\ fr \in Frame /\ fr.c \in Conn \cup {None} /\ (fr.f # "walk" => fr.c \in Conn)
      BY <2>1, Elements DEF LifeInv, FramesInv
    <3>2. FrameLive(fr)'
      BY <1>1, <2>1, <3>1, FrameKept
    <3> QED BY <2>1, <3>2 DEF NoWalk
  <2>2. CASE fr.f \notin Closer \cup WalkF /\ FrameLive(fr)'
    BY <2>2
  <2> QED BY <2>1, <2>2
<1>3. NoWalk(stack') /\ Closers(stack') \subseteq Closers(stack)
  BY <1>2 DEF NoWalk, Closers
<1>4. StackMild
  BY <1>3 DEF StackMild
<1> QED BY <1>1, <1>2, <1>4, Mild

LEMMA FewFrames ==
  /\ CloserOnce(<<>>) /\ NoWalk(<<>>) /\ ToSet(<<>>) = {}
  /\ \A fr \in Frame : CloserOnce(<<fr>>) /\ ToSet(<<fr>>) = {fr}
<1>1. CloserOnce(<<>>) /\ ToSet(<<>>) = {}
  BY DEF CloserOnce, ToSet
<1>2. ASSUME NEW fr \in Frame PROVE CloserOnce(<<fr>>) /\ ToSet(<<fr>>) = {fr}
  BY DEF CloserOnce, ToSet
<1> QED BY <1>1, <1>2 DEF NoWalk

\* A walk has no frames above it, and none but a walk's own.
LEMMA TopNoWalk ==
  ASSUME Inv, LifeInv, stack # <<>>, Top.f \notin WalkF
  PROVE  NoWalk(stack)
<1>1. ASSUME NEW fr \in ToSet(stack), fr.f \in WalkF PROVE FALSE
  <2>1. stack = <<fr>>
    BY <1>1 DEF LifeInv, WalkInv, WalkAt
  <2> QED BY <1>1, <2>1 DEF Top
<1> QED BY <1>1 DEF NoWalk

LEMMA PostsSame == ASSUME LifeInv, UNCHANGED posts PROVE PostsMild
BY DEF LifeInv, PostsInv, PostsMild

LEMMA BelowProcess ==
  ASSUME NEW s, StackOK(s), s # <<>>, s[1].f = "process"
  PROVE  \A fr \in ToSet(Tail(s)) : fr.f = "overflow"
<1>1. Tail(s) = <<>> \/ (Tail(s)[1].f = "overflow" /\ Tail(Tail(s)) = <<>>)
  BY TopFrame
<1>2. Tail(s) \in Seq(Frame)
  BY TopFrame
<1>3. Tail(s) # <<>> => ToSet(Tail(s)) = ToSet(Tail(Tail(s))) \cup {Tail(s)[1]}
  BY <1>2, Pop
<1> QED BY <1>1, <1>3, FewFrames

\* The innermost frame and what is below it.
LEMMA TopLive ==
  ASSUME Inv, LifeInv, stack # <<>>
  PROVE  /\ Top \in Frame /\ Top \in ToSet(stack) /\ FrameLive(Top) /\ Top = stack[1]
         /\ Tail(stack) \in Seq(Frame) /\ ToSet(Tail(stack)) \subseteq ToSet(stack) /\ CloserOnce(Tail(stack))
         /\ Top.f # "walk" => Top.c \in Conn /\ state[Top.c] # "NONE" /\ Top.c \notin freed
<1>1. stack \in Seq(Frame) /\ CloserOnce(stack)
  BY Typing DEF StackOK, LifeInv, FramesInv
<1>2. /\ Top = stack[1] /\ Top \in Frame /\ ToSet(stack) = ToSet(Tail(stack)) \cup {stack[1]}
      /\ Tail(stack) \in Seq(Frame)
  BY <1>1, Pop DEF Top
<1>3. CloserOnce(Tail(stack))
  BY <1>1, CloserPop
<1>4. Top \in ToSet(stack) /\ FrameLive(Top)
  BY <1>2 DEF LifeInv, FramesInv
<1>5. Top.f # "walk" => Top.c \in Conn
  BY <1>4, Elements
<1> QED BY <1>2, <1>3, <1>4, <1>5, HttpAssumption DEF FrameLive

\* Only the timer and a half close.
LEMMA GracefulMild ==
  ASSUME state \in [Conn -> State], NEW c \in Conn, state[c] # "NONE", conn_close_graceful(c)
  PROVE  StateMild(c)
<1>1. "CLOSING" \in State \ {"NONE", "CLOSED", "RELEASED"}
  BY DEF State
<1> QED BY <1>1 DEF conn_close_graceful, conn_dying, StateMild, Alive

-------------------------------------------------------------------------------
(* The life of connections, action by action. *)

LEMMA RespondLife ==
  ASSUME Inv, Inv', LifeInv, WalkWrites = FALSE,
         NEW c \in Conn, NEW close \in BOOLEAN, sevent_http_conn_respond(c, close)
  PROVE  LifeInv'
<1>1. CanWrite /\ UserCode /\ state[c] \in {"REQUEST", "AWAIT_RESP"} /\ UNCHANGED <<freed, server>>
  BY DEF sevent_http_conn_respond, CanWrite, rest
<1>2. CASE conn_response_complete(c, state[c] = "AWAIT_RESP") /\ UNCHANGED <<ends, stack>>
  <2>1. StateMild(c) /\ idle' \subseteq idle \cup {c} /\ (sevent_post("http_process", c) \/ UNCHANGED posts)
    BY <1>1, <1>2, CompleteMild
  <2>2. Alive(c)
    BY <1>1 DEF Alive
  <2> QED BY <1>1, <1>2, <2>1, <2>2, MildUser DEF ends
<1>3. CASE conn_terminate(c, stack) /\ UNCHANGED posts
  BY <1>1, <1>3, TerminateUser
<1> QED BY <1>2, <1>3 DEF sevent_http_conn_respond

LEMMA WriteLife ==
  ASSUME Inv, Inv', LifeInv, WalkWrites = FALSE, NEW c \in Conn, sevent_http_conn_write(c)
  PROVE  LifeInv'
<1>1. /\ CanWrite /\ UserCode /\ state[c] \in {"REQUEST", "AWAIT_RESP", "RESPONDING"}
      /\ UNCHANGED <<freed, server, posts>>
  BY DEF sevent_http_conn_write, CanWrite, rest
<1>2. CASE /\ state' = IF state[c] = "AWAIT_RESP" THEN [state EXCEPT ![c] = "RESPONDING"] ELSE state
           /\ UNCHANGED <<idle, ends, stack>>
  <2>1. Alive(c) /\ "RESPONDING" \in State \ {"NONE", "CLOSED", "RELEASED"}
    BY <1>1 DEF Alive, State
  <2>2. StateMild(c)
    BY <1>2, <2>1 DEF StateMild
  <2> QED BY <1>1, <1>2, <2>1, <2>2, MildUser DEF ends
<1>3. CASE conn_terminate(c, stack)
  BY <1>1, <1>3, TerminateUser
<1> QED BY <1>2, <1>3 DEF sevent_http_conn_write

LEMMA WriteEndLife ==
  ASSUME Inv, Inv', LifeInv, NEW c \in Conn, sevent_http_conn_write_end(c)
  PROVE  LifeInv'
<1>1. /\ UserCode /\ state[c] \in {"REQUEST", "RESPONDING"} /\ conn_response_complete(c, state[c] = "RESPONDING")
      /\ UNCHANGED <<ends, stack, freed, server>>
  BY DEF sevent_http_conn_write_end, rest
<1>2. StateMild(c) /\ idle' \subseteq idle \cup {c} /\ (sevent_post("http_process", c) \/ UNCHANGED posts)
  BY <1>1, CompleteMild
<1>3. Alive(c)
  BY <1>1 DEF Alive
<1> QED BY <1>1, <1>2, <1>3, MildUser DEF ends

LEMMA CloseLife ==
  ASSUME Inv, Inv', LifeInv, NEW c \in Conn, sevent_http_conn_close(c)
  PROVE  LifeInv'
<1>1. /\ UserCode /\ Known(c) /\ ~conn_dying(c) /\ conn_close_graceful(c)
      /\ UNCHANGED <<idle, ends, stack, posts, freed, server>>
  BY DEF sevent_http_conn_close, rest
<1>2. Alive(c)
  BY <1>1 DEF Alive, Known, conn_dying
<1>3. StateMild(c)
  BY <1>1, <1>2, GracefulMild, Typing DEF TypeOK, Alive
<1>4. state'[c] = "CLOSING"
  BY <1>1, Typing DEF conn_close_graceful, TypeOK
<1> QED BY <1>1, <1>2, <1>3, <1>4, MildUser DEF ends

LEMMA OpenLife == ASSUME Inv, Inv', LifeInv, NEW c \in Conn, conn_on_open(c) PROVE LifeInv'
<1> DEFINE fr == [f |-> "on_accept", c |-> c, n |-> 0]
<1>1. /\ stack = <<>> /\ state[c] = "NEW" /\ stack' = <<fr>>
      /\ UNCHANGED <<state, stream, idle, conns, freed, server, posts, closes>>
  BY DEF conn_on_open, rest, history
<1>2. fr \in Frame /\ fr.f = "on_accept" /\ fr.c = c
  BY FrameMake
<1> HIDE DEF fr
<1>3. CloserOnce(stack') /\ ToSet(stack') = {fr} /\ NoWalk(stack)
  BY <1>1, <1>2, FewFrames
<1>4. c \notin freed
  BY <1>1 DEF LifeInv, ConnLive, Alive
<1>5. FrameLive(fr)'
  BY <1>1, <1>2, <1>4 DEF FrameLive, Closer
<1>6. StateMild(c) /\ PostsMild
  BY <1>1, PostsSame DEF StateMild
<1>7. ASSUME NEW x \in ToSet(stack') PROVE x.f \notin Closer \cup WalkF /\ FrameLive(x)'
  <2>1. x = fr
    BY <1>3
  <2> QED BY <1>2, <1>5, <2>1 DEF Closer, WalkF
<1> QED BY <1>1, <1>3, <1>6, <1>7, MildStack

LEMMA AcceptReturnLife == ASSUME Inv, Inv', LifeInv, on_accept_return PROVE LifeInv'
<1>1. /\ stack # <<>> /\ Top.f = "on_accept" /\ stack' = Tail(stack) /\ idle' = idle \cup {Top.c}
      /\ state' = IF conn_dying(Top.c) THEN state ELSE [state EXCEPT ![Top.c] = "PARSING"]
      /\ UNCHANGED <<stream, conns, freed, server, posts, closes>>
  BY DEF on_accept_return, InLib, Return, conn_idle_reset, rest, history
<1>2. PICK c \in Conn : Top.c = c
  BY <1>1, TopLive
<1>3. state[c] \in {"NEW", "CLOSING"} /\ stack' = <<>>
  BY <1>1, <1>2, TopLive, TopFrame, Typing DEF FrameLive
<1>4. Alive(c) /\ "PARSING" \in State \ {"NONE", "CLOSED", "RELEASED"}
  BY <1>3 DEF Alive, State
<1>5. StateMild(c)
  BY <1>1, <1>2, <1>4 DEF StateMild
<1>6. NoWalk(stack) /\ PostsMild /\ CloserOnce(stack') /\ ToSet(stack') = {}
  BY <1>1, <1>3, TopNoWalk, PostsSame, FewFrames DEF WalkF
<1>7. \A d \in idle' : d \in idle \/ Alive(d)
  BY <1>1, <1>2, <1>4
<1> QED BY <1>1, <1>5, <1>6, <1>7, MildStack

LEMMA ProcessLive ==
  ASSUME NEW c \in Conn, state'[c] # "NONE", c \notin freed'
  PROVE  /\ Process(c) \in Frame /\ FrameLive(Process(c))' /\ Process(c).f \notin Closer \cup WalkF
         /\ ToSet(<<Process(c)>>) = {Process(c)} /\ CloserOnce(<<Process(c)>>)
<1> DEFINE fr == Process(c)
<1>1. fr \in Frame /\ fr.f = "process" /\ fr.c = c
  BY ProcessFrame
<1>3. FrameLive(fr)'
  BY <1>1 DEF FrameLive, Closer, Process
<1>4. ToSet(<<fr>>) = {fr} /\ CloserOnce(<<fr>>)
  BY <1>1, FewFrames
<1> QED BY <1>1, <1>3, <1>4 DEF Closer, WalkF

LEMMA IdleLife == ASSUME Inv, Inv', LifeInv, NEW c \in Conn, on_idle_timeout(c) PROVE LifeInv'
<1>1. stack = <<>> /\ c \in idle /\ UNCHANGED <<freed, server, posts>>
  BY DEF on_idle_timeout, rest
<1>2. Alive(c)
  BY <1>1 DEF LifeInv, ConnLive, Alive
<1>3. CASE conn_terminate(c, <<>>)
  BY <1>1, <1>2, <1>3, TerminateEvent
<1>4. CASE conn_idle_stop(c) /\ UNCHANGED <<state, ends, stack>>
  <2>1. UserCode /\ StateMild(c) /\ idle' \subseteq idle \cup {c}
    BY <1>1, <1>4 DEF UserCode, StateMild, conn_idle_stop
  <2> QED BY <1>1, <1>2, <1>4, <2>1, MildUser DEF ends
<1> QED BY <1>3, <1>4 DEF on_idle_timeout

LEMMA EndLife == ASSUME Inv, Inv', LifeInv, NEW c \in Conn, conn_on_end(c) PROVE LifeInv'
<1>1. stack = <<>> /\ c \in stream /\ ~conn_dead(c) /\ conn_terminate(c, <<>>) /\ UNCHANGED <<freed, server, posts>>
  BY DEF conn_on_end, rest
<1>2. Alive(c)
  BY <1>1 DEF Alive, conn_dead, Inv, BufferInv
<1> QED BY <1>1, <1>2, TerminateEvent

\* Data is received with no frames but that of conn_on_data itself.
LEMMA ReceiveLife ==
  ASSUME Inv, Inv', LifeInv, NEW c \in Conn, NEW d, Receive(c, d, <<>>), Alive(c), NoWalk(stack),
         UNCHANGED <<ends, rest, posts>>
  PROVE  LifeInv'
<1>1. /\ idle' = idle \cup {c} /\ UNCHANGED state
      /\ stack' = (IF state[c] = "PARSING" THEN <<Process(c)>> ELSE <<>>) \o <<>>
  BY DEF Receive, conn_idle_reset
<1>2. state'[c] # "NONE" /\ c \notin freed'
  BY <1>1 DEF Alive, LifeInv, ConnLive, rest
<1>3. /\ Process(c) \in Frame /\ FrameLive(Process(c))' /\ Process(c).f \notin Closer \cup WalkF
      /\ ToSet(<<Process(c)>>) = {Process(c)} /\ CloserOnce(<<Process(c)>>)
  BY <1>2, ProcessLive
<1>4. stack' = <<Process(c)>> \/ stack' = <<>>
  <2> DEFINE fr == Process(c)
  <2>1. fr \in Frame
    BY <1>3
  <2> HIDE DEF fr
  <2>2. <<fr>> \o <<>> = <<fr>> /\ <<>> \o <<>> = <<>>
    BY <2>1, ConcatEmptySeq, EmptySeq
  <2> QED BY <1>1, <2>2 DEF fr
<1>5. CloserOnce(stack') /\ \A x \in ToSet(stack') : x.f \notin Closer \cup WalkF /\ FrameLive(x)'
  <2>1. CASE stack' = <<>>
    BY <2>1, FewFrames
  <2>2. CASE stack' = <<Process(c)>>
    <3>1. ASSUME NEW x \in ToSet(stack') PROVE x.f \notin Closer \cup WalkF /\ FrameLive(x)'
      <4>1. x = Process(c)
        BY <1>3, <2>2
      <4>2. x.f = "process" /\ x.c = c
        BY <4>1, ProcessFrame
      <4> QED BY <1>2, <4>2 DEF FrameLive, Closer, WalkF
    <3> QED BY <1>3, <2>2, <3>1
  <2> QED BY <1>4, <2>1, <2>2
<1>6. StateMild(c) /\ PostsMild
  BY <1>1, PostsSame DEF StateMild
<1>7. \A x \in idle' : x \in idle \/ Alive(x)
  BY <1>1
<1> QED BY <1>5, <1>6, <1>7, MildStack DEF ends, rest

LEMMA DataLife ==
  ASSUME Inv, Inv', LifeInv, NEW c \in Conn, NEW ks \in Chunk, conn_on_data(c, ks)
  PROVE  LifeInv'
<1>1. stack = <<>> /\ c \in stream /\ ~conn_dying(c) /\ UNCHANGED <<ends, rest, posts>>
  BY DEF conn_on_data
<1>2. Alive(c) /\ NoWalk(stack)
  BY <1>1, FewFrames DEF Alive, conn_dying, Inv, BufferInv
<1>3. \/ \E d : Receive(c, d, <<>>)
      \/ /\ \E d : stack' = <<[f |-> "overflow", c |-> c, n |-> 0, d |-> d]>>
         /\ UNCHANGED <<state, idle>>
      \/ conn_close_graceful(c) /\ UNCHANGED <<idle, stack>>
  BY DEF conn_on_data
<1>4. CASE \E d : Receive(c, d, <<>>)
  BY <1>1, <1>2, <1>4, ReceiveLife
<1>5. ASSUME NEW d, stack' = <<[f |-> "overflow", c |-> c, n |-> 0, d |-> d]>>, UNCHANGED <<state, idle>>
      PROVE  LifeInv'
  <2> DEFINE fr == [f |-> "overflow", c |-> c, n |-> 0, d |-> d]
  <2>1. fr.f = "overflow" /\ fr.c = c /\ stack' = <<fr>>
    BY <1>5
  <2> HIDE DEF fr
  <2>2. ToSet(<<fr>>) = {fr} /\ CloserOnce(<<fr>>)
    BY DEF ToSet, CloserOnce
  <2>3. c \notin freed' /\ state'[c] # "NONE"
    BY <1>1, <1>2, <1>5 DEF Alive, LifeInv, ConnLive, rest
  <2>4. ASSUME NEW x \in ToSet(stack') PROVE x.f \notin Closer \cup WalkF /\ FrameLive(x)'
    <3>1. x.f = "overflow" /\ x.c = c
      BY <2>1, <2>2
    <3> QED BY <2>3, <3>1 DEF FrameLive, Closer, WalkF
  <2>5. StateMild(c) /\ PostsMild
    BY <1>1, <1>5, PostsSame DEF StateMild
  <2> QED BY <1>1, <1>2, <1>5, <2>1, <2>2, <2>4, <2>5, MildStack DEF ends, rest
<1>6. CASE conn_close_graceful(c) /\ UNCHANGED <<idle, stack>>
  <2>1. StateMild(c)
    BY <1>2, <1>6, GracefulMild, Typing DEF TypeOK, Alive
  <2>2. state'[c] = "CLOSING"
    BY <1>1, <1>6, Typing DEF conn_close_graceful, TypeOK
  <2>3. UserCode
    BY <1>1 DEF UserCode
  <2> QED BY <1>1, <1>2, <1>6, <2>1, <2>2, <2>3, MildUser DEF ends, rest
<1> QED BY <1>3, <1>4, <1>5, <1>6

\* A return to the frames below, which are those of http_process or
\* conn_on_data.
LEMMA ReturnLife ==
  ASSUME Inv, Inv', LifeInv, NEW c \in Conn, StateMild(c), PostsMild,
         UNCHANGED <<stream, conns, closes, freed, server>>, \A d \in idle' : d \in idle \/ Alive(d),
         NoWalk(stack), CloserOnce(stack'), ToSet(stack') \subseteq ToSet(stack),
         \A fr \in ToSet(stack') : fr.f \in {"process", "overflow"}
  PROVE  LifeInv'
<1>1. ASSUME NEW fr \in ToSet(stack') PROVE fr \in ToSet(stack) /\ fr.f \notin {"on_accept", "no_upgrade"}
  <2>1. fr.f \in {"process", "overflow"}
    OBVIOUS
  <2> QED BY <2>1
<1> QED BY <1>1, MildStack

LEMMA OverflowLife == ASSUME Inv, Inv', LifeInv, NEW c \in Conn, overflow_step(c) PROVE LifeInv'
<1>1. stack # <<>> /\ Top.f = "overflow" /\ Top.c = c /\ UNCHANGED <<ends, rest, posts>>
  BY DEF overflow_step, At, InLib
<1>2. Tail(stack) = <<>> /\ Top \in Frame /\ Top.n \in Nat /\ state[c] # "NONE" /\ c \notin freed
  BY <1>1, TopLive, TopFrame, FrameFields, Typing
<1>3. NoWalk(stack) /\ PostsMild
  BY <1>1, TopNoWalk, PostsSame DEF WalkF
<1>4. CASE /\ stack' = <<Process(c), [Top EXCEPT !.n = Top.n + 1]>> \o Tail(stack)
           /\ UNCHANGED <<state, idle>>
  <2> DEFINE fr == Process(c)
             gr == [Top EXCEPT !.n = Top.n + 1]
  <2>1. fr \in Frame /\ fr.f = "process" /\ fr.c = c
    BY ProcessFrame
  <2>2. gr \in Frame /\ gr.f = "overflow" /\ gr.c = c
    <3>1. Top.n + 1 \in Nat
      BY <1>2
    <3> QED BY <1>1, <1>2, <3>1, FrameCount
  <2>3. stack' = <<fr, gr>> \o Tail(stack)
    BY <1>4
  <2> HIDE DEF fr, gr
  <2>4. stack' = <<fr>> \o (<<gr>> \o Tail(stack)) /\ Tail(stack) \in Seq(Frame)
    BY <1>1, <2>1, <2>2, <2>3, PushTwo, TopLive
  <2>5. /\ <<gr>> \o Tail(stack) \in Seq(Frame) /\ CloserOnce(<<gr>> \o Tail(stack))
        /\ ToSet(<<gr>> \o Tail(stack)) = ToSet(Tail(stack)) \cup {gr}
    <3>1. CloserOnce(<<gr>> \o Tail(stack))
      BY <1>1, <2>2, <2>4, CloserPush, TopLive DEF Closer
    <3>2. <<gr>> \o Tail(stack) \in Seq(Frame)
      BY <2>2, <2>4, Push
    <3> QED BY <2>2, <2>4, <3>1, <3>2, PushSets
  <2>6. CloserOnce(stack') /\ ToSet(stack') = {fr, gr}
    <3>1. CloserOnce(stack')
      BY <2>1, <2>4, <2>5, CloserPush DEF Closer
    <3>2. ToSet(stack') = ToSet(<<gr>> \o Tail(stack)) \cup {fr}
      BY <2>1, <2>4, <2>5, PushSets
    <3> QED BY <1>2, <2>5, <3>1, <3>2, FewFrames
  <2>7. ASSUME NEW x \in ToSet(stack') PROVE x.f \notin Closer \cup WalkF /\ FrameLive(x)'
    <3>1. x.f \in {"process", "overflow"} /\ x.c = c
      BY <2>1, <2>2, <2>6
    <3>2. state'[c] # "NONE" /\ c \notin freed'
      BY <1>1, <1>2, <1>4 DEF rest
    <3> QED BY <3>1, <3>2 DEF FrameLive, Closer, WalkF
  <2>8. StateMild(c)
    BY <1>4 DEF StateMild
  <2> QED BY <1>1, <1>3, <1>4, <2>6, <2>7, <2>8, MildStack DEF ends, rest
<1>5. CASE state[c] = "PARSING" /\ \E d : Receive(c, d, <<>>)
  <2>1. Alive(c)
    BY <1>5 DEF Alive
  <2> QED BY <1>1, <1>3, <1>5, <2>1, ReceiveLife
<1>6. CASE conn_close_graceful(c) /\ stack' = <<>> /\ UNCHANGED idle
  <2>1. StateMild(c)
    BY <1>2, <1>6, GracefulMild, Typing DEF TypeOK
  <2> QED BY <1>1, <1>3, <1>6, <2>1, ReturnLife, FewFrames DEF ends, rest
<1> QED BY <1>2, <1>4, <1>5, <1>6 DEF overflow_step, Return

LEMMA ProcessTop ==
  ASSUME Inv, LifeInv, NEW c, At("process", c)
  PROVE  /\ stack # <<>> /\ Top.f = "process" /\ Top.c = c /\ c \in Conn /\ state[c] # "NONE" /\ c \notin freed
         /\ NoWalk(stack) /\ CloserOnce(Tail(stack)) /\ ToSet(Tail(stack)) \subseteq ToSet(stack)
         /\ Tail(stack) \in Seq(Frame)
         /\ \A fr \in ToSet(Tail(stack)) : fr.f \in {"process", "overflow"}
<1>1. stack # <<>> /\ Top.f = "process" /\ Top.c = c
  BY DEF At, InLib
<1>2. NoWalk(stack)
  BY <1>1, TopNoWalk DEF WalkF
<1>3. \A fr \in ToSet(Tail(stack)) : fr.f = "overflow"
  BY <1>1, BelowProcess, TopLive, Typing
<1> QED BY <1>1, <1>2, <1>3, TopLive

LEMMA StopLife ==
  ASSUME Inv, Inv', LifeInv, NEW c \in Conn, process_stop(c) \/ process_partial(c)
  PROVE  LifeInv'
<1>1. /\ At("process", c) /\ stack' = Tail(stack)
      /\ UNCHANGED <<state, stream, idle, conns, freed, server, posts, closes>>
  BY DEF process_stop, process_partial, Parsed, More, Return, rest, history
<1>2. StateMild(c) /\ PostsMild
  BY <1>1, PostsSame DEF StateMild
<1> QED BY <1>1, <1>2, ProcessTop, ReturnLife

LEMMA YieldLife == ASSUME Inv, Inv', LifeInv, NEW c \in Conn, process_yield(c) PROVE LifeInv'
<1>1. /\ At("process", c) /\ state[c] = "PARSING" /\ stack' = Tail(stack)
      /\ UNCHANGED <<stream, idle, conns, freed, server, closes>>
  BY DEF process_yield, More, Return, rest, history
<1>2. Alive(c)
  BY <1>1 DEF Alive
<1>3. StateMild(c) /\ PostsMild
  <2>1. CASE sevent_post("http_process", c) /\ UNCHANGED state
    BY <1>2, <2>1, PostAlive DEF StateMild
  <2>2. CASE conn_close_graceful(c) /\ UNCHANGED posts
    BY <1>1, <2>2, PostsSame, GracefulMild, Typing DEF TypeOK
  <2> QED BY <2>1, <2>2 DEF process_yield
<1> QED BY <1>1, <1>3, ProcessTop, ReturnLife

\* 400 and 413, for a connection in use and on top of frames that return.
LEMMA InternalLife ==
  ASSUME Inv, Inv', LifeInv, NEW c \in Conn, Alive(c), NEW rc, NEW below \in Seq(Frame), NoWalk(stack),
         CloserOnce(below), ToSet(below) \subseteq ToSet(stack),
         \A fr \in ToSet(below) : fr.f \in {"process", "overflow"},
         http_respond_internal(c, rc, below), UNCHANGED <<rest, posts>>
  PROVE  LifeInv'
<1>1. PostsMild
  BY PostsSame
<1>2. CASE conn_close_graceful(c) /\ stack' = below /\ UNCHANGED <<idle, ends>>
  <2>1. StateMild(c)
    BY <1>2, GracefulMild, Typing DEF TypeOK, Alive
  <2> QED BY <1>1, <1>2, <2>1, ReturnLife DEF ends, rest
<1>3. CASE stack' = below /\ UNCHANGED <<state, idle, ends>>
  <2>1. StateMild(c)
    BY <1>3 DEF StateMild
  <2> QED BY <1>1, <1>3, <2>1, ReturnLife DEF ends, rest
<1>4. CASE conn_terminate(c, below)
  <2>1. ASSUME NEW fr \in ToSet(below) PROVE fr.f \notin {"on_accept", "no_upgrade"}
    <3>1. fr.f \in {"process", "overflow"}
      OBVIOUS
    <3> QED BY <3>1
  <2> QED BY <1>4, <2>1, TerminateLife DEF rest
<1> QED BY <1>2, <1>3, <1>4 DEF http_respond_internal

LEMMA RejectLife == ASSUME Inv, Inv', LifeInv, NEW c \in Conn, process_reject(c) PROVE LifeInv'
<1>1. At("process", c) /\ state[c] = "PARSING" /\ UNCHANGED <<rest, posts>>
  BY DEF process_reject, Parsed, More
<1>2. PICK rc \in conn_respond_build : http_respond_internal(c, rc, Tail(stack))
  BY DEF process_reject
<1>3. Alive(c)
  BY <1>1 DEF Alive
<1> DEFINE below == Tail(stack)
<1>4. /\ below \in Seq(Frame) /\ NoWalk(stack) /\ CloserOnce(below) /\ ToSet(below) \subseteq ToSet(stack)
      /\ \A fr \in ToSet(below) : fr.f \in {"process", "overflow"}
  BY <1>1, ProcessTop
<1>5. http_respond_internal(c, rc, below)
  BY <1>2
<1> HIDE DEF below
<1> QED BY <1>1, <1>3, <1>4, <1>5, InternalLife

LEMMA DispatchLife == ASSUME Inv, Inv', LifeInv, NEW c \in Conn, process_dispatch(c) PROVE LifeInv'
<1> DEFINE n == ReqLen(recv[c])
           f == IF First(c) # "up" THEN "on_request" ELSE IF upgrades THEN "on_upgrade" ELSE "no_upgrade"
           fr == [f |-> f, c |-> c, n |-> n]
           gr == [Top EXCEPT !.n = Top.n - 1]
<1>1. /\ At("process", c) /\ state[c] = "PARSING" /\ Top.n > 0 /\ n # 0
      /\ state' = [state EXCEPT ![c] = "REQUEST"] /\ stack' = <<fr, gr>> \o Tail(stack)
      /\ UNCHANGED <<idle, ends, rest, posts>>
  BY DEF process_dispatch, Request, Parsed, More, http_state_set
<1>2. /\ stack # <<>> /\ Top \in Frame /\ Top.f = "process" /\ Top.c = c /\ Top.n \in Nat
  BY <1>1, TopProcess
<1>3. n \in Nat
  <2>1. n \in 1 .. Len(recv[c]) /\ Len(recv[c]) \in Nat
    BY <1>1, RequestLength, LenProperties DEF Inv, TypeOK
  <2> QED BY <2>1
<1>4. f \in Callback
  BY DEF Callback
<1> HIDE DEF f, n
<1>5. fr \in Frame /\ fr.f \in Callback /\ fr.c = c
  BY <1>3, <1>4, FrameMake DEF Callback
<1>6. gr \in Frame /\ gr.f = "process" /\ gr.c = c
  <2>1. Top.n - 1 \in Nat
    BY <1>1, <1>2
  <2> QED BY <1>2, <2>1, FrameCount
<1> HIDE DEF fr, gr
<1>7. CloserOnce(stack') /\ ToSet(stack') = ToSet(Tail(stack)) \cup {fr, gr}
  <2> DEFINE b == Tail(stack)
             s == <<gr>> \o b
  <2>1. b \in Seq(Frame) /\ CloserOnce(b)
    BY <1>2, TopLive
  <2>2. stack' = <<fr>> \o s
    BY <1>1, <1>5, <1>6, <2>1, PushTwo
  <2> HIDE DEF b
  <2>3. s \in Seq(Frame) /\ CloserOnce(s) /\ ToSet(s) = ToSet(b) \cup {gr}
    <3>1. s \in Seq(Frame)
      BY <1>6, <2>1, Push
    <3> QED BY <1>6, <2>1, <3>1, CloserPush, PushSets DEF Closer
  <2> HIDE DEF s
  <2>4. CloserOnce(stack')
    BY <1>5, <2>2, <2>3, CloserPush DEF Closer, Callback
  <2>5. ToSet(stack') = ToSet(s) \cup {fr}
    BY <1>5, <2>2, <2>3, PushSets
  <2> QED BY <2>3, <2>4, <2>5 DEF b
<1>8. Alive(c) /\ c \notin freed' /\ state'[c] = "REQUEST"
  BY <1>1, ProcessTop, Typing DEF Alive, rest, TypeOK
<1>9. ASSUME NEW x \in ToSet(stack')
      PROVE  \/ x \in ToSet(stack) /\ x.f \notin {"on_accept", "no_upgrade"}
             \/ x.f \notin Closer \cup WalkF /\ FrameLive(x)'
  <2>1. CASE x \in {fr, gr}
    <3>1. x.c = c /\ x.f \in Callback \cup {"process"}
      BY <1>5, <1>6, <2>1
    <3> QED BY <1>8, <3>1 DEF FrameLive, Callback, Closer, WalkF
  <2>2. CASE x \in ToSet(Tail(stack))
    <3>1. x \in ToSet(stack) /\ x.f \in {"process", "overflow"}
      BY <1>1, <2>2, ProcessTop
    <3> QED BY <3>1
  <2> QED BY <1>7, <2>1, <2>2
<1>10. StateMild(c) /\ PostsMild /\ NoWalk(stack)
  <2>1. "REQUEST" \in State \ {"NONE", "CLOSED", "RELEASED"}
    BY DEF State
  <2> QED BY <1>1, <1>8, <2>1, PostsSame, ProcessTop DEF StateMild
<1> QED BY <1>1, <1>7, <1>9, <1>10, MildStack DEF ends, rest

LEMMA CallbackTop ==
  ASSUME Inv, LifeInv, stack # <<>>, Top.f \in Callback
  PROVE  /\ Top.c \in Conn /\ state[Top.c] # "NONE" /\ NoWalk(stack)
         /\ Tail(stack) \in Seq(Frame) /\ CloserOnce(Tail(stack)) /\ ToSet(Tail(stack)) \subseteq ToSet(stack)
         /\ Tail(Tail(stack)) \in Seq(Frame) /\ CloserOnce(Tail(Tail(stack)))
         /\ ToSet(Tail(Tail(stack))) \subseteq ToSet(stack)
         /\ \A fr \in ToSet(Tail(stack)) \cup ToSet(Tail(Tail(stack))) : fr.f \in {"process", "overflow"}
<1> DEFINE s == Tail(stack)
<1>1. NoWalk(stack) /\ Top.c \in Conn /\ state[Top.c] # "NONE"
  BY TopNoWalk, TopLive DEF WalkF, Callback
<1>2. StackOK(s) /\ s # <<>> /\ s[1].f = "process"
  BY TopFrame, OkPop, Typing DEF Top
<1>3. s \in Seq(Frame) /\ CloserOnce(s) /\ ToSet(s) \subseteq ToSet(stack)
  BY TopLive
<1> HIDE DEF s
<1>4. \A fr \in ToSet(Tail(s)) : fr.f = "overflow"
  BY <1>2, BelowProcess
<1>5. Tail(s) \in Seq(Frame) /\ ToSet(s) = ToSet(Tail(s)) \cup {s[1]} /\ CloserOnce(Tail(s))
  BY <1>2, <1>3, Pop, CloserPop
<1> QED BY <1>1, <1>2, <1>3, <1>4, <1>5 DEF s

LEMMA AfterCallbackLife ==
  ASSUME Inv, Inv', LifeInv, stack # <<>>, Top.f \in Callback, NEW c, Top.c = c, NEW n,
         request_after_callback(c, n), UNCHANGED <<ends, rest, posts>>
  PROVE  LifeInv'
<1>1. c \in Conn /\ PostsMild
  BY CallbackTop, PostsSame
<1>2. stack' = Tail(stack) \/ stack' = Tail(Tail(stack))
  BY DEF request_after_callback, Return
<1>3. /\ NoWalk(stack) /\ CloserOnce(stack') /\ ToSet(stack') \subseteq ToSet(stack)
      /\ \A fr \in ToSet(stack') : fr.f \in {"process", "overflow"}
  BY <1>2, CallbackTop
<1>4. \/ UNCHANGED <<state, idle>>
      \/ /\ state[c] = "REQUEST" /\ idle' = idle \cup {c}
         /\ \E s \in {"RESPONDING", "AWAIT_RESP"} : state' = [state EXCEPT ![c] = s]
  BY DEF request_after_callback, conn_idle_reset
<1>5. StateMild(c) /\ \A d \in idle' : d \in idle \/ Alive(d)
  <2>1. {"RESPONDING", "AWAIT_RESP"} \subseteq State \ {"NONE", "CLOSED", "RELEASED"}
    BY DEF State
  <2>2. state[c] = "REQUEST" => Alive(c)
    BY DEF Alive
  <2> QED BY <1>4, <2>1, <2>2 DEF StateMild
<1> QED BY <1>1, <1>3, <1>5, ReturnLife DEF ends, rest

LEMMA CallbackReturnLife == ASSUME Inv, Inv', LifeInv, callback_return PROVE LifeInv'
BY AfterCallbackLife DEF callback_return, InLib, Callback

LEMMA NoUpgradeLife == ASSUME Inv, Inv', LifeInv, NEW c \in Conn, no_upgrade(c) PROVE LifeInv'
<1>1. stack # <<>> /\ Top.f = "no_upgrade" /\ Top.c = c /\ UNCHANGED <<rest, posts>>
  BY DEF no_upgrade, At, InLib
<1>2. CASE request_after_callback(c, Top.n) /\ UNCHANGED ends
  BY <1>1, <1>2, AfterCallbackLife DEF Callback
<1>3. ASSUME NEW rc, http_respond_internal(c, rc, Tail(Tail(stack))) PROVE LifeInv'
  <2> DEFINE below == Tail(Tail(stack))
  <2>1. Alive(c)
    BY <1>1, TopLive DEF FrameLive, Alive
  <2>2. /\ below \in Seq(Frame) /\ NoWalk(stack) /\ CloserOnce(below) /\ ToSet(below) \subseteq ToSet(stack)
        /\ \A fr \in ToSet(below) : fr.f \in {"process", "overflow"}
    BY <1>1, CallbackTop DEF Callback
  <2>3. http_respond_internal(c, rc, below)
    BY <1>3
  <2> HIDE DEF below
  <2> QED BY <1>1, <2>1, <2>2, <2>3, InternalLife
<1> QED BY <1>2, <1>3 DEF no_upgrade

LEMMA ProcessPostLife == ASSUME Inv, Inv', LifeInv, http_process_post PROVE LifeInv'
<1>1. /\ stack = <<>> /\ posts # <<>> /\ Head(posts).f = "http_process" /\ posts' = Tail(posts)
      /\ stack' = <<Process(Head(posts).c)>> \/ stack' = <<>>
      /\ UNCHANGED <<state, stream, idle, conns, freed, server, closes>>
  BY DEF http_process_post, CanRun, rest, history
<1>2. /\ CleanupLast(posts') /\ ToSet(posts') \subseteq ToSet(posts) /\ Head(posts) \in ToSet(posts)
  BY <1>1, CleanupTail, Typing DEF TypeOK, LifeInv, PostsInv
<1>3. PICK c \in Conn : Head(posts).c = c
  BY <1>1, <1>2, Elements
<1>4. state[c] # "NONE" /\ c \notin freed
  BY <1>2, <1>3, HttpAssumption DEF LifeInv, PostsInv, TaskLive
<1>5. CloserOnce(stack') /\ \A x \in ToSet(stack') : x.f \notin Closer \cup WalkF /\ FrameLive(x)'
  <2>1. CASE stack' = <<>>
    BY <2>1, FewFrames
  <2>2. CASE stack' = <<Process(c)>>
    <3>1. ToSet(<<Process(c)>>) = {Process(c)} /\ CloserOnce(<<Process(c)>>)
      BY <1>1, <1>4, ProcessLive
    <3>2. ASSUME NEW x \in ToSet(stack') PROVE x.f \notin Closer \cup WalkF /\ FrameLive(x)'
      <4>1. x.f = "process" /\ x.c = c
        BY <2>2, <3>1, ProcessFrame
      <4> QED BY <1>1, <1>4, <4>1 DEF FrameLive, Closer, WalkF
    <3> QED BY <2>2, <3>1, <3>2
  <2> QED BY <1>1, <1>3, <2>1, <2>2
<1>6. StateMild(c) /\ PostsMild /\ NoWalk(stack)
  BY <1>1, <1>2, FewFrames DEF StateMild, PostsMild
<1> QED BY <1>1, <1>5, <1>6, MildStack

\* The task that releases connection c is posted, once.
LEMMA FreePosted ==
  ASSUME Inv, LifeInv, Posted = {TRUE}, NEW c \in Conn, deferred_free(c),
         \A x \in ToSet(posts) : x.f = "conn_cleanup" => x.c # c
  PROVE  /\ UNCHANGED freed /\ CleanupLast(posts')
         /\ ToSet(posts') = ToSet(posts) \cup {[f |-> "conn_cleanup", c |-> c]}
<1> DEFINE tk == [f |-> "conn_cleanup", c |-> c]
<1>1. posts' = Append(posts, tk) /\ UNCHANGED freed
  BY DEF deferred_free, sevent_post
<1>2. tk \in Task /\ tk.c = c
  BY TaskMake
<1> HIDE DEF tk
<1>3. ASSUME NEW x \in ToSet(posts), x.f # "http_process" PROVE x.c # tk.c
  <2>1. x.f \in {"srv_cleanup", "conn_cleanup"} /\ (x.f = "srv_cleanup" => x.c = None)
    BY <1>3, Elements DEF Task
  <2> QED BY <1>2, <2>1, HttpAssumption
<1>4. CleanupLast(posts') /\ ToSet(posts') = ToSet(posts) \cup {tk}
  BY <1>1, <1>2, <1>3, CleanupAppend, Typing DEF TypeOK, LifeInv, PostsInv
<1> QED BY <1>1, <1>4 DEF tk

\* The hand-over: released without a call of on_conn_close.
LEMMA UpgradeLife ==
  ASSUME Inv, Inv', LifeInv, Posted = {TRUE}, NEW c \in Conn, sevent_ws_upgrade(c)
  PROVE  LifeInv'
<1>1. /\ stack # <<>> /\ Top.f = "on_upgrade" /\ state[c] = "REQUEST"
      /\ state' = [state EXCEPT ![c] = "RELEASED"] /\ idle' = idle \ {c} /\ conns' = RemoveFirst(conns, c)
      /\ stream' = stream \ {c} /\ deferred_free(c) /\ UNCHANGED <<server, stack, closes>>
  BY DEF sevent_ws_upgrade, At, InLib, http_state_set, conn_idle_stop, conn_unlink, history
<1>2. /\ state'[c] = "RELEASED" /\ \A d \in Conn \ {c} : state'[d] = state[d]
  BY <1>1, Typing DEF TypeOK
<1>3. Alive(c) /\ NoWalk(stack) /\ UserCode
  BY <1>1, TopNoWalk DEF Alive, WalkF, UserCode, UserCallback
<1>4. \A x \in ToSet(posts) : x.f = "conn_cleanup" => x.c # c
  BY <1>3 DEF LifeInv, PostsInv, TaskLive, conn_dead, Alive
<1>5. /\ UNCHANGED freed /\ CleanupLast(posts')
      /\ ToSet(posts') = ToSet(posts) \cup {[f |-> "conn_cleanup", c |-> c]}
  BY <1>1, <1>4, FreePosted
<1>6. /\ ToSet(conns') \subseteq ToSet(conns) /\ ToSet(conns) \subseteq ToSet(conns') \cup {c}
      /\ Distinct(conns') /\ c \notin ToSet(conns')
  BY <1>1, RemoveFirstElements, Typing DEF TypeOK, LifeInv, ServerInv
<1>7. c \in ToSet(conns) /\ closes[c] = 0 /\ c \notin freed
  BY <1>3 DEF LifeInv, ConnLive
<1>8. ASSUME NEW fr \in ToSet(stack) PROVE FrameLive(fr)' /\ (fr.f \in Closer => fr.c # c)
  <2>1. FrameLive(fr) /\ fr.c \in Conn /\ fr.f # "no_upgrade"
    BY <1>3, Elements, UserNoUpgrade DEF LifeInv, FramesInv, NoWalk, WalkF
  <2>2. CASE fr.c = c
    BY <1>1, <1>2, <1>5, <1>7, <2>1, <2>2 DEF FrameLive
  <2>3. CASE fr.c # c
    BY <1>2, <1>5, <2>1, <2>3 DEF FrameLive
  <2> QED BY <1>1, <2>1, <2>2, <2>3 DEF FrameLive
<1>9. FramesInv'
  BY <1>1, <1>8 DEF LifeInv, FramesInv
<1>10. ASSUME NEW tk \in ToSet(posts') PROVE TaskLive(tk)'
  <2>1. CASE tk = [f |-> "conn_cleanup", c |-> c]
    <3>1. tk.f = "conn_cleanup" /\ tk.c = c
      BY <2>1
    <3>2. \A fr \in Closers(stack') : fr.c # tk.c
      BY <1>1, <1>8, <3>1 DEF Closers
    <3> QED BY <1>2, <1>5, <1>7, <3>1, <3>2 DEF TaskLive, conn_dead
  <2>2. CASE tk \in ToSet(posts)
    <3>1. TaskLive(tk) /\ (tk.c # None => tk.c \in Conn) /\ (tk.f = "conn_cleanup" => tk.c \in Conn /\ tk.c # c)
      BY <1>4, <2>2, Elements DEF LifeInv, PostsInv
    <3> QED BY <1>1, <1>2, <1>5, <3>1 DEF TaskLive, conn_dead
  <2> QED BY <1>5, <2>1, <2>2
<1>11. ASSUME NEW d \in Conn PROVE ConnLive(d)'
  <2>1. ConnLive(d)
    BY DEF LifeInv
  <2>2. CASE d = c
    <3>1. /\ d \notin idle' /\ d \notin stream' /\ closes'[d] = 0 /\ state'[d] = "RELEASED" /\ d \notin ToSet(conns')
          /\ d \notin freed'
      BY <1>1, <1>2, <1>5, <1>6, <1>7, <2>2
    <3> QED BY <3>1 DEF ConnLive, Alive
  <2>3. CASE d # c
    <3>1. state'[d] = state[d] /\ (d \in idle' <=> d \in idle) /\ (d \in stream' <=> d \in stream)
          /\ (d \in ToSet(conns') <=> d \in ToSet(conns))
      BY <1>1, <1>2, <1>6, <2>3
    <3> QED BY <1>1, <1>5, <2>1, <3>1 DEF ConnLive, Alive
  <2> QED BY <2>2, <2>3
<1>12. ServerInv'
  <2>1. conns # <<>>
    BY <1>7 DEF ToSet
  <2> QED BY <1>1, <1>6, <2>1 DEF LifeInv, ServerInv
<1>13. WalkInv'
  BY <1>1, <1>3 DEF WalkInv, WalkAt, NoWalk, WalkF
<1> QED BY <1>5, <1>9, <1>10, <1>11, <1>12, <1>13 DEF LifeInv, PostsInv

LEMMA DestroyLife ==
  ASSUME Inv, Inv', LifeInv, Posted = {TRUE}, sevent_http_server_destroy
  PROVE  LifeInv'
<1> DEFINE tk == [f |-> "srv_cleanup", c |-> None]
<1>1. /\ server = "up" /\ server' = "destroyed" /\ posts' = Append(posts, tk) /\ UNCHANGED stack
      /\ UNCHANGED <<state, stream, idle, conns, freed, closes>>
  BY DEF sevent_http_server_destroy, sevent_post, history
<1>2. tk \in Task /\ tk.c = None /\ tk.f = "srv_cleanup"
  BY TaskMake
<1> HIDE DEF tk
<1>3. NoWalk(stack)
  BY <1>1 DEF LifeInv, WalkInv, WalkAt, NoWalk
<1>4. ASSUME NEW x \in ToSet(posts), x.f # "http_process" PROVE x.c # tk.c
  <2>1. x.f \in {"srv_cleanup", "conn_cleanup"} /\ (x.f = "conn_cleanup" => x.c \in Conn) /\ TaskLive(x)
    BY <1>4, Elements DEF Task, LifeInv, PostsInv
  <2> QED BY <1>1, <1>2, <2>1, HttpAssumption DEF TaskLive
<1>5. CleanupLast(posts') /\ ToSet(posts') = ToSet(posts) \cup {tk}
  BY <1>1, <1>2, <1>4, CleanupAppend, Typing DEF TypeOK, LifeInv, PostsInv
<1>6. FramesInv'
  BY <1>1 DEF LifeInv, FramesInv, FrameLive
<1>7. ASSUME NEW x \in ToSet(posts') PROVE TaskLive(x)'
  <2>1. CASE x = tk
    BY <1>1, <1>2, <1>3, <2>1 DEF TaskLive
  <2>2. CASE x \in ToSet(posts)
    <3>1. TaskLive(x)
      BY <2>2 DEF LifeInv, PostsInv
    <3> QED BY <1>1, <1>3, <3>1 DEF TaskLive, conn_dead
  <2> QED BY <1>5, <2>1, <2>2
<1>8. ASSUME NEW d \in Conn PROVE ConnLive(d)'
  <2>1. ConnLive(d)
    BY DEF LifeInv
  <2> QED BY <1>1, <2>1 DEF ConnLive, Alive
<1>9. ServerInv' /\ WalkInv'
  BY <1>1, <1>3 DEF LifeInv, ServerInv, WalkInv, WalkAt, NoWalk, WalkF
<1> QED BY <1>5, <1>6, <1>7, <1>8, <1>9 DEF LifeInv, PostsInv

LEMMA AcceptLife == ASSUME Inv, Inv', LifeInv, NEW c \in Conn, srv_on_accept(c) PROVE LifeInv'
<1>1. /\ stack = <<>> /\ server # "freed" /\ state[c] = "NONE" /\ state' = [state EXCEPT ![c] = "NEW"]
      /\ stream' = stream \cup {c} /\ conns' = <<c>> \o conns
      /\ UNCHANGED <<idle, freed, server, posts, stack, closes>>
  BY DEF srv_on_accept, http_state_set, rest, history
<1>2. state'[c] = "NEW" /\ \A d \in Conn \ {c} : state'[d] = state[d]
  BY <1>1, Typing DEF TypeOK
<1>3. c \notin ToSet(conns) /\ c \notin freed /\ c \notin idle /\ closes[c] = 0
  BY <1>1 DEF LifeInv, ConnLive
<1>4. conns \in Seq(Conn)
  BY Typing DEF TypeOK
<1>5. ToSet(conns') = ToSet(conns) \cup {c} /\ Distinct(conns')
  <2> DEFINE n == Len(conns)
             t == <<c>> \o conns
  <2>1. /\ n \in Nat /\ t \in Seq(Conn) /\ Len(t) = n + 1 /\ t[1] = c /\ \A i \in 1 .. n : t[i + 1] = conns[i]
        /\ ToSet(t) = ToSet(conns) \cup {c} /\ DOMAIN conns = 1 .. n /\ DOMAIN t = 1 .. n + 1
    <3>1. t \in Seq(Conn) /\ Len(t) = n + 1
      BY <1>4, Push
    <3>2. DOMAIN t = 1 .. Len(t)
      BY <3>1, LenProperties
    <3> QED BY <1>4, <3>1, <3>2, Push, LenProperties
  <2>2. ASSUME NEW i \in 1 .. n PROVE conns[i] # c
    BY <1>3, <2>1 DEF ToSet
  <2>3. ASSUME NEW i \in 1 .. n, NEW j \in 1 .. n, conns[i] = conns[j] PROVE i = j
    BY <2>1, <2>3 DEF LifeInv, ServerInv, Distinct
  <2> HIDE DEF n, t
  <2>4. ASSUME NEW i \in 1 .. n + 1, NEW j \in 1 .. n + 1, t[i] = t[j] PROVE i = j
    <3> DEFINE k == i - 1
               m == j - 1
    <3>1. /\ i = 1 \/ (k \in 1 .. n /\ i = k + 1 /\ t[i] = conns[k])
          /\ j = 1 \/ (m \in 1 .. n /\ j = m + 1 /\ t[j] = conns[m])
      BY <2>1
    <3> HIDE DEF k, m
    <3> QED BY <2>1, <2>2, <2>3, <2>4, <3>1
  <2>5. Distinct(t)
    BY <2>1, <2>4 DEF Distinct
  <2> QED BY <1>1, <2>1, <2>5 DEF t
<1>6. ToSet(stack) = {} /\ NoWalk(stack) /\ Closers(stack) = {}
  BY <1>1, FewFrames DEF Closers
<1>7. FramesInv' /\ WalkInv'
  BY <1>1, <1>6, FewFrames DEF FramesInv, WalkInv
<1>8. ASSUME NEW tk \in ToSet(posts') PROVE TaskLive(tk)'
  <2>1. TaskLive(tk) /\ (tk.c # None => tk.c \in Conn) /\ (tk.f = "conn_cleanup" => tk.c \in Conn)
    BY <1>1, Elements DEF LifeInv, PostsInv
  <2>2. tk.f = "conn_cleanup" => tk.c # c
    BY <1>1, <2>1 DEF TaskLive, conn_dead
  <2> QED BY <1>1, <1>2, <2>1, <2>2 DEF TaskLive, conn_dead
<1>9. ASSUME NEW d \in Conn PROVE ConnLive(d)'
  <2>1. ConnLive(d)
    BY DEF LifeInv
  <2>2. CASE d = c
    BY <1>1, <1>2, <1>3, <1>5, <2>2 DEF ConnLive, Alive
  <2>3. CASE d # c
    <3>1. state'[d] = state[d] /\ (d \in stream' <=> d \in stream) /\ (d \in ToSet(conns') <=> d \in ToSet(conns))
      BY <1>1, <1>2, <1>5, <2>3
    <3> QED BY <1>1, <2>1, <3>1 DEF ConnLive, Alive
  <2> QED BY <2>2, <2>3
<1>10. ServerInv'
  BY <1>1, <1>5 DEF ServerInv
<1> QED BY <1>1, <1>7, <1>8, <1>9, <1>10 DEF LifeInv, PostsInv

LEMMA CloseReturnLife ==
  ASSUME Inv, Inv', LifeInv, Posted = {TRUE}, on_conn_close_return
  PROVE  LifeInv'
<1>1. /\ stack # <<>> /\ Top.f = "on_conn_close" /\ stack' = Tail(stack) /\ deferred_free(Top.c)
      /\ UNCHANGED <<state, stream, idle, conns, server, closes>>
  BY DEF on_conn_close_return, InLib, Return, history
<1>2. PICK c \in Conn : Top.c = c
  BY <1>1, TopLive
<1>3. /\ Top \in ToSet(stack) /\ state[c] = "CLOSED" /\ c \notin freed /\ NoWalk(stack) /\ Top \in Closers(stack)
      /\ ToSet(stack') \subseteq ToSet(stack) /\ CloserOnce(stack')
  BY <1>1, <1>2, TopLive, TopNoWalk DEF FrameLive, Closer, Closers, WalkF
<1>4. /\ Closers(stack') \subseteq Closers(stack) /\ \A fr \in Closers(stack') : fr.c # c
  <2>1. stack \in Seq(Frame) /\ CloserOnce(stack) /\ Head(stack).f \in Closer /\ Head(stack).c = c
    BY <1>1, <1>2, Typing DEF StackOK, LifeInv, FramesInv, Top, Closer
  <2> QED BY <1>1, <2>1, CloserPop
<1>5. \A x \in ToSet(posts) : x.f = "conn_cleanup" => x.c # c
  BY <1>2, <1>3 DEF LifeInv, PostsInv, TaskLive
<1>6. /\ UNCHANGED freed /\ CleanupLast(posts')
      /\ ToSet(posts') = ToSet(posts) \cup {[f |-> "conn_cleanup", c |-> c]}
  BY <1>1, <1>2, <1>5, FreePosted
<1>7. NoWalk(stack')
  BY <1>3 DEF NoWalk
<1>8. FramesInv' /\ WalkInv'
  <2>1. ASSUME NEW fr \in ToSet(stack') PROVE FrameLive(fr)'
    <3>1. FrameLive(fr)
      BY <1>3 DEF LifeInv, FramesInv
    <3> QED BY <1>1, <1>6, <3>1 DEF FrameLive
  <2> QED BY <1>3, <1>7, <2>1 DEF FramesInv, WalkInv, WalkAt, NoWalk, WalkF
<1>9. ASSUME NEW tk \in ToSet(posts') PROVE TaskLive(tk)'
  <2>1. CASE tk = [f |-> "conn_cleanup", c |-> c]
    <3>1. tk.f = "conn_cleanup" /\ tk.c = c
      BY <2>1
    <3> QED BY <1>1, <1>3, <1>4, <1>6, <3>1 DEF TaskLive, conn_dead
  <2>2. CASE tk \in ToSet(posts)
    <3>1. TaskLive(tk)
      BY <2>2 DEF LifeInv, PostsInv
    <3> QED BY <1>1, <1>4, <1>6, <1>7, <3>1 DEF TaskLive, conn_dead
  <2> QED BY <1>6, <2>1, <2>2
<1>10. ASSUME NEW d \in Conn PROVE ConnLive(d)'
  <2>1. ConnLive(d)
    BY DEF LifeInv
  <2>2. (d \in stream => Alive(d)) /\ (d \in ToSet(conns) => Alive(d))
    BY <1>3, <2>1 DEF ConnLive, NoWalk, WalkF
  <2> QED BY <1>1, <1>6, <2>1, <2>2 DEF ConnLive, Alive
<1>11. ServerInv'
  BY <1>1 DEF LifeInv, ServerInv
<1> QED BY <1>6, <1>8, <1>9, <1>10, <1>11 DEF LifeInv, PostsInv

\* The release itself: nothing that is left names the connection.
LEMMA ConnCleanupLife == ASSUME Inv, Inv', LifeInv, conn_cleanup PROVE LifeInv'
<1>1. /\ stack = <<>> /\ posts # <<>> /\ Head(posts).f = "conn_cleanup" /\ posts' = Tail(posts)
      /\ freed' = freed \cup {Head(posts).c}
      /\ UNCHANGED <<state, stream, idle, conns, server, stack, closes>>
  BY DEF conn_cleanup, CanRun, history
<1>2. /\ CleanupLast(posts') /\ ToSet(posts') \subseteq ToSet(posts) /\ Head(posts) \in ToSet(posts)
      /\ \A x \in ToSet(posts') : x.c # Head(posts).c
  BY <1>1, CleanupTail, Typing DEF TypeOK, LifeInv, PostsInv
<1>3. PICK c \in Conn : Head(posts).c = c
  BY <1>1, <1>2, Elements
<1>4. conn_dead(c) /\ freed' = freed \cup {c}
  BY <1>1, <1>2, <1>3 DEF LifeInv, PostsInv, TaskLive
<1>5. ToSet(stack) = {} /\ NoWalk(stack)
  BY <1>1, FewFrames
<1>6. FramesInv' /\ WalkInv'
  BY <1>1, <1>5, FewFrames DEF FramesInv, WalkInv
<1>7. ASSUME NEW tk \in ToSet(posts') PROVE TaskLive(tk)'
  <2>1. TaskLive(tk) /\ tk.c # c
    BY <1>2, <1>3 DEF LifeInv, PostsInv
  <2> QED BY <1>1, <1>4, <2>1 DEF TaskLive, conn_dead
<1>8. ASSUME NEW d \in Conn PROVE ConnLive(d)'
  <2>1. ConnLive(d)
    BY DEF LifeInv
  <2>2. CASE d = c
    <3>1. ~Alive(d) /\ state[d] # "NONE" /\ d \notin ToSet(conns)
      BY <1>4, <1>5, <2>1, <2>2 DEF ConnLive, conn_dead, Alive
    <3> QED BY <1>1, <2>1, <3>1 DEF ConnLive, Alive
  <2>3. CASE d # c
    BY <1>1, <1>4, <2>1, <2>3 DEF ConnLive, Alive
  <2> QED BY <2>2, <2>3
<1>9. ServerInv'
  BY <1>1 DEF LifeInv, ServerInv
<1> QED BY <1>2, <1>6, <1>7, <1>8, <1>9 DEF LifeInv, PostsInv

-------------------------------------------------------------------------------
(* The walk. *)

LEMMA SrvCleanupLife == ASSUME Inv, Inv', LifeInv, srv_cleanup PROVE LifeInv'
<1>1. /\ stack = <<>> /\ posts # <<>> /\ Head(posts).f = "srv_cleanup" /\ posts' = Tail(posts) /\ stack' = <<Walk>>
      /\ UNCHANGED <<state, stream, idle, conns, freed, server, closes>>
  BY DEF srv_cleanup, CanRun, rest, history
<1>2. /\ CleanupLast(posts') /\ ToSet(posts') \subseteq ToSet(posts) /\ Head(posts) \in ToSet(posts)
      /\ \A x \in ToSet(posts') : x.c # Head(posts).c
  BY <1>1, CleanupTail, Typing DEF TypeOK, LifeInv, PostsInv
<1>3. Head(posts).c = None /\ server = "destroyed"
  BY <1>1, <1>2, Elements DEF LifeInv, PostsInv, TaskLive
<1>4. ToSet(stack) = {} /\ NoWalk(stack)
  BY <1>1, FewFrames
<1>5. conns \in Seq(Conn) /\ Len(conns) \in Nat
  BY LenProperties, Typing DEF TypeOK
<1>6. \A i \in 1 .. Len(conns) : Alive(conns[i])
  BY <1>4, Elements DEF LifeInv, ConnLive
<1>7. Walked(0)
  BY <1>5, <1>6 DEF Walked
<1>8. Walk.f = "walk" /\ Walk.c = After(0) /\ Walk \in Frame
  <2>1. conns = <<>> <=> Len(conns) = 0
    BY <1>5, EmptySeq
  <2>2. conns # <<>> => Head(conns) = conns[1]
    BY <1>5, Pop
  <2>3. (0 < Len(conns) <=> Len(conns) # 0) /\ 0 + 1 = 1
    BY <1>5
  <2>4. Walk.c = After(0)
    BY <2>1, <2>2, <2>3 DEF Walk, After
  <2> QED BY <1>5, <2>4, WalkFrame
<1>9. PICK w : w = Walk
  OBVIOUS
<1>10. w.f = "walk" /\ w.c = After(0) /\ w \in Frame /\ stack' = <<w>> /\ ToSet(stack') = {w} /\ CloserOnce(stack')
  <2>1. w.f = "walk" /\ w.c = After(0) /\ w \in Frame /\ stack' = <<w>>
    BY <1>1, <1>8, <1>9
  <2> QED BY <2>1, FewFrames
<1>11. Walked(0)' /\ After(0)' = After(0)
  BY <1>1, <1>7 DEF Walked, After, Alive
<1>12. FrameLive(w)'
  <2>1. ASSUME w.c # None PROVE state[w.c] # "NONE" /\ w.c \notin freed
    <3>1. 1 \in 1 .. Len(conns) /\ w.c = conns[1]
      BY <1>5, <1>10, <2>1 DEF After
    <3>2. Alive(conns[1]) /\ conns[1] \in Conn
      BY <1>6, <3>1, Elements
    <3> QED BY <3>1, <3>2 DEF LifeInv, ConnLive, Alive
  <2> QED BY <1>1, <1>10, <2>1 DEF FrameLive, Closer
<1>13. FramesInv' /\ WalkInv'
  <2>1. ASSUME NEW x \in ToSet(stack') PROVE FrameLive(x)' /\ WalkAt(x)'
    <3>1. x = w
      BY <1>10
    <3>2. FrameLive(x)'
      BY <1>12, <3>1
    <3>3. 0 \in 0 .. Len(conns')
      BY <1>1, <1>5
    <3>4. stack' = <<x>> /\ server' = "destroyed" /\ x.f = "walk" /\ x.c = After(0)'
      BY <1>1, <1>3, <1>10, <1>11, <3>1
    <3>5. WalkAt(x)'
      BY <1>11, <3>3, <3>4 DEF WalkAt
    <3> QED BY <3>2, <3>5
  <2> QED BY <1>10, <2>1 DEF FramesInv, WalkInv
<1>14. ASSUME NEW tk \in ToSet(posts') PROVE TaskLive(tk)'
  <2>1. TaskLive(tk) /\ tk.f # "srv_cleanup"
    BY <1>2, <1>3, Elements DEF LifeInv, PostsInv
  <2>2. Closers(stack') = {}
    BY <1>10 DEF Closers, Closer
  <2> QED BY <1>1, <2>1, <2>2 DEF TaskLive, conn_dead
<1>15. ASSUME NEW d \in Conn PROVE ConnLive(d)'
  <2>1. ConnLive(d)
    BY DEF LifeInv
  <2>2. (d \in stream => Alive(d)) /\ (d \in ToSet(conns) => Alive(d))
    BY <1>4, <2>1 DEF ConnLive
  <2> QED BY <1>1, <2>1, <2>2 DEF ConnLive, Alive
<1>16. ServerInv'
  BY <1>1 DEF LifeInv, ServerInv
<1> QED BY <1>2, <1>13, <1>14, <1>15, <1>16 DEF LifeInv, PostsInv

\* The frame of a walk is the only one, and no other walk is posted.
LEMMA WalkAlone ==
  ASSUME Inv, LifeInv, stack # <<>>, Top.f \in WalkF
  PROVE  /\ stack = <<Top>> /\ Tail(stack) = <<>> /\ ToSet(stack) = {Top} /\ server = "destroyed" /\ WalkAt(Top)
         /\ FrameLive(Top) /\ \A tk \in ToSet(posts) : tk.f # "srv_cleanup"
<1>1. Top \in ToSet(stack) /\ FrameLive(Top) /\ Top \in Frame
  BY TopLive
<1>2. WalkAt(Top)
  BY <1>1 DEF LifeInv, WalkInv
<1>3. stack = <<Top>> /\ server = "destroyed"
  BY <1>2 DEF WalkAt
<1>4. ToSet(stack) = {Top}
  BY <1>1, <1>3, FewFrames
<1>5. Tail(stack) = <<>>
  BY <1>3
<1>6. ~NoWalk(stack)
  BY <1>1 DEF NoWalk
<1> QED BY <1>1, <1>2, <1>3, <1>4, <1>5, <1>6 DEF LifeInv, PostsInv, TaskLive

\* The connection after number p of the list, as the code finds it.
LEMMA SuccessorAfter ==
  ASSUME conns \in Seq(Conn), Distinct(conns), NEW p \in 1 .. Len(conns)
  PROVE  Successor(conns[p]) = After(p)
<1> DEFINE n == Len(conns)
           S == {j \in 1 .. n - 1 : conns[j] = conns[p]}
<1>1. Successor(conns[p]) = IF S = {} THEN None ELSE conns[Min(S) + 1]
  BY DEF Successor
<1>2. n \in Nat /\ DOMAIN conns = 1 .. n
  BY LenProperties
<1>3. ASSUME NEW j \in 1 .. n - 1 PROVE conns[j] = conns[p] <=> j = p
  <2>1. j \in DOMAIN conns /\ p \in DOMAIN conns
    BY <1>2
  <2> QED BY <2>1 DEF Distinct
<1>4. S = IF p < n THEN {p} ELSE {}
  BY <1>2, <1>3
<1> HIDE DEF S, n
<1>5. CASE p < n
  <2>1. Min({p}) \in {p}
    <3>1. {p} \subseteq Nat /\ {p} # {}
      BY <1>2 DEF n
    <3> QED BY <3>1, MinOfNats
  <2>2. Min(S) = p /\ S # {}
    BY <1>4, <1>5, <2>1
  <2> QED BY <1>1, <1>5, <2>2 DEF After, n
<1>6. CASE ~(p < n)
  BY <1>1, <1>4, <1>6 DEF After, n
<1> QED BY <1>5, <1>6

LEMMA WalkStepLife == ASSUME Inv, Inv', LifeInv, walk_step PROVE LifeInv'
<1>1. /\ stack # <<>> /\ Top.f = "walk" /\ Top.c # None
      /\ state' = [state EXCEPT ![Top.c] = "CLOSED"] /\ idle' = idle \ {Top.c}
      /\ closes' = [closes EXCEPT ![Top.c] = @ + 1]
      /\ stack' = <<[f |-> "walk_close", c |-> Top.c, next |-> Successor(Top.c)]>> \o Tail(stack)
      /\ UNCHANGED <<stream, conns, freed, server, posts>>
  BY DEF walk_step, walk_conn, InLib, http_state_set, conn_idle_stop, rest
<1>2. /\ Tail(stack) = <<>> /\ ToSet(stack) = {Top} /\ server = "destroyed" /\ WalkAt(Top)
      /\ \A tk \in ToSet(posts) : tk.f # "srv_cleanup"
  BY <1>1, WalkAlone DEF WalkF
<1>3. conns \in Seq(Conn) /\ Len(conns) \in Nat /\ Distinct(conns) /\ DOMAIN conns = 1 .. Len(conns)
  BY LenProperties, Typing DEF TypeOK, LifeInv, ServerInv
<1>4. PICK p \in 0 .. Len(conns) : Walked(p) /\ Top.c = After(p)
  BY <1>1, <1>2 DEF WalkAt
<1>5. PICK q : q = p + 1
  OBVIOUS
<1>6. p < Len(conns) /\ q \in 1 .. Len(conns) /\ Top.c = conns[q]
  BY <1>1, <1>3, <1>4, <1>5 DEF After
<1>7. PICK c \in Conn : c = conns[q]
  BY <1>6, Elements
<1>8. Alive(c) /\ c \in ToSet(conns) /\ Top.c = c
  <2>1. q > p
    BY <1>4, <1>5
  <2> QED BY <1>4, <1>6, <1>7, <2>1, Elements DEF Walked
<1>9. PICK w : w = [f |-> "walk_close", c |-> c, next |-> After(q)]
  OBVIOUS
<1>10. w.f = "walk_close" /\ w.c = c /\ w.next = After(q) /\ stack' = <<w>> /\ ToSet(stack') = {w} /\ CloserOnce(stack')
  <2>1. Successor(Top.c) = After(q)
    BY <1>3, <1>6, SuccessorAfter
  <2>2. stack' = <<w>> \o <<>>
    BY <1>1, <1>2, <1>8, <1>9, <2>1
  <2>3. w.f = "walk_close" /\ w.c = c /\ w.next = After(q)
    BY <1>9
  <2>4. w \in Frame
    <3>1. After(q) \in Conn \cup {None}
      <4>1. q < Len(conns) => q + 1 \in 1 .. Len(conns)
        BY <1>3, <1>6
      <4> QED BY <4>1, Elements DEF After
    <3> QED BY <1>9, <3>1, FrameMake
  <2>5. <<w>> \o <<>> = <<w>>
    BY <2>3, <2>4, OneFrame DEF Callback
  <2> QED BY <2>2, <2>3, <2>4, <2>5, FewFrames
<1>11. /\ state'[c] = "CLOSED" /\ \A d \in Conn \ {c} : state'[d] = state[d]
       /\ closes'[c] = closes[c] + 1 /\ \A d \in Conn \ {c} : closes'[d] = closes[d]
  BY <1>1, <1>8, Typing DEF TypeOK
<1>12. closes[c] = 0 /\ c \notin freed
  BY <1>8 DEF LifeInv, ConnLive
<1>13. Walked(q)' /\ After(q)' = After(q)
  <2>1. ASSUME NEW i \in 1 .. Len(conns) PROVE conns[i] \in Conn /\ (conns[i] = c <=> i = q)
    BY <1>3, <1>6, <1>7, Elements DEF Distinct
  <2>2. ASSUME NEW i \in 1 .. Len(conns), i <= q PROVE state'[conns[i]] = "CLOSED"
    <3>1. CASE i = q
      BY <1>7, <1>11, <3>1
    <3>2. CASE i # q
      <4>1. i <= p
        BY <1>3, <1>4, <1>5, <2>2, <3>2
      <4> QED BY <1>4, <1>11, <2>1, <3>2, <4>1 DEF Walked
    <3> QED BY <3>1, <3>2
  <2>3. ASSUME NEW i \in 1 .. Len(conns), i > q PROVE Alive(conns[i])'
    <3>1. i > p /\ i # q
      BY <1>3, <1>4, <1>5, <2>3
    <3>2. Alive(conns[i]) /\ state'[conns[i]] = state[conns[i]] /\ conns' = conns
      BY <1>1, <1>4, <1>11, <2>1, <3>1 DEF Walked
    <3> QED BY <3>2 DEF Alive
  <2>4. Walked(q)'
    BY <1>1, <2>2, <2>3 DEF Walked
  <2> QED BY <1>1, <2>4 DEF After
<1>14. FramesInv' /\ WalkInv'
  <2>1. ASSUME NEW x \in ToSet(stack') PROVE FrameLive(x)' /\ WalkAt(x)'
    <3>1. x = w
      BY <1>10
    <3>2. x.f = "walk_close" /\ x.c = c /\ x.next = After(q)' /\ stack' = <<x>> /\ server' = "destroyed"
      BY <1>1, <1>2, <1>10, <1>13, <3>1
    <3>3. FrameLive(x)'
      BY <1>1, <1>11, <1>12, <3>2 DEF FrameLive
    <3>4. q \in 1 .. Len(conns') /\ conns'[q] = c
      BY <1>1, <1>6, <1>7
    <3>5. WalkAt(x)'
      BY <1>13, <3>2, <3>4 DEF WalkAt
    <3> QED BY <3>3, <3>5
  <2> QED BY <1>10, <2>1 DEF FramesInv, WalkInv
<1>15. ASSUME NEW tk \in ToSet(posts') PROVE TaskLive(tk)'
  <2>1. /\ TaskLive(tk) /\ (tk.c # None => tk.c \in Conn) /\ (tk.f = "conn_cleanup" => tk.c \in Conn)
        /\ tk.f # "srv_cleanup"
    BY <1>1, <1>2, Elements DEF LifeInv, PostsInv
  <2>2. tk.f = "conn_cleanup" => tk.c # c
    BY <1>8, <2>1 DEF TaskLive, conn_dead, Alive
  <2>3. \A x \in Closers(stack') : x.c = c
    BY <1>10 DEF Closers
  <2> QED BY <1>1, <1>11, <2>1, <2>2, <2>3 DEF TaskLive, conn_dead
<1>16. ASSUME NEW d \in Conn PROVE ConnLive(d)'
  <2>1. ConnLive(d)
    BY DEF LifeInv
  <2>2. ~NoWalk(stack')
    BY <1>10 DEF NoWalk, WalkF
  <2>3. CASE d = c
    <3>1. state'[d] = "CLOSED" /\ closes'[d] = 1 /\ d \notin idle' /\ d \notin freed'
      BY <1>1, <1>8, <1>11, <1>12, <2>3
    <3>2. \E x \in ToSet(stack') : x.f = "walk_close" /\ x.c = d
      BY <1>10, <2>3
    <3> QED BY <2>2, <3>1, <3>2 DEF ConnLive, Alive
  <2>4. CASE d # c
    <3>1. state'[d] = state[d] /\ closes'[d] = closes[d] /\ (d \in idle' <=> d \in idle)
      BY <1>1, <1>8, <1>11, <2>4
    <3>2. d \in stream => Alive(d)
      BY <1>1, <1>2, <2>1 DEF ConnLive
    <3> QED BY <1>1, <2>1, <2>2, <3>1, <3>2 DEF ConnLive, Alive
  <2> QED BY <2>3, <2>4
<1>17. ServerInv'
  BY <1>1 DEF LifeInv, ServerInv
<1> QED BY <1>1, <1>14, <1>15, <1>16, <1>17 DEF LifeInv, PostsInv

LEMMA WalkCloseReturnLife ==
  ASSUME Inv, Inv', LifeInv, Posted = {TRUE}, walk_close_return
  PROVE  LifeInv'
<1>1. /\ stack # <<>> /\ Top.f = "walk_close" /\ stream' = stream \ {Top.c} /\ deferred_free(Top.c)
      /\ stack' = <<[f |-> "walk", c |-> Top.next]>> \o Tail(stack)
      /\ UNCHANGED <<state, idle, conns, server, closes>>
  BY DEF walk_close_return, InLib, history
<1>2. /\ Tail(stack) = <<>> /\ ToSet(stack) = {Top} /\ server = "destroyed" /\ WalkAt(Top) /\ FrameLive(Top)
      /\ \A tk \in ToSet(posts) : tk.f # "srv_cleanup"
  BY <1>1, WalkAlone DEF WalkF
<1>3. conns \in Seq(Conn) /\ Len(conns) \in Nat
  BY LenProperties, Typing DEF TypeOK
<1>4. PICK p \in 1 .. Len(conns) : Walked(p) /\ conns[p] = Top.c /\ Top.next = After(p)
  BY <1>1, <1>2 DEF WalkAt
<1>5. PICK c \in Conn : Top.c = c
  BY <1>4, Elements
<1>6. state[c] = "CLOSED" /\ c \notin freed /\ Top \in Closers(stack)
  BY <1>1, <1>2, <1>5, HttpAssumption DEF FrameLive, Closers, Closer
<1>7. \A x \in ToSet(posts) : x.f = "conn_cleanup" => x.c # c
  BY <1>5, <1>6 DEF LifeInv, PostsInv, TaskLive
<1>8. /\ UNCHANGED freed /\ CleanupLast(posts')
      /\ ToSet(posts') = ToSet(posts) \cup {[f |-> "conn_cleanup", c |-> c]}
  BY <1>1, <1>5, <1>7, FreePosted
<1>9. PICK w : w = [f |-> "walk", c |-> After(p)]
  OBVIOUS
<1>10. w.f = "walk" /\ w.c = After(p) /\ stack' = <<w>> /\ ToSet(stack') = {w} /\ CloserOnce(stack')
  <2>1. stack' = <<w>> \o <<>>
    BY <1>1, <1>2, <1>4, <1>9
  <2>2. w.f = "walk" /\ w.c = After(p)
    BY <1>9
  <2>3. w \in Frame
    <3>1. After(p) \in Conn \cup {None}
      <4>1. p < Len(conns) => p + 1 \in 1 .. Len(conns)
        BY <1>3, <1>4
      <4> QED BY <4>1, Elements DEF After
    <3> QED BY <1>9, <3>1, FrameMake
  <2>4. <<w>> \o <<>> = <<w>>
    BY <2>2, <2>3, OneFrame DEF Callback
  <2> QED BY <2>1, <2>2, <2>3, <2>4, FewFrames
<1>11. Walked(p)' /\ After(p)' = After(p)
  BY <1>1, <1>4 DEF Walked, After, Alive
<1>12. FramesInv' /\ WalkInv'
  <2>1. ASSUME NEW x \in ToSet(stack') PROVE FrameLive(x)' /\ WalkAt(x)'
    <3>1. x.f = "walk" /\ x.c = After(p) /\ stack' = <<x>> /\ server' = "destroyed"
      BY <1>1, <1>2, <1>10
    <3>2. ASSUME x.c # None PROVE state[x.c] # "NONE" /\ x.c \notin freed
      <4>1. p < Len(conns) /\ x.c = conns[p + 1] /\ p + 1 \in 1 .. Len(conns) /\ p + 1 > p
        BY <1>3, <1>4, <3>1, <3>2 DEF After
      <4>2. Alive(x.c) /\ x.c \in Conn
        BY <1>4, <4>1, Elements DEF Walked
      <4> QED BY <4>2 DEF LifeInv, ConnLive, Alive
    <3>3. FrameLive(x)'
      BY <1>1, <1>8, <3>1, <3>2 DEF FrameLive, Closer
    <3>4. p \in 0 .. Len(conns')
      BY <1>1, <1>3, <1>4
    <3>5. WalkAt(x)'
      BY <1>11, <3>1, <3>4 DEF WalkAt
    <3> QED BY <3>3, <3>5
  <2> QED BY <1>10, <2>1 DEF FramesInv, WalkInv
<1>13. ASSUME NEW tk \in ToSet(posts') PROVE TaskLive(tk)'
  <2>1. Closers(stack') = {}
    BY <1>10 DEF Closers, Closer
  <2>2. CASE tk = [f |-> "conn_cleanup", c |-> c]
    <3>1. tk.f = "conn_cleanup" /\ tk.c = c
      BY <2>2
    <3> QED BY <1>1, <1>6, <1>8, <2>1, <3>1 DEF TaskLive, conn_dead
  <2>3. CASE tk \in ToSet(posts)
    <3>1. TaskLive(tk) /\ tk.f # "srv_cleanup"
      BY <1>2, <2>3 DEF LifeInv, PostsInv
    <3> QED BY <1>1, <1>8, <2>1, <3>1 DEF TaskLive, conn_dead
  <2> QED BY <1>8, <2>2, <2>3
<1>14. ASSUME NEW d \in Conn PROVE ConnLive(d)'
  <2>1. ConnLive(d)
    BY DEF LifeInv
  <2>2. ~NoWalk(stack')
    BY <1>10 DEF NoWalk, WalkF
  <2>3. d \in stream' => Alive(d) /\ d \in stream
    BY <1>1, <1>2, <2>1 DEF ConnLive
  <2> QED BY <1>1, <1>8, <2>1, <2>2, <2>3 DEF ConnLive, Alive
<1>15. ServerInv'
  BY <1>1 DEF LifeInv, ServerInv
<1> QED BY <1>8, <1>12, <1>13, <1>14, <1>15 DEF LifeInv, PostsInv

LEMMA WalkEndLife == ASSUME Inv, Inv', LifeInv, walk_end PROVE LifeInv'
<1>1. /\ stack # <<>> /\ Top.f = "walk" /\ Top.c = None /\ conns' = <<>> /\ server' = "freed" /\ stack' = Tail(stack)
      /\ UNCHANGED <<state, stream, idle, freed, posts, closes>>
  BY DEF walk_end, InLib, Return, history
<1>2. /\ Tail(stack) = <<>> /\ ToSet(stack) = {Top} /\ WalkAt(Top)
      /\ \A tk \in ToSet(posts) : tk.f # "srv_cleanup"
  BY <1>1, WalkAlone DEF WalkF
<1>3. conns \in Seq(Conn) /\ Len(conns) \in Nat
  BY LenProperties, Typing DEF TypeOK
<1>4. PICK p \in 0 .. Len(conns) : Walked(p) /\ Top.c = After(p)
  BY <1>1, <1>2 DEF WalkAt
<1>5. p = Len(conns)
  <2>1. ASSUME p < Len(conns) PROVE FALSE
    <3>1. p + 1 \in 1 .. Len(conns) /\ conns[p + 1] = None
      BY <1>1, <1>3, <1>4, <2>1 DEF After
    <3> QED BY <3>1, Elements, HttpAssumption
  <2> QED BY <1>3, <1>4, <2>1
<1>6. ASSUME NEW d \in Conn PROVE ~Alive(d) /\ d \notin stream
  <2>1. ConnLive(d)
    BY DEF LifeInv
  <2>2. ~Alive(d)
    <3>1. ASSUME Alive(d) PROVE FALSE
      <4>1. PICK i \in 1 .. Len(conns) : conns[i] = d
        BY <2>1, <3>1, Elements DEF ConnLive
      <4>2. i <= p
        BY <1>3, <1>5, <4>1
      <4>3. state[d] = "CLOSED"
        BY <1>4, <4>1, <4>2 DEF Walked
      <4> QED BY <3>1, <4>3 DEF Alive
    <3> QED BY <3>1
  <2> QED BY <1>1, <1>2, <2>1, <2>2 DEF ConnLive
<1>7. ToSet(stack') = {} /\ NoWalk(stack') /\ CloserOnce(stack') /\ ToSet(conns') = {} /\ Closers(stack') = {}
  BY <1>1, <1>2, FewFrames DEF Closers
<1>8. FramesInv' /\ WalkInv'
  BY <1>7 DEF FramesInv, WalkInv
<1>9. ASSUME NEW tk \in ToSet(posts') PROVE TaskLive(tk)'
  <2>1. TaskLive(tk) /\ tk.f # "srv_cleanup"
    BY <1>1, <1>2 DEF LifeInv, PostsInv
  <2> QED BY <1>1, <1>7, <2>1 DEF TaskLive, conn_dead
<1>10. ASSUME NEW d \in Conn PROVE ConnLive(d)'
  <2>1. ConnLive(d) /\ ~Alive(d) /\ d \notin stream
    BY <1>6 DEF LifeInv
  <2> QED BY <1>1, <1>7, <2>1 DEF ConnLive, Alive
<1>11. ServerInv'
  <2>1. Distinct(<<>>)
    BY DEF Distinct
  <2> QED BY <1>1, <2>1 DEF ServerInv
<1> QED BY <1>1, <1>8, <1>9, <1>10, <1>11 DEF LifeInv, PostsInv

-------------------------------------------------------------------------------
LEMMA LifeNext ==
  ASSUME Inv, Inv', LifeInv, [Next]_vars, Posted = {TRUE}, WalkWrites = FALSE
  PROVE  LifeInv'
<1>1. CASE Api
  BY <1>1, RespondLife, WriteLife, WriteEndLife, CloseLife, UpgradeLife, DestroyLife DEF Api
<1>2. CASE Event
  BY <1>2, AcceptLife, OpenLife, EndLife, IdleLife, DataLife DEF Event
<1>3. CASE Running
  BY <1>3, AcceptReturnLife, CloseReturnLife, CallbackReturnLife, WalkStepLife, WalkCloseReturnLife, WalkEndLife,
     OverflowLife, StopLife, YieldLife, RejectLife, DispatchLife, NoUpgradeLife DEF Running
<1>4. CASE Post
  BY <1>4, ProcessPostLife, ConnCleanupLife, SrvCleanupLife DEF Post
<1>5. CASE UNCHANGED vars
  <2>1. UNCHANGED <<state, stream, conns, closes, freed, server, stack, idle, posts>>
    BY <1>5 DEF vars, history
  <2>2. SameLife /\ StackMild /\ PostsMild
    BY <2>1, PostsSame DEF SameLife, StackMild, Alive
  <2>3. ASSUME NEW fr \in ToSet(stack') PROVE FrameLive(fr)'
    <3>1. FrameLive(fr)
      BY <2>1 DEF LifeInv, FramesInv
    <3> QED BY <2>1, <3>1 DEF FrameLive
  <2> QED BY <2>1, <2>2, <2>3, Mild
<1> QED BY <1>1, <1>2, <1>3, <1>4, <1>5 DEF Next

LEMMA LifeStart == ASSUME Init PROVE LifeInv
<1>1. ToSet(<<>>) = {} /\ CloserOnce(<<>>)
  BY FewFrames
<1>2. CleanupLast(<<>>) /\ Distinct(<<>>)
  BY DEF CleanupLast, Distinct
<1>3. FramesInv /\ PostsInv /\ ServerInv /\ WalkInv
  BY <1>1, <1>2 DEF Init, FramesInv, PostsInv, ServerInv, WalkInv
<1>4. ASSUME NEW c \in Conn PROVE ConnLive(c)
  BY <1>1 DEF Init, ConnLive, Alive
<1> QED BY <1>3, <1>4 DEF LifeInv

\* What reaches a connection, in every state.
THEOREM LifeHolds ==
  ASSUME Posted = {TRUE}, WalkWrites = FALSE
  PROVE  Spec => []LifeInv
<1>1. Inv /\ Inv' /\ LifeInv /\ [Next]_vars => LifeInv'
  BY LifeNext
<1> QED BY <1>1, LifeStart, InvHolds, PTL DEF Spec

\* A released connection is out of reach of the list, the timers, the streams,
\* the frames in progress and the tasks posted, and none in use outlives the
\* server: for any number of connections, as long as tasks can be posted and
\* the on_conn_close of srv_cleanup writes to no other connection.
THEOREM NoUseAfterFreeHolds ==
  ASSUME Posted = {TRUE}, WalkWrites = FALSE
  PROVE  Spec => []NoUseAfterFree
<1>1. ASSUME Inv, LifeInv PROVE NoUseAfterFree
  <2>1. ASSUME NEW c \in freed
        PROVE  /\ c \notin ToSet(conns) \cup idle \cup stream
               /\ \A i \in 1..Len(posts) : posts[i].c # c
               /\ \A i \in 1..Len(stack) : stack[i].c # c
    <3>1. c \in Conn /\ c # None
      BY <1>1, HttpAssumption DEF Inv, TypeOK
    <3>2. ConnLive(c) /\ \A fr \in ToSet(stack) : fr.c # c
      BY <1>1, <3>1 DEF LifeInv, FramesInv, FrameLive
    <3>3. \A tk \in ToSet(posts) : tk.c # c
      BY <1>1, <3>1 DEF LifeInv, PostsInv, TaskLive
    <3>4. c \notin ToSet(conns) \cup idle \cup stream
      <4>1. state[c] \in {"CLOSED", "RELEASED"}
        BY <1>1, <3>1, <3>2 DEF ConnLive, Alive, Inv, TypeOK
      <4> QED BY <3>2, <4>1 DEF ConnLive, Alive
    <3>5. /\ ToSet(posts) = {posts[i] : i \in 1 .. Len(posts)}
          /\ ToSet(stack) = {stack[i] : i \in 1 .. Len(stack)}
      BY <1>1, LenProperties DEF Inv, TypeOK, ToSet
    <3> QED BY <3>2, <3>3, <3>4, <3>5
  <2>2. ASSUME server = "freed", NEW c \in Conn PROVE state[c] = "NONE" \/ conn_dead(c)
    <3>1. ToSet(conns) = {}
      BY <1>1, <2>2, FewFrames DEF LifeInv, ServerInv
    <3> QED BY <1>1, <3>1 DEF LifeInv, ConnLive, Alive, conn_dead
  <2> QED BY <2>1, <2>2 DEF NoUseAfterFree
<1> QED BY <1>1, LifeHolds, InvHolds, PTL

\* on_conn_close is called once for every connection before it is released, but
\* not for one that was handed over, under the same conditions.
THEOREM CloseOnceHolds ==
  ASSUME Posted = {TRUE}, WalkWrites = FALSE
  PROVE  Spec => []CloseOnce
<1>1. ASSUME Inv, LifeInv PROVE CloseOnce
  <2>1. ASSUME NEW c \in Conn
        PROVE  /\ closes[c] <= 1
               /\ c \in freed => closes[c] = IF state[c] = "RELEASED" THEN 0 ELSE 1
    <3>1. ConnLive(c) /\ state[c] \in State
      BY <1>1 DEF LifeInv, Inv, TypeOK
    <3>2. closes[c] = 0 \/ closes[c] = 1
      BY <3>1 DEF ConnLive, Alive
    <3>3. c \in freed => closes[c] = IF state[c] = "RELEASED" THEN 0 ELSE 1
      BY <3>1 DEF ConnLive, Alive
    <3> QED BY <3>2, <3>3
  <2> QED BY <2>1 DEF CloseOnce
<1> QED BY <1>1, LifeHolds, InvHolds, PTL
===============================================================================
