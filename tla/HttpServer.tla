------------------------------ MODULE HttpServer ------------------------------
(***************************************************************************)
(* The HTTP server of src/src/http_server.c: its connections with their    *)
(* states, receive buffers and idle timers, the requests it dispatches,    *)
(* answers given in the callback or later, the hand-over to a WebSocket,   *)
(* and the deferred release of connections and server.                     *)
(*                                                                         *)
(* Everything runs on the loop thread, so the state of the thread is a     *)
(* stack of frames: user callbacks, and library functions that go on after *)
(* one.  User code runs when the stack is empty (a timer, a posted task)   *)
(* or a user callback is on top, and may use any connection.  The posted   *)
(* tasks are the queue TaskQueue specifies.                                *)
(*                                                                         *)
(* A buffer holds cells, numbered in the order of their arrival.  A cell   *)
(* ends a request or is a part of one: a request is the cells up to and    *)
(* with the first that is not a part.  This is all that sevent_http_parse  *)
(* is taken to decide: incomplete, malformed, or a request of some kind.   *)
(***************************************************************************)
EXTENDS Naturals, Sequences, SequencesExt, FiniteSets, FiniteSetsExt

CONSTANTS
  Conn,       \* connections, each accepted at most once
  None,
  Kind,       \* kinds of cells that arrive: those of Cells
  Cap,        \* recv_cap, in cells
  Budget,     \* HTTP_PROCESS_BUDGET
  Limit,      \* HTTP_OVERFLOW_PROCESS_LIMIT
  MaxChunk,   \* bound: cells in one call of conn_on_data
  MaxCells,   \* bound: cells that arrive at a connection
  WalkWrites, \* connections are written to in srv_cleanup's on_conn_close
  Posted      \* what sevent_post may return for a cleanup: TRUE, accepted

\* "get" keeps the connection alive, "last" does not, "up" asks for an upgrade.
Cells == {"part", "get", "last", "up", "bad"}

ASSUME HttpAssumption ==
  /\ None \notin Conn
  /\ Kind \subseteq Cells
  /\ {Cap, Budget, MaxChunk} \subseteq Nat \ {0} /\ {Limit, MaxCells} \subseteq Nat
  /\ WalkWrites \in BOOLEAN /\ Posted \subseteq BOOLEAN

VARIABLES
  state,         \* c->state, "NONE" before the connection exists
  stream,        \* connections with c->stream
  recv,          \* c->recv_buf
  close_pending, \* c->close_pending
  wrote,         \* c->wrote
  idle,          \* connections with c->idle_timer
  conns,         \* s->conns, head first
  freed,         \* released connections
  server,        \* "up", "destroyed" (cleanup posted) or "freed"
  upgrades,      \* s->on_upgrade is given
  posts,         \* posted tasks
  stack,         \* the frames of the loop thread, innermost first
  cells,         \* history: cells received by each connection
  last,          \* history: number of the last cell of the last request dispatched
  closes         \* history: calls of on_conn_close for each connection

flags   == <<close_pending, wrote>>
history == <<cells, last, closes>>
vars    == <<state, stream, recv, flags, idle, conns, freed, server, upgrades, posts, stack, history>>

State == {"NONE", "NEW", "PARSING", "REQUEST", "AWAIT_RESP", "RESPONDING",
          "RELEASED", "CLOSING", "CLOSED"}

UserCallback == {"on_accept", "on_request", "on_upgrade", "on_conn_close", "walk_close"}

Cell == [k : Cells, n : Nat]
Task == [f : {"http_process", "conn_cleanup"}, c : Conn] \cup {[f |-> "srv_cleanup", c |-> None]}

\* n: the budget left, the rounds made, the length of the request;
\* d: the data being received; next: where srv_cleanup goes on.
Frame ==
  [f : {"process", "on_accept", "on_request", "on_upgrade", "no_upgrade", "on_conn_close"},
   c : Conn, n : Nat]
    \cup [f : {"overflow"}, c : Conn, n : Nat, d : Seq(Cell)]
    \cup [f : {"walk"}, c : Conn \cup {None}]
    \cup [f : {"walk_close"}, c : Conn, next : Conn \cup {None}]

TypeOK ==
  /\ state \in [Conn -> State]
  /\ stream \in SUBSET Conn /\ close_pending \in SUBSET Conn /\ wrote \in SUBSET Conn
  /\ idle \in SUBSET Conn /\ freed \in SUBSET Conn
  /\ recv \in [Conn -> Seq(Cell)] /\ \A c \in Conn : Len(recv[c]) <= Cap
  /\ conns \in Seq(Conn) /\ posts \in Seq(Task) /\ stack \in Seq(Frame)
  /\ server \in {"up", "destroyed", "freed"} /\ upgrades \in BOOLEAN
  /\ cells \in [Conn -> Nat] /\ last \in [Conn -> Nat] /\ closes \in [Conn -> Nat]

Init ==
  /\ state = [c \in Conn |-> "NONE"] /\ stream = {} /\ recv = [c \in Conn |-> <<>>]
  /\ close_pending = {} /\ wrote = {} /\ idle = {} /\ conns = <<>> /\ freed = {}
  /\ server = "up" /\ upgrades \in BOOLEAN /\ posts = <<>> /\ stack = <<>>
  /\ cells = [c \in Conn |-> 0] /\ last = [c \in Conn |-> 0] /\ closes = [c \in Conn |-> 0]

-------------------------------------------------------------------------------
(* Helpers. *)

conn_dying(c) == state[c] \in {"CLOSING", "CLOSED", "RELEASED"}

conn_dead(c) == state[c] \in {"CLOSED", "RELEASED"}

http_state_set(c, s) == state' = [state EXCEPT ![c] = s]

conn_unlink(c) == conns' = RemoveFirst(conns, c)

conn_idle_stop(c) == idle' = idle \ {c}

conn_idle_reset(c) == idle' = idle \cup {c}

sevent_post(f, c) == posts' = Append(posts, [f |-> f, c |-> c])

\* The release of a connection is posted; if that fails it is done at once.
deferred_free(c) ==
  \E ok \in Posted :
    IF ok THEN sevent_post("conn_cleanup", c) /\ UNCHANGED freed
    ELSE freed' = freed \cup {c} /\ UNCHANGED posts

Top == Head(stack)
InLib(f) == stack # <<>> /\ Top.f = f
At(f, c) == InLib(f) /\ Top.c = c

\* The innermost frame returns.
Return == stack' = Tail(stack)

\* Half close: queued data and FIN, then the peer's end is waited for.
conn_close_graceful(c) ==
  state' = IF conn_dying(c) THEN state ELSE [state EXCEPT ![c] = "CLOSING"]

\* Mutant: the idle timer is left registered.
conn_terminate_keeps_timer(c, below) ==
  /\ http_state_set(c, "CLOSED")
  /\ UNCHANGED idle
  /\ stream' = stream \ {c}
  /\ conn_unlink(c)
  /\ closes' = [closes EXCEPT ![c] = @ + 1]
  /\ stack' = <<[f |-> "on_conn_close", c |-> c, n |-> 0]>> \o below

\* The end of a connection that is not dead: stream closed and destroyed,
\* connection off the list, on_conn_close called on top of the frames below.
conn_terminate(c, below) ==
  /\ http_state_set(c, "CLOSED")
  /\ conn_idle_stop(c)
  /\ stream' = stream \ {c}
  /\ conn_unlink(c)
  /\ closes' = [closes EXCEPT ![c] = @ + 1]
  /\ stack' = <<[f |-> "on_conn_close", c |-> c, n |-> 0]>> \o below

\* What only the end of a connection and the server's cleanup change, and
\* what hardly anything changes.
ends == <<stream, conns, closes>>
rest == <<freed, server, upgrades>>

\* Number of cells of the first request in b, 0 if it is not complete.
ReqLen(b) ==
  LET last_cells == {i \in 1..Len(b) : b[i].k # "part"}
  IN IF last_cells = {} THEN 0 ELSE Min(last_cells)

First(c) == recv[c][ReqLen(recv[c])].k

\* An answer is built and queued, or it is refused before anything is written
\* (unusable fields, no memory), or the stream fails.
conn_respond_build == {"OK", "REFUSED", "WRITE"}

\* 400 and 413, after which the connection is half closed.
http_respond_internal(c, rc, below) ==
  \/ /\ rc = "OK"
     /\ close_pending' = close_pending \cup {c}
     /\ conn_close_graceful(c)
     /\ stack' = below
     /\ UNCHANGED <<idle, ends>>
  \/ /\ rc = "REFUSED"
     /\ stack' = below
     /\ UNCHANGED <<state, close_pending, idle, ends>>
  \/ /\ rc = "WRITE"
     /\ conn_terminate(c, below)
     /\ UNCHANGED close_pending

\* Mutant: data that has arrived meanwhile is not looked at.
conn_response_complete_forgets(c, async) ==
  IF c \in close_pending'
  THEN conn_close_graceful(c) /\ UNCHANGED <<idle, posts>>
  ELSE http_state_set(c, "PARSING") /\ conn_idle_reset(c) /\ UNCHANGED posts

\* Mutant: the idle timer is not started again.
conn_response_complete_untimed(c, async) ==
  IF c \in close_pending'
  THEN conn_close_graceful(c) /\ UNCHANGED <<idle, posts>>
  ELSE /\ http_state_set(c, "PARSING") /\ UNCHANGED idle
       /\ IF async /\ recv[c] # <<>> THEN sevent_post("http_process", c) ELSE UNCHANGED posts

\* The answer is complete.  After the callback, what is left in the buffer
\* is processed by a posted task; if that cannot be posted the connection is
\* half closed.  Within the callback http_process goes on itself.
conn_response_complete(c, async) ==
  IF c \in close_pending'
  THEN conn_close_graceful(c) /\ UNCHANGED <<idle, posts>>
  ELSE /\ conn_idle_reset(c)
       /\ \/ /\ http_state_set(c, "PARSING")
             /\ IF async /\ recv[c] # <<>> THEN sevent_post("http_process", c) ELSE UNCHANGED posts
          \/ /\ async /\ recv[c] # <<>>
             /\ http_state_set(c, "CLOSING")
             /\ UNCHANGED posts

-------------------------------------------------------------------------------
(* The API.  Calls that the state forbids return an error and change nothing,
   and so do calls for which there is no memory. *)

UserCode == stack # <<>> => Top.f \in UserCallback

\* The user has seen the connection.
Known(c) ==
  \/ state[c] \notin {"NONE", "NEW"}
  \/ state[c] = "NEW" /\ \E i \in 1..Len(stack) : stack[i].f = "on_accept" /\ stack[i].c = c

CanWrite == UserCode /\ (WalkWrites \/ \A i \in 1..Len(stack) : stack[i].f # "walk_close")

\* close: the field of the response.
sevent_http_conn_respond(c, close) ==
  /\ CanWrite
  /\ state[c] \in {"REQUEST", "AWAIT_RESP"} /\ c \notin wrote
  /\ \E rc \in conn_respond_build \ {"REFUSED"} :
       IF rc = "OK"
       THEN /\ close_pending' = IF close THEN close_pending \cup {c} ELSE close_pending
            /\ conn_response_complete(c, state[c] = "AWAIT_RESP")
            /\ UNCHANGED <<ends, stack>>
       ELSE conn_terminate(c, stack) /\ UNCHANGED <<close_pending, posts>>
  /\ UNCHANGED <<recv, wrote, rest, cells, last>>

sevent_http_conn_write(c) ==
  /\ CanWrite
  /\ state[c] \in {"REQUEST", "AWAIT_RESP", "RESPONDING"}
  /\ \/ /\ wrote' = wrote \cup {c}
        /\ state' = IF state[c] = "AWAIT_RESP" THEN [state EXCEPT ![c] = "RESPONDING"] ELSE state
        /\ UNCHANGED <<idle, ends, stack>>
     \/ conn_terminate(c, stack) /\ UNCHANGED wrote
  /\ UNCHANGED <<recv, close_pending, rest, posts, cells, last>>

sevent_http_conn_write_end(c) ==
  /\ UserCode
  /\ state[c] \in {"REQUEST", "RESPONDING"}
  /\ UNCHANGED close_pending
  /\ conn_response_complete(c, state[c] = "RESPONDING")
  /\ UNCHANGED <<ends, stack, recv, wrote, rest, cells, last>>

sevent_http_conn_close(c) ==
  /\ UserCode /\ Known(c) /\ ~conn_dying(c)
  /\ close_pending' = close_pending \cup {c}
  /\ conn_close_graceful(c)
  /\ UNCHANGED <<idle, ends, stack, posts, recv, wrote, rest, cells, last>>

\* sevent_ws_upgrade, of which this module sees what it does with the http
\* connection: i_release, i_detach_stream, i_take_recv and i_destroy.
sevent_ws_upgrade(c) ==
  /\ At("on_upgrade", c)
  /\ state[c] = "REQUEST"
  /\ http_state_set(c, "RELEASED")
  /\ conn_idle_stop(c) /\ conn_unlink(c)
  /\ stream' = stream \ {c} /\ recv' = [recv EXCEPT ![c] = <<>>]
  /\ deferred_free(c)
  /\ UNCHANGED <<flags, server, upgrades, stack, history>>

\* srv_cleanup begins.
Walk == [f |-> "walk", c |-> IF conns = <<>> THEN None ELSE Head(conns)]

\* Mutant: nothing is posted.
sevent_http_server_destroy_silent ==
  /\ UserCode /\ server = "up"
  /\ server' = "destroyed"
  /\ UNCHANGED <<state, stream, recv, flags, idle, conns, freed, upgrades, posts, stack, history>>

sevent_http_server_destroy ==
  /\ UserCode /\ server = "up"
  /\ server' = "destroyed"
  /\ \E ok \in Posted :
       IF ok THEN sevent_post("srv_cleanup", None) /\ UNCHANGED stack
       ELSE stack' = <<Walk>> \o stack /\ UNCHANGED posts
  /\ UNCHANGED <<state, stream, recv, flags, idle, conns, freed, upgrades, history>>

-------------------------------------------------------------------------------
(* Events of the loop. *)

\* (When it fails, connection and descriptor are given up at once.)
srv_on_accept(c) ==
  /\ stack = <<>> /\ server # "freed"
  /\ state[c] = "NONE"
  /\ http_state_set(c, "NEW")
  /\ stream' = stream \cup {c} /\ conns' = <<c>> \o conns
  /\ UNCHANGED <<recv, flags, idle, rest, posts, stack, history>>

conn_on_open(c) ==
  /\ stack = <<>> /\ c \in stream /\ state[c] = "NEW"
  /\ stack' = <<[f |-> "on_accept", c |-> c, n |-> 0]>>
  /\ UNCHANGED <<state, stream, recv, flags, idle, conns, rest, posts, history>>

\* on_accept returns: a connection refused there is timed all the same.
on_accept_return ==
  /\ InLib("on_accept")
  /\ state' = IF conn_dying(Top.c) THEN state ELSE [state EXCEPT ![Top.c] = "PARSING"]
  /\ conn_idle_reset(Top.c)
  /\ Return
  /\ UNCHANGED <<stream, recv, flags, conns, rest, posts, history>>

Fits(c, d) == Len(d) <= Cap - Len(recv[c])

Process(c) == [f |-> "process", c |-> c, n |-> Budget]

Receive(c, d, below) ==
  /\ recv' = [recv EXCEPT ![c] = @ \o d] /\ cells' = [cells EXCEPT ![c] = @ + Len(d)]
  /\ conn_idle_reset(c)
  /\ stack' = (IF state[c] = "PARSING" THEN <<Process(c)>> ELSE <<>>) \o below
  /\ UNCHANGED state

\* Data arrives.  (In a dying connection it is ignored.)
conn_on_data(c, ks) ==
  LET d == [i \in 1..Len(ks) |-> [k |-> ks[i], n |-> cells[c] + i]]
  IN /\ stack = <<>> /\ c \in stream /\ state[c] # "NEW" /\ ~conn_dying(c)
     /\ cells[c] + Len(d) <= MaxCells
     /\ \/ Fits(c, d) /\ Receive(c, d, <<>>)
        \/ /\ ~Fits(c, d) /\ state[c] = "PARSING"
           /\ stack' = <<[f |-> "overflow", c |-> c, n |-> 0, d |-> d]>>
           /\ UNCHANGED <<state, recv, idle, cells>>
        \/ /\ ~Fits(c, d) /\ state[c] # "PARSING"
           /\ conn_close_graceful(c)
           /\ UNCHANGED <<recv, idle, stack, cells>>
     /\ UNCHANGED <<ends, flags, rest, posts, last>>

\* The buffer is too full for the data: requests in it are processed first,
\* Limit times at most.
overflow_step(c) ==
  /\ At("overflow", c)
  /\ LET parsing == state[c] = "PARSING"
         again   == parsing /\ Top.n < Limit /\ recv[c] # <<>> /\ ~Fits(c, Top.d)
     IN \/ /\ again
           /\ stack' = <<Process(c), [Top EXCEPT !.n = @ + 1]>> \o Tail(stack)
           /\ UNCHANGED <<state, recv, idle, cells>>
        \/ /\ parsing /\ Fits(c, Top.d)
           /\ Receive(c, Top.d, Tail(stack))
        \/ /\ ~again /\ ~(parsing /\ Fits(c, Top.d))
           /\ conn_close_graceful(c)
           /\ Return
           /\ UNCHANGED <<recv, idle, cells>>
  /\ UNCHANGED <<ends, flags, rest, posts, last>>

\* conn_on_close and conn_on_error.
conn_on_end(c) ==
  /\ stack = <<>> /\ c \in stream /\ ~conn_dead(c)
  /\ conn_terminate(c, <<>>)
  /\ UNCHANGED <<recv, flags, rest, posts, cells, last>>

on_idle_timeout(c) ==
  /\ stack = <<>> /\ c \in idle
  /\ IF state[c] \in {"PARSING", "AWAIT_RESP", "CLOSING"}
     THEN conn_terminate(c, <<>>)
     ELSE conn_idle_stop(c) /\ UNCHANGED <<state, ends, stack>>
  /\ UNCHANGED <<recv, flags, rest, posts, cells, last>>

\* on_conn_close returns to conn_notify_deferred_free.
on_conn_close_return ==
  /\ InLib("on_conn_close")
  /\ deferred_free(Top.c)
  /\ Return
  /\ UNCHANGED <<state, stream, recv, flags, idle, conns, server, upgrades, history>>

-------------------------------------------------------------------------------
(* http_process, one iteration of its loop at a time. *)

More(c) == At("process", c) /\ recv[c] # <<>> /\ state[c] = "PARSING"

process_stop(c) ==
  /\ At("process", c) /\ ~More(c)
  /\ Return
  /\ UNCHANGED <<state, stream, recv, flags, idle, conns, rest, posts, history>>

\* The budget is used up: the rest is left to a posted task.
process_yield(c) ==
  /\ More(c) /\ Top.n = 0
  /\ \/ sevent_post("http_process", c) /\ UNCHANGED state
     \/ conn_close_graceful(c) /\ UNCHANGED posts
  /\ Return
  /\ UNCHANGED <<stream, recv, flags, idle, conns, rest, history>>

Parsed(c) == More(c) /\ Top.n > 0

\* Incomplete: more is waited for, unless the buffer is full (413).
process_partial(c) ==
  /\ Parsed(c) /\ ReqLen(recv[c]) = 0 /\ Len(recv[c]) < Cap
  /\ Return
  /\ UNCHANGED <<state, stream, recv, flags, idle, conns, rest, posts, history>>

\* 400 and 413.
process_reject(c) ==
  /\ Parsed(c)
  /\ IF ReqLen(recv[c]) = 0 THEN Len(recv[c]) >= Cap ELSE First(c) = "bad"
  /\ \E rc \in conn_respond_build : http_respond_internal(c, rc, Tail(stack))
  /\ UNCHANGED <<recv, wrote, rest, posts, cells, last>>

Request(c) == Parsed(c) /\ ReqLen(recv[c]) # 0 /\ First(c) # "bad"

\* The request at the head of the buffer is given to its callback.
process_dispatch(c) ==
  LET n == ReqLen(recv[c])
      f == IF First(c) # "up" THEN "on_request" ELSE IF upgrades THEN "on_upgrade" ELSE "no_upgrade"
  IN /\ Request(c)
     /\ http_state_set(c, "REQUEST")
     /\ close_pending' = IF First(c) = "last" THEN close_pending \cup {c} ELSE close_pending \ {c}
     /\ wrote' = wrote \ {c}
     /\ last' = [last EXCEPT ![c] = recv[c][n].n]
     /\ stack' = <<[f |-> f, c |-> c, n |-> n], [Top EXCEPT !.n = @ - 1]>> \o Tail(stack)
     /\ UNCHANGED <<recv, idle, ends, rest, posts, cells>>

\* Mutant: the request stays in the buffer.
Consumed_keeps(c, n) == UNCHANGED recv

\* The request's n cells leave the buffer.
Consumed(c, n) == recv' = [recv EXCEPT ![c] = SubSeq(@, n + 1, Len(@))]

\* The callback for the request at the head returns: a request that is not
\* answered is waited for, an answered one is followed by the next.
request_after_callback(c, n) ==
  IF conn_dying(c)
  THEN stack' = Tail(Tail(stack)) /\ UNCHANGED <<state, recv, idle>>
  ELSE /\ Consumed(c, n)
       /\ IF state[c] = "REQUEST"
          THEN /\ state' = [state EXCEPT ![c] = IF c \in wrote THEN "RESPONDING" ELSE "AWAIT_RESP"]
               /\ conn_idle_reset(c)
               /\ stack' = Tail(Tail(stack))
          ELSE Return /\ UNCHANGED <<state, idle>>

callback_return ==
  /\ InLib("on_request") \/ InLib("on_upgrade")
  /\ request_after_callback(Top.c, Top.n)
  /\ UNCHANGED <<ends, flags, rest, posts, cells, last>>

\* An upgrade, but no on_upgrade: 400, or, without memory for that, a request
\* like one that its callback has not answered.
no_upgrade(c) ==
  /\ At("no_upgrade", c)
  /\ \E rc \in conn_respond_build :
       IF rc = "REFUSED"
       THEN request_after_callback(c, Top.n) /\ UNCHANGED <<ends, close_pending>>
       ELSE http_respond_internal(c, rc, Tail(Tail(stack))) /\ UNCHANGED recv
  /\ UNCHANGED <<wrote, rest, posts, cells, last>>

-------------------------------------------------------------------------------
(* Posted tasks. *)

CanRun(f) == stack = <<>> /\ posts # <<>> /\ Head(posts).f = f /\ posts' = Tail(posts)

http_process_post ==
  /\ CanRun("http_process")
  /\ LET c == Head(posts).c
     IN stack' = IF ~conn_dying(c) /\ recv[c] # <<>> THEN <<Process(c)>> ELSE <<>>
  /\ UNCHANGED <<state, stream, recv, flags, idle, conns, rest, history>>

conn_cleanup ==
  /\ CanRun("conn_cleanup")
  /\ freed' = freed \cup {Head(posts).c}
  /\ UNCHANGED <<state, stream, recv, flags, idle, conns, server, upgrades, stack, history>>

srv_cleanup ==
  /\ CanRun("srv_cleanup")
  /\ stack' = <<Walk>>
  /\ UNCHANGED <<state, stream, recv, flags, idle, conns, rest, history>>

\* c->next; NULL is taken for that of a connection off the list.
Successor(c) ==
  LET i == {j \in 1..Len(conns) - 1 : conns[j] = c}
  IN IF i = {} THEN None ELSE conns[Min(i) + 1]

\* Mutant: the user is not told.
walk_conn_untold(c) ==
  /\ http_state_set(c, "CLOSED")
  /\ conn_idle_stop(c)
  /\ UNCHANGED closes
  /\ stack' = <<[f |-> "walk_close", c |-> c, next |-> Successor(c)]>> \o Tail(stack)

\* srv_cleanup ends one connection, told by on_conn_close ...
walk_conn(c) ==
  /\ http_state_set(c, "CLOSED")
  /\ conn_idle_stop(c)
  /\ closes' = [closes EXCEPT ![c] = @ + 1]
  /\ stack' = <<[f |-> "walk_close", c |-> c, next |-> Successor(c)]>> \o Tail(stack)

walk_step ==
  /\ InLib("walk") /\ Top.c # None
  /\ walk_conn(Top.c)
  /\ UNCHANGED <<stream, recv, flags, conns, rest, posts, cells, last>>

\* ... goes on to the next when that has returned ...
walk_close_return ==
  /\ InLib("walk_close")
  /\ stream' = stream \ {Top.c}
  /\ deferred_free(Top.c)
  /\ stack' = <<[f |-> "walk", c |-> Top.next]>> \o Tail(stack)
  /\ UNCHANGED <<state, recv, flags, idle, conns, server, upgrades, history>>

\* ... and releases acceptor and server after the last.
walk_end ==
  /\ InLib("walk") /\ Top.c = None
  /\ conns' = <<>> /\ server' = "freed"
  /\ Return
  /\ UNCHANGED <<state, stream, recv, flags, idle, freed, upgrades, posts, history>>

-------------------------------------------------------------------------------
Api ==
  \/ \E c \in Conn :
       \/ \E close \in BOOLEAN : sevent_http_conn_respond(c, close)
       \/ sevent_http_conn_write(c) \/ sevent_http_conn_write_end(c)
       \/ sevent_http_conn_close(c) \/ sevent_ws_upgrade(c)
  \/ sevent_http_server_destroy

Chunk == UNION {[1..m -> Kind] : m \in 1..MaxChunk}

Event == \E c \in Conn :
  \/ srv_on_accept(c) \/ conn_on_open(c) \/ conn_on_end(c) \/ on_idle_timeout(c)
  \/ \E ks \in Chunk : conn_on_data(c, ks)

\* Library code and callbacks in progress.
Running ==
  \/ on_accept_return \/ on_conn_close_return \/ callback_return
  \/ walk_step \/ walk_close_return \/ walk_end
  \/ \E c \in Conn :
       \/ overflow_step(c) \/ process_stop(c) \/ process_yield(c) \/ process_partial(c) \/ process_reject(c)
       \/ process_dispatch(c) \/ no_upgrade(c)

Post == http_process_post \/ conn_cleanup \/ srv_cleanup

Next == Api \/ Event \/ Running \/ Post

Spec == Init /\ [][Next]_vars

\* Callbacks return; posted tasks are run (SeventPost!PostsRun); the timer of a
\* connection that waits for its peer, which nothing starts again, is called.
FairSpec ==
  /\ Spec
  /\ WF_vars(Running) /\ SF_vars(Post)
  /\ \A c \in Conn : SF_vars(state[c] = "CLOSING" /\ on_idle_timeout(c))

-------------------------------------------------------------------------------
(* Properties. *)

\* A released connection is out of reach of everything that could still come:
\* list, timer, stream, frames in progress and posted tasks, a second release
\* included.  No connection in use outlives the server it points to.
NoUseAfterFree ==
  /\ \A c \in freed :
       /\ c \notin ToSet(conns) \cup idle \cup stream
       /\ \A i \in 1..Len(posts) : posts[i].c # c
       /\ \A i \in 1..Len(stack) : stack[i].c # c
  /\ server = "freed" => \A c \in Conn : state[c] = "NONE" \/ conn_dead(c)

\* on_conn_close is called once for every connection before it is released,
\* but not for one that was handed over.
CloseOnce ==
  \A c \in Conn :
    /\ closes[c] <= 1
    /\ c \in freed => closes[c] = IF state[c] = "RELEASED" THEN 0 ELSE 1

InCallback(c) ==
  {i \in 1..Len(stack) : stack[i].f \in {"on_request", "on_upgrade", "no_upgrade"} /\ stack[i].c = c}

\* Pipelined requests are dispatched once each, in order and without a gap: the
\* buffer, which is not overrun, is what has arrived after the last request,
\* together with that request while its callback runs.
RequestsOnce ==
  \A c \in Conn :
    /\ Len(recv[c]) <= Cap
    /\ state[c] \in {"PARSING", "REQUEST", "AWAIT_RESP", "RESPONDING"} =>
         LET base == cells[c] - Len(recv[c])
         IN /\ \A i \in 1..Len(recv[c]) : recv[c][i].n = base + i
            /\ IF InCallback(c) = {} THEN last[c] = base
               ELSE \E i \in InCallback(c) : last[c] = base + stack[i].n

\* A connection that waits for its peer or for an answer has its idle timer,
\* through every sequence of calls, callbacks and timeouts.
IdleGuard == \A c \in Conn : state[c] \in {"PARSING", "AWAIT_RESP"} => c \in idle

\* Cell n ends a well-formed request that is next to be dispatched.
Waiting(c, n) ==
  /\ state[c] = "PARSING" /\ last[c] < n
  /\ ReqLen(recv[c]) # 0 /\ First(c) # "bad" /\ recv[c][ReqLen(recv[c])].n = n

\* A complete and well-formed request that has arrived, also one that waits
\* behind another, is dispatched, or the connection ends.
RequestServed ==
  \A c \in Conn : \A n \in 1..MaxCells : Waiting(c, n) ~> (last[c] >= n \/ conn_dying(c))

\* A server that is destroyed is released, with all its connections.
DestroyEnds == (server = "destroyed") ~> (server = "freed" /\ \A c \in Conn : state[c] = "NONE" \/ c \in freed)

\* http_server.c:280: after the half close the idle timer is there, so that a
\* peer that does not close cannot keep the connection.  It does not hold: the timer has
\* unregistered itself if it fired during a streamed answer.
ClosingEnds == \A c \in Conn : (state[c] = "CLOSING") ~> (state[c] = "CLOSED")
===============================================================================
