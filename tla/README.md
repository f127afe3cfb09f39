# Formal models of libsevent

TLA+ modules for libsevent's event loop, transports and protocols, the TLC configurations that check them
on small instances, and TLAPS proofs, for every instance, of the invariants of the loop,
the TCP connection, the acceptor, the TLS connection, the HTTP server and the WebSocket
connection. All line numbers refer to the files under `src/`.

## The system

libsevent is a single-threaded `select` loop with a stack of protocols on it.

| Part | State | Operations | What is hard |
|---|---|---|---|
| Loop: tasks (`sevent.c`) | `running`, wakeup fd, `post_pending`, local list of `run_posts` | run, run_once, post, dispatch, stop, wakeup, destroy | enqueue and wakeup are two steps; so are drain and take |
| Loop: IO (`sevent.c`) | `io_list`, `death_io`, `io_count`, snapshot `iosnap` | io_register, io_unregister, the IO phase | callbacks are made from pointers copied before `select` |
| Loop: timers (`sevent.c`) | `timer_list`, `death_timer`, `remaining_ms` | timer_register, timer_unregister, `run_timers` | rounding, limits per round, unlocked second phase |
| Platform (`sevent_platform.c`) | wakeup fd pair, mutexes | drain, pair | — |
| TCP connection (`tcp_conn.c`) | state, fd, handle, timer, write queue, `shutdown_wr_pending`, lock | open, accept, write, shutdown, close, destroy, five loop callbacks | re-entrant user callbacks, threads, deferred free |
| TCP acceptor (`tcp_acceptor.c`) | listening fd, handle, `on_accept`, lock | listen, close, destroy, accept loop | close, listen and destroy inside `on_accept`; no descriptors left |
| TLS connection (`tls_conn.c`) | handshake flags, session, parked plaintext, `closed_notified` | as TCP | loops that call out and go on; two layers of notifications |
| TLS back ends (`ssl/`) | context, session with two record buffers | feed, drain, handshake, read, write | partial progress in every direction |
| Stream facade (`stream_conn.c`) | none | forwards | — |
| HTTP server (`http_server.c`, `http_parse.c`) | connection list, per connection a state, buffer, idle timer | respond, write, write_end, close, release | pipelining, answers after the callback, posted continuations |
| WebSocket (`websockets/`) | state, receive buffer, message mode, `frag_buf`, deflate contexts, ping timer, lock | connect, accept, upgrade, send, ping, shutdown, close, destroy, stream callbacks | buffer arithmetic, fragments and streaming, nested ends, negotiation, lock order |
| DNS, SHA-1, Base64 | none | pure or blocking calls | — |

Parts meet through calls and callbacks on the loop thread: the transports
register handles and timers with the loop, the protocols register callbacks with
the transports, and every `destroy` posts its release to the loop
(`sevent_post`), so that callbacks in progress can unwind. With
`SEVENT_THREAD_SAFE` each connection has a recursive lock and write, close and
destroy may come from any thread; the loop's own API (post, register,
unregister, stop, wakeup) is always open to all threads.

What makes the parts correct: no wakeup is lost and tasks run once and in order
(loop); no callback is made from released or re-used memory, or after
unregistration (IO, timers); timers are neither early nor forgotten; bytes go
out once and in order, notifications come in order and end with the connection,
descriptors have one owner, memory is released after the last use (TCP); every
request is dispatched once and in order, every connection ends, is told once and
is not used after its release (HTTP); a TLS connection adds nothing to and loses
nothing of what TCP promises; a listener has one owner for its socket and hands
each connection over once; WebSocket messages arrive whole, in order and once, both
ends agree on compression, and every connection is told of one end.

## Modules

| Module | Role |
|---|---|
| `TaskQueue` | abstract: what `sevent_post` promises |
| `SeventPost` | tasks, stop and wakeup; implements `TaskQueue` |
| `SeventIo` | IO handles |
| `SeventTimer` | timers |
| `TcpConn` | one TCP connection |
| `TcpAcceptor` | the listener and its accept loop |
| `SslBackend` | operators: TLS configuration and session; used by `TlsConn` |
| `TlsConn` | one TLS connection, over `SslBackend` and what `TcpConn` promises |
| `HttpServer` | the HTTP server and its connections |
| `WsFrame` | operators: frame headers, masks, checks on payloads; used by `WsRecv` |
| `WsRecv` | how frames become messages |
| `WsHandshake` | operators: requests, responses, negotiation of compression; used by `WsConn` |
| `WsCalls` | operators: ends, sending and the user's calls, with callbacks as a parameter; used by `WsConn` |
| `WsConn` | the life of a WebSocket connection |
| `SeventIoProofs`, `TcpConnProofs`, `HttpServerProofs` | theorems about the module of that name |
| `TlsAcceptorProofs` | theorems about `TlsConn` and `TcpAcceptor` |
| `TimerWsRecvProofs` | theorems about `SeventTimer` and `WsRecv` |
| `PostWsConnProofs` | theorems about `SeventPost` and `WsConn` |
| `WsCallsProofs` | lemmas about `WsCalls`, used by `PostWsConnProofs` |
| `DataLemmas` | lemmas on numbers and sequences that these use |
| `MCSeventTimer`, `MCWsConn` | points of the round; configurations and foreign peers, for the `.cfg` files |

Two modules that are proved in one have different names for their specifications: in
`TcpAcceptor`, `WsRecv` and `WsConn` those of `Init`, `Next`, `Spec` and so on begin with
`Acceptor`, `Recv` and `Conn`.

Every definition of the code has its name from the source; `PROJECT.json` maps it
to its lines. Definitions that begin with "Mutant:" are variants with a plausible
bug; `PROJECT.json` says which property each of them breaks, which shows that the
property depends on that code.

### Steps

A section under a mutex is one step and whatever follows the unlock is another:
`sevent_post` enqueues (one step) and then writes the wakeup fd (another), and the
loop can act in between. Code of the loop thread between two points where another
thread could notice is one step. A user callback is a state of the loop thread in
which it may call the API.

**SeventPost** follows the loop thread through the phases of a round (`pc`) and
keeps, for each thread, the rest of the call it is in. The handles are reduced to
"there is one", which decides whether a round calls `select`. `select` returns
with the wakeup fd, without it, with EBADF or with a fatal error; the last ends
the round without tasks and timers as at line 517. `TaskQueue` sees
`active \o post_pending` as its queue.

**SeventIo** has nodes as addresses that are allocated, released and allocated
again. Each registration has a number, which the program lacks; callers hold
pairs of address and number, so that the model can tell when the program takes
one registration for another. Lists are sets. `visit` tests the mark and chooses
a callback, `callback` makes the call: two steps, as the lock is not held.

**SeventTimer** counts time in ticks, `TicksPerMs` to the millisecond, so that
fractions exist; the clock runs modulo one second of `MsPerSec` milliseconds,
which is all that `ms_elapsed` depends on. Its integer arithmetic is the code's:
division truncates towards zero, `(int)` of an unsigned value wraps at `IntMax`.
`RegAt` and `UnregAt` say at which points of the round (in callbacks or from
another thread) timers come and go. Here, the wakeup at the end of a call is part
of the call; a thread delayed before it is the subject of the other two modules.
What happened to a timer is kept as differences, which stay small however long a
behaviour is: `owed`, the milliseconds charged less those its calls stand for, and
`slack`, the ticks since its registration less those its calls stand for. `slack`
is cut off at `MaxSlack`, which can only make `NotEarly` harder to satisfy. `grace` is
the number of calls a timer may still get after its unregistration: one, when the mark
was set between `run_timers`' test of it and the call (sevent.c:464), and none otherwise.

**TcpConn** has one connection object. Because `t->lock` is held through a handler
and the user callbacks it makes, the part up to the callback is one step; nested
callbacks are a stack (`frames`), of which `owner` holds the lock. The loop
decides on a callback (`select_call`) before it takes the lock. Bytes are
numbered, the kernel takes any prefix of the queue or refuses. Every step of
destroy (mark, close, post, release) is a step of its own. `open` and `accept`
take no lock and are one step each, although another thread's close could
interfere; this is listed as a hazard. Allocation failures are possible where the
code handles them (`AllocFails`, `PostFails`); calls whose first tests fail change
nothing and are left out. `on_close` and `on_error` are assumed to be given.

**HttpServer** runs on the loop thread only, so its control is a stack of frames:
user callbacks (`on_request`, `on_conn_close`, ...) and the library functions that
go on after them (`http_process`, the overflow loop of `conn_on_data`, the walk of
`srv_cleanup`). User code runs with an empty stack or in a callback and may use
any connection, which is how one connection is ended or answered in the callback
of another. A write to the stream succeeds, is refused, or fails and ends the
connection on the spot (`conn_on_error` called below `sevent_stream_write`), with
`on_conn_close` as one more frame. `sevent_http_parse` is what it decides: the
buffer holds numbered cells, a request is the cells up to the first that is not a
"part", and that cell's kind says what was asked. The posted tasks are a queue in
order, as `TaskQueue` promises; timers may fire at any time between events. The
idle timer is taken as enabled and its registration as successful. What
`sevent_ws_upgrade` does with the connection is one step. Two restrictions are
constants: `WalkWrites = FALSE` (no answers to other connections in the
`on_conn_close` that `srv_cleanup` calls) and `Posted = {TRUE}` (a release can be
posted); without either, TLC finds memory used after its release (`hazards`).

**TcpAcceptor** numbers the listening sockets, each with the kernel's queue, and the
listens, each with its `on_accept`. The accept loop holds the lock from the test of
`destroyed` to its end, the callbacks included; others wait for it, the callback itself
does not (the lock is recursive). `accept` fails with any of EAGAIN, EBADF, EMFILE and
ECONNABORTED, which differ in what becomes of the queue. Descriptors are a set small
enough to run out. `listen` is one step: it belongs to the loop thread.

**TlsConn** has no lock and runs on the loop thread. Its functions are loops that call
`tls_send_cipher`, which writes to TCP, which may fail and call back, and then go on
with a session that may be gone; so each of them is a frame on a stack with the point
where it goes on (`loop`, `sent`, `failed`), and the user acts in the callback frames
in between. The TCP connection is what `TcpConn` shows of it: a state, the results of a
write, four notifications. **SslBackend** has the tests on configurations, and a session
as records in and out: the buffer for records out (`OutCap`) is smaller than a
flight of the handshake, so that handshakes and writes meet WANT_WRITE; a read meets it when
there is no room for the answer to a key update, and goes on from that record after the
drain. `need` makes a write wait for the peer. What OpenSSL answers within that is a choice,
and so is what it makes of the end of the channel (`ChannelEnd`: an end, or, before
OpenSSL 3, whatever `errno` was left at). The error queue of the thread, which
`ssl_openssl.c` does not clear before a call, is not modelled.

**WsFrame** builds and parses header bytes as numbers; a payload byte carries the key
bytes that have been XORed into it, so that a wrong offset of the mask is visible.
**WsRecv** takes such bytes in pushes of any size of `Chunks`, which fall anywhere in a
frame, and follows `process_frames`, `stream_consume`, `frag_append`, `frag_flush`,
`msg_end` and the decompression. The code is a set of functions that call each other and
the user; each is an operator from connection to connection, and a step is one frame or
one push. In which of the callbacks of a step the user closes or destroys the connection
is chosen at the beginning of the step (`plan`) and carried out when that callback comes,
so that the rest of the functions runs on what it left: a compressed frame that is
streamed, and `frag_flush` behind `frag_append`, go on after a close and call `on_message`
again. `MessagesIntact` asks of those calls too that they are the rest of the message, and
that no other message follows. The peer is lawful (RFC 6455, RFC 7692) up to one last frame. Compressed bytes stand for themselves; inflate holds its
last byte back until the tail, which makes a forgotten tail visible. The bytes of a message
have roles (`Roles`): a text may be no UTF-8, inflate may refuse a message of one small
frame, and a code point may be split between two frames ("lead"). `peer.apart` notes that the
part before the split has been delivered when the part behind it comes.

**WsConn** takes frames as items and follows the connection through opening, use and end
in the same manner, with the user's calls (`Acts`) in callbacks, writes that fail and end
the connection below the caller, and sends in callbacks of those. The functions that the
user can call make callbacks, and callbacks make calls; `WsCalls` has these functions with
what a callback does as a parameter, and `WsConn` has it twice: `Nested`, for a call in
the callback of the plan, below which callbacks are quiet, and itself, around that
callback. **WsHandshake** has
the messages of HTTP as records of what the code looks at. For `InSync` the context of
the compressor is a number that grows with each message, and the peer knows the number
of the last one it got, or nothing if it resets (`h.resets`: by this end's promise, or by
the server's answer). `h.lost` notes a compressed message that was dropped for want of
memory, and a client's compressor that could not be created for that reason; a server's
that could not be created is the same as a server without one, and left out.

## Runs

Deadlock checking is off where the modelled object may come to rest: a destroyed
context, a released connection, a bound on registrations. The timer model has it on.

| Run | Bounds | Result |
|---|---|---|
| `post` | 2 threads and the loop, 3 tasks | no lost wakeup, refinement; tasks run, a stop ends `sevent_run` |
| `io` | 1 thread, 2 addresses, 2 fds, 2 registrations, handles unregistered twice | lists, snapshot, wakeup; the loop's own unregister is final; a registration reaches `select` |
| `timer_safety` | 2 timers (symmetric) of 1 or 2 ms, 2 ticks per ms, array of 1, at most 2 calls, a select of up to 5 ticks, EBADF | timeout, drift, one call at most after unregister, calls early by no more than the rounding |
| `timer_live` | 2 timers of 1 or 2 ms, array of 2, selects of 1 or 2 ms | timers are called |
| `tcp` | 2 threads, 2 fds, 4 bytes, 3 nested callbacks | order, FIN, descriptors, memory, notifications; data goes out, a connect ends |
| `acceptor` | 1 thread, 3 fds, 3 listens, 3 connections, backlog 2 | one owner, right callback, nothing waits for ever |
| `tls` | 3 records out, 3 per feed, 4 per flight, 4 records in, 3 bytes, 5 frames | notifications, ends, nothing stuck, order of writes |
| `http` | 2 connections, 1 cell each | no use after release, each end told once; a destroyed server is released |
| `http_pipeline` | 1 connection, 4 cells in pieces of up to 2, buffer of 2, budget 1, overflow limit 1 | requests once, in order and in the end; idle timer |
| `ws_recv` | client and server, buffer of 18 bytes, payloads of 0, 6 and 14 (compressed 0 and 7), pushes of 1 and 9, 3 fragments, code points split, a close in any callback | messages whole and in order, buffers fit, nothing is left behind |
| `ws` | 5 configurations, 9 extension headers, 2 redirects, 3 messages, one act in a step | notifications, compression in step, opening ends |
| `ws_mixed` | as `ws_recv`, and a message may go from large to small to large frames | **violated**: delivered out of order |

`ws_mixed` is the finding of `PROJECT.json`: `process_frames` empties `frag_buf` before a
large frame only in the mode FRAG (`ws_conn.c:969`), and a message that began with a
large frame is in the mode STREAM.

Only properties with something to say about the code are in the runs. The type invariants
are proved, and so is an inductive invariant of each module with a proof module; TLC has
checked each of those on the instance of its run before it was proved, which is also the
first thing to do when a module is changed.

### What does not hold

Ten definitions state what a header, a comment or a standard says, and are not true of the
code. They are in no run; each is refuted by TLC as said here.

| Statement | Where it is said | To check | Because |
|---|---|---|---|
| `SeventPost!EveryStopExits` | `sevent.h:137` | `TimelySpec`, 1 thread | `sevent_run` sets the flag on entry (`sevent.c:547`) |
| `SeventIo!NoCallAfterUnregister` | `sevent.h:34`, `sevent.c:375` | `Repeat = FALSE` | mark tested, then called, without the lock (`sevent.c:379`) |
| `SeventTimer!NoCallAfterUnregister` | `sevent.h:219` | `MCSeventTimer_safety.cfg` | the same (`sevent.c:464`) |
| `TcpConn!FinAsked` | `sevent_tcp_conn.h:114-125` | no `Worker` | close and open keep `shutdown_wr_pending` (`tcp_conn.c:565`) |
| `TlsConn!SessionAlive` | `tls_conn.c:121` | `RegFails = TRUE` | a write that has torn the connection down for want of a handle returns 0 (`tcp_conn.c:185`), and the session, released meanwhile, is drained again |
| `HttpServer!ClosingEnds` | `http_server.c:281` | 1 connection, 1 cell | the idle timer stops itself in RESPONDING (`http_server.c:247`) |
| `WsRecv!NothingAfterClose` | `sevent_ws.h:219` | `WsRecv.cfg` | `on_message` within a message after the user's close (`ws_conn.c:297-320`, `866-868`) |
| `WsRecv!TextAccepted` | `sevent_ws.h:44` | `WsRecv.cfg` | of a text whose first part was delivered, the rest is validated alone, and a code point split there is refused (`ws_conn.c:790`) |
| `WsConn!ContextsAgree` | RFC 7692, 7.1.1.2 | `MCWsConn.cfg` | a message dropped for want of memory has changed the context (`ws_conn.c:516-528`); a server's `client_no_context_takeover` is read (`1375`) and overwritten (`1423`) |
| `WsConn!CompressorThere` | `sevent_ws.h:114` (8 to 15 bits) | `MCWsConn.cfg` | zlib refuses 8 bits, or memory is short, and the result is not looked at (`ws_conn.c:1425`) |

Other properties hold under a condition, which a constant names; with the other value TLC
finds them violated:

| Constant | Property violated | What happens |
|---|---|---|
| `TcpConn`: `"worker_cb" \in DestroyAt` | `NoUseAfterFree` | destroy in a callback that another thread's write makes (`tcp_conn.c:611`, against `sevent_tcp_conn.h:21`) |
| `HttpServer`: `WalkWrites = TRUE` | `CloseOnce` | `srv_cleanup` ends a connection twice (`http_server.c:956`) |
| `HttpServer`: `FALSE \in Posted` | `NoUseAfterFree` | release at once (`http_server.c:307`) |
| `TlsConn`: `NestedClose = TRUE` | `NotificationOrder` | close in the `on_error` of a failed write clears `closed_notified`, and `tls_send_cipher` fails again (`tls_conn.c:128`, against `tls_conn.c:78`) |
| `TlsConn`: `Reopens = TRUE` | `EndTold`, `NotificationOrder` | `closed_notified` outlives the connection: the end of the next one is not told (`tls_conn.c:100`), and a new one follows it without an end |
| `TlsConn`: `OutCap < FeedCap` | `NothingStuck` | more key updates than the buffer has room for answers: the read stops with WANT_WRITE, and nothing starts it again after the drain (`tls_conn.c:157`) |
| `TlsConn`: `"want_read" \in ChannelEnd` | `EndTold` | a stale `errno` makes the end of the channel a wait (`ssl_openssl.c:329`, before OpenSSL 3; the comment at `333` expects 0) |
| `WsRecv`: `"fatal" \in Acts` | `MessagesIntact` | after `on_message` only `destroyed` is looked at, not CLOSED |
| `WsRecv`: `Reserved = {3}` | `MessagesIntact` | a reserved opcode with RSV1 and FIN is decompressed and delivered (`ws_conn.c:1028`) |
| `WsRecv`: `"corrupt_part" \in Roles` | `BufferFits`, `MessagesIntact` | what inflate refuses of a streamed frame stays in `recv_buf` (`ws_conn.c:299`), and the pushes behind it reach the guard that `ws_conn.c:1129` calls unreachable; of a fragment the error is not looked at (`ws_conn.c:770`), and the message ends as if complete |
| `WsRecv`: `ZSizes = {0, 6}` | `AllDelivered` | compressed fragments that fill `frag_buf` exactly: `fin_sent` is set without a fin callback (`ws_conn.c:768`) |
| `WsConn`: `LateFails = TRUE` | `NotificationOrder` | the close frame of `ws_fatal` fails: the end is told by the nested `on_error` and again (`ws_conn.c:252`) |
| `WsConn`: `Talkative = TRUE` | `NotificationOrder` | bytes after a refused request: a second `on_error` |

The passing counterparts show how far the promises hold: `StopExits` for stops that find
the loop running, `OwnUnregisterFinal` for the loop's own unregister of a handle,
`UnregisterTakesHold` for timers (one call at most after the unregister, for a test of the
mark that was made before it, and never one of a released timer), `AllDelivered` for texts that
are not split where a part has been delivered, `InSync` for everything but what the last two
rows say, `TimerFires` for an array that is large enough.

`NotEarly` says by how much calls may be early, because they may: by less than a millisecond for
each select in which the second of the clock changes (`ms_elapsed` rounds the two parts
separately), and by a millisecond for each EBADF in the first millisecond of a select, which
is charged as a whole one (`sevent.c:525`). It says nothing of timers that were registered in
the middle of a round, which are charged the select before.

Differences between code and documentation that the models make visible and no run
is spent on: a repeated unregister removes a newer registration with the same
address (`sevent.c:597`, against `sevent.h:198`); a timer registered by an IO or post
callback is charged the select before it and comes early (`sevent.c:443`; `NotEarly`
holds for the others); with the first `MAX_EXPIRED_PER_TICK` timers due in every
round a later one is never called (`sevent.c:456`; `TimerFires` fails with
`MaxExpired = 1` and two timers of 1 ms); `write_end` is accepted in a request callback
that has written nothing (`http_server.c:673`); the write callback of a handle that stays readable is never made
(`sevent.c:386`, the order in `Chosen`); an interval above `INT_MAX` is negative and
due at once (`sevent.c:625`, `ToInt`); rounds of less than a millisecond charge
nothing, however many there are (`sevent.c:512`, `MinWait = 0`); writes are accepted after shutdown(WR) while data is
queued (`tcp_conn.c:590`, against `sevent_stream_conn.h:140`); an accepted descriptor is
said to be non-blocking (`sevent_tcp_acceptor.h:37`), which `accept` does not give;
after close_notify the TCP connection stays open, so that the object cannot be opened
again without close; the flush of a parked TLS write retries in place while the session
waits for the peer (`tls_conn.c:236`); errors of decompression are not looked at in the
paths of fragments (`WsRecv!decompress_stream_chunk`); a text that is streamed is not
checked to be UTF-8, nor one that fills `frag_buf` (`ws_conn.c:759` says so of the
latter), and `MessagesIntact` leaves both out; a response whose body is not
complete is malformed, which includes redirects with a body (`ws_handshake.c:163`);
a stream
write that returns 0 after it has torn the connection down is followed by a new idle
timer (`http_server.c:599`, not in the model); the handshake and CLOSING of a WebSocket
have no timeout.

Why the bounds are enough. Two tasks suffice for order, a third for one that is
taken, one that runs and one that waits. Two addresses and two registrations
give two handles in one snapshot and also the reuse of an address by a second
registration. Two timers and an array of one
are the array's limit; two ticks per millisecond the smallest fraction. Four bytes
give a write that finds data queued and is itself sent in part; three nested
callbacks a write in a callback of a write in a callback. Two HTTP connections are
one that acts in the callback of the other; four cells with a buffer of two and a
budget of one fill the buffer behind a request that was put off, so that the
overflow loop makes room, or fails to. Three descriptors are a listener and two
connections, so that a third finds none; three listens are two in which the second
begins in the callback of the first. Three records of room are one less than a
flight, so that the session stops in the middle of it, and as many as a feed brings, so that
every record of it can be answered; with fewer `NothingStuck` is false. Three bytes are a write of two that is
parked after its first, and one that wants to overtake it. In a buffer of 18 with
pushes of up to 9 a payload of 14 is streamed, and fills or exceeds the buffer with its
header; for a client a payload of 6 is kept, three of them fill `frag_buf` exactly and
three compressed ones of 7 do not fit it; for a server, whose frames have the mask too,
6 and 7 are streamed or kept depending on how they arrive. Two redirects are one that is followed and one that exceeds
nothing yet; the third is refused. The proofs remove the
bounds for all safety properties but `NotEarly`, `MessagesIntact` and `AllDelivered`.

## Fairness

- The loop thread proceeds and callbacks return (header: callbacks must not
  block). It is strong for the loop's step as a whole where callbacks may call the API again
  and again.
- A call that has begun ends: after the unlock it only writes a non-blocking fd.
- A `select` whose wakeup fd is readable does not fail fatally or with EBADF for
  ever. Nothing is assumed of its timeout in `post` and `io`: progress
  there is due to the wakeup alone. `TimelySpec` assumes the timeout too, so that the
  counterexample to `EveryStopExits` is not one of a loop asleep; there the loop goes
  round for ever.
- `timer_live`: time passes in `select`, and `select` returns. `MinWait` is one
  millisecond there, since shorter rounds are not charged.
- `tcp`: a descriptor found writable again and again takes data at some point,
  a due timer is called, a newly accepted descriptor becomes ready.
- `acceptor`: the loop runs on, destroy ends, and the user closes the connections it
  was given in the end; without that a process at its limit of descriptors accepts
  nothing more.
- `ws`: an attempt to connect ends (the transport has a timeout for it, `OpeningEnds` of
  `tcp`), and a peer that neither answers nor asks closes in the end, since the
  handshake has no timeout of its own.
- `http`, `http_pipeline`: callbacks return, posted tasks run
  (`PostsRun` of `post`), and the idle timer of a half closed connection, which
  nothing starts again, is called if it is registered. Nothing is assumed of
  the peer or the user.

## Proofs

All for arbitrary threads, tasks, addresses, descriptors, connections, buffer sizes and
bounds, from the named assumptions of the modules only (the loop is not one of the other
threads, `None` is not a thread or descriptor, bounds are naturals, switches are Boolean).
Where a property holds under a condition on the user or on the surroundings, the
theorem has it as a hypothesis on the constant of that name; the table above says what
happens without it.

**SeventPost.** `NoLostPost` alone is not inductive: whether a pending task
needs a wakeup depends on where the loop is. `WakeInv` says that it is being woken
unless the loop is between drain and take (`io`, `take`), and that a cleared flag
needs a wakeup only at `build` and `select`, since the flag is tested before. Each
action either starts a wakeup, keeps one, or moves the loop to where none is
needed. `Fifo` is inductive with the types; it and the action-by-action mapping
give `Refinement`: `Spec => TaskQueueSpec`.

**SeventIo.** `Inv` joins types, lists and snapshot with three facts: the
list is finite (for its cardinality), there is no snapshot outside the IO phase
(so `run_free_death` releases nothing a snapshot has), and every allocated node
has a registration's number and descriptor. It holds also for callers that
unregister twice: that cannot corrupt memory, only hit the wrong registration.
`OwnUnregisterFinal` needs `OwnInv`: numbers of registrations are given out once, so a
handle names its registration even after its address is used again; no node on the list
has a number that a thread has unregistered or is returning from unregistering; and from
the test of the mark to the call the loop thread calls nothing. Another thread can
unregister in that gap, so `NoCallAfterUnregister` does not follow (it is false).

**TcpConn.** `Inv` adds `Shape` to the properties: no data outside an open
connection, nothing sent before it is open, `told` agrees with the state, and a
read or write callback the loop has decided on cannot meet a connection that is
being established. The last is what makes `CallbackOrder` true though `on_readable`
tests no state: between the decision and the call the loop thread, which alone
opens connections, does nothing else. The order of bytes rests on lemmas on
sequences (`Regroup`, `Enqueued`, `Flushed`, `Split`). `NoUseAfterFree` needs `LifeInv`, who may still be
inside the object at each stage of destroy, and the hypothesis that destroy is not
called in a callback that another thread's write makes; without it TLC refutes it. It speaks of the posted release: when `sevent_post` fails,
destroy releases at once (`destroy_post_fails`), which the code accepts.

**TcpAcceptor.** `OwnedOnce` and `HandedRight` speak of descriptors and of
connections handed over; what an accept does to them depends on the socket it finds.
`SocketInv` says that the object's descriptor is the only listening one and that the
callback kept is the one given with that socket, `ArrivalInv` that connections are numbered
as they arrive and are in one queue or handed over, `DestroyInv` that between the mark
and the close of destroy there is one thread, which is the only one that may still find the
socket open. A close, a listen or a destroy inside `on_accept` is covered, as the loop
goes on with whatever socket it finds.

**SeventTimer.** `NoDrift` follows from `Account`: what has been charged to a timer
and not called for is what it is short of its interval. Phase A of `run_timers` runs over
the list and fills an array of fixed size; `Expired` is that loop as a recursive function,
and its lemmas (who is collected, how often, and who is turned away because the array is
full) are by induction over the list. `TruncDivError` and `ElapsedBound` bound the error of
`ms_elapsed` for every clock rate. `SelectBounded` is inductive with the types.
`UnregisterTakesHold` has no hypothesis: unregistrations may come at any point, also between
the test of the mark and the call. It needs to know that phase B works on timers that are
still allocated (`Held`: what is marked is released only outside `run_timers`), that a timer
is on one list (`OneList`), and that a call after the unregistration is one whose test was
made before (`Window`).

**HttpServer.** The stack has a shape (`StackOK`): `conn_on_data`'s loop or
`on_accept` at the bottom, then `http_process`, then the callback of the request it has
dispatched, and ends of connections on top. With it `Position` says where the
buffer of a connection is in the numbering of what arrived, with and without a callback
running, which gives `RequestsOnce`. `NoUseAfterFree` and `CloseOnce` need `LifeInv`: what
the state of a connection says of where it is still reached from (list, idle timer, stream,
frames, posted tasks), that the task that releases an object is the last one posted for it,
and how far the walk of `srv_cleanup` has come. Many actions only change a state among the
live ones or end one connection, and are treated together. Both have the hypotheses
`Posted = {TRUE}` and `WalkWrites = FALSE`; `RequestsOnce` and `IdleGuard` have none.

**TlsConn.** None of the properties is inductive, since what is going to happen is
on the stack. `Relation` ties the flags, the session and the state of TCP to what the user
has been told. `Shape` says what the stack may look like: with a session it is a handshake,
or a read, flush or write with frames below it that look at the object again before they
do anything; without one, everything on it leaves without touching the session, either
because it looks first or because `tls_send_cipher` has returned -1 to it, and a write that has failed is about
to report an end that has been told already. That gives `NotificationOrder`. `SessionInv` says that
records to send are in the session only while `tls_send_cipher` runs, and received ones
only while a read is going to take them, or the channel is down and a read is going to end
the connection: `NothingStuck` and `EndTold`. For these two a read must not stop for want of
room while the channel is up: `Received` says that what has come is never more than the buffer
has room to answer, which follows from `Sized` (`FeedCap <= OutCap`, and the end of the channel
is not taken for a wait). `BytesInv` has the bytes that the frame on
top still holds next to those in the session and the parked ones: `WriteOrder`. The
lemmas on `SslBackend` (`ReadKeeps`, `HandshakeKeeps`, `WriteKeeps`, `FeedKeeps`) are all
that is used of a session, so that the theorems hold for any library that keeps them.
Hypotheses: `Reopens`, `RegFails` and `NestedClose` are FALSE, as in the run.

**WsConn.** A step is a composition of functions that call back and are called from
callbacks. `WsCallsProofs` proves of each function of `WsCalls` what it keeps, from the
hypothesis that callbacks keep it (`Callbacks`); for a callback in which nothing is called
that is immediate (`QuietKeeps`), which gives the lemmas for the functions in `Nested`,
hence `Callbacks` for a callback in which the user calls one of them (`CallbackKeeps`),
hence the lemmas for the functions around it. What is kept is `Good`, which has two parts.
`Told` ties the history to the state (an end that was told has closed the state, the
stream and the timer; a user who has closed has a destroyed object) and holds also in the
middle of a function. `Live` says what each state means for the stream and the
compressor: for example that in OPEN nothing has been sent behind a close frame, and that
the compressor's context is the one the peer has. `Keeps` says what no function changes,
so that the caller can go on after it: that the state went on and not back is why an end
is not told again after a callback has ended the connection. `Made` adds that the
compressor is what the handshake has agreed on (`ServerAgrees`, `ClientAgrees`). `ConnInv`, of the three, is inductive, with one
lemma for each step of the loop. Hypotheses: `LateFails` and `Talkative` are FALSE.
`InSync` has no other: dropped messages, answers with `client_no_context_takeover` and windows
of 8 bits are covered, and what it excepts is part of its statement. `InStep` says that
a compressor that resets is at 0, and another one is where the peer is, as long as nothing was
dropped and the peer does not reset.

**WsRecv.** `BufferFits` depends only on lengths, but every function moves bytes, and the
user may close or destroy in any callback. `RecvInv` says, next to the types, that no frame
is being streamed while frames are processed, and that between pushes either a frame is
being streamed and the buffer is empty, or the buffer holds the beginning of a frame that
is not streamed, which is at most half of it. The lemmas follow the calls: `Told` for what
a callback can do, `Kept` for the functions that work on a message and leave the receive
buffer alone. Hypotheses of `ReceiveBufferFits`: half of the buffer is at least 13 bytes,
so that a part of a header does not exceed it (`HeaderFits`; `recv_cap` is at least 1024,
`ws_conn.c:57`), and inflate refuses nothing of a frame that is streamed (`StreamIntact`).
Without the second it is not true (`"corrupt_part"` in the table above); the guard at
`ws_conn.c:1128` then ends the connection. `ReceiveBufferFitsAlways` needs only the first
where compression is off or inflate refuses nothing. The run `ws_recv` has a buffer of 18
bytes and is outside `HeaderFits`; its payloads are all below 126 bytes, whose headers are
2 or 6 bytes long.

**DataLemmas.** The prover cannot instantiate the library's induction theorems, whose
parameter is an operator. `LeastNumber` gets a least element of a set of naturals from
well-foundedness; `Upward` is induction stated about a set, `Recursion` says that a
recursive function over `0 .. n` has the values its definition gives. With these, what a
loop over a list computes is proved for every list.

Left to TLC: all liveness (fairness is beyond the prover); `NotEarly` of `SeventTimer`,
whose history is cut off at `MaxSlack`, so that it is true only where that bound is large
enough; `MessagesIntact` and `AllDelivered` of `WsRecv`, which speak of the contents of messages: a
proof would follow every byte through the mask, the fragments and inflate.

## Not modelled

Listed with reasons in `PROJECT.json`: the stream facade (no state), the mbedTLS adapter,
the text of HTTP, DNS, SHA-1, Base64, start-up of the wakeup fd; within TCP
`set_callbacks` and `set_no_delay`; within TLS `shutdown`, `set_callbacks` and hostnames;
within WebSockets calls from other threads with the lock, the level NONE of compression,
a failing compression. Of the two locks at `ws_conn.c:1728` (a sender takes the
WebSocket's and then the transport's, a callback of the transport the other way round) a
model would show the cycle and nothing else. Outside `TcpConn` and `HttpServer` a
`sevent_post` that fails in destroy, which releases the object at once, is left out. Without tasks to run and without handles
`sevent_run` spins (line 497), and it ignores the error of `sevent_run_once`; both
are visible in `SeventPost` as rounds that change nothing. `sevent_destroy` drops
tasks that have not run, as documented, and with them posted releases. The comment
at `sevent.c:499` says that registering a timer does not wake the loop; line 636
does wake it, and `SelectBounded` depends on it.

## Plan

1. An abstract stream (opened, data, one end) that `TcpConn` and `TlsConn` implement, with
   the refinement proved from `Inv` of their proof modules.
2. `MessagesIntact` of `WsRecv` for every `Cap`, first for messages that are not compressed.
3. `open` and `accept` of `TcpConn` split into their unlocked steps.
