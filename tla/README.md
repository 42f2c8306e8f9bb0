# A TLA+ verification of proven_c_lib

proven_c_lib is a C23 systems library: allocators, containers, text, files and
streams, a job scheduler, compression, and a network stack (sockets, an event
loop over epoll, kqueue, poll, IOCP and io_uring, TLS, HTTP/1.1, HTTP/2, HTTP/3
over QUIC, WebSocket) built without dependencies. This directory holds TLA+
models of the parts whose correctness depends on the *order* in which things
happen, the TLC configurations that check them, and TLAPS proofs of the facts
that matter most. Paths below are relative to the repository (`job.c` is
`src/src/proven/job.c`, `loop.c` is `src/net/src/loop.c` when seen from the
directory that holds the repository as `src/`).

Run a configuration with `tlc -config X.cfg M`, a proof with `tlapm M.tla`;
`PROJECT.json` lists every run, what it checks, the source lines each definition
models, a mutation of the code that each property catches, the hazards the
properties are aimed at, and the disagreements between code and documentation
that the models showed.

## 1. Inventory

| Component | State it keeps | Operations | What is hard | What makes it correct |
|---|---|---|---|---|
| **Job scheduler** (`job.c`, `proven_internal_jobseq.h`) | a ring of cells with sequence numbers, two positions, an admission word (closed bit + submitters inside), a semaphore, group counters | `init`, `submit`, `submit_group`, `execute_one`, `group_wait`, `close`, `destroy`, the workers | lock-free, counters that wrap, permits that race with publication, shutdown against late submitters | each accepted job runs exactly once, no cell is touched by two threads, a worker leaves only when nothing can come, destroy frees what nobody uses |
| **Event loop: timers** (`loop.c`) | a wheel of slots, a list of due timers, the clock read once a round | `timer_set`, `timer_cancel`, advance, next deadline | timers of several turns share a slot; callbacks change the lists being walked; slot boundaries | never early, in order, none left behind, a sleep that neither spins nor overshoots |
| **Event loop: sockets over a selector** (`loop.c`) | per node: state, flags, watched directions, queued bytes, done bits; the done list; the batch | attach, connect, recv, recv_cancel, send, commit, flush, send_wait, accept, accept_cancel, UDP recv/send_wait, close, destroy | callbacks that call back into the loop in the middle of a pass; events collected before a close; refused registrations | each operation answered once, `closed` last, no pointer to a node given back, queued bytes always have somebody to write them |
| **Event loop: sockets over a completion port** (`loop.c`) | as above, with operations the system holds (`OVERLAPPED`), buffers of a multishot receive | the same | the system owns memory until it reports; cancel races completion; destroy must drain | memory is given back only when the system holds none of it, bytes in order |
| **Event loop: posting and rounds** (`loop.c`) | a lock-free stack of tasks, the `woken` flag, the stop flag, the "after" list | `post`, `stop`, `after`, `poll`, `run`, `destroy` | wake-ups that race with the decision to sleep, memory used again, fairness inside a round | posted functions are called, once, in order; the loop never sleeps on work; stop ends the run |
| **Selector and sockets** (`net/src/net.c`, `net/platform`) | a table of registrations | register, change, wait | thin calls of the system | what the loop relies on: level-triggered reports of what is registered |
| **Memory and allocators** (`heap`, `arena`, `pool`, `memory`) | chunks, a bump pointer and marks; a free list | alloc, realloc, free, mark, reset | overflow of sizes, alignment, order of marks | live blocks never overlap |
| **Containers** (`array`, `buffer`, `ring`, `list.h`, `map`, `algorithm`) | counts, indices, slots with tombstones | push, pop, put, get, remove, rehash | wrap, tombstones, growth that fails half way | the abstract sequence or map |
| **Text and encodings** | none | parse, format, convert | numeric edges | round trips |
| **Files, streams, processes** (`fs`, `stream`, `sysio`, `mmap`) | buffers with positions, sticky errors; temporary file and rename | read, write, flush, seek, atomic replace | short counts, errors half way, crash between steps | no byte lost or doubled |
| **HTTP/1, client and server** (`http*.c`) | parser state, body length left, pooled connections | request, response, keep-alive, redirect, retry | reuse of a connection whose body is unread; a retry of what was already done | framing never slips |
| **HTTP on the event loop** (`http_event*.c`) | one state machine per connection, requests being answered elsewhere | parse, dispatch, answer, stream, time out, close | answers from other threads after the connection is gone | one answer for each request, in order |
| **HTTP/2** (`h2_conn.c`, `h2.c`, `hpack.c`) | stream table, four windows, settings in flight, a dynamic table | frames in and out | windows that go negative, GOAWAY racing new streams, both peers' tables in step | flow control is never exceeded, headers decode alike on both sides |
| **HTTP/3 and QUIC** (`quic_*.c`, `h3_*.c`, `qpack*.c`) | packet spaces, sent packets, streams, keys | packets, acknowledgement, loss, probe, key update, close | loss, reordering, duplication, amplification limit, deadlock of blocked streams | each byte once and in order, progress |
| **TLS** (`tls13*.c`, `tls12*.c`) | handshake state, keys of two directions, alerts | handshake messages, key update, close_notify | order of messages and keys | both sides agree, nothing accepted before it may be |
| **WebSocket, SSE** (`ws_*.c`, `sse*.c`) | frame parser, message being put together, closing state | frames in and out, ping, close | control frames inside a message, both sides closing at once | messages whole and in order, one close each way |
| **Compression** | bit readers, windows | inflate, deflate | bit-level | round trip (tests, fuzzing) |
| **Cryptography, certificates** | none to speak of | hashes, ciphers, curves | big numbers | vectors |
| **Time, random, environment, panic** | little | one system call each | - | - |

How they interact: the HTTP, WebSocket, HTTP/2 and HTTP/3 servers sit on the
event loop through its function tables (`received`, `writable`, `closed`, ...)
and rely on its three promises (`loop.h`): everything runs on the loop's
thread, every operation started is answered exactly once, and `closed` comes
last, after which the memory is the owner's. Other threads reach a loop only
through `proven_loop_post` and `proven_loop_stop`. The job scheduler is used by
servers to run handlers elsewhere, whose answers come back by `post`. TLS, HPACK
and QPACK are pure state machines driven by bytes.

## 2. The modules and the code

Each definition that models code is listed in `PROJECT.json` under `map` with
the lines it stands for. Names follow the source where TLA+ allows it.

### JobSystem (`job.c`, `proven_internal_jobseq.h`)

One step per access of a shared atomic; a thread's `pc` names the access it is
about to make: `s_*` in submit, `x_*` in `execute_one`, the others in the worker,
the waiter, close, init and destroy. `sequence` and `data` are the cells,
`closed` and `active` the two halves of `admission_state`, `work_ready` the
semaphore, `pending` the groups' counters, `held` what init has acquired.
Positions are kept unwrapped as ghosts, but every comparison the code makes goes
through `Same` and `CellState`, which see residues modulo the counter's range
only; the run starts just below the wrap (`StartPos = 6` of a range of 8). A weak
compare-exchange that fails spuriously is a stuttering step. Atomics are taken as
sequentially consistent: the code orders every hand-over by acquire and release
on the word that hands over, and weaker reorderings of unrelated words are outside
the model.

### LoopTimers (`loop.c`, the wheel)

`wheel`, `due` and each timer's `state` and `tick` are the lists and fields of
the code, `now` is the clock. `TimerSet` and `TimerCancel` may happen in every
callback, also while the due list is being fired; `Sleep` computes
`loop_next_timer`, `Fire` calls the first of the due list. `loop_timers_advance` is
walked as the code walks it: `AdvanceBegins` finds the first slot, `Move` takes the next
due timer of the slot visited to its place on the due list, `NextSlot` goes on,
`AdvanceEnds` says where the wheel stands. The code reads the clock once at its
beginning, so no time passes in the model while `stage` is `"move"`; what passes then
in the world is seen after it.

### LoopSelector, LoopPromise (`loop.c` over epoll, kqueue, poll; `loop.h`)

`nd` holds the fields of each socket, acceptor and UDP socket; `doneList` and
`pass` are the list of nodes with answers to give and the part of it under way;
`batch` is the set of what the selector reported. A callback is a stretch of time
(`call # NoCall`) in which the program makes any calls; what the loop has still
to do for that node is the set `todo`, done in the order `DeliveryOrder` gives. The operating system's part (partial writes,
errors, refused registrations, what is reported when) is chosen freely.
`LoopPromise` is the abstract specification: the rules of `loop.h` for any
backend, with three variables and no list, flag or event. `KeepsPromise` states
that `LoopSelector` implements it under the mapping given at the end of that
module.

### LoopWake (`loop.c`, post, stop, after, the round)

The stack of tasks with its `next` pointers over a fixed set of memory cells, so
that a cell freed by the loop may be handed out again between a poster's read of
the head and its exchange; the `woken` flag and the port's queue, or the waker's
pipe; the order of `proven_loop_poll`. Sockets and timers appear as a number of
callbacks that may come. What the code reads off the stack by following `next` is
`Chain`, the one sequence of cells that goes down from the head (`Down`).

### H2Conn (`h2_conn.c`)

Both ends of a connection are the library's (`end["client"]`, `end["server"]`,
each a record of the fields of `struct proven_h2_conn`). They are joined by their
output: the frames of `end[e].out` are read in order by the other end, and a frame
leaves the output (`proven_h2_conn_output_sent`) when the peer begins to read it,
so the transport is part of the output and its capacity is `CfgOut`. Everything a
handler does is an operator from one state of an end to the next (`ConnCredit`,
`StreamCredit`, `RemoveStream`, `OnSettings`, ... each named for its function);
an action applies it to one end (or, for `ReadFrame`, to the reader and the
sender). A DATA frame is read in pieces, with any other step between two of them.
What is due (`h2c_due`) comes before what is new. `fast` in `Consumed` stands for
the clock that decides whether a window grows. A body is a number of units, a
header list is well formed. Each behaviour follows a `plan`, the calls the two
applications have left: TLC explores one plan at a time, all of their
interleavings. What a window, a frame or the held bodies add up to is a cardinality
(`Total`), so that it can be proved about. `CountsAgree` at the end of the module is
what the equations of `WindowsAgree` need to hold from step to step (section 5).

### QuicStreams (`quic_conn.c`, the application space)

Two established ends: send and receive queues of streams, both levels of flow
control and their growth, the limit on streams, stop and reset, the record of
what is in flight, acknowledgements, loss, and what is sent again. Bytes are their
offsets. `Send` fills a packet in the order of `send_app`; `Receive` is
`read_packet` and its frames; `Lose` and `Probe` are the loss timer and the probe
timeout. The network (`net`) is a set of packets: any of them may be read next,
be lost, or be read and stay. Time is left out: what the code does after a delay
may happen at any moment, and so may the congestion window hold a packet back. How many
packets `seal` keeps on record (`QC_MAX_SENT`) is a number of the plan; what a probe
carries that goes out past it is kept in `unkept`, for the properties only.

### QuicHandshake (`quic_conn.c`, three packet spaces)

The same ends before that: the Initial, Handshake and 1-RTT spaces with their
keys and their discarding, CRYPTO data as units of TLS messages, the
amplification limit and the validation of an address, coalesced packets in
datagrams of `Full` units, packets held for keys to come, the loss and probe
timer as `set_loss_timer` arms it, HANDSHAKE_DONE, and the close states. A plan
that is not `hasty` lets a probe timeout run out only when nothing is under way.

### QuicKeys (`quic_conn.c`, key update)

The write and read generations, the phase bit, the previous key kept for a while,
the rules for starting and following an update, over a path that reorders.

### Qpack (`qpack.c`, `h3_conn.c`)

The encoder's dynamic table with its references (`outs`), the decoder's, the
encoder's and the decoder's streams and the streams that carry sections, each
ordered and none waiting for another; the known count, insert count wrapped at
twice the entries, eviction, acknowledgement, cancellation, and a section that
waits (`st_qblock`). `plan.eager` is a foreign encoder that refers to entries not
yet acknowledged; it is written from what the decoder expects of it.

### TlsEnd, Tls13, Tls12, TlsConn (`tls13.c`, `tls12` parts of it)

`TlsEnd` is what one end holds and how it seals; `Tls13` and `Tls12` are the
handshakes as operators from a state of an end and a message to the next state;
`TlsConn` joins two ends by wires that keep order and lets the programs write,
update keys, close and be asked for a handshake at any moment. A message stands
for its content as far as the other end acts on it, a secret for the transcript
it is derived from, a record for the key that sealed it. A record has a length
(`LengthOf`), the data in it and what every record adds: `early_left` at both ends counts
the data, `early_skip` and the output waiting count the records. The data of a program
comes in records of one size (`plan.size`), and the constants keep the code's proportions:
refused records are passed over up to four times the early data allowed, which is enough
for records of some size and not for tiny ones; the largest records fit the output bound
once and pass it with the second, as `tls_write` looks at the bound before it seals.

### HttpEventClient (`http_event_client.c`)

Handlers run to their end on the loop's thread, so each is an operator from one
state of the client to the next, and an action applies one. Calls that a handler
makes and that may come back to it (`on_done` starting or ending a request) go
through `todo`, a list of what is still to be done, so that their order is the
code's. `net` holds, for each connection, the units the server received and the
answers under way.

### HttpEventServer (`http_event.c`)

Written as the client is: `sv` is the server with its connections, listeners and
list, each function of the code an operator on it, and `todo` holds the calls that
may come back to it (`on_request`, `on_body`, `on_done`, what the loop reports) in
the order of the code. `ev_process` is `Process`, `Step` (a head, a piece of a
body) and `ProcessEnd`; `delivering` and `deferred` are the fields by which a
request waits while another connection's is being delivered. `net` is what the
system has of each connection (`up` not yet read, `down` of `Room` units), `held`
what the loop queues beyond it. `plan` says what the clients send and which calls
the program makes from which callback (`onRequest`, `onLast`, `onDone`), later
from the loop (`later`), and on the server (`ops`); every other order is open.

### WsConn (`ws_conn.c`, `ws_event.c` over `http_event.c`)

A blocking client (`b`) and a connection of the event server (`e`), joined by
what TCP holds (`up`, `down`). A frame is a head, units, and control frames
between parts; a compressed unit carries how much went through its compressor
before it, the window its reader must have. The server's part includes the raw
output and reading of `http_event.c` that it stands on (stash, pause,
`send_wait`, time limits, the delayed close).

### Plans and compositions

`QuicPlans`, `QpackPlans`, `HttpClientPlans`, `HttpServerPlans`, `WsPlans` and
`MCH2Conn` hold the plans of calls and faults. `MCLoop`, `MCStreams` and `MCNetwork`
put models of neighbouring questions into one run (`MCNetwork` extends `LoopWake` and
`QuicKeys`, so that TLC evaluates their assumptions too): the models share no variable,
the initial state chooses which part a behaviour follows, and the others stay as they
began. A property of a part is stated of the behaviours that follow it, so a run says
of each part what a run of its own would.

## 3. The runs

| Run | What it checks | Bounds |
|---|---|---|
| `job_queue` | `NoDataRace`, `SchedulerInv`, `RunsOnce`, `NoUseAfterFree`, `GroupZeroMeansDone`, deadlock | ring of 2, counter of 8, 1 worker, 2 clients, 3 jobs, 1 group |
| `job_liveness` | `AcceptedJobRuns`, `DestroyReturns` | 2 workers, 2 clients, 2 jobs, ring of 2, creation of either worker may fail |
| `event_loop`, timers | `FiresOnTime`, `SleepIsRight`, `DueFires` | 2 timers, 2 slots of 2 units, scan of 1, clock to 9 |
| `event_loop`, sockets | `KeepsPromise` (refinement), `CloseEnds` | 1 socket, 1 UDP socket, 1 unit, 2 passes, refused registrations |
| `event_loop`, HTTP client | `OneAnswerEach`, `NoWaiterStranded` | 3 requests, 4 connections, 1 kept, 2 waiting, 15 plans |
| `event_loop`, WebSocket | `MessagesArrive`, `NothingLeftBehind` | messages to 5 units, 3 tokens each way, 12 plans |
| `loop_selector` | `SelectorInv`, `AnsweredExactlyOnce`, `NothingPointsAtFreed`, `NothingStranded` | 1 socket, 1 acceptor, 2 units, 2 passes |
| `loop_timers_late` | `NeverLate` is **violated** | the timers of `event_loop` |
| `loop_selector_rearm` | `AnsweredExactlyOnce` is **violated** | 1 socket |
| `loop_wake_live` | `PostedIsCalled`, `RoundsGoOn` | 1 post, callbacks that ask again for ever, both backends, refused posts, failed waits |
| `streams`, HTTP/2 | `NoPeerFault`, `RefusalsAreRight`, `WindowsAgree`, `NothingStalls` | 2 streams, windows of 3 units, frames of 2, growth to 6, 11 plans |
| `streams`, QUIC | `NoPeerFault`, `Intact`, `NothingForgotten`, `AccountsAgree`, `NoStall` | 2 streams, windows of 2 and 3, 3 to 6 packets an end, 2 or 3 on record, 2 under way, 15 plans |
| `streams`, QPACK | `TablesAgree` | a table of 4 entries, 5 at most, 3 streams, 4 sections, 1 may wait, 5 plans |
| `h2_stream_stall` | `StreamNeverStalls` is **violated** | 1 upload, one lowering |
| `network`, handshake | `NeverSleepsUnconfirmed`, `EndsAgree` | flights to 7 units, datagrams of 2, 2 losses, 2 under way, 8 plans |
| `network`, keys | `KeysMeet` | 6 packets, 2 under way, an update each packet at the earliest |
| `network`, TLS | `NoHonestAlert`, `SecretsAgree`, `DataIsWhole` | early data of 3 units, 12 units passed over, 4 a record, output of 45 units, 2 records under way each way, 33 programs |
| `network`, HTTP server | `AnsweredInOrder`, `NobodyStranded` | 3 requests, 2 clients, output bound of 1 unit, 2 units in a socket, 26 plans |
| `network`, posts | `PostsAreServed` | 1 other thread, 2 cells, 2 posts, both backends |
| `quic_stop` | `StopGivesBack` is **violated** | 1 upload, one stop |
| `http_client_held` | `WholeRequests` is **violated** | 2 requests, one reset |

What the properties say is in the comment above each. Some gather several parts
under one name: `PostsAreServed` is `InPostOrder` and `NoLostWake`, `FiresOnTime`
contains `ListsAgree`, `NothingPointsAtFreed` contains `LinksAgree`, `SchedulerInv` and
`SelectorInv` contain the type invariants of their modules, `TablesAgree` contains `SectionsAreRead`, `NoPeerFault` is the `NoFault` of
both kinds of streams and contains the type invariant of `H2Conn`.

Why the bounds are enough for what is asked:

- *Job queue.* A ring of two cells and three jobs reuses a cell while an earlier
  claim on it is unfinished; the counter wraps inside the run; two clients and a
  worker give two submitters, two consumers, a closer against a submitter, and a
  waiter that helps. The safety of the ring does not rest on the bounds: it is
  proved (section 5). Clients, jobs and workers are interchangeable, so the
  invariant run uses symmetry; the liveness run does not. The liveness run has two
  workers, the fewest of which one can be parked while the other spends its permit or
  leaves, and of which one can run while the creation of the other fails. Both
  clients submit, and one closes while the other may run jobs itself; waiters that help
  are in `job_queue` only, for the states.
- *Timers.* Delays go from nothing to more than a turn of the wheel, the clock
  passes two turns and a half, and a scan limit of one is exceeded by a second
  timer in the slot: a timer of a later turn hides the one behind it.
- *Selector.* Two nodes are the fewest that share a done list and a batch; two
  units and a limit of two allow a partial write, a full queue and a wait for
  less than all of it. A second socket multiplies the states without a new pair
  of roles: the acceptor is the other node.
- *Wake.* Two cells and two posts are the fewest in which a cell comes back (the
  ABA case). A pipe of one wake makes "would block" happen.
- *HTTP/2.* A window of three units and frames of two give partial sends, batches
  and windows below zero; the output bound of three is reached by bodies and by
  answers. Two streams are enough for goodbyes that name the first and for a limit
  of one; the endings of both are remembered (`ServerStreams = 2`), so the
  "forgotten" exception of `NoFault` does not arise in this instance. No plan of
  the passing run lifts a ceiling (observation below); `PlansTighten` in `MCH2Conn` has
  TLC confirm it, as it is the hypothesis of a theorem (`NobodyStalls`, section 5).
- *QUIC streams.* A body of three or four units is more than either window, so
  credit has to come and be lost on its way; two packets under way is the least
  in which two overtake each other; a plan has up to two losses, which lose a
  packet and what was sent again for it, or a packet and the acknowledgement. Two plans
  have a reader that stops while a loss is still to come, of an upload and of a response;
  in one an end may have two packets on record and sends a third, a probe, without one.
- *Handshake.* A flight of seven units in datagrams of two is more than three
  times the first datagram, so the server runs into the amplification limit and
  a loss there leaves both ends waiting unless somebody's timer is armed.
- *Keys.* Six packets are enough for an update of each end to cross, a late
  packet of the generation before, and the next update.
- *TLS.* One record of data each way before and after the handshake. Early data of
  three units is two records where programs write two at a time, both passed over when it
  is refused (11 of 12), and three tiny ones of which the third is one too many (15), on
  either way of refusing: by a retry, and by a ticket that is not known. Two of the largest
  records (24 each) are more output than the bound (45), so an end can be asked for new keys
  with less waiting, with as much, or with more. Every other program closes or updates
  while the other end's records are under way.
- *QPACK.* Full tables in which every insert evicts; the insert count starts at 9
  of a wrap of 10, so sections are decoded on both sides of the wrap.
- *HTTP client.* A third request is the fewest for which one holds a connection,
  one waits and one is started from inside a callback. The fourth cell for
  connections makes room for both tries of a request beside the others.
- *HTTP server.* Two connections are the fewest in which one's callback touches the
  other, and two requests on the first the fewest that are pipelined. A response of
  two to four units passes the output bound and the socket's room; a limit of one
  or two connections (by plan) makes the server full.
- *WebSocket.* Three tokens on the wire cut every frame; `MaxBuffered` of two is
  passed by one message; a message longer than the limit is in the plans.

`CHECK_DEADLOCK FALSE` stands where the system may stop: a loop nobody calls, the
clock's end, a connection whose applications have nothing left to say. The job
system must not deadlock; there the end (`Over`) is a step of its own.

## 4. Fairness

- *JobSystem* (in `job_liveness`): weak fairness of each thread's own steps. The operating system
  schedules every runnable thread; a thread blocked on the semaphore has no step.
  What a client decides to call is not fair: nobody has to submit, help or close.
- *LoopTimers* (in `event_loop`): the loop's thread runs (weak fairness) and time
  passes (strong fairness, as the model lets none pass between the steps of
  `loop_timers_advance`, which come round again and again).
- *LoopSelector* (in `event_loop`): the loop's thread goes on (its callbacks return: "a callback
  must not wait", `loop.h`); what the selector reports and what the program calls
  is not fair.
- *LoopWake* (in `loop_wake_live`): the same, with strong fairness of a callback's
  return, since it may be put off again and again by the calls it makes, and weak
  fairness of a thread that is inside `post` or `stop`.
- The other models have safety only. That connections, streams, handshakes,
  tables and requests do not stall is stated as an invariant of quiet states
  (nothing under way, nothing due, no timer armed): it needs no fairness and is
  stronger, as it says that there is no state to be stuck in.

## 5. What is proved

### The job scheduler

`JobSystemProofs` proves, for every set of threads, jobs and groups, every capacity that
divides the counter's range and every starting position:

| Theorem | Says |
|---|---|
| `TypeCorrect` | `Spec => []TypeOK` |
| `RingCorrect` | `Spec /\ []NoLap => []RingInv` |
| `DataRaceFree` | `Spec /\ []NoLap => []NoDataRace`: no two threads are ever inside one cell |
| `JobsCorrect` | `Spec /\ []NoLap => []JobInv` |
| `JobRunsOnce` | `Spec /\ []NoLap => []RunsOnce`: no job runs twice, none refused runs |
| `FreedWhenUnused` | `Spec => []NoUseAfterFree`, whatever the ring does |
| `GroupsCorrect` | `Spec /\ []NoLap => []CountInv` |
| `GroupZeroIsDone` | `Spec /\ []NoLap => []GroupZeroMeansDone` |
| `ClaimsCorrect` | `Spec /\ []NoLap => [](ClaimInv /\ EndsInOrder)`: each position is won for one job; no more are taken out than were put in, nor more put in than that and a ring's worth |
| `SchedulerInvariant` | `Spec /\ []NoLap => []SchedulerInv`, the five parts below and `TypeOK` |
| `NeverLapped` | with fewer jobs than a lap of the counter, `Spec => []NoLap` |
| `SchedulerCorrect` | with fewer jobs than a lap, `Spec => [](NoDataRace /\ RunsOnce /\ GroupZeroMeansDone)` |

None of the properties is inductive, and `SchedulerInv` is the strengthening. Its
parts build on each other:

- `RingInv`. That two threads cannot meet in a cell follows from what the sequence
  numbers say about everybody else: `WindowInv` (at most a ring's worth of positions
  between the two ends), `CellInv` (each cell's number says that it is free for, or
  being filled at, a position whose cell it is, or holds what was published one
  before), `PositionInv` (what a thread knows at each label: a claim made at the
  position it read still finds the number it read) and `DistinctInv` (two claims of a
  kind are of different positions). The arithmetic of residues (`ModUnique`,
  `CellLap`, `SameEqual`, `ReadyEqual`) is proved first.
- `JobInv`, for `RunsOnce`: a job's status says where it is (`ThreadHasJob`,
  `CellHasJob`), and it is in one place only (`OnePlace`): with one thread offering
  it, in one cell, or with one thread running it. A handover moves the job from a
  thread to the cell of its position and back; that the cell is empty before and full
  after is what `RingInv` says of its number.
- `CountInv`, for `GroupZeroMeansDone`: a group's counter is the number of threads
  and cells that still have a job of it, a cardinality, so each step shows which set
  loses or gains one element.
- `ClaimInv`, for `NeverLapped`: a position is won for a job and never twice for one,
  so the submit end is at most as far from its start as there are jobs. With `WindowInv`
  it gives `EndsInOrder`, the ring's ends in terms of jobs.
- `LifeInv`, for `NoUseAfterFree`: who may be at work while the owner initialises,
  closes, joins and frees.

Each has one lemma for each action that touches it and a frame lemma for the rest.
`SchedulerInv` is an invariant of `job_queue`, so TLC has checked what the proofs are
about, and a mutant of the pop side (`ExecuteCheckSamePos`) breaks it.

The proviso: `NoLap` says that no thread sleeps between reading a cell and its
compare-exchange while 2^64 claims are made. Without it the code is wrong in
principle (a residue returns). `RingCorrect` says that this is the only way, and
`NeverLapped` that it takes 2^64 jobs. The assumptions on constants are
`SizeAssumption` (a power of two in the code, of which only "divides the range" is
needed) and `ThreadAssumption`.

### The event loop over a selector

`LoopSelectorProofs` proves, for every set of sockets, acceptors and UDP sockets, every
limit and number of passes, a selector that may refuse a change or not, and every
program that keeps to one rule (below):

| Theorem | Says |
|---|---|
| `SelectorCorrect` | `Spec => []SelectorInv` |
| `AnswersCorrect` | `Spec => []AnsweredExactlyOnce`: what was started and not answered is in flight or on its way, once |
| `NothingFreedIsPointedAt` | `Spec => []NothingPointsAtFreed`: no list, event or registration of a socket given back, and the lists are whole |
| `SentBytesGoOut` | `Spec => []NothingStranded`: bytes held always have somebody to write them |
| `ImplementsPromise` | `Spec => KeepsPromise`: the backend implements `LoopPromise` |

`SelectorInv` is the inductive invariant, checked by `loop_selector`. The properties are
not inductive because a callback may call anything while the loop is in the middle of a
node, so the invariant says for each node how four things agree: its fields, the list
it is linked on, the items left to do of it (`Left`), and what it is owed.

- `ThreadInv`: one node is handled at a time; in which phase its items can be there;
  that a connection's end is come to before the program runs again (a `connected` left
  undone while the program runs could be answered twice); and that every event
  collected is of a node still registered.
- `LinkInv`: a node is on the done list or in the pass being delivered, once, exactly
  if F_QUEUED says so and exactly if something is due.
- `LifeOK`: an unused socket has nothing left anywhere; one that closes is out of the
  selector and has `closed` on its way with no answer behind it.
- `SockOK`, `UdpOK`, `AccOK`: when a receive in flight and its answer exclude each other
  (a socket's answer ends the receive, a UDP socket's does not), and the debts.

There is one lemma for each call of the program's and for each item of the loop's, and
each gives two things at once: the invariant in the next state, and that the step is one
of `LoopPromise` or changes nothing it sees (`Promised`). What the steps share is in
`AppStep` (a call of the program's changes one node and may queue it), `DoStep` (the loop
does one item of one node), `SockDo`, `SockAnswer` and `UdpDo`.

The rule is `Rearm = FALSE`: no receive is started while the answer of a cancelled one is
still to come. It is a hypothesis of the theorems because without it the first is false
(`loop_selector_rearm`, section 6). The assumption on constants, `SelectorAssumption`,
says that the three kinds of objects are different.

Writing the proofs changed the model in two places. What is left to do of a node and the
events collected were sequences of which only the order of kinds mattered; they are sets
now, with the order of delivery as a rank (`DeliveryOrder`). And two arms of the mapping's
`Life` overlapped for acceptors, which are never attached.

### Posting to a loop, and waking it

`LoopWakeProofs` proves, for every set of threads and of after objects, every finite set
of memory cells, every number of posts, both backends, and a port that may refuse a post
and a wait that may fail, or not:

| Theorem | Says |
|---|---|
| `PostsCorrect` | `Spec => []PostInv` |
| `PostsServed` | `Spec => []PostsAreServed`: functions are called in the order posted, once each, no cell leaks, and the loop does not sleep over a post, a stop or a callback it owes |

`PostInv` is the inductive invariant. Its parts:

- `CellInv`. A cell of memory in use is on the stack, or taken off it, or with the one
  thread that is posting it. This is what makes the ABA case harmless: a thread's exchange
  may succeed with a head that was freed and handed out again in between, but its own cell
  then links to what *is* the head, and nothing else of the stack is assumed. That the cells
  reached by `next` are the same before and after a step that touches no link of theirs is
  `SameStack`; that there is one such sequence only is `DescentsAgree`.
- `OrderInv`. `posted` is, entry by entry, what `ran` holds, then `ordered`, then the stack
  turned round. `EndToEnd` turns it into the equation of sequences in `InPostOrder`.
- `WakeInv`. Over a port at most one wake-up is on its way: with the thread that posts it,
  in the port's queue, or taken out and not yet reported; `woken` says that there is one.
  Over a selector `woken` is never set.
- `RoundInv`. In which steps of a round the loop's thread can owe what: between the decision
  to sleep and the sleep nothing runs that could queue a callback.
- `SleepInv`. From the moment of the look that found the stack empty, whoever pushes is
  followed by a wake-up that has not been consumed; the same for `stop` from the moment
  `proven_loop_run` looked at it. `NoLostWake` alone is not inductive: it speaks of a loop
  that sleeps already, and the race is between the look and the sleep.

A refused post of the port (`refused`) is the exception in the code (section 6). The
assumption on constants is `WakeAssumption`; that the set of cells is finite is used for
one thing, that a stack without a cell twice is no longer than there are cells.

### The timer wheel

`LoopTimersProofs` proves, for every finite set of timers, every number of slots, length
of a tick, limit of the scan and set of delays:

| Theorem | Says |
|---|---|
| `TimersCorrect` | `TimersSpec => []TimerInv` |
| `TimersFireOnTime` | `TimersSpec => []FiresOnTime`: none early, in order of due time, each on the list it is looked for on |
| `SleepsAreRight` | `TimersSpec => []SleepIsRight`: what `loop_next_timer` answers; late only where the present slot is `Crowded`, and then the end of the tick |

`TimerInv` is the inductive invariant. Its parts:

- `ListsAgree`. A slot's list holds exactly the timers on the wheel whose time falls in
  it, each once, the due list those that are due, and `timed_count` is their number.
- `TimesInv`. No timer on the wheel is of a tick before the one the wheel stands in.
  `timer_set` keeps this by raising a time that has passed (`DueTimeIsRight`), and
  `loop_next_timer` relies on it: without it a scan that begins at `wheel_tick` would
  miss a timer.
- `MoveInv`. During the walk nothing that is due is left in the slots passed. With
  `TurnVisitsAll` (any `Slots` ticks in a row come by every slot) it gives `TimesInv`
  at the end, also when the wheel jumps over several turns and every slot is visited once.
- `SleepInv`. While the loop sleeps, its end is as `SleepIsRight` says *whatever the time
  is by then*. `SleepIsRight` is not inductive, as it speaks of the present time.

`DeadlineIsRight` is about the scan. Where it gives up in a slot after the present one it
answers with the beginning of that slot, which is no later than any timer from there on;
where it gives up in the present one, what it has looked at is what `Crowded` says
(`LookedInFirst`). `CrowdedFrame` carries this over the steps of a sleep. `InsertKeepsOrder` is the walk back from the
tail, `HoldsWithout`, `HoldsInserted` and `OrderInserted` are the lists' links.

The proof changed the model: the walk was one step, a fold over the slots, of which
nothing can be proved here; it is now the code's own loop. Of
`TimerAssumption` the proof uses no bound of the clock.

### The keys of a QUIC connection

`QuicKeysProofs` proves, for every number of packets after which an end updates, and every
bound of the model:

| Theorem | Says |
|---|---|
| `KeysCorrect` | `KeysSpec => []KeysInv` |
| `KeysAlwaysMeet` | `KeysSpec => []KeysMeet`: the ends are never two keys apart, and a packet that ought to open does |

`KeysMeet` is not inductive, for it says nothing of what the packets under way will do when
they are read. `KeysInv` adds, for each end with the packets from it and to it (`Agree`):
one generation for writing and reading with its parity as the phase (`OwnKeys`); packets of
the present generation are exactly those numbered from the first of the phase (`Written`);
and whoever has read one of those, or acknowledges one in a packet still under way, has a
key as new (`Acknowledged`). An end updates only when its phase was acknowledged, so the
other end is then at its generation, and the update brings them one apart at most. There
is no assumption on the constants.

### The windows of an HTTP/2 connection

`H2ConnProofs` proves, for any windows, frame size, limits on streams, output bound, debt
bound and growth, and for every plan of calls:

| Theorem | Says |
|---|---|
| `BookkeepingCorrect` | `Spec => []WindowInv` |
| `WindowsNeverDrift` | `Spec => []WindowsAgree`: the two ends' windows differ by exactly what is under way |

`WindowInv` is the inductive invariant; TLC has checked it over `EveryPlan` too. Its
parts:

- `EndsTyped`. The fields of both ends, every stream and every frame under way. A stream's
  window may be below zero here; that the other counts are never negative (`TypeOK`) is a
  matter of the peers' good behaviour, not of type, and is checked by TLC (`NoPeerFault`).
- `StreamsInOrder`. No end has, or has sent frames for, a stream later than the last it
  knows of, and the server is behind the client. So a request is read before anything
  else of its stream, and a stream that was given up never comes back under its number.
- `CountsAgree`. The equations of `WindowsAgree`, each brought to "what the receiver
  takes" = "what the sender sends" (`ConnTakes`, `ConnSends`, `Takes`, `Sends`), and one
  clause more: for a stream whose request the server has not read yet, the client has
  counted nothing but what is under way. Without it the equations say nothing of a stream
  open at one end, and would not hold when the server opens its side.

The argument has two halves. What an end does by itself, be it a call of the application,
a due callback, a credit, a sweep or a settings change, keeps both of its counts for every
stream it still has (`Keeps`): a unit leaves the send window exactly when it enters a DATA
frame (`SentKeeps`, with `CarriedData` for a body cut into frames), and credit enters the
receive window exactly when it enters a WINDOW_UPDATE (`SaysCredit`). What it does on
reading a frame moves what the frame carries from "under way" into its own counts
(`Reads`, one lemma for each kind of frame: `OnDataReads` also for data that is refused,
late or on a stream that has gone). A frame is out of the sender's output at that very
step (`OutputSentIs`), so the two changes cancel (`ClientReads`, `ServerReads`). Settings
do not appear in the equations: each end counts a stream relative to the initial window it
holds to itself, and `LocalWindow` and `OnSettings` move window and reference together,
which is the reason the code must apply a change to every open stream and not to new ones
only (the mutant of `WindowsAgree`).

The equations say nothing once an end is closed, as in the code, where nothing is read
after a connection error. The proof uses `H2Assumption`.

### The credit of an HTTP/2 connection

In the same module, on top of `WindowInv`:

| Theorem | Says |
|---|---|
| `NobodyStalls` | `CeilingsOnlyFall` implies `Spec => []NothingStalls`: a stream that was cut short and may go on always has a sweep due, and when nothing is under way and all was consumed, each end may send on the connection |

`StallInv` adds to `WindowInv` that each end is `Fluent`, which has two parts, and says of
the server's remaining plan that its ceilings keep falling from the one in force (`Tight`):

- `Solvent`. The room of an end is what its peer may still send, has under way, or has sent
  and is held here, the rest of a frame being read included (`Room`). With the credit
  gathered for the next batch it is never below the target of the window (the lower of the
  growing target and the ceiling), and the credit gathered is always less than the room.
  The second is what is wanted: when everything was consumed and nothing is under way, the
  room is the peer's window, so the peer has some. It is not inductive alone: a batch is
  sent at half of the target, so the credit kept back is less than the other half only if
  both halves are there. Between taking what was held and crediting it an end owes `n`
  units, with which `Solvent(S, n)` is stated; `ConnCreditFluent` settles them in all its
  branches, those where a ceiling withholds the batch included.
- `Woken`. If no sweep is due, no stream that waits (`BLOCKED`, `HBLOCKED`) could go on.
  Every step that may give such a stream more, by a window, a new initial window or room in
  the output, must leave a sweep due, and every other step is shown to give none more
  (`Quieter`). A sweep is over only when no stream that waits could go on.

The room withheld under a ceiling is not owed later, so after a ceiling is lifted the target
may exceed all there is, and `Solvent` fails with the code itself (`h2_conn.c:248`, the
observation in section 6). `CeilingsOnlyFall` rules out exactly that: ceilings may be set
at any time and lowered as often as the owner likes, against any windows, growth and calls,
but not raised or taken away. It needs no other assumption than `H2Assumption`. The stall of a single
stream (`h2_stream_stall`) is another matter: there the code is at fault without a ceiling.

### The refusals of an HTTP/2 connection

On top of `WindowInv`, and for the same configurations and plans:

| Theorem | Module | Says |
|---|---|---|
| `RefusedNeverActedOn` | `H2RefusalProofs` | no request that the client reports as refused was handed to the server's application |
| `RefusalsCorrect` | `H2LimitProofs` | `Spec => []RefusalsAreRight`: that, and a request is refused for the number of streams only if it was made before any settings were read |

`H2RefusalProofs` first says of each step of one end, once and for all, what the proofs
about two ends need: what it leaves alone and what it may put into the output (`Goes`),
what becomes of each stream (`Fares`: an end of a direction was heard or said in a
frame, and a stream that goes away was lost, reset or ended on both sides), what reading
a frame adds (`Reading`), and that every action of `Next` that is not a reading is one of
four kinds of move (`Moves`). The two invariants then have to be shown for these kinds, not
for each of the handlers.

- `RefusalsHonest`, for the first theorem: every reset with REFUSED_STREAM under way names
  a stream the server knows and did not act on, every goodbye under way names no less than
  the last it acted on, and what the client has been told by either is as true. The goodbye
  is where this is delicate: the server goes on reading after it has said the number, so
  the invariant rests on `goawaySent` being looked at before a new stream is handed over.
- `NoneRefused`, for the second, with two parts. `InStep` joins the two ends' ideas of which
  streams are open. For a request under way (`Requests`) it counts the streams that can
  still be open at the server when the request is read (`Counted`: not over there, and
  neither reset nor ended on both sides by frames ahead of the request) and holds the
  number against the limit that will be in force by then (`Allowed`). That the client,
  which counts its own streams only, cannot have asked for more follows from `StillOpen`
  (what the server can still have open, the client has), `Unread`, `ServerDone` and
  `ClientHeard` (what one end has heard to be over, the other has done with).
- `Limits` says which limit that is: every settings frame of the server is under way, or
  its acknowledgement is (`Pledged`), so the acknowledgements ahead of a request tell which
  settings its client had read.

A request made before a lower limit was read may be read by the server after it was sent,
and one made under a raised limit is always behind its acknowledgement. So two rules of the
code are needed, each in a lemma of its own: `h2c_on_block` takes the larger of the
advertised and the acknowledged limit (`FindsRoom`), and no second change is sent while one
is unacknowledged (`LimitsReset` for the call, `LimitsAck` for the change kept back until
then). `RefusalsAreRight` is not inductive, as it says nothing of the requests under way.
TLC checked the parts as invariants on the plans of `streams`, and on plans that change the
limit several times, before they were proved. A server that has closed reads no more requests, so `InStep` and `Limits` end
there. The proof uses `H2Assumption` and no more.

### What stays with TLC

- Every liveness property (`AcceptedJobRuns`, `DestroyReturns`, `DueFires`, `CloseEnds`,
  `PostedIsCalled`, `RoundsGoOn`): fairness and ENABLED are outside the prover's reach.
- What folds and recursive definitions compute for every input, as in `Qpack` and
  `QuicStreams`: the library's induction theorems take the formula as a
  parameter, which the installed provers cannot instantiate. Where an induction was needed
  (`DescentsAgree` of `LoopWakeProofs`) it is a least counterexample: `LeastOf` gives the
  least element of a set of numbers. This reaches definitions by choice or by cases, not
  RECURSIVE operators, nor the community modules' folds, whose recursion takes operators.
- Of the safety properties of `H2Conn`, `NoPeerFault`, which says what frames
  a peer may still send on a stream in each of its states; and, in plans that lift a
  ceiling, `NothingStalls`, which is false there (section 6).
- The safety properties of the other modules, not proved yet (section 8): the models of
  QUIC streams and handshakes, TLS, HTTP and WebSocket are composed of plans and scripts
  for TLC, and several of them compute with folds.

## 6. What the checks showed

Five disagreements, each with a run that finds it and an entry in `PROJECT.json`:

1. `loop_selector_rearm`: over the selector a receive cancelled, started again and
   cancelled again before the loop runs gets one answer for two operations
   (`loop.c:1010`, against `loop.h:38`).
2. `h2_stream_stall`: after `set_initial_window` lowers the window to no more than
   the credit consumed and not yet returned, the stream never gets room again
   (`h2_conn.c:288`, `716`). With the defaults: 30000 bytes sent and consumed, then
   a lowering to 20000.
3. `quic_stop`: the bytes on their way when a reader stops a stream are never given
   back to the connection's window (`quic_conn.c:1786`, against its own comments at
   1792 and 2931); a connection that stops enough uploads stalls.
4. `http_client_held`: a request whose body is held for 100 Continue, given a kept
   connection that is then lost, is sent again without its head
   (`http_event_client.c:716`, against `http_event_client.h`).
5. `loop_timers_late`: `loop_next_timer` gives up after `LOOP_LOOK` timers of other turns
   and, in the slot the wheel stands in, answers the end of the tick; a timer further down
   the list may be due before that, and fires late by up to a tick (`loop.c:2061`, against
   "never late" at 2046 and "within about a millisecond" at `loop.h:349`). `SleepIsRight`
   is what holds: late nowhere else, and by no more.

Numbers 2 and two of the observations below (an empty frame, a ceiling) were
repeated against the compiled library.

Observations that have no run of their own:

HTTP/2

- An empty DATA frame with END_STREAM resets a stream whose window was lowered below
  zero (`h2_conn.c:821`): `NoFault` names this exception.
- After a ceiling (`proven_h2_conn_cap_window_`) has withheld room and is lifted, half
  of `recv_target` may be more than the room the peer has, and the connection never
  gets another update (`h2_conn.c:248`). With the defaults: a ceiling of 20000 used up,
  then raised to 70000. The passing plans lift no ceiling.
- Under a ceiling the room of a stream and of the connection is counted without the
  rest of the DATA frame being read (`h2_conn.c:256`, `314`), so what was granted
  may pass the ceiling by as much as a frame for a while.

QUIC and HTTP/3

- A stream the peer opened in one direction and the reader stopped is never freed
  (the same cause as `quic_stop`).
- At `QC_MAX_SENT` records a probe is sent without one (`seal`, `quic_conn.c:2550`): fresh
  data in it is forgotten if it is lost, and `probes` does not go down. A plan of `streams`
  comes to it, and `NothingForgotten` and `NoStall` name the exception.
- A stop that is lost after its stream has ended at its sender and been freed is not sent
  again (`quic_conn.c:1518`); `NothingForgotten` follows a stop while its stream is known.
- `read_packet` keeps only the packet it cannot open yet; the comment at `hold` says
  "the rest of a datagram".
- `st_free` (`h3_conn.c:195`) sends a Stream Cancellation only if a section was begun:
  a stream reset before its HEADERS come leaves the encoder's record of it for ever, and
  the entries it names can never be evicted. `TablesAgree` names this exception.
- A stream that waits for inserts and is paused (`h3_conn.c:1239`) stays counted in
  `nblocked` after its inserts have come and been reported: the peer's next section that
  may rightly wait then ends the connection with QPACK_DECOMPRESSION_FAILED.
  `SectionsAreRead` names this exception.

TLS

- A client that closes while its early data is still undecided seals the close_notify
  under the early key. If the data is refused the record is passed over (`tls13.c:2322`),
  and no second one is sent; `NoHonestAlert` and `DataIsWhole` leave out a close before
  the handshake is done.
- `tls_write` may pass its 64 KiB bound by a record (`tls13.c:3731`, against `tls.h:227`),
  after which an honest KeyUpdate request is refused (2205). This library's own ends ask
  for none; another may.
- The allowance for refused early data is charged with each record's head and tag
  (`tls13.c:2326`), while the client's own limit counts plaintext: many tiny records exhaust
  it, and the honest client gets `bad_record_mac`, or `unexpected_message` after a retry.

  `network` comes to both (taking either exception out of `NoHonestAlert` makes TLC find
  it), and the property names them exactly: early records that are longer in all than is
  passed over, and an end that fails with more than its bound unsent when asked.

HTTP client on the loop

- When the second try of a request cannot be begun (`http_event_client.c:570`, `589`) the
  old connection has been closed without serving those that wait: they wait until their
  time limit though there is room. `NoWaiterStranded` names this exception.
- With four requests the limit on connections can be passed: a waiter whose connection
  cannot be opened is told so from the loop of `cl_conn_close` (401-421), a request its
  `on_done` starts takes the freed place, and the loop then opens another without looking
  at the limit (`http_event_client.h:34`, `:95`). The passing plans have three requests.

HTTP server on the loop

- `ev_finish` decides whether to keep a connection before it calls `on_done`
  (`http_event.c:369`). When that `on_done` calls `stop_listening` or `shutdown`, the
  connection is kept and idle all the same, against the comment above the line ("a
  connection is not kept, even when its response began before") and
  `http_event.h` ("an HTTP/1.1 connection with no request on it is closed now"): a
  drain then waits for the idle time limit, or for its deadline, and reports
  PROVEN_ERR_TIMEOUT. `NobodyStranded` names this exception.

WebSocket

- `ws_conn.h:178` says that `text` is read on the first call only; with compression the
  kind comes from the call that first has bytes (`ws_conn.c:156`), so an empty first part
  of a text message followed by a part given `text = false` goes out as binary.
- `ws_event.c:343` says that a client which is still taking what it was sent is not late
  with its close. Progress is reported only when the queue is empty, so a client that
  takes a long queue slowly for longer than `close_ms` is cut off.
- A server that closes while paused never reads the answer and reports a time-out.
- Over TLS, data and close_notify in one read while paused: what was set aside is dropped
  (`http_event.c:651`).

Event loop and jobs

- At the bounds of `job_liveness` a worker that leaves without posting its permit on (the
  baton, `job.c:151-166`) breaks neither property: close posts a permit for each worker, and
  only after the last submitter is out, so whoever takes one finds the ring drained by the
  loop above the exit test and leaves. The drain is the half that matters, as the comment says.
- `proven_job_execute_one` returns false also when a claimed cell is not yet
  published (`job.c:91`), where `job.h:79` speaks of an empty queue. The waiters
  loop, so nothing is lost.
- `proven_loop_destroy` over the selector does not close a connection that was
  taken and waits for its answer (`loop.c:443`); over a completion port it does (`1522`).
- A post the port refuses is swallowed (`loop.c:2122`): the task waits for the next
  wake-up. `NoLostWake` and `PostedIsCalled` name this exception.

## 7. What is not modelled, and why

The map covers less than a tenth of the repository's lines. Most of the rest are
functions of bytes and numbers (codecs, compression, cryptography, certificates,
number and text formatting), calls of the operating system, and tables; their
errors are in values, where tests, vectors and fuzzing reach further than a model
checker's small domains. What keeps state over time and is not yet modelled is in
the plan below. In the modules there are, these are left out:

- *LoopSelector*: memory failure, functions left out of a socket's table, the
  chunks that hold queued bytes. *LoopWake*: the contents of the done list and of events.
- *H2Conn*: the frame codec, HPACK and header lists (their faults end a stream or
  the connection by the same operators), content-length, padding, interim
  responses, the error form of `shutdown`, `open_with_streams_`,
  `heads_past_bound_`, debug text and allocation failure. A hostile peer is not
  modelled: both ends keep the protocol, which is what makes `NoFault` a property.
- *QuicStreams, QuicHandshake, QuicKeys*: congestion control and pacing (a packet may
  be held back at any moment), changes of path, the search for its MTU, ECN, connection
  IDs, Retry, version negotiation, 0-RTT, the frame codec and HTTP/3's framing. During
  the handshake the congestion window is open, and an acknowledgement of 1-RTT packets
  is due at once. TLS there is a sequence of units; its own states are in `TlsConn`.
- *Qpack*: the static table and the encodings, changes of capacity after the first,
  limits on decoded sections.
- *TlsConn*: the encoding of messages and refusal of malformed ones, QUIC mode,
  certificate paths, what the key exchanges of TLS 1.2 compute and the legacy suites,
  the count of ignored records, several messages in one record, the transport
  (`tls_net.c`), a client that offers early data to a server that answers with 1.2.
- *HttpEventClient*: TLS and early data under it, decoding of bodies, chunks, limits on
  output and on interim responses, memory failure, its HTTP/2 and HTTP/3 halves, a
  destroy from inside `on_done`, a receive that cannot be registered while a request
  starts.
- *HttpEventServer*: TLS and early data (425), HTTP/2 and HTTP/3 under it and the
  connections taken over for them (`WsConn` has what a WebSocket uses of that),
  compression, HEAD, bodiless answers and HTTP/1.0, the counting of a declared
  content-length, failed allocations, a listener that cannot be armed. An idle or
  late connection may meet its time limit at any moment, as often as the plan says.
- *WsConn*: the opening handshake and its negotiation, masking, the check of text,
  memory failure, compression that is given up, HTTP/2 below it (RFC 8441), the client
  on the event loop, TLS under it, `on_drain`.

## 8. Plan

In this order, most important first:

1. **LoopPort**: the operations of the loop over a completion port (operations the
   system holds, buffers of a multishot receive, cancel against completion, destroy
   that drains), as a second implementation of `LoopPromise`.
2. **HttpEventServer**, **HttpEventClient** and **WsConn** composed with `LoopPromise`,
   each over the loop's promises and not over a model of its own of the sockets.
3. **HttpServer**, **HttpClient** (`http_server.c`, `http_client.c`: worker threads,
   pooled connections, redirects and retries).
4. **Arena**, **Pool**, **Ring**, **Map**, **Stream** against their abstract
   counterparts.

Theorems worth proving next: `NoPeerFault` of `H2Conn` (with `WindowInv` as its ground:
data within the window a peer was told of is never beyond the receiver's; and with `Fares`
and `ClientHeard` for the order of frames on a stream), `AnsweredInOrder` of `HttpEventServer`.
