--------------------------- MODULE LoopSelector ---------------------------
(***************************************************************************)
(* src/net/src/loop.c over the selector (epoll, kqueue, poll): the         *)
(* operations of sockets, acceptors and UDP sockets, the done list they    *)
(* are answered from and the batch of events being delivered.              *)
(*                                                                         *)
(* Everything runs on the loop's thread.  A callback is a stretch of time  *)
(* (call # NoCall) in which the program makes any calls it likes; what the *)
(* loop still has to do for the socket it was in waits in `todo`.  Bytes   *)
(* are counted in units; whether a chunk that is reserved and still empty  *)
(* exists is left out, as nothing depends on it.  The functions of a       *)
(* socket's table are all present.                                         *)
(***************************************************************************)
EXTENDS Integers, Sequences, SequencesExt, FiniteSets

CONSTANTS
    Socks, Accs, Udps,   \* proven_loop_sock_t, _accept_t and _udp_t objects
    Limit,               \* units a socket holds at most (limit_k)
    DonePasses,          \* LOOP_DONE_PASSES
    WatchFails,          \* whether the selector may refuse a change
    Calls,               \* the calls the program makes on sockets
    Rearm                \* whether the program receives again while the answer
                         \* of a cancelled receive is still to come

ASSUME SelectorAssumption ==
    /\ Limit \in Nat \ {0} /\ DonePasses \in Nat \ {0}
    /\ WatchFails \in BOOLEAN /\ Rearm \in BOOLEAN
    /\ Socks \cap Accs = {} /\ Socks \cap Udps = {} /\ Accs \cap Udps = {}

Nodes == Socks \cup Accs \cup Udps

VARIABLES
    nd,        \* [node -> its fields]
    doneList,  \* l->done_first ...
    phase,     \* where the loop's thread is in proven_loop_poll
    pass,      \* the part of the done list taken and not yet delivered
    passes,    \* passes made by this loop_run_done
    todo,      \* what is left to do of the node being handled: a set of items
    batch,     \* events collected and not yet delivered, one of a node at most;
               \* the selector chose their order, which is left open
    call,      \* the callback that runs
    owed       \* history: operations started less answers given

thread == <<phase, pass, passes, todo>>
vars == <<nd, doneList, thread, batch, call, owed>>

Bits == {"connected", "received", "writable", "flush", "accept", "closed"}
NoCall == <<>>
Ops == {"received", "connected", "accept", "writable"}

(* loop_node_t with the fields of loop_sock_t and loop_acc_t: flagq is     *)
(* F_QUEUED, reg F_REG, recv F_RECV, wait F_WAIT; conn says an acceptor    *)
(* holds a connection taken and not delivered.                             *)
Zeroed == [st |-> "none", reg |-> FALSE, want |-> {}, recv |-> FALSE,
           wait |-> FALSE, wait_at |-> 0, err |-> "ok", send_err |-> FALSE,
           queued |-> 0, conn |-> FALSE, done |-> {}, flagq |-> FALSE]

Init ==
    /\ nd = [n \in Nodes |-> Zeroed]
    /\ doneList = <<>> /\ batch = {} /\ call = NoCall
    /\ phase = "app" /\ pass = <<>> /\ passes = 0 /\ todo = {}
    /\ owed = [n \in Nodes |-> [o \in Ops |-> 0]]

-----------------------------------------------------------------------------
(* Building blocks.                                                        *)

(* The program's code runs: between rounds, in a timer, in a callback.     *)
InApp == phase = "app" \/ call # NoCall

Put(n, r) == nd' = [nd EXCEPT ![n] = r]

(* node_queue, of a node whose fields are r.                               *)
NodeQueue(n, r, bits) ==
    /\ Put(n, [r EXCEPT !.done = @ \cup bits, !.flagq = TRUE])
    /\ doneList' = IF r.flagq THEN doneList ELSE Append(doneList, n)

(* Mistake: linked again although it waits in the pass being delivered.    *)
NodeQueueAlways(n, r, bits) ==
    /\ Put(n, [r EXCEPT !.done = @ \cup bits, !.flagq = TRUE])
    /\ doneList' = IF Contains(doneList, n) THEN doneList ELSE Append(doneList, n)

(* Mistake: what is added to a node already linked is lost.                *)
NodeQueueLosesBits(n, r, bits) ==
    /\ Put(n, IF r.flagq THEN r ELSE [r EXCEPT !.done = bits, !.flagq = TRUE])
    /\ doneList' = IF r.flagq THEN doneList ELSE Append(doneList, n)

PutQueued(n, r, bits) == NodeQueue(n, r, bits)

(* node_watch: the fields it may leave.                                    *)
Watches(r, w) ==
    IF (r.reg /\ r.want = w) \/ (~r.reg /\ w = {}) THEN {r}
    ELSE {[r EXCEPT !.reg = TRUE, !.want = w]} \cup (IF WatchFails THEN {r} ELSE {})

(* node_unwatch: not even an event of this batch.                          *)
NodeUnwatch(r) == [r EXCEPT !.reg = FALSE, !.want = {}]

(* Mistake: a socket nothing is asked of is not taken out of the selector. *)
NodeUnwatchIfWanted(r) == [r EXCEPT !.reg = @ /\ r.want = {}, !.want = {}]

Unwatched(r) == NodeUnwatch(r)

(* Events already collected are taken back.                                *)
Blank(n) == batch' = {e \in batch : e.node # n}

(* A callback begins.  It answers the operation o of n.                    *)
Call(n, o) ==
    /\ call' = <<n, o>>
    /\ owed' = [owed EXCEPT ![n][o] = @ - 1]

(* `writable` reports a failure even when no wait was asked for.           *)
CallWritable(n, ok) ==
    /\ call' = <<n, "writable">>
    /\ owed' = [owed EXCEPT ![n]["writable"] = IF ok THEN @ - 1 ELSE 0]

Start(n, o) == owed' = [owed EXCEPT ![n][o] = @ + 1]

(* The callback returns to the loop.                                       *)
Return ==
    /\ call # NoCall
    /\ call' = NoCall
    /\ UNCHANGED <<nd, doneList, thread, batch, owed>>

-----------------------------------------------------------------------------
(* sel_sock_flush.  Sending takes any part of what waits, or fails.  The   *)
(* answer is a call from the loop, or queued when a driver's own call      *)
(* flushes.                                                                *)
Answered(s, r, ok, answer) ==
    IF answer THEN Put(s, r) /\ CallWritable(s, ok) /\ UNCHANGED doneList
              ELSE PutQueued(s, r, {"writable"}) /\ UNCHANGED <<call, owed>>

SockFlush(s, answer) ==
    \/ \E r \in Watches(nd[s], nd[s].want \ {"W"}) :
        Answered(s, [r EXCEPT !.send_err = TRUE, !.queued = 0, !.wait = FALSE], FALSE, answer)
    \/ \E left \in 0 .. nd[s].queued :
       \E r \in Watches(nd[s], IF left > 0 THEN nd[s].want \cup {"W"} ELSE nd[s].want \ {"W"}) :
        IF r.wait /\ left <= r.wait_at
        THEN Answered(s, [r EXCEPT !.queued = left, !.wait = FALSE], TRUE, answer)
        ELSE Put(s, [r EXCEPT !.queued = left]) /\ UNCHANGED <<doneList, call, owed>>

-----------------------------------------------------------------------------
(* The program's calls on a socket.                                        *)

Attach(s) ==
    /\ InApp /\ nd[s].st = "none"
    /\ Put(s, [Zeroed EXCEPT !.st = "open"])
    /\ UNCHANGED <<doneList, thread, batch, call, owed>>

(* One that fails at once attaches nothing.                                *)
Connect(s) ==
    /\ InApp /\ nd[s].st = "none"
    /\ LET r == [Zeroed EXCEPT !.st = "connecting"] IN
       \/ PutQueued(s, r, {"connected"})                   \* connected already
       \/ Put(s, [r EXCEPT !.reg = TRUE, !.want = {"W"}]) /\ UNCHANGED doneList
    /\ Start(s, "connected")
    /\ UNCHANGED <<thread, batch, call>>

(* Watching for what is readable, and the receive (or accept) in flight if *)
(* the selector takes it.                                                  *)
Arm(n, o, w) ==
    /\ \E r \in Watches(nd[n], w) :
        IF w \subseteq r.want THEN Put(n, [r EXCEPT !.recv = TRUE]) /\ Start(n, o)
                              ELSE Put(n, r) /\ UNCHANGED owed
    /\ UNCHANGED doneList

Recv(s) ==
    /\ InApp /\ nd[s].st = "open" /\ ~nd[s].recv
    /\ Rearm \/ owed[s]["received"] = 0
    /\ Arm(s, "received", nd[s].want \cup {"R"})
    /\ UNCHANGED <<thread, batch, call>>

SelRecvCancel(s) ==
    /\ InApp /\ nd[s].recv
    /\ PutQueued(s, [nd[s] EXCEPT !.recv = FALSE, !.err = "cancelled"], {"received"})
    /\ UNCHANGED <<thread, batch, call, owed>>

(* Mistake: the receive stays in flight. *)
RecvCancelKeeps(s) ==
    /\ InApp /\ nd[s].recv
    /\ PutQueued(s, [nd[s] EXCEPT !.err = "cancelled"], {"received"})
    /\ UNCHANGED <<thread, batch, call, owed>>

RecvCancel(s) == SelRecvCancel(s)

(* What waits is sent when the socket is writable.                         *)
SockKick(r) == IF r.queued > 0 THEN Watches(r, r.want \cup {"W"}) ELSE {r}

(* Mistake: only a send that found the socket full asks for it.            *)
SockKickFull(r) == IF r.queued = Limit THEN Watches(r, r.want \cup {"W"}) ELSE {r}

Kick(r) == SockKick(r)

(* proven_loop_sendv_: to the socket first when nothing waits, the rest    *)
(* held up to the limit.                                                   *)
Send(s, n) ==
    /\ InApp /\ nd[s].st = "open" /\ ~nd[s].send_err
    /\ \/ nd[s].queued = 0 /\ Put(s, [nd[s] EXCEPT !.send_err = TRUE])
       \/ \E gone \in IF nd[s].queued = 0 THEN 0 .. n ELSE {0} :
          \E r \in Kick([nd[s] EXCEPT !.queued = Min({@ + n - gone, Limit})]) : Put(s, r)
    /\ UNCHANGED <<doneList, thread, batch, call, owed>>

Room(s) == nd[s].queued < Limit

(* proven_loop_reserve_ and proven_loop_commit_.                           *)
Commit(s) ==
    /\ InApp /\ nd[s].st = "open" /\ ~nd[s].send_err /\ Room(s)
    /\ PutQueued(s, [nd[s] EXCEPT !.queued = @ + 1], {"flush"})
    /\ UNCHANGED <<thread, batch, call, owed>>

Flush(s) ==
    /\ InApp /\ nd[s].st = "open" /\ nd[s].queued > 0 /\ "W" \notin nd[s].want
    /\ SockFlush(s, FALSE)
    /\ UNCHANGED <<thread, batch>>

SendWait(s, at_most) ==
    /\ InApp /\ nd[s].st = "open"
    /\ IF nd[s].queued <= at_most
       THEN PutQueued(s, [nd[s] EXCEPT !.wait = FALSE], {"writable"})
       ELSE Put(s, [nd[s] EXCEPT !.wait = TRUE, !.wait_at = at_most]) /\ UNCHANGED doneList
    /\ owed' = [owed EXCEPT ![s]["writable"] = 1]    \* replaces the earlier one
    /\ UNCHANGED <<thread, batch, call>>

(* What a close leaves to be delivered.                                    *)
CloseBits(r) ==
    {"closed"} \cup (IF r.recv THEN {"received"} ELSE {})
               \cup (IF r.st = "connecting" THEN {"connected"} ELSE {})
               \cup (IF r.wait THEN {"writable"} ELSE {})

Close(s) ==
    /\ InApp /\ nd[s].st \in {"open", "connecting", "dead"}
    /\ PutQueued(s, [Unwatched(nd[s]) EXCEPT
                        !.st = "closing", !.recv = FALSE, !.wait = FALSE, !.queued = 0,
                        !.err = IF nd[s].recv \/ nd[s].st = "connecting" THEN "cancelled" ELSE @],
                 CloseBits(nd[s]))
    /\ Blank(s)
    /\ UNCHANGED <<thread, call, owed>>

-----------------------------------------------------------------------------
(* Acceptors.  acc_try finds a connection, a failure worth reporting, or   *)
(* nothing yet.                                                            *)

Taken(a) == {[nd[a] EXCEPT !.err = o, !.conn = (o = "ok")] : o \in {"ok", "failed"}}

Accept(a) ==
    /\ InApp /\ ~nd[a].recv
    /\ \/ (* armed again from its own function: taken now, answered later *)
          /\ call = <<a, "accept">>
          /\ \E r \in Taken(a) : PutQueued(a, [r EXCEPT !.recv = TRUE], {"accept"})
          /\ Start(a, "accept")
       \/ Arm(a, "accept", {"R"})
    /\ UNCHANGED <<thread, batch, call>>

Cancelled(a) == [nd[a] EXCEPT !.conn = FALSE, !.err = "cancelled"]

AcceptCancel(a) ==
    /\ InApp /\ (nd[a].reg \/ nd[a].recv)
    /\ Blank(a)
    /\ IF nd[a].recv
       THEN PutQueued(a, Unwatched(Cancelled(a)), {"accept"})
       ELSE Put(a, Unwatched(nd[a])) /\ UNCHANGED doneList
    /\ UNCHANGED <<thread, call, owed>>

(* Mistake: the accept is still in flight while its function runs.         *)
AccDeliverBusy(a, r) ==
    /\ Put(a, [r EXCEPT !.done = {}, !.conn = FALSE])
    /\ Call(a, "accept")

(* acc_deliver *)
AccDeliver(a, r) ==
    /\ Put(a, [r EXCEPT !.done = {}, !.recv = FALSE, !.conn = FALSE])
    /\ Call(a, "accept")

-----------------------------------------------------------------------------
(* UDP sockets.                                                            *)

UdpRecv(u) ==
    /\ InApp /\ nd[u].st = "open" /\ ~nd[u].recv
    /\ \/ (* from its own `received`: datagrams waiting are taken now *)
          /\ call = <<u, "received">>
          /\ PutQueued(u, [nd[u] EXCEPT !.recv = TRUE, !.err = "ok"], {"received"})
          /\ Start(u, "received")
       \/ Arm(u, "received", nd[u].want \cup {"R"})
    /\ UNCHANGED <<thread, batch, call>>

UdpSendWait(u) ==
    /\ InApp /\ nd[u].st = "open" /\ ~nd[u].wait
    /\ \E r \in Watches(nd[u], nd[u].want \cup {"W"}) :
        IF "W" \in r.want
        THEN /\ Put(u, [r EXCEPT !.wait = TRUE])
             /\ owed' = [owed EXCEPT ![u]["writable"] = 1]
        ELSE Put(u, r) /\ UNCHANGED owed
    /\ UNCHANGED <<doneList, thread, batch, call>>

(* The receive is in flight until `received`; datagrams taken are dropped. *)
UdpClose(u) ==
    /\ InApp /\ nd[u].st = "open"
    /\ PutQueued(u, [Unwatched(nd[u]) EXCEPT
                        !.st = "closing", !.wait = FALSE,
                        !.err = IF nd[u].recv THEN "cancelled" ELSE @],
                 CloseBits(nd[u]))
    /\ Blank(u)
    /\ UNCHANGED <<thread, call, owed>>

-----------------------------------------------------------------------------
(* loop_run_done.                                                          *)

AtRest == call = NoCall /\ todo = {}

(* The list is taken whole.                                                *)
TakeList == pass' = doneList /\ doneList' = <<>>

RunDone ==
    /\ phase = "app" /\ doneList # <<>>
    /\ phase' = "done" /\ passes' = 1
    /\ TakeList
    /\ UNCHANGED <<nd, todo, batch, call, owed>>

AnotherPass ==
    /\ phase = "done" /\ AtRest /\ pass = <<>>
    /\ doneList # <<>> /\ passes < DonePasses
    /\ passes' = passes + 1
    /\ TakeList
    /\ UNCHANGED <<nd, phase, todo, batch, call, owed>>

RunDoneEnds ==
    /\ phase = "done" /\ AtRest /\ pass = <<>>
    /\ doneList = <<>> \/ passes = DonePasses
    /\ phase' = "app" /\ passes' = 0
    /\ UNCHANGED <<nd, doneList, pass, todo, batch, call, owed>>

(* The order of what is done of one node: sock_deliver and udp_deliver;    *)
(* sock_event, which reads first; udp_event, which writes first.           *)
DeliveryOrder ==
    [connected |-> 1, received |-> 2, writable |-> 3, flush |-> 4, closed |-> 5,
     evread |-> 1, evwrite |-> 2, udpwrite |-> 1, udpread |-> 2,
     evconnect |-> 1, evaccept |-> 1]

(* Mistake: `closed` before the answers. *)
ClosedFirst == [DeliveryOrder EXCEPT !.closed = 0]

Order == DeliveryOrder

Item(n, i) == [node |-> n, do |-> i]
Items(n, bits) == {Item(n, i) : i \in bits}

TakeNode ==
    /\ phase = "done" /\ AtRest /\ pass # <<>>
    /\ LET n == Head(pass)
           r == [nd[n] EXCEPT !.flagq = FALSE]
       IN IF n \in Accs
          THEN /\ IF "accept" \in r.done THEN AccDeliver(n, r)
                                         ELSE Put(n, r) /\ UNCHANGED <<call, owed>>
               /\ UNCHANGED todo
          ELSE /\ todo' = Items(n, r.done)
               /\ Put(n, [r EXCEPT !.done = {}])
               /\ UNCHANGED <<call, owed>>
    /\ pass' = Tail(pass)
    /\ UNCHANGED <<doneList, phase, passes, batch>>

(* The next item is i, of node n.                                          *)
Doing(n, i) ==
    /\ call = NoCall /\ Item(n, i) \in todo
    /\ \A e \in todo : Order[i] <= Order[e.do]
    /\ todo' = todo \ {Item(n, i)}
    /\ UNCHANGED <<phase, pass, passes, batch>>

(* sock_connected *)
SockConnected(s, r, ok) ==
    /\ Put(s, IF r.st = "connecting" THEN [r EXCEPT !.st = IF ok THEN "open" ELSE "dead"] ELSE r)
    /\ Call(s, "connected")
    /\ UNCHANGED doneList

DeliverConnected(s) == Doing(s, "connected") /\ SockConnected(s, nd[s], nd[s].err = "ok")

(* A UDP receive is in flight until its answer; a socket's was ended by    *)
(* what queued the answer.                                                 *)
DeliverReceived(n) ==
    /\ Doing(n, "received")
    /\ Put(n, IF n \in Udps THEN [nd[n] EXCEPT !.recv = FALSE] ELSE nd[n])
    /\ Call(n, "received")
    /\ UNCHANGED doneList

DeliverWritable(n) ==
    /\ Doing(n, "writable")
    /\ CallWritable(n, nd[n].st # "closing" /\ ~nd[n].send_err)
    /\ UNCHANGED <<nd, doneList>>

DeliverFlush(s) ==
    /\ Doing(s, "flush")
    /\ IF nd[s].st = "open" /\ nd[s].queued > 0 /\ "W" \notin nd[s].want
       THEN SockFlush(s, TRUE)
       ELSE UNCHANGED <<nd, doneList, call, owed>>

DeliverClosed(n) ==
    /\ Doing(n, "closed")
    /\ IF nd[n].st = "closing"
       THEN Put(n, [nd[n] EXCEPT !.st = "none"]) /\ call' = <<n, "closed">>
       ELSE UNCHANGED <<nd, call>>
    /\ UNCHANGED <<doneList, owed>>

-----------------------------------------------------------------------------
(* The selector's events: R and W as asked for, F (failed, hung up) for    *)
(* any socket registered.                                                  *)

Events(n) == {g \in SUBSET {"R", "W", "F"} : g # {} /\ g \subseteq nd[n].want \cup {"F"}}

SelectorWait ==
    /\ phase = "app"
    /\ \E ready \in SUBSET {n \in Nodes : nd[n].reg} :
       \E got \in [ready -> SUBSET {"R", "W", "F"}] :
        /\ \A n \in ready : got[n] \in Events(n)
        /\ batch' = {[node |-> n, got |-> got[n]] : n \in ready}
    /\ phase' = "batch"
    /\ UNCHANGED <<nd, doneList, pass, passes, todo, call, owed>>

(* The batch is over; loop_run_done follows.                               *)
BatchEnds ==
    /\ phase = "batch" /\ AtRest /\ batch = {}
    /\ phase' = "done" /\ passes' = 1
    /\ TakeList
    /\ UNCHANGED <<nd, todo, batch, call, owed>>

(* What sock_event, udp_event and acc_event have to do.                    *)
Steps(n, got) ==
    LET readable == got \cap {"R", "F"} # {}
        writable == got \cap {"W", "F"} # {}
        If(p, i) == IF p THEN {i} ELSE {}
    IN CASE n \in Accs -> {"evaccept"}
         [] n \in Udps /\ nd[n].st = "open" ->
             If("W" \in got, "udpwrite") \cup If(readable, "udpread")
         [] n \in Socks /\ nd[n].st = "connecting" ->
             If(writable /\ "connected" \notin nd[n].done, "evconnect")
         [] n \in Socks /\ nd[n].st = "open" ->
             If(readable, "evread") \cup If(writable, "evwrite")
         [] OTHER -> {}

TakeEvent ==
    /\ phase = "batch" /\ AtRest
    /\ \E e \in batch :
        /\ todo' = Items(e.node, Steps(e.node, e.got))
        /\ batch' = batch \ {e}
    /\ UNCHANGED <<nd, doneList, phase, pass, passes, call, owed>>

(* The node is asked for less.                                             *)
WatchLess(n, w) ==
    /\ \E r \in Watches(nd[n], w) : Put(n, r)
    /\ UNCHANGED <<doneList, call, owed>>

Nothing == UNCHANGED <<nd, doneList, call, owed>>

(* A connecting socket; AGAIN leaves it waiting.                           *)
EventConnect(s) ==
    /\ Doing(s, "evconnect")
    /\ \/ Nothing
       \/ \E ok \in BOOLEAN, r \in Watches(nd[s], {}) : SockConnected(s, r, ok)

(* The receive is answered unless there was nothing to read after all;     *)
(* with none in flight the watch is dropped.                               *)
EventRead(s) ==
    /\ Doing(s, "evread")
    /\ IF nd[s].recv
       THEN \/ Nothing
            \/ /\ Put(s, [nd[s] EXCEPT !.recv = FALSE])
               /\ Call(s, "received")
               /\ UNCHANGED doneList
       ELSE WatchLess(s, nd[s].want \ {"R"})

(* After the receive's callback the state is looked at again.              *)
EventWrite(s) ==
    /\ Doing(s, "evwrite")
    /\ IF nd[s].st # "open" THEN Nothing
       ELSE IF nd[s].queued > 0 THEN SockFlush(s, TRUE)
       ELSE WatchLess(s, nd[s].want \ {"W"})

UdpEventWrite(u) ==
    /\ Doing(u, "udpwrite")
    /\ \E r \in Watches(nd[u], nd[u].want \ {"W"}) : Put(u, [r EXCEPT !.wait = FALSE])
    /\ IF nd[u].wait THEN CallWritable(u, TRUE) ELSE UNCHANGED <<call, owed>>
    /\ UNCHANGED doneList

UdpEventRead(u) ==
    /\ Doing(u, "udpread")
    /\ IF nd[u].st # "open" THEN Nothing
       ELSE IF ~nd[u].recv THEN WatchLess(u, nd[u].want \ {"R"})
       ELSE \/ Nothing                                       \* udp_try: nothing
            \/ /\ "received" \notin nd[u].done
               /\ Put(u, [nd[u] EXCEPT !.recv = FALSE])
               /\ Call(u, "received")
               /\ UNCHANGED doneList

EventAccept(a) ==
    /\ Doing(a, "evaccept")
    /\ IF ~nd[a].recv THEN WatchLess(a, {})
       ELSE \/ Nothing                                       \* acc_try: nothing
            \/ /\ "accept" \notin nd[a].done
               /\ \E r \in Taken(a) : AccDeliver(a, r)
               /\ UNCHANGED doneList

-----------------------------------------------------------------------------
(* proven_loop_destroy with loop_sel_last: what has ended gets its last    *)
(* answer, which only frees.                                               *)
OwedLast(n) ==
    /\ Contains(doneList, n)
    /\ \/ n \notin Accs /\ "closed" \in nd[n].done /\ nd[n].st = "closing"
       \/ n \in Accs /\ "accept" \in nd[n].done /\ nd[n].err = "cancelled"

Destroy ==
    /\ phase = "app"
    /\ nd' = [n \in Nodes |-> IF ~OwedLast(n) THEN nd[n]
                              ELSE IF n \in Accs THEN [nd[n] EXCEPT !.recv = FALSE]
                              ELSE [nd[n] EXCEPT !.st = "none"]]
    /\ phase' = "gone"
    /\ doneList' = <<>>
    /\ UNCHANGED <<pass, passes, todo, batch, call, owed>>

-----------------------------------------------------------------------------
AppCall ==
    \/ \E s \in Socks :
        \/ "attach" \in Calls /\ Attach(s)
        \/ "connect" \in Calls /\ Connect(s)
        \/ "recv" \in Calls /\ (Recv(s) \/ RecvCancel(s))
        \/ "send" \in Calls /\ \E n \in 1 .. 2 : Send(s, n)
        \/ "commit" \in Calls /\ (Commit(s) \/ Flush(s))
        \/ "wait" \in Calls /\ \E m \in 0 .. 1 : SendWait(s, m)
        \/ Close(s)
    \/ \E a \in Accs : Accept(a) \/ AcceptCancel(a)
    \/ \E u \in Udps : Attach(u) \/ UdpRecv(u) \/ UdpSendWait(u) \/ UdpClose(u)

Deliver ==
    \/ \E s \in Socks : DeliverConnected(s) \/ DeliverFlush(s)
    \/ \E n \in Socks \cup Udps : DeliverReceived(n) \/ DeliverWritable(n) \/ DeliverClosed(n)

Event ==
    \/ \E s \in Socks : EventConnect(s) \/ EventRead(s) \/ EventWrite(s)
    \/ \E a \in Accs : EventAccept(a)
    \/ \E u \in Udps : UdpEventWrite(u) \/ UdpEventRead(u)

LoopStep ==
    \/ Return \/ RunDone \/ AnotherPass \/ RunDoneEnds \/ TakeNode \/ Deliver
    \/ BatchEnds \/ TakeEvent \/ Event

Next == AppCall \/ LoopStep \/ SelectorWait \/ Destroy

(* Callbacks return and the loop's thread runs; what the selector reports  *)
(* and what the program calls is up to them.                               *)
Fairness == WF_vars(LoopStep)

Spec == Init /\ [][Next]_vars /\ Fairness
-----------------------------------------------------------------------------
(* Properties.                                                             *)

NodeType ==
    [st : {"none", "open", "connecting", "dead", "closing"},
     reg : BOOLEAN, want : SUBSET {"R", "W"}, recv : BOOLEAN, wait : BOOLEAN,
     wait_at : 0 .. 1, err : {"ok", "cancelled", "failed"}, send_err : BOOLEAN,
     queued : 0 .. Limit, conn : BOOLEAN, done : SUBSET Bits, flagq : BOOLEAN]

TypeOK ==
    /\ nd \in [Nodes -> NodeType]
    /\ doneList \in Seq(Nodes) /\ pass \in Seq(Nodes)
    /\ phase \in {"app", "done", "batch", "gone"} /\ passes \in 0 .. DonePasses
    /\ owed \in [Nodes -> [Ops -> Int]]

InTodo(n, i) == Item(n, i) \in todo
Pending(n, o) == o \in nd[n].done \/ InTodo(n, o)
Times(n) == Cardinality({i \in DOMAIN doneList : doneList[i] = n}) +
            Cardinality({i \in DOMAIN pass : pass[i] = n})
Count(p) == IF p THEN 1 ELSE 0

(* F_QUEUED says exactly whether a node is linked, once, on the done list  *)
(* or in the pass being delivered, and a node with anything to deliver is: *)
(* linked twice it would cut the list, unlinked it would never be          *)
(* delivered.                                                              *)
LinksAgree ==
    /\ TypeOK
    /\ phase # "gone" => \A n \in Nodes :
        /\ Times(n) = Count(nd[n].flagq)
        /\ nd[n].done # {} => nd[n].flagq

(* loop.c: "A socket's memory is the caller's again only after `closed`":  *)
(* nothing of the loop's points at a socket that has been given back - no  *)
(* list, no collected event, no registration - and no event collected      *)
(* before is left for an acceptor whose accept is over or cancelled.  The  *)
(* lists it walks are whole (LinksAgree).                                  *)
NothingPointsAtFreed ==
    /\ LinksAgree
    /\ phase # "gone" => \A n \in Socks \cup Udps : nd[n].st = "none" =>
        /\ ~nd[n].flagq /\ ~nd[n].reg
        /\ \A e \in batch \cup todo : e.node # n
    /\ \A a \in Accs : ~nd[a].reg => \A e \in batch : e.node # a

(* loop.h rule 1: an operation started and not answered is either in       *)
(* flight or waits on the done list, and never both; nothing else is       *)
(* answered.  A connection taken from the listener and not delivered is    *)
(* kept until its answer is given or cancelled, even when it is cancelled  *)
(* from the callback that armed it again.                                  *)
AnsweredExactlyOnce ==
    /\ \A a \in Accs : nd[a].conn => nd[a].recv /\ "accept" \in nd[a].done /\ nd[a].err = "ok"
    /\ phase # "gone" =>
        /\ \A n \in Socks :
            /\ owed[n]["received"] = Count(nd[n].recv) + Count(Pending(n, "received"))
            /\ owed[n]["connected"] = Count(nd[n].st = "connecting" \/ Pending(n, "connected"))
        /\ \A n \in Udps : owed[n]["received"] = Count(nd[n].recv)
        /\ \A n \in Accs : owed[n]["accept"] = Count(nd[n].recv)

(* Bytes taken by a send are never left with nobody to write them: unless  *)
(* a flush of the loop's is on its way, the selector is asked for writable *)
(* (a selector that refuses is the exception).  And a send wait in flight  *)
(* is for bytes that still wait, so that the write that takes them below   *)
(* the mark answers it.                                                    *)
NothingStranded ==
    /\ ~WatchFails => \A s \in Socks : nd[s].st = "open" /\ nd[s].queued > 0 =>
        "W" \in nd[s].want \/ Pending(s, "flush") \/ InTodo(s, "evwrite")
    /\ \A s \in Socks : nd[s].wait => nd[s].queued > nd[s].wait_at

(* A socket that is being closed is given back to its owner.               *)
CloseEnds == \A n \in Socks \cup Udps : nd[n].st = "closing" ~> nd[n].st # "closing"

-----------------------------------------------------------------------------
(* The inductive invariant behind the properties above and KeepsPromise.   *)

Left(n) == {i \in DOMAIN Order : InTodo(n, i)}

(* What the loop's thread holds in each phase: it handles one node at a    *)
(* time, has something of a round only while it is in one, and comes to a  *)
(* connection's end, or a UDP receive's, before the program runs again.    *)
ThreadInv ==
    /\ batch \subseteq [node : Nodes, got : SUBSET {"R", "W", "F"}]
    /\ todo \subseteq [node : Nodes, do : DOMAIN Order]
    /\ \A d, e \in todo : d.node = e.node
    /\ \A e \in todo : phase = IF e.do \in Bits THEN "done" ELSE "batch"
    /\ phase # "done" => pass = <<>>
    /\ phase # "batch" => batch = {}
    /\ phase = "app" => AtRest
    /\ call # NoCall => \A e \in todo :
        e.do \notin {"connected", "evconnect"} /\ (e.do = "received" => e.node \in Socks)
    /\ \A e \in batch : nd[e.node].reg

(* A node is linked if F_QUEUED says so, once, and something is due.       *)
Distinct(q) == \A i, j \in DOMAIN q : q[i] = q[j] => i = j
LinkInv ==
    /\ Distinct(doneList) /\ Distinct(pass)
    /\ \A n \in Nodes :
        /\ nd[n].flagq <=> Contains(doneList, n) \/ Contains(pass, n)
        /\ ~(Contains(doneList, n) /\ Contains(pass, n))
        /\ nd[n].flagq <=> nd[n].done # {}

(* One that is unused has nothing; one that closes is out of the selector  *)
(* and has its `closed` on the way, with no answer behind it.  r is the    *)
(* node, t what is left to do.                                             *)
LifeOK(r, t) ==
    /\ r.st = "none" => ~r.recv /\ r.done = {} /\ t = {}
    /\ r.st \in {"none", "closing"} => ~r.reg /\ r.want = {}
    /\ r.st = "closing" <=> "closed" \in r.done \cup t
    /\ "closed" \in t => r.done = {}
    /\ r.done \cap t \cap {"received", "connected"} = {}

(* A socket; o is what it is owed.                                         *)
SockOK(r, t, o) ==
    /\ LifeOK(r, t)
    /\ r.done \subseteq DOMAIN Order /\ t \cap {"udpread", "udpwrite", "evaccept"} = {}
    /\ r.recv => r.st = "open" /\ "received" \notin r.done \cup t
    /\ "evconnect" \in t => t = {"evconnect"} /\ r.st = "connecting" /\ "connected" \notin r.done
    /\ o["received"] = Count(r.recv) + Count("received" \in r.done \cup t)
    /\ o["connected"] = Count(r.st = "connecting" \/ "connected" \in r.done \cup t)
    /\ r.queued > 0 => r.st = "open"

UdpOK(r, t, o) ==
    /\ LifeOK(r, t)
    /\ r.done \cup t \subseteq {"received", "writable", "closed", "udpread", "udpwrite"}
    /\ r.st \in {"none", "open", "closing"}
    /\ "received" \in r.done \cup t => r.recv
    /\ r.st = "closing" /\ r.recv => "received" \in r.done \cup t
    /\ o["received"] = Count(r.recv)

AccOK(r, t, o) ==
    /\ r.done \subseteq {"accept"} /\ t \subseteq {"evaccept"}
    /\ r.done # {} => r.recv
    /\ o["accept"] = Count(r.recv)

NodeInv ==
    /\ \A s \in Socks : SockOK(nd[s], Left(s), owed[s])
    /\ \A u \in Udps : UdpOK(nd[u], Left(u), owed[u])
    /\ \A a \in Accs : AccOK(nd[a], Left(a), owed[a])

(* What is true of a destroyed loop too.                                   *)
LastingInv ==
    /\ TypeOK /\ NothingStranded
    /\ \A a \in Accs : nd[a].conn => nd[a].recv /\ "accept" \in nd[a].done /\ nd[a].err = "ok"

SelectorInv ==
    /\ LastingInv
    /\ IF phase = "gone" THEN AtRest /\ batch = {} ELSE ThreadInv /\ LinkInv /\ NodeInv

-----------------------------------------------------------------------------
(* The operations a program sees in flight, read off the loop's state.     *)
Life(n) == IF n \in Accs THEN "attached"
           ELSE CASE nd[n].st = "none" -> "unused"
                  [] nd[n].st = "closing" -> "closing"
                  [] OTHER -> "attached"

InFlight(n) ==
    IF n \in Accs THEN (IF nd[n].recv THEN {"accept"} ELSE {})
    ELSE (IF nd[n].recv \/ Pending(n, "received") THEN {"received"} ELSE {}) \cup
         (IF nd[n].st = "connecting" \/ Pending(n, "connected") THEN {"connected"} ELSE {})

Promise == INSTANCE LoopPromise WITH
    Nodes <- Nodes, Acceptors <- Accs,
    life <- [n \in Nodes |-> Life(n)],
    inflight <- [n \in Nodes |-> InFlight(n)],
    calling <- call,
    gone <- phase = "gone"

(* The selector backend implements what loop.h promises.                   *)
KeepsPromise == Promise!Spec
=============================================================================
