------------------------------- MODULE WsConn -------------------------------
(***************************************************************************)
(* A WebSocket connection between the blocking driver of a client          *)
(* (ws_conn.c) and a connection of the event-driven server (ws_event.c     *)
(* over the raw part of http_event.c), over TCP in the clear.              *)
(*                                                                         *)
(* The wire carries the head of a data frame, then its units one by one,   *)
(* and whole control frames.  A unit that is compressed carries how much   *)
(* went through its compressor before it: the window it refers to, which   *)
(* the decompressor that reads it must have.                               *)
(***************************************************************************)
EXTENDS Integers, SequencesExt

CONSTANTS
    MaxMessage,     \* max_message_bytes of both ends, in units
    MaxBuffered,    \* max_buffered_output, in tokens
    ZipMin,         \* PROVEN_WS_DEFLATE_MIN: a shorter whole message goes plain
    Piece,          \* units that leave the compressor as one frame
    WireRoom,       \* bound: what TCP holds in a direction
    Plans           \* bound: the calls of both programs

VARIABLES
    b,              \* proven_ws_conn_t, the blocking end, and its program
    e,              \* proven_ws_stream_t, its connection, and its program
    up, down,       \* tokens on their way to the server, and to the client
    plan

vars == <<b, e, up, down, plan>>

LOCAL Least(m, n) == IF m < n THEN m ELSE n
LOCAL Heads(s, n) == SubSeq(s, 1, n)
(* A read takes all that has come, or is cut anywhere.                     *)
LOCAL Cuts(s) == IF s = <<>> THEN {} ELSE 1..Len(s)
LOCAL Rest(s, n) == SubSeq(s, n + 1, Len(s))

-----------------------------------------------------------------------------
(* Frames.                                                                 *)

FrameHead(op, fin, zip, n) == [t |-> "head", op |-> op, fin |-> fin, zip |-> zip, len |-> n]
Control(t, code) == [t |-> t, code |-> code]
Frame(op, fin, zip, units) == <<FrameHead(op, fin, zip, Len(units))>> \o units
Kind(text) == IF text THEN "text" ELSE "binary"

(* What a sender keeps: `zip` is what the compressor has read, under       *)
(* takeover from one message to the next.                                  *)
NoSender == [sending |-> FALSE, zip |-> 0, zipping |-> FALSE, begun |-> FALSE, plain |-> FALSE]

(* Mutant: the compressor of the message before is gone on with.           *)
ZipBeginKept(s, n, last) ==
    [s EXCEPT !.zipping = plan.deflate /\ ~s.plain /\ ~(last /\ n < ZipMin), !.begun = FALSE]

(* A message begins: is it compressed?  Not when it is whole and too short *)
(* to gain.                                                                *)
ZipBegin(s, n, last) ==
    LET least == IF plan.takeover THEN 1 ELSE ZipMin
    IN  [s EXCEPT !.zipping = plan.deflate /\ ~s.plain /\ ~(last /\ n < least),
                  !.begun = FALSE, !.zip = IF plan.takeover THEN @ ELSE 0]

(* A part goes through the compressor and leaves as one frame for each     *)
(* piece of output; one that gives nothing new sends nothing, unless it is *)
(* the last, which ends the message.                                       *)
ZipFrames(s, text, ns, last) ==
    LET units == [i \in DOMAIN ns |-> [t |-> "unit", n |-> ns[i], win |-> s.zip + i - 1]]
        count == IF ns = <<>> THEN (IF last THEN 1 ELSE 0) ELSE (Len(ns) + Piece - 1) \div Piece
        One(i) == Frame(IF s.begun \/ i > 1 THEN "more" ELSE Kind(text), last /\ i = count,
                        ~s.begun /\ i = 1,
                        SubSeq(units, (i - 1) * Piece + 1, Least(i * Piece, Len(ns))))
    IN  FlattenSeq([i \in 1..count |-> One(i)])

PlainFrame(s, text, ns, last) ==
    Frame(IF s.sending THEN "more" ELSE Kind(text), last, FALSE,
          [i \in DOMAIN ns |-> [t |-> "unit", n |-> ns[i], win |-> -1]])

SendPart(s, text, ns, last) ==
    LET z == IF s.sending THEN s ELSE ZipBegin(s, Len(ns), last)
        frames == IF z.zipping THEN ZipFrames(z, text, ns, last) ELSE PlainFrame(z, text, ns, last)
    IN  [sender |-> [z EXCEPT !.sending = ~last,
                              !.zip = IF z.zipping THEN @ + Len(ns) ELSE @,
                              !.begun = z.zipping /\ (@ \/ frames # <<>>),
                              !.zipping = @ /\ ~last],
         frames |-> frames]

(* What a program has given to be sent, message by message.                *)
Record(sent, text, ns, last) ==
    IF sent = <<>> \/ Last(sent).done
    THEN Append(sent, [text |-> text, units |-> ns, done |-> last])
    ELSE Append(Front(sent), [Last(sent) EXCEPT !.units = @ \o ns, !.done = last])

(* The next n units of a program are numbered on from those before.        *)
Fresh(sent, n) ==
    LET before == FoldLeft(LAMBDA a, m : a + Len(m.units), 0, sent)
    IN  [i \in 1..n |-> before + i]

-----------------------------------------------------------------------------
(* The decoder of ws.c.                                                    *)

NewDecoder == [inFrame |-> FALSE, inMessage |-> FALSE, text |-> FALSE, zip |-> FALSE,
               started |-> FALSE, fin |-> FALSE, left |-> 0, size |-> 0, closed |-> FALSE]
NoEvent == [kind |-> "none"]

DecodeHead(d, h) ==
    LET new == h.op # "more"
        size == IF new THEN 0 ELSE d.size
    IN  [bad |-> IF new = d.inMessage THEN "format"
                 ELSE IF h.zip /\ ~plan.deflate THEN "format"
                 ELSE IF h.len > MaxMessage - size THEN "too long" ELSE "no",
         d |-> [d EXCEPT !.inFrame = TRUE, !.inMessage = TRUE, !.fin = h.fin, !.left = h.len,
                         !.size = size,
                         !.text = IF new THEN h.op = "text" ELSE @,
                         !.zip = IF new THEN h.zip ELSE @,
                         !.started = @ /\ ~new]]

(* One call: the decoder after it, how much it took, and the event.        *)
Feed(d, in) ==
    LET h == ~d.inFrame
        begun == IF h /\ in[1].t = "head" THEN DecodeHead(d, in[1]) ELSE [bad |-> "no", d |-> d]
        d1 == begun.d
        at == IF h THEN 1 ELSE 0
        take == Least(d1.left, Len(in) - at)
        whole == take = d1.left
        last == whole /\ d1.fin
        d2 == [d1 EXCEPT !.left = @ - take, !.size = @ + take, !.inFrame = ~whole, !.inMessage = ~last]
        Is(ev, d3, used) == [d |-> d3, used |-> used, ev |-> ev]
    IN  IF d.closed THEN Is([kind |-> "after"], d, Len(in))
        ELSE IF h /\ in[1].t # "head"
        THEN Is([kind |-> in[1].t, code |-> in[1].code], [d EXCEPT !.closed = in[1].t = "close"], 1)
        ELSE IF begun.bad # "no" THEN Is([kind |-> "bad", why |-> begun.bad], d1, at)
        ELSE IF take = 0 /\ ~whole THEN Is(NoEvent, d1, at)
        ELSE IF take = 0 /\ ~last THEN Is([kind |-> "skip"], d2, at)
        ELSE Is([kind |-> "data", text |-> d2.text, first |-> ~d2.started, last |-> last,
                 zip |-> d2.zip, units |-> SubSeq(in, at + 1, at + take)],
                [d2 EXCEPT !.started = TRUE], at + take)

(* What the decompressor makes of units: their numbers, if it has the      *)
(* window they refer to.                                                   *)
Readable(kept, units) == \A i \in DOMAIN units : units[i].win = kept + i - 1
Numbers(units) == [i \in DOMAIN units |-> units[i].n]

-----------------------------------------------------------------------------
(* The client: the blocking driver.  While a call is under way its program *)
(* waits; what is to be written is in out, and nothing else is done before *)
(* it has left.                                                            *)

NoMessage == [text |-> FALSE, units |-> <<>>, zip |-> FALSE]
Op(p, at) == IF at <= Len(p) THEN p[at] ELSE [op |-> "over"]
Todo == Op(plan.client, b.at)

Shut(c) == [c EXCEPT !.shut = IF @ = "no" THEN "fin" ELSE @]
Failed(c, why) == [c EXCEPT !.failed = why, !.call = "none", !.out = <<>>]
CanSend == b.failed = "no" /\ ~b.closeSent /\ ~b.closeReceived
Free == b.call = "none" /\ b.out = <<>> /\ ~b.gone
Quiet == UNCHANGED <<e, up, down, plan>>

ClientPart ==
    /\ Free /\ Todo.op = "part"
    /\ Quiet
    /\ LET ns == Fresh(b.sent, Todo.n)
           r == SendPart(b.sender, Todo.text, ns, Todo.last)
       IN  b' = IF CanSend
                THEN [b EXCEPT !.at = @ + 1, !.out = r.frames, !.sender = r.sender,
                               !.sent = Record(@, Todo.text, ns, Todo.last)]
                ELSE [b EXCEPT !.at = @ + 1]

ClientPlain ==
    /\ Free /\ Todo.op = "plain" /\ Quiet
    /\ b' = [b EXCEPT !.at = @ + 1, !.sender.plain = ~@]

ClientPing ==
    /\ Free /\ Todo.op = "ping" /\ Quiet
    /\ b' = [b EXCEPT !.at = @ + 1, !.out = IF CanSend THEN <<Control("ping", 0)>> ELSE <<>>]

ClientReceive ==
    /\ Free /\ Todo.op = "receive" /\ Quiet
    /\ b' = [b EXCEPT !.at = @ + 1,
                      !.call = IF @ = "none" /\ b.failed = "no" /\ ~b.closeReceived /\ ~b.closeSent
                               THEN "receive" ELSE @]

(* proven_ws_conn_close: the close frame, then what comes is read away     *)
(* until the peer's.                                                       *)
ClientClose ==
    /\ Free /\ Todo.op = "close" /\ Quiet
    /\ b' = IF b.failed # "no" THEN [b EXCEPT !.at = @ + 1]
            ELSE LET c == [b EXCEPT !.at = @ + 1, !.closeSent = TRUE, !.own = ~b.closeReceived,
                                    !.out = IF b.closeSent THEN <<>> ELSE <<Control("close", 1)>>]
                 IN  IF c.closeReceived THEN Shut(c) ELSE [c EXCEPT !.call = "close"]

ClientDestroy ==
    /\ Free /\ Todo.op = "destroy"
    /\ b' = [b EXCEPT !.at = @ + 1, !.gone = TRUE,
                      !.shut = IF down # <<>> THEN "reset" ELSE "fin"]
    /\ UNCHANGED <<e, up, down, plan>>

(* proven_transport_write_all: as much as there is room for.  To a server  *)
(* that has closed its socket what is written is lost, and answered with a *)
(* reset.                                                                  *)
ClientWrite ==
    /\ b.out # <<>> /\ e.shut # "reset" /\ Len(up) < WireRoom
    /\ LET n == Least(WireRoom - Len(up), Len(b.out))
       IN  /\ b' = [b EXCEPT !.out = Rest(@, n)]
           /\ IF e.st = "dead" THEN e' = [e EXCEPT !.shut = "reset"] /\ UNCHANGED up
                               ELSE UNCHANGED e /\ up' = up \o Heads(b.out, n)
    /\ UNCHANGED <<down, plan>>

ClientWriteFails ==
    /\ b.out # <<>>
    /\ e.shut = "reset" \/ (plan.slow /\ Len(up) = WireRoom)
    /\ b' = Failed(b, IF e.shut = "reset" THEN "reset" ELSE "timeout")
    /\ Quiet

(* wc_fail: the peer is told why, once, and what it has still to send is   *)
(* read away.                                                              *)
Refuse(c, why) ==
    [c EXCEPT !.failed = why, !.call = "linger", !.closeSent = TRUE, !.closing = TRUE,
              !.out = IF c.closeSent THEN <<>> ELSE <<Control("close", 3)>>]

(* What wc_pump does with an event; c is the client after the feed.        *)
PumpData(c, ev) ==
    LET m == IF ev.first THEN [text |-> ev.text, units |-> <<>>, zip |-> ev.zip] ELSE c.message
        kept == IF ev.first /\ ~plan.takeover THEN 0 ELSE c.kept
        c2 == [c EXCEPT !.message = [m EXCEPT !.units = @ \o Numbers(ev.units)],
                        !.kept = IF m.zip THEN kept + Len(ev.units) ELSE kept]
    IN  IF m.zip /\ ~Readable(kept, ev.units) THEN Refuse(c, "format")
        ELSE IF ev.last
        THEN [c2 EXCEPT !.got = Append(@, [text |-> m.text, units |-> c2.message.units, done |-> TRUE]),
                        !.call = "none"]
        ELSE c2

Pump(c, ev) ==
    LET discard == c.call = "close"
    IN  CASE ev.kind = "data" /\ ~discard -> PumpData(c, ev)
          [] ev.kind = "ping" /\ ~discard -> [c EXCEPT !.out = <<Control("pong", 0)>>]
          [] ev.kind = "close" ->
                [c EXCEPT !.closeReceived = TRUE, !.code = ev.code, !.call = "none",
                          !.closeSent = TRUE, !.closing = TRUE,
                          !.out = IF c.closeSent THEN <<>> ELSE <<Control("close", ev.code)>>]
          [] ev.kind = "bad" -> Refuse(c, ev.why)
          [] OTHER -> c

Reading == b.call # "none" /\ b.out = <<>>

ClientRead ==
    /\ Reading /\ b.stash = <<>>
    /\ \E k \in Cuts(down) :
        /\ b' = [b EXCEPT !.stash = IF b.call = "linger" THEN <<>> ELSE Heads(down, k), !.pinged = FALSE]
        /\ down' = Rest(down, k)
    /\ UNCHANGED <<e, up, plan>>

ClientFeed ==
    /\ Reading /\ b.stash # <<>> /\ b.call # "linger" /\ Quiet
    /\ LET f == Feed(b.dec, b.stash)
       IN  b' = Pump([b EXCEPT !.dec = f.d, !.stash = Rest(@, f.used)], f.ev)

(* The connection is over with no close frame.  A peer that drops it once  *)
(* it has our close has closed, if rudely.                                 *)
ClientEnd ==
    /\ Reading /\ b.stash = <<>> /\ Quiet
    /\ e.shut = "reset" \/ (e.shut = "fin" /\ down = <<>>)
    /\ b' = CASE b.call = "receive" -> [Failed(b, "reset") EXCEPT !.code = 1006]
              [] b.call = "close" -> [b EXCEPT !.call = "none", !.closeReceived = TRUE,
                                               !.closing = TRUE, !.code = 1006]
              [] OTHER -> [b EXCEPT !.call = "none"]

ClientTimeout ==
    /\ Reading /\ b.stash = <<>> /\ down = <<>> /\ (plan.slow \/ b.call = "linger") /\ Quiet
    /\ b' = [b EXCEPT !.call = "none"]

(* Silence: a ping, and then the end.                                      *)
ClientPings ==
    /\ Reading /\ b.call = "receive" /\ b.stash = <<>> /\ down = <<>>
    /\ b.silences < plan.quiet /\ Quiet
    /\ b' = IF b.pinged THEN [Failed(b, "reset") EXCEPT !.code = 1006]
            ELSE [b EXCEPT !.out = <<Control("ping", 0)>>, !.pinged = TRUE, !.silences = @ + 1]

ClientShut ==
    /\ b.closing /\ b.out = <<>> /\ b.shut = "no" /\ Quiet
    /\ b' = Shut(b)

-----------------------------------------------------------------------------
(* The server: callbacks of one thread.  busy is what is on its stack:     *)
(* nothing, ws_on_input, or ws_rx_run under it or under a resume.          *)

NoRx == [on |-> FALSE, text |-> FALSE, started |-> FALSE, have |-> FALSE,
         held |-> <<>>, heldLast |-> FALSE]
Running == e.busy \in {"inflate", "held"}

Finish(x, code, why) ==
    IF x.closed THEN x ELSE [x EXCEPT !.closed = TRUE, !.told = @ + 1, !.code = code, !.why = why]

(* ev_kill: closed with what came unread the socket is reset.              *)
Kill(x) == [x EXCEPT !.st = "dead", !.out = <<>>, !.stash = <<>>,
                     !.shut = IF up # <<>> THEN "reset" ELSE IF @ = "no" THEN "fin" ELSE @]
Linger(x) == [x EXCEPT !.st = "linger", !.stash = <<>>, !.shut = IF x.out = <<>> THEN "fin" ELSE @]

End(x, polite, code, why) ==
    Finish(IF x.st # "raw" THEN x ELSE IF polite THEN Linger(x) ELSE Kill(x), code, why)

SendClose(x, code) ==
    [x EXCEPT !.closeSent = TRUE, !.sentCode = code, !.out = Append(@, Control("close", code))]
Fail(x, why) == End(IF x.closeSent THEN x ELSE SendClose(x, 3), TRUE, 3, why)

MaySend(x) == ~x.closed /\ x.st = "raw" /\ ~x.closeSent
SendPiece(x, text, n, last) ==
    LET ns == Fresh(x.sent, n)
        r == SendPart(x.sender, text, ns, last)
    IN  [x EXCEPT !.sender = r.sender, !.out = @ \o r.frames, !.sent = Record(@, text, ns, last)]

Pause(x) == IF x.closed \/ x.st # "raw" \/ x.paused THEN x
            ELSE [x EXCEPT !.paused = TRUE, !.rawPaused = TRUE]

(* The end of a resume, and of ws_on_input: the connection underneath      *)
(* reads again unless something is set aside.                              *)
Reopen(x) == IF x.rawPaused /\ ~x.paused /\ ~x.closed /\ x.st = "raw" /\ ~x.rx.have
             THEN [x EXCEPT !.rawPaused = FALSE] ELSE x

(* What the program's on_message does, by the plan.                        *)
React(x, running) ==
    LET r == IF x.calls <= Len(plan.react) THEN plan.react[x.calls] ELSE "none"
    IN  CASE r = "pause" -> Pause(x)
          [] r = "pause and resume" ->
                LET y == [Pause(x) EXCEPT !.paused = FALSE] IN IF running THEN y ELSE Reopen(y)
          [] r = "close" /\ MaySend(x) -> [SendClose(x, 2) EXCEPT !.own = TRUE]
          [] r = "abort" -> End(x, FALSE, 1006, "reset")
          [] r = "reply" /\ MaySend(x) /\ ~x.sender.sending /\ Len(x.out) < MaxBuffered ->
                SendPiece(x, FALSE, 1, TRUE)
          [] OTHER -> x

Deliver(x, text, ns, first, last, running) ==
    IF x.closeSent THEN x
    ELSE LET open == x.got # <<>> /\ ~Last(x.got).done
             got == IF first THEN Append(x.got, [text |-> text, units |-> ns, done |-> last])
                    ELSE IF open THEN Record(x.got, text, ns, last) ELSE x.got
         IN  React([x EXCEPT !.got = got, !.calls = @ + 1,
                             !.torn = @ \/ first = open \/ x.closed], running)

Heard(x) == IF x.closeSent THEN x ELSE [x EXCEPT !.pinged = FALSE]

ServerRead ==
    /\ e.busy = "no" /\ e.st \in {"raw", "linger"} /\ ~(e.st = "raw" /\ e.rawPaused)
    /\ \E k \in Cuts(up) :
        /\ e' = IF e.st = "linger" THEN e
                ELSE Heard([e EXCEPT !.stash = @ \o Heads(up, k), !.busy = "input"])
        /\ up' = Rest(up, k)
    /\ UNCHANGED <<b, down, plan>>

Going == e.stash # <<>> /\ ~e.closed /\ ~e.paused /\ e.st = "raw"
Inside == UNCHANGED <<b, up, down, plan>>

(* One turn of ws_on_input's loop.                                         *)
ServerDecode ==
    /\ e.busy = "input" /\ Going /\ Inside
    /\ LET f == Feed(e.dec, e.stash)
           ev == f.ev
           x == [e EXCEPT !.dec = f.d, !.stash = Rest(@, f.used)]
           new == ev.kind = "data" /\ ev.zip /\ ev.first /\ ~x.closeSent
           rx == IF new THEN [NoRx EXCEPT !.on = TRUE, !.text = ev.text]
                 ELSE IF ev.kind = "data" /\ ev.zip /\ ev.first THEN NoRx ELSE x.rx
           z == [x EXCEPT !.rx = rx, !.kept = IF new /\ ~plan.takeover THEN 0 ELSE @]
       IN  e' = CASE ev.kind = "bad" -> Fail(x, ev.why)
                  [] ev.kind = "data" /\ ~ev.zip ->
                        Deliver(x, ev.text, Numbers(ev.units), ev.first, ev.last, FALSE)
                  [] ev.kind = "data" /\ ev.zip ->
                        IF ~rx.on THEN z
                        ELSE [z EXCEPT !.busy = "inflate",
                                       !.work = [units |-> ev.units, last |-> ev.last]]
                  [] ev.kind = "ping" /\ ~x.closeSent -> [x EXCEPT !.out = Append(@, Control("pong", 0))]
                  [] ev.kind = "close" ->
                        IF x.closeSent THEN End(x, TRUE, x.sentCode, "ok")
                        ELSE End(SendClose(x, ev.code), TRUE, ev.code, "ok")
                  [] OTHER -> x

(* Mutant: what a resume inside a compressed message left is not looked at *)
InputDoneStopped ==
    /\ e.busy = "input" /\ ~Going /\ Inside
    /\ e' = [e EXCEPT !.busy = "no"]

InputDone ==
    /\ e.busy = "input" /\ ~Going /\ Inside
    /\ e' = [Reopen(e) EXCEPT !.busy = "no"]

(* Input that waited in the connection's buffer is delivered.              *)
Reread(x) == IF ~x.rawPaused /\ x.stash # <<>> THEN Heard([x EXCEPT !.busy = "input"])
             ELSE [x EXCEPT !.busy = "no"]

(* ws_rx_run returns: what the program did not take is set aside, to its   *)
(* caller in ws_on_input; a resume goes on to what the connection holds.   *)
RunOver(x, finished) ==
    LET hold == ~finished /\ x.rx.on
        y == [x EXCEPT !.rx.have = hold, !.rx.held = IF hold THEN x.work.units ELSE <<>>,
                       !.rx.heldLast = hold /\ x.work.last,
                       !.work = [units |-> <<>>, last |-> FALSE]]
    IN  IF x.busy = "inflate" THEN [y EXCEPT !.busy = "input"] ELSE Reread(Reopen(y))

(* ws_rx_run: a piece of what the decompressor makes of e.work is          *)
(* delivered at a time, until the program pauses.                          *)
ServerInflate ==
    /\ Running /\ ~e.closed /\ e.st = "raw" /\ ~e.paused /\ Inside
    /\ e.work.units # <<>> \/ e.work.last
    /\ \E k \in 0..Len(e.work.units), done \in BOOLEAN :
        LET units == Heads(e.work.units, k)
            x == [e EXCEPT !.work.units = Rest(@, k), !.kept = @ + k, !.rx.started = TRUE]
            y == Deliver(x, e.rx.text, Numbers(units), ~e.rx.started, done, TRUE)
        IN  /\ k > 0 \/ done
            /\ done => e.work.last /\ k = Len(e.work.units)
            /\ e' = IF ~Readable(e.kept, units) THEN RunOver(Fail(x, "format"), TRUE)
                    ELSE IF done THEN RunOver([y EXCEPT !.rx = NoRx], TRUE)
                    ELSE y

ServerInflateEnd ==
    /\ Running /\ Inside
    /\ e.closed \/ e.st # "raw" \/ e.paused \/ (e.work.units = <<>> /\ ~e.work.last)
    /\ e' = RunOver(e, e.closed \/ e.st # "raw" \/ ~e.paused)

-----------------------------------------------------------------------------
(* The server's program between callbacks, its timer, and its socket.      *)

ServerTodo == Op(plan.server, e.at)
ServerIdle == e.busy = "no" /\ ~e.blocked

ServerPiece ==
    /\ ServerIdle /\ ServerTodo.op = "part" /\ Inside
    /\ e' = IF ~MaySend(e) THEN [e EXCEPT !.at = @ + 1]
            ELSE IF Len(e.out) >= MaxBuffered THEN [e EXCEPT !.want = TRUE, !.blocked = TRUE]
            ELSE [SendPiece(e, ServerTodo.text, ServerTodo.n, ServerTodo.last) EXCEPT !.at = @ + 1]

ServerCall ==
    /\ ServerIdle /\ ServerTodo.op \in {"ping", "close", "abort", "pause", "plain"} /\ Inside
    /\ LET x == [e EXCEPT !.at = @ + 1]
           op == ServerTodo.op
       IN  e' = CASE op = "ping" /\ MaySend(x) /\ Len(x.out) < MaxBuffered ->
                        [x EXCEPT !.out = Append(@, Control("ping", 0))]
                  [] op = "close" /\ MaySend(x) -> [SendClose(x, 2) EXCEPT !.own = TRUE]
                  [] op = "abort" -> End(x, FALSE, 1006, "reset")
                  [] op = "pause" -> Pause(x)
                  [] op = "plain" -> [x EXCEPT !.sender.plain = ~@]
                  [] OTHER -> x

(* What was set aside comes first, then what the connection holds.         *)
ServerResume ==
    /\ ServerIdle /\ ServerTodo.op = "resume" /\ Inside
    /\ LET x == [e EXCEPT !.at = @ + 1, !.paused = FALSE]
       IN  e' = IF e.closed \/ e.st # "raw" \/ ~e.paused THEN [e EXCEPT !.at = @ + 1]
                ELSE IF e.rx.have
                THEN [x EXCEPT !.busy = "held", !.work = [units |-> x.rx.held, last |-> x.rx.heldLast]]
                ELSE Reread(Reopen(x))

Progress(x) ==
    IF x.out # <<>> THEN x
    ELSE IF x.st = "linger" THEN [x EXCEPT !.shut = "fin"]
    ELSE IF x.want /\ ~x.closeSent THEN [x EXCEPT !.want = FALSE, !.blocked = FALSE]
    ELSE x

ServerFlush ==
    /\ e.busy = "no" /\ e.out # <<>>
    /\ b.gone \/ Len(down) < WireRoom
    /\ LET n == Least(IF b.gone THEN Len(e.out) ELSE WireRoom - Len(down), Len(e.out))
       IN  /\ e' = Progress([e EXCEPT !.out = Rest(@, n)])
           /\ IF b.gone THEN b' = [b EXCEPT !.shut = "reset"] /\ UNCHANGED down
                        ELSE UNCHANGED b /\ down' = down \o Heads(e.out, n)
    /\ UNCHANGED <<up, plan>>

ServerEof ==
    /\ e.busy = "no" /\ e.st # "dead" /\ Inside
    /\ b.shut = "reset" \/ (b.shut = "fin" /\ up = <<>> /\ ~(e.st = "raw" /\ e.rawPaused))
    /\ e' = Finish(Kill(e), IF e.closeSent THEN e.sentCode ELSE 1006, "reset")

ServerLingers ==
    /\ e.busy = "no" /\ e.st = "linger" /\ e.out = <<>> /\ Inside
    /\ e' = Kill(e)

ServerTimer ==
    /\ e.busy = "no" /\ e.st = "raw" /\ e.silences < plan.quiet /\ Inside
    /\ LET x == [e EXCEPT !.silences = @ + 1]
       IN  e' = IF x.closeSent THEN End(x, FALSE, x.sentCode, "timeout")
                ELSE IF x.paused THEN x
                ELSE IF x.pinged THEN End(x, FALSE, 1006, "timeout")
                ELSE [x EXCEPT !.pinged = TRUE, !.out = Append(@, Control("ping", 0))]

-----------------------------------------------------------------------------
Init ==
    /\ plan \in Plans
    /\ b = [at |-> 1, call |-> "none", out |-> <<>>, stash |-> <<>>, sender |-> NoSender,
            closeSent |-> FALSE, closeReceived |-> FALSE, closing |-> FALSE, shut |-> "no", own |-> FALSE,
            gone |-> FALSE, failed |-> "no", code |-> 0, pinged |-> FALSE, silences |-> 0, dec |-> NewDecoder,
            message |-> NoMessage, kept |-> 0, sent |-> <<>>, got |-> <<>>]
    /\ e = [at |-> 1, st |-> "raw", busy |-> "no", shut |-> "no", closed |-> FALSE, told |-> 0,
            code |-> 0, why |-> "no", closeSent |-> FALSE, sentCode |-> 0, own |-> FALSE,
            sender |-> NoSender, out |-> <<>>, stash |-> <<>>, want |-> FALSE, blocked |-> FALSE,
            pinged |-> FALSE, silences |-> 0, paused |-> FALSE, rawPaused |-> FALSE, dec |-> NewDecoder,
            rx |-> NoRx, work |-> [units |-> <<>>, last |-> FALSE], kept |-> 0, calls |-> 0,
            sent |-> <<>>, got |-> <<>>, torn |-> FALSE]
    /\ up = <<>> /\ down = <<>>

Next ==
    \/ ClientPart \/ ClientPlain \/ ClientPing \/ ClientReceive \/ ClientClose \/ ClientDestroy
    \/ ClientWrite \/ ClientWriteFails \/ ClientRead \/ ClientFeed \/ ClientEnd
    \/ ClientTimeout \/ ClientPings \/ ClientShut
    \/ ServerRead \/ ServerDecode \/ InputDone \/ ServerInflate \/ ServerInflateEnd
    \/ ServerPiece \/ ServerCall \/ ServerResume \/ ServerFlush \/ ServerEof
    \/ ServerLingers \/ ServerTimer

Spec == Init /\ [][Next]_vars
-----------------------------------------------------------------------------
(* Properties.                                                             *)

Units(messages) == FlattenSeq([i \in DOMAIN messages |-> messages[i].units])
Whole(messages) == SelectSeq(messages, LAMBDA m : m.done)
Arrived(got, sent) ==
    /\ Len(got) <= Len(sent)
    /\ \A i \in DOMAIN got :
        /\ got[i].text = sent[i].text
        /\ IF got[i].done THEN got[i] = sent[i]
           ELSE i = Len(got) /\ IsPrefix(got[i].units, sent[i].units)
TooLong(sent) == \E i \in DOMAIN sent : Len(sent[i].units) > MaxMessage

(* ws_event.h: messages arrive in pieces, "with `first` and `last` marking *)
(* the ends"; ws_conn.h: receive returns whole messages.  What either      *)
(* program is given is what the other sent, in order, of the same kind,    *)
(* compressed or not, however the bytes were cut and whenever it paused;   *)
(* neither end refuses what the other sends.  A close that the peer began  *)
(* comes after all it had sent, and both report its code.                  *)
MessagesArrive ==
    /\ Arrived(e.got, b.sent) /\ Arrived(b.got, e.sent) /\ ~e.torn
    /\ e.why \in {"format", "too long"} => TooLong(b.sent)
    /\ b.failed \in {"format", "too long"} => TooLong(e.sent)
    /\ e.why = "ok" /\ ~e.own => Units(e.got) = Units(b.sent) /\ e.code = 1
    /\ e.why = "ok" /\ e.own => e.code = 2
    /\ b.closeReceived /\ b.code = 2 /\ ~b.own => b.got = Whole(e.sent)

(* Nothing waits for a callback that nobody will make: a connection that   *)
(* is not paused reads, with nothing set aside and nothing in its buffer;  *)
(* a program that was told to try again will hear on_writable; on_closed   *)
(* is called once, when the connection has gone.                           *)
NothingLeftBehind ==
    e.busy = "no" =>
        /\ e.st = "raw" /\ ~e.paused => ~e.rawPaused /\ ~e.rx.have /\ e.stash = <<>>
        /\ e.blocked /\ MaySend(e) => e.want /\ e.out # <<>>
        /\ e.told = (IF e.st = "raw" THEN 0 ELSE 1)
=============================================================================
