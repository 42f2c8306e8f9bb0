-------------------------- MODULE HttpEventServer --------------------------
(***************************************************************************)
(* The HTTP/1.1 server on an event loop (http_event.c), in the clear:      *)
(* pipelined requests that wait their turn, requests put off while another *)
(* connection's is being delivered, bodies and 100 Continue, responses     *)
(* whole or written in pieces against a bound, the polite close, listeners *)
(* that stop when the server is full, and the graceful end; with the calls *)
(* the program makes from inside its callbacks, on the same connection, on *)
(* another, and on the server.                                             *)
(*                                                                         *)
(* A request is a head, perhaps in two parts, and a body of pieces up to   *)
(* the last; a response is one unit, or a head, data and an end.  A        *)
(* handler of the loop is one step: each function of the code is an        *)
(* operator from one state of the server to the next, and the calls that   *)
(* may come back to it wait in todo, in the order of the code.             *)
(***************************************************************************)
EXTENDS Integers, SequencesExt

CONSTANTS
    Requests, Clients,   \* each client makes one connection and sends its requests on it
    MaxOut,              \* max_buffered_output, in units
    Room,                \* what the system holds of a response until the client reads it
    Plans                \* what the program and the clients will do

VARIABLES sv, web, plan

None == "none"
Listeners == {1, 2}

FreshConn ==
    [life |-> "none", state |-> "head", r |-> None, headStarted |-> TRUE, active |-> FALSE,
     keep |-> FALSE, begun |-> FALSE, ended |-> FALSE, wantWritable |-> FALSE,
     paused |-> FALSE, expect |-> FALSE, peerEof |-> FALSE, deferred |-> FALSE,
     processing |-> FALSE, stash |-> <<>>, held |-> <<>>, recvArmed |-> FALSE,
     waitAt |-> -1, closeWhenFlushed |-> FALSE, timer |-> None]

(* What the system has of a connection: what the client sent, what was     *)
(* written and not yet read, and whether either side has ended.            *)
FreshNet == [up |-> <<>>, down |-> <<>>, fin |-> FALSE, broken |-> FALSE,
             reset |-> FALSE, cut |-> FALSE]

FreshRequest == [life |-> "new", done |-> 0, err |-> None, left |-> 0]
NoListener == [life |-> "none", armed |-> FALSE, cancelling |-> FALSE]
OpenListener == [NoListener EXCEPT !.life = "open", !.armed = TRUE]

(* conns is the server's list, the newest connection first; fault is what  *)
(* must never happen.                                                      *)
FreshServer ==
    [conn |-> [k \in Clients |-> FreshConn], net |-> [k \in Clients |-> FreshNet],
     rq |-> [r \in Requests |-> FreshRequest], conns |-> <<>>,
     lis |-> [l \in Listeners |-> IF l <= plan.listeners THEN OpenListener ELSE NoListener],
     accepting |-> plan.listeners > 0, delivering |-> 0, deferredAny |-> FALSE,
     stopped |-> FALSE, closedToNew |-> FALSE, draining |-> FALSE, drainTold |-> None,
     drainCut |-> FALSE, deadline |-> FALSE, drainDone |-> FALSE, ending |-> 0,
     destroyed |-> FALSE, freed |-> FALSE, fault |-> None, todo |-> <<>>]

Dead(s, k) == s.conn[k].life # "open"
AtLimit(s) == Len(s.conns) >= plan.max
Reading(c) == /\ ~c.peerEof /\ ~(c.state = "body" /\ c.paused)
              /\ ~(c.state = "respond" /\ c.stash # <<>>)

Call(do, k, why) == [do |-> do, k |-> k, why |-> why]
Then(s, calls) == [s EXCEPT !.todo = calls \o @]
Fault(s, bad, what) == IF bad THEN [s EXCEPT !.fault = what] ELSE s

-----------------------------------------------------------------------------
(* Listeners, and the end of a drain                                       *)

UpdateListeners(s) ==
    LET want == ~s.stopped /\ ~AtLimit(s)
        Told(l) == CASE l.life # "open" \/ l.cancelling -> l
                     [] want -> [l EXCEPT !.armed = TRUE]
                     [] OTHER -> [l EXCEPT !.cancelling = l.armed]
    IN  IF want = s.accepting THEN s
        ELSE [s EXCEPT !.accepting = want, !.lis = [l \in Listeners |-> Told(@[l])]]

DrainCheck(s) ==
    IF s.draining /\ s.drainTold = None /\ ~s.stopped /\ s.conns = <<>>
    THEN [s EXCEPT !.drainDone = TRUE] ELSE s

(* Something the server ended has had its last answer                      *)
Ended(s) == [s EXCEPT !.ending = @ - 1, !.freed = @ \/ (s.destroyed /\ s.ending = 1)]

-----------------------------------------------------------------------------
(* A connection's life                                                     *)

(* A socket closed over unread input resets, and may take with it what was *)
(* written.  On io_uring what the loop still holds is written first.       *)
CloseSocket(s, k) ==
    LET n == s.net[k]
        last == IF plan.ring THEN SubSeq(s.conn[k].held, 1, Min({Len(s.conn[k].held), Room - Len(n.down)})) ELSE <<>>
    IN  [s EXCEPT !.net[k] = [n EXCEPT !.fin = TRUE, !.down = @ \o last,
                                       !.reset = n.up # <<>> /\ n.up # <<[r |-> None, what |-> "fin"]>>]]

Kill(s, k, why) ==
    LET c == s.conn[k]
        t == [CloseSocket(s, k) EXCEPT
                 !.conn[k] = [c EXCEPT !.life = "closing", !.timer = None, !.active = FALSE,
                                       !.held = <<>>, !.recvArmed = FALSE, !.waitAt = -1],
                 !.ending = @ + 1, !.conns = SelectSeq(@, LAMBDA x : x # k)]
        u == DrainCheck(UpdateListeners(t))
    IN  IF Dead(s, k) THEN s
        ELSE IF c.active THEN Then(u, <<Call("done", k, why)>>) ELSE u

(* Which time limit a connection needs depends on what it waits for        *)
TimerOf(c) ==
    CASE c.held # <<>> -> "write"
      [] c.state = "linger" -> "linger"
      [] c.state = "head" -> IF c.headStarted THEN "head" ELSE "idle"
      [] c.state = "body" /\ ~c.paused -> "body"
      [] OTHER -> None

Arm(s, k) == IF Dead(s, k) THEN s ELSE [s EXCEPT !.conn[k].timer = TimerOf(s.conn[k])]

(* Input, and to be told when the output held has come down far enough     *)
Watch(s, k) ==
    LET c == s.conn[k]
        level == IF c.active /\ ~c.ended /\ c.wantWritable THEN MaxOut - 1 ELSE 0
    IN  IF Dead(s, k) THEN s
        ELSE [s EXCEPT !.conn[k].recvArmed = @ \/ Reading(c),
                       !.conn[k].waitAt = IF c.held = <<>> THEN @ ELSE level]

ArmWatch(s, k) == Arm(Watch(s, k), k)

(* Straight to the socket when nothing waits; the rest is the loop's       *)
Space(s, k) == IF plan.ring \/ s.conn[k].held # <<>> THEN 0 ELSE Room - Len(s.net[k].down)

Put(s, k, units) ==
    LET n == Min({Len(units), Space(s, k)})
    IN  CASE Dead(s, k) -> s
          [] s.net[k].broken /\ s.conn[k].held = <<>> /\ ~plan.ring -> Kill(s, k, "reset")
          [] OTHER -> [s EXCEPT !.net[k].down = @ \o SubSeq(units, 1, n),
                                !.conn[k].held = @ \o SubSeq(units, n + 1, Len(units))]

(* Close politely: no more will come; read and discard until the client    *)
(* closes, or a moment has passed.                                         *)
Linger(s, k) ==
    LET t == [s EXCEPT !.conn[k].state = "linger", !.conn[k].stash = <<>>]
        c == t.conn[k]
    IN  CASE Dead(s, k) -> s
          [] s.stopped -> Kill(s, k, "reset")
          [] c.held # <<>> -> ArmWatch([t EXCEPT !.conn[k].closeWhenFlushed = TRUE], k)
          [] c.peerEof -> Kill([t EXCEPT !.net[k].fin = TRUE], k, "ok")
          [] OTHER -> ArmWatch([t EXCEPT !.net[k].fin = TRUE], k)

(* The response is complete and gone                                       *)
Finish(s, k) ==
    LET c == s.conn[k]
        reuse == /\ c.keep /\ c.state = "respond" /\ ~c.peerEof
                 /\ ~s.stopped /\ ~s.closedToNew
    IN  Then([s EXCEPT !.conn[k].active = FALSE],
             <<Call("done", k, "ok"), Call(IF reuse THEN "reuse" ELSE "leave", k, None)>>)

OverAndDone(c) == [c EXCEPT !.begun = FALSE, !.ended = FALSE, !.wantWritable = FALSE,
                            !.paused = FALSE, !.expect = FALSE]

(* Mutant: the input that has come with the request is not looked at.      *)
ReuseFresh(s, k) ==
    LET c == s.conn[k]
        fresh == [OverAndDone(c) EXCEPT !.state = "head", !.headStarted = c.stash # <<>>]
    IN  IF Dead(s, k) THEN s ELSE ArmWatch([s EXCEPT !.conn[k] = fresh], k)

Reuse(s, k) ==
    LET c == s.conn[k]
        fresh == [OverAndDone(c) EXCEPT !.state = "head", !.headStarted = c.stash # <<>>]
    IN  IF Dead(s, k) THEN s
        ELSE Then(ArmWatch([s EXCEPT !.conn[k] = fresh], k), <<Call("process", k, None)>>)

Leave(s, k) == IF Dead(s, k) THEN s ELSE Linger([s EXCEPT !.conn[k] = OverAndDone(@)], k)

(* Something was sent, or the state moved: see what that allows            *)
Progress(s, k) ==
    LET c == s.conn[k]
        t == Then(s, <<Call("watch", k, None)>>)
    IN  CASE Dead(s, k) -> s
          [] c.state = "linger" ->
                IF c.closeWhenFlushed /\ c.held = <<>>
                THEN Linger([t EXCEPT !.conn[k].closeWhenFlushed = FALSE], k) ELSE t
          [] c.state # "linger" /\ c.active /\ c.ended /\ c.held = <<>> -> Finish(t, k)
          [] c.state # "linger" /\ c.active /\ ~c.ended /\ c.wantWritable /\ Len(c.held) < MaxOut ->
                Then([t EXCEPT !.conn[k].wantWritable = FALSE], <<Call("writable", k, None)>>)
          [] OTHER -> t

(* A request the server will not pass on                                   *)
Reject(s, k, why) ==
    LET t == Then(s, <<Call("rejected", k, why)>>)
    IN  IF s.conn[k].begun THEN t
        ELSE Put(t, k, <<[r |-> None, what |-> "error", close |-> TRUE]>>)

Rejected(s, k, why) ==
    LET t == [s EXCEPT !.conn[k].keep = FALSE, !.conn[k].active = FALSE]
    IN  CASE Dead(s, k) -> s
          [] s.conn[k].active -> Then(t, <<Call("done", k, why), Call("linger", k, None)>>)
          [] OTHER -> Linger(t, k)

-----------------------------------------------------------------------------
(* Input                                                                   *)

Process(s, k) ==
    IF s.conn[k].processing \/ Dead(s, k) THEN s
    ELSE Then([s EXCEPT !.conn[k].processing = TRUE], <<Call("step", k, None)>>)

ProcessEnd(s, k) == ArmWatch([s EXCEPT !.conn[k].processing = FALSE], k)

(* Another connection's request is being delivered: this one's waits       *)
Defer(s, k) == ProcessEnd([s EXCEPT !.conn[k].deferred = TRUE, !.deferredAny = TRUE], k)

(* A head that is all there                                                *)
TakeHead(s, k, u, rest) ==
    LET body == u.what # "get"
        c == [s.conn[k] EXCEPT !.r = u.r, !.keep = u.r \notin plan.closes, !.active = TRUE,
                !.expect = u.what = "expect", !.state = IF body THEN "body" ELSE "respond",
                !.headStarted = FALSE, !.stash = rest]
        t == Fault([s EXCEPT !.conn[k] = c, !.delivering = @ + 1, !.rq[u.r].life = "open"],
                   s.delivering > 0, "views in use")
    IN  Then(Arm(t, k), <<Call("request", k, None), Call("delivered", k, None),
                          Call("go on", k, None), Call("progress", k, None), Call("step", k, None)>>)

(* Mutant: a head is read although another's is in use.                    *)
HeadStepAtOnce(s, k) ==
    LET in == s.conn[k].stash
        t == [s EXCEPT !.conn[k].headStarted = TRUE]
        at == IF in[1].what = "part" THEN 2 ELSE 1
    IN  CASE Len(in) < at -> ProcessEnd(t, k)
          [] Len(in) >= at /\ in[at].what = "bad" ->
                Reject(Then(t, <<Call("stop", k, None)>>), k, "format")
          [] OTHER -> TakeHead(t, k, in[at], SubSeq(in, at + 1, Len(in)))

HeadStep(s, k) ==
    LET in == s.conn[k].stash
        t == [s EXCEPT !.conn[k].headStarted = TRUE]
        at == IF in[1].what = "part" THEN 2 ELSE 1
    IN  CASE s.delivering > 0 -> Defer(s, k)
          [] s.delivering = 0 /\ Len(in) < at -> ProcessEnd(t, k)
          [] s.delivering = 0 /\ Len(in) >= at /\ in[at].what = "bad" ->
                Reject(Then(t, <<Call("stop", k, None)>>), k, "format")
          [] OTHER -> TakeHead(t, k, in[at], SubSeq(in, at + 1, Len(in)))

BodyStep(s, k) ==
    LET u == Head(s.conn[k].stash)
        t == [s EXCEPT !.conn[k].stash = Tail(@), !.conn[k].state = IF u.what = "last" THEN "respond" ELSE @]
    IN  IF u.what = "bad" THEN Reject(Then(s, <<Call("stop", k, None)>>), k, "format")
        ELSE Then(t, <<Call("body", k, u.what), Call("progress", k, None), Call("step", k, None)>>)

Step(s, k) ==
    LET c == s.conn[k]
    IN  CASE Dead(s, k) \/ c.state = "respond" -> ProcessEnd(s, k)
          [] ~Dead(s, k) /\ c.state = "linger" -> ProcessEnd([s EXCEPT !.conn[k].stash = <<>>], k)
          [] ~Dead(s, k) /\ c.state \in {"head", "body"} /\ (c.stash = <<>> \/ (c.state = "body" /\ c.paused)) ->
                ProcessEnd(s, k)
          [] ~Dead(s, k) /\ c.state = "head" /\ c.stash # <<>> -> HeadStep(s, k)
          [] OTHER -> BodyStep(s, k)

(* The handler has not answered: the client may send the body it holds     *)
GoOn(s, k) ==
    LET c == s.conn[k]
    IN  IF Dead(s, k) \/ c.state # "body" \/ ~c.expect \/ c.begun THEN s
        ELSE Put([s EXCEPT !.conn[k].expect = FALSE], k,
                 <<[r |-> c.r, what |-> "continue", close |-> FALSE]>>)

(* The delivery is over: those put off are read, one at a time             *)
Deferred(s) ==
    LET W == SelectSeq(s.conns, LAMBDA k : s.conn[k].deferred)
    IN  CASE ~s.deferredAny \/ s.delivering > 0 \/ s.destroyed -> s
          [] s.deferredAny /\ s.delivering = 0 /\ ~s.destroyed /\ W = <<>> -> [s EXCEPT !.deferredAny = FALSE]
          [] OTHER -> Then([s EXCEPT !.conn[W[1]].deferred = FALSE],
                           <<Call("process", W[1], None), Call("deferred", None, None)>>)

Delivered(s) ==
    LET t == [s EXCEPT !.delivering = @ - 1]
    IN  IF t.delivering > 0 THEN t ELSE Deferred(t)

Readable(s, k) ==
    LET c == s.conn[k]
        up == s.net[k].up
        eof == [s EXCEPT !.conn[k].peerEof = TRUE, !.net[k].up = <<>>]
        D == SelectSeq(up, LAMBDA u : u.what # "fin")
        read == [s EXCEPT !.net[k].up = SubSeq(@, Len(D) + 1, Len(@))]
    IN  CASE s.net[k].broken -> Kill(s, k, "reset")
          [] ~s.net[k].broken /\ D = <<>> /\ (~c.active \/ c.state \in {"linger", "body"}) ->
                Kill(eof, k, IF c.active THEN "reset" ELSE "ok")
          [] ~s.net[k].broken /\ D = <<>> -> Watch([eof EXCEPT !.conn[k].keep = FALSE], k)
          [] c.state = "linger" -> read
          [] OTHER -> Process([read EXCEPT !.conn[k].stash = @ \o D], k)

-----------------------------------------------------------------------------
(* What the program may call on a stream                                   *)

Closes(s, k) ==
    LET c == s.conn[k]
    IN  ~c.keep \/ c.state = "body" \/ c.expect \/ c.peerEof \/ s.stopped \/ s.closedToNew

Begins(s, k) ==
    [s EXCEPT !.conn[k] = [@ EXCEPT !.keep = ~Closes(s, k), !.begun = TRUE, !.expect = FALSE]]

Unit(s, k, what) == [r |-> s.conn[k].r, what |-> what, close |-> Closes(s, k)]
MayBegin(s, k) == ~Dead(s, k) /\ s.conn[k].active /\ ~s.conn[k].begun
MayWrite(s, k) == ~Dead(s, k) /\ s.conn[k].active /\ s.conn[k].begun /\ ~s.conn[k].ended

Respond(s, k) ==
    LET t == Put(Then(Begins(s, k), <<Call("progress", k, None)>>), k, <<Unit(s, k, "whole")>>)
    IN  IF ~MayBegin(s, k) THEN s ELSE [t EXCEPT !.conn[k].ended = TRUE]

Begin(s, k) ==
    IF ~MayBegin(s, k) THEN s
    ELSE Put([Begins(s, k) EXCEPT !.rq[s.conn[k].r].left = plan.size], k, <<Unit(s, k, "head")>>)

End(s, k) ==
    IF ~MayWrite(s, k) THEN s
    ELSE Put(Then([s EXCEPT !.conn[k].ended = TRUE], <<Call("progress", k, None)>>), k,
             <<Unit(s, k, "end")>>)

(* What fits under the bound, once the socket has taken what it would; the *)
(* rest when on_writable says so, and then the end.                        *)
Write(s, k) ==
    LET r == s.conn[k].r
        left == s.rq[r].left
        n == Min({left, Space(s, k) + MaxOut - Min({MaxOut, Len(s.conn[k].held)})})
        t == Put([s EXCEPT !.rq[r].left = @ - n], k, [i \in 1..n |-> Unit(s, k, "data")])
        u == IF n < left THEN [t EXCEPT !.conn[k].wantWritable = TRUE] ELSE t
    IN  CASE ~MayWrite(s, k) -> s
          [] MayWrite(s, k) /\ Dead(t, k) -> t
          [] OTHER -> LET w == ArmWatch(u, k) IN IF n < left THEN w ELSE End(w, k)

(* Less was written than promised: the client must not take it for all     *)
Short(s, k) == IF MayWrite(s, k) THEN Kill([s EXCEPT !.net[k].cut = TRUE], k, "format") ELSE s

Abort(s, k) == Kill([s EXCEPT !.net[k].cut = TRUE], k, "reset")

Pause(s, k) == IF Dead(s, k) \/ ~s.conn[k].active THEN s ELSE ArmWatch([s EXCEPT !.conn[k].paused = TRUE], k)

Resume(s, k) ==
    IF Dead(s, k) \/ ~s.conn[k].paused THEN s
    ELSE Process(ArmWatch([s EXCEPT !.conn[k].paused = FALSE], k), k)

-----------------------------------------------------------------------------
(* The server's own end                                                    *)

StopListening(s) ==
    LET Orphans == {l \in Listeners : s.lis[l].life = "open" /\ s.lis[l].armed}
    IN  [s EXCEPT !.lis = [l \in Listeners |-> CASE l \in Orphans -> [@[l] EXCEPT !.life = "orphan"]
                                                 [] @[l].life = "orphan" -> @[l]
                                                 [] OTHER -> NoListener],
                  !.ending = @ + Cardinality(Orphans),
                  !.accepting = FALSE, !.closedToNew = TRUE]

Listen(s) ==
    LET l == CHOOSE x \in Listeners : s.lis[x].life = "none"
        want == ~s.stopped /\ ~AtLimit(s)
    IN  IF s.draining \/ \A x \in Listeners : s.lis[x].life # "none" THEN s
        ELSE [s EXCEPT !.lis[l] = [NoListener EXCEPT !.life = "open", !.armed = want],
                       !.accepting = want, !.closedToNew = FALSE]

(* Every connection still open, ended                                      *)
EndAll(s) ==
    IF s.conns = <<>> THEN s
    ELSE LET k == Head(s.conns)
         IN  Kill([Then(s, <<Call("end all", None, None)>>) EXCEPT !.net[k].cut = TRUE], k, "reset")

Deadline(s) ==
    EndAll(Then([s EXCEPT !.drainCut = @ \/ s.conns # <<>>, !.deadline = FALSE],
                <<Call("end all", None, None), Call("drain check", None, None)>>))

(* Connections with no request on them are ended now                       *)
Quiet(s, k) == s.conn[k].state = "head" /\ ~s.conn[k].headStarted /\ ~s.conn[k].active

Shutdown(s, grace) ==
    LET EndIdle(t, k) == IF Quiet(t, k) THEN Kill([t EXCEPT !.net[k].cut = TRUE], k, "reset") ELSE t
        t == FoldLeft(EndIdle, StopListening([s EXCEPT !.draining = TRUE]), s.conns)
    IN  CASE s.draining \/ s.stopped -> s
          [] ~s.draining /\ ~s.stopped /\ grace -> DrainCheck([t EXCEPT !.deadline = TRUE])
          [] OTHER -> Deadline(t)

Destroy(s) ==
    LET t == StopListening([s EXCEPT !.deadline = FALSE, !.drainDone = FALSE, !.stopped = TRUE])
    IN  EndAll(Then(t, <<Call("end all", None, None), Call("destroyed", None, None)>>))

Destroyed(s) == [s EXCEPT !.destroyed = TRUE, !.freed = s.ending = 0]

-----------------------------------------------------------------------------
(* The program: what it does in a callback, and when the loop calls it     *)

Calls(ops) == [i \in DOMAIN ops |-> Call("call", ops[i], None)]

(* A stream is the program's from on_request until on_done has returned,   *)
(* the server's calls are until it has been destroyed.                     *)
Program(s, op) ==
    LET k == plan.from[op.whom]
        mine == s.rq[op.whom].life = "open"
    IN  CASE op.do = "respond" /\ mine -> Respond(s, k)
          [] op.do = "begin" /\ mine -> Begin(s, k)
          [] op.do = "write" /\ mine -> Write(s, k)
          [] op.do = "short" /\ mine -> Short(s, k)
          [] op.do = "abort" /\ mine -> Abort(s, k)
          [] op.do = "pause" /\ mine -> Pause(s, k)
          [] op.do = "resume" /\ mine -> Resume(s, k)
          [] op.do = "stop" /\ ~s.stopped -> StopListening(s)
          [] op.do = "listen" /\ ~s.stopped -> Listen(s)
          [] op.do \in {"shutdown", "cut"} /\ ~s.stopped -> Shutdown(s, op.do = "shutdown")
          [] op.do = "destroy" /\ ~s.stopped -> Destroy(s)
          [] OTHER -> s

OnRequest(s, r) == Then(s, Calls(plan.onRequest[r]))
OnBody(s, r, what) == IF what = "last" THEN Then(s, Calls(plan.onLast[r])) ELSE s

OnDone(s, r, why) ==
    Then([s EXCEPT !.rq[r].done = @ + 1, !.rq[r].err = why],
         Calls(plan.onDone[r]) \o <<Call("over", r, None)>>)

RECURSIVE Settle(_)
Settle(s) ==
    LET call == Head(s.todo)
        Made(t, k, why) ==
            CASE call.do = "call" -> Program(t, k)
              [] call.do = "request" -> OnRequest(t, t.conn[k].r)
              [] call.do = "body" -> OnBody(t, t.conn[k].r, why)
              [] call.do = "done" -> OnDone(t, t.conn[k].r, why)
              [] call.do = "over" -> [t EXCEPT !.rq[k].life = "over"]
              [] call.do = "writable" -> Write(t, k)
              [] call.do = "delivered" -> Delivered(t)
              [] call.do = "deferred" -> Deferred(t)
              [] call.do = "go on" -> GoOn(t, k)
              [] call.do = "process" -> Process(t, k)
              [] call.do = "step" -> Step(t, k)
              [] call.do = "stop" -> ProcessEnd(t, k)
              [] call.do = "progress" -> Progress(t, k)
              [] call.do = "watch" -> ArmWatch(t, k)
              [] call.do = "input" -> Watch(t, k)
              [] call.do = "reuse" -> Reuse(t, k)
              [] call.do = "leave" -> Leave(t, k)
              [] call.do = "linger" -> Linger(t, k)
              [] call.do = "rejected" -> Rejected(t, k, why)
              [] call.do = "end all" -> EndAll(t)
              [] call.do = "drain check" -> DrainCheck(t)
              [] call.do = "destroyed" -> Destroyed(t)
    IN  IF s.todo = <<>> THEN s ELSE Settle(Made([s EXCEPT !.todo = Tail(@)], call.k, call.why))

-----------------------------------------------------------------------------
(* Actions                                                                 *)

Becomes(s) == sv' = Settle(s)
May(what) == plan[what] > 0 /\ plan' = [plan EXCEPT ![what] = @ - 1]

(* The program, from the loop: later answers, in order, and the server's   *)
(* own calls.                                                              *)
ProgramLater(r) ==
    /\ plan.later[r] # <<>> /\ sv.rq[r].life = "open"
    /\ Becomes(Program(sv, Head(plan.later[r])))
    /\ plan' = [plan EXCEPT !.later[r] = Tail(@)] /\ UNCHANGED web

ProgramServer ==
    /\ plan.ops # <<>> /\ ~sv.stopped
    /\ Becomes(Program(sv, Head(plan.ops)))
    /\ plan' = [plan EXCEPT !.ops = Tail(@)] /\ UNCHANGED web

(* The loop *)

Taken(s, k) ==
    Arm([s EXCEPT !.conn[k] = [FreshConn EXCEPT !.life = "open", !.recvArmed = TRUE],
                  !.conns = <<k>> \o @], k)
Refused(s, k) == [s EXCEPT !.conn[k].life = "gone", !.net[k].fin = TRUE, !.net[k].cut = TRUE]

OnAccept(l, k) ==
    LET s == [sv EXCEPT !.lis[l].armed = FALSE]
        t == IF AtLimit(s) THEN Refused(s, k) ELSE Taken(s, k)
        again == t.accepting /\ ~AtLimit(t)
    IN  /\ sv.lis[l].life = "open" /\ sv.lis[l].armed /\ ~sv.lis[l].cancelling
        /\ sv.conn[k].life = "none"
        /\ Becomes(UpdateListeners(IF again THEN [t EXCEPT !.lis[l].armed = TRUE] ELSE t))
        /\ UNCHANGED <<web, plan>>

(* The accept failed, or was cancelled                                     *)
OnAcceptError(l) ==
    LET s == [sv EXCEPT !.lis[l].armed = FALSE]
        again == s.accepting /\ ~AtLimit(s)
    IN  /\ sv.lis[l].life = "open" /\ sv.lis[l].armed /\ ~sv.lis[l].cancelling /\ May("acceptErrors")
        /\ Becomes(UpdateListeners(IF again THEN [s EXCEPT !.lis[l].armed = TRUE] ELSE s))
        /\ UNCHANGED web

OnAcceptCancelled(l) ==
    LET s == [sv EXCEPT !.lis[l].armed = sv.accepting, !.lis[l].cancelling = FALSE]
    IN  /\ sv.lis[l].armed
        /\ CASE sv.lis[l].life = "orphan" -> sv' = Ended([sv EXCEPT !.lis[l] = NoListener])
             [] sv.lis[l].life = "open" /\ sv.lis[l].cancelling -> sv' = s
             [] OTHER -> FALSE
        /\ UNCHANGED <<web, plan>>

(* A connection that another thread accepted                               *)
Adopt(k) ==
    /\ sv.conn[k].life = "none" /\ ~sv.stopped /\ ~sv.closedToNew /\ ~AtLimit(sv) /\ May("adopts")
    /\ Becomes(UpdateListeners(Taken(sv, k))) /\ UNCHANGED web

SockReceived(k) ==
    LET s == Then([sv EXCEPT !.conn[k].recvArmed = FALSE], <<Call("input", k, None)>>)
    IN  /\ ~Dead(sv, k) /\ sv.conn[k].recvArmed /\ (sv.net[k].up # <<>> \/ sv.net[k].broken)
        /\ Becomes(IF Reading(sv.conn[k]) THEN Readable(s, k) ELSE s)
        /\ UNCHANGED <<web, plan>>

(* The loop sends what it holds, as far as the socket takes it             *)
LoopSends(k) ==
    LET h == sv.conn[k].held
        n == Min({Len(h), Room - Len(sv.net[k].down)})
    IN  /\ ~Dead(sv, k) /\ n > 0 /\ ~sv.net[k].broken
        /\ sv' = [sv EXCEPT !.net[k].down = @ \o SubSeq(h, 1, n), !.conn[k].held = SubSeq(h, n + 1, Len(h))]
        /\ UNCHANGED <<web, plan>>

SockWritable(k) ==
    LET c == sv.conn[k]
        s == [sv EXCEPT !.conn[k].waitAt = -1]
    IN  /\ ~Dead(sv, k)
        /\ \/ c.waitAt >= Len(c.held) /\ Becomes(Progress(s, k))
           \/ sv.net[k].broken /\ c.held # <<>> /\ Becomes(Kill(s, k, "reset"))
        /\ UNCHANGED <<web, plan>>

SockClosed(k) ==
    /\ sv.conn[k].life = "closing"
    /\ sv' = Ended([sv EXCEPT !.conn[k] = [FreshConn EXCEPT !.life = "gone"]])
    /\ UNCHANGED <<web, plan>>

OnTimer(k) ==
    LET c == sv.conn[k]
        s == [sv EXCEPT !.conn[k].timer = None]
    IN  /\ ~Dead(sv, k) /\ c.timer # None /\ May("timeouts")
        /\ Becomes(IF c.state = "head" /\ c.headStarted /\ c.held = <<>> THEN Reject(s, k, "timeout")
                   ELSE Kill([s EXCEPT !.net[k].cut = TRUE], k, IF c.active THEN "timeout" ELSE "ok"))
        /\ UNCHANGED web

OnDeadline == sv.deadline /\ Becomes(Deadline(sv)) /\ UNCHANGED <<web, plan>>

OnDrained ==
    /\ sv.drainDone
    /\ sv' = [sv EXCEPT !.drainDone = FALSE, !.deadline = FALSE,
                        !.drainTold = IF sv.drainCut THEN "timeout" ELSE "ok"]
    /\ UNCHANGED <<web, plan>>

(* The clients *)

ClientSends(k) ==
    LET n == sv.net[k]
    IN  /\ web[k].toSend # <<>> /\ sv.conn[k].life # "gone" /\ ~n.broken
        /\ sv' = IF Dead(sv, k) /\ sv.conn[k].life = "closing" THEN sv
                 ELSE [sv EXCEPT !.net[k].up = Append(@, Head(web[k].toSend))]
        /\ web' = [web EXCEPT ![k].toSend = Tail(@)] /\ UNCHANGED plan

(* It says that it sends no more: when it has sent all, or has seen the    *)
(* server's end                                                            *)
ClientShuts(k) ==
    LET n == sv.net[k]
    IN  /\ ~web[k].shut /\ ~n.broken /\ sv.conn[k].life = "open"
        /\ \/ web[k].toSend = <<>> /\ k \in plan.shuts
           \/ n.fin /\ n.down = <<>>
        /\ sv' = [sv EXCEPT !.net[k].up = Append(@, [r |-> None, what |-> "fin"])]
        /\ web' = [web EXCEPT ![k] = [@ EXCEPT !.shut = TRUE, !.toSend = <<>>]] /\ UNCHANGED plan

ClientReads(k) ==
    /\ sv.net[k].down # <<>>
    /\ web' = [web EXCEPT ![k].got = Append(@, Head(sv.net[k].down))]
    /\ sv' = [sv EXCEPT !.net[k].down = Tail(@)] /\ UNCHANGED plan

ClientResets(k) ==
    /\ sv.conn[k].life = "open" /\ ~sv.net[k].broken /\ May("resets")
    /\ sv' = [sv EXCEPT !.net[k] = [@ EXCEPT !.broken = TRUE, !.up = <<>>, !.down = <<>>, !.cut = TRUE]]
    /\ web' = [web EXCEPT ![k].toSend = <<>>]

Init ==
    /\ plan \in Plans
    /\ sv = FreshServer
    /\ web = [k \in Clients |-> [toSend |-> plan.script[k], got |-> <<>>, shut |-> FALSE]]

Next ==
    \/ ProgramServer \/ OnDeadline \/ OnDrained
    \/ \E r \in Requests : ProgramLater(r)
    \/ \E l \in Listeners : OnAcceptError(l) \/ OnAcceptCancelled(l) \/ \E k \in Clients : OnAccept(l, k)
    \/ \E k \in Clients :
          \/ Adopt(k) \/ SockReceived(k) \/ LoopSends(k) \/ SockWritable(k) \/ SockClosed(k)
          \/ OnTimer(k) \/ ClientSends(k) \/ ClientShuts(k) \/ ClientReads(k) \/ ClientResets(k)

Spec == Init /\ [][Next]_<<sv, web, plan>>

-----------------------------------------------------------------------------
(* What a client has of its responses, or will have                        *)
Coming(k) == IF sv.net[k].broken THEN web[k].got
             ELSE web[k].got \o sv.net[k].down \o sv.conn[k].held

(* The units of a response are in order, and the first is a beginning      *)
Follows(u, v) ==
    CASE u.what = "head" \/ u.what = "data" -> v.r = u.r /\ v.what \in {"data", "end"}
      [] u.what = "continue" -> v.r \in {u.r, None} /\ v.what \in {"whole", "head", "error"}
      [] OTHER -> ~u.close /\ v.r # u.r /\ v.what \in {"whole", "head", "continue", "error"}

Asked(k) == LET heads == SelectSeq(plan.script[k], LAMBDA u : u.what \in {"get", "post", "expect"})
            IN  [i \in DOMAIN heads |-> heads[i].r]
Answered(k) == LET ends == SelectSeq(Coming(k), LAMBDA u : u.what \in {"whole", "end"})
               IN  [i \in DOMAIN ends |-> ends[i].r]

(* Every request that was delivered gets on_done once, and by the time its *)
(* connection is over (http_event.h, on_done); no request is delivered     *)
(* while another's head is in use (ev_defer).  A client gets responses to  *)
(* its requests in their order, each whole before the next begins, none    *)
(* after one that said close; and an exchange that ended well reached it,  *)
(* unless the connection was cut (ev_linger).                              *)
AnsweredInOrder ==
    /\ sv.fault = None
    /\ \A r \in Requests :
          LET q == sv.rq[r]
              k == plan.from[r]
              c == sv.conn[k]
          IN  /\ q.done = IF q.life = "over" THEN 1 ELSE 0
              /\ q.life = "open" => ~Dead(sv, k) /\ c.active /\ c.r = r
              /\ q.err = "ok" /\ ~sv.net[k].broken /\ ~sv.net[k].reset => Contains(Answered(k), r)
    /\ \A k \in Clients :
          LET t == Coming(k)
          IN  /\ \A i \in 1..(Len(t) - 1) : Follows(t[i], t[i + 1])
              /\ IsPrefix(Answered(k), Asked(k))
              /\ sv.net[k].reset => sv.net[k].cut

(* The program ends the server from on_done of a request of this client's. *)
AskedInDone(k) ==
    \E r \in Requests : plan.from[r] = k /\ \E i \in DOMAIN plan.onDone[r] :
        plan.onDone[r][i].do \in {"stop", "shutdown"}

(* Nobody is left waiting for what will not come.  Between two callbacks   *)
(* of the loop: input that is wanted is asked for, and none that can be    *)
(* used lies in the stash; a response that is over, or a program that was  *)
(* refused, is told when its output has gone; a client that is waited for  *)
(* has a time limit; a listener accepts while there is room; after a       *)
(* shutdown no connection stays without a request (ev_finish; one whose    *)
(* own on_done called for it is the exception, see the README), and with   *)
(* nothing left it says so; and a server that was destroyed is freed with  *)
(* the last thing the loop had of it, and not before.                      *)
NobodyStranded ==
    /\ sv.delivering = 0 /\ ~sv.deferredAny
    /\ \A k \in Clients :
          LET c == sv.conn[k]
          IN  c.life = "open" =>
                /\ Contains(sv.conns, k) /\ ~c.processing /\ ~c.deferred /\ ~sv.stopped
                /\ Reading(c) => c.recvArmed
                /\ c.state = "head" => Len(c.stash) <= 1 /\ \A i \in DOMAIN c.stash : c.stash[i].what = "part"
                /\ c.state = "body" => c.paused \/ c.stash = <<>>
                /\ (c.active /\ c.ended) \/ c.wantWritable \/ c.closeWhenFlushed => c.waitAt >= 0
                /\ c.state = "linger" => c.closeWhenFlushed \/ sv.net[k].fin
                /\ c.timer = None => \/ c.waitAt >= Len(c.held)
                                     \/ c.active /\ ~c.ended /\ (c.state = "respond" \/ c.paused \/ c.begun)
    /\ \A l \in Listeners :
          LET a == sv.lis[l]
          IN  /\ a.life = "open" /\ ~a.armed => AtLimit(sv)
              /\ a.life = "open" /\ a.armed /\ ~a.cancelling => ~AtLimit(sv)
              /\ a.cancelling => a.armed
    /\ sv.draining =>
          \A k \in Clients : Dead(sv, k) \/ ~Quiet(sv, k) \/ AskedInDone(k)
    /\ sv.draining /\ ~sv.stopped /\ sv.conns = <<>> => sv.drainDone \/ sv.drainTold # None
    /\ sv.drainTold = "timeout" => sv.drainCut
    /\ sv.ending = Cardinality({k \in Clients : sv.conn[k].life = "closing"})
                   + Cardinality({l \in Listeners : sv.lis[l].life = "orphan"})
    /\ sv.freed <=> sv.destroyed /\ sv.ending = 0
=============================================================================
