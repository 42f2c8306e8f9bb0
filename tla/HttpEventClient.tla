--------------------------- MODULE HttpEventClient -------------------------
(***************************************************************************)
(* The HTTP/1.1 client on an event loop (http_event_client.c): requests    *)
(* that wait for a connection, connections that are kept and given to the  *)
(* next request, a request sent once more when the kept connection was     *)
(* dead, one tried again when nothing of it was sent, the hold of a body   *)
(* until 100 Continue, pauses, time limits, and the calls the program      *)
(* makes from inside on_done.                                              *)
(*                                                                         *)
(* A request is one unit (its head, and a body held in memory, together)   *)
(* or two (a head, and a body written or let go later).  A response is a   *)
(* head and, unless it has no body, an end.  Handlers run to their end on  *)
(* the loop's thread: each is an operator from one state of the client to  *)
(* the next, and an action applies it.  Calls that a handler makes and     *)
(* that may come back to it (todo) follow it, in the order of the code,    *)
(* within the same step.                                                   *)
(***************************************************************************)
EXTENDS Integers, SequencesExt

CONSTANTS
    Requests, Conns,    \* requests the program may start; the cells connections live in
    MaxKept,            \* max_kept_connections
    MaxWaiting,         \* max_waiting_requests
    RetryUnsent,        \* retry_unsent
    Plans               \* what the program, the servers and the system will do

VARIABLES cl, net, plan

None == "none"
PerOrigin == plan.perOrigin      \* max_connections_per_origin
Most == plan.most                \* max_connections, 0 for no limit

(* How a request is sent: whole, with a body written in pieces, or with a  *)
(* body held until the server says 100 Continue.                           *)
Kinds == {"whole", "streamed", "expect"}

Units(r) == IF plan.kind[r] = "whole" THEN 1 ELSE 2

FreshRequest ==
    [life |-> "new", k |-> None, state |-> "connecting", timer |-> "none",
     stale |-> FALSE, keepOut |-> FALSE, noResend |-> FALSE, sent |-> FALSE,
     ended |-> FALSE, expecting |-> FALSE, refused |-> FALSE, keep |-> FALSE,
     eof |-> FALSE, paused |-> FALSE, close |-> FALSE, tries |-> 0,
     out |-> <<>>, off |-> 0, hold |-> <<>>, stash |-> <<>>,
     done |-> 0, err |-> None, trail |-> <<>>]

FreeConn == [life |-> "free", owner |-> None, origin |-> 0, armed |-> FALSE,
             uses |-> 0]
NoNet == [up |-> <<>>, down |-> <<>>, open |-> FALSE, cur |-> None, units |-> <<>>,
          answered |-> FALSE, continued |-> FALSE]

(* idle are the connections no request has, the one idle longest first; e  *)
(* is what the last operator returned, and fault what must never happen.   *)
FreshClient ==
    [req |-> [r \in Requests |-> FreshRequest], conn |-> [k \in Conns |-> FreeConn],
     idle |-> <<>>, wait |-> <<>>, closing |-> FALSE, fault |-> None, e |-> "ok",
     opens |-> 0, dropped |-> FALSE, sends |-> <<>>, todo |-> <<>>]

Streamed(r) == plan.kind[r] = "streamed"
Listed(s) == {k \in Conns : s.conn[k].life \in {"connecting", "up"}}
LeadsTo(s, k, r) == s.conn[k].origin = plan.origin[r]
OriginConns(s, r) == {k \in Listed(s) : LeadsTo(s, k, r)}
buf_pending(c) == Len(c.out) > c.off

(* The first in the queue for which the test holds, or None                *)
FirstOf(seq, Test(_)) ==
    LET I == {i \in DOMAIN seq : Test(seq[i])}
    IN  IF I = {} THEN None ELSE seq[CHOOSE i \in I : \A j \in I : i <= j]

WaiterWithRoom(s) ==
    LET HasRoom(w) == Cardinality(OriginConns(s, w)) < PerOrigin
    IN  FirstOf(s.wait, HasRoom)

-----------------------------------------------------------------------------
(* What a request has to send.  Bytes that were sent stay in the buffer    *)
(* until it is released; whatever makes room in it drops them (buf_own).   *)

BufAppend(c, units) ==
    IF units = <<>> THEN c
    ELSE [c EXCEPT !.out = SubSeq(@, c.off + 1, Len(@)) \o units, !.off = 0]

(* Plain connections: all that is pending is taken by the loop.  What is   *)
(* sent reaches the network when the handler is over (sends).              *)
Flush(s, r) ==
    LET c == s.req[r]
        new == SubSeq(c.out, c.off + 1, Len(c.out))
        k == c.k
        Mark(t) == IF new = <<>> \/ c.sent THEN t
                   ELSE Append(t, [k |-> k, kept |-> s.conn[k].uses > 0, back |-> FALSE])
        c2 == [c EXCEPT !.off = Len(c.out), !.sent = @ \/ new # <<>>, !.trail = Mark(@)]
        gone == [c2 EXCEPT !.out = <<>>, !.off = 0]
    IN  IF c.life # "live" \/ k = None \/ c.state = "connecting" THEN s
        ELSE [s EXCEPT !.req[r] = IF c.keepOut THEN c2 ELSE gone,
                       !.sends = @ \o [i \in DOMAIN new |-> [k |-> k, r |-> r, u |-> new[i]]]]

(* The time limit that runs for a request                                  *)
Arm(s, r) ==
    LET c == s.req[r]
        kind == CASE c.k = None \/ c.state = "connecting" -> "connect"
                  [] c.expecting -> "expect"
                  [] buf_pending(c) -> "write"
                  [] c.state = "head" /\ c.ended -> "response"
                  [] c.state = "body" /\ ~c.paused -> "body"
                  [] OTHER -> "none"
    IN  IF c.life = "dead" \/ c.timer = "delay" THEN s ELSE [s EXCEPT !.req[r].timer = kind]

Reading(c) == ~c.eof /\ ~(c.state = "body" /\ c.paused)

Watch(s, r) ==
    LET c == s.req[r]
    IN  IF c.life = "dead" \/ c.k = None \/ c.state = "connecting" \/ ~Reading(c) THEN s
        ELSE [s EXCEPT !.conn[c.k].armed = TRUE]

Progress(s, r) == IF s.req[r].life = "dead" THEN s ELSE Arm(Watch(s, r), r)

-----------------------------------------------------------------------------
(* Connections                                                             *)

Unwait(s, r) == [s EXCEPT !.wait = SelectSeq(@, LAMBDA w : w # r)]

(* A connection for r; the system may refuse it at once                    *)
ConnOpen(s, r) ==
    LET k == CHOOSE x \in Conns : s.conn[x].life = "free"
        n == s.opens + 1
    IN  IF n \in plan.refuse THEN [s EXCEPT !.opens = n, !.e = "unreachable"]
        ELSE [s EXCEPT !.opens = n, !.e = "ok",
                       !.conn[k] = [FreeConn EXCEPT !.life = "connecting", !.owner = r,
                                                    !.origin = plan.origin[r]],
                       !.req[r].k = k, !.req[r].state = "connecting"]

ConnGive(s, k, r) ==
    LET t == [s EXCEPT !.idle = SelectSeq(@, LAMBDA x : x # k), !.conn[k].owner = r,
                       !.req[r].k = k, !.req[r].state = "head", !.req[r].stale = TRUE,
                       !.req[r].keepOut = ~Streamed(r), !.e = "ok"]
    IN  Arm(Watch(t, r), r)

Call(do, whom, why) == [do |-> do, whom |-> whom, why |-> why]
Then(s, calls) == [s EXCEPT !.todo = calls \o @]

(* A place has come free: the first that waits for the same origin has it, *)
(* or, under a limit on the whole client, the first whose origin has room; *)
(* when its connection cannot be made it ends, and the next is tried.      *)
ServeWaiting(s, k) ==
    LET same == FirstOf(s.wait, LAMBDA w : LeadsTo(s, k, w))
        w == IF same = None /\ Most # 0 THEN WaiterWithRoom(s) ELSE same
        t == ConnOpen(Unwait(s, w), w)
    IN  IF s.closing \/ w = None THEN s
        ELSE IF t.e = "ok" THEN Arm(t, w)
        ELSE Then(t, <<Call("kill", w, t.e), Call("serve", k, None)>>)

ConnCloseQuiet(s, k, serve) ==
    [s EXCEPT !.idle = SelectSeq(@, LAMBDA x : x # k),
              !.conn[k].life = "gone", !.conn[k].owner = None]

ConnClose(s, k, serve) ==
    LET t == [s EXCEPT !.idle = SelectSeq(@, LAMBDA x : x # k),
                       !.conn[k].life = "gone", !.conn[k].owner = None]
    IN  IF serve THEN Then(t, <<Call("serve", k, None)>>) ELSE t

(* Room for one connection more in the whole client: an idle one goes      *)
Room(s) ==
    IF Most = 0 \/ Cardinality(Listed(s)) < Most THEN [s EXCEPT !.e = "ok"]
    ELSE IF s.idle # <<>> THEN [ConnClose(s, Head(s.idle), FALSE) EXCEPT !.e = "ok"]
    ELSE [s EXCEPT !.e = "full"]

(* An exchange ended cleanly: the next request for the same origin has the *)
(* connection, or its place goes to another that waits, or it is kept.     *)
ConnKeep(s, k) ==
    LET t == [s EXCEPT !.conn[k].owner = None, !.conn[k].uses = 1, !.idle = Append(@, k)]
        w == FirstOf(t.wait, LAMBDA x : LeadsTo(t, k, x))
        u == [t EXCEPT !.conn[k].armed = TRUE]
    IN  CASE w # None -> ConnGive(Unwait(t, w), k, w)
          [] w = None /\ Most # 0 /\ ~t.closing /\ WaiterWithRoom(t) # None -> ConnClose(t, k, TRUE)
          [] OTHER -> IF Len(u.idle) > MaxKept THEN ConnClose(u, Head(u.idle), FALSE) ELSE u

ReusableEarly(c) == c.keep /\ ~c.eof /\ ~buf_pending(c) /\ c.stash = <<>>

Reusable(c) == c.keep /\ c.ended /\ ~c.eof /\ ~buf_pending(c) /\ c.stash = <<>>

(* Its connection is closed, and the request is as before it was sent      *)
Unsend(s, r, serve) ==
    LET k == s.req[r].k
        t == ConnClose([s EXCEPT !.req[r].k = None], k, serve)
    IN  [t EXCEPT !.req[r] = [@ EXCEPT !.stale = FALSE, !.keepOut = FALSE, !.eof = FALSE,
                              !.sent = FALSE, !.off = 0, !.stash = <<>>, !.timer = "none"]]

SendAgain(s, r) ==
    LET t == ConnOpen(Unsend(s, r, FALSE), r)
    IN  IF t.e = "ok" THEN Arm(t, r) ELSE [t EXCEPT !.dropped = TRUE]

(* One of the origin's that is idle, the one used last; a new one, while   *)
(* the origin and the client have room; or the queue.                      *)
Place(s, r) ==
    LET I == SelectSeq(s.idle, LAMBDA k : LeadsTo(s, k, r))
        t == Room(s)
        u == ConnOpen(t, r)
    IN  CASE I # <<>> -> ConnGive(s, Last(I), r)
          [] I = <<>> /\ Cardinality(OriginConns(s, r)) < PerOrigin /\ t.e = "ok" ->
                IF u.e = "ok" THEN Arm(u, r) ELSE u
          [] OTHER -> IF Len(s.wait) >= MaxWaiting THEN [s EXCEPT !.e = "busy"]
                      ELSE Arm([s EXCEPT !.wait = Append(@, r), !.e = "ok"], r)

-----------------------------------------------------------------------------
(* A request's life                                                        *)

Start(s, r) ==
    LET body == plan.kind[r] = "expect"
        t == Place([s EXCEPT !.req[r] = [FreshRequest EXCEPT
                        !.life = "starting", !.ended = ~Streamed(r), !.expecting = body,
                        !.out = <<1>>, !.hold = IF body THEN <<2>> ELSE <<>>]], r)
    IN  IF t.e # "ok" THEN [t EXCEPT !.req[r] = [FreshRequest EXCEPT !.life = "refused"]]
        ELSE [t EXCEPT !.req[r].life = IF @ = "starting" THEN "live" ELSE @]

(* on_done, and what the program does in it                                *)
Done(s, r, why) ==
    LET t == [s EXCEPT !.req[r].done = @ + 1, !.req[r].err = why]
        next == plan.then[r]
    IN  CASE next.do = "start" /\ t.req[next.whom].life = "new" -> Start(t, next.whom)
          [] next.do = "abort" /\ t.req[next.whom].life = "live" ->
                Then([t EXCEPT !.req[next.whom].noResend = TRUE], <<Call("kill", next.whom, "reset")>>)
          [] OTHER -> t

(* The end, good or bad: the connection goes to the next request, or away  *)
Finish(s, r, why) ==
    LET c == s.req[r]
        t == [Unwait(s, r) EXCEPT !.req[r].life = "dead", !.req[r].k = None,
                !.req[r].timer = "none", !.todo = <<Call("done", r, why)>> \o @,
                !.fault = IF c.life = "starting" THEN "answered inside start" ELSE @]
    IN  CASE c.k = None -> t
          [] c.k # None /\ why = "ok" /\ Reusable(c) -> ConnKeep(t, c.k)
          [] OTHER -> ConnClose([t EXCEPT !.conn[c.k].owner = None], c.k, TRUE)

(* Lost on a kept connection before anything came back: sent once more, if *)
(* it can be.  Lost before anything was sent: tried again, so many times.  *)
Kill(s, r, why) ==
    LET c == s.req[r]
        again == why = "reset" /\ c.stale /\ ~c.noResend
        retry == /\ why = "reset" /\ ~again /\ ~c.noResend /\ c.k # None
                 /\ ~Streamed(r) /\ ~c.sent /\ c.tries < RetryUnsent
        t == [s EXCEPT !.req[r].tries = @ + 1]
        resent == SendAgain(IF again THEN s ELSE t, r)
    IN  CASE c.life = "dead" -> s
          [] again /\ c.keepOut -> IF resent.e = "ok" THEN resent ELSE Finish(resent, r, "reset")
          [] again /\ ~c.keepOut -> Finish(s, r, IF Streamed(r) THEN "again" ELSE "reset")
          [] retry /\ plan.delays -> [Unsend(t, r, TRUE) EXCEPT !.req[r].timer = "delay"]
          [] retry /\ ~plan.delays ->
                IF resent.e = "ok" THEN resent ELSE Finish(resent, r, resent.e)
          [] OTHER -> Finish(s, r, why)

(* The body that was held goes out                                         *)
ExpectGo(s, r) ==
    LET c == s.req[r]
        t == [s EXCEPT !.req[r] = [BufAppend(c, c.hold) EXCEPT !.expecting = FALSE, !.hold = <<>>]]
    IN  IF ~c.expecting \/ c.life = "dead" THEN s ELSE Progress(Flush(t, r), r)

(* One thing that has arrived, at the head of the stash                    *)
ProcessHead(s, r, it) ==
    LET c == s.req[r]
        t == [s EXCEPT !.req[r].stash = Tail(@)]
        refused == c.refused \/ c.expecting
        h == [t EXCEPT !.req[r] = [@ EXCEPT
                 !.expecting = FALSE, !.hold = IF c.expecting THEN <<>> ELSE @,
                 !.refused = refused, !.state = "body", !.close = it.how = "close",
                 !.keep = ~refused /\ it.how \in {"keep", "empty"},
                 !.paused = @ \/ (it.how # "empty" /\ r \in plan.pausing)]]
    IN  CASE it.what = "continue" -> IF c.expecting THEN ExpectGo([t EXCEPT !.req[r].timer = "none"], r)
                                     ELSE t
          [] it.how = "empty" -> Then(h, <<Call("kill", r, "ok")>>)
          [] OTHER -> Arm(h, r)

Process(s, r) ==
    LET c == s.req[r]
        stopped == c.state = "body" /\ c.paused
        it == Head(c.stash)
        lost == IF c.state = "body" /\ c.close THEN "ok" ELSE "reset"
    IN  CASE c.life = "dead" -> s
          [] c.life # "dead" /\ (stopped \/ c.stash = <<>>) ->
                IF c.eof /\ ~stopped THEN Then(s, <<Call("kill", r, lost), Call("progress", r, None)>>)
                ELSE Progress(s, r)
          [] it.r # r -> [s EXCEPT !.fault = "another's response"]
          [] c.state = "head" -> ProcessHead(Then(s, <<Call("process", r, None)>>), r, it)
          [] OTHER -> Then([s EXCEPT !.req[r].stash = Tail(@)], <<Call("kill", r, "ok")>>)

RECURSIVE Settle(_)
Settle(s) ==
    LET call == Head(s.todo)
        Made(t, r) == CASE call.do = "kill" -> Kill(t, r, call.why)
                        [] call.do = "done" -> Done(t, r, call.why)
                        [] call.do = "serve" -> ServeWaiting(t, r)
                        [] call.do = "process" -> Process(t, r)
                        [] call.do = "progress" -> Progress(t, r)
    IN  IF s.todo = <<>> THEN s ELSE Settle(Made([s EXCEPT !.todo = Tail(@)], call.whom))

(* Something came back: the connection was alive                           *)
Alive(s, r) ==
    LET c == s.req[r]
        gone == [c EXCEPT !.stale = FALSE, !.keepOut = FALSE, !.out = <<>>, !.off = 0]
    IN  [s EXCEPT !.req[r] = CASE ~c.stale -> c
                               [] c.stale /\ ~buf_pending(c) -> gone
                               [] OTHER -> [c EXCEPT !.stale = FALSE, !.keepOut = FALSE],
                  !.req[r].trail = IF @ = <<>> \/ Last(@).k # c.k THEN @
                                   ELSE [@ EXCEPT ![Len(@)].back = TRUE]]

Readable(s, r, items) ==
    CASE items[1].what = "fin" -> Process([s EXCEPT !.req[r].eof = TRUE], r)
      [] items[1].what = "rst" -> Kill(s, r, "reset")
      [] OTHER -> Process([Alive(s, r) EXCEPT !.req[r].stash = @ \o items], r)

IdleIo(s, k) == ConnClose(s, k, FALSE)     \* bytes, an end or an error: all the same

-----------------------------------------------------------------------------
(* Actions.  What a handler sent is on its way when it is over; a          *)
(* connection that was closed is no more the server's either.              *)

Deliver(after, n) ==
    \E s \in {Settle(after)} :
        /\ cl' = [s EXCEPT !.sends = <<>>]
        /\ net' = [k \in Conns |->
                      IF s.conn[k].life # "up" THEN NoNet
                      ELSE [n[k] EXCEPT !.up = @ \o SelectSeq(s.sends, LAMBDA m : m.k = k)]]

Free == {k \in Conns : cl.conn[k].life = "free"}
May(what) == plan[what] > 0 /\ plan' = [plan EXCEPT ![what] = @ - 1]
Live(r) == cl.req[r].life = "live" /\ Cardinality(Free) >= 2
Of(k) == cl.conn[k].owner

(* The program *)

ProgramStart ==
    /\ ~cl.closing /\ plan.first # <<>> /\ Cardinality(Free) >= 2
    /\ LET r == Head(plan.first)
       IN  Deliver(IF cl.req[r].life = "new" THEN Start(cl, r) ELSE cl, net)
    /\ plan' = [plan EXCEPT !.first = Tail(@)]

End(r) ==
    /\ Live(r) /\ Streamed(r) /\ ~cl.req[r].ended
    /\ LET c == [BufAppend(cl.req[r], <<2>>) EXCEPT !.ended = TRUE]
           dropped == [cl.req[r] EXCEPT !.ended = TRUE]
       IN  Deliver(Progress(Flush([cl EXCEPT !.req[r] = IF @.refused THEN dropped ELSE c], r), r), net)
    /\ UNCHANGED plan

Abort(r) ==
    /\ Live(r) /\ May("aborts")
    /\ Deliver(Kill([cl EXCEPT !.req[r].noResend = TRUE], r, "reset"), net)

Resume(r) ==
    /\ Live(r) /\ cl.req[r].paused
    /\ Deliver(Process([cl EXCEPT !.req[r].paused = FALSE], r), net) /\ UNCHANGED plan

RECURSIVE EndAll(_)
EndAll(s) ==
    LET R == {r \in Requests : s.req[r].life = "live"}
        r == CHOOSE x \in R : TRUE
    IN  IF R = {} THEN [s EXCEPT !.conn = [k \in Conns |->
                            IF k \in Listed(s) THEN [s.conn[k] EXCEPT !.life = "gone", !.owner = None]
                            ELSE s.conn[k]], !.idle = <<>>]
        ELSE EndAll(Settle(Kill([s EXCEPT !.req[r].noResend = TRUE], r, "reset")))

Destroy ==
    /\ ~cl.closing /\ Cardinality(Free) >= 2 /\ May("destroys")
    /\ Deliver(EndAll([cl EXCEPT !.closing = TRUE]), net)

(* The loop *)

SockConnected(k, err) ==
    LET r == Of(k)
        t == [cl EXCEPT !.conn[k].life = "up", !.req[r].state = "head"]
    IN  /\ cl.conn[k].life = "connecting" /\ Live(r)
        /\ IF err = "ok"
           THEN /\ Deliver(Progress(Flush(t, r), r), [net EXCEPT ![k].open = TRUE])
                /\ UNCHANGED plan
           ELSE Deliver(Kill(cl, r, err), net) /\ May("refusals")

(* The bytes that have come, in as many pieces as there are, or the end    *)
SockReceived(k) ==
    LET d == net[k].down
        r == Of(k)
        Data(n) == \A i \in 1..n : d[i].what \notin {"fin", "rst"}
        c == [cl EXCEPT !.conn[k].armed = FALSE]
    IN  /\ cl.conn[k].life = "up" /\ cl.conn[k].armed /\ d # <<>> /\ Cardinality(Free) >= 2
        /\ \/ r = None /\ Deliver(IdleIo(c, k), net)
           \/ r # None /\ ~Reading(cl.req[r]) /\ Deliver(c, net)
           \/ \E n \in 1..Len(d) :
                /\ r # None /\ Reading(cl.req[r]) /\ (Data(n) \/ n = 1)
                /\ \E s \in {Settle(Readable(c, r, SubSeq(d, 1, n)))} :
                      Deliver(IF s.req[r].life = "live" /\ s.req[r].k = k THEN Watch(s, r) ELSE s,
                              [net EXCEPT ![k].down = SubSeq(@, n + 1, Len(@))])
        /\ UNCHANGED plan

SockWritable(k) ==
    /\ cl.conn[k].life = "up" /\ Of(k) # None /\ Live(Of(k)) /\ buf_pending(cl.req[Of(k)])
    /\ Deliver(Progress(Flush(cl, Of(k)), Of(k)), net) /\ UNCHANGED plan

SockClosed(k) ==
    /\ cl.conn[k].life = "gone"
    /\ cl' = [cl EXCEPT !.conn[k] = FreeConn] /\ UNCHANGED <<net, plan>>

OnTimer(r) ==
    LET c == cl.req[r]
    IN  /\ Live(r) /\ c.timer \notin {"none", "delay"}
        /\ IF c.timer = "expect"
           THEN Deliver(ExpectGo([cl EXCEPT !.req[r].timer = "none"], r), net) /\ UNCHANGED plan
           ELSE /\ Deliver(Kill([cl EXCEPT !.req[r].noResend = TRUE], r, "timeout"), net)
                /\ May("timeouts")

OnDelay(r) ==
    /\ Live(r) /\ cl.req[r].timer = "delay"
    /\ LET t == Place([cl EXCEPT !.req[r].timer = "none"], r)
       IN  Deliver(IF t.e = "ok" THEN t ELSE Kill([t EXCEPT !.req[r].noResend = TRUE], r, t.e), net)
    /\ UNCHANGED plan

OnIdleTimer(k) ==
    /\ cl.conn[k].life = "up" /\ Of(k) = None /\ May("expiries")
    /\ Deliver(ConnClose(cl, k, FALSE), net)

(* The server: it takes what has come, answers each request once, perhaps  *)
(* before all of it is there, and may close or lose the connection.        *)

Item(what, how, r) == [what |-> what, how |-> how, r |-> r]
Fin == Item("fin", None, None)
Rst == Item("rst", None, None)
AllThere(n) == \E i \in DOMAIN n.units : n.units[i].r = n.cur /\ n.units[i].u = Units(n.cur)
Settled(n) == IF AllThere(n) /\ n.answered
              THEN [n EXCEPT !.cur = None, !.units = <<>>, !.answered = FALSE, !.continued = FALSE]
              ELSE n

ServerTakes(k) ==
    LET n == net[k]
        m == Head(n.up)
    IN  /\ n.open /\ n.up # <<>>
        /\ net' = [net EXCEPT ![k] = Settled([n EXCEPT !.up = Tail(@), !.units = Append(@, m),
                                              !.cur = IF @ = None THEN m.r ELSE @])]
        /\ UNCHANGED <<cl, plan>>

ServerContinues(k) ==
    LET n == net[k]
    IN  /\ n.open /\ n.cur # None /\ ~n.answered /\ ~n.continued
        /\ plan.kind[n.cur] = "expect" /\ Len(n.units) = 1
        /\ net' = [net EXCEPT ![k] = [n EXCEPT !.continued = TRUE,
                                               !.down = Append(@, Item("continue", None, n.cur))]]
        /\ UNCHANGED <<cl, plan>>

ServerAnswers(k, how) ==
    LET n == net[k]
        head == Item("head", how, n.cur)
        end == Item("end", how, n.cur)
        last == how \in {"last", "close"}
    IN  /\ n.open /\ n.cur # None /\ ~n.answered /\ how \in plan.hows
        /\ AllThere(n) \/ plan.early
        /\ net' = [net EXCEPT ![k] = Settled([n EXCEPT !.answered = TRUE, !.open = ~last,
                     !.down = @ \o (CASE how = "keep" -> <<head, end>> [] how = "empty" -> <<head>>
                                      [] how = "last" -> <<head, end, Fin>> [] OTHER -> <<head, Fin>>)])]
        /\ UNCHANGED <<cl, plan>>

ServerShuts(k) ==
    /\ net[k].open /\ May("shuts")
    /\ net' = [net EXCEPT ![k].open = FALSE, ![k].down = Append(@, Fin)] /\ UNCHANGED cl

(* The connection is lost, or data reached a server that had closed it;    *)
(* what had come and was not read may be lost with it.                     *)
Lost(k) ==
    /\ \E d \in {<<>>, net[k].down} :
           net' = [net EXCEPT ![k].open = FALSE, ![k].up = <<>>, ![k].down = Append(d, Rst)]
    /\ UNCHANGED cl

ServerResets(k) == net[k].open /\ May("resets") /\ Lost(k)

ServerGone(k) == ~net[k].open /\ net[k].up # <<>> /\ Lost(k) /\ UNCHANGED plan

Init == /\ plan \in Plans /\ cl = FreshClient /\ net = [k \in Conns |-> NoNet]

Next ==
    \/ ProgramStart \/ Destroy
    \/ \E r \in Requests : End(r) \/ Abort(r) \/ Resume(r) \/ OnTimer(r) \/ OnDelay(r)
    \/ \E k \in Conns :
          \/ \E err \in {"ok", "refused", "reset"} : SockConnected(k, err)
          \/ SockReceived(k) \/ SockWritable(k) \/ SockClosed(k) \/ OnIdleTimer(k)
          \/ ServerTakes(k) \/ ServerContinues(k) \/ ServerShuts(k) \/ ServerResets(k) \/ ServerGone(k)
          \/ \E how \in {"keep", "empty", "last", "close"} : ServerAnswers(k, how)

Spec == Init /\ [][Next]_<<cl, net, plan>>

-----------------------------------------------------------------------------
(* A server gets each request whole, from its head on, and one at a time.  *)
WholeRequests ==
    \A k \in Conns : \A i \in DOMAIN net[k].units :
        net[k].units[i].r = net[k].cur /\ net[k].units[i].u = i

(* Every request the program starts is answered once, after the start, and *)
(* only with the response to it (http_event_client.h, on_done).  A server  *)
(* gets each request from its head on and in order, one at a time; and it  *)
(* gets it again on another connection only if the first had been kept     *)
(* from an earlier exchange and nothing came back on it (cl_kill).         *)
OneAnswerEach ==
    /\ cl.fault = None
    /\ \A r \in Requests :
          LET c == cl.req[r]
          IN  /\ c.done = IF c.life = "dead" THEN 1 ELSE 0
              /\ \A i \in 1..(Len(c.trail) - 1) : c.trail[i].kept /\ ~c.trail[i].back
    /\ WholeRequests

(* No request waits while it could have a connection, whatever was closed, *)
(* given away, refused or answered meanwhile (cl_conn_close, cl_conn_keep),*)
(* except after a second try that could not be begun (see the README); a   *)
(* request that waits for anything has a time limit; a connection is read  *)
(* while it should be, has a live request or is idle, and is never one too *)
(* many.                                                                   *)
NoWaiterStranded ==
    /\ \A i \in DOMAIN cl.wait :
          LET w == cl.wait[i]
          IN  /\ cl.req[w].life = "live" /\ cl.req[w].k = None
              /\ \A j \in DOMAIN cl.idle : ~LeadsTo(cl, cl.idle[j], w)
              /\ \/ cl.dropped
                 \/ Cardinality(OriginConns(cl, w)) >= PerOrigin
                 \/ Most # 0 /\ Cardinality(Listed(cl)) >= Most /\ cl.idle = <<>>
    /\ \A r \in Requests :
          LET c == cl.req[r]
          IN  c.life = "live" =>
                /\ c.k = None => \/ Contains(cl.wait, r) /\ c.timer = "connect"
                                 \/ c.timer = "delay"
                /\ c.k # None => cl.conn[c.k].owner = r
                /\ c.timer = "none" => c.paused \/ ~c.ended
                /\ c.k # None /\ c.state # "connecting" /\ Reading(c) => cl.conn[c.k].armed
    /\ \A k \in Listed(cl) :
          IF Of(k) = None THEN Contains(cl.idle, k) /\ cl.conn[k].armed
          ELSE cl.req[Of(k)].life = "live" /\ cl.req[Of(k)].k = k /\ ~Contains(cl.idle, k)
    /\ \A r \in Requests : Cardinality(OriginConns(cl, r)) <= PerOrigin
    /\ Most # 0 => Cardinality(Listed(cl)) <= Most
    /\ Len(cl.idle) <= MaxKept
=============================================================================
