-------------------------- MODULE HttpServerPlans --------------------------
(* What a program and its clients do to an HTTP server on an event loop:   *)
(* each behaviour of HttpEventServer follows one plan.                     *)
EXTENDS Integers, Sequences

CONSTANTS q1, q2, q3, n1, n2

AllOf == {q1, q2, q3}
BothNets == {n1, n2}

U(r, what) == [r |-> r, what |-> what]
Get(r) == <<U(r, "get")>>
Post(r) == <<U(r, "post"), U(r, "piece"), U(r, "last")>>
Do(op, r) == [do |-> op, whom |-> r]
At(r, ops) == [x \in AllOf |-> IF x = r THEN ops ELSE <<>>]
Answers(R) == [x \in AllOf |-> IF x \in R THEN <<Do("respond", x)>> ELSE <<>>]

(* Two requests one after the other on the first connection, one on the    *)
(* second, answered from on_request.                                       *)
Plain == [script |-> [k \in BothNets |-> IF k = n1 THEN Get(q1) \o Get(q2) ELSE Get(q3)],
          from |-> [r \in AllOf |-> IF r = q3 THEN n2 ELSE n1], closes |-> {},
          onRequest |-> Answers(AllOf), onLast |-> At(q1, <<>>), onDone |-> At(q1, <<>>),
          later |-> At(q1, <<>>), ops |-> <<>>, max |-> 2, listeners |-> 1, size |-> 2,
          ring |-> FALSE, shuts |-> {n1}, timeouts |-> 0, resets |-> 0, adopts |-> 0,
          acceptErrors |-> 0]

(* The first is answered from the second connection's on_request           *)
Crossed == [Plain EXCEPT !.onRequest = [Answers(AllOf) EXCEPT ![q1] = <<>>,
                                          ![q3] = <<Do("respond", q1), Do("respond", q3)>>]]

Later(r, ops) == [Plain EXCEPT !.onRequest = Answers(AllOf \ {r}), !.later = At(r, ops)]
Streamed(r) == <<Do("begin", r), Do("write", r)>>
Body(plain) == [plain EXCEPT !.script[n1] = Post(q1) \o Get(q2)]

ServerPlans == {
    \* a request delivered, or a connection ended, from another's callback
    Crossed,
    [Crossed EXCEPT !.onRequest[q3] = <<Do("respond", q1)>>, !.ring = TRUE,
                    !.onDone = At(q2, <<Do("abort", q3)>>)],
    [Crossed EXCEPT !.onRequest[q3] = <<Do("respond", q1), Do("abort", q3)>>, !.resets = 1],
    \* bodies: answered after, before, from inside; paused; malformed
    [Body(Later(q1, <<Do("respond", q1)>>)) EXCEPT !.timeouts = 1],
    [Body(Plain) EXCEPT !.onRequest = [Answers({q2, q3}) EXCEPT ![q1] = <<Do("pause", q1)>>],
                        !.later = At(q1, <<Do("resume", q1), Do("pause", q1), Do("resume", q1)>>),
                        !.onLast = At(q1, Streamed(q1))],
    [Plain EXCEPT !.script[n1] = <<U(q1, "expect"), U(q1, "piece"), U(q1, "last")>> \o Get(q2),
                  !.onRequest = Answers({q2, q3}), !.later = At(q1, <<Do("respond", q1)>>)],
    [Plain EXCEPT !.script[n1] = <<U(q1, "part"), U(q1, "get"), U(q2, "part"), U(q2, "bad")>>,
                  !.timeouts = 2],
    [Plain EXCEPT !.script[n1] = <<U(q1, "expect"), U(q1, "bad")>>, !.onRequest = Answers({q3})],
    [Body(Plain) EXCEPT !.onDone = At(q1, <<Do("abort", q3)>>), !.onRequest[q3] = <<>>],
    [Body(Plain) EXCEPT !.onRequest = [x \in AllOf |-> CASE x = q1 -> <<Do("pause", q1)>>
                                          [] x = q2 -> <<Do("respond", q2)>>
                                          [] OTHER -> <<Do("resume", q1), Do("respond", q3)>>],
                        !.onLast = At(q1, <<Do("respond", q1)>>), !.shuts = BothNets],
    \* responses written in pieces to a client that reads slowly, or leaves
    [Later(q1, Streamed(q1)) EXCEPT !.resets = 1, !.shuts = {}],
    [Later(q1, Streamed(q1)) EXCEPT !.ring = TRUE, !.size = 3, !.closes = {q2}],
    [Later(q1, Streamed(q1)) EXCEPT !.timeouts = 1, !.size = 4],
    [Plain EXCEPT !.onRequest = [x \in AllOf |-> Streamed(x)], !.size = 3, !.shuts = BothNets],
    [Later(q2, <<Do("begin", q2), Do("short", q2)>>) EXCEPT !.shuts = {}],
    \* a full server, two listeners, an accept that fails
    [Plain EXCEPT !.max = 1, !.listeners = 2, !.acceptErrors = 1, !.resets = 1, !.adopts = 1],
    [Plain EXCEPT !.max = 1, !.listeners = 2, !.timeouts = 2],
    \* stopped, and listening again; the graceful end and the sudden one
    [Plain EXCEPT !.ops = <<Do("stop", q1), Do("listen", q1)>>, !.listeners = 2, !.adopts = 1],
    [Plain EXCEPT !.onDone = At(q1, <<Do("stop", q1)>>), !.timeouts = 1,
                  !.ops = <<Do("listen", q1), Do("shutdown", q1)>>],
    [Later(q1, Streamed(q1)) EXCEPT !.ring = TRUE, !.ops = <<Do("shutdown", q1), Do("destroy", q1)>>],
    [Later(q3, <<Do("respond", q3)>>) EXCEPT !.ops = <<Do("shutdown", q1)>>, !.timeouts = 1],
    [Crossed EXCEPT !.onRequest[q3] = <<Do("respond", q1), Do("shutdown", q1)>>,
                    !.later = At(q3, <<Do("respond", q3)>>)],
    [Crossed EXCEPT !.onRequest[q3] = <<Do("respond", q1), Do("cut", q1), Do("respond", q3)>>],
    [Crossed EXCEPT !.onDone = At(q1, <<Do("destroy", q1)>>)],
    [Plain EXCEPT !.onRequest[q2] = <<Do("destroy", q2)>>, !.ops = <<Do("shutdown", q1)>>],
    [Plain EXCEPT !.onDone = At(q1, <<Do("shutdown", q1)>>), !.timeouts = 1]}
=============================================================================
