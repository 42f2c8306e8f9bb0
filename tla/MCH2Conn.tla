----------------------------- MODULE MCH2Conn -----------------------------
(* Instances of H2Conn for TLC: each behaviour follows one plan, which     *)
(* says how often the two applications may make each call.                 *)
EXTENDS H2Conn

Body(c, s) == [e \in Ends |-> IF e = "client" THEN c ELSE s]
Calling(call, n) == [call |-> call, n |-> n]

Nothing == [requests |-> 0, tunnel |-> FALSE, body |-> Body(0, 0), responses |-> 0,
            trailers |-> 0, resets |-> 0, pings |-> 0, goodbyes |-> {}, changes |-> << >>]

Upload(n, changes) == [Nothing EXCEPT !.requests = 1, !.body = Body(n, 0), !.changes = changes]

(* One upload under a window that is lowered and raised, under a ceiling   *)
(* below and one above the initial window, and reset on its way; two       *)
(* requests with a reset, with a lower number of streams, with a goodbye;  *)
(* a response with trailers; a tunnel; a ping.  No plan lifts a ceiling:   *)
(* the connection's credit may then never come (see the README).           *)
EveryPlan ==
    {Upload(2, <<Calling("window", 1), Calling("window", 2)>>),
     Upload(2, <<Calling("cap", 1)>>),
     Upload(4, <<Calling("cap", 4)>>),
     [Upload(3, << >>) EXCEPT !.resets = 1],
     [Nothing EXCEPT !.requests = 2, !.resets = 1],
     [Nothing EXCEPT !.requests = 2, !.changes = <<Calling("streams", 1)>>],
     [Nothing EXCEPT !.requests = 2, !.goodbyes = {"server"}],
     [Nothing EXCEPT !.requests = 1, !.responses = 1, !.body = Body(1, 0), !.goodbyes = {"client"}],
     [Nothing EXCEPT !.requests = 1, !.responses = 1, !.body = Body(0, 2), !.trailers = 1],
     [Nothing EXCEPT !.requests = 1, !.responses = 1, !.body = Body(1, 1), !.tunnel = TRUE],
     [Nothing EXCEPT !.requests = 1, !.responses = 1, !.pings = 1]}

(* A window lowered while a body is under way.                             *)
LoweredOnce == {Upload(3, <<Calling("window", 1)>>)}

(* The hypothesis of NobodyStalls (H2ConnProofs) holds of these plans.     *)
ASSUME PlansTighten == CeilingsOnlyFall
=============================================================================
