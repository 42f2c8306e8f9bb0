-------------------------- MODULE HttpClientPlans --------------------------
(* What a program, its servers and the system do to an HTTP client on an   *)
(* event loop: each behaviour of HttpEventClient follows one plan.         *)
EXTENDS Integers, Sequences

CONSTANTS r1, r2, r3

AllRequests == {r1, r2, r3}
Both == <<r1, r2>>

(* Three whole requests to one origin that keeps one connection; how many  *)
(* times each thing outside may go wrong is 0 until a plan says so.        *)
Base == [kind |-> [r \in AllRequests |-> "whole"], origin |-> [r \in AllRequests |-> 1],
         then |-> [r \in AllRequests |-> [do |-> "none", whom |-> r]],
         perOrigin |-> 1, most |-> 0, first |-> <<r1, r2, r3>>, refuse |-> {},
         delays |-> FALSE, pausing |-> {}, hows |-> {"keep"}, early |-> FALSE,
         shuts |-> 0, resets |-> 0, timeouts |-> 0, aborts |-> 0, refusals |-> 0,
         expiries |-> 0, destroys |-> 0]
Pair == [Base EXCEPT !.first = Both]
Last == {"keep", "last"}

(* Kept connections that die; bodies written late or held, answered early; *)
(* a close, an abort, a pause, a refusal now or later; a limit on all      *)
(* connections; a request started or ended from inside on_done.            *)
ClientPlans ==
    {[Base EXCEPT !.shuts = 1, !.resets = 1],
     [Base EXCEPT !.resets = 1, !.perOrigin = 2, !.hows = Last],
     [Pair EXCEPT !.kind[r2] = "streamed", !.early = TRUE, !.shuts = 1],
     [Pair EXCEPT !.kind[r1] = "streamed", !.early = TRUE, !.shuts = 1],
     [Pair EXCEPT !.kind[r1] = "expect", !.early = TRUE, !.hows = Last],
     [Pair EXCEPT !.kind[r2] = "expect", !.early = TRUE],
     [Base EXCEPT !.hows = {"close", "empty"}, !.aborts = 1],
     [Base EXCEPT !.pausing = {r1}, !.timeouts = 1, !.expiries = 1],
     [Base EXCEPT !.refusals = 2, !.delays = TRUE],
     [Base EXCEPT !.refusals = 2, !.refuse = {2}],
     [Base EXCEPT !.origin[r2] = 2, !.most = 1, !.shuts = 1, !.destroys = 1],
     [Base EXCEPT !.origin[r2] = 2, !.most = 2, !.perOrigin = 2, !.shuts = 1,
                  !.expiries = 1, !.refusals = 1],
     [Base EXCEPT !.origin[r2] = 2, !.most = 1, !.aborts = 1, !.refuse = {2}, !.hows = Last],
     [Pair EXCEPT !.then[r1] = [do |-> "start", whom |-> r3], !.shuts = 1, !.refuse = {2}],
     [Base EXCEPT !.then[r2] = [do |-> "abort", whom |-> r1], !.refusals = 1,
                  !.delays = TRUE, !.refuse = {2}]}

(* A body held on a kept connection that is lost.                          *)
HeldPlans == {[Pair EXCEPT !.kind[r2] = "expect", !.resets = 1]}
=============================================================================
