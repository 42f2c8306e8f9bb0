----------------------------- MODULE QuicPlans -----------------------------
(* What the applications and the path do to the streams of a QUIC          *)
(* connection: each behaviour of QuicStreams follows one of these plans.   *)
EXTENDS Integers, Sequences

Opens(c, s) == [client |-> c, server |-> s]
Uni(n) == [kind |-> 1, bytes |-> n]
Bidi(n) == [kind |-> 0, bytes |-> n]

Calm == [open |-> Opens(<< >>, << >>), reply |-> 0, lazy |-> FALSE, read |-> 9, fast |-> FALSE,
         stopping |-> FALSE, resets |-> 0, stops |-> 0, caps |-> << >>, grants |-> 0,
         losses |-> 0, repeats |-> 0, probes |-> 0,
         records |-> 3,                 \* packets an end keeps on record as in flight
         packets |-> 6,                 \* packets an end sends in all
         room |-> 2]                    \* stream bytes one packet takes
Client(streams) == [Calm EXCEPT !.open = Opens(streams, << >>)]
Stopping(p) == [p EXCEPT !.stopping = TRUE, !.stops = 1]

(* Uploads with losses, a repeat, a probe; a request and its response;     *)
(* streams that wait for others to be over, or share the connection's      *)
(* window; a reset; a ceiling on credit, and windows that grow; a lowered  *)
(* number of streams; a reader that stops, of an upload and of a response, *)
(* whose stop may be lost; a stream begun while a probe goes out past the  *)
(* limit of records.                                                       *)
QuicPlans ==
    {[Client(<<Uni(3)>>) EXCEPT !.losses = 1, !.probes = 1],
     [Client(<<Uni(2)>>) EXCEPT !.losses = 2, !.read = 1, !.room = 1],
     [Client(<<Uni(3)>>) EXCEPT !.losses = 1, !.room = 1],
     [Client(<<Uni(2)>>) EXCEPT !.repeats = 1, !.probes = 1],
     [Client(<<Uni(4)>>) EXCEPT !.lazy = TRUE, !.fast = TRUE, !.losses = 1],
     [Client(<<Bidi(1)>>) EXCEPT !.reply = 1, !.losses = 1, !.probes = 1],
     [Client(<<Bidi(1)>>) EXCEPT !.reply = 2, !.losses = 1, !.repeats = 1],
     [Client(<<Bidi(0), Bidi(0)>>) EXCEPT !.losses = 1],
     [Client(<<Bidi(0), Bidi(0)>>) EXCEPT !.grants = 1],
     [Client(<<Uni(2), Uni(2)>>) EXCEPT !.read = 1],
     [Client(<<Uni(3)>>) EXCEPT !.resets = 1, !.losses = 1],
     [Client(<<Uni(4)>>) EXCEPT !.caps = <<2, 0>>],
     [Stopping(Client(<<Uni(3)>>)) EXCEPT !.losses = 1, !.probes = 1, !.packets = 3],
     [Stopping(Client(<<Bidi(1)>>)) EXCEPT !.reply = 2, !.losses = 1],
     [Client(<<Uni(1), Uni(1)>>) EXCEPT !.probes = 1, !.records = 2, !.packets = 3]}

(* A reader that stops while bytes are on their way to it.                 *)
OneStop == {Stopping(Client(<<Uni(3)>>))}
=============================================================================
