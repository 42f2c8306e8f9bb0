------------------------------ MODULE WsPlans ------------------------------
(* The calls of the two programs of a WebSocket connection, and what the   *)
(* server's on_message does: each behaviour of WsConn follows one plan.    *)
EXTENDS Integers, Sequences

Part(text, n, last) == [op |-> "part", text |-> text, n |-> n, last |-> last]
Text(n) == Part(TRUE, n, TRUE)
Binary(n) == Part(FALSE, n, TRUE)
Do(op) == [op |-> op]

Fresh == [deflate |-> FALSE, takeover |-> FALSE, slow |-> FALSE, quiet |-> 0,
          client |-> <<>>, server |-> <<>>, react |-> <<>>]
Zip == [Fresh EXCEPT !.deflate = TRUE]
Window == [Zip EXCEPT !.takeover = TRUE]
(* A long message, pausing in its first piece, and one after it.           *)
Upload == <<Part(TRUE, 2, FALSE), Part(TRUE, 0, FALSE), Part(TRUE, 1, TRUE), Binary(2), Do("close")>>

WsPlans ==
    {[Fresh EXCEPT !.client = Upload, !.server = <<Do("resume")>>, !.react = <<"pause">>],
     [Zip EXCEPT !.client = Upload, !.server = <<Do("resume")>>, !.react = <<"pause">>],
     [Window EXCEPT !.client = Upload, !.server = <<Do("resume"), Do("resume")>>,
                    !.react = <<"pause", "pause and resume", "pause">>],
     [Window EXCEPT !.client = <<Text(2), Do("plain"), Text(1), Do("plain"), Text(2), Do("close")>>,
                    !.react = <<"none", "reply", "close">>],
     [Zip EXCEPT !.client = <<Do("receive"), Do("receive"), Do("receive"), Do("close"), Do("destroy")>>,
                 !.server = <<Text(2), Part(FALSE, 2, FALSE), Do("ping"), Part(FALSE, 0, TRUE), Do("close")>>],
     [Window EXCEPT !.client = <<Do("receive"), Do("ping"), Do("receive"), Do("destroy")>>,
                    !.server = <<Part(TRUE, 2, FALSE), Part(TRUE, 1, TRUE), Text(2), Do("close")>>],
     [Fresh EXCEPT !.slow = TRUE, !.client = <<Text(2), Do("receive"), Do("close"), Do("destroy")>>,
                   !.server = <<Do("pause"), Binary(1), Do("resume"), Do("close")>>],
     [Fresh EXCEPT !.quiet = 2, !.client = <<Do("receive"), Text(1), Do("close"), Do("destroy")>>,
                   !.server = <<Text(1), Do("ping")>>, !.react = <<"abort">>],
     [Window EXCEPT !.client = <<Part(TRUE, 3, FALSE), Do("ping"), Part(TRUE, 2, TRUE), Text(2), Do("close")>>,
                    !.server = <<Do("pause"), Do("resume"), Do("resume"), Do("resume")>>,
                    !.react = <<"pause", "none", "pause", "pause">>],
     [Zip EXCEPT !.client = <<Text(3), Do("receive"), Text(2), Do("receive"), Do("close")>>,
                 !.server = <<Text(3), Do("close")>>, !.react = <<"pause and resume", "close", "pause">>],
     [Window EXCEPT !.client = <<Do("receive"), Text(3), Do("receive"), Do("close"), Do("destroy")>>,
                    !.server = <<Text(3), Text(3), Text(3), Do("ping"), Do("resume")>>, !.react = <<"reply", "pause">>],
     [Fresh EXCEPT !.client = <<Text(2), Text(6), Do("receive"), Do("destroy")>>,
                   !.server = <<Binary(6), Do("abort")>>]}
=============================================================================
