---------------------------- MODULE LoopPromise ----------------------------
(***************************************************************************)
(* What src/net/include/proven/loop.h promises of the operations of a      *)
(* loop, whichever backend does the work: every operation started is       *)
(* answered exactly once, by a call on the loop's thread and never inside  *)
(* the call that started it; one receive (one accept) at a time; a closed  *)
(* socket's `closed` comes last, after everything in flight is answered.   *)
(***************************************************************************)
CONSTANTS Nodes,      \* sockets, acceptors and UDP sockets
          Acceptors   \* the acceptors among them, which are never attached

Operations == {"received", "connected", "accept"}
CallKinds == {<<>>} \cup (Nodes \X (Operations \cup {"writable", "closed"}))

VARIABLES life,       \* "unused", "attached" or "closing"
          inflight,   \* operations started and not answered
          calling,    \* the function of the program's that runs
          gone        \* the loop is destroyed

vars == <<life, inflight, calling, gone>>

Init ==
    /\ life = [n \in Nodes |-> IF n \in Acceptors THEN "attached" ELSE "unused"]
    /\ inflight = [n \in Nodes |-> {}]
    /\ calling = <<>>
    /\ gone = FALSE

Attach(n) ==
    /\ life[n] = "unused"
    /\ life' = [life EXCEPT ![n] = "attached"]
    /\ UNCHANGED <<inflight, calling, gone>>

(* A connect attaches the socket and is in flight at once.                 *)
Connect(n) ==
    /\ life[n] = "unused"
    /\ life' = [life EXCEPT ![n] = "attached"]
    /\ inflight' = [inflight EXCEPT ![n] = {"connected"}]
    /\ UNCHANGED <<calling, gone>>

Start(n, o) ==
    /\ life[n] = "attached" /\ o \notin inflight[n]
    /\ inflight' = [inflight EXCEPT ![n] = @ \cup {o}]
    /\ UNCHANGED <<life, calling, gone>>

Answer(n, o) ==
    /\ calling = <<>> /\ o \in inflight[n]
    /\ inflight' = [inflight EXCEPT ![n] = @ \ {o}]
    /\ calling' = <<n, o>>
    /\ UNCHANGED <<life, gone>>

(* `writable`: a send wait is over, or sending failed.                     *)
Notify(n) ==
    /\ calling = <<>> /\ life[n] # "unused"
    /\ calling' = <<n, "writable">>
    /\ UNCHANGED <<life, inflight, gone>>

Close(n) ==
    /\ life[n] = "attached" /\ n \notin Acceptors
    /\ life' = [life EXCEPT ![n] = "closing"]
    /\ UNCHANGED <<inflight, calling, gone>>

Closed(n) ==
    /\ calling = <<>> /\ life[n] = "closing" /\ inflight[n] = {}
    /\ life' = [life EXCEPT ![n] = "unused"]
    /\ calling' = <<n, "closed">>
    /\ UNCHANGED <<inflight, gone>>

Return ==
    /\ calling # <<>>
    /\ calling' = <<>>
    /\ UNCHANGED <<life, inflight, gone>>

(* What was closed gets its last answer, the rest is forgotten.            *)
Destroy ==
    /\ ~gone /\ calling = <<>>
    /\ gone' = TRUE
    /\ life' = [n \in Nodes |-> IF life[n] = "closing" THEN "unused" ELSE life[n]]
    /\ inflight' \in [Nodes -> SUBSET Operations]
    /\ \A n \in Nodes : inflight'[n] \subseteq inflight[n]
    /\ UNCHANGED calling

Next ==
    \/ Destroy
    \/ ~gone /\ \E n \in Nodes :
        \/ Attach(n) \/ Connect(n) \/ Notify(n) \/ Close(n) \/ Closed(n)
        \/ \E o \in Operations : Start(n, o) \/ Answer(n, o)
    \/ ~gone /\ Return

Spec == Init /\ [][Next]_vars
=============================================================================
