---------------------------- MODULE MCJobSystem ----------------------------
(* Instances of JobSystem for TLC.                                         *)
EXTENDS JobSystem, TLC

CONSTANT Closer   \* of ByRole: the client that closes

(* All clients do the same: they submit, wait for a group and close.       *)
Alike == [c \in Clients |-> {"submit", "wait", "close"}]

(* Both submit; one closes while the other may be running jobs.            *)
ByRole == [c \in Clients |-> {"submit", IF c = Closer THEN "close" ELSE "execute"}]

(* Clients and jobs are interchangeable; so are workers.                   *)
Symmetry == Permutations(Clients) \cup Permutations(Jobs) \cup Permutations(Workers)
=============================================================================
