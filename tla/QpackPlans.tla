----------------------------- MODULE QpackPlans -----------------------------
(* The sections one end of an HTTP/3 connection sends, and on which        *)
(* streams: each behaviour of Qpack follows one plan.                      *)
EXTENDS Integers, Sequences

Field(name, value) == [name |-> name, value |-> value, size |-> 33, never |-> FALSE, static |-> FALSE]
F(n) == Field(n, 1)
G(n) == Field(n, 2)
Secret == [F("s") EXCEPT !.never = TRUE]
Static == [F("t") EXCEPT !.static = TRUE]
On(id, fields) == [id |-> id, fields |-> fields]

Fresh == [start |-> 0, held |-> <<>>, eager |-> FALSE, drops |-> 0, pauses |-> 0, sections |-> <<>>]
(* A table that is full, after so many inserts that the count in a section *)
(* is about to wrap.                                                       *)
Full == [Fresh EXCEPT !.start = 9, !.held = <<F("a"), F("b"), G("a"), F("c")>>]

QpackPlans ==
    {[Fresh EXCEPT !.sections = <<On(1, <<F("a"), Static>>), On(2, <<F("a"), G("a")>>),
                                  On(3, <<G("a"), Secret, F("a")>>), On(1, <<F("b")>>)>>],
     [Full EXCEPT !.sections = <<On(1, <<F("a"), F("d")>>), On(2, <<F("c"), G("b")>>),
                                 On(3, <<F("d"), F("e"), F("a")>>), On(1, <<G("e")>>)>>],
     [Full EXCEPT !.drops = 1,
                  !.sections = <<On(1, <<F("b"), G("c")>>), On(2, <<F("a"), F("d")>>),
                                 On(1, <<G("c"), F("c")>>), On(3, <<F("d"), G("b")>>)>>],
     [Full EXCEPT !.drops = 1, !.eager = TRUE,
                  !.sections = <<On(1, <<F("a"), F("d")>>), On(2, <<F("d"), G("b")>>),
                                 On(3, <<F("d"), G("b")>>)>>],
     [Fresh EXCEPT !.eager = TRUE, !.pauses = 1,
                   !.sections = <<On(1, <<F("a"), F("b"), F("c")>>), On(2, <<F("a"), F("c"), F("d")>>),
                                  On(2, <<G("a"), F("e")>>), On(3, <<G("a"), F("d")>>)>>]}
=============================================================================
