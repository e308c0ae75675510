------------------------- MODULE MCOutboxPublisher -------------------------
(***************************************************************************)
(* Small instances of OutboxPublisher: two publishers side by side on the  *)
(* rows of one case, or one publisher and cases whose commits overtake     *)
(* each other; in both, more rows than one batch takes.                    *)
(***************************************************************************)
EXTENDS OutboxPublisher

CONSTANTS p1, p2, c1, c2

Single == [publishers |-> {p1}, cases |-> {c1, c2}, maxRows |-> 3, maxTroubles |-> 2]
Pair == [publishers |-> {p1, p2}, cases |-> {c1}, maxRows |-> 3, maxTroubles |-> 1]
RoughPair == [Pair EXCEPT !.maxRows = 2, !.maxTroubles = 2]
SingleOrPair == {Single, Pair, RoughPair}

Alone == {[publishers |-> {p1}, cases |-> {c1}, maxRows |-> 1, maxTroubles |-> 1]}
=============================================================================
