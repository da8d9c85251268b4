---------------------------- MODULE MCStockWorker ----------------------------
(* StockWorker for TLC.                                                    *)
EXTENDS StockWorker

CONSTANTS o1, o2, malo, a, b

Existe == [p \in {a, b} |-> 2]

\* o1 asks for one of a, then one of b; o2 for one of b, one of b again, and one of a.
\* There are units for either of them, not for both.
Lleva(x, y) == [p \in {a, b} |-> IF p = a THEN x ELSE y]
Pide ==
    [e \in {o1, o2, malo} |->
        CASE e = o1 -> <<Lleva(1, 0), Lleva(1, 1)>>
          [] e = o2 -> <<Lleva(0, 1), Lleva(0, 2), Lleva(1, 2)>>
          [] e = malo -> <<>>]

\* The event that is not valid comes first: its order among the others, which it
\* has nothing to do with, would triple the states.
MaloPrimero == \A e \in {o1, o2} : job'[e] = "waiting" => job[e] # "none" \/ job[malo] = "failed"
=============================================================================
