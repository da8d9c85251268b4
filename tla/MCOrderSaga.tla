---------------------------- MODULE MCOrderSaga -----------------------------
(* OrderSaga for TLC.                                                        *)
EXTENDS OrderSaga

\* A delivery of two units, and two units taken out.
Deltas == {2, -2}
=============================================================================
