------------------------------ MODULE MCSaver ------------------------------
(* An instance of SaverClient for TLC: two threads. *)
EXTENDS SaverClient

CONSTANTS t1, t2, v, w

MCThreads == {t1, t2}
MCVals == {v}
MCWritten == {v, w}
MCSlots == {<<<<1, "n">>, 0>>}
=============================================================================
