---------------------------- MODULE MCTableSaver ----------------------------
(* Instances of TableSaver for TLC. *)
EXTENDS TableSaver

CONSTANTS t1, t2

MCThreads == {t1, t2}
MCMarker == <<"marker">>

\* The first input sets both fields; afterwards a step appends a message or
\* sets the status and leaves the other field as it is.  What a step returns
\* tells the checkpoint it ran at.
MCUpdates == [id \in 0..MaxId |->
    {[messages |-> IF id = 0 \/ id % 2 = 1 THEN <<id>> ELSE <<>>,
      status |-> IF id % 2 = 0 THEN id ELSE Absent]}]

MCSymmetry == Permutations(MCThreads)
=============================================================================
