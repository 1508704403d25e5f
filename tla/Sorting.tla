------------------------------ MODULE Sorting ------------------------------
(***************************************************************************)
(* What sort.SliceStable leaves of a collection: its elements, each once,  *)
(* in the order of the less function, with which the callers here tell any *)
(* two elements apart.  The modules that the proofs extend take it from    *)
(* here and not from SequencesExt, whose many definitions the provers      *)
(* would carry into every step.                                            *)
(***************************************************************************)
EXTENDS Naturals, Sequences, FiniteSetsExt, TLC

InOrder(S, Less(_, _)) ==
    SortSeq(CHOOSE listed \in [1..Cardinality(S) -> S] : IsInjective(listed), Less)
=============================================================================
