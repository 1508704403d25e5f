------------------------------- MODULE Delta -------------------------------
(***************************************************************************)
(* State fields of a graph (internal/graph/state.go) and the delta channel *)
(* behind its append-only field (internal/graph/channel).  A field write   *)
(* is [over, val]: an Overwrite or a normal write of val.                  *)
(*                                                                         *)
(* The delta reducer is the free one: it appends the written tokens, so    *)
(* two histories give the same value exactly when every batching-invariant *)
(* reducer with that initial value agrees on them.                         *)
(***************************************************************************)
EXTENDS Integers, Sequences, FiniteSets

CONSTANTS
    Tokens,             \* written values
    SnapshotFrequency,  \* updates between two snapshots of the delta field
    MaxSupersteps       \* MaxDeltaSuperstepsSinceSnapshot (5000 in the code)

ASSUME FrequencyAssumption == SnapshotFrequency \in Nat /\ MaxSupersteps \in Nat \ {0}

Write == [over : BOOLEAN, val : Tokens]

Values(ws) == [i \in 1..Len(ws) |-> ws[i].val]
Overwrites(ws) == {i \in 1..Len(ws) : ws[i].over}
LastOverwrite(ws) == CHOOSE i \in Overwrites(ws) : \A j \in Overwrites(ws) : j <= i

\* Delta.Apply: one superstep's writes; an overwrite suppresses the others.
DeltaApply(value, ws) ==
    IF Overwrites(ws) = {} THEN value \o Values(ws)
    ELSE <<ws[LastOverwrite(ws)].val>>

\* Delta.Replay: the writes of several supersteps, oldest first; the last
\* overwrite is the base and only later writes are reduced.
DeltaReplay(value, ws) ==
    IF Overwrites(ws) = {} THEN value \o Values(ws)
    ELSE LET last == LastOverwrite(ws)
         IN <<ws[last].val>> \o Values(SubSeq(ws, last + 1, Len(ws)))

\* fieldState.apply for last-value and ephemeral fields.
LastApply(value, ws) ==
    IF ws = <<>> THEN value
    ELSE IF Overwrites(ws) = {} THEN ws[1].val ELSE ws[LastOverwrite(ws)].val

\* Two overwrites of a field in one superstep are an invalid update, and so
\* are two normal writes of a field that is not a delta.
Conflict(isDelta, ws) ==
    \/ Cardinality(Overwrites(ws)) > 1
    \/ ~isDelta /\ Overwrites(ws) = {} /\ Len(ws) > 1

\* Mutant: only the supersteps that update the field are counted.
AdvanceUpdated(counter, updated) ==
    [updates |-> IF updated THEN counter.updates + 1 ELSE counter.updates,
     supersteps |-> IF updated THEN counter.supersteps + 1 ELSE counter.supersteps]

\* The counter of a checkpoint before the snapshot decision.
Advance(counter, updated) ==
    [updates |-> IF updated THEN counter.updates + 1 ELSE counter.updates,
     supersteps |-> counter.supersteps + 1]

ZeroCounter == [updates |-> 0, supersteps |-> 0]

\* Mutant: a snapshot is due one update or superstep late.
SnapshotLate(counter) ==
    /\ SnapshotFrequency > 0
    /\ \/ counter.updates > SnapshotFrequency
       \/ counter.supersteps > MaxSupersteps

ShouldSnapshot(counter) ==
    /\ SnapshotFrequency > 0
    /\ \/ counter.updates >= SnapshotFrequency
       \/ counter.supersteps >= MaxSupersteps
=============================================================================
