---------------------------- MODULE MemorySaver ----------------------------
(***************************************************************************)
(* The in-memory checkpoint saver (dacheckpoint/memory.go): checkpoint     *)
(* records, channel blobs addressed by channel version, and the pending    *)
(* writes attached to a checkpoint.  Every method holds saver.mu, so each  *)
(* is one atomic step.                                                     *)
(*                                                                         *)
(* Checkpoint ids come from one monotonic clock (NewID), so an id is a     *)
(* natural number and the latest checkpoint of a thread is its largest id. *)
(* NextVersion never returns a version twice (counter plus random          *)
(* fraction); the version a channel gets at a checkpoint is modelled by    *)
(* the id of that checkpoint.  0 stands for "no id" and "no version".      *)
(***************************************************************************)
EXTENDS Integers, Sequences, FiniteSets, Sorting

CONSTANTS
    Threads,    \* thread ids (one namespace each)
    Channels,   \* channel names
    Absent,     \* no value
    MaxId       \* bound: checkpoint ids handed out

ASSUME MaxIdAssumption == MaxId \in Nat

VARIABLES
    records,    \* records[t]: id -> [parent, versions, meta]
    blobs,      \* blobs[t]: <<channel, version>> -> [present, value]
    writes,     \* writes[t][id]: <<task, index>> -> [channel, value, by]
    clock       \* last id handed out by NewID

saverVars == <<records, blobs, writes, clock>>

Ids == 1..MaxId
None == [x \in {} |-> x]
Unversioned == [ch \in Channels |-> 0]

SaverInit ==
    /\ records = [t \in Threads |-> None]
    /\ blobs = [t \in Threads |-> None]
    /\ writes = [t \in Threads |-> [id \in Ids |-> None]]
    /\ clock = 0
-----------------------------------------------------------------------------
(* Reads *)

Has(t, id) == id \in DOMAIN records[t]

Latest(t) == IF DOMAIN records[t] = {} THEN 0 ELSE Max(DOMAIN records[t])

\* The version a record names resolves to a present blob, whichever
\* checkpoint wrote it.
Resolves(record, stored, ch) ==
    LET key == <<ch, record.versions[ch]>> IN key \in DOMAIN stored /\ stored[key].present

\* The channel has a stored value at checkpoint id.
Present(t, id, ch) == Resolves(records[t][id], blobs[t], ch)

ChannelValue(t, id, ch) == blobs[t][<<ch, records[t][id].versions[ch]>>].value

\* sortWrites: by task path, task id, index.  A task is <<position, name>>;
\* positions follow paths, the empty path of "__input__" being position 0.
SlotBefore(a, b) ==
    \/ a[1][1] < b[1][1]
    \/ a[1][1] = b[1][1] /\ a[2] < b[2]

\* The values written to a channel, in that order.
Ordered(pending, ch) ==
    LET slots == {s \in DOMAIN pending : pending[s].channel = ch}
        order == InOrder(slots, SlotBefore)
    IN [i \in 1..Len(order) |-> pending[order[i]].value]

PendingWrites(t, id, ch) == Ordered(writes[t][id], ch)

\* Mutant: the pending writes of the checkpoint that holds the seed are left out.
HistoryAfterSeed(stored, values, pending, ch) ==
    LET history[c \in 0..MaxId] ==
            IF c \notin DOMAIN stored
            THEN [hasSeed |-> FALSE, seed |-> Absent, writes |-> <<>>]
            ELSE IF Resolves(stored[c], values, ch)
            THEN [hasSeed |-> TRUE, seed |-> values[<<ch, stored[c].versions[ch]>>].value,
                  writes |-> <<>>]
            ELSE [history[stored[c].parent] EXCEPT !.writes = @ \o Ordered(pending[c], ch)]
    IN history

\* The walk from a checkpoint to the nearest one with a seed; the pending
\* writes of that one are part of the history.
History(stored, values, pending, ch) ==
    LET history[c \in 0..MaxId] ==
            IF c \notin DOMAIN stored
            THEN [hasSeed |-> FALSE, seed |-> Absent, writes |-> <<>>]
            ELSE IF Resolves(stored[c], values, ch)
            THEN [hasSeed |-> TRUE, seed |-> values[<<ch, stored[c].versions[ch]>>].value,
                  writes |-> Ordered(pending[c], ch)]
            ELSE [history[stored[c].parent] EXCEPT !.writes = @ \o Ordered(pending[c], ch)]
    IN history

\* The walk begins at the target's parent.
GetDeltaChannelHistory(t, id, ch) ==
    History(records[t], blobs[t], writes[t], ch)[records[t][id].parent]

\* Mutant: only the checkpoint itself.
AncestryShallow(t, id) == {id} \cap DOMAIN records[t]

\* A checkpoint and its ancestors, up to the first that is not stored: what
\* every set with id that is closed under stored parents contains.
Ancestry(t, id) ==
    LET stored == DOMAIN records[t]
        closed(S) == \A c \in S : records[t][c].parent \in stored => records[t][c].parent \in S
    IN {c \in stored : \A S \in SUBSET stored : id \in S /\ closed(S) => c \in S}
-----------------------------------------------------------------------------
(* Writes *)

NewID == clock' = clock + 1 /\ clock' <= MaxId

\* Put stores a blob for every channel with a new version, present only when
\* the checkpoint carries a value for it, and the record under the new id.
Put(t, parent, values, versions, meta, newVersions) ==
    LET id == clock'
        new == newVersions \X {id}
    IN
    /\ blobs' = [blobs EXCEPT ![t] =
           [key \in DOMAIN @ \cup new |->
               IF key \notin new THEN @[key]
               ELSE IF key[1] \in DOMAIN values
               THEN [present |-> TRUE, value |-> values[key[1]]]
               ELSE [present |-> FALSE, value |-> Absent]]]
    /\ records' = [records EXCEPT ![t] =
           [c \in DOMAIN @ \cup {id} |->
               IF c = id THEN [parent |-> parent, versions |-> versions, meta |-> meta]
               ELSE @[c]]]

\* Mutant: a later write of the same task and index wins.
PutWritesReplace(t, id, slotted) ==
    writes' = [writes EXCEPT ![t][id] =
        [s \in DOMAIN @ \cup DOMAIN slotted |->
            IF s \in DOMAIN slotted THEN slotted[s] ELSE @[s]]]

\* A write already stored for a task and index is kept (index >= 0); the
\* fixed negative index of a control channel is replaced.
PutWrites(t, id, slotted) ==
    writes' = [writes EXCEPT ![t][id] =
        [s \in DOMAIN @ \cup DOMAIN slotted |->
            IF s \in DOMAIN @ /\ (s \notin DOMAIN slotted \/ s[2] >= 0)
            THEN @[s] ELSE slotted[s]]]

\* Only the writes of checkpoints that have a record go.
DeleteThread(t) ==
    /\ writes' = [writes EXCEPT ![t] =
           [id \in Ids |-> IF Has(t, id) THEN None ELSE @[id]]]
    /\ records' = [records EXCEPT ![t] = None]
    /\ blobs' = [blobs EXCEPT ![t] = None]
    /\ UNCHANGED clock

\* Mutant: the pending writes are not copied.
CopyRecords(source, target) ==
    /\ source # target
    /\ DOMAIN records[target] = {}
    /\ records' = [records EXCEPT ![target] = records[source]]
    /\ blobs' = [blobs EXCEPT ![target] =
           [key \in DOMAIN @ \cup DOMAIN blobs[source] |->
               IF key \in DOMAIN blobs[source] THEN blobs[source][key] ELSE @[key]]]
    /\ UNCHANGED <<writes, clock>>

\* Every record of the source with its writes and blobs; the target must have
\* no record.
CopyThread(source, target) ==
    /\ source # target
    /\ DOMAIN records[target] = {}
    /\ records' = [records EXCEPT ![target] = records[source]]
    /\ writes' = [writes EXCEPT ![target] =
           [id \in Ids |-> IF Has(source, id) /\ writes[source][id] # None
                           THEN writes[source][id] ELSE @[id]]]
    /\ blobs' = [blobs EXCEPT ![target] =
           [key \in DOMAIN @ \cup DOMAIN blobs[source] |->
               IF key \in DOMAIN blobs[source] THEN blobs[source][key] ELSE @[key]]]
    /\ UNCHANGED clock

\* PruneKeepLatest: the latest checkpoint and its ancestors stay, with the
\* blobs a remaining record refers to.
Prune(t) ==
    LET keep == Ancestry(t, Latest(t))
        referenced == {<<ch, records[t][c].versions[ch]>> : ch \in Channels, c \in keep}
    IN
    /\ records' = [records EXCEPT ![t] = [c \in keep |-> @[c]]]
    /\ writes' = [writes EXCEPT ![t] =
           [id \in Ids |-> IF Has(t, id) /\ id \notin keep THEN None ELSE @[id]]]
    /\ blobs' = [blobs EXCEPT ![t] = [key \in DOMAIN @ \cap referenced |-> @[key]]]
    /\ UNCHANGED clock
=============================================================================
