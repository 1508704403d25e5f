---------------------------- MODULE SaverClient ----------------------------
(***************************************************************************)
(* A MemorySaver shared by clients of several threads: graph runs that     *)
(* store checkpoints and pending writes, forks of a thread (CopyThread),   *)
(* deletions and prunes, in any order.  A run may still write to a thread  *)
(* that was deleted under it.                                              *)
(***************************************************************************)
EXTENDS MemorySaver

CONSTANTS
    Vals,       \* channel values
    Written,    \* values of pending writes
    Slots,      \* <<task, index>> slots a client writes
    MaxWrites   \* bound: PutWrites calls

VARIABLES
    puts,       \* PutWrites calls so far
    seen        \* seen[t]: checkpoints of t a run may have started from

clientVars == <<records, blobs, writes, clock, puts, seen>>

ClientInit == SaverInit /\ puts = 0 /\ seen = [t \in Threads |-> {}]

\* A run reads the checkpoint it starts from before it writes to it.
See == seen' = [t \in Threads |-> seen[t] \cup DOMAIN records'[t]]

\* persist: a child of a stored checkpoint or a first one; a new version for
\* some channels, a value for some of those.
ClientPut(t, parent, new, values) ==
    LET base == IF Has(t, parent) THEN records[t][parent].versions ELSE Unversioned IN
    /\ NewID
    /\ Put(t, parent, values, [ch \in Channels |-> IF ch \in new THEN clock' ELSE base[ch]],
           "meta", new)
    /\ See
    /\ UNCHANGED <<writes, puts>>

\* A run at checkpoint id, stored or deleted meanwhile, writes a task's value.
ClientPutWrites(t, id, slot, ch, value) ==
    /\ puts < MaxWrites
    /\ puts' = puts + 1
    /\ PutWrites(t, id, [s \in {slot} |-> [channel |-> ch, value |-> value, by |-> 0]])
    /\ UNCHANGED <<records, blobs, clock, seen>>

ClientDelete(t) == DOMAIN records[t] # {} /\ DeleteThread(t) /\ UNCHANGED <<puts, seen>>

ClientCopy(source, target) ==
    DOMAIN records[source] # {} /\ CopyThread(source, target) /\ See /\ UNCHANGED puts

ClientPrune(t) == DOMAIN records[t] # {} /\ Prune(t) /\ UNCHANGED <<puts, seen>>

ClientNext == \E t \in Threads :
    \/ \E parent \in DOMAIN records[t] \cup {0}, new \in SUBSET Channels :
         \E given \in SUBSET new : \E values \in [given -> Vals] :
             ClientPut(t, parent, new, values)
    \/ \E id \in seen[t], slot \in Slots, ch \in Channels, value \in Written :
         ClientPutWrites(t, id, slot, ch, value)
    \/ ClientDelete(t)
    \/ \E target \in Threads : ClientCopy(t, target)
    \/ ClientPrune(t)

ClientSpec == ClientInit /\ [][ClientNext]_clientVars
-----------------------------------------------------------------------------
\* What GetTuple and GetDeltaChannelHistory say of a stored checkpoint.
Reading(t, id) ==
    [parent |-> records[t][id].parent,
     pending |-> [ch \in Channels |-> PendingWrites(t, id, ch)],
     values |-> [ch \in {x \in Channels : Present(t, id, x)} |-> ChannelValue(t, id, ch)],
     history |-> [ch \in Channels |-> GetDeltaChannelHistory(t, id, ch)]]

\* Put, Prune, Copy and Delete never change what a checkpoint that stays
\* reads as, and neither does PutWrites on another thread; only PutWrites on
\* the thread itself adds to it (memory.go Put, Prune, CopyThread).
ReadingStable ==
    [][\A t \in Threads :
         (\A id \in DOMAIN records[t] : writes'[t][id] \in {writes[t][id], None}) =>
             \A id \in DOMAIN records[t] \cap DOMAIN records'[t] :
                 Reading(t, id)' = Reading(t, id)]_clientVars

\* A prune or a copy never loses the newest checkpoint of a thread: it only
\* goes when the whole thread goes (memory.go Prune).  And a stored write is
\* never replaced by a later one of the same task and index while its
\* checkpoint is stored (memory.go PutWrites).
StoredKept ==
    [][\A t \in Threads :
         /\ DOMAIN records'[t] # {} =>
               \A id \in DOMAIN records[t] : \E c \in DOMAIN records'[t] : c >= id
         /\ \A id \in DOMAIN records[t] \cap DOMAIN records'[t] :
               \A s \in DOMAIN writes[t][id] :
                   s[2] >= 0 => s \in DOMAIN writes'[t][id]
                                /\ writes'[t][id][s] = writes[t][id][s]]_clientVars

\* The target of a copy step.
CopiedTo(t) == DOMAIN records[t] = {} /\ DOMAIN records'[t] # {} /\ clock' = clock

\* A copied thread reads exactly as its source, if no write of a deleted run
\* was left in the target (memory.go CopyThread).
CopyFaithful ==
    [][\A t \in Threads : CopiedTo(t) /\ (\A id \in Ids : writes[t][id] = None) =>
         \E s \in Threads \ {t} :
             /\ DOMAIN records'[t] = DOMAIN records[s]
             /\ \A id \in DOMAIN records[s] : Reading(t, id)' = Reading(s, id)]_clientVars

\* A copied thread reads exactly as its source.
CopyExact ==
    [][\A t \in Threads : CopiedTo(t) =>
         \E s \in Threads \ {t} :
             /\ DOMAIN records'[t] = DOMAIN records[s]
             /\ \A id \in DOMAIN records[s] : Reading(t, id)' = Reading(s, id)]_clientVars
=============================================================================
