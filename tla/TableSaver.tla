----------------------------- MODULE TableSaver -----------------------------
(***************************************************************************)
(* The savers that keep checkpoints in tables: SQLite                      *)
(* (dacheckpoint/sqlite), PostgreSQL (dacheckpoint/postgres) and IndexedDB *)
(* (browser/checkpoint with browser/src/checkpoint.ts).  A statement or a  *)
(* write transaction is one step; an operation that issues several queries *)
(* is several steps, and other clients run in between.                     *)
(*                                                                         *)
(* The clients are the graph runs (one at a time per thread), readers of a *)
(* thread's state (GetState), and the maintenance operations DeleteThread, *)
(* CopyThread and Prune.  A graph state has a delta field "messages" and a *)
(* last-value field "status"; a state restores from the nearest stored     *)
(* value of "messages" and the pending writes after it.  Whether a         *)
(* checkpoint carries a snapshot of "messages" is arbitrary, except that   *)
(* the first one does.  Ids and versions are as in MemorySaver.            *)
(*                                                                         *)
(* What a superstep returns at a checkpoint is a function of the           *)
(* checkpoint: a run that repeats it, after a crash or as a replay, writes *)
(* the same again.                                                         *)
(***************************************************************************)
EXTENDS Integers, Sequences, FiniteSets, SequencesExt

CONSTANTS
    Threads,
    Readers,        \* clients that only read
    Updates,        \* Updates[id]: what an input or a superstep may return at
                    \* checkpoint id (0: a new thread), [messages, status] each
    Absent,         \* no value
    Marker,         \* the inline value PostgreSQL keeps for a stored snapshot
    Backends,       \* subset of {"sqlite", "postgres", "indexeddb"}
    Disciplined,    \* maintenance keeps out of the way, see the guards
    MaxId,          \* bound: checkpoint ids handed out
    MaxRuns,        \* bound: runs in flight, over all threads
    MaxWalks,       \* bound: restores in flight, over all clients
    MaxDeletes      \* bound: DeleteThread calls

ASSUME TableAssumption ==
    /\ MaxId \in Nat
    /\ MaxRuns \in Nat /\ MaxWalks \in Nat /\ MaxDeletes \in Nat
    /\ Marker \in Seq(Range(Marker))
    /\ Backends \subseteq {"sqlite", "postgres", "indexeddb"}
    /\ Disciplined \in BOOLEAN

VARIABLES
    backend,    \* the saver in use
    rows,       \* rows[t]: id -> [parent, values, versions]
    blobRows,   \* blobRows[t]: <<channel, version>> -> value (PostgreSQL)
    writeRows,  \* writeRows[t][id]: index -> [channel, value]
    clock,      \* last id handed out
    walks,      \* walks[p]: the restore p performs, p a thread's run or a reader
    runs,       \* runs[t]: the run of t
    prunes,     \* prunes[t]: <<>> or <<ids and parents pruneThread read>>
    copying,    \* the CopyThread in flight, or NoCopy
    deletes     \* DeleteThread calls so far

vars == <<backend, rows, blobRows, writeRows, clock, walks, runs, prunes, copying, deletes>>

Ids == 1..MaxId
Channels == {"messages", "status"}
Clients == Threads \cup Readers
None == [x \in {} |-> x]
Empty == [messages |-> <<>>, status |-> Absent]
Unversioned == [ch \in Channels |-> 0]

NoWalk ==
    [pc |-> "idle", thread |-> Absent, target |-> 0, row |-> None, found |-> Empty,
     later |-> <<>>, cursor |-> 0, clean |-> TRUE]

NoRun == [pc |-> "idle", base |-> 0, state |-> Empty, update |-> Empty, sound |-> TRUE]
NoCopy == [source |-> Absent, target |-> Absent, rows |-> None]

Init ==
    /\ backend \in Backends
    /\ rows = [t \in Threads |-> None]
    /\ blobRows = [t \in Threads |-> None]
    /\ writeRows = [t \in Threads |-> [id \in Ids |-> None]]
    /\ clock = 0
    /\ walks = [p \in Clients |-> NoWalk]
    /\ runs = [t \in Threads |-> NoRun]
    /\ prunes = [t \in Threads |-> <<>>]
    /\ copying = NoCopy
    /\ deletes = 0
-----------------------------------------------------------------------------
(* What the tables say *)

Stored(t) == DOMAIN rows[t]

Latest(t) == IF Stored(t) = {} THEN 0 ELSE Max(Stored(t))

\* loadBlobs: the stored values of a row, a blob of the version the row names
\* in place of the inline value.  The other savers keep no blobs.
Loaded(t, row) ==
    LET blobs == blobRows[t]
        found == {ch \in Channels : <<ch, row.versions[ch]>> \in DOMAIN blobs}
    IN IF backend = "postgres"
       THEN [ch \in found |-> blobs[<<ch, row.versions[ch]>>]] @@ row.values
       ELSE row.values

\* pendingWrites of a checkpoint, for "messages", in index order.
Pending(t, id) ==
    LET stored == writeRows[t][id]
        ordered == [i \in 1..Cardinality(DOMAIN stored) |-> stored[i - 1]]
        messages == SelectSeq(ordered, LAMBDA write : write.channel = "messages")
    IN [i \in DOMAIN messages |-> messages[i].value]

\* What restore gives for a stored checkpoint if nothing happens meanwhile.
\* The history ends at a missing ancestor; PostgreSQL then returns none.
Restored(t, id) ==
    LET history[c \in 0..MaxId] ==
            IF c \notin Stored(t) THEN [whole |-> c = 0, messages |-> <<>>]
            ELSE LET values == Loaded(t, rows[t][c])
                     seed == IF "messages" \in DOMAIN values
                             THEN [whole |-> TRUE, messages |-> values["messages"]]
                             ELSE history[rows[t][c].parent]
                 IN [seed EXCEPT !.messages = @ \o Pending(t, c)]
        target == Loaded(t, rows[t][id])
        past == history[rows[t][id].parent]
    IN [messages |-> IF "messages" \in DOMAIN target THEN target["messages"]
                     ELSE IF backend = "postgres" /\ ~past.whole THEN <<>>
                     ELSE past.messages,
        status |-> IF "status" \in DOMAIN target THEN target["status"] ELSE Absent]
-----------------------------------------------------------------------------
(* restore: GetTuple of the target, then GetDeltaChannelHistory, which gets  *)
(* the target again and walks its ancestors one GetTuple at a time.          *)

Walking(p, pc) == walks[p].pc = pc

\* The messages a walk ends with.
Done(p, messages) ==
    [walks[p] EXCEPT !.pc = "done", !.found.messages = messages, !.row = None,
        !.later = <<>>, !.cursor = 0]

\* The values of the target, once they are loaded: a stored value of
\* "messages" makes the history irrelevant.
Target(walk, values) ==
    [walk EXCEPT
        !.pc = IF "messages" \in DOMAIN values THEN "done" ELSE "again",
        !.found = [messages |-> IF "messages" \in DOMAIN values THEN values["messages"] ELSE <<>>,
                   status |-> IF "status" \in DOMAIN values THEN values["status"] ELSE Absent]]

\* The row of the addressed or the latest checkpoint; id 0 for a thread that
\* has none.
Begin(p, t, id) ==
    LET walk == [NoWalk EXCEPT !.thread = t, !.target = id] IN
    /\ Cardinality({q \in Clients : walks[q].pc # "idle"}) < MaxWalks
    /\ walks' = [walks EXCEPT ![p] =
           IF id = 0 THEN [walk EXCEPT !.pc = "done"]
           ELSE IF backend = "postgres"
           THEN [walk EXCEPT !.pc = "blobs", !.row = rows[t][id]]
           ELSE Target(walk, rows[t][id].values)]

TargetBlobs(p) ==
    /\ Walking(p, "blobs")
    /\ walks' = [walks EXCEPT ![p] = Target([@ EXCEPT !.row = None], Loaded(@.thread, @.row))]

\* GetDeltaChannelHistory's own GetTuple of the target.
TargetAgain(p) ==
    LET walk == walks[p]
        gone == walk.target \notin Stored(walk.thread)
    IN
    /\ Walking(p, "again")
    /\ walks' = [walks EXCEPT ![p] =
           IF gone \/ rows[walk.thread][walk.target].parent = 0 THEN Done(p, <<>>)
           ELSE [walk EXCEPT !.pc = "row", !.cursor = rows[walk.thread][walk.target].parent]]

\* The row of the next ancestor.  If it is gone, the history so far is the
\* answer; PostgreSQL returns a nil history and no error.
AncestorRow(p) ==
    LET walk == walks[p] IN
    /\ Walking(p, "row")
    /\ walks' = [walks EXCEPT ![p] =
           IF walk.cursor \in Stored(walk.thread)
           THEN [walk EXCEPT !.row = rows[walk.thread][walk.cursor],
                     !.pc = IF backend = "postgres" THEN "rowBlobs" ELSE "writes"]
           ELSE Done(p, IF backend = "postgres" THEN <<>> ELSE walk.later)]

AncestorBlobs(p) ==
    LET walk == walks[p] IN
    /\ Walking(p, "rowBlobs")
    /\ walks' = [walks EXCEPT ![p] =
           [walk EXCEPT !.pc = "writes", !.row.values = Loaded(walk.thread, walk.row)]]

\* Mutant: the pending writes of the checkpoint that holds the seed are skipped.
AncestorWritesAfterSeed(p) ==
    LET walk == walks[p]
        later == Pending(walk.thread, walk.cursor) \o walk.later
    IN
    /\ Walking(p, "writes")
    /\ walks' = [walks EXCEPT ![p] =
           IF "messages" \in DOMAIN walk.row.values
           THEN Done(p, walk.row.values["messages"] \o walk.later)
           ELSE IF walk.row.parent = 0 THEN Done(p, later)
           ELSE [walk EXCEPT !.pc = "row", !.row = None, !.later = later,
                     !.cursor = walk.row.parent]]

\* The ancestor's pending writes; its stored value, if it has one, ends the
\* walk and its own writes count.
AncestorWrites(p) ==
    LET walk == walks[p]
        later == Pending(walk.thread, walk.cursor) \o walk.later
    IN
    /\ Walking(p, "writes")
    /\ walks' = [walks EXCEPT ![p] =
           IF "messages" \in DOMAIN walk.row.values
           THEN Done(p, walk.row.values["messages"] \o later)
           ELSE IF walk.row.parent = 0 THEN Done(p, later)
           ELSE [walk EXCEPT !.pc = "row", !.row = None, !.later = later,
                     !.cursor = walk.row.parent]]

WalkStep(p) ==
    /\ \/ TargetBlobs(p)
       \/ TargetAgain(p)
       \/ AncestorRow(p)
       \/ AncestorBlobs(p)
       \/ AncestorWrites(p)
    /\ UNCHANGED <<backend, rows, blobRows, writeRows, clock, runs, prunes, copying, deletes>>

\* GetState of a reader, at the latest or an addressed checkpoint.
Read(r, t, id) ==
    /\ walks[r].pc = "idle"
    /\ id \in Stored(t) \/ id = Latest(t)
    /\ Begin(r, t, id)
    /\ UNCHANGED <<backend, rows, blobRows, writeRows, clock, runs, prunes, copying, deletes>>

ReadEnd(r) ==
    /\ walks[r].pc = "done"
    /\ walks' = [walks EXCEPT ![r] = NoWalk]
    /\ UNCHANGED <<backend, rows, blobRows, writeRows, clock, runs, prunes, copying, deletes>>
-----------------------------------------------------------------------------
(* Runs of the graph executor *)

\* A copy in flight writes to t.
Arriving(t) == copying.target = t

\* Invoke at the latest checkpoint, or Replay of an addressed one; a replay
\* is kept apart from a prune.
RunStart(t, id) ==
    /\ runs[t].pc = "idle"
    /\ Cardinality({u \in Threads : runs[u].pc # "idle"}) < MaxRuns
    /\ id \in Stored(t) \/ id = Latest(t)
    /\ Disciplined => ~Arriving(t) /\ (id = Latest(t) \/ prunes[t] = <<>>)
    /\ Begin(t, t, id)
    /\ runs' = [runs EXCEPT ![t].pc = "restoring"]
    /\ UNCHANGED <<backend, rows, blobRows, writeRows, clock, prunes, copying, deletes>>

RunRestored(t) ==
    /\ runs[t].pc = "restoring"
    /\ walks[t].pc = "done"
    /\ runs' = [runs EXCEPT ![t] = [NoRun EXCEPT !.pc = "loop", !.base = walks[t].target,
           !.state = walks[t].found, !.sound = walks[t].clean]]
    /\ walks' = [walks EXCEPT ![t] = NoWalk]
    /\ UNCHANGED <<backend, rows, blobRows, writeRows, clock, prunes, copying, deletes>>

\* Mutant: the writes are numbered from 1.
StateWritesFromOne(u) ==
    LET messages == [i \in 1..Len(u.messages) |-> [channel |-> "messages", value |-> u.messages[i]]]
        status == IF u.status = Absent THEN <<>> ELSE <<[channel |-> "status", value |-> u.status]>>
    IN messages \o status

\* stateWrites: fields in key order, numbered from 0.
StateWrites(u) ==
    LET messages == [i \in 1..Len(u.messages) |-> [channel |-> "messages", value |-> u.messages[i]]]
        status == IF u.status = Absent THEN <<>> ELSE <<[channel |-> "status", value |-> u.status]>>
        all == messages \o status
    IN [i \in 0..(Len(all) - 1) |-> all[i + 1]]

\* The superstep at a checkpoint has run before.
Repeated(t, id) ==
    writeRows[t][id] # None \/ \E c \in Stored(t) : rows[t][c].parent = id

\* The writes of a superstep or an input; an index that is taken keeps its
\* write.  A first input has no checkpoint to attach them to.
RunWrites(t, u) ==
    LET id == runs[t].base IN
    /\ runs[t].pc = "loop"
    /\ clock < MaxId
    /\ id # 0 /\ Repeated(t, id) => StateWrites(u) = writeRows[t][id]
    /\ writeRows' = IF id = 0 THEN writeRows
                    ELSE [writeRows EXCEPT ![t][id] =
                        [i \in DOMAIN @ \cup DOMAIN StateWrites(u) |->
                            IF i \in DOMAIN @ THEN @[i] ELSE StateWrites(u)[i]]]
    /\ runs' = [runs EXCEPT ![t].pc = "put", ![t].update = u]
    /\ UNCHANGED <<backend, rows, blobRows, clock, walks, prunes, copying, deletes>>

Apply(state, u) ==
    [messages |-> state.messages \o u.messages,
     status |-> IF u.status = Absent THEN state.status ELSE u.status]

\* The channels persist gives a new version.
Versioned(u, snapshot) ==
    {ch \in Channels : IF ch = "messages" THEN u.messages # <<>> \/ snapshot
                       ELSE u.status # Absent}

\* persist and Put: the versions of the parent's row, a new version for what
\* changed.  SQLite and IndexedDB store the values in the row; PostgreSQL
\* stores those with a new version as blobs and marks a snapshot in the row.
RunPut(t, snapshotDue) ==
    LET run == runs[t]
        id == clock'
        snapshot == snapshotDue \/ run.base = 0
        state == Apply(run.state, run.update)
        new == Versioned(run.update, snapshot)
        old == IF run.base \in Stored(t) THEN rows[t][run.base].versions ELSE Unversioned
        stored == {ch \in Channels : IF ch = "messages" THEN snapshot ELSE state.status # Absent}
        row == [parent |-> run.base,
                values |-> IF backend = "postgres"
                           THEN [ch \in stored \cap {"messages"} |-> Marker]
                           ELSE [ch \in stored |-> state[ch]],
                versions |-> [ch \in Channels |-> IF ch \in new THEN id ELSE old[ch]]]
        added == IF backend = "postgres" THEN (stored \cap new) \X {id} ELSE {}
    IN
    /\ run.pc = "put"
    /\ clock' = clock + 1
    /\ clock' <= MaxId
    /\ rows' = [rows EXCEPT ![t] = [c \in DOMAIN @ \cup {id} |-> IF c = id THEN row ELSE @[c]]]
    /\ blobRows' = [blobRows EXCEPT ![t] = [key \in DOMAIN @ \cup added |->
           IF key \in DOMAIN @ THEN @[key] ELSE state[key[1]]]]
    /\ runs' = [runs EXCEPT ![t].pc = "loop", ![t].base = id, ![t].state = state,
           ![t].update = Empty]
    /\ UNCHANGED <<backend, writeRows, walks, prunes, copying, deletes>>

\* The run ends, fails or is lost with its process, between any two calls.
RunStop(t) ==
    /\ runs[t].pc # "idle"
    /\ runs' = [runs EXCEPT ![t] = NoRun]
    /\ walks' = [walks EXCEPT ![t] = NoWalk]
    /\ UNCHANGED <<backend, rows, blobRows, writeRows, clock, prunes, copying, deletes>>
-----------------------------------------------------------------------------
(* Maintenance *)

\* Walks and runs on t that lose a checkpoint they depend on (ghost).
Disturbed(t, gone) ==
    /\ walks' = [p \in Clients |->
           IF walks[p].thread = t /\ walks[p].target \in gone
           THEN [walks[p] EXCEPT !.clean = FALSE] ELSE walks[p]]
    /\ runs' = [runs EXCEPT ![t].sound = @ /\ ~(runs[t].pc \in {"loop", "put"} /\ runs[t].base \in gone)]

\* One transaction: every row, blob and write of the thread, the writes of
\* checkpoints without a row included.
DeleteThread(t) ==
    /\ Stored(t) # {}
    /\ Disciplined => copying.source # t /\ (backend = "postgres" => runs[t].pc = "idle")
    /\ rows' = [rows EXCEPT ![t] = None]
    /\ blobRows' = [blobRows EXCEPT ![t] = None]
    /\ writeRows' = [writeRows EXCEPT ![t] = [id \in Ids |-> None]]
    /\ Disturbed(t, Ids)
    /\ deletes < MaxDeletes
    /\ deletes' = deletes + 1
    /\ UNCHANGED <<backend, clock, prunes, copying>>

\* The run of t works, or is about to work, on another checkpoint than the
\* latest one.
OnBranch(t) ==
    \/ runs[t].pc = "restoring" /\ walks[t].target # Latest(t)
    \/ runs[t].pc \in {"loop", "put"} /\ runs[t].base # Latest(t)

\* pruneThread, first query.
PruneRead(t) ==
    /\ \A u \in Threads : prunes[u] = <<>>
    /\ Stored(t) # {}
    /\ Disciplined => ~OnBranch(t)
    /\ prunes' = [prunes EXCEPT ![t] = <<[id \in Stored(t) |-> rows[t][id].parent]>>]
    /\ UNCHANGED <<backend, rows, blobRows, writeRows, clock, walks, runs, copying, deletes>>

\* Mutant: only the parent of the latest checkpoint stays with it.
ChainShort(parents) ==
    LET latest == Max(DOMAIN parents) IN {latest, parents[latest]} \cap DOMAIN parents

\* The latest of the checkpoints read and its ancestors among them.
Chain(parents) ==
    LET latest == Max(DOMAIN parents)
        closed(S) == \A c \in S : parents[c] \in DOMAIN parents => parents[c] \in S
    IN {c \in DOMAIN parents : \A S \in SUBSET DOMAIN parents :
            latest \in S /\ closed(S) => c \in S}

\* pruneThread's transaction: what was read and is not in the chain goes with
\* its writes; PostgreSQL also drops the blobs no remaining row refers to.
PruneDelete(t) ==
    LET parents == prunes[t][1]
        gone == DOMAIN parents \ Chain(parents)
        left == Stored(t) \ gone
        referenced == {<<ch, rows[t][c].versions[ch]>> : ch \in Channels, c \in left}
    IN
    /\ prunes[t] # <<>>
    /\ Disciplined => copying.source # t
    /\ prunes' = [prunes EXCEPT ![t] = <<>>]
    /\ rows' = [rows EXCEPT ![t] = [c \in left |-> @[c]]]
    /\ writeRows' = [writeRows EXCEPT ![t] = [id \in Ids |-> IF id \in gone THEN None ELSE @[id]]]
    /\ blobRows' = [blobRows EXCEPT ![t] = [key \in DOMAIN @ \cap referenced |-> @[key]]]
    /\ Disturbed(t, gone)
    /\ UNCHANGED <<backend, clock, copying, deletes>>

NoWrites(t) == \A id \in Ids : writeRows[t][id] = None

\* The existence check of CopyThread, which each saver makes on other tables,
\* and SQLite's unique key on the writes.
CopyAllowed(source, target) ==
    /\ Stored(target) = {}
    /\ backend = "postgres" => blobRows[target] = None /\ NoWrites(target)
    /\ backend = "sqlite" => \A id \in Ids :
         DOMAIN writeRows[source][id] \cap DOMAIN writeRows[target][id] = {}

\* What CopyThread inserts, given the checkpoint rows it read.
Inserted(source, target, copied) ==
    /\ rows' = [rows EXCEPT ![target] = copied @@ @]
    /\ blobRows' = [blobRows EXCEPT ![target] = blobRows[source] @@ @]
    /\ writeRows' = [writeRows EXCEPT ![target] =
           [id \in Ids |-> writeRows[source][id] @@ @[id]]]

\* SQLite copies in one transaction; PostgreSQL and IndexedDB read the
\* checkpoints first and the rest later.
CopyStart(source, target) ==
    /\ copying = NoCopy
    /\ source # target
    /\ Stored(source) # {}
    /\ CopyAllowed(source, target)
    /\ Disciplined => runs[target].pc = "idle" /\ prunes[target] = <<>> /\ NoWrites(target)
    /\ IF backend = "sqlite"
       THEN Inserted(source, target, rows[source]) /\ UNCHANGED copying
       ELSE /\ copying' = [source |-> source, target |-> target, rows |-> rows[source]]
            /\ UNCHANGED <<rows, blobRows, writeRows>>
    /\ UNCHANGED <<backend, clock, walks, runs, prunes, deletes>>

CopyFinish ==
    /\ copying # NoCopy
    /\ Inserted(copying.source, copying.target, copying.rows)
    /\ copying' = NoCopy
    /\ UNCHANGED <<backend, clock, walks, runs, prunes, deletes>>
-----------------------------------------------------------------------------
Next ==
    \/ \E p \in Clients : WalkStep(p)
    \/ \E r \in Readers, t \in Threads : \E id \in Stored(t) \cup {Latest(t)} : Read(r, t, id)
    \/ \E r \in Readers : ReadEnd(r)
    \/ \E t \in Threads : \E id \in Stored(t) \cup {Latest(t)} : RunStart(t, id)
    \/ \E t \in Threads : RunRestored(t)
    \/ \E t \in Threads : \E u \in Updates[runs[t].base] : RunWrites(t, u)
    \/ \E t \in Threads, snapshotDue \in BOOLEAN : RunPut(t, snapshotDue)
    \/ \E t \in Threads : RunStop(t)
    \/ \E t \in Threads : DeleteThread(t)
    \/ \E t \in Threads : PruneRead(t)
    \/ \E t \in Threads : PruneDelete(t)
    \/ \E source, target \in Threads : CopyStart(source, target)
    \/ CopyFinish

Spec == Init /\ [][Next]_vars
-----------------------------------------------------------------------------
\* Ids come from the clock, a row's parent is older, and the writes of a
\* checkpoint are numbered from 0 without a gap.
TypeOK ==
    /\ backend \in Backends
    /\ clock \in 0..MaxId
    /\ \A t \in Threads :
         /\ Stored(t) \subseteq 1..clock
         /\ \A id \in Stored(t) : rows[t][id].parent \in 0..(id - 1)
         /\ DOMAIN blobRows[t] \subseteq Channels \X (1..clock)
         /\ \A id \in Ids : LET indices == DOMAIN writeRows[t][id] IN
              indices = 0..(Cardinality(indices) - 1)
         /\ runs[t].pc \in {"idle", "restoring", "loop", "put"}
         /\ runs[t].base \in 0..clock
    /\ \A p \in Clients :
         walks[p].pc \in {"idle", "blobs", "again", "row", "rowBlobs", "writes", "done"}

\* A restore made of many queries, with runs, copies and prunes of the thread
\* in between, gives exactly what its checkpoint holds, unless the checkpoint
\* itself was removed meanwhile (GetTuple and GetDeltaChannelHistory).
ReadExact ==
    \A p \in Clients : walks[p].pc = "done" /\ walks[p].clean =>
        walks[p].found = IF walks[p].target = 0 THEN Empty
                         ELSE Restored(walks[p].thread, walks[p].target)

Store == INSTANCE ThreadStore WITH
    Idle <- Absent,
    stored <- [t \in Threads |-> Stored(t)],
    states <- [t \in Threads |-> [id \in Stored(t) |-> Restored(t, id)]],
    runs <- [t \in Threads |->
        IF runs[t].pc \in {"idle", "restoring"} THEN Absent
        ELSE [base |-> runs[t].base, state |-> runs[t].state, sound |-> runs[t].sound]]

\* The tables implement the abstract thread store: every checkpoint restores
\* to the state its run stored, for as long as it is stored (Put, PutWrites,
\* CopyThread, pruneThread and DeleteThread of the three savers).
StoreImplemented == Store!Spec

\* A prune never changes what a checkpoint it leaves restores to
\* (pruneThread).
PruneKeepsHistory ==
    [][\A t \in Threads : \A id \in Stored(t) :
         prunes[t] # <<>> /\ prunes'[t] = <<>> /\ (id \in Stored(t))' =>
             Restored(t, id)' = Restored(t, id)]_vars
=============================================================================
