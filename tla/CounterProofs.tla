--------------------------- MODULE CounterProofs ---------------------------
(***************************************************************************)
(* Proofs about the checkpoints of Graph, for all values of the constants  *)
(* and any number of operations: the snapshot counters follow the chain of *)
(* checkpoints, stay below the cadence and count what a restore replays,   *)
(* and no step of one owner changes what a checkpoint reconstructs to.     *)
(***************************************************************************)
EXTENDS GraphProofs, HistoryProofs, FiniteSetTheorems

\* Every invocation past its first input is at a stored checkpoint, with the
\* counter that it stores.
RunStored ==
    run.pc \notin {"idle", "new"} =>
        run.current \in DOMAIN records[T] /\ run.counter = records[T][run.current].meta.counter

\* It is at the latest one.
RunLatest == run.pc \notin {"idle", "new"} => \A c \in DOMAIN records[T] : c <= run.current

\* Blobs belong to a channel and to an id that was handed out.
BlobsTyped == DOMAIN blobs[T] \subseteq Channels \X (1..clock)

\* The inductive invariant of SpecBranch, and with RunLatest of Spec.
CounterInv == SessionInv /\ RunStored /\ BlobsTyped /\ CounterChain

\* The invariant holds before the first operation on the thread.
LEMMA InitCounter == Init => CounterInv /\ RunLatest
<1> SUFFICES ASSUME Init PROVE CounterInv /\ RunLatest
  OBVIOUS
<1>1. SessionInv
  BY InitSession
<1>2. RunStored /\ RunLatest
  BY DEF Init, RunStored, RunLatest, Idle
<1>3. DOMAIN records[T] = {} /\ DOMAIN blobs[T] = {}
  BY GraphAssumption DEF Init, SaverInit, None
<1> QED BY <1>1, <1>2, <1>3 DEF CounterInv, BlobsTyped, CounterChain

\* A counter that makes no snapshot due is below the cadence.
LEMMA BelowCadence ==
    ASSUME NEW prev \in Counter, NEW updated, NEW overwritten, NEW force
    PROVE  LET next == NextCounter(prev, updated, overwritten, force) IN
           /\ Due(prev, updated, overwritten, force) => next = ZeroCounter
           /\ ~Due(prev, updated, overwritten, force) =>
                next = Advance(prev, "messages" \in updated)
           /\ SnapshotFrequency > 0 =>
                next.updates < SnapshotFrequency /\ next.supersteps < MaxSupersteps
BY FrequencyAssumption
DEF NextCounter, Due, ShouldSnapshot, Counter, ZeroCounter, Advance

\* A stored snapshot of a checkpoint, as a function of the blobs.
Snap(stored, id) == <<"messages", id>> \in DOMAIN stored /\ stored[<<"messages", id>>].present

\* persist stores a snapshot exactly when one is due, under the version the
\* record names, and touches no earlier blob.
LEMMA PersistBlobs ==
    ASSUME Shape, RecordsTyped, BlobsTyped, clock \in 0..MaxId,
           NEW source, NEW parent, NEW machine, NEW tasks, NEW prev,
           NEW updated \in SUBSET Channels, NEW overwritten, NEW force,
           Persist(source, parent, machine, tasks, prev, updated, overwritten, force)
    PROVE  /\ Snap(blobs'[T], clock') <=> Due(prev, updated, overwritten, force)
           /\ Snap(blobs'[T], clock') => records'[T][clock'].versions["messages"] = clock'
           /\ \A id \in DOMAIN records[T] : Snap(blobs'[T], id) <=> Snap(blobs[T], id)
           /\ BlobsTyped'
<1> DEFINE id == clock'
           due == Due(prev, updated, overwritten, force)
           snapshot == IF due THEN {"messages"} ELSE {}
           stored == snapshot \cup {ch \in {"status"} : machine[ch] # Absent}
           values == [ch \in stored |-> machine[ch]]
           new == (updated \cup snapshot) \X {id}
           base == IF Has(T, parent) THEN records[T][parent].versions ELSE Unversioned
           versions == [ch \in Channels |-> IF ch \in updated \cup snapshot THEN id ELSE base[ch]]
           blob(key) == IF key \notin new THEN blobs[T][key]
                        ELSE IF key[1] \in DOMAIN values
                        THEN [present |-> TRUE, value |-> values[key[1]]]
                        ELSE [present |-> FALSE, value |-> Absent]
<1> USE GraphAssumption, MaxIdAssumption
<1>1. id = clock + 1 /\ clock \in Nat
  BY DEF Persist, NewID
<1>2. blobs'[T] = [key \in DOMAIN blobs[T] \cup new |-> blob(key)]
  <2>1. blobs' = [blobs EXCEPT ![T] = [key \in DOMAIN blobs[T] \cup new |-> blob(key)]]
    BY DEF Persist, Put
  <2> HIDE DEF new, blob
  <2> QED BY <2>1 DEF Shape
<1>3. records'[T][id].versions = versions
  BY Zenon DEF Persist, Put, Shape
<1>4. snapshot \subseteq Channels
  OBVIOUS
<1>5. new \subseteq Channels \X {id}
  BY <1>4, Zenon
<1>6. <<"messages", id>> \notin DOMAIN blobs[T]
  BY <1>1 DEF BlobsTyped
<1>7. \A c \in DOMAIN records[T] : <<"messages", c>> \notin new
  BY <1>1 DEF RecordsTyped
<1>8. CASE due
  <2>1. <<"messages", id>> \in new /\ "messages" \in DOMAIN values
    BY <1>8
  <2>2. blob(<<"messages", id>>).present = TRUE
    BY <2>1
  <2>3. versions["messages"] = id
    BY <1>8
  <2> HIDE DEF new, blob, values
  <2> QED BY <1>1, <1>2, <1>3, <1>5, <1>7, <1>8, <2>1, <2>2, <2>3
          DEF Snap, BlobsTyped, blob
<1>9. CASE ~due
  <2>1. "messages" \notin DOMAIN values
    BY <1>9
  <2>2. <<"messages", id>> \in new => blob(<<"messages", id>>).present = FALSE
    BY <2>1
  <2> HIDE DEF new, blob, values
  <2> QED BY <1>1, <1>2, <1>5, <1>6, <1>7, <1>9, <2>2 DEF Snap, BlobsTyped, blob
<1> QED BY <1>8, <1>9

\* The chain condition of one checkpoint.
Linked(stored, kept, id) ==
    /\ IF Snap(kept, id)
       THEN stored[id].meta.counter = ZeroCounter /\ stored[id].versions["messages"] = id
       ELSE /\ stored[id].parent \in DOMAIN stored
            /\ stored[id].meta.counter = Advance(stored[stored[id].parent].meta.counter,
                                                 "messages" \in stored[id].meta.updated)
    /\ SnapshotFrequency > 0 =>
         /\ stored[id].meta.counter.updates < SnapshotFrequency
         /\ stored[id].meta.counter.supersteps < MaxSupersteps

\* CounterChain says that every stored checkpoint is linked.
LEMMA ChainIsLinked ==
    /\ CounterChain <=> \A id \in DOMAIN records[T] : Linked(records[T], blobs[T], id)
    /\ CounterChain' <=> \A id \in DOMAIN records'[T] : Linked(records'[T], blobs'[T], id)
BY DEF CounterChain, Linked, SnapshotAt, Snap

\* A checkpoint stored with a forced snapshot, or under a stored parent with
\* the parent's counter, extends the chain.
LEMMA StoreChain ==
    ASSUME CounterInv,
           NEW source, NEW parent \in 0..clock, NEW machine, NEW tasks \in Plans \cup {<<>>},
           NEW prev \in Counter, NEW updated \in SUBSET Channels, NEW overwritten, NEW force,
           Persist(source, parent, machine, tasks, prev, updated, overwritten, force),
           \/ force
           \/ parent \in DOMAIN records[T] /\ prev = records[T][parent].meta.counter
    PROVE  /\ BlobsTyped' /\ CounterChain'
           /\ Stored(parent, tasks, updated, NextCounter(prev, updated, overwritten, force))
<1> DEFINE next == NextCounter(prev, updated, overwritten, force)
           due == Due(prev, updated, overwritten, force)
<1>1. /\ Shape /\ RecordsTyped /\ BlobsTyped /\ clock \in 0..MaxId /\ MaxId \in Nat
      /\ T \in Threads
  BY GraphAssumption, MaxIdAssumption DEF CounterInv, SessionInv, TypeOK
<1>2. Stored(parent, tasks, updated, next)
  BY <1>1, PersistFacts
<1>3. /\ Snap(blobs'[T], clock') <=> due
      /\ Snap(blobs'[T], clock') => records'[T][clock'].versions["messages"] = clock'
      /\ \A id \in DOMAIN records[T] : Snap(blobs'[T], id) <=> Snap(blobs[T], id)
      /\ BlobsTyped'
  BY <1>1, PersistBlobs
<1>4. /\ due => next = ZeroCounter
      /\ ~due => next = Advance(prev, "messages" \in updated)
      /\ SnapshotFrequency > 0 =>
           next.updates < SnapshotFrequency /\ next.supersteps < MaxSupersteps
  BY BelowCadence
<1>5. ~due => parent \in DOMAIN records[T] /\ prev = records[T][parent].meta.counter
  BY SMTT(30) DEF Due
<1> HIDE DEF next, due
<1>6. \A id \in DOMAIN records[T] : Linked(records'[T], blobs'[T], id)
  <2> SUFFICES ASSUME NEW id \in DOMAIN records[T]
               PROVE  Linked(records'[T], blobs'[T], id)
    OBVIOUS
  <2>1. Linked(records[T], blobs[T], id)
    BY ChainIsLinked DEF CounterInv
  <2>2. records'[T][id] = records[T][id] /\ DOMAIN records[T] \subseteq DOMAIN records'[T]
    BY <1>2 DEF Stored
  <2>3. records[T][id].parent \in DOMAIN records[T] =>
            records'[T][records[T][id].parent] = records[T][records[T][id].parent]
    BY <1>2 DEF Stored
  <2> QED BY <1>3, <2>1, <2>2, <2>3 DEF Linked
<1>7. Linked(records'[T], blobs'[T], clock')
  <2>1. /\ records'[T][clock'].parent = parent
        /\ records'[T][clock'].meta.updated = updated
        /\ records'[T][clock'].meta.counter = next
    BY <1>2 DEF Stored
  <2>2. ~due => parent \in DOMAIN records'[T] /\ records'[T][parent].meta.counter = prev
    BY <1>2, <1>5 DEF Stored
  <2> QED BY <1>3, <1>4, <2>1, <2>2 DEF Linked
<1>8. DOMAIN records'[T] = DOMAIN records[T] \cup {clock'}
  BY <1>2, SMTT(30) DEF Stored
<1> QED BY <1>2, <1>3, <1>6, <1>7, <1>8, ChainIsLinked, SMTT(30) DEF next

\* Nothing changes for a step that leaves the saver's checkpoints alone.
LEMMA SameChain ==
    ASSUME CounterInv, UNCHANGED <<records, blobs, clock>>
    PROVE  BlobsTyped' /\ CounterChain'
BY DEF CounterInv, BlobsTyped, CounterChain, SnapshotAt

\* Prune keeps the parents and the snapshots of the checkpoints it keeps.
LEMMA PruneChain ==
    ASSUME CounterInv, run.pc = "idle" \/ RunLatest, Prune(T), UNCHANGED run
    PROVE  BlobsTyped' /\ CounterChain' /\ RunStored' /\ RunLatest'
<1>1. /\ Shape /\ RecordsTyped /\ HasLatest /\ BlobsTyped /\ clock \in 0..MaxId
      /\ MaxId \in Nat /\ T \in Threads
  BY GraphAssumption, MaxIdAssumption DEF CounterInv, SessionInv, TypeOK
<1>2. /\ clock' = clock
      /\ DOMAIN records'[T] \subseteq DOMAIN records[T]
      /\ \A c \in DOMAIN records'[T] : records'[T][c] = records[T][c]
      /\ \A m \in DOMAIN records[T] :
           (\A id \in DOMAIN records[T] : id <= m) => m \in DOMAIN records'[T]
      /\ \A c \in DOMAIN records'[T] :
           records[T][c].parent \in DOMAIN records[T] =>
               records[T][c].parent \in DOMAIN records'[T]
      /\ DOMAIN blobs'[T] \subseteq DOMAIN blobs[T]
      /\ \A key \in DOMAIN blobs'[T] : blobs'[T][key] = blobs[T][key]
  BY <1>1, PruneFacts
<1>3. \A c \in DOMAIN records'[T], ch \in Channels :
        LET key == <<ch, records[T][c].versions[ch]>> IN
        key \in DOMAIN blobs[T] => key \in DOMAIN blobs'[T] /\ blobs'[T][key] = blobs[T][key]
  BY <1>1, PruneFacts
<1>4. BlobsTyped'
  BY <1>1, <1>2, SMTT(30) DEF BlobsTyped
<1>5. \A id \in DOMAIN records'[T] : Linked(records'[T], blobs'[T], id)
  <2> SUFFICES ASSUME NEW id \in DOMAIN records'[T]
               PROVE  Linked(records'[T], blobs'[T], id)
    OBVIOUS
  <2>1. Linked(records[T], blobs[T], id) /\ records'[T][id] = records[T][id]
    BY <1>2, ChainIsLinked DEF CounterInv
  <2>2. records[T][id].parent \in DOMAIN records[T] =>
            /\ records[T][id].parent \in DOMAIN records'[T]
            /\ records'[T][records[T][id].parent] = records[T][records[T][id].parent]
    BY <1>2
  <2>3. Snap(blobs[T], id) => Snap(blobs'[T], id)
    <3> SUFFICES ASSUME Snap(blobs[T], id) PROVE Snap(blobs'[T], id)
      OBVIOUS
    <3>1. records[T][id].versions["messages"] = id
      BY <2>1 DEF Linked
    <3>2. "messages" \in Channels
      BY GraphAssumption
    <3> QED BY <1>3, <3>1, <3>2 DEF Snap
  <2>4. Snap(blobs'[T], id) => Snap(blobs[T], id)
    BY <1>2 DEF Snap
  <2> QED BY <2>1, <2>2, <2>3, <2>4 DEF Linked
<1>6. RunStored' /\ RunLatest'
  BY <1>2 DEF CounterInv, RunStored, RunLatest
<1> QED BY <1>4, <1>5, <1>6, ChainIsLinked

\* The fields an update or a list of updates writes are channels.
LEMMA KeysAreChannels ==
    /\ \A u : Keys(u) \in SUBSET Channels
    /\ \A us : UpdatedKeys(us) \in SUBSET Channels
BY DEF Keys, UpdatedKeys

\* After a checkpoint is stored, an invocation that moved to it is at the latest.
LEMMA StoredAt ==
    ASSUME NEW parent, NEW tasks, NEW updated, NEW counter,
           Stored(parent, tasks, updated, counter),
           run'.current = clock', run'.counter = counter
    PROVE  RunStored' /\ RunLatest'
BY GraphAssumption, MaxIdAssumption DEF Stored, RunStored, RunLatest, RecordsTyped

\* Steps of an invocation that store a checkpoint.
LEMMA StoringStepCounter ==
    ASSUME CounterInv, InputNew \/ InputPut \/ CommitStep \/ CommitInterrupt
    PROVE  RunStored' /\ RunLatest' /\ BlobsTyped' /\ CounterChain'
<1> USE GraphAssumption, MaxIdAssumption
<1>0. /\ Shape /\ clock \in 0..MaxId /\ MaxId \in Nat /\ T \in Threads
      /\ run.current \in 0..clock /\ run.tasks \in Plans \cup {<<>>} /\ run.counter \in Counter
      /\ ZeroCounter \in Counter /\ 0 \in 0..clock /\ StartTasks \in Plans \cup {<<>>}
  BY DEF CounterInv, SessionInv, TypeOK, Counter, ZeroCounter
<1>1. run.pc \notin {"idle", "new"} =>
          run.current \in DOMAIN records[T] /\ run.counter = records[T][run.current].meta.counter
  BY DEF CounterInv, RunStored
<1>2. CASE InputNew
  <2> DEFINE machine == Apply(run.machine, <<run.input>>)
             updated == Keys(run.input)
  <2>1. /\ Persist("input", 0, machine, StartTasks, ZeroCounter, updated, FALSE, TRUE)
        /\ run' = [run EXCEPT !.pc = "resume", !.machine = machine, !.current = clock',
                     !.tasks = StartTasks, !.counter = ZeroCounter]
    BY <1>2, Zenon DEF InputNew
  <2>2. updated \in SUBSET Channels
    BY KeysAreChannels
  <2> HIDE DEF machine, updated
  <2>3. /\ BlobsTyped' /\ CounterChain'
        /\ Stored(0, StartTasks, updated, NextCounter(ZeroCounter, updated, FALSE, TRUE))
    BY <1>0, <2>1, <2>2, StoreChain, Zenon
  <2>4. NextCounter(ZeroCounter, updated, FALSE, TRUE) = ZeroCounter
    BY DEF NextCounter, Due
  <2>5. run'.current = clock' /\ run'.counter = ZeroCounter
    BY <1>0, <2>1 DEF Shape
  <2> QED BY <2>3, <2>4, <2>5, StoredAt, Zenon
<1>3. CASE InputPut
  <2> DEFINE us == <<run.input>>
             machine == Apply(run.machine, us)
             updated == Keys(run.input)
             overwritten == Overwritten(us)
             counter == NextCounter(run.counter, updated, overwritten, FALSE)
  <2>1. /\ run.pc = "inputPut"
        /\ Persist("input", run.current, machine, run.tasks, run.counter, updated,
                   overwritten, FALSE)
        /\ run' = [run EXCEPT !.pc = "resume", !.machine = machine, !.current = clock',
                     !.counter = counter]
    BY <1>3, Zenon DEF InputPut
  <2>2. updated \in SUBSET Channels
    BY KeysAreChannels
  <2> HIDE DEF us, machine, updated, overwritten
  <2>3. BlobsTyped' /\ CounterChain' /\ Stored(run.current, run.tasks, updated, counter)
    BY <1>0, <1>1, <2>1, <2>2, StoreChain, Zenon
  <2> HIDE DEF counter
  <2>4. run'.current = clock' /\ run'.counter = counter
    BY <1>0, <2>1 DEF Shape
  <2> QED BY <2>3, <2>4, StoredAt
<1>4. CASE CommitStep
  <2> DEFINE us == ResultUpdates
             machine == Apply(ConsumeEphemeral(run.machine), us)
             updated == UpdatedKeys(us)
             overwritten == Overwritten(us)
             counter == NextCounter(run.counter, updated, overwritten, FALSE)
  <2>1. PICK next \in Plans :
          /\ Persist("loop", run.current, machine, next, run.counter, updated,
                     overwritten, FALSE)
          /\ run' = [run EXCEPT !.pc = "loop", !.machine = machine, !.current = clock',
                       !.tasks = next, !.steps = @ + 1, !.results = <<>>,
                       !.counter = counter]
    BY <1>4, ZenonT(30) DEF CommitStep
  <2>2. run.pc = "commit" /\ updated \in SUBSET Channels
    BY <1>4, KeysAreChannels, Zenon DEF CommitStep
  <2> HIDE DEF us, machine, updated, overwritten
  <2>3. BlobsTyped' /\ CounterChain' /\ Stored(run.current, next, updated, counter)
    BY <1>0, <1>1, <2>1, <2>2, StoreChain, ZenonT(30)
  <2> HIDE DEF counter
  <2>4. run'.current = clock' /\ run'.counter = counter
    BY <1>0, <2>1 DEF Shape
  <2> QED BY <2>3, <2>4, StoredAt
<1>5. CASE CommitInterrupt
  <2> DEFINE us == InterruptUpdates
             machine == Apply(run.machine, us)
             updated == UpdatedKeys(us)
             overwritten == Overwritten(us)
             counter == NextCounter(run.counter, updated, overwritten, FALSE)
  <2>1. /\ run.pc = "interrupt"
        /\ Persist("loop", run.current, machine, run.tasks, run.counter, updated,
                   overwritten, FALSE)
        /\ run' = [run EXCEPT !.pc = "return", !.machine = machine, !.current = clock',
                     !.steps = @ + 1, !.results = <<>>, !.counter = counter]
    BY <1>5, Zenon DEF CommitInterrupt
  <2>2. updated \in SUBSET Channels
    BY KeysAreChannels
  <2> HIDE DEF us, machine, updated, overwritten
  <2>3. BlobsTyped' /\ CounterChain' /\ Stored(run.current, run.tasks, updated, counter)
    BY <1>0, <1>1, <2>1, <2>2, StoreChain, Zenon
  <2> HIDE DEF counter
  <2>4. run'.current = clock' /\ run'.counter = counter
    BY <1>0, <2>1 DEF Shape
  <2> QED BY <2>3, <2>4, StoredAt
<1> QED BY <1>2, <1>3, <1>4, <1>5

\* Steps of an invocation that store no checkpoint.
LEMMA QuietStepCounter ==
    ASSUME CounterInv,
           \/ InputWrites \/ ResumeWrite \/ ExecuteTasks \/ TaskPutWrites
           \/ Return \/ RecursionLimitReached \/ ApplyError \/ Abort \/ Crash
    PROVE  RunStored' /\ (RunLatest => RunLatest') /\ BlobsTyped' /\ CounterChain'
<1>1. UNCHANGED <<records, blobs, clock>>
  BY Zenon DEF InputWrites, ResumeWrite, ExecuteTasks, TaskPutWrites, Return,
         RecursionLimitReached, ApplyError, Abort, Crash, Fail
<1>2. BlobsTyped' /\ CounterChain'
  BY <1>1, SameChain
<1>3. Shape
  BY SMTT(30) DEF CounterInv, SessionInv
<1>4. CASE Return \/ RecursionLimitReached \/ ApplyError \/ Abort \/ Crash
  BY <1>4, <1>2 DEF Return, RecursionLimitReached, ApplyError, Abort, Crash, Fail, Idle,
                    RunStored, RunLatest
<1>5. CASE InputWrites \/ ResumeWrite \/ TaskPutWrites
  <2>1. /\ run.pc \notin {"idle", "new"}
        /\ run'.current = run.current /\ run'.counter = run.counter
    BY <1>3, <1>5, Zenon DEF InputWrites, ResumeWrite, TaskPutWrites, Shape
  <2> QED BY <1>1, <1>2, <2>1 DEF CounterInv, RunStored, RunLatest
<1>6. CASE ExecuteTasks
  <2>1. /\ run.pc = "loop"
        /\ \E pc, results, todo :
             run' = [run EXCEPT !.pc = pc, !.results = results, !.todo = todo, !.resume = FALSE]
    BY <1>6, Zenon DEF ExecuteTasks
  <2>2. run'.current = run.current /\ run'.counter = run.counter
    BY <1>3, <2>1 DEF Shape
  <2> QED BY <1>1, <1>2, <2>1, <2>2 DEF CounterInv, RunStored, RunLatest
<1> QED BY <1>4, <1>5, <1>6

\* An invocation begins at a stored checkpoint, and at the latest one if none
\* is addressed.
LEMMA BeginCounter ==
    ASSUME CounterInv, NEW id \in DOMAIN records[T] \cup {0}, NEW input, NEW resume,
           BeginInvoke(id, input, resume)
    PROVE  RunStored' /\ (id = 0 => RunLatest') /\ BlobsTyped' /\ CounterChain'
<1> USE GraphAssumption, MaxIdAssumption
<1> DEFINE start == IF Retain /\ id = 0 /\ session.valid THEN session
                    ELSE Restore(IF id = 0 THEN Latest(T) ELSE id)
<1>0. /\ Shape /\ RecordsTyped /\ HasLatest /\ clock \in 0..MaxId /\ MaxId \in Nat
      /\ T \in Threads
  BY DEF CounterInv, SessionInv, TypeOK
<1>1. /\ UNCHANGED <<records, blobs, clock>> /\ run.pc = "idle"
      /\ run'.current = start.current /\ run'.counter = start.counter
      /\ start.current = 0 => run'.pc = "new"
  BY SMTT(30) DEF BeginInvoke, Idle
<1>2. start.current # 0 =>
        start.current \in DOMAIN records[T]
          /\ start.counter = records[T][start.current].meta.counter
  BY <1>0, <1>1, RestoreFacts, SMTT(30) DEF CounterInv, SessionInv, SessionAtLatest
<1>3. id = 0 /\ start.current # 0 => \A c \in DOMAIN records[T] : c <= start.current
  BY <1>0, <1>1, RestoreFacts, LatestFacts, SMTT(30) DEF CounterInv, SessionInv, SessionAtLatest
<1> HIDE DEF start
<1>4. RunStored' /\ (id = 0 => RunLatest')
  BY <1>1, <1>2, <1>3 DEF RunStored, RunLatest
<1> QED BY <1>1, <1>4, SameChain

\* Cancel and UpdateState leave no invocation in flight.
LEMMA EditCounter ==
    ASSUME CounterInv,
           \/ \E input : Cancel(input)
           \/ \E id, input : UpdateState(id, input)
    PROVE  RunStored' /\ RunLatest' /\ BlobsTyped' /\ CounterChain'
<1> USE GraphAssumption, MaxIdAssumption
<1>0. /\ Shape /\ RecordsTyped /\ HasLatest /\ clock \in 0..MaxId /\ MaxId \in Nat
      /\ T \in Threads
  BY DEF CounterInv, SessionInv, TypeOK
<1>1. ASSUME NEW input, Cancel(input)
      PROVE  BlobsTyped' /\ CounterChain' /\ run.pc = "idle" /\ run' = run
  <2> DEFINE start == Restore(Latest(T))
             machine == Apply(start.machine, <<input>>)
             updated == Keys(input)
             first == start.current = 0
  <2>1. /\ run.pc = "idle" /\ run' = run
        /\ Persist("cancel", start.current, machine, <<>>, start.counter, updated, FALSE, first)
    BY <1>1, ZenonT(30) DEF Cancel
  <2>2. /\ start.current \in 0..clock /\ start.counter \in Counter
        /\ updated \in SUBSET Channels
        /\ start.current # 0 => /\ start.current \in DOMAIN records[T]
                                /\ start.counter = records[T][start.current].meta.counter
    BY <1>0, RestoreFacts, KeysAreChannels
  <2>3. first \/ start.current # 0
    OBVIOUS
  <2> HIDE DEF start, machine, updated, first
  <2>4. BlobsTyped' /\ CounterChain'
    BY <1>0, <2>1, <2>2, <2>3, StoreChain, ZenonT(30)
  <2> QED BY <2>1, <2>4
<1>2. ASSUME NEW id, NEW input, UpdateState(id, input)
      PROVE  BlobsTyped' /\ CounterChain' /\ run.pc = "idle" /\ run' = run
  <2> DEFINE start == Restore(IF id = 0 THEN Latest(T) ELSE id)
             machine == Apply(start.machine, <<input>>)
             updated == Keys(input)
             overwritten == Overwritten(<<input>>)
  <2>1. /\ run.pc = "idle" /\ run' = run
        /\ Persist("update", start.current, machine, start.tasks, start.counter, updated,
                   overwritten, TRUE)
    BY <1>2, ZenonT(30) DEF UpdateState
  <2>2. /\ start.current \in 0..clock /\ start.counter \in Counter
        /\ start.tasks \in Plans \cup {<<>>} /\ updated \in SUBSET Channels
    BY <1>0, RestoreFacts, KeysAreChannels
  <2> HIDE DEF start, machine, updated, overwritten
  <2>3. BlobsTyped' /\ CounterChain'
    BY <1>0, <2>1, <2>2, StoreChain, ZenonT(30)
  <2> QED BY <2>1, <2>3
<1>3. BlobsTyped' /\ CounterChain' /\ run.pc = "idle" /\ run' = run
  BY <1>1, <1>2, Zenon
<1> QED BY <1>3 DEF RunStored, RunLatest

\* Every step of one owner keeps both parts of the invariant.
LEMMA NextCounterInv ==
    ASSUME CounterInv, RunLatest, [Next]_vars
    PROVE  CounterInv' /\ RunLatest'
<1>1. SessionInv'
  BY NextSession DEF CounterInv
<1>2. CASE RunStep \/ Abort \/ Crash
  BY <1>1, <1>2, StoringStepCounter, QuietStepCounter DEF RunStep, CounterInv
<1>3. ASSUME NEW input, NEW resume, BeginInvoke(0, input, resume)
      PROVE  CounterInv' /\ RunLatest'
  BY <1>1, <1>3, BeginCounter DEF CounterInv
<1>4. CASE (\E input : Cancel(input)) \/ \E id, input : UpdateState(id, input)
  BY <1>1, <1>4, EditCounter DEF CounterInv
<1>5. CASE PruneThread
  BY <1>1, <1>5, PruneChain, SMTT(30) DEF PruneThread, graphVars, CounterInv
<1>6. CASE UNCHANGED vars
  BY <1>1, <1>6, SameChain DEF vars, CounterInv, RunStored, RunLatest
<1> QED BY <1>2, <1>3, <1>4, <1>5, <1>6, Zenon DEF Next, Call, Edit

\* With invocations of earlier checkpoints, every step keeps the first part.
LEMMA NextBranchCounter ==
    ASSUME CounterInv, [NextBranch]_vars
    PROVE  CounterInv'
<1>0. [Next \/ Fork]_vars
  BY Zenon DEF NextBranch, Next
<1>1. SessionInv'
  BY <1>0, NextSession DEF CounterInv
<1>2. CASE RunStep \/ Abort \/ Crash
  BY <1>1, <1>2, StoringStepCounter, QuietStepCounter, SMTT(30) DEF RunStep, CounterInv
<1>3. ASSUME NEW id \in DOMAIN records[T] \cup {0}, NEW input, NEW resume,
             BeginInvoke(id, input, resume)
      PROVE  CounterInv'
  BY <1>1, <1>3, BeginCounter DEF CounterInv
<1>4. CASE (\E input : Cancel(input)) \/ \E id, input : UpdateState(id, input)
  BY <1>1, <1>4, EditCounter DEF CounterInv
<1>5. CASE run.pc = "idle" /\ PruneThread
  BY <1>1, <1>5, PruneChain DEF PruneThread, graphVars, CounterInv
<1>6. CASE UNCHANGED vars
  BY <1>1, <1>6, SameChain DEF vars, CounterInv, RunStored
<1>7. CASE Call \/ Fork
  BY <1>3, <1>4, <1>7, Zenon DEF Call, Fork
<1> QED BY <1>2, <1>4, <1>5, <1>6, <1>7, Zenon DEF NextBranch, Edit

\* With one owner, every checkpoint's snapshot counter is zero with a snapshot
\* and otherwise one step after that of its parent, which Prune never removes
\* before it; if snapshots are taken at all, the cadence bounds it, however
\* the thread got there.
THEOREM CountersSafe == Spec => []CounterChain
<1>1. CounterInv => CounterChain
  BY DEF CounterInv
<1> QED BY <1>1, InitCounter, NextCounterInv, PTL DEF Spec

\* The same with invocations of earlier checkpoints, if Prune waits for them.
THEOREM BranchCountersSafe == SpecBranch => []CounterChain
<1>1. CounterInv => CounterChain
  BY DEF CounterInv
<1> QED BY <1>1, InitCounter, NextBranchCounter, PTL DEF SpecBranch
-----------------------------------------------------------------------------
(* What the counters count *)

\* Window satisfies its recursive definition at every checkpoint.
LEMMA WindowUnfolds ==
    ASSUME RecordsTyped, clock \in 0..MaxId
    PROVE  \A c \in 0..MaxId :
             Window(c) = IF ~Has(T, c) \/ SnapshotAt(c) THEN {}
                         ELSE {c} \cup Window(records[T][c].parent)
<1> USE MaxIdAssumption
<1> DEFINE par(c) == records[T][c].parent
           W(c, past) == IF ~Has(T, c) \/ SnapshotAt(c) THEN {} ELSE {c} \cup past
           Def(n, f) == f = [c \in 0..n |-> W(c, f[par(c)])]
           S == {n \in Nat : \E f : Def(n, f)}
<1>0. \A c : Has(T, c) => c \in Nat /\ par(c) \in Nat /\ par(c) < c
  BY DEF RecordsTyped, Has
<1>1. \A c, p, q : (Has(T, c) => p = q) => W(c, p) = W(c, q)
  OBVIOUS
<1>1a. \A c : Window(c) = (CHOOSE f : Def(MaxId, f))[c]
  BY DEF Window
<1>1b. \A c, p : W(c, p) = IF ~Has(T, c) \/ SnapshotAt(c) THEN {} ELSE {c} \cup p
  OBVIOUS
<1> HIDE DEF W, par
<1>2. \A n \in Nat : (n = 0 \/ n - 1 \in S) => n \in S
  <2> SUFFICES ASSUME NEW n \in Nat, n = 0 \/ n - 1 \in S PROVE \E f : Def(n, f)
    OBVIOUS
  <2>1. PICK g : n # 0 => Def(n - 1, g)
    OBVIOUS
  <2> DEFINE f == [c \in 0..n |-> IF c = n THEN W(n, g[par(n)]) ELSE g[c]]
  <2>2. \A c \in 0..n : Has(T, c) => f[par(c)] = g[par(c)]
    BY <1>0
  <2>3. \A c \in 0..n : f[c] = W(c, f[par(c)])
    <3> SUFFICES ASSUME NEW c \in 0..n PROVE f[c] = W(c, f[par(c)])
      OBVIOUS
    <3>1. W(c, f[par(c)]) = W(c, g[par(c)])
      BY <1>1, <2>2
    <3>2. c # n => g[c] = W(c, g[par(c)])
      BY <2>1
    <3> QED BY <3>1, <3>2
  <2>4. f = [c \in 0..n |-> W(c, f[par(c)])]
    BY <2>3, Zenon
  <2> QED BY <2>4, Zenon
<1>3. MaxId \in S
  <2>1. \A c \in 0..MaxId : (\A d \in 0..MaxId : d < c => d \in S) => c \in S
    <3> HIDE DEF S
    <3> QED BY <1>2
  <2> HIDE DEF S
  <2> QED BY <2>1, UpTo
<1>4. PICK f : Def(MaxId, f)
  BY <1>3
<1> DEFINE H == CHOOSE h : Def(MaxId, h)
<1>5. Def(MaxId, H)
  BY <1>4, Zenon
<1> HIDE DEF H
<1>6. \A c \in 0..MaxId : H[c] = W(c, H[par(c)])
  BY <1>5
<1>7. \A c : Window(c) = H[c]
  BY <1>1a DEF H
<1> QED BY <1>1b, <1>6, <1>7 DEF par

\* The counter a checkpoint stores counts the checkpoints of its window and
\* those of them that update the delta field.
Counted(c) ==
    /\ Window(c) \in SUBSET (1..c)
    /\ IsFiniteSet(Window(c))
    /\ records[T][c].meta.counter =
         [updates |-> Cardinality({d \in Window(c) : "messages" \in records[T][d].meta.updated}),
          supersteps |-> Cardinality(Window(c))]

\* By induction along the chain of parents.
LEMMA ChainCounts ==
    ASSUME RecordsTyped, CounterChain, clock \in 0..MaxId
    PROVE  \A c \in DOMAIN records[T] : Counted(c)
<1> USE MaxIdAssumption
<1> DEFINE S == {c \in 0..MaxId : c \in DOMAIN records[T] => Counted(c)}
<1>1. ASSUME NEW c \in 0..MaxId, \A d \in 0..MaxId : d < c => d \in S
      PROVE  c \in S
  <2> SUFFICES ASSUME c \in DOMAIN records[T] PROVE Counted(c)
    OBVIOUS
  <2>1. c \in Nat /\ c > 0 /\ records[T][c].parent \in 0..(c - 1)
    BY DEF RecordsTyped
  <2> DEFINE p == records[T][c].parent
             written(d) == "messages" \in records[T][d].meta.updated
             U(d) == {x \in Window(d) : written(x)}
             counter(d) == records[T][d].meta.counter
  <2>2. CASE SnapshotAt(c)
    <3>1. counter(c) = ZeroCounter
      BY <2>2 DEF CounterChain
    <3>2. Window(c) = {}
      BY <2>2, WindowUnfolds
    <3>3. U(c) = {}
      BY <3>2
    <3> QED BY <2>1, <3>1, <3>2, <3>3, FS_EmptySet, SMTT(30) DEF Counted, ZeroCounter
  <2>3. CASE ~SnapshotAt(c)
    <3>1. p \in DOMAIN records[T] /\ counter(c) = Advance(counter(p), written(c))
      BY <2>3 DEF CounterChain
    <3>2. Window(c) = {c} \cup Window(p)
      BY <2>1, <2>3, WindowUnfolds, SMTT(30) DEF Has
    <3>3. Counted(p)
      BY <1>1, <2>1, <3>1, SMTT(30)
    <3>4. /\ Window(p) \in SUBSET (1..p) /\ IsFiniteSet(Window(p))
          /\ counter(p) = [updates |-> Cardinality(U(p)), supersteps |-> Cardinality(Window(p))]
      BY <3>3, SMTT(30) DEF Counted
    <3>5. c \notin Window(p) /\ Window(c) \in SUBSET (1..c)
      BY <2>1, <3>2, <3>4, SMTT(30)
    <3>6. IsFiniteSet(U(p)) /\ c \notin U(p)
      BY <3>4, <3>5, FS_Subset, SMTT(30)
    <3>7. U(c) = IF written(c) THEN U(p) \cup {c} ELSE U(p)
      BY <3>2
    <3>8. Window(c) = Window(p) \cup {c}
      BY <3>2
    <3> HIDE DEF U, written, p, counter
    <3>9. IsFiniteSet(Window(c)) /\ Cardinality(Window(c)) = Cardinality(Window(p)) + 1
      BY <3>4, <3>5, <3>8, FS_AddElement, SMTT(30)
    <3>10. Cardinality(U(c)) = IF written(c) THEN Cardinality(U(p)) + 1 ELSE Cardinality(U(p))
      BY <3>6, <3>7, FS_AddElement, SMTT(30)
    <3>11. counter(c) = [updates |-> Cardinality(U(c)), supersteps |-> Cardinality(Window(c))]
      BY <3>1, <3>4, <3>9, <3>10, SMTT(30) DEF Advance
    <3> QED BY <3>5, <3>9, <3>11, SMTT(30) DEF Counted, U, written, counter
  <2> QED BY <2>2, <2>3
<1>2. \A c \in 0..MaxId : c \in S
  <2> HIDE DEF S
  <2> QED BY <1>1, UpTo
<1> QED BY <1>2 DEF RecordsTyped

\* The chain condition gives every counter its meaning.
LEMMA CountersAreReal == CounterInv => CountersExact
<1> SUFFICES ASSUME CounterInv PROVE CountersExact
  OBVIOUS
<1>1. \A c \in DOMAIN records[T] : Counted(c)
  BY ChainCounts DEF CounterInv, SessionInv, TypeOK
<1> QED BY <1>1 DEF CountersExact, Counted

\* With one owner, the counter a checkpoint stores is the number of
\* checkpoints, and of updates of the delta field, since the snapshot its
\* restore starts from.
THEOREM CountersReal == Spec => []CountersExact
BY InitCounter, NextCounterInv, CountersAreReal, PTL DEF Spec

\* The same with invocations of earlier checkpoints, if Prune waits for them.
THEOREM BranchCountersReal == SpecBranch => []CountersExact
BY InitCounter, NextBranchCounter, CountersAreReal, PTL DEF SpecBranch
-----------------------------------------------------------------------------
(* What stored checkpoints reconstruct to *)

\* The pending writes are the functions EXCEPT needs.
WritesShape == writes = [th \in Threads |-> [id \in Ids |-> writes[th][id]]]

\* Checkpoint c has the same record, values and pending writes after a step.
Untouched(c) ==
    /\ records'[T][c] = records[T][c]
    /\ writes'[T][c] = writes[T][c]
    /\ \A ch \in Channels :
         LET key == <<ch, records[T][c].versions[ch]>> IN
         /\ key \in DOMAIN blobs[T] <=> key \in DOMAIN blobs'[T]
         /\ key \in DOMAIN blobs[T] => blobs'[T][key] = blobs[T][key]

\* A checkpoint reconstructs as before if its values are the same and the
\* ancestors its walk can reach are untouched.
LEMMA RebuildSame ==
    ASSUME RecordsTyped, RecordsTyped', clock \in 0..MaxId, clock' \in 0..MaxId,
           NEW id \in DOMAIN records[T] \cap DOMAIN records'[T],
           records'[T][id] = records[T][id],
           \A ch \in Channels :
               LET key == <<ch, records[T][id].versions[ch]>> IN
               /\ key \in DOMAIN blobs[T] <=> key \in DOMAIN blobs'[T]
               /\ key \in DOMAIN blobs[T] => blobs'[T][key] = blobs[T][key],
           NEW S \in SUBSET (0..MaxId), records[T][id].parent \in S,
           \A c \in S : c \in DOMAIN records[T] <=> c \in DOMAIN records'[T],
           \A c \in S \cap DOMAIN records[T] : records[T][c].parent \in S /\ Untouched(c)
    PROVE  Rebuild(id)' = Rebuild(id)
<1> USE MaxIdAssumption, GraphAssumption
<1>1. Backward(records[T])
  <2> SUFFICES ASSUME NEW c \in DOMAIN records[T]
               PROVE  records[T][c].parent \in Nat /\ records[T][c].parent < c
    BY Zenon DEF Backward
  <2>1. c \in 1..clock /\ records[T][c].parent \in 0..(c - 1)
    BY SMTT(30) DEF RecordsTyped
  <2> QED BY <2>1, SMTT(30)
<1>3. Backward(records'[T])
  <2> SUFFICES ASSUME NEW c \in DOMAIN records'[T]
               PROVE  records'[T][c].parent \in Nat /\ records'[T][c].parent < c
    BY Zenon DEF Backward
  <2>1. c \in 1..clock' /\ records'[T][c].parent \in 0..(c - 1)
    BY SMTT(30) DEF RecordsTyped
  <2> QED BY <2>1, SMTT(30)
<1>2. ASSUME NEW ch \in Channels
      PROVE  \A c \in S : History(records[T], blobs[T], writes[T], ch)[c]
                            = History(records'[T], blobs'[T], writes'[T], ch)[c]
  <2> DEFINE R == records[T]
             R2 == records'[T]
             B == blobs[T]
             B2 == blobs'[T]
             W == writes[T]
             W2 == writes'[T]
  <2>1. ASSUME NEW c \in S \cap DOMAIN R
        PROVE  R[c].parent \in S /\ Alike(R, B, W, R2, B2, W2, ch, c)
    <3>1. R[c].parent \in S /\ Untouched(c)
      BY ZenonT(30)
    <3>2. R2[c] = R[c] /\ W2[c] = W[c]
      BY ONLY <3>1 DEF Untouched
    <3>3. LET key == <<ch, R[c].versions[ch]>> IN
          /\ key \in DOMAIN B <=> key \in DOMAIN B2
          /\ key \in DOMAIN B => B2[key] = B[key]
      BY <3>1, Zenon DEF Untouched
    <3> HIDE DEF R, R2, B, B2, W, W2
    <3> QED BY ONLY <3>1, <3>2, <3>3, SMTT(30) DEF Alike, Resolves
  <2>2. \A c \in S : c \in DOMAIN R <=> c \in DOMAIN R2
    BY ZenonT(30)
  <2>3. Backward(R) /\ Backward(R2)
    BY <1>1, <1>3, Zenon
  <2>4. SUFFICES \A c \in S : History(R, B, W, ch)[c] = History(R2, B2, W2, ch)[c]
    BY ZenonT(30)
  <2>5. S \in SUBSET (0..MaxId)
    BY Zenon
  <2> HIDE DEF R, R2, B, B2, W, W2
  <2>6. AlikeOn(S, R, B, W, R2, B2, W2, ch)
    BY ONLY <2>1, <2>2, <2>3, <2>5, Zenon DEF AlikeOn
  <2> QED BY ONLY <2>6, HistoriesAgree
<1>4. \A c \in S : History(records[T], blobs[T], writes[T], "messages")[c]
                     = History(records'[T], blobs'[T], writes'[T], "messages")[c]
  <2>1. "messages" \in Channels
    BY GraphAssumption
  <2> QED BY ONLY <1>2, <2>1, ZenonT(30)
<1>5. GetDeltaChannelHistory(T, id, "messages")' = GetDeltaChannelHistory(T, id, "messages")
  BY <1>4, Zenon DEF GetDeltaChannelHistory
<1>6. \A ch \in Channels : /\ Present(T, id, ch)' <=> Present(T, id, ch)
                           /\ Present(T, id, ch) => ChannelValue(T, id, ch)' = ChannelValue(T, id, ch)
  BY ZenonT(30) DEF Present, ChannelValue, Resolves
<1> QED BY <1>5, <1>6, ZenonT(30) DEF Rebuild

\* No step changes what a checkpoint that stays reconstructs to.
Rebuilt == \A id \in DOMAIN records[T] \cap DOMAIN records'[T] : Rebuild(id)' = Rebuild(id)

\* A new checkpoint is not on the walk of an older one.
LEMMA PersistRebuilt ==
    ASSUME RecordsTyped, RecordsTyped', Shape, clock \in 0..MaxId,
           NEW source, NEW parent, NEW machine, NEW tasks, NEW prev,
           NEW updated, NEW overwritten, NEW force,
           Persist(source, parent, machine, tasks, prev, updated, overwritten, force),
           writes' = writes
    PROVE  Rebuilt
<1> USE MaxIdAssumption, GraphAssumption
<1> DEFINE snapshot == IF Due(prev, updated, overwritten, force) THEN {"messages"} ELSE {}
           stored == snapshot \cup {ch \in {"status"} : machine[ch] # Absent}
           values == [ch \in stored |-> machine[ch]]
           new == (updated \cup snapshot) \X {clock'}
           blob(key) == IF key \notin new THEN blobs[T][key]
                        ELSE IF key[1] \in DOMAIN values
                        THEN [present |-> TRUE, value |-> values[key[1]]]
                        ELSE [present |-> FALSE, value |-> Absent]
<1>1. blobs' = [blobs EXCEPT ![T] = [key \in DOMAIN blobs[T] \cup new |-> blob(key)]]
  BY DEF Persist, Put
<1>2. \A ch, version : version # clock' => <<ch, version>> \notin new
  <2> HIDE DEF snapshot
  <2> QED OBVIOUS
<1> HIDE DEF new, values
<1>3. blobs'[T] = [key \in DOMAIN blobs[T] \cup new |-> blob(key)]
  BY <1>1, Zenon DEF Shape
<1>4. \A ch, version : version # clock' =>
        /\ <<ch, version>> \in DOMAIN blobs[T] <=> <<ch, version>> \in DOMAIN blobs'[T]
        /\ <<ch, version>> \in DOMAIN blobs[T] => blobs'[T][<<ch, version>>] = blobs[T][<<ch, version>>]
  BY <1>2, <1>3, ZenonT(30)
<1> HIDE DEF snapshot, stored, blob
<1>5. clock' = clock + 1 /\ clock' \in 0..MaxId
  BY DEF Persist, NewID
<1>5a. PICK record : records' = [records EXCEPT ![T] =
           [c \in DOMAIN records[T] \cup {clock'} |-> IF c = clock' THEN record ELSE records[T][c]]]
  BY Zenon DEF Persist, Put
<1>5b. records'[T] =
           [c \in DOMAIN records[T] \cup {clock'} |-> IF c = clock' THEN record ELSE records[T][c]]
  BY <1>5a, ZenonT(30) DEF Shape
<1>5c. /\ DOMAIN records'[T] = DOMAIN records[T] \cup {clock'}
       /\ \A c \in DOMAIN records[T] : c # clock'
       /\ \A c \in DOMAIN records[T] : records'[T][c] = records[T][c]
  <2>1. \A c \in DOMAIN records[T] : c \in 1..clock
    BY DEF RecordsTyped
  <2>2. \A c \in DOMAIN records[T] : c # clock'
    BY <1>5, <2>1, SMTT(30)
  <2> QED BY ONLY <1>5b, <2>2, ZenonT(30)
<1>6. \A c \in DOMAIN records[T] : Untouched(c)
  <2> SUFFICES ASSUME NEW c \in DOMAIN records[T] PROVE Untouched(c)
    OBVIOUS
  <2>1. records'[T][c] = records[T][c]
    BY <1>5c
  <2>2. \A ch \in Channels : records[T][c].versions[ch] # clock'
    <3>1. c \in 1..clock /\ records[T][c].versions \in [Channels -> 0..c]
      BY DEF RecordsTyped
    <3> QED BY <1>5, <3>1, SMTT(30)
  <2> QED BY <1>4, <2>1, <2>2 DEF Untouched
<1> SUFFICES ASSUME NEW id \in DOMAIN records[T] \cap DOMAIN records'[T]
             PROVE  Rebuild(id)' = Rebuild(id)
  BY Zenon DEF Rebuilt
<1> DEFINE S == 0..clock
<1>7. /\ S \in SUBSET (0..MaxId) /\ records[T][id].parent \in S
      /\ \A c \in S : c \in DOMAIN records[T] <=> c \in DOMAIN records'[T]
      /\ \A c \in S \cap DOMAIN records[T] : records[T][c].parent \in S /\ Untouched(c)
  BY <1>5, <1>5c, <1>6, SMTT(30) DEF RecordsTyped
<1>8. Untouched(id)
  BY <1>6, Zenon
<1> HIDE DEF S
<1> QED BY <1>5, <1>7, <1>8, RebuildSame, Zenon DEF Untouched

\* Pending writes go to the latest checkpoint, which is on no walk yet.
LEMMA PutWritesRebuilt ==
    ASSUME RecordsTyped, WritesShape, clock \in 0..MaxId, NEW current, NEW slotted,
           current \in DOMAIN records[T], \A c \in DOMAIN records[T] : c <= current,
           PutWrites(T, current, slotted), UNCHANGED <<records, blobs, clock>>
    PROVE  Rebuilt /\ WritesShape'
<1> USE MaxIdAssumption, GraphAssumption
<1> DEFINE merged == [s \in DOMAIN writes[T][current] \cup DOMAIN slotted |->
                        IF s \in DOMAIN writes[T][current] /\ (s \notin DOMAIN slotted \/ s[2] >= 0)
                        THEN writes[T][current][s] ELSE slotted[s]]
<1>1. writes' = [writes EXCEPT ![T][current] = merged]
  BY Zenon DEF PutWrites
<1> HIDE DEF merged
<1>2. WritesShape'
  BY <1>1, Zenon DEF WritesShape
<1>3. \A c \in Ids \ {current} : writes'[T][c] = writes[T][c]
  BY <1>1, SMTT(30) DEF WritesShape
<1>4. RecordsTyped'
  BY DEF RecordsTyped
<1>5. \A c \in DOMAIN records[T] : c \in Nat /\ c \in Ids /\ records[T][c].parent \in 0..(c - 1)
  BY SMTT(30) DEF RecordsTyped, Ids
<1> SUFFICES ASSUME NEW id \in DOMAIN records[T] PROVE Rebuild(id)' = Rebuild(id)
  BY <1>2, SMTT(30) DEF Rebuilt
<1> DEFINE S == 0..(current - 1)
<1>6. \A c \in S \cap DOMAIN records[T] : Untouched(c)
  BY <1>3, <1>5, SMTT(30) DEF Untouched
<1>7. /\ S \in SUBSET (0..MaxId) /\ records[T][id].parent \in S
      /\ \A c \in S \cap DOMAIN records[T] : records[T][c].parent \in S
  BY <1>5, SMTT(30) DEF Ids
<1> HIDE DEF S
<1>8. /\ id \in DOMAIN records[T] \cap DOMAIN records'[T]
      /\ records'[T][id] = records[T][id]
      /\ \A c \in S : c \in DOMAIN records[T] <=> c \in DOMAIN records'[T]
      /\ clock' \in 0..MaxId
  BY Zenon
<1>9. \A ch \in Channels :
        LET key == <<ch, records[T][id].versions[ch]>> IN
        /\ key \in DOMAIN blobs[T] <=> key \in DOMAIN blobs'[T]
        /\ key \in DOMAIN blobs[T] => blobs'[T][key] = blobs[T][key]
  BY Zenon
<1>10. \A c \in S \cap DOMAIN records[T] : records[T][c].parent \in S /\ Untouched(c)
  BY <1>6, <1>7, Zenon
<1> QED BY <1>4, <1>7, <1>8, <1>9, <1>10, RebuildSame, ZenonT(30)

\* Prune keeps a checkpoint with everything its walk can reach.
LEMMA PruneRebuilt ==
    ASSUME CounterInv, WritesShape, Prune(T), UNCHANGED run
    PROVE  Rebuilt /\ WritesShape'
<1> USE MaxIdAssumption, GraphAssumption
<1> DEFINE keep == Ancestry(T, Latest(T))
           pending == [id \in Ids |-> IF Has(T, id) /\ id \notin keep THEN None ELSE writes[T][id]]
<1>1. /\ Shape /\ RecordsTyped /\ HasLatest /\ clock \in 0..MaxId
  BY SMTT(30) DEF CounterInv, SessionInv, TypeOK
<1>2. /\ clock' = clock
      /\ DOMAIN records'[T] \subseteq DOMAIN records[T]
      /\ \A c \in DOMAIN records'[T] : records'[T][c] = records[T][c]
      /\ \A c \in DOMAIN records'[T] :
           records[T][c].parent \in DOMAIN records[T] =>
               records[T][c].parent \in DOMAIN records'[T]
      /\ \A c \in DOMAIN records'[T], ch \in Channels :
           LET key == <<ch, records[T][c].versions[ch]>> IN
           key \in DOMAIN blobs[T] =>
               key \in DOMAIN blobs'[T] /\ blobs'[T][key] = blobs[T][key]
      /\ DOMAIN blobs'[T] \subseteq DOMAIN blobs[T]
      /\ RecordsTyped'
  BY <1>1, PruneFacts, ZenonT(30)
<1>3. writes' = [writes EXCEPT ![T] = pending] /\ records' = [records EXCEPT ![T] = [c \in keep |-> records[T][c]]]
  BY SMTT(30) DEF Prune
<1> HIDE DEF keep
<1>4. DOMAIN records'[T] = keep
  BY <1>1, <1>3 DEF Shape
<1>5. pending = [id \in Ids |-> pending[id]] /\ \A c \in keep : c \in Ids => pending[c] = writes[T][c]
  BY Zenon
<1> HIDE DEF pending
<1>6. writes' = [th \in Threads |-> IF th = T THEN pending ELSE writes[th]]
  BY <1>3 DEF WritesShape
<1>7. WritesShape'
  BY <1>5, <1>6, SMTT(30) DEF WritesShape
<1>8. \A c \in DOMAIN records'[T] : Untouched(c)
  <2> SUFFICES ASSUME NEW c \in DOMAIN records'[T] PROVE Untouched(c)
    BY Zenon
  <2>1. c \in Ids
    BY <1>1, <1>2 DEF RecordsTyped, Ids
  <2>2. writes'[T][c] = writes[T][c]
    BY <1>4, <1>5, <1>6, <2>1, SMTT(30)
  <2> QED BY <1>2, <2>2, Zenon DEF Untouched
<1> SUFFICES ASSUME NEW id \in DOMAIN records[T] \cap DOMAIN records'[T]
             PROVE  Rebuild(id)' = Rebuild(id)
  BY <1>7, Zenon DEF Rebuilt
<1> DEFINE S == {c \in 0..MaxId : c \in DOMAIN records[T] <=> c \in DOMAIN records'[T]}
<1>9. \A c \in DOMAIN records'[T] : records[T][c].parent \in S
  <2>1. \A c \in DOMAIN records[T] : records[T][c].parent \in 0..MaxId
    BY <1>1, SMTT(30) DEF RecordsTyped
  <2> QED BY <1>2, <2>1, SMTT(30)
<1>10. /\ S \in SUBSET (0..MaxId) /\ records[T][id].parent \in S
       /\ \A c \in S : c \in DOMAIN records[T] <=> c \in DOMAIN records'[T]
       /\ \A c \in S \cap DOMAIN records[T] : records[T][c].parent \in S /\ Untouched(c)
  BY <1>8, <1>9, ZenonT(30)
<1>11. Untouched(id)
  BY <1>8
<1> HIDE DEF S
<1> QED BY <1>1, <1>2, <1>10, <1>11, RebuildSame, ZenonT(30) DEF Untouched

\* The steps that store a checkpoint, and the steps that store pending writes.
Persists ==
    /\ \E source, parent, machine, tasks, prev, updated, overwritten, force :
         Persist(source, parent, machine, tasks, prev, updated, overwritten, force)
    /\ writes' = writes

Writes ==
    /\ run.pc \notin {"idle", "new"}
    /\ \E slotted : PutWrites(T, run.current, slotted)
    /\ UNCHANGED <<records, blobs, clock>>

LEMMA NextIs ==
    ASSUME [Next]_vars
    PROVE  Persists \/ Writes \/ (Prune(T) /\ UNCHANGED run)
             \/ UNCHANGED <<records, blobs, writes, clock>>
<1>1. CASE InputNew \/ InputPut \/ CommitInterrupt
  BY <1>1, ZenonT(30) DEF InputNew, InputPut, CommitInterrupt, Persists
<1>2. CASE CommitStep
  BY <1>2, ZenonT(30) DEF CommitStep, Persists
<1>3. CASE Call \/ Edit
  BY <1>3, ZenonT(30) DEF Call, Edit, BeginInvoke, Cancel, UpdateState, Persists
<1>4. CASE InputWrites \/ TaskPutWrites
  <2>1. run.pc \notin {"idle", "new"}
    BY <1>4, SMT DEF InputWrites, TaskPutWrites
  <2> QED BY <1>4, <2>1, Zenon DEF InputWrites, TaskPutWrites, Writes
<1>5. CASE ResumeWrite
  <2>1. run.pc \notin {"idle", "new"}
    BY <1>5, SMT DEF ResumeWrite
  <2> QED BY <1>5, <2>1, Zenon DEF ResumeWrite, Writes
<1>6. CASE Return \/ RecursionLimitReached \/ ExecuteTasks \/ ApplyError \/ Abort \/ Crash
  BY <1>6, Zenon DEF Return, RecursionLimitReached, ExecuteTasks, ApplyError, Abort, Crash, Fail
<1>7. CASE PruneThread
  BY <1>7 DEF PruneThread, graphVars
<1>8. CASE UNCHANGED vars
  BY <1>8 DEF vars
<1> QED BY <1>1, <1>2, <1>3, <1>4, <1>5, <1>6, <1>7, <1>8, ZenonT(30) DEF Next, RunStep

\* No step of one owner changes what a checkpoint reconstructs to.
LEMMA NextRebuilt ==
    ASSUME CounterInv, RunLatest, WritesShape, [Next]_vars
    PROVE  Rebuilt /\ WritesShape'
<1>1. /\ Shape /\ RecordsTyped /\ clock \in 0..MaxId
      /\ run.pc \notin {"idle", "new"} =>
           /\ run.current \in DOMAIN records[T]
           /\ \A c \in DOMAIN records[T] : c <= run.current
  BY DEF CounterInv, SessionInv, TypeOK, RunStored, RunLatest
<1>2. RecordsTyped'
  BY NextCounterInv DEF CounterInv, SessionInv, TypeOK
<1>3. CASE Persists
  BY <1>1, <1>2, <1>3, PersistRebuilt, Zenon DEF Persists, WritesShape
<1>4. CASE Writes
  BY <1>1, <1>4, PutWritesRebuilt, ZenonT(30) DEF Writes
<1>5. CASE Prune(T) /\ UNCHANGED run
  BY <1>5, PruneRebuilt, SMTT(30)
<1>6. CASE UNCHANGED <<records, blobs, writes, clock>>
  BY <1>6 DEF Rebuilt, WritesShape, Rebuild, GetDeltaChannelHistory, Present, ChannelValue
<1> QED BY <1>3, <1>4, <1>5, <1>6, NextIs, SMTT(30)

\* With one owner, no step changes what a checkpoint that stays stored
\* reconstructs to: a later write, checkpoint, edit or prune never reaches the
\* records, values and pending writes its restore reads.
THEOREM HistoryKept == Spec => HistoryImmutable
<1> DEFINE A == \A id \in DOMAIN records[T] \cap DOMAIN records'[T] : Rebuild(id)' = Rebuild(id)
<1> DEFINE Inv == CounterInv /\ RunLatest /\ WritesShape
<1>1. Init => Inv
  <2>1. Init => WritesShape
    BY DEF Init, SaverInit, WritesShape
  <2> QED BY <2>1, InitCounter
<1>2. Inv /\ [Next]_vars => Inv'
  BY NextCounterInv, NextRebuilt, SMTT(30)
<1>3. Inv /\ [Next]_vars => [A]_vars
  BY NextRebuilt DEF Rebuilt
<1> QED BY <1>1, <1>2, <1>3, PTL DEF Spec, HistoryImmutable
=============================================================================
