------------------------------- MODULE Graph -------------------------------
(***************************************************************************)
(* The graph executor (internal/graph/executor.go, snapshot.go) over one   *)
(* thread of a MemorySaver.  Invocations of a thread are serialised (by    *)
(* session.mu with RetainThreadState, by the one live owner per thread the *)
(* API asks for without it), so at most one is in flight; it can fail,     *)
(* be cancelled or crash before and after every call to the saver.         *)
(*                                                                         *)
(* A graph state has one field of each kind: "messages" (delta), "status"  *)
(* (last value) and "eph" (ephemeral).  Tasks are a sequence of node       *)
(* names; what nodes return and where the router goes are arbitrary        *)
(* members of the constants Updates and Plans.                             *)
(***************************************************************************)
EXTENDS MemorySaver, Delta

CONSTANTS
    T,              \* the thread
    Nodes,          \* node names
    Updates,        \* updates an input, a node or a caller may supply
    Plans,          \* task lists the router may return
    StartTasks,     \* tasks of the edges out of Start
    Resumes,        \* whether an invocation carries a resume value
    RecursionLimit, \* supersteps of one invocation
    Retain,         \* RetainThreadState
    MaxOps          \* bound: operations started by the caller

ASSUME GraphAssumption ==
    /\ Channels = {"eph", "messages", "status"}
    /\ T \in Threads
    /\ Updates \subseteq [Channels -> Seq(Write)]
    /\ StartTasks \in Plans
    /\ Plans \subseteq Seq(Nodes)
    /\ Resumes \subseteq BOOLEAN
    /\ RecursionLimit \in Nat
    /\ Retain \in BOOLEAN
    /\ MaxOps \in Nat

VARIABLES
    session,    \* the retained threadSession
    run,        \* locals of the invocation in flight
    ops,        \* operations started; numbers them
    live,       \* ghost: live[id] is the state in memory when id was stored
    maker       \* ghost: maker[id] is the operation that stored id

graphVars == <<session, run, ops, live, maker>>
vars == <<records, blobs, writes, clock, session, run, ops, live, maker>>

NoUpdate == [ch \in Channels |-> <<>>]
Empty == [ch \in Channels |-> IF ch = "messages" THEN <<>> ELSE Absent]
Keys(u) == {ch \in Channels : u[ch] # <<>>}

NoSession ==
    [valid |-> FALSE, machine |-> Empty, current |-> 0, tasks |-> <<>>, counter |-> ZeroCounter]

Invalidated == [session EXCEPT !.valid = FALSE]

Idle ==
    [pc |-> "idle", saves |-> FALSE, machine |-> Empty, current |-> 0, tasks |-> <<>>,
     counter |-> ZeroCounter, input |-> NoUpdate, resume |-> FALSE, steps |-> 0,
     results |-> <<>>, todo |-> <<>>]

Init ==
    /\ SaverInit
    /\ session = NoSession
    /\ run = Idle
    /\ ops = 0
    /\ live = [id \in Ids |-> Empty]
    /\ maker = [id \in Ids |-> 0]
-----------------------------------------------------------------------------
(* The state machine *)

\* apply groups the writes of all updates by field, in task order.
Grouped(us, ch) ==
    LET grouped[i \in 0..Len(us)] == IF i = 0 THEN <<>> ELSE grouped[i - 1] \o us[i][ch]
    IN grouped[Len(us)]

ApplyFails(us) == \E ch \in Channels : Conflict(ch = "messages", Grouped(us, ch))

Apply(machine, us) ==
    [ch \in Channels |->
        IF ch = "messages" THEN DeltaApply(machine[ch], Grouped(us, ch))
        ELSE LastApply(machine[ch], Grouped(us, ch))]

\* The flag apply returns for the delta field.
Overwritten(us) == Overwrites(Grouped(us, "messages")) # {}

UpdatedKeys(us) == UNION {Keys(us[i]) : i \in 1..Len(us)}

ConsumeEphemeral(machine) == [machine EXCEPT !["eph"] = Absent]

\* newStateMachine: the stored values of the checkpoint, a delta field
\* without one rebuilt from its history.
Rebuild(id) ==
    LET history == GetDeltaChannelHistory(T, id, "messages") IN
    [ch \in Channels |->
        IF Present(T, id, ch) THEN ChannelValue(T, id, ch)
        ELSE IF ch = "messages"
        THEN DeltaReplay(IF history.hasSeed THEN history.seed ELSE <<>>, history.writes)
        ELSE Absent]

\* restore: the addressed or latest checkpoint, an empty state without one.
Restore(id) ==
    IF Has(T, id)
    THEN [machine |-> Rebuild(id), current |-> id,
          tasks |-> records[T][id].meta.tasks, counter |-> records[T][id].meta.counter]
    ELSE [machine |-> Empty, current |-> 0, tasks |-> <<>>, counter |-> ZeroCounter]

\* stateWrites: one write per value, fields in key order, numbered from 0.
TaskWrites(task, u) ==
    LET tagged(ch) == [i \in 1..Len(u[ch]) |-> [channel |-> ch, value |-> u[ch][i], by |-> ops]]
        all == tagged("eph") \o tagged("messages") \o tagged("status")
    IN [s \in {<<task, i - 1>> : i \in 1..Len(all)} |-> all[s[2] + 1]]

InputTask == <<0, "__input__">>
ResumeTask == <<0, "__resume__">>
ResumeIndex == -4

\* persist: snapshot when forced, overwritten or due, then store a child of
\* parent.  Tasks are versioned by every checkpoint, so they are kept in the
\* record; maker and live are ghosts.
Due(prev, updated, overwritten, force) ==
    force \/ overwritten \/ ShouldSnapshot(Advance(prev, "messages" \in updated))

NextCounter(prev, updated, overwritten, force) ==
    IF Due(prev, updated, overwritten, force) THEN ZeroCounter
    ELSE Advance(prev, "messages" \in updated)

Persist(source, parent, machine, tasks, prev, updated, overwritten, force) ==
    LET snapshot == IF Due(prev, updated, overwritten, force) THEN {"messages"} ELSE {}
        stored == snapshot \cup {ch \in {"status"} : machine[ch] # Absent}
        new == updated \cup snapshot
        base == IF Has(T, parent) THEN records[T][parent].versions ELSE Unversioned
    IN
    /\ NewID
    /\ Put(T, parent, [ch \in stored |-> machine[ch]],
           [ch \in Channels |-> IF ch \in new THEN clock' ELSE base[ch]],
           [source |-> source, tasks |-> tasks, updated |-> updated,
            counter |-> NextCounter(prev, updated, overwritten, force)],
           new)
    /\ live' = [live EXCEPT ![clock'] = machine]
    /\ maker' = [maker EXCEPT ![clock'] = IF run.pc = "idle" THEN ops + 1 ELSE ops]
-----------------------------------------------------------------------------
(* Invoke *)

Room == ops < MaxOps /\ clock + RecursionLimit + 1 <= MaxId

\* The state an invocation starts from: the retained session if it is valid
\* and no checkpoint is addressed, otherwise the saver's.
BeginInvoke(id, input, resume) ==
    LET start == IF Retain /\ id = 0 /\ session.valid THEN session
                 ELSE Restore(IF id = 0 THEN Latest(T) ELSE id)
        pc == IF start.current = 0 THEN "new"
              ELSE IF input # NoUpdate THEN "input" ELSE "resume"
    IN
    /\ run.pc = "idle"
    /\ Room
    /\ ops' = ops + 1
    /\ session' = IF id = 0 THEN session ELSE Invalidated
    /\ run' = [Idle EXCEPT !.pc = pc, !.saves = Retain /\ id = 0,
           !.machine = start.machine, !.current = start.current, !.tasks = start.tasks,
           !.counter = start.counter, !.input = input, !.resume = resume]
    /\ UNCHANGED <<records, blobs, writes, clock, live, maker>>

\* First input of a thread.
InputNew ==
    LET machine == Apply(run.machine, <<run.input>>)
        updated == Keys(run.input)
    IN
    /\ run.pc = "new"
    /\ ~ApplyFails(<<run.input>>)
    /\ Persist("input", 0, machine, StartTasks, ZeroCounter, updated, FALSE, TRUE)
    /\ run' = [run EXCEPT !.pc = "resume", !.machine = machine, !.current = clock',
           !.tasks = StartTasks, !.counter = ZeroCounter]
    /\ UNCHANGED <<writes, session, ops>>

\* Input to an existing thread: its writes first, then the checkpoint.
InputWrites ==
    /\ run.pc = "input"
    /\ PutWrites(T, run.current, TaskWrites(InputTask, run.input))
    /\ run' = [run EXCEPT !.pc = "inputPut",
           !.tasks = IF @ = <<>> THEN StartTasks ELSE @]
    /\ UNCHANGED <<records, blobs, clock, session, ops, live, maker>>

InputPut ==
    LET us == <<run.input>>
        machine == Apply(run.machine, us)
        updated == Keys(run.input)
    IN
    /\ run.pc = "inputPut"
    /\ ~ApplyFails(us)
    /\ Persist("input", run.current, machine, run.tasks, run.counter, updated,
               Overwritten(us), FALSE)
    /\ run' = [run EXCEPT !.pc = "resume", !.machine = machine, !.current = clock',
           !.counter = NextCounter(run.counter, updated, Overwritten(us), FALSE)]
    /\ UNCHANGED <<writes, session, ops>>

ResumeWrite ==
    /\ run.pc = "resume"
    /\ IF run.resume
       THEN PutWrites(T, run.current,
                [s \in {<<ResumeTask, ResumeIndex>>} |->
                    [channel |-> "__resume__", value |-> "resume", by |-> ops]])
       ELSE UNCHANGED writes
    /\ run' = [run EXCEPT !.pc = "loop"]
    /\ UNCHANGED <<records, blobs, clock, session, ops, live, maker>>

\* Mutant: the superstep loop has no bound.
StepUnbounded == TRUE

\* Mutant: the superstep loop runs once too often.
StepInclusive == run.steps <= RecursionLimit

\* The condition of the superstep loop.
StepAllowed == run.steps < RecursionLimit

\* Mutant: the session keeps the state it had before the invocation.
ReturnOldMachine ==
    /\ \/ run.pc = "return"
       \/ run.pc = "loop" /\ StepAllowed /\ run.tasks = <<>>
    /\ session' = IF run.saves
                  THEN [valid |-> TRUE, machine |-> session.machine, current |-> run.current,
                        tasks |-> run.tasks, counter |-> run.counter]
                  ELSE session
    /\ run' = Idle
    /\ UNCHANGED <<records, blobs, writes, clock, ops, live, maker>>

\* invoke's deferred function on success: the locals become the session.
Return ==
    /\ \/ run.pc = "return"
       \/ run.pc = "loop" /\ StepAllowed /\ run.tasks = <<>>
    /\ session' = IF run.saves
                  THEN [valid |-> TRUE, machine |-> run.machine, current |-> run.current,
                        tasks |-> run.tasks, counter |-> run.counter]
                  ELSE session
    /\ run' = Idle
    /\ UNCHANGED <<records, blobs, writes, clock, ops, live, maker>>

\* Mutant: an error leaves the session valid.
FailKeepsSession ==
    /\ run' = Idle
    /\ UNCHANGED <<records, blobs, writes, clock, session, ops, live, maker>>

\* invoke's deferred function on an error.
Fail ==
    /\ session' = IF run.saves THEN Invalidated ELSE session
    /\ run' = Idle
    /\ UNCHANGED <<records, blobs, writes, clock, ops, live, maker>>

RecursionLimitReached == run.pc = "loop" /\ ~StepAllowed /\ Fail

\* executeTasks: every task reads the same state and none sees another's
\* update, so the completion order is not part of the result.  A task that
\* returns an error ends the invocation (Abort).
ExecuteTasks ==
    /\ run.pc = "loop"
    /\ StepAllowed
    /\ run.tasks # <<>>
    /\ \E results \in [1..Len(run.tasks) -> [interrupt : BOOLEAN, update : Updates]] :
         LET stopped == {i \in DOMAIN results : results[i].interrupt}
             writers == {i \in (IF stopped = {} THEN DOMAIN results ELSE stopped) :
                           results[i].update # NoUpdate}
         IN run' = [run EXCEPT !.pc = IF stopped = {} THEN "commit" ELSE "interrupt",
                !.results = results, !.todo = InOrder(writers, <), !.resume = FALSE]
    /\ UNCHANGED <<records, blobs, writes, clock, session, ops, live, maker>>

\* The writes of the tasks, one PutWrites per task, in task order.
TaskPutWrites ==
    /\ run.pc \in {"commit", "interrupt"}
    /\ run.todo # <<>>
    /\ LET i == Head(run.todo) IN
       PutWrites(T, run.current, TaskWrites(<<i, run.tasks[i]>>, run.results[i].update))
    /\ run' = [run EXCEPT !.todo = Tail(@)]
    /\ UNCHANGED <<records, blobs, clock, session, ops, live, maker>>

ResultUpdates == [i \in 1..Len(run.results) |-> run.results[i].update]

\* Mutant: an interrupted superstep applies the update of every task.
AllUpdates == ResultUpdates

InterruptUpdates ==
    [i \in 1..Len(run.results) |->
        IF run.results[i].interrupt THEN run.results[i].update ELSE NoUpdate]

\* A superstep without interrupts: consume ephemerals, apply, route, persist.
CommitStep ==
    LET us == ResultUpdates
        machine == Apply(ConsumeEphemeral(run.machine), us)
        updated == UpdatedKeys(us)
    IN
    /\ run.pc = "commit"
    /\ run.todo = <<>>
    /\ ~ApplyFails(us)
    /\ \E next \in Plans :
         /\ Persist("loop", run.current, machine, next, run.counter, updated,
                    Overwritten(us), FALSE)
         /\ run' = [run EXCEPT !.pc = "loop", !.machine = machine, !.current = clock',
                !.tasks = next, !.steps = @ + 1, !.results = <<>>,
                !.counter = NextCounter(run.counter, updated, Overwritten(us), FALSE)]
    /\ UNCHANGED <<writes, session, ops>>

\* A superstep with an interrupt: only the interrupting tasks' updates are
\* applied, and the same tasks stay scheduled.
CommitInterrupt ==
    LET us == InterruptUpdates
        machine == Apply(run.machine, us)
        updated == UpdatedKeys(us)
    IN
    /\ run.pc = "interrupt"
    /\ run.todo = <<>>
    /\ ~ApplyFails(us)
    /\ Persist("loop", run.current, machine, run.tasks, run.counter, updated,
               Overwritten(us), FALSE)
    /\ run' = [run EXCEPT !.pc = "return", !.machine = machine, !.current = clock',
           !.steps = @ + 1, !.results = <<>>,
           !.counter = NextCounter(run.counter, updated, Overwritten(us), FALSE)]
    /\ UNCHANGED <<writes, session, ops>>

\* apply refuses the updates, after their writes were stored.
ApplyError ==
    /\ \/ run.pc \in {"new", "inputPut"} /\ ApplyFails(<<run.input>>)
       \/ run.pc = "commit" /\ run.todo = <<>> /\ ApplyFails(ResultUpdates)
       \/ run.pc = "interrupt" /\ run.todo = <<>> /\ ApplyFails(InterruptUpdates)
    /\ Fail

\* A node, the saver, the event writer or the router returns an error, or the
\* context ends, between any two calls to the saver.
Abort == run.pc # "idle" /\ Fail

\* The process stops and a new one serves the thread from the saver.
Crash ==
    /\ session.valid \/ run.pc # "idle"
    /\ session' = NoSession
    /\ run' = Idle
    /\ UNCHANGED <<records, blobs, writes, clock, ops, live, maker>>
-----------------------------------------------------------------------------
(* Operations on an idle thread *)

\* Cancel restores from the saver, applies the final update, drops what apply
\* says about overwrites, and clears the tasks.
Cancel(input) ==
    LET start == Restore(Latest(T)) IN
    /\ run.pc = "idle"
    /\ Room
    /\ ~ApplyFails(<<input>>)
    /\ ops' = ops + 1
    /\ Persist("cancel", start.current, Apply(start.machine, <<input>>), <<>>, start.counter,
               Keys(input), FALSE, start.current = 0)
    /\ session' = Invalidated
    /\ UNCHANGED <<writes, run>>

\* UpdateState stores an edited child of any checkpoint with a snapshot.
UpdateState(id, input) ==
    LET start == Restore(IF id = 0 THEN Latest(T) ELSE id) IN
    /\ run.pc = "idle"
    /\ Room
    /\ ~ApplyFails(<<input>>)
    /\ ops' = ops + 1
    /\ Persist("update", start.current, Apply(start.machine, <<input>>), start.tasks,
               start.counter, Keys(input), Overwritten(<<input>>), TRUE)
    /\ session' = Invalidated
    /\ UNCHANGED <<writes, run>>

\* Prune and DeleteThread go to the saver directly.
PruneThread ==
    /\ Prune(T)
    /\ UNCHANGED graphVars

DeleteThreadOp ==
    /\ DOMAIN records[T] # {}
    /\ DeleteThread(T)
    /\ UNCHANGED graphVars
-----------------------------------------------------------------------------
RunStep ==
    \/ InputNew \/ InputWrites \/ InputPut \/ ResumeWrite
    \/ Return \/ RecursionLimitReached
    \/ ExecuteTasks \/ TaskPutWrites \/ CommitStep \/ CommitInterrupt
    \/ ApplyError

\* Calls that address the latest checkpoint of the thread.
Call == \E input \in Updates :
    \/ \E resume \in Resumes : BeginInvoke(0, input, resume)
    \/ Cancel(input)
    \/ UpdateState(0, input)

Edit == \E id \in DOMAIN records[T], input \in Updates : UpdateState(id, input)

\* Invoke or Replay of an earlier checkpoint.
Fork == \E id \in DOMAIN records[T], input \in Updates : BeginInvoke(id, input, FALSE)

\* One owner drives the thread forward; any checkpoint may be edited.
Next == RunStep \/ Call \/ Edit \/ Abort \/ Crash \/ PruneThread

Spec == Init /\ [][Next]_vars /\ WF_vars(RunStep)

\* The same with invocations of earlier checkpoints.
SpecFork == Init /\ [][Next \/ Fork]_vars /\ WF_vars(RunStep)

\* Invocations of earlier checkpoints, with Prune only between invocations.
NextBranch ==
    RunStep \/ Call \/ Edit \/ Fork \/ Abort \/ Crash \/ (run.pc = "idle" /\ PruneThread)

SpecBranch == Init /\ [][NextBranch]_vars /\ WF_vars(RunStep)

\* One owner, with deletion of the thread.
SpecDelete == Init /\ [][Next \/ DeleteThreadOp]_vars
-----------------------------------------------------------------------------
(* Properties *)

Counter == [updates : Nat, supersteps : Nat]

RecordsTyped ==
    /\ DOMAIN records[T] \subseteq 1..clock
    /\ \A id \in DOMAIN records[T] :
         /\ records[T][id].parent \in 0..(id - 1)
         /\ records[T][id].versions \in [Channels -> 0..id]
         /\ records[T][id].meta.tasks \in Plans \cup {<<>>}
         /\ records[T][id].meta.counter \in Counter

\* The control state has its type: the session and the locals of the
\* invocation name an id that was handed out, tasks of the graph, a counter,
\* and at most RecursionLimit supersteps.
TypeOK ==
    /\ clock \in 0..MaxId
    /\ ops \in 0..MaxOps
    /\ RecordsTyped
    /\ session.valid \in BOOLEAN
    /\ session.current \in 0..clock
    /\ session.tasks \in Plans \cup {<<>>}
    /\ session.counter \in Counter
    /\ run.pc \in {"idle", "new", "input", "inputPut", "resume", "loop", "commit",
                   "interrupt", "return"}
    /\ run.current \in 0..clock
    /\ run.tasks \in Plans \cup {<<>>}
    /\ run.counter \in Counter
    /\ run.steps \in 0..RecursionLimit

\* The step from its parent to id replays from the parent's pending writes
\* what the operation that stored id applied: no other operation left state
\* writes there (one of any field may hold the slot of a delta write), and the
\* update was written (Cancel writes none).
StepReplays(id) ==
    LET pending == writes[T][records[T][id].parent] IN
    /\ \A s \in DOMAIN pending : s[2] >= 0 => pending[s].by = maker[id]
    /\ ~(records[T][id].meta.source = "cancel" /\ "messages" \in records[T][id].meta.updated)

\* Every step of the walk that rebuilds the delta field of id replays.
WalkReplays(id) ==
    LET walk[c \in 0..MaxId] ==
            /\ Has(T, c)
            /\ Present(T, c, "messages") \/ (StepReplays(c) /\ walk[records[T][c].parent])
    IN walk[id]

\* Reconstructing a stored checkpoint gives the state that was in memory when
\* it was stored: the last-value field always, the delta field whenever the
\* pending writes on its walk are those of the operations that stored the
\* walk's checkpoints (executor.go restore against persist).
RestoreExact ==
    \A id \in DOMAIN records[T] :
        /\ Rebuild(id)["status"] = live[id]["status"]
        /\ WalkReplays(id) => Rebuild(id)["messages"] = live[id]["messages"]

\* A valid retained session is at the thread's latest checkpoint, with the
\* tasks and the snapshot counter that checkpoint stores (graph.go
\* threadSession, executor.go invoke, restoreRetained).
SessionAtLatest ==
    run.pc = "idle" /\ session.valid =>
        /\ session.current \in DOMAIN records[T]
        /\ \A id \in DOMAIN records[T] : id <= session.current
        /\ session.tasks = records[T][session.current].meta.tasks
        /\ session.counter = records[T][session.current].meta.counter

\* Retaining a thread's state changes nothing an invocation could see: the
\* retained state is what a restore of the latest checkpoint would give,
\* ephemeral values aside, if that checkpoint's walk replays.
SessionTransparent ==
    run.pc = "idle" /\ session.valid /\ WalkReplays(session.current) =>
        \A ch \in {"messages", "status"} : session.machine[ch] = Rebuild(session.current)[ch]

\* Checkpoint id stores a snapshot of the delta field.
SnapshotAt(id) ==
    LET key == <<"messages", id>> IN key \in DOMAIN blobs[T] /\ blobs[T][key].present

\* Where the snapshot counter of a checkpoint comes from: zero with a
\* snapshot, otherwise one superstep after that of its parent, which is still
\* stored; and the counter stays below both bounds of the snapshot cadence
\* (executor.go persist, channel/snapshot.go, memory.go Prune).
CounterChain ==
    \A id \in DOMAIN records[T] :
        LET record == records[T][id] IN
        /\ IF SnapshotAt(id)
           THEN record.meta.counter = ZeroCounter /\ record.versions["messages"] = id
           ELSE /\ record.parent \in DOMAIN records[T]
                /\ record.meta.counter = Advance(records[T][record.parent].meta.counter,
                                                 "messages" \in record.meta.updated)
        /\ SnapshotFrequency > 0 =>
             /\ record.meta.counter.updates < SnapshotFrequency
             /\ record.meta.counter.supersteps < MaxSupersteps

\* The checkpoints a restore of id walks over before it finds a snapshot.
Window(id) ==
    LET back[c \in 0..MaxId] ==
            IF ~Has(T, c) \/ SnapshotAt(c) THEN {}
            ELSE {c} \cup back[records[T][c].parent]
    IN back[id]

\* The counters a checkpoint stores are the real distance to the snapshot its
\* delta field is rebuilt from, across restarts, edits, interrupts, failed
\* invocations and retained sessions (executor.go persist).
CountersExact ==
    \A id \in DOMAIN records[T] :
        LET updates == {c \in Window(id) : "messages" \in records[T][c].meta.updated} IN
        records[T][id].meta.counter =
            [updates |-> Cardinality(updates), supersteps |-> Cardinality(Window(id))]

\* No step changes what an existing checkpoint reconstructs to.
HistoryImmutable ==
    [][\A id \in DOMAIN records[T] \cap DOMAIN records'[T] : Rebuild(id)' = Rebuild(id)]_vars

\* Every invocation ends: it returns, interrupts or fails with the recursion
\* limit, whatever nodes and router do (executor.go invoke).
InvocationEnds == run.pc # "idle" ~> run.pc = "idle"

\* When no invocation is in flight, every stored checkpoint that no Cancel is
\* part of reconstructs to the state its operation had in memory and returned.
ResultDurable ==
    run.pc = "idle" =>
        \A id \in DOMAIN records[T] :
            (\A c \in Window(id) : records[T][c].meta.source # "cancel")
                => Rebuild(id)["messages"] = live[id]["messages"]

\* A cancellation is durable: its final update is part of what the checkpoint
\* it stored reconstructs to, at least when its parent had no pending writes.
CancelDurable ==
    \A id \in DOMAIN records[T] :
        /\ records[T][id].meta.source = "cancel"
        /\ records[T][id].parent # 0 => DOMAIN writes[T][records[T][id].parent] = {}
        => Rebuild(id)["messages"] = live[id]["messages"]
=============================================================================
