------------------------------ MODULE Workflow ------------------------------
(***************************************************************************)
(* Background workflows (daworkflow): the Manager that starts, cancels and *)
(* resumes runs, the JavaScript event loop of a run                        *)
(* (internal/quickjs/engine.go awaitPromise and hostCall), and the agent   *)
(* calls of its script, each on a goroutine of its own: the replay gate,   *)
(* the admission by budget and limits, the semaphore, the agent, and the   *)
(* journal a later run resumes from.                                       *)
(*                                                                         *)
(* A script is a set of agent calls (sites) with the earlier stages each   *)
(* one waits for, as parallel() and pipeline() arrange them; it returns    *)
(* when every site is answered.  A call gets its number when it is issued. *)
(* An exception ends the item of the pipeline it is thrown in; at a strict *)
(* site nothing catches it.  Values are abstract: a result tells the run   *)
(* and the site it comes from, and every agent that is recorded costs one  *)
(* token.                                                                  *)
(*                                                                         *)
(* Not modelled: nested workflows (a gate of their own, the same limits),  *)
(* a Progress callback that fails, progress events and subscribers.        *)
(***************************************************************************)
EXTENDS Integers, FiniteSets

CONSTANTS
    MaxRuns,        \* bound: Start calls
    MaxActive,      \* bound: runs that are prepared or running at a time
    MaxFresh,       \* bound: runs that resume no other
    MaxFaults,      \* bound: agents that do not return a value
    Scripts,        \* scripts a run may be given: [earlier, key, invalid, strict]
    Sites,          \* agent calls of a script, in program order
    Null, Thrown,   \* what a call without a value gives the script
    MaxConcurrency, MaxAgents, Budget   \* Options; Budget 0: none

ASSUME WorkflowAssumption ==
    /\ MaxRuns \in Nat /\ MaxActive \in Nat /\ MaxFresh \in Nat /\ MaxFaults \in Nat
    /\ Sites \subseteq Nat /\ IsFiniteSet(Sites)
    /\ MaxConcurrency \in Nat \ {0} /\ MaxAgents \in Nat /\ Budget \in Nat

VARIABLES
    closed,     \* Manager.closed
    faults,     \* agents that did not return a value
    runs        \* runs[r]: a managed run and its workflowShared

vars == <<closed, faults, runs>>

Runs == 1..MaxRuns
Empty == [c \in {} |-> c]

\* One agent() of the script: where its goroutine is, its number, what it
\* answers, and whether an agent_failed or agent_finished event was emitted.
Unissued == [pc |-> "unissued", call |-> 0, value |-> Null, cached |-> FALSE, event |-> "none"]

NoRun == [pc |-> "none", done |-> FALSE, script |-> Null, from |-> 0, resume |-> Empty,
          journal |-> Empty, result |-> Empty, agentCalls |-> 0, tokens |-> 0,
          next |-> 1, live |-> FALSE, issued |-> 0, spent |-> 0,
          sites |-> [s \in Sites |-> Unissued]]

Init ==
    /\ closed = FALSE
    /\ faults = 0
    /\ runs = [r \in Runs |-> NoRun]

Settled(r) == runs[r].pc \in {"success", "error", "cancelled"}
Running(r) == runs[r].pc \in {"registered", "awaiting", "returned", "threw", "stopped"}

\* Where the goroutine of a call is.  Once the script has ended, what calls in
\* flight still do changes nothing the manager keeps, and is not followed.
At(r, s, pc) == runs[r].pc = "awaiting" /\ runs[r].sites[s].pc = pc
InFlight(run) == {s \in Sites : run.sites[s].pc = "agent"}
-----------------------------------------------------------------------------
(* The script, on the thread of the JavaScript engine *)

\* Stages whose exception is caught, and the later stages of the same items.
Skipped(run, thrown) ==
    [s \in Sites |->
        IF s \in thrown \/ run.script.earlier[s] \cap thrown # {}
        THEN [run.sites[s] EXCEPT !.pc = "answered", !.value = Null]
        ELSE run.sites[s]]

Ready(run) ==
    {s \in Sites : /\ run.sites[s].pc = "unissued"
                   /\ \A d \in run.script.earlier[s] : run.sites[d].pc = "answered"}

\* The calls that became ready are issued in program order, unless agent()
\* finds the budget spent and throws.
Issue(run) ==
    LET ready == Ready(run)
        number(s) == run.issued + Cardinality({x \in ready : x <= s})
    IN IF Budget > 0 /\ run.spent >= Budget
       THEN [run EXCEPT !.sites = Skipped(run, ready),
                 !.pc = IF run.script.strict \cap ready # {} THEN "threw" ELSE @]
       ELSE [run EXCEPT !.issued = @ + Cardinality(ready),
                 !.sites = [s \in Sites |-> IF s \in ready
                     THEN [@[s] EXCEPT !.pc = "issued", !.call = number(s)] ELSE @[s]]]

\* The promise of the script is settled once every site is answered; the
\* result is a snapshot of the journal at that moment.
Concluded(run) ==
    LET ended == IF run.pc = "awaiting" /\ \A s \in Sites : run.sites[s].pc = "answered"
                 THEN [run EXCEPT !.pc = "returned"] ELSE run
    IN IF ended.pc = "awaiting" THEN ended ELSE [ended EXCEPT !.result = ended.journal]

\* awaitPromise begins, and runs the script up to its first await.
Execute(r) ==
    /\ runs[r].pc = "registered"
    /\ runs' = [runs EXCEPT ![r] =
           IF @.done THEN [@ EXCEPT !.pc = "stopped"]
           ELSE Concluded(Issue([@ EXCEPT !.pc = "awaiting"]))]
    /\ UNCHANGED <<closed, faults>>

\* A completion is taken from e.pending and the script runs on.  The answer of
\* an agent adds its tokens to spent().
Deliver(r, s) ==
    LET run == runs[r]
        thrown == run.sites[s].value = Thrown
        answered == [run EXCEPT !.sites[s].pc = "answered",
                         !.spent = IF run.sites[s].event = "finished" THEN @ + 1 ELSE @]
    IN
    /\ run.pc = "awaiting"
    /\ ~run.done
    /\ At(r, s, "completed")
    /\ runs' = [runs EXCEPT ![r] = Concluded(
           IF thrown /\ s \in run.script.strict THEN [answered EXCEPT !.pc = "threw"]
           ELSE Issue(IF thrown THEN [run EXCEPT !.sites = Skipped(run, {s})] ELSE answered))]
    /\ UNCHANGED <<closed, faults>>

\* awaitPromise returns the error of the context, whatever is in flight.
Stop(r) ==
    /\ runs[r].pc = "awaiting"
    /\ runs[r].done
    /\ runs' = [runs EXCEPT ![r] = Concluded([@ EXCEPT !.pc = "stopped"])]
    /\ UNCHANGED <<closed, faults>>
-----------------------------------------------------------------------------
(* __workflow_agent and runAgent, on the goroutine of the call *)

Step(r, s, run, pc) ==
    /\ runs' = [runs EXCEPT ![r] = [run EXCEPT !.sites[s].pc = pc]]
    /\ UNCHANGED closed

Completion(r, s, run, value, event) ==
    Step(r, s, [run EXCEPT !.sites[s].value = value, !.sites[s].event = event], "completed")

\* workflowAgentRequest refuses a request before it reaches the gate.
Invalid(r, s) ==
    /\ At(r, s, "issued")
    /\ s \in runs[r].script.invalid
    /\ Completion(r, s, runs[r], Thrown, "none")

\* Mutant: a hit need not be the same request.
HitAnyKey(run, s) ==
    /\ ~run.live
    /\ run.sites[s].call \in DOMAIN run.resume

\* The journal has this call, with this request.
Hit(run, s) ==
    LET call == run.sites[s].call IN
    /\ ~run.live
    /\ call \in DOMAIN run.resume
    /\ run.resume[call].key = run.script.key[s]

\* Mutant: the gate does not wait for the calls before.
GateUnordered(r, s) ==
    LET run == runs[r] IN
    /\ At(r, s, "issued")
    /\ s \notin run.script.invalid
    /\ IF Hit(run, s)
       THEN Step(r, s, [run EXCEPT !.next = @ + 1, !.sites[s].cached = TRUE], "hit")
       ELSE Step(r, s, [run EXCEPT !.next = @ + 1, !.live = TRUE], "live")

\* Mutant: a live call does not let the next one pass.
GateStuck(r, s) ==
    LET run == runs[r] IN
    /\ At(r, s, "issued")
    /\ s \notin run.script.invalid
    /\ run.next = run.sites[s].call
    /\ IF Hit(run, s)
       THEN Step(r, s, [run EXCEPT !.next = @ + 1, !.sites[s].cached = TRUE], "hit")
       ELSE Step(r, s, [run EXCEPT !.live = TRUE], "live")

\* workflowReplayGate.cached: calls pass in the order of their numbers; the
\* first one that is no hit makes all later ones live.
Gate(r, s) ==
    LET run == runs[r] IN
    /\ At(r, s, "issued")
    /\ s \notin run.script.invalid
    /\ run.next = run.sites[s].call
    /\ IF Hit(run, s)
       THEN Step(r, s, [run EXCEPT !.next = @ + 1, !.sites[s].cached = TRUE], "hit")
       ELSE Step(r, s, [run EXCEPT !.next = @ + 1, !.live = TRUE], "live")

Journaled(run, s, entry) ==
    LET call == run.sites[s].call IN
    [run EXCEPT !.journal = [c \in DOMAIN @ \cup {call} |-> IF c = call THEN entry ELSE @[c]]]

\* The cached entry is journaled again and answers the call.
Replay(r, s) ==
    LET entry == runs[r].resume[runs[r].sites[s].call] IN
    /\ At(r, s, "hit")
    /\ Completion(r, s, Journaled(runs[r], s, entry), entry.value, "finished")

\* Budget and agent limit, under shared.mu.
Admit(r, s) ==
    LET run == runs[r] IN
    /\ At(r, s, "live")
    /\ IF (Budget > 0 /\ run.tokens >= Budget) \/ run.agentCalls >= MaxAgents
       THEN Completion(r, s, run, Thrown, "none")
       ELSE Step(r, s, [run EXCEPT !.agentCalls = @ + 1], "queued")

\* The semaphore, or the end of the context.
Acquire(r, s) ==
    /\ At(r, s, "queued")
    /\ \/ /\ Cardinality(InFlight(runs[r])) < MaxConcurrency
          /\ Step(r, s, runs[r], "agent")
       \/ /\ runs[r].done
          /\ Completion(r, s, runs[r], Thrown, "none")

\* Mutant: a failed call is left out of the journal and of the tokens.
RecordedSuccess(run, s, value) ==
    IF value = Null THEN run
    ELSE Journaled([run EXCEPT !.tokens = @ + 1], s, [key |-> run.script.key[s], value |-> value])

\* recordAgent: tokens and journal, in one critical section.
Recorded(run, s, value) ==
    Journaled([run EXCEPT !.tokens = @ + 1], s, [key |-> run.script.key[s], value |-> value])

\* The agent returns: a value; a failure or, after its retries, a value that
\* does not match the schema; or an error that is not recorded (a schema that
\* does not compile, a cancelled or overdue context).
AgentEnds(r, s) ==
    LET run == runs[r] IN
    /\ At(r, s, "agent")
    /\ \/ /\ Completion(r, s, Recorded(run, s, <<r, s>>), <<r, s>>, "finished")
          /\ UNCHANGED faults
       \/ /\ faults < MaxFaults
          /\ faults' = faults + 1
          /\ \/ Completion(r, s, Recorded(run, s, Null), Null, "failed")
             \/ Completion(r, s, run, Thrown, "none")

CallStep(r, s) ==
    /\ Invalid(r, s) \/ Gate(r, s) \/ Replay(r, s) \/ Admit(r, s) \/ Acquire(r, s)
    /\ UNCHANGED faults
-----------------------------------------------------------------------------
(* Manager *)

\* Start up to the preparation: the journal of the run to resume is copied.
\* The context of the run derives from the lifetime of the manager.
Start(r, script, from) ==
    /\ runs[r].pc = "none"
    /\ \A x \in 1..(r - 1) : runs[x].pc # "none"
    /\ from = 0 => r <= MaxFresh
    /\ from # 0 => from < r /\ Settled(from)
    /\ ~closed
    /\ Cardinality({x \in Runs : runs[x].pc = "preparing" \/ Running(x)}) < MaxActive
    /\ runs' = [runs EXCEPT ![r] = [NoRun EXCEPT !.pc = "preparing", !.script = script,
           !.from = from, !.resume = IF from = 0 THEN Empty ELSE runs[from].result]]
    /\ UNCHANGED <<closed, faults>>

\* The script is loaded, or the preparation fails; then the run is registered
\* unless the manager was closed meanwhile.
Register(r) ==
    /\ runs[r].pc = "preparing"
    /\ \E loaded \in BOOLEAN :
         runs' = [runs EXCEPT ![r].pc = IF loaded /\ ~closed THEN "registered" ELSE "refused"]
    /\ UNCHANGED <<closed, faults>>

\* failedRunError
Failed(run) ==
    LET failed == {s \in Sites : run.sites[s].event = "failed"}
        finished == {s \in Sites : run.sites[s].event = "finished"}
    IN failed # {} /\ (finished = {} \/ \A s \in Sites : run.sites[s].value = Null)

\* execute after completeWorkflowRun: the files are written, the status is
\* set, and the deferred cancel ends the context.  The answers of the calls are
\* remembered.
Settle(r) ==
    LET run == runs[r] IN
    /\ run.pc \in {"returned", "threw", "stopped"}
    /\ \E persisted \in BOOLEAN :
         runs' = [runs EXCEPT ![r] = [NoRun EXCEPT
             !.done = TRUE, !.result = run.result,
             !.pc = IF run.pc = "returned" /\ persisted /\ ~Failed(run) THEN "success"
                    ELSE IF run.done THEN "cancelled" ELSE "error",
             !.sites = [s \in Sites |-> [Unissued EXCEPT !.value = run.sites[s].value]]]]
    /\ UNCHANGED <<closed, faults>>

Cancel(r) ==
    /\ Running(r)
    /\ ~runs[r].done
    /\ runs' = [runs EXCEPT ![r].done = TRUE]
    /\ UNCHANGED <<closed, faults>>

Close ==
    /\ ~closed
    /\ closed' = TRUE
    /\ runs' = [r \in Runs |-> IF runs[r].pc = "preparing" \/ Running(r)
                               THEN [runs[r] EXCEPT !.done = TRUE] ELSE runs[r]]
    /\ UNCHANGED faults

Next ==
    \/ \E r \in Runs : \E script \in Scripts, from \in 0..MaxRuns : Start(r, script, from)
    \/ \E r \in Runs : Register(r)
    \/ \E r \in Runs : Execute(r)
    \/ \E r \in Runs : Stop(r)
    \/ \E r \in Runs : Settle(r)
    \/ \E r \in Runs : Cancel(r)
    \/ Close
    \/ \E r \in Runs, s \in Sites : Deliver(r, s)
    \/ \E r \in Runs, s \in Sites : CallStep(r, s)
    \/ \E r \in Runs, s \in Sites : AgentEnds(r, s)

\* The goroutines of a run, those of the manager, the engine and the calls,
\* make progress; nothing is assumed of the agents.
Spec ==
    /\ Init /\ [][Next]_vars
    /\ \A r \in Runs :
         /\ WF_vars(Register(r) \/ Execute(r) \/ Stop(r) \/ Settle(r))
         /\ WF_vars(\E s \in Sites : Deliver(r, s) \/ CallStep(r, s))
-----------------------------------------------------------------------------
\* Goroutines pass the gate in any real order, yet the calls answered from the
\* journal are the first ones, and every call before a replayed one replayed
\* too (workflowReplayGate.cached).
ReplayPrefix ==
    \A r \in Runs : \A s, x \in Sites :
        LET site == runs[r].sites[s]
            before == runs[r].sites[x]
        IN site.cached /\ before.call \in 1..(site.call - 1) => before.cached

\* A replayed call gives the script what the same call of the same script gave
\* it when it ran, a failure's null included, whatever the order in which the
\* calls of either run were issued and answered (runAgent, recordAgent).
ReplayFaithful ==
    \A r \in Runs : \A s \in Sites :
        LET site == runs[r].sites[s]
            origin == runs[runs[r].from].sites[s]
        IN site.cached /\ site.pc \in {"completed", "answered"} =>
               site.value = origin.value

\* The counters against what happened: every agent that was admitted is counted
\* once, every recorded answer of a live call once, and nothing exceeds the
\* limits, through failures, cancellation and resumption (runAgent,
\* recordAgent).
AccountsExact ==
    \A r \in Runs : LET run == runs[r]
                        live == {s \in Sites : run.sites[s].call # 0 /\ ~run.sites[s].cached}
                        recorded == {s \in live : run.sites[s].event # "none"}
    IN /\ run.tokens = Cardinality(recorded)
       /\ run.agentCalls >= Cardinality(recorded \cup InFlight(run))
       /\ run.agentCalls <= MaxAgents
       /\ Cardinality(InFlight(run)) <= MaxConcurrency
       /\ {run.sites[s].call : s \in recorded} \subseteq DOMAIN run.journal
       /\ Budget > 0 => run.tokens < Budget + run.agentCalls

\* A cancelled run settles even if an agent never returns or a call never
\* passes the gate (Cancel, Close, awaitPromise, execute); and every run
\* settles if the agents it starts return (gate, semaphore, awaitPromise).
RunSettles ==
    /\ \A r \in Runs : (runs[r].done ~> runs[r].pc \in {"refused", "success", "error", "cancelled"})
    /\ WF_vars(\E r \in Runs, s \in Sites : AgentEnds(r, s)) =>
           \A r \in Runs : (Running(r) ~> Settled(r))

\* A run that has only the nulls of failed agents is not taken for a success,
\* be they replayed or live (failedRunError).
FailureKept ==
    \A r \in Runs : LET run == runs[r] IN
        run.pc = "returned" /\ (\A s \in Sites : run.sites[s].event # "none" /\ run.sites[s].value = Null)
            => Failed(run)
=============================================================================
