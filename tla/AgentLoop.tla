----------------------------- MODULE AgentLoop -----------------------------
(***************************************************************************)
(* The agent loop on one durable thread (dagent/agent.go): before_agent    *)
(* with PatchToolCalls (features.go), model, tools with the approval hooks *)
(* (filesystem.go, dagent/middleware.go) and after_agent; invocations that *)
(* add a prompt, resume an interrupt or just continue; Cancel; and         *)
(* failures at any point.  A superstep stores its update and the next node *)
(* together, as Graph shows in detail.                                     *)
(*                                                                         *)
(* A tool call is a number; its kind says which hook asks for it and       *)
(* whether the tool itself interrupts until it is given a resume value.    *)
(* Of the decisions, approve stands for edit as well and reject for        *)
(* respond.  Structured output, subagents, handoffs, malformed calls and   *)
(* other middleware are not modelled.                                      *)
(***************************************************************************)
EXTENDS Integers, Sequences, FiniteSets, SequencesExt

CONSTANTS
    Kinds,          \* kinds of calls the model makes: [hook, asks, direct] each
    MaxCalls,       \* bound: tool calls the model makes
    MaxBatch,       \* bound: calls in one message
    MaxPrompts,     \* bound: human messages
    MaxFaults       \* bound: runs that fail, are cancelled or lost

ASSUME LoopAssumption ==
    /\ MaxCalls \in Nat /\ MaxBatch \in Nat /\ MaxPrompts \in Nat /\ MaxFaults \in Nat
    /\ \A kind \in Kinds : kind.hook \in 0..2 /\ kind.asks \in BOOLEAN /\ kind.direct \in BOOLEAN

VARIABLES
    messages,   \* the stored history
    next,       \* the scheduled node, "end" for none
    pc,         \* "idle", "loop": between supersteps, "tools": calls are running
    resume,     \* Runtime.Resume: <<>> for nil, or <<f>> with f: call -> decision
    batch,      \* the calls being run: call -> "running", "result" or "asks"
    prefilled,  \* calls of the batch that a hook answered
    kinds,      \* call -> its kind
    asked,      \* the calls the last interrupt of a hook listed
    prompts, faults

vars == <<messages, next, pc, resume, batch, prefilled, kinds, asked, prompts, faults>>

None == [c \in {} |-> c]

Init ==
    /\ messages = <<>>
    /\ next = "before_agent"
    /\ pc = "idle"
    /\ resume = <<>>
    /\ batch = None
    /\ prefilled = {}
    /\ kinds = <<>>
    /\ asked = {}
    /\ prompts = 0
    /\ faults = 0

Calls == DOMAIN kinds
Human == [role |-> "human", calls |-> <<>>, call |-> 0]
Assistant(calls) == [role |-> "assistant", calls |-> calls, call |-> 0]
Tool(call) == [role |-> "tool", calls |-> <<>>, call |-> call]

\* The calls that have a result among some messages.
Answered(items) == {items[i].call : i \in {j \in DOMAIN items : items[j].role = "tool"}}
-----------------------------------------------------------------------------
(* Invocations *)

\* The input of Invoke is stored before the first superstep; it starts the
\* graph only if nothing is scheduled.
Prompt(answers) ==
    /\ pc = "idle"
    /\ prompts < MaxPrompts
    /\ prompts' = prompts + 1
    /\ messages' = Append(messages, Human)
    /\ next' = IF next = "end" THEN "before_agent" ELSE next
    /\ pc' = "loop"
    /\ resume' = answers
    /\ UNCHANGED <<batch, prefilled, kinds, asked, faults>>

\* Invoke without input, with or without a resume value.
Continue(answers) ==
    /\ pc = "idle"
    /\ next # "end"
    /\ pc' = "loop"
    /\ resume' = answers
    /\ UNCHANGED <<messages, next, batch, prefilled, kinds, asked, prompts, faults>>

\* Agent.Cancel, called once the run has stopped: the caller's last messages
\* are appended and nothing is scheduled any more.
Cancel(final) ==
    /\ pc = "idle"
    /\ faults < MaxFaults
    /\ faults' = faults + 1
    /\ messages' = messages \o final
    /\ next' = "end"
    /\ UNCHANGED <<pc, resume, batch, prefilled, kinds, prompts, asked>>

\* The invocation ends, with what it stored.
Ended ==
    /\ pc' = "idle"
    /\ resume' = <<>>
    /\ batch' = None
    /\ prefilled' = {}

\* An error, a cancelled context, the recursion limit or a crash.
Fail ==
    /\ pc # "idle"
    /\ faults < MaxFaults
    /\ faults' = faults + 1
    /\ Ended
    /\ UNCHANGED <<messages, next, kinds, asked, prompts>>
-----------------------------------------------------------------------------
(* before_agent, model and after_agent *)

\* repairToolCallHistory, one message: patched history and unanswered calls.
Flushed(repair) ==
    [patched |-> repair.patched \o [i \in DOMAIN repair.pending |-> Tool(repair.pending[i])],
     pending |-> <<>>]

Repaired(repair, item) ==
    IF item.role # "tool"
    THEN [patched |-> Append(Flushed(repair).patched, item), pending |-> item.calls]
    ELSE IF item.call \in Range(repair.pending)
    THEN [patched |-> Append(repair.patched, item),
          pending |-> SelectSeq(repair.pending, LAMBDA c : c # item.call)]
    ELSE repair

\* Mutant: unanswered calls are only looked for at the end of the history.
RepairTail(items) ==
    Flushed([patched |-> items,
             pending |-> IF items = <<>> THEN <<>> ELSE items[Len(items)].calls]).patched

\* Mutant: a history with an unanswered call is cut down to its prompts.
RepairCuts(items) ==
    LET unanswered == UNION {Range(items[i].calls) : i \in DOMAIN items} \ Answered(items)
    IN  IF unanswered = {} THEN items ELSE SelectSeq(items, LAMBDA m : m.role = "human")

Repair(items) ==
    Flushed(FoldLeft(Repaired, [patched |-> <<>>, pending |-> <<>>], items)).patched

BeforeAgent ==
    /\ pc = "loop"
    /\ next = "before_agent"
    /\ messages' = Repair(messages)
    /\ next' = "model"
    /\ resume' = <<>>
    /\ UNCHANGED <<pc, batch, prefilled, kinds, asked, prompts, faults>>

\* The response carries new calls, or none; routeModel.
Model(new) ==
    LET calls == [i \in DOMAIN new |-> Len(kinds) + i] IN
    /\ pc = "loop"
    /\ next = "model"
    /\ Len(kinds) + Len(new) <= MaxCalls
    /\ kinds' = kinds \o new
    /\ messages' = Append(messages, Assistant(calls))
    /\ next' = IF new = <<>> THEN "after_agent" ELSE "tools"
    /\ resume' = <<>>
    /\ UNCHANGED <<pc, batch, prefilled, asked, prompts, faults>>

AfterAgent ==
    /\ pc = "loop"
    /\ next = "after_agent"
    /\ next' = "end"
    /\ Ended
    /\ UNCHANGED <<messages, kinds, asked, prompts, faults>>
-----------------------------------------------------------------------------
(* tools *)

\* The last message with calls, what follows it, and its calls without a result.
BatchIndex == CHOOSE i \in DOMAIN messages :
    messages[i].calls # <<>> /\ \A j \in DOMAIN messages : j > i => messages[j].calls = <<>>
Later == SubSeq(messages, BatchIndex + 1, Len(messages))

Open == Range(messages[BatchIndex].calls) \ Answered(Later)

Gated(h, calls) == {c \in calls : kinds[c].hook = h}

\* The BeforeTools hooks, in the order of the middleware.  A hook that finds
\* calls to ask for interrupts if nothing was resumed, and fails if one of
\* them has no decision; the calls that were rejected it answers itself.
Hooks == {h \in 1..2 : Gated(h, Open) # {}}
Interrupting == resume = <<>> /\ Hooks # {}

\* Mutant: a call without a decision is let through.
UndecidedNever == resume # <<>> /\ FALSE

Undecided == resume # <<>> /\ \E h \in Hooks : ~(Gated(h, Open) \subseteq DOMAIN resume[1])

Rejected == {c \in Open : kinds[c].hook # 0 /\ resume # <<>> /\ c \in DOMAIN resume[1]
                          /\ resume[1][c] = "reject"}

AtTools == pc = "loop" /\ next = "tools"

\* The first hook with calls to ask for interrupts; nothing has run.
ToolsInterrupt ==
    /\ AtTools
    /\ Interrupting
    /\ asked' = Gated(IF 1 \in Hooks THEN 1 ELSE 2, Open)
    /\ Ended
    /\ UNCHANGED <<messages, next, kinds, prompts, faults>>

\* A hook fails for want of a decision: the run ends with an error.
ToolsRefuse ==
    /\ AtTools
    /\ Undecided
    /\ Ended
    /\ UNCHANGED <<messages, next, kinds, asked, prompts, faults>>

\* The calls that are left start, each in a goroutine.  There are some: a batch
\* without an open call, for which the code returns at once, needs a caller
\* who writes results into the history.
ToolsBegin ==
    /\ AtTools
    /\ Open # {}
    /\ ~Interrupting
    /\ ~Undecided
    /\ pc' = "tools"
    /\ batch' = [c \in Open \ Rejected |-> "running"]
    /\ prefilled' = Rejected
    /\ asked' = {}
    /\ UNCHANGED <<messages, next, resume, kinds, prompts, faults>>

\* Mutant: the resume value is always counted as used.
ToolResumeUsed == resume # <<>> /\ FALSE

\* What the tools see of the resume value: nothing, if a hook used it.
ToolResume == resume # <<>> /\ \A c \in DOMAIN batch \cup prefilled : kinds[c].hook = 0

\* executeTool: the tool returns a result, an error that becomes one, or an
\* interrupt.
ExecuteTool(c) ==
    /\ pc = "tools"
    /\ c \in DOMAIN batch
    /\ batch[c] = "running"
    /\ batch' = [batch EXCEPT ![c] = IF kinds[c].asks /\ ~ToolResume THEN "asks" ELSE "result"]
    /\ UNCHANGED <<messages, next, pc, resume, prefilled, kinds, asked, prompts, faults>>

Finished == {c \in DOMAIN batch : batch[c] = "result"}

\* The calls with a result once the batch has ended, an earlier attempt's included.
Results == Answered(Later) \cup Finished \cup prefilled

\* The results in the order of the calls.  If anything followed the message
\* with the calls, the whole history is overwritten and ends with them.
Combined ==
    LET results == SelectSeq(messages[BatchIndex].calls, LAMBDA c : c \in Results)
    IN  IF results = <<>> THEN messages
        ELSE SubSeq(messages, 1, BatchIndex) \o [i \in DOMAIN results |-> Tool(results[i])]

\* All calls are back: the results are stored.  If a tool interrupted, the
\* node stays scheduled; else routeTools.
ToolsEnd ==
    /\ pc = "tools"
    /\ \A c \in DOMAIN batch : batch[c] # "running"
    /\ messages' = Combined
    /\ IF Finished # DOMAIN batch
       THEN Ended /\ UNCHANGED next
       ELSE /\ next' = IF \E c \in Finished : kinds[c].direct THEN "after_agent" ELSE "model"
            /\ pc' = "loop"
            /\ resume' = <<>>
            /\ batch' = None
            /\ prefilled' = {}
    /\ UNCHANGED <<kinds, asked, prompts, faults>>
-----------------------------------------------------------------------------
\* What the caller may resume with: decisions on some of the open calls.
Answers ==
    {<<>>} \cup (IF next # "tools" THEN {}
                 ELSE {<<f>> : f \in UNION {[s -> {"approve", "reject"}] : s \in SUBSET Open}})

Responses == UNION {[1..n -> Kinds] : n \in 0..MaxBatch}

ApproveAll == next = "tools" /\ Continue(<<[c \in Open |-> "approve"]>>)

Loop ==
    \/ BeforeAgent
    \/ \E new \in Responses : Model(new)
    \/ ToolsInterrupt \/ ToolsRefuse \/ ToolsBegin
    \/ \E c \in Calls : ExecuteTool(c)
    \/ ToolsEnd
    \/ AfterAgent

Next ==
    \/ \E answers \in Answers : Prompt(answers) \/ Continue(answers)
    \/ \E final \in {<<>>, <<Assistant(<<>>)>>} : Cancel(final)
    \/ Loop
    \/ Fail

\* A run makes progress, as its goroutine and its tools do; and the caller,
\* if interrupted again and again, now and then approves all that is open.
Spec == Init /\ [][Next]_vars /\ WF_vars(Loop) /\ SF_vars(ApproveAll)
-----------------------------------------------------------------------------
(* Properties *)

\* Whenever the model is called, the history is one that a provider accepts:
\* each message with calls is followed at once by one result for each of
\* them, and by no other result, whatever was interrupted, cancelled, lost
\* or prompted before (PatchToolCalls, executeTools).
ModelHistory ==
    pc = "loop" /\ next = "model" =>
        \A i \in DOMAIN messages :
            LET calls == messages[i].calls IN
            /\ i + Len(calls) <= Len(messages)
            /\ Answered(SubSeq(messages, i + 1, i + Len(calls))) = Range(calls)
            /\ messages[i].role = "tool" =>
                   Cardinality({j \in DOMAIN messages :
                       messages[j].role = "tool" /\ messages[j].call = messages[i].call}) = 1

\* The calls that run have no result in the history yet, and those a hook
\* asks for have been approved by the value this run was resumed with.
BatchSound ==
    \A c \in DOMAIN batch :
        /\ c \notin Answered(messages)
        /\ kinds[c].hook # 0 => resume # <<>> /\ c \in DOMAIN resume[1] /\ resume[1][c] = "approve"

\* No step takes a result out of the history: what tools did before an
\* interrupt, a failure or a cancellation stays on record.
ResultsKept == [][Answered(messages) \subseteq Answered(messages')]_vars

\* A batch of calls that was begun ends: the tools node is not scheduled for
\* ever, if the caller approves all that is open again and again.
BatchEnds == next = "tools" ~> next # "tools"

\* "including several pending calls in one interrupt" (HumanApproval): who
\* answers all the calls an interrupt listed is not refused for want of a
\* decision.  Not so when two hooks ask for calls of one batch: only the
\* first one's are listed, and resuming with decisions on them fails.
AskedSuffices ==
    AtTools /\ resume # <<>> /\ asked # {} /\ asked \subseteq DOMAIN resume[1] => ~Undecided

\* "Invoke starts or resumes an agent": the prompts it is given stay in the
\* history.  Not so for a prompt given while the tools node is scheduled: the
\* history is overwritten with the calls and their results.
PromptsKept ==
    Cardinality({i \in DOMAIN messages : messages[i].role = "human"}) = prompts
=============================================================================
