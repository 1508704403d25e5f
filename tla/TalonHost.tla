----------------------------- MODULE TalonHost -----------------------------
(***************************************************************************)
(* The long-running assistant host (datalon/host.go, host_approval.go).    *)
(* A host starts a runtime, its channels and a scheduler, and stops them   *)
(* again; started channels and the scheduler call Receive and RunScheduled *)
(* from goroutines of their own.  A call is one such goroutine: it passes  *)
(* the lifecycle lock, queues at the gate of its conversation, invokes the *)
(* runtime and may ask the channel to approve a tool.                      *)
(*                                                                         *)
(* Runtime, channel and scheduler are interfaces; what the host relies on  *)
(* is modelled: Invoke returns, and the Stop of a channel or scheduler     *)
(* cancels its calls and waits for them until the context of Stop expires  *)
(* (telegram.go, whatsapp/channel.go, cron/scheduler.go do this).          *)
(* joinedContext makes the context of an invocation end with the host's    *)
(* root, with the context of the call, or by the stop command.             *)
(***************************************************************************)
EXTENDS Naturals, Sequences, FiniteSets, Functions

CONSTANTS
    Calls,          \* call goroutines
    Channels,       \* channel ids, in the order of Host.channels
    Convs,          \* conversation keys
    ChannelOf,      \* the channel of each conversation
    Senders,        \* sender ids; "" is an unknown sender
    Kinds,          \* kinds of messages: "text", "/stop", "approve", "deny"
    MaxCalls,       \* bound: calls made
    MaxStarts       \* bound: starts of the host

ASSUME HostAssumption ==
    /\ "none" \notin Calls
    /\ Channels \in Seq(Range(Channels))
    /\ ChannelOf \in [Convs -> Range(Channels)]
    /\ Kinds \subseteq {"text", "/stop", "approve", "deny"}

VARIABLES
    host,           \* lifecycle of the host
    call,           \* locals and contexts of each call
    generation,     \* conversation.generation
    gate,           \* the call that holds conversation.gate, or NoCall
    pending,        \* approvalRegistry.pending: the asking call, or NoCall
    made,           \* calls made so far
    starts          \* starts of the host so far

hostVars == <<host, call, generation, gate, pending, made, starts>>

NoCall == "none"

Free == [pc |-> "free", from |-> "", kind |-> "", conv |-> "", sender |-> "", gen |-> 0,
         rootDone |-> FALSE, ctxDone |-> FALSE, stopDone |-> FALSE, answer |-> "",
         stopAt |-> ""]

Down == [phase |-> "down", started |-> <<>>, closing |-> FALSE, late |-> FALSE]

Init ==
    /\ host = Down
    /\ call = [c \in Calls |-> Free]
    /\ generation = [v \in Convs |-> 0]
    /\ gate = [v \in Convs |-> NoCall]
    /\ pending = [v \in Convs |-> NoCall]
    /\ made = 0
    /\ starts = 0

\* Start, Stop and rollback run with host.lifecycle held.
Locked == host.phase \notin {"down", "up"}

\* Calls that passed activeState and not yet called work.Done.
InFlight == {c \in Calls : call[c].pc \notin {"free", "enter"}}

\* Calls in conversation.active.
Registered(v) ==
    {c \in Calls : call[c].conv = v
                   /\ call[c].pc \in {"active", "prompting", "asking", "answered", "leaving"}}

Cancelled(c) == call[c].rootDone \/ call[c].ctxDone \/ call[c].stopDone

Components == <<"runtime">> \o Channels \o <<"scheduler">>
-----------------------------------------------------------------------------
(* Lifecycle *)

BeginStart ==
    /\ host.phase = "down"
    /\ starts < MaxStarts
    /\ starts' = starts + 1
    /\ host' = [host EXCEPT !.phase = "starting"]
    /\ UNCHANGED <<call, generation, gate, pending, made>>

StartComponent ==
    /\ host.phase = "starting"
    /\ Len(host.started) < Len(Components)
    /\ host' = [host EXCEPT !.started = Append(@, Components[Len(@) + 1])]
    /\ UNCHANGED <<call, generation, gate, pending, made, starts>>

EndStart ==
    /\ host.phase = "starting"
    /\ host.started = Components
    /\ host' = [host EXCEPT !.phase = "up"]
    /\ UNCHANGED <<call, generation, gate, pending, made, starts>>

\* approvals.clear: every unresolved request is answered by the cancellation.
ClearApprovals ==
    /\ pending' = [v \in Convs |-> NoCall]
    /\ call' = [c \in Calls |->
           IF c \in {pending[v] : v \in Convs} /\ call[c].answer = ""
           THEN [call[c] EXCEPT !.answer = "cancelled"] ELSE call[c]]

\* A component fails to start: rollback, which does not wait for work.
StartFails ==
    /\ host.phase = "starting"
    /\ Len(host.started) < Len(Components)
    /\ host' = [host EXCEPT !.phase = "stopping"]
    /\ ClearApprovals
    /\ UNCHANGED <<generation, gate, made, starts>>

\* Stop takes the lock and cancels the root context of every call.
BeginStop ==
    /\ host.phase = "up"
    /\ host' = [host EXCEPT !.phase = "clearing"]
    /\ call' = [c \in Calls |-> IF c \in InFlight THEN [call[c] EXCEPT !.rootDone = TRUE]
                                ELSE call[c]]
    /\ UNCHANGED <<generation, gate, pending, made, starts>>

StopClears ==
    /\ host.phase = "clearing"
    /\ host' = [host EXCEPT !.phase = "draining"]
    /\ ClearApprovals
    /\ UNCHANGED <<generation, gate, made, starts>>

\* Mutant: work is not waited for.
DrainSkipped ==
    /\ host.phase = "draining"
    /\ host' = [host EXCEPT !.phase = "stopping"]
    /\ UNCHANGED <<call, generation, gate, pending, made, starts>>

WorkDone ==
    /\ host.phase = "draining"
    /\ InFlight = {}
    /\ host' = [host EXCEPT !.phase = "stopping"]
    /\ UNCHANGED <<call, generation, gate, pending, made, starts>>

\* The context of Stop expires before the work is done.
WorkTimeout ==
    /\ host.phase = "draining"
    /\ InFlight # {}
    /\ host' = [host EXCEPT !.phase = "stopping", !.late = TRUE]
    /\ UNCHANGED <<call, generation, gate, pending, made, starts>>

\* What Stop stops next: channels in reverse order, scheduler, runtime.
Closing ==
    LET left == SelectSeq(host.started, LAMBDA x : x \notin {"runtime", "scheduler"}) IN
    IF left # <<>> THEN left[Len(left)]
    ELSE IF "scheduler" \in Range(host.started) THEN "scheduler" ELSE "runtime"

\* The component takes no more work and cancels the context of its calls.
BeginClose ==
    /\ host.phase = "stopping"
    /\ host.started # <<>>
    /\ ~host.closing
    /\ host' = [host EXCEPT !.closing = TRUE]
    /\ call' = [c \in Calls |-> IF call[c].pc # "free" /\ call[c].from = Closing
                                THEN [call[c] EXCEPT !.ctxDone = TRUE] ELSE call[c]]
    /\ UNCHANGED <<generation, gate, pending, made, starts>>

\* Mutant: the component stays the one being stopped.
ClosedStuck(late) ==
    /\ host' = [host EXCEPT !.late = @ \/ late,
                            !.started = SelectSeq(@, LAMBDA x : x # Closing)]
    /\ UNCHANGED <<call, generation, gate, pending, made, starts>>

Closed(late) ==
    /\ host' = [host EXCEPT !.closing = FALSE, !.late = @ \/ late,
                            !.started = SelectSeq(@, LAMBDA x : x # Closing)]
    /\ UNCHANGED <<call, generation, gate, pending, made, starts>>

CloseDone ==
    /\ host.phase = "stopping"
    /\ host.closing
    /\ \A c \in Calls : call[c].pc = "free" \/ call[c].from # Closing
    /\ Closed(FALSE)

CloseTimeout ==
    /\ host.phase = "stopping"
    /\ host.closing
    /\ \E c \in Calls : call[c].pc # "free" /\ call[c].from = Closing
    /\ Closed(TRUE)

EndStop ==
    /\ host.phase = "stopping"
    /\ host.started = <<>>
    /\ host' = [host EXCEPT !.phase = "down"]
    /\ UNCHANGED <<call, generation, gate, pending, made, starts>>

Lifecycle ==
    \/ StartComponent \/ EndStart \/ StartFails
    \/ StopClears \/ WorkDone \/ WorkTimeout
    \/ BeginClose \/ CloseDone \/ CloseTimeout \/ EndStop
-----------------------------------------------------------------------------
(* Calls *)

Open(x) == x \in Range(host.started) /\ ~(host.phase = "stopping" /\ host.closing /\ Closing = x)

MakeCall(c, from, kind, v, sender) ==
    /\ call[c].pc = "free"
    /\ made < MaxCalls
    /\ made' = made + 1
    /\ Open(from)
    /\ call' = [call EXCEPT ![c] = [Free EXCEPT !.pc = "enter", !.from = from, !.kind = kind,
                                                !.conv = v, !.sender = sender]]
    /\ UNCHANGED <<host, generation, gate, pending, starts>>

Message(c) == \E v \in Convs, kind \in Kinds, sender \in Senders :
    MakeCall(c, ChannelOf[v], kind, v, sender)

\* The scheduler runs one job at a time.
Job(c) ==
    /\ \A d \in Calls : call[d].from # "scheduler"
    /\ \E v \in Convs : MakeCall(c, "scheduler", "job", v, "")

To(c, pc) == call' = [call EXCEPT ![c].pc = pc]

\* activeState: blocks while the lifecycle lock is held.
Enter(c) ==
    /\ call[c].pc = "enter"
    /\ ~Locked
    /\ call' = [call EXCEPT ![c] = IF host.phase = "up" THEN [@ EXCEPT !.pc = "entered"] ELSE Free]
    /\ UNCHANGED <<host, generation, gate, pending, made, starts>>

\* conversation.stop: the next generation, and every registered call of the
\* conversation is cancelled.
Stop(c) ==
    LET v == call[c].conv IN
    /\ call[c].pc = "entered"
    /\ call[c].kind = "/stop"
    /\ generation' = [generation EXCEPT ![v] = @ + 1]
    /\ call' = [d \in Calls |->
           IF d = c THEN [call[d] EXCEPT !.pc = "exit"]
           ELSE IF call[d].conv = v /\ call[d].pc \in {"wait", "held", "checked"}
           THEN [call[d] EXCEPT !.stopAt = call[d].pc]
           ELSE IF d \in Registered(v)
           THEN [call[d] EXCEPT !.stopAt = call[d].pc, !.stopDone = TRUE]
           ELSE call[d]]
    /\ UNCHANGED <<host, gate, pending, made, starts>>

\* Whether approvals.consume takes the message.
Consumes(c) ==
    LET owner == pending[call[c].conv] IN
    /\ call[c].kind \in {"approve", "deny"}
    /\ owner # NoCall
    /\ call[owner].answer = ""
    /\ call[owner].sender \in {"", call[c].sender}

Consume(c) ==
    /\ call[c].pc = "entered"
    /\ Consumes(c)
    /\ call' = [call EXCEPT ![c].pc = "exit", ![pending[call[c].conv]].answer = call[c].kind]
    /\ UNCHANGED <<host, generation, gate, pending, made, starts>>

NotConsumed(c) ==
    /\ call[c].pc = "entered"
    /\ call[c].kind # "/stop"
    /\ ~Consumes(c)
    /\ To(c, "passed")
    /\ UNCHANGED <<host, generation, gate, pending, made, starts>>

Queue(c) ==
    /\ call[c].pc = "passed"
    /\ call' = [call EXCEPT ![c].pc = "wait", ![c].gen = generation[call[c].conv]]
    /\ UNCHANGED <<host, generation, gate, pending, made, starts>>

\* Mutant: the gate has room for a second call.
AcquireShared(c) ==
    /\ call[c].pc = "wait"
    /\ gate' = [gate EXCEPT ![call[c].conv] = c]
    /\ To(c, "held")
    /\ UNCHANGED <<host, generation, pending, made, starts>>

Acquire(c) ==
    /\ call[c].pc = "wait"
    /\ gate[call[c].conv] = NoCall
    /\ gate' = [gate EXCEPT ![call[c].conv] = c]
    /\ To(c, "held")
    /\ UNCHANGED <<host, generation, pending, made, starts>>

GiveUp(c) ==
    /\ call[c].pc = "wait"
    /\ call[c].ctxDone \/ call[c].rootDone
    /\ To(c, "exit")
    /\ UNCHANGED <<host, generation, gate, pending, made, starts>>

\* Mutant: the generation is not compared again.
RecheckSkipped(c) ==
    /\ call[c].pc = "held"
    /\ To(c, "checked")
    /\ UNCHANGED <<host, generation, gate, pending, made, starts>>

Recheck(c) ==
    /\ call[c].pc = "held"
    /\ To(c, IF call[c].gen = generation[call[c].conv] THEN "checked" ELSE "release")
    /\ UNCHANGED <<host, generation, gate, pending, made, starts>>

\* register; Invoke starts.
Register(c) ==
    /\ call[c].pc = "checked"
    /\ To(c, "active")
    /\ UNCHANGED <<host, generation, gate, pending, made, starts>>

\* requestToolApproval, for a channel's call whose context is not done.
Ask(c) ==
    /\ call[c].pc = "active"
    /\ call[c].kind # "job"
    /\ ~Cancelled(c)
    /\ To(c, "prompting")
    /\ UNCHANGED <<host, generation, gate, pending, made, starts>>

\* install; a request that finds another one pending is rejected.
Install(c) ==
    LET v == call[c].conv IN
    /\ call[c].pc = "prompting"
    /\ IF pending[v] = NoCall
       THEN /\ pending' = [pending EXCEPT ![v] = c]
            /\ call' = [call EXCEPT ![c].pc = "asking", ![c].answer = ""]
       ELSE To(c, "active") /\ UNCHANGED pending
    /\ UNCHANGED <<host, generation, gate, made, starts>>

\* The reply, or the cancellation of the registry, arrives.
Answered(c) ==
    /\ call[c].pc = "asking"
    /\ call[c].answer # ""
    /\ To(c, "answered")
    /\ UNCHANGED <<host, generation, gate, pending, made, starts>>

\* The prompt cannot be sent, the approval times out, or the context is done;
\* it may win against a reply that has been consumed.
AskFails(c) ==
    /\ call[c].pc = "asking"
    /\ call' = [call EXCEPT ![c].pc = "answered", ![c].answer = "rejected"]
    /\ UNCHANGED <<host, generation, gate, pending, made, starts>>

\* Mutant: the request stays in the registry.
RemoveForgets(c) ==
    /\ call[c].pc = "answered"
    /\ To(c, "active")
    /\ UNCHANGED <<host, generation, gate, pending, made, starts>>

\* The deferred remove: only the call's own request goes.
RemoveRequest(c) ==
    /\ call[c].pc = "answered"
    /\ To(c, "active")
    /\ pending' = [v \in Convs |-> IF pending[v] = c THEN NoCall ELSE pending[v]]
    /\ UNCHANGED <<host, generation, gate, made, starts>>

\* Invoke returns; a result is sent while the call is still registered.
InvokeReturns(c) ==
    /\ call[c].pc = "active"
    /\ To(c, "leaving")
    /\ UNCHANGED <<host, generation, gate, pending, made, starts>>

Unregister(c) ==
    /\ call[c].pc = "leaving"
    /\ To(c, "release")
    /\ UNCHANGED <<host, generation, gate, pending, made, starts>>

\* Mutant: a scheduled job keeps the gate.
ReleaseMessages(c) ==
    /\ call[c].pc = "release"
    /\ IF call[c].kind # "job"
       THEN gate' = [gate EXCEPT ![call[c].conv] = NoCall] ELSE UNCHANGED gate
    /\ To(c, "exit")
    /\ UNCHANGED <<host, generation, pending, made, starts>>

Release(c) ==
    /\ call[c].pc = "release"
    /\ gate' = [gate EXCEPT ![call[c].conv] = NoCall]
    /\ To(c, "exit")
    /\ UNCHANGED <<host, generation, pending, made, starts>>

\* work.Done.
Exit(c) ==
    /\ call[c].pc = "exit"
    /\ call' = [call EXCEPT ![c] = Free]
    /\ UNCHANGED <<host, generation, gate, pending, made, starts>>

Step(c) ==
    \/ Enter(c) \/ Stop(c) \/ Consume(c) \/ NotConsumed(c) \/ Queue(c) \/ GiveUp(c)
    \/ Recheck(c) \/ Register(c) \/ Install(c) \/ Answered(c) \/ AskFails(c) \/ RemoveRequest(c)
    \/ InvokeReturns(c) \/ Unregister(c) \/ Release(c) \/ Exit(c)

Next ==
    \/ BeginStart \/ BeginStop \/ Lifecycle
    \/ \E c \in Calls : Message(c) \/ Job(c) \/ Acquire(c) \/ Ask(c) \/ Step(c)

\* Starting and stopping go on, a call goes on, an approval times out, Invoke
\* returns after finitely many requests (its recursion limit), and senders
\* blocked on a gate are served in turn.
Spec ==
    /\ Init /\ [][Next]_hostVars
    /\ WF_hostVars(Lifecycle)
    /\ \A c \in Calls : /\ WF_hostVars(Step(c))
                         /\ SF_hostVars(Acquire(c))
                         /\ SF_hostVars(InvokeReturns(c))
-----------------------------------------------------------------------------
(* Properties *)

Phases == {"down", "starting", "up", "clearing", "draining", "stopping"}

HoldsGate ==
    {"held", "checked", "active", "prompting", "asking", "answered", "leaving", "release"}

Invoking == {"active", "prompting", "asking", "answered"}

TypeOK ==
    /\ host.phase \in Phases
    /\ \A x \in Range(host.started) : x \in Range(Components)
    /\ host.closing => host.phase = "stopping"
    /\ \A c \in Calls :
         /\ call[c].pc \in {"free", "enter", "entered", "passed", "wait", "exit"} \cup HoldsGate
         /\ call[c].pc # "free" => call[c].conv \in Convs
    /\ \A v \in Convs : gate[v] \in Calls \cup {NoCall} /\ pending[v] \in Calls \cup {NoCall}
    /\ generation \in [Convs -> 0..MaxCalls]

\* Calls of a conversation are serialised: whatever is stopped, cancelled or
\* times out, one call at most is between the gate and its release
\* (host.go Receive, RunScheduled).
Serialized == \A c, d \in Calls :
    c # d /\ {call[c].pc, call[d].pc} \subseteq HoldsGate => call[c].conv # call[d].conv

\* The stop command cancels the call that is invoking and drops every call
\* that waits at the gate (host.go stop, Receive): none of them goes on to
\* invoke with a live context.
StopEffective == \A c \in Calls :
    call[c].pc \in Invoking /\ call[c].stopAt \notin {"", "checked"} => call[c].stopDone

\* "/stop cancels the active call and invalidates calls already queued behind
\* it" (host.go:205): no call queued or active when the command is handled
\* invokes the runtime with a live context afterwards.
StopInvalidates == \A c \in Calls :
    call[c].pc \in Invoking /\ call[c].stopAt # "" => call[c].stopDone

\* The runtime and the channel or scheduler a call came from are stopped only
\* when the call has left the runtime, unless the context of Stop expired
\* first (host.go Stop: work.Wait before the first component is stopped).
ComponentsInUse == \A c \in Calls :
    call[c].pc \in Invoking /\ ~host.late => Open("runtime") /\ Open(call[c].from)

\* A request in the approval registry belongs to a call that still waits for
\* it and holds the gate of its conversation, so that no request outlives its
\* call and blocks the next one (host_approval.go install, remove, clear).
PendingOwned == \A v \in Convs : pending[v] # NoCall =>
    gate[v] = pending[v] /\ call[pending[v]].pc \in {"asking", "answered"}

\* "Stop cancels work and stops scheduler, channels in reverse order, and
\* runtime" (host.go:141): no channel is stopped before the scheduler.
SchedulerFirst == [][\A x \in Range(Channels) :
    host.phase = "stopping" /\ x \in Range(host.started) /\ x \notin Range(host'.started)
        => "scheduler" \notin Range(host.started)]_hostVars

\* Every call returns: none waits for ever at the lifecycle lock, the gate or
\* an approval (host.go Receive, RunScheduled).  Start and Stop return too: a
\* Stop that waits for a channel whose call waits for the lifecycle lock Stop
\* holds is ended by its context (host.go Stop).
OperationsEnd ==
    /\ \A c \in Calls : (call[c].pc # "free" ~> call[c].pc = "free")
    /\ Locked ~> ~Locked
=============================================================================
