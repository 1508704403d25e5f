----------------------------- MODULE HostProofs -----------------------------
(***************************************************************************)
(* Proof that the host serves one call of a conversation at a time, that   *)
(* the stop command takes effect, that components are stopped when no call *)
(* uses them, and that approval requests belong to a waiting call, for any *)
(* number of calls, conversations, channels, starts and stops.             *)
(***************************************************************************)
EXTENDS TalonHost, TLAPS

Pcs == {"free", "enter", "entered", "passed", "wait", "exit"} \cup HoldsGate
Sources == Range(Channels) \cup {"scheduler"}

CallRecord ==
    [pc : Pcs, from : Sources \cup {""}, kind : Kinds \cup {"job", ""}, conv : Convs \cup {""},
     sender : Senders \cup {""}, gen : Nat, rootDone : BOOLEAN, ctxDone : BOOLEAN,
     stopDone : BOOLEAN, answer : {"", "approve", "deny", "rejected", "cancelled"},
     stopAt : Pcs \cup {""}]

\* The variables are the functions and records that EXCEPT needs.
Shape ==
    /\ call \in [Calls -> CallRecord]
    /\ generation \in [Convs -> Nat]
    /\ gate \in [Convs -> Calls \cup {NoCall}]
    /\ pending \in [Convs -> Calls \cup {NoCall}]
    /\ host = [phase |-> host.phase, started |-> host.started, closing |-> host.closing,
               late |-> host.late]
    /\ host.phase \in Phases
    /\ host.late \in BOOLEAN

\* A call under way belongs to a conversation and came from a component.
AddressedCall(c) == call[c].pc # "free" => call[c].conv \in Convs /\ call[c].from \in Sources
Addressed == \A c \in Calls : AddressedCall(c)

\* The gate knows the call that holds it.
GateHeld == \A c \in Calls : call[c].pc \in HoldsGate => gate[call[c].conv] = c

\* A call that was stopped before its check has an old generation, and passes
\* the check only if it was not; from then on only a stop between the check
\* and the registration leaves its context alive.
StopSeenBy(c) ==
    /\ call[c].pc \in {"free", "enter", "entered", "passed"} => call[c].stopAt = ""
    /\ call[c].pc \in {"wait", "held"} =>
         /\ call[c].gen <= generation[call[c].conv]
         /\ call[c].stopAt # "" => call[c].gen < generation[call[c].conv]
    /\ call[c].pc = "checked" => call[c].stopAt \in {"", "checked"}
    /\ call[c].pc \in Invoking \cup {"leaving"} /\ call[c].stopAt \notin {"", "checked"} =>
         call[c].stopDone
StopSeen == \A c \in Calls : StopSeenBy(c)

\* While the host is up, and until Stop is done waiting, all components run.
AllStarted == host.phase \in {"up", "clearing", "draining"} => host.started = Components

\* Calls are in flight only then, unless a Stop was late.
Drained == InFlight # {} /\ ~host.late => host.phase \in {"up", "clearing", "draining"}

\* The inductive invariant of Spec.
HostInv ==
    Shape /\ Addressed /\ GateHeld /\ PendingOwned /\ StopSeen /\ AllStarted /\ Drained

\* The calls a lifecycle step leaves where they are: at the same point of
\* their code, with what they know; contexts and answers may change.
Same(c) ==
    /\ call'[c].pc = call[c].pc
    /\ call'[c].conv = call[c].conv
    /\ call'[c].from = call[c].from
    /\ call'[c].gen = call[c].gen
    /\ call'[c].stopAt = call[c].stopAt
    /\ call'[c].stopDone = call[c].stopDone

\* The components a call may come from are all among those that are started.
LEMMA ComponentsContain == Sources \cup {"runtime"} \subseteq Range(Components)
<1>1. Channels \in Seq(Range(Channels)) BY HostAssumption
<1>2. /\ Len(Components) = Len(Channels) + 2
      /\ Components[1] = "runtime"
      /\ \A i \in 1..Len(Channels) : Components[i + 1] = Channels[i]
      /\ Components[Len(Channels) + 2] = "scheduler"
  BY <1>1 DEF Components
<1>3. Len(Channels) \in Nat /\ DOMAIN Channels = 1..Len(Channels) BY <1>1
<1>4. Len(Components) \in Nat /\ DOMAIN Components = 1..Len(Components)
  BY <1>1 DEF Components
<1>5. "runtime" \in Range(Components) /\ "scheduler" \in Range(Components)
  <2>1. 1 \in DOMAIN Components /\ Len(Channels) + 2 \in DOMAIN Components BY <1>2, <1>3, <1>4
  <2> QED BY <1>2, <2>1 DEF Range
<1>6. ASSUME NEW x \in Range(Channels) PROVE x \in Range(Components)
  <2>1. PICK i \in 1..Len(Channels) : Channels[i] = x BY <1>3 DEF Range
  <2>2. i + 1 \in DOMAIN Components /\ Components[i + 1] = x BY <1>2, <1>3, <1>4, <2>1
  <2> QED BY <2>2 DEF Range
<1> QED BY <1>5, <1>6 DEF Sources

LEMMA InitHost == Init => HostInv
<1> SUFFICES ASSUME Init PROVE HostInv OBVIOUS
<1>1. Shape BY Zenon DEF Init, Shape, Down, Free, CallRecord, Pcs, Phases
<1>2. Addressed /\ GateHeld /\ StopSeen
  BY Zenon DEF Init, Addressed, AddressedCall, GateHeld, StopSeen, StopSeenBy, Free, HoldsGate,
               Invoking
<1>3. PendingOwned /\ AllStarted /\ Drained
  BY Zenon DEF Init, PendingOwned, AllStarted, Drained, InFlight, Down, Free
<1> QED BY <1>1, <1>2, <1>3 DEF HostInv

\* What a step that leaves every call where it is has to show.
LEMMA LifecycleKeeps ==
    ASSUME HostInv, Shape', \A c \in Calls : Same(c),
           generation' = generation, gate' = gate,
           \A v \in Convs : pending'[v] \in {pending[v], NoCall},
           AllStarted', Drained'
    PROVE  HostInv'
<1>1. Addressed' BY DEF HostInv, Addressed, AddressedCall, Same
<1>2. GateHeld' BY DEF HostInv, GateHeld, Same
<1>3. PendingOwned' BY DEF HostInv, Shape, PendingOwned, Same
<1>4. StopSeen' BY Zenon DEF HostInv, StopSeen, StopSeenBy, Same
<1> QED BY <1>1, <1>2, <1>3, <1>4 DEF HostInv

\* Cancelling a context and answering a request change one field of a call.
LEMMA FieldSet ==
    ASSUME NEW r \in CallRecord, NEW a \in {"approve", "deny", "rejected", "cancelled", ""}
    PROVE  /\ [r EXCEPT !.rootDone = TRUE] \in CallRecord
           /\ [r EXCEPT !.ctxDone = TRUE] \in CallRecord
           /\ [r EXCEPT !.answer = a] \in CallRecord
<1>1. [r EXCEPT !.rootDone = TRUE] \in CallRecord BY Zenon DEF CallRecord
<1>2. [r EXCEPT !.ctxDone = TRUE] \in CallRecord BY Zenon DEF CallRecord
<1>3. [r EXCEPT !.answer = a] \in CallRecord BY Zenon DEF CallRecord
<1> QED BY <1>1, <1>2, <1>3, Zenon

\* Start, Stop and rollback move the host through its phases and touch calls
\* only in their contexts and answers.
LEMMA LifecycleInv ==
    ASSUME HostInv, BeginStart \/ BeginStop \/ Lifecycle
    PROVE  HostInv'
<1>0. Shape BY DEF HostInv
<1>1. CASE BeginStart
  <2>1. Shape' BY <1>0, <1>1 DEF BeginStart, Shape, Phases
  <2>2. \A c \in Calls : Same(c) BY <1>1 DEF BeginStart, Same
  <2>3. AllStarted' /\ Drained'
    BY <1>0, <1>1 DEF HostInv, BeginStart, Shape, AllStarted, Drained, InFlight
  <2> QED BY <1>1, <2>1, <2>2, <2>3, LifecycleKeeps DEF BeginStart, Shape
<1>2. CASE BeginStop
  <2>1. Shape' BY <1>0, <1>2, FieldSet, Zenon DEF BeginStop, Shape, Phases
  <2>2. \A c \in Calls : Same(c)
    <3> TAKE c \in Calls
    <3>1. call[c] \in CallRecord BY <1>0 DEF Shape
    <3>2. call'[c] = call[c] \/ call'[c] = [call[c] EXCEPT !.rootDone = TRUE]
      BY <1>2 DEF BeginStop
    <3> QED BY <3>1, <3>2, Zenon DEF Same, CallRecord
  <2>3. AllStarted' BY <1>0, <1>2 DEF HostInv, BeginStop, Shape, AllStarted
  <2>4. Drained' BY <1>0, <1>2, <2>2 DEF BeginStop, Shape, Drained
  <2> QED BY <1>2, <2>1, <2>2, <2>3, <2>4, LifecycleKeeps DEF BeginStop, Shape
<1>3. CASE StartComponent
  <2>1. Shape' BY <1>0, <1>3, Zenon DEF StartComponent, Shape
  <2>2. \A c \in Calls : Same(c) BY <1>3 DEF StartComponent, Same
  <2>3. AllStarted' /\ Drained'
    BY <1>0, <1>3 DEF HostInv, StartComponent, Shape, AllStarted, Drained, InFlight
  <2> QED BY <1>3, <2>1, <2>2, <2>3, LifecycleKeeps DEF StartComponent, Shape
<1>4. CASE EndStart
  <2>1. Shape' BY <1>0, <1>4 DEF EndStart, Shape, Phases
  <2>2. \A c \in Calls : Same(c) BY <1>4 DEF EndStart, Same
  <2>3. AllStarted' /\ Drained'
    BY <1>0, <1>4 DEF HostInv, EndStart, Shape, AllStarted, Drained, InFlight
  <2> QED BY <1>4, <2>1, <2>2, <2>3, LifecycleKeeps DEF EndStart, Shape
<1>5. CASE StartFails
  <2>1. Shape' BY <1>0, <1>5, FieldSet, Zenon DEF StartFails, ClearApprovals, Shape, Phases
  <2>2. \A c \in Calls : Same(c)
    BY <1>0, <1>5, ZenonT(30) DEF StartFails, ClearApprovals, Same, Shape, CallRecord
  <2>3. AllStarted' BY <1>0, <1>5 DEF StartFails, Shape, AllStarted
  <2>4. Drained'
    <3>1. InFlight' = InFlight BY <2>2 DEF InFlight, Same
    <3>2. host.phase = "starting" /\ host'.late = host.late BY <1>0, <1>5 DEF StartFails, Shape
    <3>3. InFlight = {} \/ host.late BY <3>2 DEF HostInv, Drained
    <3> QED BY <3>1, <3>2, <3>3, Zenon DEF Drained
  <2> QED
    BY <1>5, <2>1, <2>2, <2>3, <2>4, LifecycleKeeps, Zenon DEF StartFails, ClearApprovals, Shape
<1>6. CASE StopClears
  <2>1. Shape' BY <1>0, <1>6, FieldSet, Zenon DEF StopClears, ClearApprovals, Shape, Phases
  <2>2. \A c \in Calls : Same(c)
    BY <1>0, <1>6, ZenonT(30) DEF StopClears, ClearApprovals, Same, Shape, CallRecord
  <2>3. AllStarted' BY <1>0, <1>6 DEF HostInv, StopClears, Shape, AllStarted
  <2>4. Drained' BY <1>0, <1>6 DEF StopClears, Shape, Drained
  <2> QED
    BY <1>6, <2>1, <2>2, <2>3, <2>4, LifecycleKeeps, Zenon DEF StopClears, ClearApprovals, Shape
<1>7. CASE WorkDone \/ WorkTimeout
  <2>1. Shape' BY <1>0, <1>7, Zenon DEF WorkDone, WorkTimeout, Shape, Phases
  <2>2. \A c \in Calls : Same(c) BY <1>7 DEF WorkDone, WorkTimeout, Same
  <2>3. AllStarted' BY <1>0, <1>7, Zenon DEF WorkDone, WorkTimeout, Shape, AllStarted
  <2>4. Drained' BY <1>0, <1>7, Zenon DEF WorkDone, WorkTimeout, Shape, Drained, InFlight
  <2> QED BY <1>7, <2>1, <2>2, <2>3, <2>4, LifecycleKeeps DEF WorkDone, WorkTimeout, Shape
<1>8. CASE BeginClose
  <2>1. Shape' BY <1>0, <1>8, FieldSet, Zenon DEF BeginClose, Shape
  <2>2. \A c \in Calls : Same(c)
    <3> TAKE c \in Calls
    <3>1. call[c] \in CallRecord BY <1>0 DEF Shape
    <3>2. call'[c] = call[c] \/ call'[c] = [call[c] EXCEPT !.ctxDone = TRUE]
      BY <1>8 DEF BeginClose
    <3> QED BY <3>1, <3>2, Zenon DEF Same, CallRecord
  <2>3. AllStarted' BY <1>0, <1>8 DEF BeginClose, Shape, AllStarted
  <2>4. Drained' BY <1>0, <1>8, <2>2 DEF HostInv, BeginClose, Shape, Drained, InFlight, Same
  <2> QED BY <1>8, <2>1, <2>2, <2>3, <2>4, LifecycleKeeps DEF BeginClose, Shape
<1>9. CASE CloseDone \/ CloseTimeout
  <2>1. host.phase = "stopping" /\ (Closed(FALSE) \/ Closed(TRUE))
    BY <1>9, Zenon DEF CloseDone, CloseTimeout
  <2>2. /\ Shape'
        /\ host'.phase = host.phase
        /\ host'.late = host.late \/ host'.late
    BY <1>0, <2>1, Zenon DEF Closed, Shape
  <2>3. \A c \in Calls : Same(c) BY <2>1 DEF Closed, Same
  <2>4. AllStarted' /\ Drained'
    BY <2>1, <2>2 DEF HostInv, Closed, AllStarted, Drained, InFlight
  <2> QED BY <2>1, <2>2, <2>3, <2>4, LifecycleKeeps DEF Closed, Shape
<1>10. CASE EndStop
  <2>1. Shape' BY <1>0, <1>10 DEF EndStop, Shape, Phases
  <2>2. \A c \in Calls : Same(c) BY <1>10 DEF EndStop, Same
  <2>3. AllStarted' /\ Drained'
    BY <1>0, <1>10 DEF HostInv, EndStop, Shape, AllStarted, Drained, InFlight
  <2> QED BY <1>10, <2>1, <2>2, <2>3, LifecycleKeeps DEF EndStop, Shape
<1> QED BY <1>1, <1>2, <1>3, <1>4, <1>5, <1>6, <1>7, <1>8, <1>9, <1>10 DEF Lifecycle

\* A call that goes on to another point of its code keeps what it knows.
LEMMA Moved ==
    ASSUME Shape, NEW c \in Calls, NEW p \in Pcs, To(c, p)
    PROVE  /\ call' \in [Calls -> CallRecord]
           /\ call'[c] = [call[c] EXCEPT !.pc = p]
           /\ call'[c].pc = p
           /\ call'[c].conv = call[c].conv
           /\ call'[c].from = call[c].from
           /\ call'[c].gen = call[c].gen
           /\ call'[c].stopAt = call[c].stopAt
           /\ call'[c].stopDone = call[c].stopDone
           /\ \A d \in Calls \ {c} : Same(d)
<1>1. call[c] \in CallRecord BY DEF Shape
<1>2. [call[c] EXCEPT !.pc = p] \in CallRecord BY <1>1, Zenon DEF CallRecord
<1>3. call' = [call EXCEPT ![c] = [call[c] EXCEPT !.pc = p]] BY DEF To
<1>4. call'[c] = [call[c] EXCEPT !.pc = p] BY <1>3 DEF Shape
<1>5. \A d \in Calls \ {c} : Same(d) BY <1>3 DEF Shape, Same
<1>6. call' \in [Calls -> CallRecord] BY <1>2, <1>3 DEF Shape
<1> QED BY <1>1, <1>4, <1>5, <1>6, Zenon DEF CallRecord

\* What a step of one call has to show.
LEMMA CallMove ==
    ASSUME HostInv, NEW c \in Calls,
           call' \in [Calls -> CallRecord],
           gate' \in [Convs -> Calls \cup {NoCall}],
           pending' \in [Convs -> Calls \cup {NoCall}],
           UNCHANGED <<host, generation>>,
           \A d \in Calls \ {c} : Same(d),
           AddressedCall(c)', StopSeenBy(c)', GateHeld', PendingOwned',
           call'[c].pc \notin {"free", "enter"} =>
               call[c].pc \notin {"free", "enter"} \/ host.phase = "up"
    PROVE  HostInv'
<1>1. Shape' BY DEF HostInv, Shape
<1>2. Addressed' BY DEF HostInv, Addressed, AddressedCall, Same
<1>3. StopSeen' BY ZenonT(30) DEF HostInv, StopSeen, StopSeenBy, Same
<1>4. AllStarted' BY DEF HostInv, AllStarted
<1>5. Drained'
  <2>1. InFlight' \subseteq InFlight \/ host.phase = "up" BY DEF InFlight, Same
  <2> QED BY <2>1 DEF HostInv, Drained
<1> QED BY <1>1, <1>2, <1>3, <1>4, <1>5 DEF HostInv

\* The same for a step that leaves the gates and the registry alone.
LEMMA PlainMove ==
    ASSUME HostInv, NEW c \in Calls,
           call' \in [Calls -> CallRecord],
           UNCHANGED <<host, generation, gate, pending>>,
           \A d \in Calls \ {c} : Same(d),
           AddressedCall(c)', StopSeenBy(c)',
           call'[c].pc \in HoldsGate => call[c].pc \in HoldsGate /\ call'[c].conv = call[c].conv,
           call[c].pc \in {"asking", "answered"} => call'[c].pc \in {"asking", "answered"},
           call'[c].pc \notin {"free", "enter"} =>
               call[c].pc \notin {"free", "enter"} \/ host.phase = "up"
    PROVE  HostInv'
<1>1. GateHeld' BY DEF HostInv, GateHeld, Same
<1>2. PendingOwned'
  <2>1. \A d \in Calls : call[d].pc \in {"asking", "answered"} =>
                          call'[d].pc \in {"asking", "answered"}
    BY DEF Same
  <2> QED BY <2>1 DEF HostInv, Shape, PendingOwned
<1>3. /\ gate' \in [Convs -> Calls \cup {NoCall}]
      /\ pending' \in [Convs -> Calls \cup {NoCall}]
  BY DEF HostInv, Shape
<1> QED BY <1>1, <1>2, <1>3, CallMove

\* The steps that only take the call to its next point.
LEMMA PlainSteps ==
    ASSUME HostInv, NEW c \in Calls,
           \/ NotConsumed(c) \/ GiveUp(c) \/ Recheck(c) \/ Register(c) \/ Ask(c)
           \/ Answered(c) \/ InvokeReturns(c) \/ Unregister(c)
    PROVE  HostInv'
<1>0. Shape /\ AddressedCall(c) /\ StopSeenBy(c)
  BY DEF HostInv, Addressed, StopSeen
<1>1. PICK p \in Pcs :
        /\ To(c, p)
        /\ UNCHANGED <<host, generation, gate, pending>>
        /\ \/ call[c].pc = "entered" /\ p = "passed"
           \/ call[c].pc = "wait" /\ p = "exit"
           \/ call[c].pc = "held" /\ p = "checked" /\ call[c].gen = generation[call[c].conv]
           \/ call[c].pc = "held" /\ p = "release"
           \/ call[c].pc = "checked" /\ p = "active"
           \/ call[c].pc = "active" /\ p \in {"prompting", "leaving"}
           \/ call[c].pc = "asking" /\ p = "answered"
           \/ call[c].pc = "leaving" /\ p = "release"
  BY Zenon DEF NotConsumed, GiveUp, Recheck, Register, Ask, Answered, InvokeReturns, Unregister,
         Pcs, HoldsGate
<1>2. /\ call'[c].pc = p
      /\ call'[c].conv = call[c].conv
      /\ call'[c].from = call[c].from
      /\ call'[c].gen = call[c].gen
      /\ call'[c].stopAt = call[c].stopAt
      /\ call'[c].stopDone = call[c].stopDone
  BY <1>0, <1>1, Moved, Zenon
<1>3. AddressedCall(c)' BY <1>0, <1>1, <1>2 DEF AddressedCall
<1>4. StopSeenBy(c)'
  <2>1. call[c].pc = "held" => call[c].conv \in Convs /\ generation[call[c].conv] \in Nat
    BY <1>0 DEF AddressedCall, Shape
  <2>2. call[c].gen \in Nat BY <1>0, Zenon DEF Shape, CallRecord
  <2>3. p = "checked" => call'[c].stopAt = ""
    <3> SUFFICES ASSUME p = "checked" PROVE call[c].stopAt = "" BY <1>2, Zenon
    <3>1. call[c].pc = "held" /\ call[c].gen = generation[call[c].conv] BY <1>1
    <3>2. call[c].stopAt # "" => call[c].gen < generation[call[c].conv]
      BY <1>0, <3>1, Zenon DEF StopSeenBy
    <3>3. ~(call[c].gen < call[c].gen) BY <2>2
    <3> QED BY <3>1, <3>2, <3>3, Zenon
  <2>4. p = "passed" => call'[c].stopAt = ""
    BY <1>0, <1>1, <1>2, Zenon DEF StopSeenBy
  <2>5. p \in Invoking \cup {"leaving"} /\ call'[c].stopAt \notin {"", "checked"} =>
          call'[c].stopDone
    BY <1>0, <1>1, <1>2, Zenon DEF StopSeenBy, Invoking
  <2> QED BY <1>1, <1>2, <2>3, <2>4, <2>5, Zenon DEF StopSeenBy, Invoking
<1>5. call'[c].pc \in HoldsGate => call[c].pc \in HoldsGate /\ call'[c].conv = call[c].conv
  BY <1>1, <1>2 DEF HoldsGate
<1>6. /\ call' \in [Calls -> CallRecord]
      /\ \A d \in Calls \ {c} : Same(d)
  BY <1>0, <1>1, Moved, Zenon
<1> QED BY <1>1, <1>2, <1>3, <1>4, <1>5, <1>6, PlainMove

\* A goroutine calls the host, enters it or is turned away, and leaves it.
LEMMA EdgeSteps ==
    ASSUME HostInv, NEW c \in Calls, Message(c) \/ Job(c) \/ Enter(c) \/ Exit(c)
    PROVE  HostInv'
<1>0. Shape /\ AddressedCall(c) /\ StopSeenBy(c) /\ call[c] \in CallRecord
  BY DEF HostInv, Addressed, StopSeen, Shape
<1>f. Free \in CallRecord BY DEF Free, CallRecord, Pcs
<1>1. CASE Message(c) \/ Job(c)
  <2>1. PICK from \in Sources, kind \in Kinds \cup {"job"}, v \in Convs,
             sender \in Senders \cup {""} : MakeCall(c, from, kind, v, sender)
    <3>1. CASE Message(c)
      <4>1. \A v \in Convs : ChannelOf[v] \in Sources BY HostAssumption DEF Sources
      <4> QED BY <3>1, <4>1, Zenon DEF Message
    <3>2. CASE Job(c) BY <3>2, Zenon DEF Job, Sources
    <3> QED BY <1>1, <3>1, <3>2, Zenon
  <2> DEFINE new == [Free EXCEPT !.pc = "enter", !.from = from, !.kind = kind,
                                 !.conv = v, !.sender = sender]
  <2>2. new \in CallRecord BY Zenon DEF Free, CallRecord, Pcs
  <2>3. /\ new.pc = "enter" /\ new.from = from /\ new.conv = v /\ new.stopAt = ""
    BY Zenon DEF Free
  <2>4. /\ call[c].pc = "free"
        /\ call' = [call EXCEPT ![c] = new]
        /\ UNCHANGED <<host, generation, gate, pending>>
    BY <2>1, Zenon DEF MakeCall
  <2> HIDE DEF new
  <2>5. /\ call' \in [Calls -> CallRecord]
        /\ call'[c] = new
        /\ \A d \in Calls \ {c} : Same(d)
    BY <1>0, <2>2, <2>4, Zenon DEF Shape, Same
  <2>6. AddressedCall(c)' BY <2>3, <2>5, Zenon DEF AddressedCall
  <2>7. StopSeenBy(c)' BY <2>3, <2>5, Zenon DEF StopSeenBy, Invoking
  <2>8. call'[c].pc = "enter" BY <2>3, <2>5, Zenon
  <2>9. call'[c].pc \notin HoldsGate BY <2>8, Zenon DEF HoldsGate
  <2> QED BY <2>4, <2>5, <2>6, <2>7, <2>8, <2>9, PlainMove, Zenon
<1>2. CASE Enter(c) /\ host.phase = "up"
  <2>1. /\ call' = [call EXCEPT ![c] = [call[c] EXCEPT !.pc = "entered"]]
        /\ call[c].pc = "enter"
        /\ UNCHANGED <<host, generation, gate, pending>>
    BY <1>0, <1>2 DEF Enter, Shape
  <2>2. To(c, "entered") /\ "entered" \in Pcs BY <2>1 DEF To, Pcs
  <2>3. /\ call' \in [Calls -> CallRecord]
        /\ call'[c].pc = "entered"
        /\ call'[c].conv = call[c].conv
        /\ call'[c].from = call[c].from
        /\ call'[c].stopAt = call[c].stopAt
        /\ \A d \in Calls \ {c} : Same(d)
    BY <1>0, <2>2, Moved, Zenon
  <2>4. AddressedCall(c)' BY <1>0, <2>1, <2>3 DEF AddressedCall
  <2>5. StopSeenBy(c)' BY <1>0, <2>1, <2>3, Zenon DEF StopSeenBy, Invoking
  <2>6. call'[c].pc \notin HoldsGate BY <2>3 DEF HoldsGate
  <2> QED BY <1>2, <2>1, <2>3, <2>4, <2>5, <2>6, PlainMove
<1>3. CASE Exit(c) \/ (Enter(c) /\ host.phase # "up")
  <2>1. /\ call' = [call EXCEPT ![c] = Free]
        /\ call[c].pc \in {"enter", "exit"}
        /\ UNCHANGED <<host, generation, gate, pending>>
    BY <1>3 DEF Exit, Enter
  <2>2. /\ call' \in [Calls -> CallRecord]
        /\ call'[c] = Free
        /\ \A d \in Calls \ {c} : Same(d)
    BY <1>0, <1>f, <2>1 DEF Shape, Same
  <2>f. Free.pc = "free" /\ Free.stopAt = "" BY DEF Free
  <2>3. call'[c].pc = "free" /\ call'[c].stopAt = "" BY <2>2, <2>f, Zenon
  <2>4. AddressedCall(c)' BY <2>3, Zenon DEF AddressedCall
  <2>5. StopSeenBy(c)' BY <2>3, Zenon DEF StopSeenBy, Invoking
  <2>6. call'[c].pc \notin HoldsGate BY <2>3, Zenon DEF HoldsGate
  <2> QED BY <2>1, <2>2, <2>3, <2>4, <2>5, <2>6, PlainMove, Zenon
<1> QED BY <1>1, <1>2, <1>3

\* The snapshot of the generation, and the two ways an answer is written.
LEMMA QueueStep == ASSUME HostInv, NEW c \in Calls, Queue(c) PROVE HostInv'
<1>0. Shape /\ AddressedCall(c) /\ StopSeenBy(c) /\ call[c] \in CallRecord
  BY DEF HostInv, Addressed, StopSeen, Shape
<1> DEFINE new == [call[c] EXCEPT !.pc = "wait", !.gen = generation[call[c].conv]]
<1>1. /\ call[c].pc = "passed"
      /\ call' = [call EXCEPT ![c] = new]
      /\ UNCHANGED <<host, generation, gate, pending>>
  BY <1>0, Zenon DEF Queue, Shape
<1>2. call[c].conv \in Convs /\ generation[call[c].conv] \in Nat
  BY <1>0, <1>1 DEF AddressedCall, Shape
<1>3. new \in CallRecord BY <1>0, <1>2, Zenon DEF CallRecord, Pcs
<1>4. /\ new.pc = "wait" /\ new.gen = generation[call[c].conv] /\ new.conv = call[c].conv
      /\ new.from = call[c].from /\ new.stopAt = call[c].stopAt
  BY <1>0, Zenon DEF CallRecord
<1> HIDE DEF new
<1>5. /\ call' \in [Calls -> CallRecord]
      /\ call'[c] = new
      /\ \A d \in Calls \ {c} : Same(d)
  BY <1>0, <1>1, <1>3 DEF Shape, Same
<1>6. AddressedCall(c)' BY <1>0, <1>1, <1>4, <1>5 DEF AddressedCall
<1>7. call[c].stopAt = "" BY <1>0, <1>1, Zenon DEF StopSeenBy
<1>8. StopSeenBy(c)'
  <2>1. call'[c].pc = "wait" /\ call'[c].stopAt = "" BY <1>4, <1>5, <1>7, Zenon
  <2>2. call'[c].gen <= generation'[call'[c].conv] BY <1>1, <1>2, <1>4, <1>5
  <2> QED BY <2>1, <2>2, Zenon DEF StopSeenBy, Invoking
<1>9. call'[c].pc = "wait" /\ call'[c].pc \notin HoldsGate BY <1>4, <1>5 DEF HoldsGate
<1> QED BY <1>1, <1>5, <1>6, <1>8, <1>9, PlainMove

LEMMA AskFailsStep == ASSUME HostInv, NEW c \in Calls, AskFails(c) PROVE HostInv'
<1>0. Shape /\ AddressedCall(c) /\ StopSeenBy(c) /\ call[c] \in CallRecord
  BY DEF HostInv, Addressed, StopSeen, Shape
<1> DEFINE new == [call[c] EXCEPT !.pc = "answered", !.answer = "rejected"]
<1>1. /\ call[c].pc = "asking"
      /\ call' = [call EXCEPT ![c] = new]
      /\ UNCHANGED <<host, generation, gate, pending>>
  BY <1>0, Zenon DEF AskFails, Shape
<1>p. "answered" \in Pcs BY DEF Pcs, HoldsGate
<1>2. new \in CallRecord BY <1>0, <1>p, Zenon DEF CallRecord
<1>3. /\ new.pc = "answered" /\ new.conv = call[c].conv /\ new.from = call[c].from
      /\ new.stopAt = call[c].stopAt /\ new.stopDone = call[c].stopDone
  BY <1>0, Zenon DEF CallRecord
<1> HIDE DEF new
<1>4. /\ call' \in [Calls -> CallRecord]
      /\ call'[c] = new
      /\ \A d \in Calls \ {c} : Same(d)
  BY <1>0, <1>1, <1>2 DEF Shape, Same
<1>5. AddressedCall(c)' BY <1>0, <1>1, <1>3, <1>4 DEF AddressedCall
<1>6. StopSeenBy(c)' BY <1>0, <1>1, <1>3, <1>4, Zenon DEF StopSeenBy, Invoking
<1>7. call'[c].pc = "answered" BY <1>3, <1>4
<1>8. call[c].pc \in HoldsGate /\ call'[c].conv = call[c].conv BY <1>1, <1>3, <1>4 DEF HoldsGate
<1> QED BY <1>1, <1>4, <1>5, <1>6, <1>7, <1>8, PlainMove

\* Consume writes into the call that asked, which is another one.
LEMMA ConsumeStep == ASSUME HostInv, NEW c \in Calls, Consume(c) PROVE HostInv'
<1>0. Shape /\ AddressedCall(c) /\ PendingOwned BY DEF HostInv, Addressed
<1>1. /\ call[c].pc = "entered"
      /\ Consumes(c)
      /\ UNCHANGED <<host, generation, gate, pending>>
  BY DEF Consume
<1> DEFINE owner == pending[call[c].conv]
<1>2. call[c].conv \in Convs /\ call[c].kind \in {"approve", "deny"} /\ owner # NoCall
  BY <1>0, <1>1, Zenon DEF AddressedCall, Consumes
<1>3. owner \in Calls /\ call[owner].pc \in {"asking", "answered"} /\ owner # c
  BY <1>0, <1>1, <1>2 DEF Shape, PendingOwned
<1>4. call' = [call EXCEPT ![c].pc = "exit", ![owner].answer = call[c].kind] BY DEF Consume
<1> HIDE DEF owner
<1>5. /\ call[c] \in CallRecord
      /\ call[owner] \in CallRecord
  BY <1>0, <1>3 DEF Shape
<1>6. /\ call'[c] = [call[c] EXCEPT !.pc = "exit"]
      /\ call'[owner] = [call[owner] EXCEPT !.answer = call[c].kind]
      /\ \A d \in Calls \ {c, owner} : call'[d] = call[d]
      /\ DOMAIN call' = Calls
      /\ call' = [d \in Calls |-> call'[d]]
  BY <1>0, <1>3, <1>4, Zenon DEF Shape
<1>7. call'[c] \in CallRecord BY <1>5, <1>6, ZenonT(30) DEF CallRecord, Pcs
<1>8. call'[owner] \in CallRecord
  <2>1. call[c].kind \in {"approve", "deny", "rejected", "cancelled", ""} BY <1>2, Zenon
  <2>2. [call[owner] EXCEPT !.answer = call[c].kind] \in CallRecord BY <1>5, <2>1, FieldSet, Zenon
  <2> QED BY <1>6, <2>2
<1>9. call' \in [Calls -> CallRecord] BY <1>0, <1>6, <1>7, <1>8 DEF Shape
<1>10. Same(owner) BY <1>5, <1>6, Zenon DEF Same, CallRecord
<1>11. \A d \in Calls \ {c} : Same(d) BY <1>6, <1>10, Zenon DEF Same
<1>12. call'[c].pc = "exit" /\ call'[c].conv = call[c].conv /\ call'[c].from = call[c].from
  BY <1>5, <1>6, Zenon DEF CallRecord
<1>13. AddressedCall(c)' BY <1>0, <1>1, <1>12 DEF AddressedCall
<1>14. StopSeenBy(c)' BY <1>12 DEF StopSeenBy, Invoking
<1>15. call'[c].pc \notin HoldsGate BY <1>12 DEF HoldsGate
<1> QED BY <1>1, <1>9, <1>11, <1>12, <1>13, <1>14, <1>15, PlainMove

\* A call takes a free gate: no other call holds it and no request is pending.
LEMMA AcquireStep == ASSUME HostInv, NEW c \in Calls, Acquire(c) PROVE HostInv'
<1>0. Shape /\ AddressedCall(c) /\ StopSeenBy(c) /\ GateHeld /\ PendingOwned
  BY DEF HostInv, Addressed, StopSeen
<1> DEFINE v == call[c].conv
<1>1. /\ call[c].pc = "wait"
      /\ gate[v] = NoCall
      /\ gate' = [gate EXCEPT ![v] = c]
      /\ To(c, "held")
      /\ UNCHANGED <<host, generation, pending>>
  BY DEF Acquire
<1>2. v \in Convs /\ "held" \in Pcs BY <1>0, <1>1 DEF AddressedCall, Pcs, HoldsGate
<1>3. /\ call' \in [Calls -> CallRecord]
      /\ call'[c].pc = "held"
      /\ call'[c].conv = v
      /\ call'[c].from = call[c].from
      /\ call'[c].gen = call[c].gen
      /\ call'[c].stopAt = call[c].stopAt
      /\ \A d \in Calls \ {c} : Same(d)
  BY <1>0, <1>1, <1>2, Moved, Zenon
<1> HIDE DEF v
<1>4. gate' \in [Convs -> Calls \cup {NoCall}] /\ gate'[v] = c
  BY <1>0, <1>1, <1>2 DEF Shape
<1>5. \A d \in Calls : d # NoCall BY HostAssumption DEF NoCall
<1>6. GateHeld'
  <2> SUFFICES ASSUME NEW d \in Calls, call'[d].pc \in HoldsGate
               PROVE  gate'[call'[d].conv] = d
    BY DEF GateHeld
  <2>1. CASE d = c BY <1>3, <1>4, <2>1
  <2>2. CASE d # c
    <3>1. call[d].pc \in HoldsGate /\ call'[d].conv = call[d].conv BY <1>3, <2>2 DEF Same
    <3>2. gate[call[d].conv] = d BY <1>0, <3>1 DEF GateHeld
    <3>3. call[d].conv # v BY <1>1, <1>5, <3>2
    <3> QED BY <1>0, <1>1, <3>1, <3>2, <3>3 DEF Shape
  <2> QED BY <2>1, <2>2
<1>7. PendingOwned'
  <2> SUFFICES ASSUME NEW u \in Convs, pending[u] # NoCall
               PROVE  gate'[u] = pending[u] /\ call'[pending[u]].pc \in {"asking", "answered"}
    BY <1>1 DEF PendingOwned
  <2>1. /\ pending[u] \in Calls /\ gate[u] = pending[u]
        /\ call[pending[u]].pc \in {"asking", "answered"}
    BY <1>0 DEF Shape, PendingOwned
  <2>2. u # v /\ pending[u] # c BY <1>1, <2>1
  <2>3. Same(pending[u]) BY <1>3, <2>1, <2>2
  <2> QED BY <1>0, <1>1, <2>1, <2>2, <2>3 DEF Shape, Same
<1>8. AddressedCall(c)' BY <1>0, <1>1, <1>2, <1>3 DEF AddressedCall, v
<1>9. StopSeenBy(c)' BY <1>0, <1>1, <1>3, Zenon DEF StopSeenBy, Invoking, v
<1>10. pending' \in [Convs -> Calls \cup {NoCall}] BY <1>0, <1>1 DEF Shape
<1> QED BY <1>1, <1>3, <1>4, <1>6, <1>7, <1>8, <1>9, <1>10, CallMove

\* A call gives its gate back: it has no request in the registry any more.
LEMMA ReleaseStep == ASSUME HostInv, NEW c \in Calls, Release(c) PROVE HostInv'
<1>0. Shape /\ AddressedCall(c) /\ GateHeld /\ PendingOwned BY DEF HostInv, Addressed
<1> DEFINE v == call[c].conv
<1>1. /\ call[c].pc = "release"
      /\ gate' = [gate EXCEPT ![v] = NoCall]
      /\ To(c, "exit")
      /\ UNCHANGED <<host, generation, pending>>
  BY DEF Release
<1>2. v \in Convs /\ "exit" \in Pcs BY <1>0, <1>1 DEF AddressedCall, Pcs
<1>3. /\ call' \in [Calls -> CallRecord]
      /\ call'[c].pc = "exit"
      /\ call'[c].conv = v
      /\ call'[c].from = call[c].from
      /\ \A d \in Calls \ {c} : Same(d)
  BY <1>0, <1>1, <1>2, Moved, Zenon
<1>4. gate[v] = c BY <1>0, <1>1 DEF GateHeld, HoldsGate
<1> HIDE DEF v
<1>5. gate' \in [Convs -> Calls \cup {NoCall}] BY <1>0, <1>1, Zenon DEF Shape
<1>6. GateHeld'
  <2> SUFFICES ASSUME NEW d \in Calls, call'[d].pc \in HoldsGate
               PROVE  gate'[call'[d].conv] = d
    BY DEF GateHeld
  <2>1. d # c BY <1>3 DEF HoldsGate
  <2>2. call[d].pc \in HoldsGate /\ call'[d].conv = call[d].conv BY <1>3, <2>1 DEF Same
  <2>3. gate[call[d].conv] = d BY <1>0, <2>2 DEF GateHeld
  <2>4. call[d].conv # v BY <1>4, <2>1, <2>3
  <2> QED BY <1>0, <1>1, <2>2, <2>3, <2>4 DEF Shape
<1>7. PendingOwned'
  <2> SUFFICES ASSUME NEW u \in Convs, pending[u] # NoCall
               PROVE  gate'[u] = pending[u] /\ call'[pending[u]].pc \in {"asking", "answered"}
    BY <1>1 DEF PendingOwned
  <2>1. /\ pending[u] \in Calls /\ gate[u] = pending[u]
        /\ call[pending[u]].pc \in {"asking", "answered"}
    BY <1>0 DEF Shape, PendingOwned
  <2>2. pending[u] # c BY <1>1, <2>1
  <2>3. u # v BY <1>4, <2>1, <2>2
  <2>4. Same(pending[u]) BY <1>3, <2>1, <2>2
  <2> QED BY <1>0, <1>1, <2>1, <2>3, <2>4 DEF Shape, Same
<1>8. AddressedCall(c)' BY <1>0, <1>1, <1>2, <1>3 DEF AddressedCall
<1>9. StopSeenBy(c)' BY <1>3 DEF StopSeenBy, Invoking
<1>10. pending' \in [Convs -> Calls \cup {NoCall}] BY <1>0, <1>1 DEF Shape
<1> QED BY <1>1, <1>3, <1>5, <1>6, <1>7, <1>8, <1>9, <1>10, CallMove

\* A request enters the registry if its conversation has none.
LEMMA InstallStep == ASSUME HostInv, NEW c \in Calls, Install(c) PROVE HostInv'
<1>0. /\ Shape /\ AddressedCall(c) /\ StopSeenBy(c) /\ GateHeld /\ PendingOwned
      /\ call[c] \in CallRecord
  BY DEF HostInv, Addressed, StopSeen, Shape
<1> DEFINE v == call[c].conv
<1>1. /\ call[c].pc = "prompting"
      /\ UNCHANGED <<host, generation, gate>>
  BY Zenon DEF Install
<1>2. v \in Convs /\ gate[v] = c /\ call[c].pc \in HoldsGate
  BY <1>0, <1>1 DEF AddressedCall, GateHeld, HoldsGate
<1>p. "asking" \in Pcs /\ "active" \in Pcs BY DEF Pcs, HoldsGate
<1>3. CASE pending[v] = NoCall
  <2> DEFINE new == [call[c] EXCEPT !.pc = "asking", !.answer = ""]
  <2>1. pending' = [pending EXCEPT ![v] = c] /\ call' = [call EXCEPT ![c] = new]
    BY <1>0, <1>3, Zenon DEF Install, Shape
  <2>2. new \in CallRecord BY <1>0, <1>p, Zenon DEF CallRecord
  <2>3. /\ new.pc = "asking" /\ new.conv = v /\ new.from = call[c].from
        /\ new.stopAt = call[c].stopAt /\ new.stopDone = call[c].stopDone
    BY <1>0, Zenon DEF CallRecord
  <2> HIDE DEF new, v
  <2>4. /\ call' \in [Calls -> CallRecord]
        /\ call'[c] = new
        /\ \A d \in Calls \ {c} : Same(d)
    BY <1>0, <2>1, <2>2 DEF Shape, Same
  <2>5. GateHeld'
    <3> SUFFICES ASSUME NEW d \in Calls, call'[d].pc \in HoldsGate
                 PROVE  gate[call'[d].conv] = d
      BY <1>1 DEF GateHeld
    <3>1. CASE d = c BY <1>2, <2>3, <2>4, <3>1
    <3>2. CASE d # c BY <1>0, <2>4, <3>2 DEF GateHeld, Same
    <3> QED BY <3>1, <3>2
  <2>6. PendingOwned'
    <3> SUFFICES ASSUME NEW u \in Convs, pending'[u] # NoCall
                 PROVE  gate[u] = pending'[u] /\ call'[pending'[u]].pc \in {"asking", "answered"}
      BY <1>1 DEF PendingOwned
    <3>1. CASE u = v
      <4>1. pending'[u] = c BY <1>0, <1>2, <2>1, <3>1 DEF Shape
      <4> QED BY <1>2, <2>3, <2>4, <3>1, <4>1
    <3>2. CASE u # v
      <4>1. pending'[u] = pending[u] BY <1>0, <2>1, <3>2 DEF Shape
      <4>2. /\ pending[u] \in Calls /\ gate[u] = pending[u]
            /\ call[pending[u]].pc \in {"asking", "answered"}
        BY <1>0, <4>1 DEF Shape, PendingOwned
      <4>3. Same(pending[u]) BY <1>1, <2>4, <4>2
      <4> QED BY <4>1, <4>2, <4>3 DEF Same
    <3> QED BY <3>1, <3>2
  <2>7. AddressedCall(c)' BY <1>0, <1>1, <1>2, <2>3, <2>4 DEF AddressedCall
  <2>8. StopSeenBy(c)' BY <1>0, <1>1, <2>3, <2>4, Zenon DEF StopSeenBy, Invoking
  <2>9. /\ gate' \in [Convs -> Calls \cup {NoCall}]
        /\ pending' \in [Convs -> Calls \cup {NoCall}]
    BY <1>0, <1>1, <2>1, Zenon DEF Shape
  <2> QED BY <1>1, <2>4, <2>5, <2>6, <2>7, <2>8, <2>9, CallMove
<1>4. CASE pending[v] # NoCall
  <2>1. To(c, "active") /\ UNCHANGED pending BY <1>4 DEF Install
  <2>2. /\ call' \in [Calls -> CallRecord]
        /\ call'[c].pc = "active"
        /\ call'[c].conv = call[c].conv
        /\ call'[c].from = call[c].from
        /\ call'[c].stopAt = call[c].stopAt
        /\ call'[c].stopDone = call[c].stopDone
        /\ \A d \in Calls \ {c} : Same(d)
    BY <1>0, <1>p, <2>1, Moved, Zenon
  <2>3. AddressedCall(c)' BY <1>0, <1>1, <2>2 DEF AddressedCall
  <2>4. StopSeenBy(c)' BY <1>0, <1>1, <2>2, Zenon DEF StopSeenBy, Invoking
  <2> QED BY <1>1, <1>2, <2>1, <2>2, <2>3, <2>4, PlainMove
<1> QED BY <1>3, <1>4

\* The call that asked takes its own request out of the registry.
LEMMA RemoveStep == ASSUME HostInv, NEW c \in Calls, RemoveRequest(c) PROVE HostInv'
<1>0. Shape /\ AddressedCall(c) /\ StopSeenBy(c) /\ GateHeld /\ PendingOwned
  BY DEF HostInv, Addressed, StopSeen
<1>1. /\ call[c].pc = "answered"
      /\ To(c, "active")
      /\ pending' = [v \in Convs |-> IF pending[v] = c THEN NoCall ELSE pending[v]]
      /\ UNCHANGED <<host, generation, gate>>
  BY DEF RemoveRequest
<1>p. "active" \in Pcs BY DEF Pcs, HoldsGate
<1>2. /\ call' \in [Calls -> CallRecord]
      /\ call'[c].pc = "active"
      /\ call'[c].conv = call[c].conv
      /\ call'[c].from = call[c].from
      /\ call'[c].stopAt = call[c].stopAt
      /\ call'[c].stopDone = call[c].stopDone
      /\ \A d \in Calls \ {c} : Same(d)
  BY <1>0, <1>1, <1>p, Moved, Zenon
<1>3. gate[call[c].conv] = c BY <1>0, <1>1 DEF GateHeld, HoldsGate
<1>4. GateHeld'
  <2> SUFFICES ASSUME NEW d \in Calls, call'[d].pc \in HoldsGate
               PROVE  gate[call'[d].conv] = d
    BY <1>1 DEF GateHeld
  <2>1. CASE d = c BY <1>2, <1>3, <2>1
  <2>2. CASE d # c BY <1>0, <1>2, <2>2 DEF GateHeld, Same
  <2> QED BY <2>1, <2>2
<1>5. PendingOwned'
  <2> SUFFICES ASSUME NEW u \in Convs, pending'[u] # NoCall
               PROVE  gate[u] = pending'[u] /\ call'[pending'[u]].pc \in {"asking", "answered"}
    BY <1>1 DEF PendingOwned
  <2>1. pending'[u] = pending[u] /\ pending[u] # c BY <1>1
  <2>2. /\ pending[u] \in Calls /\ gate[u] = pending[u]
        /\ call[pending[u]].pc \in {"asking", "answered"}
    BY <1>0, <2>1 DEF Shape, PendingOwned
  <2>3. Same(pending[u]) BY <1>2, <2>1, <2>2
  <2> QED BY <2>1, <2>2, <2>3 DEF Same
<1>6. AddressedCall(c)' BY <1>0, <1>1, <1>2 DEF AddressedCall
<1>7. StopSeenBy(c)' BY <1>0, <1>1, <1>2, Zenon DEF StopSeenBy, Invoking
<1>8. /\ gate' \in [Convs -> Calls \cup {NoCall}]
      /\ pending' \in [Convs -> Calls \cup {NoCall}]
  BY <1>0, <1>1 DEF Shape
<1> QED BY <1>1, <1>2, <1>4, <1>5, <1>6, <1>7, <1>8, CallMove

\* The stop command: who waits at the gate is left behind by the generation,
\* who is registered is cancelled, and only who is between the two goes on.
LEMMA StopStep == ASSUME HostInv, NEW c \in Calls, Stop(c) PROVE HostInv'
<1>0. Shape /\ Addressed /\ StopSeen /\ GateHeld /\ PendingOwned BY Zenon DEF HostInv
<1> DEFINE v == call[c].conv
           Behind(d) == call[d].conv = v /\ call[d].pc \in {"wait", "held", "checked"}
<1>1. /\ call[c].pc = "entered"
      /\ generation' = [generation EXCEPT ![v] = @ + 1]
      /\ UNCHANGED <<host, gate, pending>>
  BY Zenon DEF Stop
<1>2. v \in Convs /\ "exit" \in Pcs BY <1>0, <1>1, SMTT(30) DEF Addressed, AddressedCall, Pcs
<1>3. \A d \in Calls : call'[d] =
          IF d = c THEN [call[d] EXCEPT !.pc = "exit"]
          ELSE IF Behind(d) THEN [call[d] EXCEPT !.stopAt = call[d].pc]
          ELSE IF d \in Registered(v) THEN [call[d] EXCEPT !.stopAt = call[d].pc, !.stopDone = TRUE]
          ELSE call[d]
  BY Zenon DEF Stop
<1>4. \A d \in Calls : call[d] \in CallRecord BY <1>0 DEF Shape
<1>5. /\ call'[c].pc = "exit" /\ call'[c].conv = v /\ call'[c].from = call[c].from
      /\ call'[c] \in CallRecord
  <2>1. call[c] \in CallRecord BY <1>4, Zenon
  <2>2. call'[c] = [call[c] EXCEPT !.pc = "exit"] BY <1>3, Zenon
  <2>3. call'[c] \in CallRecord BY <1>2, <2>1, <2>2, Zenon DEF CallRecord
  <2> QED BY <2>1, <2>2, <2>3, ZenonT(30), ZenonT(30) DEF CallRecord
<1> HIDE DEF v, Behind
<1>6. ASSUME NEW d \in Calls, d # c
      PROVE  /\ call'[d] \in CallRecord
             /\ call'[d].pc = call[d].pc
             /\ call'[d].conv = call[d].conv
             /\ call'[d].from = call[d].from
             /\ call'[d].gen = call[d].gen
             /\ Behind(d) => call'[d].stopAt = call[d].pc
             /\ ~Behind(d) /\ d \in Registered(v) => call'[d].stopDone
             /\ ~Behind(d) /\ d \notin Registered(v) => call'[d] = call[d]
  <2>0. call[d] \in CallRecord /\ call[d].pc \in Pcs BY <1>4, Zenon DEF CallRecord
  <2>1. CASE Behind(d)
    <3>1. call'[d] = [call[d] EXCEPT !.stopAt = call[d].pc] BY <1>3, <1>6, <2>1, Zenon
    <3>2. call'[d] \in CallRecord BY <2>0, <3>1, Zenon DEF CallRecord
    <3> QED BY <2>0, <2>1, <3>1, <3>2, ZenonT(30) DEF CallRecord
  <2>2. CASE ~Behind(d) /\ d \in Registered(v)
    <3>1. call'[d] = [call[d] EXCEPT !.stopAt = call[d].pc, !.stopDone = TRUE]
      BY <1>3, <1>6, <2>2, Zenon
    <3>2. call'[d] \in CallRecord BY <2>0, <3>1, ZenonT(30), ZenonT(30) DEF CallRecord
    <3> QED BY <2>0, <2>2, <3>1, <3>2, ZenonT(30) DEF CallRecord
  <2>3. CASE ~Behind(d) /\ d \notin Registered(v)
    <3>1. call'[d] = call[d] BY <1>3, <1>6, <2>3, Zenon
    <3> QED BY <2>0, <2>3, <3>1, Zenon
  <2> QED BY <2>1, <2>2, <2>3
<1>7. call' \in [Calls -> CallRecord]
  <2>1. \A d \in Calls : call'[d] \in CallRecord BY <1>5, <1>6, Zenon
  <2>2. call' = [d \in Calls |-> call'[d]] BY Zenon DEF Stop
  <2> QED BY <2>1, <2>2
<1>8. generation' \in [Convs -> Nat] /\ generation'[v] = generation[v] + 1
      /\ \A u \in Convs \ {v} : generation'[u] = generation[u]
  BY <1>0, <1>1, <1>2 DEF Shape
<1>9. Shape' BY <1>0, <1>1, <1>7, <1>8 DEF Shape
<1>10. Addressed' BY <1>0, <1>1, <1>2, <1>5, <1>6 DEF Addressed, AddressedCall
<1>11. GateHeld'
  <2>1. call'[c].pc \notin HoldsGate BY <1>5 DEF HoldsGate
  <2> QED BY <1>0, <1>1, <1>6, <2>1 DEF GateHeld
<1>12. PendingOwned'
  <2> SUFFICES ASSUME NEW u \in Convs, pending[u] # NoCall
               PROVE  gate[u] = pending[u] /\ call'[pending[u]].pc \in {"asking", "answered"}
    BY <1>1 DEF PendingOwned
  <2>1. /\ pending[u] \in Calls /\ gate[u] = pending[u]
        /\ call[pending[u]].pc \in {"asking", "answered"}
    BY <1>0 DEF Shape, PendingOwned
  <2>2. pending[u] # c BY <1>1, <2>1
  <2> QED BY <1>6, <2>1, <2>2
<1>13. StopSeen'
  <2> SUFFICES ASSUME NEW d \in Calls PROVE StopSeenBy(d)' BY DEF StopSeen
  <2>0. StopSeenBy(d) /\ AddressedCall(d) BY <1>0 DEF StopSeen, Addressed
  <2>1. CASE d = c BY <1>5, <2>1, Zenon DEF StopSeenBy, Invoking
  <2>2. CASE d # c /\ Behind(d)
    <3>1. /\ call'[d].pc = call[d].pc /\ call'[d].conv = v /\ call'[d].gen = call[d].gen
          /\ call'[d].stopAt = call[d].pc
          /\ call[d].pc \in {"wait", "held", "checked"} /\ call[d].conv = v
      BY <1>6, <2>2 DEF Behind
    <3>2. call[d].gen \in Nat /\ generation[v] \in Nat
      BY <1>0, <1>2, <1>4, Zenon DEF Shape, CallRecord
    <3>3. call[d].pc \in {"wait", "held"} =>
            call'[d].gen <= generation'[v] /\ call'[d].gen < generation'[v]
      <4>1. call[d].pc \in {"wait", "held"} => call[d].gen <= generation[v]
        BY <2>0, <3>1, Zenon DEF StopSeenBy
      <4> QED BY <1>8, <3>1, <3>2, <4>1
    <3> QED BY <3>1, <3>3, Zenon DEF StopSeenBy, Invoking
  <2>3. CASE d # c /\ ~Behind(d) /\ d \in Registered(v)
    <3>1. call'[d].pc = call[d].pc /\ call'[d].stopDone BY <1>6, <2>3
    <3>2. call[d].pc \in {"active", "prompting", "asking", "answered", "leaving"}
      BY <2>3 DEF Registered
    <3> QED BY <3>1, <3>2, Zenon DEF StopSeenBy
  <2>4. CASE d # c /\ ~Behind(d) /\ d \notin Registered(v)
    <3>1. call'[d] = call[d] BY <1>6, <2>4
    <3>2. call[d].pc \in {"wait", "held"} => generation'[call[d].conv] = generation[call[d].conv]
      BY <1>8, <2>0, <2>4 DEF Behind, AddressedCall
    <3> QED BY <2>0, <3>1, <3>2, Zenon DEF StopSeenBy
  <2> QED BY <2>1, <2>2, <2>3, <2>4
<1>14. AllStarted' BY <1>1 DEF HostInv, AllStarted
<1>15. Drained'
  <2>1. InFlight' \subseteq InFlight BY <1>1, <1>5, <1>6 DEF InFlight
  <2> QED BY <1>1, <2>1 DEF HostInv, Drained
<1> QED BY <1>9, <1>10, <1>11, <1>12, <1>13, <1>14, <1>15 DEF HostInv

LEMMA NextHost == HostInv /\ [Next]_hostVars => HostInv'
<1> SUFFICES ASSUME HostInv, [Next]_hostVars PROVE HostInv' OBVIOUS
<1>1. CASE BeginStart \/ BeginStop \/ Lifecycle BY <1>1, LifecycleInv
<1>2. ASSUME NEW c \in Calls, Message(c) \/ Job(c) \/ Acquire(c) \/ Ask(c) \/ Step(c)
      PROVE  HostInv'
  <2>1. CASE Message(c) \/ Job(c) \/ Enter(c) \/ Exit(c) BY <2>1, EdgeSteps
  <2>2. CASE \/ NotConsumed(c) \/ GiveUp(c) \/ Recheck(c) \/ Register(c) \/ Ask(c)
             \/ Answered(c) \/ InvokeReturns(c) \/ Unregister(c)
    BY <2>2, PlainSteps
  <2>3. CASE Stop(c) BY <2>3, StopStep
  <2>4. CASE Consume(c) BY <2>4, ConsumeStep
  <2>5. CASE Queue(c) BY <2>5, QueueStep
  <2>6. CASE AskFails(c) BY <2>6, AskFailsStep
  <2>7. CASE Acquire(c) BY <2>7, AcquireStep
  <2>8. CASE Release(c) BY <2>8, ReleaseStep
  <2>9. CASE Install(c) BY <2>9, InstallStep
  <2>10. CASE RemoveRequest(c) BY <2>10, RemoveStep
  <2> QED
    BY <1>2, <2>1, <2>2, <2>3, <2>4, <2>5, <2>6, <2>7, <2>8, <2>9, <2>10 DEF Step
<1>3. CASE UNCHANGED hostVars
  BY <1>3, Zenon DEF hostVars, HostInv, Shape, Addressed, AddressedCall, GateHeld, PendingOwned,
              StopSeen, StopSeenBy, AllStarted, Drained, InFlight
<1> QED BY <1>1, <1>2, <1>3 DEF Next

LEMMA HostInvSuffices ==
    HostInv => Serialized /\ StopEffective /\ ComponentsInUse /\ PendingOwned
<1> SUFFICES ASSUME HostInv
             PROVE  Serialized /\ StopEffective /\ ComponentsInUse /\ PendingOwned
  OBVIOUS
<1>1. Serialized BY DEF HostInv, GateHeld, Serialized
<1>2. StopEffective BY Zenon DEF HostInv, StopSeen, StopSeenBy, StopEffective
<1>3. ComponentsInUse
  <2> SUFFICES ASSUME NEW c \in Calls, call[c].pc \in Invoking, ~host.late
               PROVE  Open("runtime") /\ Open(call[c].from)
    BY DEF ComponentsInUse
  <2>1. c \in InFlight /\ call[c].pc # "free" BY DEF InFlight, Invoking
  <2>2. host.phase \in {"up", "clearing", "draining"} BY <2>1 DEF HostInv, Drained
  <2>3. host.started = Components BY <2>2 DEF HostInv, AllStarted
  <2>4. call[c].from \in Sources BY <2>1 DEF HostInv, Addressed, AddressedCall
  <2> QED BY <2>2, <2>3, <2>4, ComponentsContain DEF Open
<1> QED BY <1>1, <1>2, <1>3 DEF HostInv

\* However many goroutines call the host and whenever it is started, stopped or
\* told to stop a conversation: calls of a conversation are serialised at its
\* gate, the stop command takes effect on every queued or registered call, no
\* component is stopped under a call unless the context of Stop expired, and a
\* request for approval belongs to the call that waits for it (datalon/host.go
\* Receive, RunScheduled, Stop; host_approval.go).
THEOREM HostSafe ==
    Spec => [](Serialized /\ StopEffective /\ ComponentsInUse /\ PendingOwned)
<1>1. Init => HostInv BY InitHost
<1>2. HostInv /\ [Next]_hostVars => HostInv' BY NextHost
<1>3. HostInv => Serialized /\ StopEffective /\ ComponentsInUse /\ PendingOwned
  BY HostInvSuffices
<1> QED BY <1>1, <1>2, <1>3, PTL DEF Spec

\* Whenever the stop command comes, a call that then waits at the gate of its
\* conversation, or is registered as the active one, does not go on to invoke
\* the runtime with a live context (datalon/host.go stop, Receive).
COROLLARY StopSafe == Spec => []StopEffective
BY HostSafe, PTL

\* The runtime and the channel of a call are open for as long as it invokes the
\* agent, unless the context of Stop expired first (datalon/host.go Stop).
COROLLARY ComponentsSafe == Spec => []ComponentsInUse
BY HostSafe, PTL

\* A registered request for approval belongs to a call that still waits for it
\* and holds the gate of its conversation (datalon/host_approval.go install,
\* remove, clear).
COROLLARY ApprovalsSafe == Spec => []PendingOwned
BY HostSafe, PTL
=============================================================================
