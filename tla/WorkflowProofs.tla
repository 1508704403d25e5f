--------------------------- MODULE WorkflowProofs ---------------------------
(***************************************************************************)
(* Proofs about workflow runs, for any scripts, runs and limits: the calls *)
(* answered from the journal are the first ones of a run, and the counters *)
(* say what happened and stay within the limits.                           *)
(***************************************************************************)
EXTENDS Workflow, FiniteSetTheorems, TLAPS

RunFields == {"pc", "done", "script", "from", "resume", "journal", "result", "agentCalls",
              "tokens", "next", "live", "issued", "spent", "sites"}

SiteFields == {"pc", "call", "value", "cached", "event"}

\* The record fields EXCEPT needs.
Shape(run) ==
    /\ DOMAIN run = RunFields
    /\ DOMAIN run.sites = Sites
    /\ \A s \in Sites : DOMAIN run.sites[s] = SiteFields
    /\ run.next \in Nat \ {0} /\ run.issued \in Nat /\ run.tokens \in Nat /\ run.agentCalls \in Nat
    /\ run.live \in BOOLEAN
    /\ \A s \in Sites : run.sites[s].call \in Nat /\ run.sites[s].cached \in BOOLEAN

\* A call has a number of its own once it is issued, and the gate lets no
\* number pass before.
Numbered(run) ==
    /\ run.next <= run.issued + 1
    /\ \A s \in Sites : run.sites[s].call <= run.issued
    /\ \A s, x \in Sites : run.sites[s].call = run.sites[x].call /\ run.sites[s].call # 0 => s = x

\* What is known of a call by where its goroutine is.
Placed(run) ==
    \A s \in Sites : LET site == run.sites[s] IN
        /\ site.pc = "unissued" => site.call = 0
        /\ site.pc \in {"issued", "hit", "live", "queued", "agent"} => site.call # 0
        /\ site.pc \in {"unissued", "issued", "live", "queued", "agent"} => ~site.cached
        /\ site.pc \in {"unissued", "issued", "hit", "live", "queued", "agent"} => site.event = "none"
        /\ site.pc = "hit" => site.cached

\* A hit has passed the gate; until a call is live every one that passed is a
\* hit; before a hit there are only hits.
Replayed(run) ==
    /\ \A s \in Sites : run.sites[s].cached => run.sites[s].call \in 1..(run.next - 1)
    /\ ~run.live => \A s \in Sites :
                        run.sites[s].call \in 1..(run.next - 1) => run.sites[s].cached
    /\ \A s, x \in Sites :
          run.sites[s].cached /\ run.sites[x].call \in 1..(run.sites[s].call - 1)
              => run.sites[x].cached

\* Live calls whose answer was recorded, and those that were admitted.
Recordings(run) == {s \in Sites : /\ run.sites[s].call # 0 /\ ~run.sites[s].cached
                                  /\ run.sites[s].event # "none"}
Admitted(run) == Recordings(run) \cup {s \in Sites : run.sites[s].pc \in {"queued", "agent"}}

Accounted(run) ==
    /\ run.tokens = Cardinality(Recordings(run))
    /\ Cardinality(Admitted(run)) <= run.agentCalls
    /\ run.agentCalls <= MaxAgents
    /\ Cardinality(InFlight(run)) <= MaxConcurrency
    /\ \A s \in Recordings(run) : run.sites[s].call \in DOMAIN run.journal

RunOK(run) == Shape(run) /\ Numbered(run) /\ Placed(run) /\ Replayed(run) /\ Accounted(run)

\* The inductive invariant.
WorkflowInv == DOMAIN runs = Runs /\ \A r \in Runs : RunOK(runs[r])
-----------------------------------------------------------------------------
\* Sets of sites are finite.
LEMMA SitesFinite ==
    ASSUME NEW S \in SUBSET Sites
    PROVE  IsFiniteSet(S) /\ Cardinality(S) \in Nat
<1>1. IsFiniteSet(Sites)
  BY WorkflowAssumption
<1>2. IsFiniteSet(S)
  BY <1>1, FS_Subset
<1> QED BY <1>2, FS_CardinalityType

LEMMA SitesSubset ==
    ASSUME NEW S \in SUBSET Sites, NEW T \in SUBSET S
    PROVE  Cardinality(T) <= Cardinality(S) /\ (Cardinality(S) = Cardinality(T) => S = T)
BY SitesFinite, FS_Subset

LEMMA SitesAdd ==
    ASSUME NEW S \in SUBSET Sites, NEW x \in Sites
    PROVE  Cardinality(S \cup {x}) = IF x \in S THEN Cardinality(S) ELSE Cardinality(S) + 1
BY SitesFinite, FS_AddElement

\* A step of a run that admits, records and passes nothing: its counters are
\* the same, and its calls are where they were or answered.
Quiet(run, run2) ==
    /\ run2.next = run.next /\ run2.live = run.live /\ run2.issued = run.issued
    /\ run2.tokens = run.tokens /\ run2.agentCalls = run.agentCalls
    /\ run2.journal = run.journal
    /\ \A s \in Sites :
         /\ run2.sites[s].call = run.sites[s].call /\ run2.sites[s].cached = run.sites[s].cached
         /\ run2.sites[s].event = run.sites[s].event
         /\ run2.sites[s].pc = run.sites[s].pc \/ run2.sites[s].pc \in {"answered", "completed"}

LEMMA QuietKeeps ==
    ASSUME NEW run, NEW run2, RunOK(run), Quiet(run, run2),
           DOMAIN run2 = RunFields, DOMAIN run2.sites = Sites,
           \A s \in Sites : DOMAIN run2.sites[s] = SiteFields
    PROVE  RunOK(run2)
<1>1. Shape(run2)
  BY DEF RunOK, Shape, Quiet
<1>2. Numbered(run2)
  BY DEF RunOK, Numbered, Quiet
<1>3. Placed(run2)
  BY DEF RunOK, Placed, Quiet
<1>4. Replayed(run2)
  BY DEF RunOK, Replayed, Quiet
<1>5. Accounted(run2)
  <2>1. Recordings(run2) = Recordings(run)
    BY DEF Quiet, Recordings
  <2>2. Admitted(run2) \subseteq Admitted(run) /\ InFlight(run2) \subseteq InFlight(run)
    BY <2>1 DEF Quiet, Admitted, InFlight
  <2>3. Admitted(run) \subseteq Sites /\ InFlight(run) \subseteq Sites
    BY DEF Admitted, InFlight, Recordings
  <2>4. /\ Cardinality(Admitted(run2)) <= Cardinality(Admitted(run))
        /\ Cardinality(InFlight(run2)) <= Cardinality(InFlight(run))
        /\ Cardinality(Admitted(run)) \in Nat /\ Cardinality(InFlight(run)) \in Nat
        /\ Cardinality(Admitted(run2)) \in Nat /\ Cardinality(InFlight(run2)) \in Nat
    BY <2>2, <2>3, SitesSubset, SitesFinite
  <2>5. run.agentCalls \in Nat /\ MaxConcurrency \in Nat
    BY WorkflowAssumption DEF RunOK, Shape
  <2>6. \A s \in Recordings(run2) : run2.sites[s].call \in DOMAIN run2.journal
    <3>1. \A s \in Recordings(run) : s \in Sites /\ run.sites[s].call \in DOMAIN run.journal
      BY DEF RunOK, Accounted, Recordings
    <3> QED BY <2>1, <3>1 DEF Quiet
  <2> QED BY <2>1, <2>4, <2>5, <2>6 DEF RunOK, Accounted, Quiet
<1> QED BY <1>1, <1>2, <1>3, <1>4, <1>5 DEF RunOK

\* Calls that are skipped are answered.
LEMMA SkippedKeeps ==
    ASSUME NEW run, RunOK(run), NEW thrown, NEW pc
    PROVE  /\ RunOK([run EXCEPT !.sites = Skipped(run, thrown)])
           /\ RunOK([run EXCEPT !.sites = Skipped(run, thrown), !.pc = pc])
<1> DEFINE sites == Skipped(run, thrown)
           run1 == [run EXCEPT !.sites = sites]
           run2 == [run EXCEPT !.sites = sites, !.pc = pc]
<1>1. Shape(run)
  BY DEF RunOK
<1>2. DOMAIN sites = Sites
  BY Zenon DEF Skipped
<1>3. ASSUME NEW s \in Sites
      PROVE  /\ DOMAIN sites[s] = SiteFields
             /\ sites[s].call = run.sites[s].call /\ sites[s].cached = run.sites[s].cached
             /\ sites[s].event = run.sites[s].event
             /\ sites[s].pc = run.sites[s].pc \/ sites[s].pc = "answered"
  <2>1. sites[s] \in {run.sites[s], [run.sites[s] EXCEPT !.pc = "answered", !.value = Null]}
    BY Zenon DEF Skipped
  <2>2. DOMAIN run.sites[s] = SiteFields
    BY <1>1 DEF Shape
  <2> HIDE DEF sites
  <2> QED BY <2>1, <2>2, Zenon DEF SiteFields
<1> HIDE DEF sites
<1>4. DOMAIN run = RunFields
  BY <1>1 DEF Shape
<1>5. DOMAIN run1 = RunFields /\ run1.sites = sites /\ \A f \in RunFields \ {"sites"} : run1[f] = run[f]
  BY <1>4 DEF RunFields
<1>6. /\ DOMAIN run2 = RunFields /\ run2.sites = sites
      /\ \A f \in RunFields \ {"sites", "pc"} : run2[f] = run[f]
  BY <1>4, Zenon DEF RunFields
<1> HIDE DEF run1, run2
<1>7. Quiet(run, run1) /\ Quiet(run, run2)
  BY <1>3, <1>5, <1>6 DEF Quiet, RunFields
<1>8. RunOK(run1) /\ RunOK(run2)
  BY <1>2, <1>3, <1>5, <1>6, <1>7, QuietKeeps
<1> QED BY <1>8, Zenon DEF run1, run2, sites

\* The numbers of calls that are issued together.
LEMMA NumbersDiffer ==
    ASSUME NEW ready \in SUBSET Sites
    PROVE  /\ \A s \in ready : Cardinality({x \in ready : x <= s}) \in 1..Cardinality(ready)
           /\ \A s, t \in ready :
                 Cardinality({x \in ready : x <= s}) = Cardinality({x \in ready : x <= t}) => s = t
<1> DEFINE upTo(s) == {x \in ready : x <= s}
<1>1. ready \subseteq Nat
  BY WorkflowAssumption
<1>2. ASSUME NEW s \in ready
      PROVE  Cardinality(upTo(s)) \in 1..Cardinality(ready)
  <2>1. upTo(s) \in SUBSET ready /\ s \in upTo(s)
    BY <1>1
  <2>2. {s} \in SUBSET upTo(s) /\ upTo(s) \in SUBSET Sites
    BY <2>1
  <2> HIDE DEF upTo
  <2>3. Cardinality({s}) = 1
    BY FS_Singleton, Zenon
  <2>4. Cardinality({s}) <= Cardinality(upTo(s)) /\ Cardinality(upTo(s)) <= Cardinality(ready)
    BY <2>1, <2>2, SitesSubset
  <2>5. Cardinality(upTo(s)) \in Nat /\ Cardinality(ready) \in Nat
    BY <2>2, SitesFinite
  <2> QED BY <2>3, <2>4, <2>5
<1>3. ASSUME NEW s \in ready, NEW t \in ready, s < t
      PROVE  Cardinality(upTo(s)) # Cardinality(upTo(t))
  <2>1. s \in Nat /\ t \in Nat /\ s < t
    BY <1>1, <1>3
  <2>2. upTo(t) \in SUBSET Sites
    OBVIOUS
  <2>3. t \in upTo(t) /\ t \notin upTo(s)
    BY <2>1
  <2>4. \A x \in upTo(s) : x \in upTo(t)
    BY <1>1, <2>1
  <2> HIDE DEF upTo
  <2>5. upTo(s) \in SUBSET upTo(t)
    BY <2>4
  <2> QED BY <2>2, <2>3, <2>5, SitesSubset
<1>4. ASSUME NEW s \in ready, NEW t \in ready, Cardinality(upTo(s)) = Cardinality(upTo(t))
      PROVE  s = t
  <2>1. ~(s < t) /\ ~(t < s)
    BY <1>3, <1>4
  <2>2. s \in Nat /\ t \in Nat
    BY <1>1
  <2> QED BY <2>1, <2>2
<1> QED BY <1>2, <1>4

\* Calls are issued with new numbers, which the gate has not let pass.
LEMMA IssueKeeps ==
    ASSUME NEW run, RunOK(run)
    PROVE  RunOK(Issue(run))
<1> DEFINE ready == Ready(run)
           count(s) == Cardinality({x \in ready : x <= s})
           number(s) == run.issued + count(s)
           issue(s) == [run.sites[s] EXCEPT !.pc = "issued", !.call = number(s)]
           sites == [s \in Sites |-> IF s \in ready THEN issue(s) ELSE run.sites[s]]
           run2 == [run EXCEPT !.issued = run.issued + Cardinality(ready), !.sites = sites]
<1>1. CASE Budget > 0 /\ run.spent >= Budget
  <2> DEFINE pc == IF run.script.strict \cap ready # {} THEN "threw" ELSE run.pc
  <2>1. Issue(run) = [run EXCEPT !.sites = Skipped(run, ready), !.pc = pc]
    BY <1>1, Zenon DEF Issue
  <2> HIDE DEF ready, pc
  <2>2. RunOK([run EXCEPT !.sites = Skipped(run, ready), !.pc = pc])
    BY SkippedKeeps, Zenon
  <2> QED BY <2>1, <2>2, Zenon
<1>2. CASE ~(Budget > 0 /\ run.spent >= Budget)
  <2>1. Issue(run) = run2
    BY <1>2, Zenon DEF Issue
  <2>2. ready \in SUBSET Sites /\ \A s \in ready : run.sites[s].pc = "unissued"
    BY DEF Ready
  <2>3. Shape(run) /\ Numbered(run) /\ Placed(run) /\ Replayed(run) /\ Accounted(run)
    BY DEF RunOK
  <2> HIDE DEF ready
  <2>4. /\ \A s \in ready : count(s) \in 1..Cardinality(ready)
        /\ \A s, t \in ready : count(s) = count(t) => s = t
    BY <2>2, NumbersDiffer, Zenon
  <2>5. Cardinality(ready) \in Nat /\ run.issued \in Nat
    BY <2>2, <2>3, SitesFinite DEF Shape
  <2> HIDE DEF count
  <2>6. /\ \A s \in ready : number(s) \in (run.issued + 1)..(run.issued + Cardinality(ready))
        /\ \A s, t \in ready : number(s) = number(t) => s = t
    BY <2>4, <2>5
  <2> HIDE DEF number
  <2>7. ASSUME NEW s \in ready
        PROVE  /\ DOMAIN issue(s) = SiteFields /\ issue(s).pc = "issued" /\ issue(s).call = number(s)
               /\ issue(s).cached = run.sites[s].cached /\ issue(s).event = run.sites[s].event
    <3>1. DOMAIN run.sites[s] = SiteFields
      BY <2>2, <2>3 DEF Shape
    <3> QED BY <3>1 DEF SiteFields
  <2> HIDE DEF issue
  <2>8. /\ DOMAIN sites = Sites /\ \A s \in ready : sites[s] = issue(s)
        /\ \A s \in Sites \ ready : sites[s] = run.sites[s]
    BY <2>2
  <2> HIDE DEF sites
  <2>9. /\ DOMAIN run2 = RunFields /\ run2.sites = sites
        /\ run2.issued = run.issued + Cardinality(ready)
        /\ run2.next = run.next /\ run2.live = run.live /\ run2.tokens = run.tokens
        /\ run2.agentCalls = run.agentCalls /\ run2.journal = run.journal
    BY <2>3 DEF Shape, RunFields
  <2> HIDE DEF run2
  <2>10. Shape(run2)
    <3>1. \A s \in ready : number(s) \in Nat
      BY <2>5, <2>6
    <3> QED BY <2>2, <2>3, <2>5, <2>7, <2>8, <2>9, <3>1 DEF Shape
  <2>11. \A s \in ready : run.sites[s].call = 0 /\ ~run.sites[s].cached /\ run.sites[s].event = "none"
    BY <2>2, <2>3 DEF Placed
  <2>12. Numbered(run2)
    <3>1. \A s \in Sites : run.sites[s].call \in Nat /\ run.sites[s].call <= run.issued
      BY <2>3 DEF Shape, Numbered
    <3>2. \A s \in ready : run2.sites[s].call = number(s) /\ number(s) > run.issued
                            /\ number(s) <= run2.issued
      BY <2>5, <2>6, <2>7, <2>8, <2>9
    <3>3. \A s \in Sites \ ready : run2.sites[s].call = run.sites[s].call
      BY <2>8, <2>9
    <3>4. run2.next <= run2.issued + 1
      BY <2>3, <2>5, <2>9 DEF Numbered, Shape
    <3>5. \A s \in Sites : run2.sites[s].call <= run2.issued
      BY <2>5, <2>9, <3>1, <3>2, <3>3
    <3>6. ASSUME NEW s \in Sites, NEW x \in Sites,
                 run2.sites[s].call = run2.sites[x].call, run2.sites[s].call # 0
          PROVE  s = x
      <4>1. s \in ready <=> x \in ready
        BY <2>5, <2>6, <3>1, <3>2, <3>3, <3>6
      <4>2. CASE s \in ready
        BY <2>6, <3>2, <3>6, <4>1, <4>2
      <4>3. CASE s \notin ready
        BY <2>3, <3>3, <3>6, <4>1, <4>3 DEF Numbered
      <4> QED BY <4>2, <4>3
    <3> QED BY <3>4, <3>5, <3>6 DEF Numbered
  <2>13. Placed(run2)
    <3>1. \A s \in ready : number(s) # 0
      BY <2>5, <2>6
    <3> QED BY <2>3, <2>7, <2>8, <2>9, <2>11, <3>1 DEF Placed
  <2>14. Replayed(run2)
    <3>1. \A s \in ready : run2.sites[s].call > run.issued /\ run2.sites[s].call \in Nat
                            /\ ~run2.sites[s].cached
      BY <2>5, <2>6, <2>7, <2>8, <2>9, <2>11
    <3>2. \A s \in Sites \ ready : run2.sites[s] = run.sites[s]
      BY <2>8, <2>9
    <3>3. /\ run.next \in Nat /\ run.next <= run.issued + 1 /\ run2.next = run.next
          /\ run2.live = run.live
          /\ \A s \in Sites : run.sites[s].call \in Nat /\ run.sites[s].call <= run.issued
      BY <2>3, <2>9 DEF Shape, Numbered
    <3>4. \A s \in Sites : run2.sites[s].cached => run2.sites[s].call \in 1..(run2.next - 1)
      BY <2>3, <3>1, <3>2, <3>3 DEF Replayed
    <3>5. ~run2.live => \A s \in Sites :
              run2.sites[s].call \in 1..(run2.next - 1) => run2.sites[s].cached
      BY <2>3, <2>5, <3>1, <3>2, <3>3 DEF Replayed
    <3>6. ASSUME NEW s \in Sites, NEW x \in Sites, run2.sites[s].cached,
                 run2.sites[x].call \in 1..(run2.sites[s].call - 1)
          PROVE  run2.sites[x].cached
      <4>1. s \notin ready /\ run2.sites[s].call <= run.issued
        BY <3>1, <3>2, <3>3, <3>6
      <4>2. x \notin ready
        BY <2>5, <3>1, <3>2, <3>3, <3>6, <4>1
      <4> QED BY <2>3, <3>2, <3>6, <4>1, <4>2 DEF Replayed
    <3> QED BY <3>4, <3>5, <3>6 DEF Replayed
  <2>15. Accounted(run2)
    <3>1. Recordings(run2) = Recordings(run)
      BY <2>2, <2>7, <2>8, <2>9, <2>11 DEF Recordings
    <3>2. Admitted(run2) = Admitted(run)
      BY <2>2, <2>7, <2>8, <2>9, <3>1 DEF Admitted
    <3>3. InFlight(run2) = InFlight(run)
      BY <2>2, <2>7, <2>8, <2>9 DEF InFlight
    <3>4. \A s \in Recordings(run) : run2.sites[s] = run.sites[s]
      BY <2>8, <2>9, <2>11 DEF Recordings
    <3> QED BY <2>3, <2>9, <3>1, <3>2, <3>3, <3>4 DEF Accounted
  <2> QED BY <2>1, <2>10, <2>12, <2>13, <2>14, <2>15 DEF RunOK
<1> QED BY <1>1, <1>2

\* Fields of a run that no account depends on.
LEMMA PlainKeeps ==
    ASSUME NEW run, RunOK(run), NEW v
    PROVE  /\ RunOK([run EXCEPT !.pc = v]) /\ RunOK([run EXCEPT !.done = v])
           /\ RunOK([run EXCEPT !.result = v]) /\ RunOK([run EXCEPT !.spent = v])
<1>1. Shape(run)
  BY DEF RunOK
<1>2. ASSUME NEW f \in {"pc", "done", "result", "spent"}
      PROVE  RunOK([run EXCEPT ![f] = v])
  <2> DEFINE run2 == [run EXCEPT ![f] = v]
  <2>1. DOMAIN run2 = RunFields /\ \A g \in RunFields \ {f} : run2[g] = run[g]
    BY <1>1 DEF Shape, RunFields
  <2> HIDE DEF run2
  <2>2. DOMAIN run2 = RunFields /\ run2.sites = run.sites /\ Quiet(run, run2)
    BY <2>1 DEF Quiet, RunFields
  <2>3. DOMAIN run2.sites = Sites /\ \A s \in Sites : DOMAIN run2.sites[s] = SiteFields
    BY <1>1, <2>2 DEF Shape
  <2>4. RunOK(run2)
    BY <2>2, <2>3, QuietKeeps
  <2> QED BY <2>4 DEF run2
<1> QED BY <1>2, Zenon

LEMMA ConcludedKeeps ==
    ASSUME NEW run, RunOK(run)
    PROVE  RunOK(Concluded(run))
<1> DEFINE ended == IF run.pc = "awaiting" /\ \A s \in Sites : run.sites[s].pc = "answered"
                    THEN [run EXCEPT !.pc = "returned"] ELSE run
<1>1. RunOK(ended)
  BY PlainKeeps, Zenon
<1>2. Concluded(run) = IF ended.pc = "awaiting" THEN ended ELSE [ended EXCEPT !.result = ended.journal]
  BY Zenon DEF Concluded
<1> HIDE DEF ended
<1>3. RunOK([ended EXCEPT !.result = ended.journal])
  BY <1>1, PlainKeeps, Zenon
<1> QED BY <1>1, <1>2, <1>3, Zenon
-----------------------------------------------------------------------------
(* The steps of a call *)

Moved(run, s, pc) == [run EXCEPT !.sites[s].pc = pc]
Ended(run, s, value, event) ==
    Moved([run EXCEPT !.sites[s].value = value, !.sites[s].event = event], s, "completed")

\* The call of site s moved; the others did not.
Alone(run, run2, s) ==
    /\ DOMAIN run2 = RunFields /\ DOMAIN run2.sites = Sites /\ DOMAIN run2.sites[s] = SiteFields
    /\ \A x \in Sites \ {s} : run2.sites[x] = run.sites[x]
    /\ run2.sites[s].call = run.sites[s].call
    /\ run2.issued = run.issued

LEMMA MovedFacts ==
    ASSUME NEW run, NEW s \in Sites, NEW pc,
           DOMAIN run = RunFields, DOMAIN run.sites = Sites, DOMAIN run.sites[s] = SiteFields
    PROVE  LET run2 == Moved(run, s, pc) IN
           /\ Alone(run, run2, s) /\ \A f \in RunFields \ {"sites"} : run2[f] = run[f]
           /\ run2.sites[s].pc = pc /\ run2.sites[s].cached = run.sites[s].cached
           /\ run2.sites[s].event = run.sites[s].event
<1> DEFINE run2 == Moved(run, s, pc)
           site2 == [run.sites[s] EXCEPT !.pc = pc]
           sites2 == [run.sites EXCEPT ![s] = site2]
<1>1. run2 = [run EXCEPT !.sites = sites2]
  BY Zenon DEF Moved
<1>2. /\ DOMAIN site2 = SiteFields /\ site2.pc = pc /\ site2.call = run.sites[s].call
      /\ site2.cached = run.sites[s].cached /\ site2.event = run.sites[s].event
  BY DEF SiteFields
<1> HIDE DEF site2
<1>3. DOMAIN sites2 = Sites /\ sites2[s] = site2 /\ \A x \in Sites \ {s} : sites2[x] = run.sites[x]
  OBVIOUS
<1> HIDE DEF sites2
<1>4. /\ DOMAIN run2 = RunFields /\ run2.sites = sites2
      /\ \A f \in RunFields \ {"sites"} : run2[f] = run[f]
  BY <1>1 DEF RunFields
<1> HIDE DEF run2
<1>5. run2.issued = run.issued
  BY <1>4 DEF RunFields
<1>6. Alone(run, run2, s)
  BY <1>2, <1>3, <1>4, <1>5 DEF Alone
<1>7. /\ run2.sites[s].pc = pc /\ run2.sites[s].cached = run.sites[s].cached
      /\ run2.sites[s].event = run.sites[s].event
  BY <1>2, <1>3, <1>4
<1> QED BY <1>4, <1>6, <1>7, Zenon DEF run2

LEMMA EndedFacts ==
    ASSUME NEW run, NEW s \in Sites, NEW value, NEW event,
           DOMAIN run = RunFields, DOMAIN run.sites = Sites, DOMAIN run.sites[s] = SiteFields
    PROVE  LET run2 == Ended(run, s, value, event) IN
           /\ Alone(run, run2, s) /\ \A f \in RunFields \ {"sites"} : run2[f] = run[f]
           /\ run2.sites[s].pc = "completed" /\ run2.sites[s].cached = run.sites[s].cached
           /\ run2.sites[s].event = event
<1> DEFINE site1 == [run.sites[s] EXCEPT !.value = value]
           sites1 == [run.sites EXCEPT ![s] = site1]
           site2 == [sites1[s] EXCEPT !.event = event]
           sites2 == [sites1 EXCEPT ![s] = site2]
           run1 == [run EXCEPT !.sites = sites1]
           mid == [run1 EXCEPT !.sites = sites2]
           run2 == Ended(run, s, value, event)
<1>1. run2 = Moved(mid, s, "completed")
  <2>1. run1.sites = sites1
    BY DEF RunFields
  <2>2. [run EXCEPT !.sites[s].value = value, !.sites[s].event = event]
          = [run1 EXCEPT !.sites[s].event = event]
    BY Zenon
  <2> HIDE DEF run1
  <2>3. [run1 EXCEPT !.sites[s].event = event] = mid
    BY <2>1
  <2> QED BY <2>2, <2>3, Zenon DEF Ended
<1>2. DOMAIN run1 = RunFields /\ \A f \in RunFields \ {"sites"} : run1[f] = run[f]
  BY DEF RunFields
<1> HIDE DEF run1
<1>3. /\ DOMAIN site1 = SiteFields /\ site1.call = run.sites[s].call
      /\ site1.cached = run.sites[s].cached
  BY DEF SiteFields
<1> HIDE DEF site1
<1>4. DOMAIN sites1 = Sites /\ sites1[s] = site1 /\ \A x \in Sites \ {s} : sites1[x] = run.sites[x]
  OBVIOUS
<1> HIDE DEF sites1
<1>5. /\ DOMAIN site2 = SiteFields /\ site2.event = event /\ site2.call = run.sites[s].call
      /\ site2.cached = run.sites[s].cached
  BY <1>3, <1>4 DEF SiteFields
<1> HIDE DEF site2
<1>6. DOMAIN sites2 = Sites /\ sites2[s] = site2 /\ \A x \in Sites \ {s} : sites2[x] = run.sites[x]
  BY <1>4
<1> HIDE DEF sites2
<1>7. /\ DOMAIN mid = RunFields /\ mid.sites = sites2
      /\ \A f \in RunFields \ {"sites"} : mid[f] = run[f]
  BY <1>2 DEF RunFields
<1> HIDE DEF mid, run2
<1>8. /\ Alone(mid, run2, s) /\ \A f \in RunFields \ {"sites"} : run2[f] = mid[f]
      /\ run2.sites[s].pc = "completed" /\ run2.sites[s].cached = mid.sites[s].cached
      /\ run2.sites[s].event = mid.sites[s].event
  <2>1. DOMAIN mid = RunFields /\ DOMAIN mid.sites = Sites /\ DOMAIN mid.sites[s] = SiteFields
    BY <1>5, <1>6, <1>7
  <2> QED BY <1>1, <2>1, MovedFacts
<1>9. mid.issued = run.issued /\ \A x \in Sites \ {s} : mid.sites[x] = run.sites[x]
  BY <1>6, <1>7 DEF RunFields
<1>10. mid.sites[s].call = run.sites[s].call
  BY <1>5, <1>6, <1>7
<1>11. Alone(run, run2, s)
  BY <1>8, <1>9, <1>10 DEF Alone
<1>12. /\ \A f \in RunFields \ {"sites"} : run2[f] = run[f]
       /\ run2.sites[s].cached = run.sites[s].cached /\ run2.sites[s].event = event
  BY <1>5, <1>6, <1>7, <1>8
<1> QED BY <1>8, <1>11, <1>12, Zenon DEF run2

\* What is to be shown of a step of one call.
LEMMA AloneKeeps ==
    ASSUME NEW run, NEW run2, RunOK(run), NEW s \in Sites, Alone(run, run2, s),
           run2.next \in Nat \ {0}, run2.next <= run.issued + 1, run2.tokens \in Nat,
           run2.agentCalls \in Nat,
           run2.live \in BOOLEAN, run2.sites[s].cached \in BOOLEAN,
           run.sites[s].call # 0, run2.sites[s].pc \in {"hit", "live", "queued", "agent", "completed"},
           run2.sites[s].pc \in {"live", "queued", "agent"} => ~run2.sites[s].cached,
           run2.sites[s].pc # "completed" => run2.sites[s].event = "none",
           run2.sites[s].pc = "hit" => run2.sites[s].cached,
           Replayed(run2), Accounted(run2)
    PROVE  RunOK(run2)
<1>1. Shape(run) /\ Numbered(run) /\ Placed(run)
  BY DEF RunOK
<1>2. \A x \in Sites : run2.sites[x].call = run.sites[x].call
  BY DEF Alone
<1>3. Shape(run2)
  <2>1. /\ DOMAIN run2 = RunFields /\ DOMAIN run2.sites = Sites
        /\ \A x \in Sites : DOMAIN run2.sites[x] = SiteFields
    BY <1>1 DEF Alone, Shape
  <2>2. \A x \in Sites : run2.sites[x].call \in Nat /\ run2.sites[x].cached \in BOOLEAN
    BY <1>1 DEF Alone, Shape
  <2> QED BY <1>1, <2>1, <2>2 DEF Shape, Alone
<1>4. Numbered(run2)
  BY <1>1, <1>2 DEF Numbered, Alone
<1>5. Placed(run2)
  BY <1>1, <1>2 DEF Placed, Alone
<1> QED BY <1>3, <1>4, <1>5 DEF RunOK

\* A call that is refused, or whose agent is given up: nothing is recorded.
LEMMA RefusalKeeps ==
    ASSUME NEW run, RunOK(run), NEW s \in Sites, NEW value,
           run.sites[s].pc \in {"issued", "live", "queued", "agent"}
    PROVE  RunOK(Ended(run, s, value, "none"))
<1> DEFINE run2 == Ended(run, s, value, "none")
<1>1. Shape(run) /\ run.sites[s].event = "none"
  BY DEF RunOK, Placed
<1>2. DOMAIN run = RunFields /\ DOMAIN run.sites = Sites /\ \A x \in Sites : DOMAIN run.sites[x] = SiteFields
  BY <1>1 DEF Shape
<1>3. /\ Alone(run, run2, s) /\ \A f \in RunFields \ {"sites"} : run2[f] = run[f]
      /\ run2.sites[s].pc = "completed" /\ run2.sites[s].cached = run.sites[s].cached
      /\ run2.sites[s].event = "none"
  BY <1>2, EndedFacts
<1> HIDE DEF run2
<1>4. Quiet(run, run2)
  BY <1>1, <1>3 DEF Quiet, Alone, RunFields
<1>5. /\ DOMAIN run2 = RunFields /\ DOMAIN run2.sites = Sites
      /\ \A x \in Sites : DOMAIN run2.sites[x] = SiteFields
  BY <1>2, <1>3 DEF Alone
<1>6. RunOK(run2)
  BY <1>4, <1>5, QuietKeeps
<1> QED BY <1>6 DEF run2

\* A call passes the gate as a hit.
LEMMA HitKeeps ==
    ASSUME NEW run, RunOK(run), NEW s \in Sites, run.sites[s].pc = "issued",
           run.next = run.sites[s].call, ~run.live
    PROVE  RunOK(Moved([run EXCEPT !.next = run.next + 1, !.sites[s].cached = TRUE], s, "hit"))
<1> DEFINE site1 == [run.sites[s] EXCEPT !.cached = TRUE]
           sites1 == [run.sites EXCEPT ![s] = site1]
           run1 == [run EXCEPT !.next = run.next + 1, !.sites = sites1]
           run2 == Moved(run1, s, "hit")
<1>1. Shape(run) /\ Numbered(run) /\ Placed(run) /\ Replayed(run) /\ Accounted(run)
  BY DEF RunOK
<1>2. DOMAIN run = RunFields /\ DOMAIN run.sites = Sites /\ DOMAIN run.sites[s] = SiteFields
  BY <1>1 DEF Shape
<1>3. /\ DOMAIN site1 = SiteFields /\ site1.cached = TRUE /\ site1.call = run.sites[s].call
      /\ site1.event = run.sites[s].event
  BY <1>2 DEF SiteFields
<1>4. [run EXCEPT !.next = run.next + 1, !.sites[s].cached = TRUE] = run1
  <2> DEFINE run0 == [run EXCEPT !.next = run.next + 1]
  <2>1. run0.sites = run.sites
    BY <1>2 DEF RunFields
  <2> HIDE DEF run0
  <2>2. [run0 EXCEPT !.sites[s].cached = TRUE] = [run0 EXCEPT !.sites = sites1]
    BY <2>1, Zenon
  <2> QED BY <2>2, Zenon DEF run0
<1> HIDE DEF site1
<1>5. DOMAIN sites1 = Sites /\ sites1[s] = site1 /\ \A x \in Sites \ {s} : sites1[x] = run.sites[x]
  BY <1>2
<1> HIDE DEF sites1
<1>6. /\ DOMAIN run1 = RunFields /\ run1.sites = sites1 /\ run1.next = run.next + 1
      /\ \A f \in RunFields \ {"sites", "next"} : run1[f] = run[f]
  BY <1>2, Zenon DEF RunFields
<1> HIDE DEF run1
<1>7. /\ Alone(run1, run2, s) /\ \A f \in RunFields \ {"sites"} : run2[f] = run1[f]
      /\ run2.sites[s].pc = "hit" /\ run2.sites[s].cached = run1.sites[s].cached
      /\ run2.sites[s].event = run1.sites[s].event
  <2>1. DOMAIN run1 = RunFields /\ DOMAIN run1.sites = Sites /\ DOMAIN run1.sites[s] = SiteFields
    BY <1>3, <1>5, <1>6
  <2> QED BY <2>1, MovedFacts
<1> HIDE DEF run2
<1>8. /\ Alone(run, run2, s) /\ run2.next = run.next + 1 /\ run2.live = run.live
      /\ run2.tokens = run.tokens /\ run2.agentCalls = run.agentCalls /\ run2.journal = run.journal
  BY <1>3, <1>5, <1>6, <1>7 DEF Alone, RunFields
<1>9. run2.sites[s].cached /\ run2.sites[s].event = run.sites[s].event
  BY <1>3, <1>5, <1>6, <1>7
<1>10. /\ run.sites[s].call # 0 /\ ~run.sites[s].cached /\ run.sites[s].event = "none"
       /\ run.next \in Nat /\ run.next <= run.issued /\ run.issued \in Nat
       /\ \A x \in Sites : run.sites[x].call \in Nat /\ run2.sites[x].call = run.sites[x].call
  BY <1>1, <1>8 DEF Placed, Shape, Numbered, Alone
<1>11. \A x \in Sites \ {s} : run2.sites[x] = run.sites[x]
  BY <1>8 DEF Alone
<1>12. Replayed(run2)
  <2>1. \A x \in Sites : run2.sites[x].cached => run2.sites[x].call \in 1..(run2.next - 1)
    BY <1>1, <1>8, <1>10, <1>11 DEF Replayed
  <2>2. \A x \in Sites : run2.sites[x].call \in 1..(run2.next - 1) => run2.sites[x].cached
    <3> SUFFICES ASSUME NEW x \in Sites, run2.sites[x].call \in 1..(run2.next - 1)
                 PROVE  run2.sites[x].cached
      OBVIOUS
    <3>1. CASE x = s
      BY <1>9, <3>1
    <3>2. CASE x # s
      <4>1. run.sites[x].call # run.sites[s].call
        BY <1>1, <1>10, <3>2 DEF Numbered
      <4>2. run.sites[x].call \in 1..(run.next - 1)
        BY <1>8, <1>10, <4>1
      <4> QED BY <1>1, <1>11, <3>2, <4>2 DEF Replayed
    <3> QED BY <3>1, <3>2
  <2>3. ASSUME NEW y \in Sites, NEW x \in Sites, run2.sites[y].cached,
               run2.sites[x].call \in 1..(run2.sites[y].call - 1)
        PROVE  run2.sites[x].cached
    <3>1. run2.sites[y].call \in 1..(run2.next - 1)
      BY <2>1, <2>3
    <3>2. run2.sites[x].call \in 1..(run2.next - 1)
      BY <1>8, <1>10, <2>3, <3>1
    <3> QED BY <2>2, <3>2
  <2> QED BY <2>1, <2>2, <2>3 DEF Replayed
<1>13. Accounted(run2)
  <2>1. Recordings(run2) = Recordings(run)
    BY <1>9, <1>10, <1>11 DEF Recordings
  <2>2. Admitted(run2) = Admitted(run) /\ InFlight(run2) = InFlight(run)
    BY <1>7, <1>11, <2>1 DEF Admitted, InFlight
  <2>3. \A x \in Recordings(run) : x # s /\ x \in Sites
    BY <1>10 DEF Recordings
  <2> QED BY <1>1, <1>8, <1>11, <2>1, <2>2, <2>3 DEF Accounted
<1>14. /\ run2.next \in Nat \ {0} /\ run2.next <= run.issued + 1 /\ run2.tokens \in Nat
       /\ run2.agentCalls \in Nat /\ run2.live \in BOOLEAN
  BY <1>1, <1>8, <1>10 DEF Shape
<1>15. RunOK(run2)
  BY <1>7, <1>8, <1>9, <1>10, <1>12, <1>13, <1>14, AloneKeeps, Zenon
<1> QED BY <1>4, <1>15 DEF run2

\* A call passes the gate and is live, as all later ones are.
LEMMA MissKeeps ==
    ASSUME NEW run, RunOK(run), NEW s \in Sites, run.sites[s].pc = "issued",
           run.next = run.sites[s].call
    PROVE  RunOK(Moved([run EXCEPT !.next = run.next + 1, !.live = TRUE], s, "live"))
<1> DEFINE run1 == [run EXCEPT !.next = run.next + 1, !.live = TRUE]
           run2 == Moved(run1, s, "live")
<1>1. Shape(run) /\ Numbered(run) /\ Placed(run) /\ Replayed(run) /\ Accounted(run)
  BY DEF RunOK
<1>2. DOMAIN run = RunFields /\ DOMAIN run.sites = Sites /\ DOMAIN run.sites[s] = SiteFields
  BY <1>1 DEF Shape
<1>3. /\ DOMAIN run1 = RunFields /\ run1.next = run.next + 1 /\ run1.live = TRUE
      /\ \A f \in RunFields \ {"live", "next"} : run1[f] = run[f]
  BY <1>2, Zenon DEF RunFields
<1> HIDE DEF run1
<1>4. run1.sites = run.sites
  BY <1>3 DEF RunFields
<1>5. /\ Alone(run1, run2, s) /\ \A f \in RunFields \ {"sites"} : run2[f] = run1[f]
      /\ run2.sites[s].pc = "live" /\ run2.sites[s].cached = run1.sites[s].cached
      /\ run2.sites[s].event = run1.sites[s].event
  BY <1>2, <1>3, <1>4, MovedFacts
<1> HIDE DEF run2
<1>6. /\ Alone(run, run2, s) /\ run2.next = run.next + 1 /\ run2.live = TRUE
      /\ run2.tokens = run.tokens /\ run2.agentCalls = run.agentCalls /\ run2.journal = run.journal
  BY <1>3, <1>4, <1>5, SMTT(30) DEF Alone, RunFields
<1>7. /\ run.sites[s].call # 0 /\ ~run.sites[s].cached /\ run.sites[s].event = "none"
      /\ run.next \in Nat /\ run.next <= run.issued /\ run.issued \in Nat
      /\ \A x \in Sites : run.sites[x].call \in Nat /\ run2.sites[x].call = run.sites[x].call
  BY <1>1, <1>6 DEF Placed, Shape, Numbered, Alone
<1>8. /\ \A x \in Sites \ {s} : run2.sites[x] = run.sites[x]
      /\ \A x \in Sites : run2.sites[x].cached = run.sites[x].cached
  BY <1>4, <1>5, <1>6, SMTT(30) DEF Alone
<1>9. Replayed(run2)
  <2>1. \A x \in Sites : run2.sites[x].cached => run2.sites[x].call \in 1..(run2.next - 1)
    BY <1>1, <1>6, <1>7, <1>8 DEF Replayed
  <2> QED BY <1>1, <1>6, <1>7, <1>8, <2>1, SMTT(30) DEF Replayed
<1>10. Accounted(run2)
  <2>1. Recordings(run2) = Recordings(run)
    BY <1>4, <1>5, <1>7, <1>8 DEF Recordings
  <2>2. Admitted(run2) = Admitted(run) /\ InFlight(run2) = InFlight(run)
    BY <1>5, <1>8, <2>1 DEF Admitted, InFlight
  <2>3. \A x \in Recordings(run) : x # s /\ x \in Sites
    BY <1>7, SMTT(30) DEF Recordings
  <2> QED BY <1>1, <1>6, <1>8, <2>1, <2>2, <2>3, SMTT(30) DEF Accounted
<1>11. /\ run2.next \in Nat \ {0} /\ run2.next <= run.issued + 1 /\ run2.tokens \in Nat
       /\ run2.agentCalls \in Nat /\ run2.live \in BOOLEAN
  <2>1. run2.live \in BOOLEAN
    BY <1>6, ZenonT(30)
  <2> QED BY <1>1, <1>6, <1>7, <2>1 DEF Shape
<1>12. run2.sites[s].event = "none" /\ ~run2.sites[s].cached /\ run2.sites[s].cached \in BOOLEAN
  BY <1>1, <1>4, <1>5, <1>7, SMTT(30) DEF Shape
<1>13. RunOK(run2)
  BY <1>5, <1>6, <1>7, <1>9, <1>10, <1>11, <1>12, AloneKeeps
<1> QED BY <1>13 DEF run2, run1

\* A cached entry is journaled again and answers its call.
LEMMA ReplayKeeps ==
    ASSUME NEW run, RunOK(run), NEW s \in Sites, run.sites[s].pc = "hit", NEW entry, NEW value
    PROVE  RunOK(Ended(Journaled(run, s, entry), s, value, "finished"))
<1> DEFINE call == run.sites[s].call
           journal == [c \in DOMAIN run.journal \cup {call} |->
                          IF c = call THEN entry ELSE run.journal[c]]
           run1 == Journaled(run, s, entry)
           run2 == Ended(run1, s, value, "finished")
<1>1. Shape(run) /\ Numbered(run) /\ Placed(run) /\ Replayed(run) /\ Accounted(run)
  BY DEF RunOK
<1>2. DOMAIN run = RunFields /\ DOMAIN run.sites = Sites /\ DOMAIN run.sites[s] = SiteFields
  BY <1>1 DEF Shape
<1>3. DOMAIN run.journal \subseteq DOMAIN journal
  OBVIOUS
<1> HIDE DEF journal
<1>4. /\ DOMAIN run1 = RunFields /\ run1.journal = journal
      /\ \A f \in RunFields \ {"journal"} : run1[f] = run[f]
  BY <1>2 DEF RunFields, Journaled, journal
<1> HIDE DEF run1
<1>5. run1.sites = run.sites
  BY <1>4 DEF RunFields
<1>6. /\ Alone(run1, run2, s) /\ \A f \in RunFields \ {"sites"} : run2[f] = run1[f]
      /\ run2.sites[s].pc = "completed" /\ run2.sites[s].cached = run1.sites[s].cached
  BY <1>2, <1>4, <1>5, EndedFacts
<1> HIDE DEF run2
<1>7. /\ Alone(run, run2, s) /\ run2.next = run.next /\ run2.live = run.live
      /\ run2.tokens = run.tokens /\ run2.agentCalls = run.agentCalls /\ run2.journal = journal
  BY <1>4, <1>5, <1>6 DEF Alone, RunFields
<1>8. /\ run.sites[s].call # 0 /\ run.sites[s].cached
      /\ \A x \in Sites : run2.sites[x].call = run.sites[x].call
  BY <1>1, <1>7 DEF Placed, Alone
<1>9. /\ \A x \in Sites \ {s} : run2.sites[x] = run.sites[x]
      /\ \A x \in Sites : run2.sites[x].cached = run.sites[x].cached
  BY <1>5, <1>6, <1>7, SMTT(30) DEF Alone
<1>10. Replayed(run2)
  BY <1>1, <1>7, <1>8, <1>9 DEF Replayed
<1>11. Accounted(run2)
  <2>1. Recordings(run2) = Recordings(run)
    BY <1>8, <1>9 DEF Recordings
  <2>2. Admitted(run2) = Admitted(run) /\ InFlight(run2) = InFlight(run)
    BY <1>6, <1>9, <2>1 DEF Admitted, InFlight
  <2>3. \A x \in Recordings(run) : x # s /\ x \in Sites
    BY <1>8 DEF Recordings
  <2> QED BY <1>1, <1>3, <1>7, <1>9, <2>1, <2>2, <2>3 DEF Accounted
<1>12. /\ run2.next \in Nat \ {0} /\ run2.next <= run.issued + 1 /\ run2.tokens \in Nat
       /\ run2.agentCalls \in Nat
  BY <1>1, <1>7 DEF Shape, Numbered
<1>13. run2.live \in BOOLEAN /\ run2.sites[s].cached \in BOOLEAN
  BY <1>1, <1>7, <1>9, Zenon DEF Shape
<1>14. RunOK(run2)
  BY <1>6, <1>7, <1>8, <1>10, <1>11, <1>12, <1>13, AloneKeeps
<1> QED BY <1>14 DEF run2, run1

\* A call is admitted below the agent limit.
LEMMA AdmitKeeps ==
    ASSUME NEW run, RunOK(run), NEW s \in Sites, run.sites[s].pc = "live",
           ~(run.agentCalls >= MaxAgents)
    PROVE  RunOK(Moved([run EXCEPT !.agentCalls = run.agentCalls + 1], s, "queued"))
<1> DEFINE run1 == [run EXCEPT !.agentCalls = run.agentCalls + 1]
           run2 == Moved(run1, s, "queued")
<1>1. Shape(run) /\ Numbered(run) /\ Placed(run) /\ Replayed(run) /\ Accounted(run)
  BY DEF RunOK
<1>2. DOMAIN run = RunFields /\ DOMAIN run.sites = Sites /\ DOMAIN run.sites[s] = SiteFields
  BY <1>1 DEF Shape
<1>3. /\ DOMAIN run1 = RunFields /\ run1.agentCalls = run.agentCalls + 1
      /\ \A f \in RunFields \ {"agentCalls"} : run1[f] = run[f]
  BY <1>2 DEF RunFields
<1> HIDE DEF run1
<1>4. run1.sites = run.sites
  BY <1>3 DEF RunFields
<1>5. /\ Alone(run1, run2, s) /\ \A f \in RunFields \ {"sites"} : run2[f] = run1[f]
      /\ run2.sites[s].pc = "queued" /\ run2.sites[s].cached = run1.sites[s].cached
      /\ run2.sites[s].event = run1.sites[s].event
  BY <1>2, <1>3, <1>4, MovedFacts
<1> HIDE DEF run2
<1>6. /\ Alone(run, run2, s) /\ run2.next = run.next /\ run2.live = run.live
      /\ run2.tokens = run.tokens /\ run2.agentCalls = run.agentCalls + 1 /\ run2.journal = run.journal
  BY <1>3, <1>4, <1>5, SMTT(30) DEF Alone, RunFields
<1>7. /\ run.sites[s].call # 0 /\ ~run.sites[s].cached /\ run.sites[s].event = "none"
      /\ \A x \in Sites : run2.sites[x].call = run.sites[x].call
  BY <1>1, <1>6 DEF Placed, Alone
<1>8. /\ \A x \in Sites \ {s} : run2.sites[x] = run.sites[x]
      /\ \A x \in Sites : run2.sites[x].cached = run.sites[x].cached
      /\ \A x \in Sites : run2.sites[x].event = run.sites[x].event
  BY <1>4, <1>5, <1>6, SMTT(30) DEF Alone
<1>9. Replayed(run2)
  BY <1>1, <1>6, <1>7, <1>8 DEF Replayed
<1>10. Accounted(run2)
  <2>1. Recordings(run2) = Recordings(run)
    BY <1>7, <1>8 DEF Recordings
  <2>2. Admitted(run2) = Admitted(run) \cup {s} /\ InFlight(run2) = InFlight(run)
    BY <1>5, <1>8, <2>1 DEF Admitted, InFlight
  <2>3. Admitted(run) \in SUBSET Sites
    BY DEF Admitted, Recordings
  <2>4. /\ Cardinality(Admitted(run2)) <= Cardinality(Admitted(run)) + 1
        /\ Cardinality(Admitted(run)) \in Nat /\ Cardinality(Admitted(run2)) \in Nat
    BY <2>2, <2>3, SitesAdd, SitesFinite
  <2>5. run.agentCalls \in Nat /\ MaxAgents \in Nat
    BY <1>1, WorkflowAssumption, SMTT(30) DEF Shape
  <2>6. Cardinality(Admitted(run2)) <= run2.agentCalls /\ run2.agentCalls <= MaxAgents
    BY <1>1, <1>6, <2>4, <2>5 DEF Accounted
  <2>7. \A x \in Recordings(run) : x # s /\ x \in Sites
    BY <1>7 DEF Recordings
  <2> QED BY <1>1, <1>6, <1>8, <2>1, <2>2, <2>6, <2>7 DEF Accounted
<1>11. /\ run2.next \in Nat \ {0} /\ run2.next <= run.issued + 1 /\ run2.tokens \in Nat
       /\ run2.agentCalls \in Nat
  BY <1>1, <1>6 DEF Shape, Numbered
<1>12. run2.live \in BOOLEAN /\ run2.sites[s].cached \in BOOLEAN
  BY <1>1, <1>6, <1>8, Zenon DEF Shape
<1>13. run2.sites[s].event = "none" /\ ~run2.sites[s].cached
  BY <1>7, <1>8, SMTT(30)
<1>14. RunOK(run2)
  BY <1>5, <1>6, <1>7, <1>9, <1>10, <1>11, <1>12, <1>13, AloneKeeps
<1> QED BY <1>14 DEF run2, run1

\* A call acquires the semaphore.
LEMMA AcquireKeeps ==
    ASSUME NEW run, RunOK(run), NEW s \in Sites, run.sites[s].pc = "queued",
           Cardinality(InFlight(run)) < MaxConcurrency
    PROVE  RunOK(Moved(run, s, "agent"))
<1> DEFINE run2 == Moved(run, s, "agent")
<1>1. Shape(run) /\ Numbered(run) /\ Placed(run) /\ Replayed(run) /\ Accounted(run)
  BY DEF RunOK
<1>2. DOMAIN run = RunFields /\ DOMAIN run.sites = Sites /\ DOMAIN run.sites[s] = SiteFields
  BY <1>1 DEF Shape
<1>3. /\ Alone(run, run2, s) /\ \A f \in RunFields \ {"sites"} : run2[f] = run[f]
      /\ run2.sites[s].pc = "agent" /\ run2.sites[s].cached = run.sites[s].cached
      /\ run2.sites[s].event = run.sites[s].event
  BY <1>2, MovedFacts
<1> HIDE DEF run2
<1>4. /\ run2.next = run.next /\ run2.live = run.live
      /\ run2.tokens = run.tokens /\ run2.agentCalls = run.agentCalls /\ run2.journal = run.journal
  BY <1>3, SMTT(30) DEF RunFields
<1>5. /\ run.sites[s].call # 0 /\ ~run.sites[s].cached /\ run.sites[s].event = "none"
      /\ \A x \in Sites : run2.sites[x].call = run.sites[x].call
  BY <1>1, <1>3 DEF Placed, Alone
<1>6. /\ \A x \in Sites \ {s} : run2.sites[x] = run.sites[x]
      /\ \A x \in Sites : run2.sites[x].cached = run.sites[x].cached
      /\ \A x \in Sites : run2.sites[x].event = run.sites[x].event
  BY <1>3, SMTT(30) DEF Alone
<1>7. Replayed(run2)
  BY <1>1, <1>4, <1>5, <1>6 DEF Replayed
<1>8. Accounted(run2)
  <2>1. Recordings(run2) = Recordings(run)
    BY <1>5, <1>6 DEF Recordings
  <2>2. Admitted(run2) = Admitted(run) /\ InFlight(run2) = InFlight(run) \cup {s}
    BY <1>3, <1>6, <2>1 DEF Admitted, InFlight
  <2>3. InFlight(run) \in SUBSET Sites
    BY DEF InFlight
  <2>4. /\ Cardinality(InFlight(run2)) <= Cardinality(InFlight(run)) + 1
        /\ Cardinality(InFlight(run)) \in Nat /\ Cardinality(InFlight(run2)) \in Nat
    BY <2>2, <2>3, SitesAdd, SitesFinite
  <2>5. Cardinality(InFlight(run2)) <= MaxConcurrency
    BY <2>4, WorkflowAssumption
  <2>6. \A x \in Recordings(run) : x # s /\ x \in Sites
    BY <1>5 DEF Recordings
  <2> QED BY <1>1, <1>4, <1>6, <2>1, <2>2, <2>5, <2>6 DEF Accounted
<1>9. /\ run2.next \in Nat \ {0} /\ run2.next <= run.issued + 1 /\ run2.tokens \in Nat
      /\ run2.agentCalls \in Nat
  BY <1>1, <1>4 DEF Shape, Numbered
<1>10. run2.live \in BOOLEAN /\ run2.sites[s].cached \in BOOLEAN
  BY <1>1, <1>4, <1>6, Zenon DEF Shape
<1>11. run2.sites[s].event = "none" /\ ~run2.sites[s].cached
  BY <1>5, <1>6
<1>12. RunOK(run2)
  BY <1>3, <1>5, <1>7, <1>8, <1>9, <1>10, <1>11, AloneKeeps
<1> QED BY <1>12 DEF run2

\* The answer of an agent, or its failure, is recorded.
LEMMA RecordKeeps ==
    ASSUME NEW run, RunOK(run), NEW s \in Sites, run.sites[s].pc = "agent",
           NEW value, NEW event, event # "none"
    PROVE  RunOK(Ended(Recorded(run, s, value), s, value, event))
<1> DEFINE entry == [key |-> run.script.key[s], value |-> value]
           call == run.sites[s].call
           journal == [c \in DOMAIN run.journal \cup {call} |->
                          IF c = call THEN entry ELSE run.journal[c]]
           run1 == Recorded(run, s, value)
           run2 == Ended(run1, s, value, event)
<1>1. Shape(run) /\ Numbered(run) /\ Placed(run) /\ Replayed(run) /\ Accounted(run)
  BY DEF RunOK
<1>2. DOMAIN run = RunFields /\ DOMAIN run.sites = Sites /\ DOMAIN run.sites[s] = SiteFields
  BY <1>1 DEF Shape
<1>3. DOMAIN run.journal \subseteq DOMAIN journal /\ run.sites[s].call \in DOMAIN journal
  <2> HIDE DEF entry
  <2> QED OBVIOUS
<1>4. /\ DOMAIN run1 = RunFields /\ run1.journal = journal /\ run1.tokens = run.tokens + 1
      /\ \A f \in RunFields \ {"journal", "tokens"} : run1[f] = run[f]
  <2> DEFINE run0 == [run EXCEPT !.tokens = run.tokens + 1]
  <2>1. /\ DOMAIN run0 = RunFields /\ run0.tokens = run.tokens + 1
        /\ \A f \in RunFields \ {"tokens"} : run0[f] = run[f]
    BY <1>2 DEF RunFields
  <2>2. run1 = Journaled(run0, s, entry)
    BY Zenon DEF Recorded
  <2> HIDE DEF run0, entry
  <2>3. run0.sites = run.sites /\ run0.journal = run.journal
    BY <2>1 DEF RunFields
  <2>4. run1 = [run0 EXCEPT !.journal = journal]
    BY <2>2, <2>3, Zenon DEF Journaled
  <2> HIDE DEF journal, run1
  <2> QED BY <2>1, <2>4 DEF RunFields
<1> HIDE DEF run1, journal
<1>5. run1.sites = run.sites
  BY <1>4 DEF RunFields
<1>6. /\ Alone(run1, run2, s) /\ \A f \in RunFields \ {"sites"} : run2[f] = run1[f]
      /\ run2.sites[s].pc = "completed" /\ run2.sites[s].cached = run1.sites[s].cached
      /\ run2.sites[s].event = event
  BY <1>2, <1>4, <1>5, EndedFacts
<1> HIDE DEF run2
<1>7. /\ Alone(run, run2, s) /\ run2.next = run.next /\ run2.live = run.live
      /\ run2.tokens = run.tokens + 1 /\ run2.agentCalls = run.agentCalls /\ run2.journal = journal
  BY <1>4, <1>5, <1>6, SMTT(30) DEF Alone, RunFields
<1>8. /\ run.sites[s].call # 0 /\ ~run.sites[s].cached /\ run.sites[s].event = "none"
      /\ \A x \in Sites : run2.sites[x].call = run.sites[x].call
  BY <1>1, <1>7 DEF Placed, Alone
<1>9. /\ \A x \in Sites \ {s} : run2.sites[x] = run.sites[x]
      /\ \A x \in Sites : run2.sites[x].cached = run.sites[x].cached
  BY <1>5, <1>6, <1>7, SMTT(30) DEF Alone
<1>10. Replayed(run2)
  BY <1>1, <1>7, <1>8, <1>9 DEF Replayed
<1>11. Accounted(run2)
  <2>1. Recordings(run2) = Recordings(run) \cup {s} /\ s \notin Recordings(run)
    BY <1>6, <1>8, <1>9 DEF Recordings
  <2>2. Admitted(run2) = Admitted(run) /\ InFlight(run2) \in SUBSET InFlight(run)
    BY <1>6, <1>9, <2>1 DEF Admitted, InFlight
  <2>3. InFlight(run) \in SUBSET Sites /\ Recordings(run) \in SUBSET Sites
    BY DEF InFlight, Recordings
  <2>4. Cardinality(Recordings(run2)) = Cardinality(Recordings(run)) + 1
    BY <2>1, <2>3, SitesAdd
  <2>5. /\ Cardinality(InFlight(run2)) <= Cardinality(InFlight(run))
        /\ Cardinality(InFlight(run2)) \in Nat /\ Cardinality(InFlight(run)) \in Nat
    BY <2>2, <2>3, SitesSubset, SitesFinite
  <2>6. Cardinality(InFlight(run2)) <= MaxConcurrency
    BY <1>1, <2>5, WorkflowAssumption DEF Accounted
  <2>7. \A x \in Recordings(run2) : run2.sites[x].call \in DOMAIN run2.journal
    BY <1>1, <1>3, <1>7, <1>8, <2>1, <2>3 DEF Accounted
  <2> QED BY <1>1, <1>7, <2>2, <2>4, <2>6, <2>7 DEF Accounted
<1>12. /\ run2.next \in Nat \ {0} /\ run2.next <= run.issued + 1 /\ run2.tokens \in Nat
       /\ run2.agentCalls \in Nat
  BY <1>1, <1>7 DEF Shape, Numbered
<1>13. run2.live \in BOOLEAN /\ run2.sites[s].cached \in BOOLEAN
  BY <1>1, <1>7, <1>9, ZenonT(30) DEF Shape
<1>14. RunOK(run2)
  BY <1>6, <1>7, <1>8, <1>10, <1>11, <1>12, <1>13, AloneKeeps
<1> QED BY <1>14 DEF run2, run1

\* A completion is taken from the pending ones.
LEMMA AnsweredKeeps ==
    ASSUME NEW run, RunOK(run), NEW s \in Sites, NEW spent
    PROVE  RunOK([run EXCEPT !.sites[s].pc = "answered", !.spent = spent])
<1> DEFINE run2 == Moved(run, s, "answered")
<1>1. Shape(run)
  BY DEF RunOK
<1>2. DOMAIN run = RunFields /\ DOMAIN run.sites = Sites /\ \A x \in Sites : DOMAIN run.sites[x] = SiteFields
  BY <1>1 DEF Shape
<1>3. /\ Alone(run, run2, s) /\ \A f \in RunFields \ {"sites"} : run2[f] = run[f]
      /\ run2.sites[s].pc = "answered" /\ run2.sites[s].cached = run.sites[s].cached
      /\ run2.sites[s].event = run.sites[s].event
  BY <1>2, MovedFacts
<1> HIDE DEF run2
<1>4. Quiet(run, run2)
  BY <1>3 DEF Quiet, Alone, RunFields
<1>5. /\ DOMAIN run2 = RunFields /\ DOMAIN run2.sites = Sites
      /\ \A x \in Sites : DOMAIN run2.sites[x] = SiteFields
  BY <1>2, <1>3 DEF Alone
<1>6. RunOK(run2)
  BY <1>4, <1>5, QuietKeeps
<1>7. RunOK([run2 EXCEPT !.spent = spent])
  BY <1>6, PlainKeeps, Zenon
<1> QED BY <1>7, Zenon DEF run2, Moved

\* A run none of whose calls is issued.
LEMMA FreshKept ==
    ASSUME NEW run, DOMAIN run = RunFields, run.next = 1, run.live = FALSE, run.issued = 0,
           run.tokens = 0, run.agentCalls = 0, DOMAIN run.sites = Sites,
           \A s \in Sites : /\ DOMAIN run.sites[s] = SiteFields
                            /\ run.sites[s].pc = "unissued" /\ run.sites[s].call = 0
                            /\ run.sites[s].cached = FALSE /\ run.sites[s].event = "none"
    PROVE  RunOK(run)
<1>1. Shape(run)
  <2>1. run.live \in BOOLEAN /\ \A s \in Sites : run.sites[s].cached \in BOOLEAN
    BY Zenon
  <2> QED BY <2>1 DEF Shape
<1>2. Numbered(run) /\ Placed(run) /\ Replayed(run)
  BY DEF Numbered, Placed, Replayed
<1>3. Recordings(run) = {} /\ InFlight(run) = {}
  BY DEF Recordings, InFlight
<1>4. Admitted(run) = {}
  BY <1>3 DEF Admitted
<1>5. Accounted(run)
  <2>1. Cardinality({}) = 0
    BY FS_EmptySet
  <2> QED BY <1>3, <1>4, <2>1, WorkflowAssumption DEF Accounted
<1> QED BY <1>1, <1>2, <1>5 DEF RunOK

LEMMA UnissuedFacts ==
    ASSUME NEW value
    PROVE  LET site == [Unissued EXCEPT !.value = value] IN
           /\ DOMAIN site = SiteFields /\ site.pc = "unissued" /\ site.call = 0
           /\ site.cached = FALSE /\ site.event = "none"
BY DEF Unissued, SiteFields

LEMMA NoRunFacts ==
    /\ DOMAIN NoRun = RunFields /\ NoRun.next = 1 /\ NoRun.live = FALSE /\ NoRun.issued = 0
    /\ NoRun.tokens = 0 /\ NoRun.agentCalls = 0 /\ NoRun.sites = [s \in Sites |-> Unissued]
BY DEF NoRun, RunFields

LEMMA NoRunKept == RunOK(NoRun)
<1> DEFINE sites == [s \in Sites |-> Unissued]
<1>1. DOMAIN sites = Sites /\ \A s \in Sites : sites[s] = Unissued
  OBVIOUS
<1>2. /\ DOMAIN Unissued = SiteFields /\ Unissued.pc = "unissued" /\ Unissued.call = 0
      /\ Unissued.cached = FALSE /\ Unissued.event = "none"
  BY DEF Unissued, SiteFields
<1> HIDE DEF sites
<1>3. NoRun.sites = sites
  BY NoRunFacts DEF sites
<1> QED BY <1>1, <1>2, <1>3, NoRunFacts, FreshKept, Zenon

LEMMA StartedKept ==
    ASSUME NEW script, NEW from, NEW resume
    PROVE  RunOK([NoRun EXCEPT !.pc = "preparing", !.script = script, !.from = from,
                               !.resume = resume])
<1> DEFINE run2 == [NoRun EXCEPT !.pc = "preparing", !.script = script, !.from = from,
                                 !.resume = resume]
<1>1. DOMAIN NoRun = RunFields
  BY NoRunFacts
<1>2. /\ DOMAIN run2 = RunFields
      /\ \A f \in RunFields \ {"pc", "script", "from", "resume"} : run2[f] = NoRun[f]
  BY <1>1, Zenon DEF RunFields
<1> HIDE DEF run2
<1>3. Quiet(NoRun, run2) /\ run2.sites = NoRun.sites
  BY <1>2 DEF Quiet, RunFields
<1>4. Shape(NoRun)
  BY NoRunKept DEF RunOK
<1>5. DOMAIN run2.sites = Sites /\ \A s \in Sites : DOMAIN run2.sites[s] = SiteFields
  BY <1>3, <1>4 DEF Shape
<1>6. RunOK(run2)
  BY <1>2, <1>3, <1>5, NoRunKept, QuietKeeps
<1> QED BY <1>6 DEF run2

LEMMA SettledKept ==
    ASSUME NEW run, NEW result, NEW pc
    PROVE  RunOK([NoRun EXCEPT !.done = TRUE, !.result = result, !.pc = pc,
                     !.sites = [s \in Sites |-> [Unissued EXCEPT !.value = run.sites[s].value]]])
<1> DEFINE sites == [s \in Sites |-> [Unissued EXCEPT !.value = run.sites[s].value]]
           run2 == [NoRun EXCEPT !.done = TRUE, !.result = result, !.pc = pc, !.sites = sites]
<1>1. DOMAIN sites = Sites
  OBVIOUS
<1>2. ASSUME NEW s \in Sites
      PROVE  /\ DOMAIN sites[s] = SiteFields /\ sites[s].pc = "unissued" /\ sites[s].call = 0
             /\ sites[s].cached = FALSE /\ sites[s].event = "none"
  <2>1. sites[s] = [Unissued EXCEPT !.value = run.sites[s].value]
    BY Zenon
  <2> HIDE DEF sites
  <2> QED BY <2>1, UnissuedFacts, Zenon
<1> HIDE DEF sites
<1>3. DOMAIN NoRun = RunFields
  BY NoRunFacts
<1>4. /\ DOMAIN run2 = RunFields /\ run2.sites = sites
      /\ \A f \in RunFields \ {"pc", "done", "result", "sites"} : run2[f] = NoRun[f]
  BY <1>3, Zenon DEF RunFields
<1> HIDE DEF run2
<1>5. /\ run2.next = NoRun.next /\ run2.live = NoRun.live /\ run2.issued = NoRun.issued
      /\ run2.tokens = NoRun.tokens /\ run2.agentCalls = NoRun.agentCalls
  BY <1>4 DEF RunFields
<1>6. RunOK(run2)
  BY <1>1, <1>2, <1>4, <1>5, NoRunFacts, FreshKept, ZenonT(30)
<1> QED BY <1>6, Zenon DEF run2, sites
-----------------------------------------------------------------------------
(* The actions *)

LEMMA OneRun ==
    ASSUME WorkflowInv, NEW r \in Runs, NEW run, RunOK(run), runs' = [runs EXCEPT ![r] = run]
    PROVE  WorkflowInv'
<1>1. DOMAIN runs' = Runs /\ \A x \in Runs : runs'[x] = IF x = r THEN run ELSE runs[x]
  BY DEF WorkflowInv
<1>2. \A x \in Runs : RunOK(runs'[x])
  BY <1>1 DEF WorkflowInv
<1> QED BY <1>1, <1>2, Zenon DEF WorkflowInv, Runs

LEMMA ExecuteKeeps ==
    ASSUME WorkflowInv, NEW r \in Runs, Execute(r) \/ Stop(r)
    PROVE  WorkflowInv'
<1>1. RunOK(runs[r])
  BY DEF WorkflowInv
<1>2. \A pc : RunOK([runs[r] EXCEPT !.pc = pc])
  BY <1>1, PlainKeeps, Zenon
<1>3. CASE Execute(r)
  <2> DEFINE run1 == [runs[r] EXCEPT !.pc = "stopped"]
             run2 == Concluded(Issue([runs[r] EXCEPT !.pc = "awaiting"]))
  <2>1. RunOK(run1)
    BY <1>2
  <2>2. RunOK(run2)
    BY <1>2, IssueKeeps, ConcludedKeeps, Zenon
  <2>3. runs' = [runs EXCEPT ![r] = IF runs[r].done THEN run1 ELSE run2]
    BY <1>3, Zenon DEF Execute
  <2> HIDE DEF run1, run2
  <2> QED BY <2>1, <2>2, <2>3, OneRun, Zenon
<1>4. CASE Stop(r)
  <2>1. RunOK(Concluded([runs[r] EXCEPT !.pc = "stopped"]))
    BY <1>2, ConcludedKeeps, Zenon
  <2>2. runs' = [runs EXCEPT ![r] = Concluded([runs[r] EXCEPT !.pc = "stopped"])]
    BY <1>4, Zenon DEF Stop
  <2> QED BY <2>1, <2>2, OneRun, Zenon
<1> QED BY <1>3, <1>4

LEMMA DeliverKeeps ==
    ASSUME WorkflowInv, NEW r \in Runs, NEW s \in Sites, Deliver(r, s)
    PROVE  WorkflowInv'
<1> DEFINE run == runs[r]
           thrown == run.sites[s].value = Thrown
           spent == IF run.sites[s].event = "finished" THEN run.spent + 1 ELSE run.spent
           answered == [run EXCEPT !.sites[s].pc = "answered", !.spent = spent]
           threw == [answered EXCEPT !.pc = "threw"]
           skipped == [run EXCEPT !.sites = Skipped(run, {s})]
           run2 == Concluded(IF thrown /\ s \in run.script.strict THEN threw
                             ELSE Issue(IF thrown THEN skipped ELSE answered))
<1>1. RunOK(run)
  BY DEF WorkflowInv
<1>2. runs' = [runs EXCEPT ![r] = run2]
  <2>1. DOMAIN run = RunFields
    BY <1>1 DEF RunOK, Shape
  <2>2. answered = [run EXCEPT !.sites[s].pc = "answered",
                        !.spent = IF run.sites[s].event = "finished" THEN @ + 1 ELSE @]
    BY Zenon
  <2> QED BY <2>2, Zenon DEF Deliver
<1> HIDE DEF run, spent
<1>3. RunOK(answered)
  BY <1>1, AnsweredKeeps, Zenon
<1> HIDE DEF answered
<1>4. RunOK(threw)
  BY <1>3, PlainKeeps, Zenon
<1>5. RunOK(skipped)
  BY <1>1, SkippedKeeps, Zenon
<1> HIDE DEF threw, skipped, thrown
<1>6. RunOK(Issue(IF thrown THEN skipped ELSE answered))
  BY <1>3, <1>5, IssueKeeps, Zenon
<1>7. RunOK(run2)
  BY <1>4, <1>6, ConcludedKeeps, Zenon
<1> HIDE DEF run2
<1> QED BY <1>2, <1>7, OneRun, Zenon

LEMMA CallKeeps ==
    ASSUME WorkflowInv, NEW r \in Runs, NEW s \in Sites, CallStep(r, s)
    PROVE  WorkflowInv'
<1> DEFINE run == runs[r]
<1>1. RunOK(run)
  BY DEF WorkflowInv
<1>2. CASE Invalid(r, s)
  <2>1. run.sites[s].pc = "issued" /\ runs' = [runs EXCEPT ![r] = Ended(run, s, Thrown, "none")]
    BY <1>2, Zenon DEF Invalid, At, Completion, Step, Ended, Moved
  <2> HIDE DEF run
  <2>2. RunOK(Ended(run, s, Thrown, "none"))
    BY <1>1, <2>1, RefusalKeeps
  <2> QED BY <2>1, <2>2, OneRun, Zenon
<1>3. CASE Gate(r, s)
  <2> DEFINE hit == [run EXCEPT !.next = run.next + 1, !.sites[s].cached = TRUE]
             miss == [run EXCEPT !.next = run.next + 1, !.live = TRUE]
  <2>1. run.sites[s].pc = "issued" /\ run.next = run.sites[s].call
    BY <1>3, Zenon DEF Gate, At
  <2>2. \/ ~run.live /\ Step(r, s, hit, "hit")
        \/ Step(r, s, miss, "live")
    BY <1>3, Zenon DEF Gate, Hit
  <2> HIDE DEF run
  <2>3. CASE ~run.live /\ Step(r, s, hit, "hit")
    <3>1. RunOK(Moved(hit, s, "hit"))
      BY <1>1, <2>1, <2>3, HitKeeps, Zenon
    <3> HIDE DEF hit
    <3>2. runs' = [runs EXCEPT ![r] = Moved(hit, s, "hit")]
      BY <2>3, Zenon DEF Step, Moved
    <3> QED BY <3>1, <3>2, OneRun, Zenon
  <2>4. CASE Step(r, s, miss, "live")
    <3>1. RunOK(Moved(miss, s, "live"))
      BY <1>1, <2>1, MissKeeps, Zenon
    <3> HIDE DEF miss
    <3>2. runs' = [runs EXCEPT ![r] = Moved(miss, s, "live")]
      BY <2>4, Zenon DEF Step, Moved
    <3> QED BY <3>1, <3>2, OneRun, Zenon
  <2> QED BY <2>2, <2>3, <2>4
<1>4. CASE Replay(r, s)
  <2> DEFINE entry == run.resume[run.sites[s].call]
             value == entry.value
             run1 == Journaled(run, s, entry)
  <2>1. run.sites[s].pc = "hit" /\ Completion(r, s, run1, value, "finished")
    BY <1>4, Zenon DEF Replay, At
  <2> HIDE DEF run, entry, value
  <2>2. RunOK(Ended(run1, s, value, "finished"))
    BY <1>1, <2>1, ReplayKeeps
  <2> HIDE DEF run1
  <2>3. runs' = [runs EXCEPT ![r] = Ended(run1, s, value, "finished")]
    BY <2>1, Zenon DEF Completion, Step, Ended, Moved
  <2> QED BY <2>2, <2>3, OneRun, Zenon
<1>5. CASE Admit(r, s)
  <2> DEFINE run1 == [run EXCEPT !.agentCalls = run.agentCalls + 1]
  <2>1. /\ run.sites[s].pc = "live"
        /\ \/ Completion(r, s, run, Thrown, "none")
           \/ ~(run.agentCalls >= MaxAgents) /\ Step(r, s, run1, "queued")
    BY <1>5, Zenon DEF Admit, At
  <2> HIDE DEF run
  <2>2. CASE Completion(r, s, run, Thrown, "none")
    <3>1. RunOK(Ended(run, s, Thrown, "none"))
      BY <1>1, <2>1, RefusalKeeps
    <3>2. runs' = [runs EXCEPT ![r] = Ended(run, s, Thrown, "none")]
      BY <2>2, Zenon DEF Completion, Step, Ended, Moved
    <3> QED BY <3>1, <3>2, OneRun, Zenon
  <2>3. CASE ~(run.agentCalls >= MaxAgents) /\ Step(r, s, run1, "queued")
    <3>1. RunOK(Moved(run1, s, "queued"))
      BY <1>1, <2>1, <2>3, AdmitKeeps
    <3> HIDE DEF run1
    <3>2. runs' = [runs EXCEPT ![r] = Moved(run1, s, "queued")]
      BY <2>3, Zenon DEF Step, Moved
    <3> QED BY <3>1, <3>2, OneRun, Zenon
  <2> QED BY <2>1, <2>2, <2>3
<1>6. CASE Acquire(r, s)
  <2>1. /\ run.sites[s].pc = "queued"
        /\ \/ Completion(r, s, run, Thrown, "none")
           \/ Cardinality(InFlight(run)) < MaxConcurrency /\ Step(r, s, run, "agent")
    BY <1>6, ZenonT(30) DEF Acquire, At
  <2> HIDE DEF run
  <2>2. CASE Completion(r, s, run, Thrown, "none")
    <3>1. RunOK(Ended(run, s, Thrown, "none"))
      BY <1>1, <2>1, RefusalKeeps
    <3>2. runs' = [runs EXCEPT ![r] = Ended(run, s, Thrown, "none")]
      BY <2>2, Zenon DEF Completion, Step, Ended, Moved
    <3> QED BY <3>1, <3>2, OneRun, Zenon
  <2>3. CASE Cardinality(InFlight(run)) < MaxConcurrency /\ Step(r, s, run, "agent")
    <3>1. RunOK(Moved(run, s, "agent"))
      BY <1>1, <2>1, <2>3, AcquireKeeps
    <3>2. runs' = [runs EXCEPT ![r] = Moved(run, s, "agent")]
      BY <2>3, Zenon DEF Step, Moved
    <3> QED BY <3>1, <3>2, OneRun, Zenon
  <2> QED BY <2>1, <2>2, <2>3
<1> QED BY <1>2, <1>3, <1>4, <1>5, <1>6 DEF CallStep

LEMMA AgentEndsKeeps ==
    ASSUME WorkflowInv, NEW r \in Runs, NEW s \in Sites, AgentEnds(r, s)
    PROVE  WorkflowInv'
<1> DEFINE run == runs[r]
<1>1. RunOK(run)
  BY DEF WorkflowInv
<1>2. /\ run.sites[s].pc = "agent"
      /\ \/ Completion(r, s, Recorded(run, s, <<r, s>>), <<r, s>>, "finished")
         \/ Completion(r, s, Recorded(run, s, Null), Null, "failed")
         \/ Completion(r, s, run, Thrown, "none")
  BY Zenon DEF AgentEnds, At
<1> HIDE DEF run
<1>3. ASSUME NEW value, NEW event, event # "none",
             Completion(r, s, Recorded(run, s, value), value, event)
      PROVE  WorkflowInv'
  <2>1. RunOK(Ended(Recorded(run, s, value), s, value, event))
    BY <1>1, <1>2, <1>3, RecordKeeps
  <2>2. runs' = [runs EXCEPT ![r] = Ended(Recorded(run, s, value), s, value, event)]
    BY <1>3, Zenon DEF Completion, Step, Ended, Moved
  <2> QED BY <2>1, <2>2, OneRun, Zenon
<1>4. CASE Completion(r, s, run, Thrown, "none")
  <2>1. RunOK(Ended(run, s, Thrown, "none"))
    BY <1>1, <1>2, RefusalKeeps
  <2>2. runs' = [runs EXCEPT ![r] = Ended(run, s, Thrown, "none")]
    BY <1>4, Zenon DEF Completion, Step, Ended, Moved
  <2> QED BY <2>1, <2>2, OneRun, Zenon
<1>5. "finished" # "none" /\ "failed" # "none"
  OBVIOUS
<1> QED BY <1>2, <1>3, <1>4, <1>5, Zenon

LEMMA ManagerKeeps ==
    ASSUME WorkflowInv, NEW r \in Runs,
           \/ \E script \in Scripts, from \in 0..MaxRuns : Start(r, script, from)
           \/ Register(r) \/ Settle(r) \/ Cancel(r)
    PROVE  WorkflowInv'
<1> DEFINE run == runs[r]
<1>1. RunOK(run)
  BY DEF WorkflowInv
<1>2. ASSUME NEW script, NEW from, Start(r, script, from)
      PROVE  WorkflowInv'
  <2> DEFINE resume == IF from = 0 THEN Empty ELSE runs[from].result
             run2 == [NoRun EXCEPT !.pc = "preparing", !.script = script, !.from = from,
                                   !.resume = resume]
  <2>1. runs' = [runs EXCEPT ![r] = run2]
    BY <1>2, Zenon DEF Start
  <2> HIDE DEF resume
  <2>2. RunOK(run2)
    BY StartedKept, Zenon
  <2> HIDE DEF run2
  <2> QED BY <2>1, <2>2, OneRun, Zenon
<1>3. CASE Register(r)
  <2>1. PICK pc : runs' = [runs EXCEPT ![r].pc = pc]
    BY <1>3, Zenon DEF Register
  <2>2. runs' = [runs EXCEPT ![r] = [run EXCEPT !.pc = pc]]
    BY <2>1, Zenon
  <2> HIDE DEF run
  <2>3. RunOK([run EXCEPT !.pc = pc])
    BY <1>1, PlainKeeps, Zenon
  <2> QED BY <2>2, <2>3, OneRun, Zenon
<1>4. CASE Settle(r)
  <2>1. PICK pc : runs' = [runs EXCEPT ![r] = [NoRun EXCEPT
                      !.done = TRUE, !.result = run.result, !.pc = pc,
                      !.sites = [s \in Sites |-> [Unissued EXCEPT !.value = run.sites[s].value]]]]
    BY <1>4, Zenon DEF Settle
  <2> HIDE DEF run
  <2>2. RunOK([NoRun EXCEPT !.done = TRUE, !.result = run.result, !.pc = pc,
                  !.sites = [s \in Sites |-> [Unissued EXCEPT !.value = run.sites[s].value]]])
    BY SettledKept, Zenon
  <2> QED BY <2>1, <2>2, OneRun, Zenon
<1>5. CASE Cancel(r)
  <2>1. runs' = [runs EXCEPT ![r] = [run EXCEPT !.done = TRUE]]
    BY <1>5, Zenon DEF Cancel
  <2> HIDE DEF run
  <2>2. RunOK([run EXCEPT !.done = TRUE])
    BY <1>1, PlainKeeps, Zenon
  <2> QED BY <2>1, <2>2, OneRun, Zenon
<1> QED BY <1>2, <1>3, <1>4, <1>5

LEMMA CloseKeeps ==
    ASSUME WorkflowInv, Close
    PROVE  WorkflowInv'
<1>1. ASSUME NEW r \in Runs
      PROVE  runs'[r] \in {runs[r], [runs[r] EXCEPT !.done = TRUE]}
  BY Zenon DEF Close
<1>2. DOMAIN runs' = Runs
  BY Zenon DEF Close
<1>3. ASSUME NEW r \in Runs
      PROVE  RunOK(runs'[r])
  <2>1. RunOK(runs[r]) /\ RunOK([runs[r] EXCEPT !.done = TRUE])
    BY PlainKeeps, Zenon DEF WorkflowInv
  <2> QED BY <1>1, <2>1, Zenon
<1> QED BY <1>2, <1>3, Zenon DEF WorkflowInv, Runs

LEMMA InitWorkflow == Init => WorkflowInv
<1> SUFFICES ASSUME Init PROVE WorkflowInv
  OBVIOUS
<1>1. DOMAIN runs = Runs /\ \A r \in Runs : runs[r] = NoRun
  BY Zenon DEF Init
<1> QED BY <1>1, NoRunKept DEF WorkflowInv

LEMMA NextWorkflow == WorkflowInv /\ [Next]_vars => WorkflowInv'
<1> SUFFICES ASSUME WorkflowInv, [Next]_vars
             PROVE  WorkflowInv'
  OBVIOUS
<1>1. CASE Next
  <2>1. CASE \E r \in Runs : \/ \E script \in Scripts, from \in 0..MaxRuns : Start(r, script, from)
                             \/ Register(r) \/ Settle(r) \/ Cancel(r)
    BY <2>1, ManagerKeeps
  <2>2. CASE \E r \in Runs : Execute(r) \/ Stop(r)
    BY <2>2, ExecuteKeeps
  <2>3. CASE Close
    BY <2>3, CloseKeeps
  <2>4. CASE \E r \in Runs, s \in Sites : Deliver(r, s)
    BY <2>4, DeliverKeeps
  <2>5. CASE \E r \in Runs, s \in Sites : CallStep(r, s)
    BY <2>5, CallKeeps
  <2>6. CASE \E r \in Runs, s \in Sites : AgentEnds(r, s)
    BY <2>6, AgentEndsKeeps
  <2> QED BY <1>1, <2>1, <2>2, <2>3, <2>4, <2>5, <2>6, Zenon DEF Next
<1>2. CASE UNCHANGED vars
  BY <1>2 DEF vars, WorkflowInv, Runs
<1> QED BY <1>1, <1>2

LEMMA WorkflowAlways == Spec => []WorkflowInv
BY InitWorkflow, NextWorkflow, PTL DEF Spec

\* For any scripts, journals and numbers of calls and runs: the calls a run
\* answers from the journal are its first ones (workflowReplayGate.cached).
THEOREM ReplaysFirst == Spec => []ReplayPrefix
<1>1. WorkflowInv => ReplayPrefix
  BY DEF WorkflowInv, RunOK, Replayed, ReplayPrefix
<1> QED BY <1>1, WorkflowAlways, PTL

\* For any limits: the tokens and agent calls of a run are those of its calls,
\* what is recorded is journaled, and the agent limit, the semaphore and the
\* budget hold (runAgent, recordAgent).
THEOREM AccountsKept == Spec => []AccountsExact
<1>1. ASSUME NEW run, RunOK(run)
      PROVE  LET live == {s \in Sites : run.sites[s].call # 0 /\ ~run.sites[s].cached}
                 recorded == {s \in live : run.sites[s].event # "none"}
             IN /\ run.tokens = Cardinality(recorded)
                /\ run.agentCalls >= Cardinality(recorded \cup InFlight(run))
                /\ run.agentCalls <= MaxAgents
                /\ Cardinality(InFlight(run)) <= MaxConcurrency
                /\ {run.sites[s].call : s \in recorded} \subseteq DOMAIN run.journal
                /\ Budget > 0 => run.tokens < Budget + run.agentCalls
  <2> DEFINE live == {s \in Sites : run.sites[s].call # 0 /\ ~run.sites[s].cached}
             recorded == {s \in live : run.sites[s].event # "none"}
  <2>1. recorded = Recordings(run)
    BY SMTT(30) DEF Recordings
  <2>2. /\ recorded \cup InFlight(run) \in SUBSET Admitted(run) /\ Admitted(run) \in SUBSET Sites
        /\ recorded \in SUBSET Admitted(run)
    BY <2>1 DEF Admitted, InFlight, Recordings
  <2> HIDE DEF recorded
  <2>3. /\ Cardinality(recorded \cup InFlight(run)) <= Cardinality(Admitted(run))
        /\ Cardinality(recorded) <= Cardinality(Admitted(run))
    BY <2>2, SitesSubset
  <2>4. /\ Cardinality(recorded \cup InFlight(run)) \in Nat
        /\ Cardinality(recorded) \in Nat /\ Cardinality(Admitted(run)) \in Nat
    <3>1. recorded \cup InFlight(run) \in SUBSET Sites /\ recorded \in SUBSET Sites
      BY <2>2
    <3> QED BY <2>2, <3>1, SitesFinite
  <2>5. Accounted(run) /\ run.agentCalls \in Nat /\ Budget \in Nat
    BY <1>1, WorkflowAssumption DEF RunOK, Shape
  <2>6. run.tokens = Cardinality(recorded) /\ run.agentCalls >= Cardinality(recorded \cup InFlight(run))
    BY <2>1, <2>3, <2>4, <2>5 DEF Accounted
  <2>7. Budget > 0 => run.tokens < Budget + run.agentCalls
    BY <2>3, <2>4, <2>5, <2>6 DEF Accounted
  <2>8. {run.sites[s].call : s \in recorded} \subseteq DOMAIN run.journal
    BY <2>1, <2>5 DEF Accounted
  <2>9. run.agentCalls <= MaxAgents /\ Cardinality(InFlight(run)) <= MaxConcurrency
    BY <2>5 DEF Accounted
  <2> QED BY <2>6, <2>7, <2>8, <2>9, Zenon DEF recorded
<1>2. WorkflowInv => AccountsExact
  BY <1>1, Zenon DEF WorkflowInv, AccountsExact
<1> QED BY <1>2, WorkflowAlways, PTL
=============================================================================
