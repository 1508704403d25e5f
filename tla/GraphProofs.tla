---------------------------- MODULE GraphProofs ----------------------------
(***************************************************************************)
(* Proofs about Graph, for all values of its constants: the control state  *)
(* is well typed and a retained session is at the latest checkpoint, even  *)
(* when earlier checkpoints are invoked; and without such invocations the  *)
(* snapshot counters follow the chain of checkpoints.                      *)
(***************************************************************************)
EXTENDS Graph, TLAPS

\* The containers of the variables, so that an EXCEPT of them is known.
Shape ==
    /\ records = [th \in Threads |-> records[th]]
    /\ blobs = [th \in Threads |-> blobs[th]]
    /\ session = [valid |-> session.valid, machine |-> session.machine,
                  current |-> session.current, tasks |-> session.tasks,
                  counter |-> session.counter]
    /\ run = [pc |-> run.pc, saves |-> run.saves, machine |-> run.machine,
              current |-> run.current, tasks |-> run.tasks, counter |-> run.counter,
              input |-> run.input, resume |-> run.resume, steps |-> run.steps,
              results |-> run.results, todo |-> run.todo]

\* A thread with checkpoints has a latest one.
HasLatest ==
    DOMAIN records[T] # {} => \E m \in DOMAIN records[T] : \A id \in DOMAIN records[T] : id <= m

\* The invocation is at id, the latest checkpoint, with its counter.
At(id, counter) ==
    /\ id \in DOMAIN records[T]
    /\ \A c \in DOMAIN records[T] : c <= id
    /\ counter = records[T][id].meta.counter

Placed == {"resume", "loop", "commit", "interrupt", "return"}

\* An invocation that will store the session is at the latest checkpoint, and
\* from the resume write on its tasks are the stored ones; one that will not
\* leaves no valid session behind;
\* neither happens without RetainThreadState.
\* A superstep in progress is within the recursion limit.
RunPosition ==
    /\ run.pc # "idle" /\ run.saves =>
         /\ run.pc # "new" => At(run.current, run.counter)
         /\ run.pc \in Placed => run.tasks = records[T][run.current].meta.tasks
    /\ run.pc # "idle" /\ ~run.saves => ~session.valid
    /\ run.pc \in {"commit", "interrupt"} => run.steps < RecursionLimit
    /\ run.saves \in BOOLEAN
    /\ ~Retain => ~session.valid /\ ~run.saves

\* The inductive invariant of SpecFork.
SessionInv == Shape /\ TypeOK /\ HasLatest /\ RunPosition /\ SessionAtLatest

\* The invariant holds before the first operation on the thread.
LEMMA InitSession == Init => SessionInv
BY GraphAssumption, MaxIdAssumption
DEF Init, SaverInit, SessionInv, Shape, TypeOK, RecordsTyped, HasLatest, RunPosition,
    SessionAtLatest, NoSession, Idle, None, Counter, ZeroCounter

\* What persist does to the counter keeps it a counter.
LEMMA NextCounterType ==
    ASSUME NEW prev \in Counter, NEW updated, NEW overwritten, NEW force
    PROVE  NextCounter(prev, updated, overwritten, force) \in Counter
BY DEF NextCounter, Counter, ZeroCounter, Advance

\* Latest is the greatest id, 0 without checkpoints.
LEMMA LatestFacts ==
    ASSUME HasLatest, RecordsTyped, clock \in 0..MaxId, MaxId \in Nat
    PROVE  \/ DOMAIN records[T] = {} /\ Latest(T) = 0
           \/ Latest(T) \in DOMAIN records[T] /\ \A id \in DOMAIN records[T] : id <= Latest(T)
BY DEF HasLatest, RecordsTyped, Latest, Max

\* A restore ends at the addressed checkpoint with its tasks and counter, or
\* at no checkpoint if that is not stored.
LEMMA RestoreFacts ==
    ASSUME RecordsTyped, clock \in 0..MaxId, MaxId \in Nat, NEW id
    PROVE  /\ Restore(id).current \in 0..clock
           /\ Restore(id).tasks \in Plans \cup {<<>>}
           /\ Restore(id).counter \in Counter
           /\ Restore(id).current # 0 <=> id \in DOMAIN records[T]
           /\ id \in DOMAIN records[T] =>
                /\ Restore(id).current = id
                /\ Restore(id).tasks = records[T][id].meta.tasks
                /\ Restore(id).counter = records[T][id].meta.counter
BY DEF RecordsTyped, Restore, Has, Counter, ZeroCounter

\* One checkpoint is added, the latest, and the others are left alone.
Stored(parent, tasks, updated, counter) ==
    /\ clock' = clock + 1
    /\ clock' \in 1..MaxId
    /\ records' = [th \in Threads |-> records'[th]]
    /\ blobs' = [th \in Threads |-> blobs'[th]]
    /\ DOMAIN records'[T] = DOMAIN records[T] \cup {clock'}
    /\ \A c \in DOMAIN records[T] : records'[T][c] = records[T][c]
    /\ records'[T][clock'].parent = parent
    /\ records'[T][clock'].meta.tasks = tasks
    /\ records'[T][clock'].meta.updated = updated
    /\ records'[T][clock'].meta.counter = counter
    /\ counter \in Counter
    /\ RecordsTyped'
    /\ HasLatest'
    /\ \A c \in DOMAIN records'[T] : c <= clock'

\* persist stores a checkpoint under its parent with the next counter.
LEMMA PersistFacts ==
    ASSUME Shape, RecordsTyped, clock \in 0..MaxId, MaxId \in Nat, T \in Threads,
           NEW source, NEW parent \in 0..clock, NEW machine, NEW tasks \in Plans \cup {<<>>},
           NEW prev \in Counter, NEW updated, NEW overwritten, NEW force,
           Persist(source, parent, machine, tasks, prev, updated, overwritten, force)
    PROVE  Stored(parent, tasks, updated, NextCounter(prev, updated, overwritten, force))
<1> DEFINE id == clock'
           next == NextCounter(prev, updated, overwritten, force)
           base == IF Has(T, parent) THEN records[T][parent].versions ELSE Unversioned
           snapshot == IF Due(prev, updated, overwritten, force) THEN {"messages"} ELSE {}
           versions == [ch \in Channels |-> IF ch \in updated \cup snapshot THEN id ELSE base[ch]]
           record == [parent |-> parent, versions |-> versions,
                      meta |-> [source |-> source, tasks |-> tasks, updated |-> updated,
                                counter |-> next]]
<1>1. clock' = clock + 1 /\ clock' \in 1..MaxId
  BY DEF Persist, NewID
<1>2. records' = [records EXCEPT ![T] =
          [c \in DOMAIN records[T] \cup {id} |-> IF c = id THEN record ELSE records[T][c]]]
  BY DEF Persist, Put
<1>3. /\ records' = [th \in Threads |-> records'[th]]
      /\ records'[T] = [c \in DOMAIN records[T] \cup {id} |->
                           IF c = id THEN record ELSE records[T][c]]
  <2> HIDE DEF record
  <2> QED BY <1>2, Zenon DEF Shape
<1>4. blobs' = [th \in Threads |-> blobs'[th]]
  BY Zenon DEF Persist, Put, Shape
<1>5. id \notin DOMAIN records[T] /\ \A c \in DOMAIN records[T] : c <= id
  BY <1>1 DEF RecordsTyped
<1>6. /\ DOMAIN records'[T] = DOMAIN records[T] \cup {id}
      /\ \A c \in DOMAIN records[T] : records'[T][c] = records[T][c]
      /\ records'[T][id] = record
  <2> HIDE DEF record
  <2> QED BY <1>3, <1>5
<1>7. base \in [Channels -> 0..clock]
  BY DEF RecordsTyped, Has, Unversioned
<1>8. versions \in [Channels -> 0..id]
  <2> HIDE DEF base, snapshot
  <2> QED BY <1>1, <1>7
<1>9. next \in Counter
  BY NextCounterType
<1>10. /\ record.parent = parent
       /\ record.meta.tasks = tasks
       /\ record.meta.updated = updated
       /\ record.meta.counter = next
       /\ record.versions = versions
  <2> HIDE DEF versions, next
  <2> QED OBVIOUS
<1>11. RecordsTyped'
  <2> HIDE DEF record, versions, next
  <2> QED BY <1>1, <1>6, <1>8, <1>9, <1>10 DEF RecordsTyped
<1>12. HasLatest' /\ \A c \in DOMAIN records'[T] : c <= id
  <2> HIDE DEF record
  <2> QED BY <1>1, <1>5, <1>6 DEF HasLatest
<1> HIDE DEF record, versions, next
<1> QED BY <1>1, <1>3, <1>4, <1>6, <1>9, <1>10, <1>11, <1>12, Zenon DEF Stored, next

\* Prune keeps the latest checkpoint, and with a checkpoint its stored parent.
LEMMA PruneFacts ==
    ASSUME Shape, RecordsTyped, HasLatest, clock \in 0..MaxId, MaxId \in Nat, T \in Threads,
           Prune(T)
    PROVE  /\ clock' = clock
           /\ records' = [th \in Threads |-> records'[th]]
           /\ blobs' = [th \in Threads |-> blobs'[th]]
           /\ DOMAIN records'[T] \subseteq DOMAIN records[T]
           /\ \A c \in DOMAIN records'[T] : records'[T][c] = records[T][c]
           /\ \A m \in DOMAIN records[T] :
                (\A id \in DOMAIN records[T] : id <= m) => m \in DOMAIN records'[T]
           /\ \A c \in DOMAIN records'[T] :
                records[T][c].parent \in DOMAIN records[T] =>
                    records[T][c].parent \in DOMAIN records'[T]
           /\ \A c \in DOMAIN records'[T], ch \in Channels :
                LET key == <<ch, records[T][c].versions[ch]>> IN
                key \in DOMAIN blobs[T] =>
                    key \in DOMAIN blobs'[T] /\ blobs'[T][key] = blobs[T][key]
           /\ DOMAIN blobs'[T] \subseteq DOMAIN blobs[T]
           /\ \A key \in DOMAIN blobs'[T] : blobs'[T][key] = blobs[T][key]
           /\ RecordsTyped'
           /\ HasLatest'
<1> DEFINE keep == Ancestry(T, Latest(T))
           referenced == {<<ch, records[T][c].versions[ch]>> : ch \in Channels, c \in keep}
<1>1. clock' = clock
  BY DEF Prune
<1>2. keep \subseteq DOMAIN records[T]
  BY DEF Ancestry
<1>3. /\ records' = [th \in Threads |-> records'[th]]
      /\ records'[T] = [c \in keep |-> records[T][c]]
  <2>1. records' = [records EXCEPT ![T] = [c \in keep |-> records[T][c]]]
    BY DEF Prune
  <2> HIDE DEF keep
  <2> QED BY <2>1 DEF Shape
<1>4. /\ blobs' = [th \in Threads |-> blobs'[th]]
      /\ blobs'[T] = [key \in DOMAIN blobs[T] \cap referenced |-> blobs[T][key]]
  <2>1. blobs' = [blobs EXCEPT ![T] = [key \in DOMAIN blobs[T] \cap referenced |-> blobs[T][key]]]
    BY DEF Prune
  <2> HIDE DEF referenced
  <2> QED BY <2>1 DEF Shape
<1>5. \A m \in DOMAIN records[T] : (\A id \in DOMAIN records[T] : id <= m) => m \in keep
  <2> SUFFICES ASSUME NEW m \in DOMAIN records[T], \A id \in DOMAIN records[T] : id <= m
               PROVE  m \in keep
    OBVIOUS
  <2>1. m = Latest(T)
    BY LatestFacts DEF RecordsTyped
  <2> QED BY <2>1 DEF Ancestry
<1>6. \A c \in keep : records[T][c].parent \in DOMAIN records[T] => records[T][c].parent \in keep
  BY DEF Ancestry
<1>7. \A c \in keep, ch \in Channels : <<ch, records[T][c].versions[ch]>> \in referenced
  <2> HIDE DEF keep
  <2> QED BY DEF referenced
<1> HIDE DEF keep, referenced
<1>8. RecordsTyped'
  BY <1>1, <1>2, <1>3 DEF RecordsTyped
<1>9. HasLatest'
  BY <1>2, <1>3, <1>5 DEF HasLatest
<1> QED BY <1>1, <1>2, <1>3, <1>4, <1>5, <1>6, <1>7, <1>8, <1>9

\* An invocation begins from the session or from a restore, either way at an
\* id that was handed out.
LEMMA BeginSession ==
    ASSUME SessionInv, NEW id \in DOMAIN records[T] \cup {0}, NEW input, NEW resume \in BOOLEAN,
           BeginInvoke(id, input, resume)
    PROVE  SessionInv'
<1> DEFINE start == IF Retain /\ id = 0 /\ session.valid THEN session
                    ELSE Restore(IF id = 0 THEN Latest(T) ELSE id)
           pc == IF start.current = 0 THEN "new"
                 ELSE IF input # NoUpdate THEN "input" ELSE "resume"
<1> USE GraphAssumption, MaxIdAssumption
<1>1. /\ run.pc = "idle"
      /\ UNCHANGED <<records, blobs, clock>>
      /\ ops' = ops + 1 /\ ops < MaxOps
      /\ session' = IF id = 0 THEN session ELSE [session EXCEPT !.valid = FALSE]
      /\ run' = [Idle EXCEPT !.pc = pc, !.saves = Retain /\ id = 0,
             !.machine = start.machine, !.current = start.current, !.tasks = start.tasks,
             !.counter = start.counter, !.input = input, !.resume = resume]
  BY DEF BeginInvoke, Room, Invalidated
<1>2. /\ start.current \in 0..clock
      /\ start.tasks \in Plans \cup {<<>>}
      /\ start.counter \in Counter
  BY RestoreFacts DEF SessionInv, TypeOK
<1>3. ASSUME Retain, id = 0, start.current # 0
      PROVE  /\ At(start.current, start.counter)
             /\ start.tasks = records[T][start.current].meta.tasks
  BY <1>1, <1>3, RestoreFacts, LatestFacts, SMTT(30) DEF SessionInv, TypeOK, SessionAtLatest, At
<1>4. pc \in {"new", "input", "resume"} /\ (pc # "new" => start.current # 0)
  <2> HIDE DEF start
  <2> QED OBVIOUS
<1> HIDE DEF start, pc
<1>5. /\ run'.pc = pc /\ run'.saves = (Retain /\ id = 0)
      /\ run'.current = start.current /\ run'.tasks = start.tasks
      /\ run'.counter = start.counter /\ run'.steps = 0
  BY <1>1 DEF Idle
<1>6. Shape'
  BY <1>1, Zenon DEF Idle, SessionInv, Shape
<1>7. /\ id = 0 => session' = session
      /\ id # 0 => ~session'.valid
      /\ session'.valid \in BOOLEAN
      /\ session'.current = session.current
      /\ session'.tasks = session.tasks /\ session'.counter = session.counter
  BY <1>1, ZenonT(30) DEF SessionInv, Shape, TypeOK
<1>8. TypeOK'
  <2>1. RecordsTyped'
    BY <1>1, SMTT(30) DEF SessionInv, TypeOK, RecordsTyped
  <2>2. ops' \in 0..MaxOps /\ clock' \in 0..MaxId /\ run'.steps \in 0..RecursionLimit
    BY <1>1, <1>5 DEF SessionInv, TypeOK
  <2>3. /\ run'.current \in 0..clock' /\ run'.tasks \in Plans \cup {<<>>}
        /\ run'.counter \in Counter
    BY <1>1, <1>2, <1>5
  <2>4. /\ session'.current \in 0..clock' /\ session'.tasks \in Plans \cup {<<>>}
        /\ session'.counter \in Counter
    BY <1>1, <1>7 DEF SessionInv, TypeOK
  <2>5. run'.pc \in {"new", "input", "resume"}
    BY <1>4, <1>5
  <2> QED BY <1>7, <2>1, <2>2, <2>3, <2>4, <2>5 DEF TypeOK
<1>9. HasLatest'
  BY <1>1 DEF SessionInv, HasLatest
<1>10. RunPosition'
  <2>1. run'.saves \in BOOLEAN /\ (run'.saves => Retain /\ id = 0)
    BY <1>5, ZenonT(30)
  <2>2. ~Retain => ~session'.valid /\ ~run'.saves
    BY <1>7, <2>1 DEF SessionInv, RunPosition
  <2>3. run'.pc # "idle" /\ ~run'.saves => ~session'.valid
    BY <1>5, <1>7, <2>2
  <2>4. ASSUME run'.saves, run'.pc # "new"
        PROVE  At(run.current, run.counter)' /\ run'.tasks = records'[T][run'.current].meta.tasks
    BY <1>1, <1>3, <1>4, <1>5, <2>1, <2>4 DEF At
  <2> QED BY <1>4, <1>5, <2>1, <2>2, <2>3, <2>4 DEF RunPosition, Placed
<1>11. SessionAtLatest'
  BY <1>4, <1>5 DEF SessionAtLatest
<1> QED BY <1>6, <1>8, <1>9, <1>10, <1>11 DEF SessionInv

\* A step of an invocation that stores no checkpoint and stays where it is.
LEMMA StaySession ==
    ASSUME SessionInv, UNCHANGED <<records, blobs, clock, session, ops>>, Shape',
           run.pc # "idle", run.pc # "new",
           run'.pc \in Placed \cup {"inputPut"},
           run'.saves = run.saves, run'.current = run.current, run'.counter = run.counter,
           run'.steps = run.steps, run'.tasks \in Plans \cup {<<>>},
           run'.pc \in Placed => run.pc \in Placed /\ run'.tasks = run.tasks,
           run'.pc \in {"commit", "interrupt"} => run.steps < RecursionLimit
    PROVE  SessionInv'
<1>1. TypeOK'
  <2>1. RecordsTyped'
    BY DEF SessionInv, TypeOK, RecordsTyped
  <2> QED BY <2>1 DEF SessionInv, TypeOK, Placed
<1>2. HasLatest'
  BY DEF SessionInv, HasLatest
<1>3. RunPosition'
  BY DEF SessionInv, RunPosition, At
<1>4. SessionAtLatest'
  BY DEF SessionAtLatest, Placed
<1> QED BY <1>1, <1>2, <1>3, <1>4 DEF SessionInv

\* A step of an invocation that stores a checkpoint and moves to it.
LEMMA StoreSession ==
    ASSUME SessionInv, run.pc # "idle", session' = session, ops' = ops, Shape',
           NEW parent, NEW tasks \in Plans \cup {<<>>}, NEW updated, NEW counter,
           Stored(parent, tasks, updated, counter),
           run'.pc \in {"resume", "loop", "return"}, run'.saves = run.saves,
           run'.current = clock',
           run'.tasks = tasks, run'.steps \in 0..RecursionLimit, run'.counter = counter
    PROVE  SessionInv'
<1>1. /\ clock' = clock + 1 /\ clock' \in 1..MaxId
      /\ clock' \in DOMAIN records'[T]
      /\ records'[T][clock'].meta.tasks = tasks
      /\ records'[T][clock'].meta.counter = run'.counter
      /\ run'.counter \in Counter
      /\ RecordsTyped' /\ HasLatest'
      /\ \A c \in DOMAIN records'[T] : c <= clock'
  BY DEF Stored
<1>2. TypeOK'
  <2>2. session'.current \in 0..clock'
    BY <1>1, MaxIdAssumption DEF SessionInv, TypeOK
  <2>3. run'.current \in 0..clock' /\ clock' \in 0..MaxId
    BY <1>1
  <2>4. /\ ops' \in 0..MaxOps /\ session'.valid \in BOOLEAN
        /\ session'.tasks \in Plans \cup {<<>>} /\ session'.counter \in Counter
    BY DEF SessionInv, TypeOK
  <2> QED BY <1>1, <2>2, <2>3, <2>4 DEF TypeOK, Placed
<1>3. RunPosition'
  BY <1>1 DEF SessionInv, RunPosition, At, Placed
<1>4. SessionAtLatest'
  BY DEF SessionAtLatest, Placed
<1> QED BY <1>1, <1>2, <1>3, <1>4 DEF SessionInv

\* Cancel and UpdateState store a checkpoint and invalidate the session.
LEMMA EditSession ==
    ASSUME SessionInv, run.pc = "idle", run' = run, session' = Invalidated,
           ops < MaxOps, ops' = ops + 1,
           NEW parent, NEW tasks, NEW updated, NEW counter,
           Stored(parent, tasks, updated, counter)
    PROVE  SessionInv'
<1> USE GraphAssumption, MaxIdAssumption
<1>1. /\ clock' = clock + 1 /\ clock' \in 1..MaxId
      /\ records' = [th \in Threads |-> records'[th]]
      /\ blobs' = [th \in Threads |-> blobs'[th]]
      /\ RecordsTyped' /\ HasLatest'
  BY DEF Stored
<1>2. /\ session'.valid = FALSE /\ session'.current = session.current
      /\ session'.tasks = session.tasks /\ session'.counter = session.counter
  BY DEF Invalidated, SessionInv, Shape
<1>3. Shape'
  BY <1>1, ZenonT(30) DEF Invalidated, SessionInv, Shape
<1>4. TypeOK'
  <2>1. session'.current \in 0..clock' /\ run'.current \in 0..clock' /\ clock' \in 0..MaxId
    BY <1>1, <1>2, SMTT(30) DEF SessionInv, TypeOK
  <2>2. ops' \in 0..MaxOps
    BY DEF SessionInv, TypeOK
  <2>3. /\ session'.tasks \in Plans \cup {<<>>} /\ session'.counter \in Counter
        /\ session'.valid \in BOOLEAN
    BY <1>2, Zenon DEF SessionInv, TypeOK
  <2> QED BY <1>1, <2>1, <2>2, <2>3, SMTT(30) DEF SessionInv, TypeOK
<1>5. RunPosition'
  BY <1>2 DEF SessionInv, RunPosition
<1>6. SessionAtLatest'
  BY <1>2 DEF SessionAtLatest
<1> QED BY <1>1, <1>3, <1>4, <1>5, <1>6 DEF SessionInv

\* An invocation that ends without success, and a crash.
LEMMA EndSession ==
    ASSUME SessionInv, UNCHANGED <<records, blobs, clock, ops>>, run' = Idle,
           \/ run.pc # "idle" /\ session' = IF run.saves THEN Invalidated ELSE session
           \/ session' = NoSession
    PROVE  SessionInv'
<1> USE GraphAssumption, MaxIdAssumption
<1>1. /\ ~session'.valid /\ session'.valid \in BOOLEAN
      /\ session'.current \in 0..clock /\ session'.tasks \in Plans \cup {<<>>}
      /\ session'.counter \in Counter
      /\ session' = [valid |-> session'.valid, machine |-> session'.machine,
                     current |-> session'.current, tasks |-> session'.tasks,
                     counter |-> session'.counter]
  <2>1. CASE session' = NoSession
    BY <2>1 DEF SessionInv, TypeOK, NoSession, Counter, ZeroCounter
  <2>2. CASE run.pc # "idle" /\ run.saves /\ session' = Invalidated
    BY <2>2, Zenon DEF SessionInv, TypeOK, Shape, Invalidated
  <2>3. CASE run.pc # "idle" /\ ~run.saves /\ session' = session
    BY <2>3 DEF SessionInv, TypeOK, Shape, RunPosition
  <2> QED BY <2>1, <2>2, <2>3
<1>2. Shape'
  BY <1>1 DEF SessionInv, Shape, Idle
<1>3. TypeOK'
  <2>1. RecordsTyped'
    BY DEF SessionInv, TypeOK, RecordsTyped
  <2> QED BY <1>1, <2>1 DEF SessionInv, TypeOK, Idle, Counter, ZeroCounter
<1>4. HasLatest'
  BY DEF SessionInv, HasLatest
<1>5. RunPosition' /\ SessionAtLatest'
  BY <1>1 DEF RunPosition, SessionAtLatest, Idle
<1> QED BY <1>2, <1>3, <1>4, <1>5 DEF SessionInv

\* Each step of an invocation in flight.
LEMMA RunStepSession ==
    ASSUME SessionInv, RunStep
    PROVE  SessionInv'
<1> USE GraphAssumption, MaxIdAssumption
<1>0. /\ Shape /\ RecordsTyped /\ clock \in 0..MaxId /\ MaxId \in Nat /\ T \in Threads
      /\ run.current \in 0..clock /\ run.tasks \in Plans \cup {<<>>} /\ run.counter \in Counter
      /\ run.steps \in 0..RecursionLimit
      /\ ZeroCounter \in Counter /\ 0 \in 0..clock /\ StartTasks \in Plans \cup {<<>>}
  BY DEF SessionInv, TypeOK, Counter, ZeroCounter
<1>1. CASE InputNew
  <2> DEFINE machine == Apply(run.machine, <<run.input>>)
             updated == Keys(run.input)
  <2>1. Persist("input", 0, machine, StartTasks, ZeroCounter, updated, FALSE, TRUE)
    BY <1>1, Zenon DEF InputNew
  <2>2. /\ run.pc = "new" /\ session' = session /\ ops' = ops
        /\ run' = [run EXCEPT !.pc = "resume", !.machine = machine, !.current = clock',
                     !.tasks = StartTasks, !.counter = ZeroCounter]
    BY <1>1 DEF InputNew
  <2> HIDE DEF machine, updated
  <2>3. Stored(0, StartTasks, updated, NextCounter(ZeroCounter, updated, FALSE, TRUE))
    BY <1>0, <2>1, PersistFacts, Zenon
  <2>4. NextCounter(ZeroCounter, updated, FALSE, TRUE) = ZeroCounter
    BY DEF NextCounter, Due
  <2>5. /\ run'.pc = "resume" /\ run'.saves = run.saves /\ run'.current = clock'
        /\ run'.tasks = StartTasks /\ run'.counter = ZeroCounter /\ run'.steps = run.steps
    BY <1>0, <2>2 DEF Shape
  <2>6. Shape'
    BY <1>0, <2>2, <2>3, Zenon DEF Shape, Stored
  <2> QED BY <1>0, <2>2, <2>3, <2>4, <2>5, <2>6, StoreSession, Zenon DEF Placed
<1>2. CASE InputPut
  <2> DEFINE us == <<run.input>>
             machine == Apply(run.machine, us)
             updated == Keys(run.input)
             counter == NextCounter(run.counter, updated, Overwritten(us), FALSE)
  <2>1. Persist("input", run.current, machine, run.tasks, run.counter, updated,
                Overwritten(us), FALSE)
    BY <1>2, Zenon DEF InputPut
  <2>2. /\ run.pc = "inputPut" /\ session' = session /\ ops' = ops
        /\ run' = [run EXCEPT !.pc = "resume", !.machine = machine, !.current = clock',
                     !.counter = counter]
    BY <1>2 DEF InputPut
  <2> HIDE DEF us, machine, updated
  <2>3. Stored(run.current, run.tasks, updated, counter)
    BY <1>0, <2>1, PersistFacts, Zenon
  <2> HIDE DEF counter
  <2>5. /\ run'.pc = "resume" /\ run'.saves = run.saves /\ run'.current = clock'
        /\ run'.tasks = run.tasks /\ run'.counter = counter /\ run'.steps = run.steps
    BY <1>0, <2>2 DEF Shape
  <2>6. Shape'
    BY <1>0, <2>2, <2>3, ZenonT(30) DEF Shape, Stored
  <2> QED BY <1>0, <2>2, <2>3, <2>5, <2>6, StoreSession DEF Placed
<1>3. CASE CommitStep
  <2> DEFINE us == ResultUpdates
             machine == Apply(ConsumeEphemeral(run.machine), us)
             updated == UpdatedKeys(us)
             counter == NextCounter(run.counter, updated, Overwritten(us), FALSE)
  <2>1. PICK next \in Plans :
          /\ Persist("loop", run.current, machine, next, run.counter, updated,
                     Overwritten(us), FALSE)
          /\ run' = [run EXCEPT !.pc = "loop", !.machine = machine, !.current = clock',
                       !.tasks = next, !.steps = @ + 1, !.results = <<>>,
                       !.counter = counter]
    BY <1>3, Zenon DEF CommitStep
  <2>2. run.pc = "commit" /\ session' = session /\ ops' = ops
    BY <1>3 DEF CommitStep
  <2> HIDE DEF us, machine, updated
  <2>3. Stored(run.current, next, updated, counter)
    BY <1>0, <2>1, PersistFacts, Zenon
  <2> HIDE DEF counter
  <2>5. /\ run'.pc = "loop" /\ run'.saves = run.saves /\ run'.current = clock'
        /\ run'.tasks = next /\ run'.counter = counter /\ run'.steps = run.steps + 1
    BY <1>0, <2>1 DEF Shape
  <2>6. Shape'
    BY <1>0, <2>1, <2>2, <2>3, Zenon DEF Shape, Stored
  <2>7. run'.steps \in 0..RecursionLimit
    BY <1>0, <2>2, <2>5 DEF SessionInv, RunPosition
  <2> QED BY <1>0, <2>2, <2>3, <2>5, <2>6, <2>7, StoreSession DEF Placed
<1>4. CASE CommitInterrupt
  <2> DEFINE us == InterruptUpdates
             machine == Apply(run.machine, us)
             updated == UpdatedKeys(us)
             counter == NextCounter(run.counter, updated, Overwritten(us), FALSE)
  <2>1. /\ Persist("loop", run.current, machine, run.tasks, run.counter, updated,
                   Overwritten(us), FALSE)
        /\ run' = [run EXCEPT !.pc = "return", !.machine = machine, !.current = clock',
                     !.steps = @ + 1, !.results = <<>>, !.counter = counter]
    BY <1>4, Zenon DEF CommitInterrupt
  <2>2. run.pc = "interrupt" /\ session' = session /\ ops' = ops
    BY <1>4 DEF CommitInterrupt
  <2> HIDE DEF us, machine, updated
  <2>3. Stored(run.current, run.tasks, updated, counter)
    BY <1>0, <2>1, PersistFacts, Zenon
  <2> HIDE DEF counter
  <2>5. /\ run'.pc = "return" /\ run'.saves = run.saves /\ run'.current = clock'
        /\ run'.tasks = run.tasks /\ run'.counter = counter /\ run'.steps = run.steps + 1
    BY <1>0, <2>1 DEF Shape
  <2>6. Shape'
    BY <1>0, <2>1, <2>2, <2>3, Zenon DEF Shape, Stored
  <2>7. run'.steps \in 0..RecursionLimit
    BY <1>0, <2>2, <2>5 DEF SessionInv, RunPosition
  <2> QED BY <1>0, <2>2, <2>3, <2>5, <2>6, <2>7, StoreSession DEF Placed
<1>5. CASE InputWrites
  <2>1. /\ run.pc = "input" /\ UNCHANGED <<records, blobs, clock, session, ops>>
        /\ run' = [run EXCEPT !.pc = "inputPut",
                     !.tasks = IF run.tasks = <<>> THEN StartTasks ELSE run.tasks]
    BY <1>5 DEF InputWrites
  <2>2. /\ run'.pc = "inputPut" /\ run'.saves = run.saves /\ run'.current = run.current
        /\ run'.tasks \in Plans \cup {<<>>} /\ run'.counter = run.counter
        /\ run'.steps = run.steps
    BY <1>0, <2>1 DEF Shape
  <2>3. Shape'
    BY <1>0, <2>1, Zenon DEF Shape
  <2> QED BY <2>1, <2>2, <2>3, StaySession DEF Placed
<1>6. CASE ResumeWrite
  <2>1. /\ run.pc = "resume" /\ UNCHANGED <<records, blobs, clock, session, ops>>
        /\ run' = [run EXCEPT !.pc = "loop"]
    BY <1>6 DEF ResumeWrite
  <2>2. /\ run'.pc = "loop" /\ run'.saves = run.saves /\ run'.current = run.current
        /\ run'.tasks = run.tasks /\ run'.counter = run.counter /\ run'.steps = run.steps
    BY <1>0, <2>1 DEF Shape
  <2>3. Shape'
    BY <1>0, <2>1, Zenon DEF Shape
  <2> QED BY <1>0, <2>1, <2>2, <2>3, StaySession DEF Placed
<1>7. CASE ExecuteTasks
  <2>1. /\ run.pc = "loop" /\ run.steps < RecursionLimit
        /\ UNCHANGED <<records, blobs, clock, session, ops>>
        /\ \E pc \in {"commit", "interrupt"} : \E results, todo :
             run' = [run EXCEPT !.pc = pc, !.results = results, !.todo = todo, !.resume = FALSE]
    BY <1>7, Zenon DEF ExecuteTasks, StepAllowed
  <2>2. PICK pc \in {"commit", "interrupt"} : \E results, todo :
             run' = [run EXCEPT !.pc = pc, !.results = results, !.todo = todo, !.resume = FALSE]
    BY <2>1, Zenon
  <2>3. PICK results, todo :
             run' = [run EXCEPT !.pc = pc, !.results = results, !.todo = todo, !.resume = FALSE]
    BY <2>2, Zenon
  <2>4. /\ run'.pc \in {"commit", "interrupt"} /\ run'.saves = run.saves
        /\ run'.current = run.current /\ run'.tasks = run.tasks
        /\ run'.counter = run.counter /\ run'.steps = run.steps
    BY <1>0, <2>3 DEF Shape
  <2>5. Shape'
    BY <1>0, <2>1, <2>3, ZenonT(30) DEF Shape
  <2> QED BY <1>0, <2>1, <2>4, <2>5, StaySession DEF Placed
<1>8. CASE TaskPutWrites
  <2>1. /\ run.pc \in {"commit", "interrupt"}
        /\ UNCHANGED <<records, blobs, clock, session, ops>>
        /\ run' = [run EXCEPT !.todo = Tail(@)]
    BY <1>8 DEF TaskPutWrites
  <2>2. /\ run'.pc = run.pc /\ run'.saves = run.saves /\ run'.current = run.current
        /\ run'.tasks = run.tasks /\ run'.counter = run.counter /\ run'.steps = run.steps
        /\ Shape'
    BY <1>0, <2>1, ZenonT(30) DEF Shape
  <2>3. run.steps < RecursionLimit
    BY <2>1 DEF SessionInv, RunPosition
  <2> QED BY <1>0, <2>1, <2>2, <2>3, StaySession DEF Placed
<1>9. CASE Return
  <2>1. /\ run.pc \in {"loop", "return"} /\ run' = Idle
        /\ UNCHANGED <<records, blobs, clock, ops>>
        /\ session' = IF run.saves
                      THEN [valid |-> TRUE, machine |-> run.machine, current |-> run.current,
                            tasks |-> run.tasks, counter |-> run.counter]
                      ELSE session
    BY <1>9 DEF Return
  <2>2. CASE ~run.saves
    BY <2>1, <2>2, EndSession
  <2>3. CASE run.saves
    <3>1. /\ session'.valid = TRUE /\ session'.current = run.current
          /\ session'.tasks = run.tasks /\ session'.counter = run.counter
      BY <2>1, <2>3
    <3>2. /\ At(run.current, run.counter)
          /\ run.tasks = records[T][run.current].meta.tasks /\ Retain
      BY <2>1, <2>3 DEF SessionInv, RunPosition, Placed
    <3>3. Shape'
      BY <1>0, <2>1, <2>3 DEF Shape, Idle
    <3>4. TypeOK'
      <4>1. RecordsTyped'
        BY <1>0, <2>1 DEF RecordsTyped
      <4>2. /\ run'.pc = "idle" /\ run'.current = 0 /\ run'.tasks = <<>>
            /\ run'.counter = ZeroCounter /\ run'.steps = 0
        BY <2>1 DEF Idle
      <4>3. ops' \in 0..MaxOps /\ clock' \in 0..MaxId /\ 0 \in 0..clock' /\ 0 \in 0..RecursionLimit
        BY <1>0, <2>1 DEF SessionInv, TypeOK
      <4>4. /\ session'.current \in 0..clock' /\ session'.tasks \in Plans \cup {<<>>}
            /\ session'.counter \in Counter /\ session'.valid \in BOOLEAN
        BY <1>0, <2>1, <3>1, ZenonT(30)
      <4> QED BY <1>0, <4>1, <4>2, <4>3, <4>4, SMTT(30) DEF TypeOK
    <3>5. HasLatest'
      BY <2>1, SMTT(30) DEF SessionInv, HasLatest
    <3>6. SessionAtLatest'
      BY <2>1, <3>1, <3>2, SMTT(30) DEF SessionAtLatest, At
    <3>7. RunPosition'
      BY <2>1, <3>2 DEF RunPosition, Idle
    <3> QED BY <3>3, <3>4, <3>5, <3>6, <3>7 DEF SessionInv
  <2> QED BY <2>2, <2>3 DEF SessionInv, RunPosition
<1>10. CASE RecursionLimitReached \/ ApplyError
  BY <1>10, EndSession DEF RecursionLimitReached, ApplyError, Fail
<1> QED BY <1>1, <1>2, <1>3, <1>4, <1>5, <1>6, <1>7, <1>8, <1>9, <1>10 DEF RunStep

\* Every step keeps the invariant, invocations of earlier checkpoints included.
LEMMA NextSession ==
    ASSUME SessionInv, [Next \/ Fork]_vars
    PROVE  SessionInv'
<1> USE GraphAssumption, MaxIdAssumption
<1>0. /\ Shape /\ RecordsTyped /\ HasLatest /\ clock \in 0..MaxId /\ MaxId \in Nat
      /\ T \in Threads
  BY DEF SessionInv, TypeOK
<1>1. CASE RunStep
  BY <1>1, RunStepSession
<1>2. ASSUME NEW id \in DOMAIN records[T] \cup {0}, NEW input, NEW resume \in BOOLEAN,
             BeginInvoke(id, input, resume)
      PROVE  SessionInv'
  BY <1>2, BeginSession
<1>3. ASSUME NEW input, Cancel(input)
      PROVE  SessionInv'
  <2> DEFINE start == Restore(Latest(T))
             machine == Apply(start.machine, <<input>>)
             updated == Keys(input)
             first == start.current = 0
  <2>1. /\ run.pc = "idle" /\ run' = run /\ session' = Invalidated
        /\ ops < MaxOps /\ ops' = ops + 1
        /\ Persist("cancel", start.current, machine, <<>>, start.counter, updated, FALSE, first)
    BY <1>3, Zenon DEF Cancel, Room
  <2>2. start.current \in 0..clock /\ start.counter \in Counter
    BY <1>0, RestoreFacts
  <2> HIDE DEF start, machine, updated, first
  <2>3. Stored(start.current, <<>>, updated, NextCounter(start.counter, updated, FALSE, first))
    BY <1>0, <2>1, <2>2, PersistFacts, Zenon
  <2> QED BY <2>1, <2>3, EditSession, Zenon
<1>4. ASSUME NEW id, NEW input, UpdateState(id, input)
      PROVE  SessionInv'
  <2> DEFINE start == Restore(IF id = 0 THEN Latest(T) ELSE id)
             machine == Apply(start.machine, <<input>>)
             updated == Keys(input)
             overwritten == Overwritten(<<input>>)
  <2>1. /\ run.pc = "idle" /\ run' = run /\ session' = Invalidated
        /\ ops < MaxOps /\ ops' = ops + 1
        /\ Persist("update", start.current, machine, start.tasks, start.counter, updated,
                   overwritten, TRUE)
    BY <1>4, Zenon DEF UpdateState, Room
  <2>2. /\ start.current \in 0..clock /\ start.counter \in Counter
        /\ start.tasks \in Plans \cup {<<>>}
    BY <1>0, RestoreFacts
  <2> HIDE DEF start, machine, updated, overwritten
  <2>3. Stored(start.current, start.tasks, updated,
               NextCounter(start.counter, updated, overwritten, TRUE))
    BY <1>0, <2>1, <2>2, PersistFacts, Zenon
  <2> QED BY <2>1, <2>3, EditSession, Zenon
<1>5. CASE Abort
  BY <1>5, EndSession DEF Abort, Fail
<1>6. CASE Crash
  BY <1>6, EndSession DEF Crash
<1>7. CASE PruneThread
  <2>1. Prune(T) /\ UNCHANGED <<session, run, ops>>
    BY <1>7 DEF PruneThread, graphVars
  <2>2. /\ clock' = clock
        /\ records' = [th \in Threads |-> records'[th]]
        /\ blobs' = [th \in Threads |-> blobs'[th]]
        /\ DOMAIN records'[T] \subseteq DOMAIN records[T]
        /\ \A c \in DOMAIN records'[T] : records'[T][c] = records[T][c]
        /\ \A m \in DOMAIN records[T] :
             (\A id \in DOMAIN records[T] : id <= m) => m \in DOMAIN records'[T]
        /\ RecordsTyped' /\ HasLatest'
    BY <1>0, <2>1, PruneFacts
  <2>3. Shape'
    BY <1>0, <2>1, <2>2 DEF Shape
  <2>4. TypeOK'
    BY <2>1, <2>2, SMTT(30) DEF SessionInv, TypeOK
  <2>5. RunPosition'
    <3>1. ASSUME At(run.current, run.counter)
          PROVE  /\ At(run.current, run.counter)'
                 /\ records'[T][run.current] = records[T][run.current]
      BY <2>1, <2>2, <3>1, SMTT(30) DEF At
    <3>2. ASSUME run.pc # "idle", run.saves, run.pc # "new"
          PROVE  At(run.current, run.counter)
      BY <3>2 DEF SessionInv, RunPosition
    <3>3. run.pc \in Placed => run.pc # "new"
      BY DEF Placed
    <3> QED BY <2>1, <3>1, <3>2, <3>3 DEF SessionInv, RunPosition
  <2>6. SessionAtLatest'
    BY <2>1, <2>2 DEF SessionInv, SessionAtLatest
  <2> QED BY <2>2, <2>3, <2>4, <2>5, <2>6 DEF SessionInv
<1>8. CASE UNCHANGED vars
  BY <1>8, ZenonT(30) DEF vars, SessionInv, Shape, TypeOK, RecordsTyped, HasLatest, RunPosition, At,
              SessionAtLatest
<1> QED BY <1>1, <1>2, <1>3, <1>4, <1>5, <1>6, <1>7, <1>8, ZenonT(30) DEF Next, Fork, Call, Edit

\* The control state keeps its type and a valid retained session stays at the
\* latest checkpoint of its thread with the tasks and counter stored there,
\* whatever nodes return, wherever invocations fail or the process restarts,
\* and whichever earlier checkpoints are invoked, edited or pruned.
THEOREM SessionSafe == SpecFork => [](TypeOK /\ SessionAtLatest)
<1>1. SessionInv => TypeOK /\ SessionAtLatest
  BY DEF SessionInv
<1> QED BY <1>1, InitSession, NextSession, PTL DEF SpecFork
=============================================================================
