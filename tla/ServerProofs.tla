---------------------------- MODULE ServerProofs ----------------------------
(***************************************************************************)
(* Proof that the run queue of AgentServer executes the runs of a thread   *)
(* one at a time and that a cancelled run stays cancelled, for any number  *)
(* of threads, runs, workers, faults and restarts.                         *)
(***************************************************************************)
EXTENDS AgentServer, TLAPS

RunRecord == [status : RunStatus, thread : Threads]
Worker == {Free, [pc |-> "gone"]} \cup [pc : {"lock", "run", "end"}, run : Runs, thread : Threads]

\* An event log is made with its run and never goes away: whatever is known
\* of a run, in memory, in the state file or to a worker, has one.
Logged ==
    /\ \A r \in Runs : runs[r].status # "absent" => log[r] # "none"
    /\ \A r \in Runs : disk.runs[r].status # "absent" => log[r] # "none"
    /\ \A r \in active \cup stopped : log[r] # "none"

\* A run whose CancelFunc is registered has been started.
ActiveStarted == \A r \in active : runs[r].status # "pending"

\* The inductive invariant of Spec.
ServerInv == TypeOK /\ Logged /\ ActiveStarted /\ CancelSticks /\ ThreadExclusive

\* The types of the variables one by one.
Types ==
    /\ threads \in [Threads -> ThreadStatus] /\ runs \in [Runs -> RunRecord]
    /\ disk \in Tables
    /\ log \in [Runs -> {"none", "open", "done"}]
    /\ active \subseteq Runs /\ cancelled \subseteq Runs
    /\ creating \subseteq Runs /\ refused \subseteq Runs /\ stopped \subseteq Runs
    /\ queue \in Seq(Runs) /\ Len(queue) <= Capacity
    /\ worker \in [Workers -> Worker]
    /\ server \in {"up", "closing", "closed", "down"}
    /\ faults \in 0..MaxFaults /\ restarts \in 0..MaxRestarts

\* TypeOK in those terms.
LEMMA TypesApart == TypeOK <=> Types
  BY DEF TypeOK, Types, Memory, Tables, RunRecord, Worker

\* The same of the next state.
LEMMA TypesApartNext == TypeOK' <=> Types'
  BY DEF TypeOK, Types, Memory, Tables, RunRecord, Worker

\* SetStatus changes the status of the given runs and nothing else.
LEMMA SetStatusRuns ==
    ASSUME TypeOK, NEW S, NEW status \in RunStatus
    PROVE  /\ SetStatus(S, status) \in [Runs -> RunRecord]
           /\ \A r \in Runs : SetStatus(S, status)[r].status =
                                  IF r \in S THEN status ELSE runs[r].status
           /\ \A r \in Runs : SetStatus(S, status)[r].thread = runs[r].thread
<1>1. runs \in [Runs -> RunRecord]
  BY TypesApart DEF Types
<1> QED BY <1>1 DEF SetStatus, RunRecord

\* Finished closes the event logs of the given runs and no others.
LEMMA FinishedLogs ==
    ASSUME TypeOK, NEW S
    PROVE  /\ Finished(S) \in [Runs -> {"none", "open", "done"}]
           /\ \A r \in Runs : log[r] # "none" => Finished(S)[r] # "none"
<1>1. log \in [Runs -> {"none", "open", "done"}]
  BY TypesApart DEF Types
<1> QED BY <1>1 DEF Finished

\* The state file after persistLocked is the old one or has the new tables.
LEMMA Persisted ==
    ASSUME TypeOK, Persist, threads' \in [Threads -> ThreadStatus], runs' \in [Runs -> RunRecord]
    PROVE  /\ disk' \in Tables
           /\ faults' \in 0..MaxFaults
           /\ \/ disk'.runs = runs'
              \/ disk' = disk
<1>1. disk \in Tables /\ faults \in 0..MaxFaults
  BY TypesApart DEF Types
<1> QED BY <1>1, ServerAssumption DEF Persist, Written, NotWritten, Memory, Tables, RunRecord

\* The invariant holds when the server is made.
LEMMA InitServer == Init => ServerInv
<1> SUFFICES ASSUME Init PROVE ServerInv
  OBVIOUS
<1> DEFINE t0 == CHOOSE t \in Threads : TRUE
<1>1. t0 \in Threads
  BY ServerAssumption
<1>2. runs \in [Runs -> RunRecord] /\ \A r \in Runs : runs[r].status = "absent"
  BY <1>1 DEF Init, Absent, RunRecord, RunStatus
<1>3. threads \in [Threads -> ThreadStatus]
  BY DEF Init, ThreadStatus
<1>4. disk \in Tables /\ disk.runs = runs
  BY <1>2, <1>3 DEF Init, Memory, Tables, RunRecord
<1>5. TypeOK
  BY <1>2, <1>3, <1>4, TypesApart, ServerAssumption DEF Types, Init, Worker
<1>6. Logged /\ ActiveStarted /\ CancelSticks
  BY <1>2, <1>4 DEF Init, Logged, ActiveStarted, CancelSticks
<1>7. ThreadExclusive
  BY DEF Init, ThreadExclusive, Executing, Free
<1> QED BY <1>5, <1>6, <1>7 DEF ServerInv
\* What is left of the invariant once the types are known and the workers that
\* execute are the same: the tables changed only where the logs allow it.
LEMMA Preserved ==
    ASSUME ServerInv, TypeOK',
           worker' = worker,
           \A r \in Runs : log[r] # "none" => log'[r] # "none",
           \A r \in Runs : runs'[r].status # "absent" => log'[r] # "none",
           disk'.runs = runs' \/ disk' = disk,
           active' = active,
           \A r \in active : runs'[r].status # "pending",
           \A r \in stopped' : log'[r] # "none",
           CancelSticks'
    PROVE  ServerInv'
<1>1. Logged'
  BY TypesApart DEF Types, ServerInv, Logged
<1>2. ActiveStarted'
  BY DEF ActiveStarted
<1>3. ThreadExclusive'
  BY DEF ServerInv, ThreadExclusive, Executing
<1> QED BY <1>1, <1>2, <1>3 DEF ServerInv

\* The handlers that leave the runs alone.
LEMMA CreateThreadInv ==
    ASSUME ServerInv, NEW t \in Threads, CreateThread(t)
    PROVE  ServerInv'
<1>1. TypeOK
  BY DEF ServerInv
<1>2. threads' \in [Threads -> ThreadStatus] /\ runs' = runs
  BY <1>1, TypesApart DEF Types, CreateThread, ThreadStatus
<1>3. /\ disk' \in Tables /\ faults' \in 0..MaxFaults
      /\ disk'.runs = runs' \/ disk' = disk
  BY <1>1, <1>2, TypesApart, Persisted DEF Types, CreateThread
<1>4. TypeOK'
  BY <1>1, <1>2, <1>3, TypesApart, TypesApartNext DEF Types, CreateThread, live, history
<1> QED
  BY <1>2, <1>3, <1>4, Preserved
     DEF CreateThread, live, history, ServerInv, Logged, ActiveStarted, CancelSticks

\* failRunLocked on a run that is known.
LEMMA FailRunTables ==
    ASSUME TypeOK, NEW r \in Runs, FailRun(r)
    PROVE  /\ runs' \in [Runs -> RunRecord] /\ threads' \in [Threads -> ThreadStatus]
           /\ log' \in [Runs -> {"none", "open", "done"}]
           /\ disk' \in Tables /\ faults' \in 0..MaxFaults
           /\ \A x \in Runs : log[x] # "none" => log'[x] # "none"
           /\ \A x \in Runs : runs'[x].status = IF x = r THEN "error" ELSE runs[x].status
           /\ disk'.runs = runs' \/ disk' = disk
<1>1. /\ runs' \in [Runs -> RunRecord]
      /\ \A x \in Runs : runs'[x].status = IF x = r THEN "error" ELSE runs[x].status
  BY SetStatusRuns DEF FailRun, RunStatus
<1>2. threads' \in [Threads -> ThreadStatus]
  BY TypesApart, Zenon DEF Types, FailRun, ThreadStatus
<1>3. /\ log' \in [Runs -> {"none", "open", "done"}]
      /\ \A x \in Runs : log[x] # "none" => log'[x] # "none"
  BY FinishedLogs DEF FailRun
<1>4. /\ disk' \in Tables /\ faults' \in 0..MaxFaults
      /\ disk'.runs = runs' \/ disk' = disk
  BY <1>1, <1>2, Persisted, Zenon DEF FailRun
<1> QED BY <1>1, <1>2, <1>3, <1>4

\* createRun: what it supersedes is interrupted or cancelled.
LEMMA CreateRunInv ==
    ASSUME ServerInv, NEW r \in Runs, NEW t \in Threads,
           NEW strategy \in {"reject", "interrupt", "enqueue"}, CreateRun(r, t, strategy)
    PROVE  ServerInv'
<1> DEFINE hit == IF strategy = "interrupt" THEN Unfinished \cap Of(t) ELSE {}
           kept == SetStatus(hit \ active, "interrupted")
<1>1. TypeOK /\ Logged /\ ActiveStarted /\ CancelSticks
  BY DEF ServerInv
<1>2. /\ kept \in [Runs -> RunRecord]
      /\ \A x \in Runs : kept[x].status = IF x \in hit \ active THEN "interrupted" ELSE runs[x].status
  BY <1>1, SetStatusRuns DEF RunStatus
<1>3. hit \subseteq Runs /\ \A x \in hit : runs[x].status \in {"pending", "running"}
  BY DEF Unfinished
<1>4. /\ log[r] = "none"
      /\ runs' = [kept EXCEPT ![r] = [status |-> "pending", thread |-> t]]
      /\ log' = [Finished(hit \ active) EXCEPT ![r] = "open"]
      /\ cancelled' = cancelled \cup (hit \cap active)
      /\ stopped' = stopped \cup hit
      /\ threads' = [threads EXCEPT ![t] = IF @ = "absent" THEN "idle" ELSE @]
      /\ UNCHANGED <<active, queue, worker, server, restarts>>
  BY DEF CreateRun, SupersededLogs
<1> HIDE DEF kept, hit
<1>5. /\ log' \in [Runs -> {"none", "open", "done"}]
      /\ \A x \in Runs : log[x] # "none" => log'[x] # "none"
      /\ log'[r] # "none"
  BY <1>1, <1>4, FinishedLogs
<1>6. /\ runs' \in [Runs -> RunRecord]
      /\ runs'[r].status = "pending"
      /\ \A x \in Runs \ {r} : runs'[x].status = kept[x].status
  BY <1>2, <1>4 DEF RunRecord, RunStatus
<1>7. threads' \in [Threads -> ThreadStatus]
  BY <1>1, <1>4, TypesApart DEF Types, ThreadStatus
<1>8. Persist /\ creating' \subseteq Runs /\ refused' \subseteq Runs
  BY <1>1, TypesApart DEF Types, CreateRun, Persist
<1>9. /\ disk' \in Tables /\ faults' \in 0..MaxFaults
      /\ disk'.runs = runs' \/ disk' = disk
  BY <1>1, <1>6, <1>7, <1>8, Persisted
<1>10. TypeOK'
  BY <1>1, <1>3, <1>4, <1>5, <1>6, <1>7, <1>8, <1>9, TypesApart, TypesApartNext, Zenon DEF Types
<1>11. r \notin active /\ r \notin stopped /\ r \notin hit
  BY <1>1, <1>3, <1>4 DEF Logged
<1>12. \A x \in Runs : runs'[x].status # "absent" => log'[x] # "none"
  <2> SUFFICES ASSUME NEW x \in Runs, x # r, runs'[x].status # "absent" PROVE log[x] # "none"
    BY <1>5
  <2>1. runs[x].status # "absent"
    BY <1>2, <1>3, <1>6
  <2> QED BY <2>1, <1>1 DEF Logged
<1>13. \A x \in active : runs'[x].status # "pending"
  BY <1>1, <1>2, <1>6, <1>11, TypesApart DEF Types, ActiveStarted
<1>14. \A x \in stopped' : x \in Runs /\ x # r /\ log[x] # "none"
  BY <1>1, <1>3, <1>4, <1>11, TypesApart DEF Types, Logged
<1>15. CancelSticks'
  <2> SUFFICES ASSUME NEW x \in stopped'
               PROVE  /\ runs'[x].status # "pending"
                      /\ runs'[x].status = "running" => server' = "down" \/ x \in cancelled'
    BY DEF CancelSticks
  <2>1. x \in Runs /\ runs'[x].status = IF x \in hit \ active THEN "interrupted" ELSE runs[x].status
    BY <1>14, <1>2, <1>6
  <2>2. CASE x \in hit
    BY <2>1, <2>2, <1>1, <1>4 DEF ActiveStarted
  <2>3. CASE x \notin hit
    BY <2>1, <2>3, <1>1, <1>4 DEF CancelSticks
  <2> QED BY <2>2, <2>3
<1>16. \A x \in stopped' : log'[x] # "none"
  BY <1>14, <1>5
<1> QED BY <1>4, <1>5, <1>9, <1>10, <1>12, <1>13, <1>15, <1>16, Preserved, Zenon

\* The end of createRun: the run is queued, or fails.
LEMMA EnqueueRunInv ==
    ASSUME ServerInv, NEW r \in Runs, EnqueueRun(r)
    PROVE  ServerInv'
<1>1. TypeOK /\ Logged /\ ActiveStarted /\ CancelSticks
  BY DEF ServerInv
<1>2. /\ creating' \subseteq Runs
      /\ UNCHANGED <<active, cancelled, worker, server, refused, stopped, restarts>>
  BY <1>1, TypesApart DEF Types, EnqueueRun, history
<1>3. CASE Room /\ queue' = Append(queue, r) /\ UNCHANGED <<threads, runs, log, disk, faults>>
  <2>1. queue' \in Seq(Runs) /\ Len(queue') <= Capacity
    BY <1>1, <1>3, TypesApart, ServerAssumption DEF Types, Room
  <2>2. TypeOK'
    BY <1>1, <1>2, <1>3, <2>1, TypesApart, TypesApartNext DEF Types
  <2>3. CancelSticks'
    BY <1>1, <1>2, <1>3 DEF CancelSticks
  <2> QED BY <1>1, <1>2, <1>3, <2>2, <2>3, Preserved DEF Logged, ActiveStarted
<1>4. CASE runs[r].status # "absent" /\ FailRun(r) /\ UNCHANGED queue
  <2>1. TypeOK'
    BY <1>1, <1>2, <1>4, FailRunTables, TypesApart, TypesApartNext DEF Types
  <2>2. /\ \A x \in Runs : runs'[x].status = IF x = r THEN "error" ELSE runs[x].status
        /\ \A x \in Runs : log[x] # "none" => log'[x] # "none"
        /\ disk'.runs = runs' \/ disk' = disk
    BY <1>1, <1>4, FailRunTables
  <2>3. active \subseteq Runs /\ stopped \subseteq Runs
    BY <1>1, TypesApart DEF Types
  <2>4. CancelSticks'
    BY <1>1, <1>2, <2>2, <2>3 DEF CancelSticks
  <2>5. \A x \in Runs : runs'[x].status # "absent" => log'[x] # "none"
    BY <1>1, <1>4, <2>2 DEF Logged
  <2> QED BY <1>1, <1>2, <2>1, <2>2, <2>3, <2>4, <2>5, Preserved DEF Logged, ActiveStarted
<1>5. CASE UNCHANGED <<threads, runs, log, disk, faults, queue>>
  <2>1. TypeOK'
    BY <1>1, <1>2, <1>5, TypesApart, TypesApartNext DEF Types
  <2>2. CancelSticks'
    BY <1>1, <1>2, <1>5 DEF CancelSticks
  <2> QED BY <1>1, <1>2, <1>5, <2>1, <2>2, Preserved DEF Logged, ActiveStarted
<1> QED BY <1>3, <1>4, <1>5 DEF EnqueueRun

\* cancelRun: an executing run keeps its status and its context is cancelled,
\* any other is interrupted at once.
LEMMA CancelRunInv ==
    ASSUME ServerInv, NEW r \in Runs, CancelRun(r)
    PROVE  ServerInv'
<1>1. TypeOK /\ Logged /\ ActiveStarted /\ CancelSticks
  BY DEF ServerInv
<1>2. /\ stopped' = stopped \cup {r}
      /\ UNCHANGED <<active, queue, worker, creating, server, refused, restarts>>
      /\ runs[r].status \in {"pending", "running"}
  BY DEF CancelRun, Unfinished
<1>3. log[r] # "none"
  BY <1>1, <1>2 DEF Logged
<1>4. CASE r \in active
  <2>1. cancelled' = cancelled \cup {r} /\ UNCHANGED <<threads, runs, log, disk, faults>>
    BY <1>4 DEF CancelRun
  <2>2. TypeOK'
    BY <1>1, <1>2, <2>1, TypesApart, TypesApartNext DEF Types
  <2>3. CancelSticks'
    BY <1>1, <1>2, <1>4, <2>1 DEF CancelSticks, ActiveStarted
  <2> QED BY <1>1, <1>2, <1>3, <2>1, <2>2, <2>3, Preserved DEF Logged, ActiveStarted
<1>5. CASE r \notin active
  <2>1. /\ runs' = SetStatus({r}, "interrupted")
        /\ threads' = [threads EXCEPT ![runs[r].thread] = "interrupted"]
        /\ log' = Finished({r})
        /\ Persist
        /\ UNCHANGED cancelled
    BY <1>5 DEF CancelRun
  <2>2. /\ runs' \in [Runs -> RunRecord]
        /\ \A x \in Runs : runs'[x].status = IF x = r THEN "interrupted" ELSE runs[x].status
    BY <1>1, <2>1, SetStatusRuns DEF RunStatus
  <2>3. threads' \in [Threads -> ThreadStatus]
    BY <1>1, <2>1, TypesApart, Zenon DEF Types, ThreadStatus
  <2>4. /\ log' \in [Runs -> {"none", "open", "done"}]
        /\ \A x \in Runs : log[x] # "none" => log'[x] # "none"
    BY <1>1, <2>1, FinishedLogs
  <2>5. /\ disk' \in Tables /\ faults' \in 0..MaxFaults
        /\ disk'.runs = runs' \/ disk' = disk
    BY <1>1, <2>1, <2>2, <2>3, Persisted, Zenon
  <2>6. active \subseteq Runs /\ stopped \subseteq Runs
    BY <1>1, TypesApart DEF Types
  <2>7. TypeOK'
    BY <1>1, <1>2, <2>1, <2>2, <2>3, <2>4, <2>5, TypesApart, TypesApartNext, Zenon DEF Types
  <2>8. CancelSticks'
    BY <1>1, <1>2, <2>1, <2>2, <2>6, Zenon DEF CancelSticks
  <2>9. \A x \in Runs : runs'[x].status # "absent" => log'[x] # "none"
    BY <1>1, <1>3, <2>2, <2>4 DEF Logged
  <2> QED BY <1>1, <1>2, <1>3, <2>2, <2>4, <2>5, <2>6, <2>7, <2>8, <2>9, Preserved
         DEF Logged, ActiveStarted
<1> QED BY <1>4, <1>5

\* Deleting runs, alone or with their thread.
LEMMA ForgetInv ==
    ASSUME ServerInv, NEW S \in SUBSET Runs, Forget(S), Persist,
           threads' \in [Threads -> ThreadStatus]
    PROVE  ServerInv'
<1>1. TypeOK /\ Logged /\ ActiveStarted /\ CancelSticks
  BY DEF ServerInv
<1>2. /\ cancelled' = cancelled \cup (S \cap active)
      /\ log' = Finished(S)
      /\ runs' = SetStatus(S, "absent")
      /\ UNCHANGED <<active, queue, worker, creating, server, refused, stopped, restarts>>
  BY DEF Forget, history
<1>3. /\ runs' \in [Runs -> RunRecord]
      /\ \A x \in Runs : runs'[x].status = IF x \in S THEN "absent" ELSE runs[x].status
  BY <1>1, <1>2, SetStatusRuns DEF RunStatus
<1>4. /\ log' \in [Runs -> {"none", "open", "done"}]
      /\ \A x \in Runs : log[x] # "none" => log'[x] # "none"
  BY <1>1, <1>2, FinishedLogs
<1>5. /\ disk' \in Tables /\ faults' \in 0..MaxFaults
      /\ disk'.runs = runs' \/ disk' = disk
  BY <1>1, <1>3, Persisted
<1>6. active \subseteq Runs /\ stopped \subseteq Runs
  BY <1>1, TypesApart DEF Types
<1>7. TypeOK'
  BY <1>1, <1>2, <1>3, <1>4, <1>5, TypesApart, TypesApartNext DEF Types
<1>8. CancelSticks'
  BY <1>1, <1>2, <1>3, <1>6 DEF CancelSticks
<1>9. \A x \in Runs : runs'[x].status # "absent" => log'[x] # "none"
  BY <1>1, <1>3, <1>4 DEF Logged
<1> QED BY <1>1, <1>2, <1>3, <1>4, <1>5, <1>6, <1>7, <1>8, <1>9, Preserved
      DEF Logged, ActiveStarted

\* The handlers together.
LEMMA HandlerInv == ServerInv /\ Handler => ServerInv'
<1> SUFFICES ASSUME ServerInv, Handler PROVE ServerInv'
  OBVIOUS
<1>1. ASSUME NEW t \in Threads, DeleteThread(t) PROVE ServerInv'
  <2>1. threads' \in [Threads -> ThreadStatus]
    BY <1>1, TypesApart DEF Types, ServerInv, DeleteThread, ThreadStatus
  <2> QED BY <1>1, <2>1, ForgetInv DEF DeleteThread, Of
<1>2. ASSUME NEW r \in Runs, DeleteRun(r) PROVE ServerInv'
  <2>1. threads' \in [Threads -> ThreadStatus]
    BY <1>2, TypesApart DEF Types, ServerInv, DeleteRun
  <2>2. {r} \in SUBSET Runs
    OBVIOUS
  <2> QED BY <1>2, <2>1, <2>2, ForgetInv DEF DeleteRun
<1> QED BY <1>1, <1>2, CreateThreadInv, CreateRunInv, CancelRunInv DEF Handler

\* A worker that has taken a run knows the run and its thread.
LEMMA Taken ==
    ASSUME TypeOK, NEW w \in Workers, worker[w].pc \in {"lock", "run", "end"}
    PROVE  worker[w] \in [pc : {"lock", "run", "end"}, run : Runs, thread : Threads]
<1>1. worker[w] \in Worker
  BY TypesApart DEF Types
<1> QED BY <1>1 DEF Worker, Free

\* A worker moves on without entering the thread's critical section.
LEMMA WorkerMoves ==
    ASSUME ServerInv, NEW w \in Workers, NEW next \in Worker,
           next.pc \in {"run", "end"} => Executing(w) /\ next.thread = worker[w].thread,
           worker' = [worker EXCEPT ![w] = next]
    PROVE  worker' \in [Workers -> Worker] /\ ThreadExclusive'
<1>1. worker \in [Workers -> Worker] /\ ThreadExclusive
  BY TypesApart DEF Types, ServerInv
<1>2. worker' \in [Workers -> Worker]
  BY <1>1
<1>3. \A v \in Workers : Executing(v)' => Executing(v) /\ worker'[v].thread = worker[v].thread
  BY <1>1 DEF Executing
<1> QED BY <1>1, <1>2, <1>3 DEF ThreadExclusive

\* A worker takes a run off the queue.
LEMMA TakeInv ==
    ASSUME ServerInv, NEW w \in Workers, Take(w)
    PROVE  ServerInv'
<1>1. TypeOK /\ Logged /\ ActiveStarted /\ CancelSticks /\ ThreadExclusive
  BY DEF ServerInv
<1>2. /\ UNCHANGED <<threads, runs, log, active, cancelled, creating, server, disk,
                     refused, stopped, restarts, faults>>
      /\ queue' = Tail(queue) /\ queue # <<>>
  BY DEF Take, history
<1>3. /\ queue' \in Seq(Runs) /\ Len(queue') <= Capacity
      /\ Head(queue) \in Runs
  BY <1>1, <1>2, TypesApart, ServerAssumption DEF Types
<1>4. worker' \in [Workers -> Worker] /\ ThreadExclusive'
  <2> DEFINE next == [pc |-> "lock", run |-> Head(queue), thread |-> runs[Head(queue)].thread]
  <2>1. worker' = worker \/ worker' = [worker EXCEPT ![w] = next]
    BY DEF Take
  <2>2. next \in Worker
    BY <1>1, <1>3, TypesApart DEF Types, Worker, RunRecord
  <2>3. CASE worker' = worker
    BY <1>1, <2>3, TypesApart DEF Types, ThreadExclusive, Executing
  <2>4. CASE worker' = [worker EXCEPT ![w] = next]
    <3>1. next.pc = "lock"
      OBVIOUS
    <3> HIDE DEF next
    <3> QED BY <2>2, <2>4, <3>1, WorkerMoves, Zenon
  <2> QED BY <2>1, <2>3, <2>4
<1>5. TypeOK'
  BY <1>1, <1>2, <1>3, <1>4, TypesApart, TypesApartNext DEF Types
<1>6. Logged' /\ ActiveStarted' /\ CancelSticks'
  BY <1>1, <1>2 DEF Logged, ActiveStarted, CancelSticks
<1> QED BY <1>4, <1>5, <1>6 DEF ServerInv

\* A worker that enters with the thread's mutex free is the only one there; a
\* run that starts is pending and so was never cancelled.
LEMMA StartInv ==
    ASSUME ServerInv, NEW w \in Workers, Start(w)
    PROVE  ServerInv'
<1> DEFINE r == worker[w].run
<1>1. TypeOK /\ Logged /\ ActiveStarted /\ CancelSticks /\ ThreadExclusive
  BY DEF ServerInv
<1>2. /\ worker[w] \in [pc : {"lock", "run", "end"}, run : Runs, thread : Threads]
      /\ worker[w].pc = "lock"
  BY <1>1, Taken DEF Start, LockFree
<1>3. /\ runs[r].status = "pending"
      /\ runs' = SetStatus({r}, "running")
      /\ threads' = [threads EXCEPT ![worker[w].thread] = "busy"]
      /\ active' = active \cup {r}
      /\ cancelled' = cancelled \/ cancelled' = cancelled \cup {r}
      /\ worker' = [worker EXCEPT ![w].pc = "run"]
      /\ Persist
      /\ UNCHANGED <<log, queue, creating, server, refused, stopped, restarts>>
  BY DEF Start, history
<1>4. r \in Runs
  BY <1>2
<1> HIDE DEF r
<1>5. /\ runs' \in [Runs -> RunRecord]
      /\ \A x \in Runs : runs'[x].status = IF x = r THEN "running" ELSE runs[x].status
  BY <1>1, <1>3, SetStatusRuns DEF RunStatus
<1>6. threads' \in [Threads -> ThreadStatus]
  BY <1>1, <1>3, TypesApart, Zenon DEF Types, ThreadStatus
<1>7. /\ disk' \in Tables /\ faults' \in 0..MaxFaults
      /\ disk'.runs = runs' \/ disk' = disk
  BY <1>1, <1>3, <1>5, <1>6, Persisted, Zenon
<1>8. worker' \in [Workers -> Worker]
  BY <1>1, <1>2, <1>3, TypesApart, SMTT(30) DEF Types, Worker
<1>9. TypeOK'
  BY <1>1, <1>3, <1>4, <1>5, <1>6, <1>7, <1>8, TypesApart, TypesApartNext, Zenon DEF Types
<1>10. log[r] # "none" /\ r \notin stopped
  BY <1>1, <1>3, <1>4 DEF Logged, CancelSticks
<1>11. Logged'
  BY <1>1, <1>3, <1>4, <1>5, <1>7, <1>10, Zenon DEF Logged
<1>12. active \subseteq Runs /\ stopped \subseteq Runs
  BY <1>1, TypesApart DEF Types
<1>13. ActiveStarted'
  BY <1>1, <1>3, <1>4, <1>5, <1>12, Zenon DEF ActiveStarted
<1>14. CancelSticks'
  BY <1>1, <1>3, <1>5, <1>10, <1>12, Zenon DEF CancelSticks
<1>15. ThreadExclusive'
  <2>1. worker \in [Workers -> Worker]
    BY <1>1, TypesApart DEF Types
  <2>2. \A v \in Workers : Executing(v) => worker[v].thread # worker[w].thread
    BY DEF Start, LockFree
  <2>3. worker'[w].thread = worker[w].thread /\ \A v \in Workers \ {w} : worker'[v] = worker[v]
    BY <1>2, <1>3, <2>1
  <2> QED BY <1>1, <2>2, <2>3 DEF ThreadExclusive, Executing
<1> QED BY <1>9, <1>11, <1>13, <1>14, <1>15 DEF ServerInv

\* A run that is dropped or fails before it starts frees its worker.
LEMMA DropInv ==
    ASSUME ServerInv, NEW w \in Workers, Drop(w) \/ StartFails(w)
    PROVE  ServerInv'
<1>1. TypeOK /\ Logged /\ ActiveStarted /\ CancelSticks
  BY DEF ServerInv
<1>2. /\ worker' = [worker EXCEPT ![w] = Free]
      /\ UNCHANGED <<active, cancelled, queue, creating, server, refused, stopped, restarts>>
  BY DEF Drop, StartFails, history
<1>3. worker' \in [Workers -> Worker] /\ ThreadExclusive'
  <2>1. Free \in Worker /\ Free.pc = "idle"
    BY DEF Worker, Free
  <2> QED BY <1>2, <2>1, WorkerMoves, Zenon
<1>4. CASE Drop(w)
  <2>1. UNCHANGED <<threads, runs, log, disk, faults>>
    BY <1>4 DEF Drop
  <2>2. TypeOK'
    BY <1>1, <1>2, <1>3, <2>1, TypesApart, TypesApartNext, SMTT(30) DEF Types
  <2>3. Logged' /\ ActiveStarted' /\ CancelSticks'
    BY <1>1, <1>2, <2>1 DEF Logged, ActiveStarted, CancelSticks
  <2> QED BY <1>3, <2>2, <2>3 DEF ServerInv
<1>5. CASE StartFails(w)
  <2> DEFINE r == worker[w].run
  <2>1. r \in Runs
    BY <1>1, <1>5, Taken DEF StartFails, LockFree
  <2>2. FailRun(r) /\ runs[r].status = "pending"
    BY <1>5 DEF StartFails
  <2> HIDE DEF r
  <2>3. TypeOK'
    BY <1>1, <1>2, <1>3, <2>1, <2>2, FailRunTables, TypesApart, TypesApartNext DEF Types
  <2>4. /\ \A x \in Runs : runs'[x].status = IF x = r THEN "error" ELSE runs[x].status
        /\ \A x \in Runs : log[x] # "none" => log'[x] # "none"
        /\ disk'.runs = runs' \/ disk' = disk
    BY <1>1, <2>1, <2>2, FailRunTables
  <2>5. active \subseteq Runs /\ stopped \subseteq Runs
    BY <1>1, TypesApart DEF Types
  <2>6. Logged'
    BY <1>1, <1>2, <2>1, <2>2, <2>4, <2>5 DEF Logged
  <2>7. ActiveStarted' /\ CancelSticks'
    BY <1>1, <1>2, <2>4, <2>5 DEF ActiveStarted, CancelSticks
  <2> QED BY <1>3, <2>3, <2>6, <2>7 DEF ServerInv
<1> QED BY <1>4, <1>5

\* completeRun: the run ends with the outcome of its agent.
LEMMA CompleteRunTables ==
    ASSUME TypeOK, NEW r \in Runs, NEW outcome \in {"success", "interrupted", "error"},
           CompleteRun(r, outcome)
    PROVE  /\ runs' \in [Runs -> RunRecord] /\ threads' \in [Threads -> ThreadStatus]
           /\ log' \in [Runs -> {"none", "open", "done"}]
           /\ disk' \in Tables /\ faults' \in 0..MaxFaults
           /\ \A x \in Runs : log[x] # "none" => log'[x] # "none"
           /\ \A x \in Runs : runs'[x].status = IF x = r THEN outcome ELSE runs[x].status
           /\ disk'.runs = runs' \/ disk' = disk
<1>1. /\ runs' \in [Runs -> RunRecord]
      /\ \A x \in Runs : runs'[x].status = IF x = r THEN outcome ELSE runs[x].status
  <2>1. outcome \in RunStatus
    BY DEF RunStatus
  <2> QED BY <2>1, SetStatusRuns DEF CompleteRun
<1>2. threads' \in [Threads -> ThreadStatus]
  BY TypesApart, Zenon DEF Types, CompleteRun, ThreadStatus
<1>3. /\ log' \in [Runs -> {"none", "open", "done"}]
      /\ \A x \in Runs : log[x] # "none" => log'[x] # "none"
  BY FinishedLogs DEF CompleteRun
<1>4. /\ disk' \in Tables /\ faults' \in 0..MaxFaults
      /\ disk'.runs = runs' \/ disk' = disk
  BY <1>1, <1>2, Persisted, Zenon DEF CompleteRun
<1> QED BY <1>1, <1>2, <1>3, <1>4

\* The agent returns; its run may have been deleted meanwhile.
LEMMA ReturnsInv ==
    ASSUME ServerInv, NEW w \in Workers, Returns(w)
    PROVE  ServerInv'
<1> DEFINE r == worker[w].run
           next == [worker[w] EXCEPT !.pc = "end"]
<1>1. TypeOK /\ Logged /\ ActiveStarted /\ CancelSticks
  BY DEF ServerInv
<1>2. /\ worker[w] \in [pc : {"lock", "run", "end"}, run : Runs, thread : Threads]
      /\ worker[w].pc = "run"
  BY <1>1, Taken DEF Returns
<1>3. UNCHANGED <<active, cancelled, queue, creating, server, refused, stopped, restarts>>
  BY DEF Returns, history
<1>4. worker' \in [Workers -> Worker] /\ ThreadExclusive'
  <2>1. next \in Worker /\ next.thread = worker[w].thread /\ Executing(w)
    BY <1>2 DEF Worker, Executing
  <2>2. worker' = [worker EXCEPT ![w] = next]
    BY DEF Returns
  <2> HIDE DEF next
  <2> QED BY <2>1, <2>2, WorkerMoves, Zenon
<1>5. r \in Runs
  BY <1>2
<1>6. CASE UNCHANGED <<runs, threads, log, disk, faults>>
  <2>1. TypeOK'
    BY <1>1, <1>3, <1>4, <1>6, TypesApart, TypesApartNext DEF Types
  <2>2. Logged' /\ ActiveStarted' /\ CancelSticks'
    BY <1>1, <1>3, <1>6 DEF Logged, ActiveStarted, CancelSticks
  <2> QED BY <1>4, <2>1, <2>2 DEF ServerInv
<1>7. ASSUME NEW outcome \in {"success", "interrupted", "error"},
             runs[r].status # "absent", CompleteRun(r, outcome)
      PROVE  ServerInv'
  <2> HIDE DEF r
  <2>1. TypeOK'
    BY <1>1, <1>3, <1>4, <1>5, <1>7, CompleteRunTables, TypesApart, TypesApartNext DEF Types
  <2>2. /\ \A x \in Runs : runs'[x].status = IF x = r THEN outcome ELSE runs[x].status
        /\ \A x \in Runs : log[x] # "none" => log'[x] # "none"
        /\ disk'.runs = runs' \/ disk' = disk
    BY <1>1, <1>5, <1>7, CompleteRunTables
  <2>3. active \subseteq Runs /\ stopped \subseteq Runs
    BY <1>1, TypesApart DEF Types
  <2>4. Logged'
    BY <1>1, <1>3, <1>5, <1>7, <2>2, <2>3 DEF Logged
  <2>5. ActiveStarted' /\ CancelSticks'
    BY <1>1, <1>3, <1>7, <2>2, <2>3 DEF ActiveStarted, CancelSticks
  <2> QED BY <1>4, <2>1, <2>4, <2>5 DEF ServerInv
<1> QED BY <1>6, <1>7 DEF Returns

\* The deferred calls of a worker, and its end.
LEMMA LeaveInv ==
    ASSUME ServerInv, NEW w \in Workers, Leave(w) \/ Quit(w)
    PROVE  ServerInv'
<1>1. TypeOK /\ Logged /\ ActiveStarted /\ CancelSticks
  BY DEF ServerInv
<1>2. /\ active' \subseteq active
      /\ UNCHANGED <<threads, runs, log, cancelled, queue, creating, server, disk, faults,
                     refused, stopped, restarts>>
  BY DEF Leave, Quit, history
<1>3. worker' \in [Workers -> Worker] /\ ThreadExclusive'
  <2>1. Free \in Worker /\ Free.pc = "idle"
    BY DEF Worker, Free
  <2>2. CASE Leave(w)
    BY <2>1, <2>2, WorkerMoves, Zenon DEF Leave
  <2>3. CASE Quit(w)
    <3>1. [pc |-> "gone"] \in Worker /\ [pc |-> "gone"].pc = "gone"
      BY DEF Worker
    <3> QED BY <2>3, <3>1, WorkerMoves, Zenon DEF Quit
  <2> QED BY <2>2, <2>3
<1>4. TypeOK'
  BY <1>1, <1>2, <1>3, TypesApart, TypesApartNext DEF Types
<1>5. Logged' /\ ActiveStarted' /\ CancelSticks'
  BY <1>1, <1>2 DEF Logged, ActiveStarted, CancelSticks
<1> QED BY <1>3, <1>4, <1>5 DEF ServerInv

\* Close cancels what is active and waits for the workers.
LEMMA CloseInv ==
    ASSUME ServerInv, Close \/ Closed
    PROVE  ServerInv'
<1>1. TypeOK /\ Logged /\ ActiveStarted /\ CancelSticks
  BY DEF ServerInv
<1>2. /\ UNCHANGED <<threads, runs, log, active, queue, worker, creating, refused, stopped, restarts>>
      /\ cancelled \subseteq cancelled' /\ cancelled' \subseteq cancelled \cup active
      /\ server \in {"up", "closing"} /\ server' \in {"closing", "closed"}
  BY DEF Close, Closed, live, history
<1>3. /\ disk' \in Tables /\ faults' \in 0..MaxFaults
      /\ disk'.runs = runs' \/ disk' = disk
  <2>1. CASE Close
    BY <1>1, <2>1, TypesApart DEF Types, Close
  <2>2. CASE Closed
    BY <1>1, <1>2, <2>2, TypesApart, Persisted DEF Types, Closed
  <2> QED BY <2>1, <2>2
<1>4. TypeOK'
  BY <1>1, <1>2, <1>3, TypesApart, TypesApartNext DEF Types
<1>5. CancelSticks'
  BY <1>1, <1>2 DEF CancelSticks
<1> QED BY <1>1, <1>2, <1>3, <1>4, <1>5, Preserved DEF Logged, ActiveStarted

\* A crash leaves the state file, and a restart takes up nothing unfinished.
LEMMA RestartInv ==
    ASSUME ServerInv, Crash \/ Restart
    PROVE  ServerInv'
<1>1. TypeOK /\ Logged /\ ActiveStarted /\ CancelSticks
  BY DEF ServerInv
<1>2. CASE Crash
  <2> DEFINE S == {r \in Runs : log[r] # "none"}
  <2>1. /\ log' = Finished(S) /\ server' = "down"
        /\ active' = {} /\ cancelled' = {} /\ queue' = <<>> /\ creating' = {}
        /\ worker' = [w \in Workers |-> [pc |-> "gone"]]
        /\ UNCHANGED <<threads, runs, disk, faults, refused, stopped, restarts>>
    BY <1>2 DEF Crash, history
  <2> HIDE DEF S
  <2>2. /\ log' \in [Runs -> {"none", "open", "done"}]
        /\ \A r \in Runs : log[r] # "none" => log'[r] # "none"
    BY <1>1, <2>1, FinishedLogs
  <2>3. worker' \in [Workers -> Worker] /\ ThreadExclusive'
    BY <2>1 DEF Worker, ThreadExclusive, Executing
  <2>4. TypeOK'
    BY <1>1, <2>1, <2>2, <2>3, TypesApart, TypesApartNext, ServerAssumption DEF Types
  <2>5. stopped \subseteq Runs
    BY <1>1, TypesApart DEF Types
  <2>6. Logged' /\ ActiveStarted' /\ CancelSticks'
    BY <1>1, <2>1, <2>2, <2>5 DEF Logged, ActiveStarted, CancelSticks
  <2> QED BY <2>3, <2>4, <2>6 DEF ServerInv
<1>3. CASE Restart
  <2>1. /\ server' = "up" /\ restarts' = restarts + 1
        /\ runs' = LoadRuns /\ threads' = LoadThreads
        /\ worker' = [w \in Workers |-> Free]
        /\ Written
        /\ UNCHANGED <<log, active, cancelled, queue, creating, refused, stopped>>
    BY <1>3 DEF Restart
  <2>2. disk.runs \in [Runs -> RunRecord] /\ disk.threads \in [Threads -> ThreadStatus]
    BY <1>1, TypesApart DEF Types, Tables, RunRecord
  <2>3. /\ runs' \in [Runs -> RunRecord]
        /\ \A r \in Runs : /\ runs'[r].status \notin {"pending", "running"}
                           /\ runs'[r].status # "absent" => disk.runs[r].status # "absent"
    BY <2>1, <2>2, SMTT(30) DEF LoadRuns, RunRecord, RunStatus
  <2>4. threads' \in [Threads -> ThreadStatus]
    BY <2>1, <2>2 DEF LoadThreads, ThreadStatus
  <2>5. disk' \in Tables /\ disk'.runs = runs' /\ faults' = faults
    BY <2>1, <2>3, <2>4 DEF Written, Memory, Tables, RunRecord
  <2>6. worker' \in [Workers -> Worker] /\ ThreadExclusive'
    BY <2>1 DEF Worker, ThreadExclusive, Executing, Free
  <2>7. restarts' \in 0..MaxRestarts
    BY <1>1, <1>3, TypesApart, ServerAssumption DEF Types, Restart
  <2>8. TypeOK'
    BY <1>1, <2>1, <2>3, <2>4, <2>5, <2>6, <2>7, TypesApart, TypesApartNext DEF Types
  <2>9. active \subseteq Runs /\ stopped \subseteq Runs
    BY <1>1, TypesApart DEF Types
  <2>10. Logged' /\ ActiveStarted' /\ CancelSticks'
    BY <1>1, <2>1, <2>3, <2>5, <2>9 DEF Logged, ActiveStarted, CancelSticks
  <2> QED BY <2>6, <2>8, <2>10 DEF ServerInv
<1> QED BY <1>2, <1>3

\* Every step of the server preserves the invariant.
LEMMA NextServer == ServerInv /\ [Next]_vars => ServerInv'
<1> SUFFICES ASSUME ServerInv, [Next]_vars PROVE ServerInv'
  OBVIOUS
<1>1. CASE UNCHANGED vars
  <2>1. TypeOK'
    BY <1>1, TypesApart, TypesApartNext DEF Types, ServerInv, vars, live, history
  <2> QED BY <1>1, <2>1
        DEF ServerInv, vars, live, history, Logged, ActiveStarted, CancelSticks,
            ThreadExclusive, Executing
<1>2. ASSUME NEW w \in Workers, Work(w) PROVE ServerInv'
  BY <1>2, TakeInv, StartInv, DropInv, ReturnsInv, LeaveInv DEF Work, Acquire
<1> QED BY <1>1, <1>2, HandlerInv, EnqueueRunInv, CloseInv, RestartInv DEF Next

\* The server executes the runs of a thread one at a time, and a run that was
\* cancelled or superseded before its end never executes with a live context
\* afterwards: for any number of threads, runs, workers, state files that
\* cannot be written and restarts.
THEOREM ServerSafe == Spec => [](TypeOK /\ ThreadExclusive /\ CancelSticks)
<1>1. ServerInv => TypeOK /\ ThreadExclusive /\ CancelSticks
  BY DEF ServerInv
<1> QED BY <1>1, InitServer, NextServer, PTL DEF Spec

\* No two runs of a thread execute at the same time, whichever of the workers
\* take them (daserver/run.go execute, the thread's mutex).
COROLLARY ThreadsExclusive == Spec => []ThreadExclusive
BY ServerSafe, PTL
-----------------------------------------------------------------------------
\* A handler or worker that writes the state file writes what it knows.
LEMMA PersistCurrent ==
    ASSUME faults \in Nat, Persist
    PROVE  faults' = 0 => disk' = Memory'
  BY DEF Persist, Written, NotWritten

\* A step that leaves tables and file alone leaves them equal.
LEMMA TablesSame ==
    ASSUME DiskCurrent, UNCHANGED <<threads, runs, disk, faults>>
    PROVE  DiskCurrent'
  BY DEF DiskCurrent, Memory

\* Every step that changes the tables writes the state file.
LEMMA NextDisk == TypeOK /\ DiskCurrent /\ [Next]_vars => DiskCurrent'
<1> SUFFICES ASSUME TypeOK, DiskCurrent, [Next]_vars PROVE DiskCurrent'
  OBVIOUS
<1>1. faults \in Nat
  BY TypesApart DEF Types
<1>2. ASSUME Persist PROVE DiskCurrent'
  BY <1>1, <1>2, PersistCurrent DEF DiskCurrent
<1>3. CASE Handler
  <2>1. ASSUME NEW r \in Runs, NEW t \in Threads, NEW s \in {"reject", "interrupt", "enqueue"},
               CreateRun(r, t, s)
        PROVE  Persist
    BY <2>1 DEF CreateRun, Persist
  <2>2. ASSUME NEW r \in Runs, CancelRun(r)
        PROVE  Persist \/ UNCHANGED <<threads, runs, disk, faults>>
    BY <2>2 DEF CancelRun
  <2>3. ASSUME NEW r \in Runs, DeleteRun(r) PROVE Persist
    BY <2>3 DEF DeleteRun
  <2>4. ASSUME NEW t \in Threads, CreateThread(t) \/ DeleteThread(t) PROVE Persist
    BY <2>4 DEF CreateThread, DeleteThread
  <2> QED BY <1>2, <1>3, <2>1, <2>2, <2>3, <2>4, TablesSame DEF Handler
<1>4. ASSUME NEW r \in Runs, EnqueueRun(r)
      PROVE  Persist \/ UNCHANGED <<threads, runs, disk, faults>>
  BY <1>4, SMTT(30) DEF EnqueueRun, FailRun
<1>5. ASSUME NEW w \in Workers, Work(w)
      PROVE  Persist \/ UNCHANGED <<threads, runs, disk, faults>>
  BY <1>5 DEF Work, Take, Acquire, Start, Drop, StartFails, FailRun, Returns, CompleteRun,
              Leave, Quit
<1>6. CASE Close \/ Closed \/ Crash \/ Restart
  BY <1>2, <1>6, TablesSame DEF Close, Closed, Crash, Restart, Persist
<1>7. CASE UNCHANGED vars
  BY <1>7, TablesSame DEF vars
<1> QED BY <1>2, <1>3, <1>4, <1>5, <1>6, <1>7, TablesSame DEF Next

\* As long as the state file can be written it holds what the server knows
\* after every critical section, so that a crash between any two of them
\* loses nothing.
THEOREM DiskSafe == Spec => []DiskCurrent
<1>1. Init => DiskCurrent
  BY DEF Init, DiskCurrent
<1>2. ServerInv => TypeOK
  BY DEF ServerInv
<1> QED BY <1>1, <1>2, InitServer, NextServer, NextDisk, PTL DEF Spec
-----------------------------------------------------------------------------
\* What a worker that executes, or has executed, a run knows of it.
WorkerKnows ==
    \A w \in Workers : Executing(w) =>
        /\ log[worker[w].run] # "none"
        /\ runs[worker[w].run].status # "pending"
        /\ worker[w].pc = "end" => runs[worker[w].run].status # "running"

\* The inductive invariant for RunsHeld, on top of ServerInv.
HeldInv == RunsHeld /\ WorkerKnows

InQueue(r) == \E i \in 1..Len(queue) : queue[i] = r

\* A step that leaves workers and queue alone and makes no run unfinished but
\* one it creates.
LEMMA HeldFrame ==
    ASSUME ServerInv, HeldInv,
           UNCHANGED <<worker, active, queue>>,
           server' # "down" => server # "down",
           creating \subseteq creating', refused \subseteq refused',
           \A x \in Runs : log[x] # "none" => log'[x] # "none",
           \A x \in Runs : runs'[x].status \in {"pending", "running"} =>
               \/ runs'[x].status = runs[x].status
               \/ runs'[x].status = "pending" /\ log[x] = "none" /\ x \in creating' \cup refused'
    PROVE  HeldInv'
<1>1. RunsHeld'
  BY DEF HeldInv, RunsHeld
<1>2. \A w \in Workers : Executing(w) => worker[w].run \in Runs
  BY Taken DEF ServerInv, Executing
<1>3. WorkerKnows'
  BY <1>2 DEF HeldInv, WorkerKnows, Executing
<1> QED BY <1>1, <1>3 DEF HeldInv

\* The handlers forget no unfinished run.
LEMMA HandlerHeld == ServerInv /\ HeldInv /\ Handler => HeldInv'
<1> SUFFICES ASSUME ServerInv, HeldInv, Handler PROVE HeldInv'
  OBVIOUS
<1>0. TypeOK
  BY DEF ServerInv
<1>1. ASSUME NEW t \in Threads, CreateThread(t) PROVE HeldInv'
  BY <1>1, HeldFrame DEF CreateThread, live, history
<1>2. ASSUME NEW S \in SUBSET Runs, Forget(S) PROVE HeldInv'
  <2>1. \A x \in Runs : log[x] # "none" => log'[x] # "none"
    BY <1>0, <1>2, FinishedLogs DEF Forget
  <2>2. \A x \in Runs : runs'[x].status = IF x \in S THEN "absent" ELSE runs[x].status
    BY <1>0, <1>2, SetStatusRuns DEF Forget, RunStatus
  <2>3. UNCHANGED <<worker, active, queue, server, creating, refused>>
    BY <1>2 DEF Forget, history
  <2> QED BY <2>1, <2>2, <2>3, HeldFrame
<1>3. ASSUME NEW r \in Runs, NEW t \in Threads, NEW s \in {"reject", "interrupt", "enqueue"},
             CreateRun(r, t, s)
      PROVE  HeldInv'
  <2> DEFINE hit == IF s = "interrupt" THEN Unfinished \cap Of(t) ELSE {}
             kept == SetStatus(hit \ active, "interrupted")
  <2>1. /\ kept \in [Runs -> RunRecord]
        /\ \A x \in Runs : kept[x].status = IF x \in hit \ active THEN "interrupted" ELSE runs[x].status
    BY <1>0, SetStatusRuns, SMTT(30) DEF RunStatus
  <2>2. /\ log[r] = "none"
        /\ runs' = [kept EXCEPT ![r] = [status |-> "pending", thread |-> t]]
        /\ log' = [Finished(hit \ active) EXCEPT ![r] = "open"]
        /\ UNCHANGED <<active, queue, worker, server>>
        /\ \/ creating' = creating \cup {r} /\ refused' = refused
           \/ refused' = refused \cup {r} /\ creating' = creating
    BY <1>3, SMTT(30) DEF CreateRun, SupersededLogs
  <2> HIDE DEF kept, hit
  <2>3. \A x \in Runs : log[x] # "none" => log'[x] # "none"
    BY <1>0, <2>2, FinishedLogs
  <2>4. \A x \in Runs : runs'[x].status \in {"pending", "running"} =>
               \/ runs'[x].status = runs[x].status
               \/ runs'[x].status = "pending" /\ log[x] = "none" /\ x \in creating' \cup refused'
    BY <2>1, <2>2
  <2>5. creating \subseteq creating' /\ refused \subseteq refused'
    BY <2>2
  <2> QED BY <2>2, <2>3, <2>4, <2>5, HeldFrame, Zenon
<1>4. ASSUME NEW r \in Runs, CancelRun(r) PROVE HeldInv'
  <2>1. UNCHANGED <<worker, active, queue, server, creating, refused>>
    BY <1>4 DEF CancelRun
  <2>2. CASE UNCHANGED <<runs, log>>
    BY <2>1, <2>2, HeldFrame
  <2>3. CASE runs' = SetStatus({r}, "interrupted") /\ log' = Finished({r})
    <3>1. \A x \in Runs : log[x] # "none" => log'[x] # "none"
      BY <1>0, <2>3, FinishedLogs
    <3>2. \A x \in Runs : runs'[x].status = IF x = r THEN "interrupted" ELSE runs[x].status
      BY <1>0, <2>3, SetStatusRuns DEF RunStatus
    <3> QED BY <2>1, <3>1, <3>2, HeldFrame
  <2> QED BY <1>4, <2>2, <2>3 DEF CancelRun
<1>5. ASSUME NEW t \in Threads, DeleteThread(t) PROVE HeldInv'
  BY <1>2, <1>5 DEF DeleteThread, Of
<1>6. ASSUME NEW r \in Runs, DeleteRun(r) PROVE HeldInv'
  <2>1. {r} \in SUBSET Runs
    OBVIOUS
  <2> QED BY <1>2, <1>6, <2>1 DEF DeleteRun
<1> QED BY <1>1, <1>3, <1>4, <1>5, <1>6 DEF Handler

\* A created run is in the queue, or has failed.
LEMMA EnqueueRunHeld ==
    ASSUME ServerInv, HeldInv, NEW r \in Runs, EnqueueRun(r)
    PROVE  HeldInv'
<1>1. TypeOK
  BY DEF ServerInv
<1>2. creating' = creating \ {r} /\ UNCHANGED <<active, worker, server, refused>>
  BY DEF EnqueueRun, history
<1>3. CASE queue' = Append(queue, r) /\ UNCHANGED <<runs, log>>
  <2>1. queue \in Seq(Runs)
    BY <1>1, TypesApart DEF Types
  <2>2. \A x : InQueue(x) => InQueue(x)'
    BY <1>3, <2>1 DEF InQueue
  <2>3. InQueue(r)'
    <3>1. Len(queue') = Len(queue) + 1 /\ queue'[Len(queue) + 1] = r /\ Len(queue) \in Nat
      BY <1>3, <2>1
    <3> QED BY <3>1 DEF InQueue
  <2>4. RunsHeld'
    <3> SUFFICES ASSUME server # "down", NEW x \in Runs
                 PROVE  /\ runs[x].status = "running" =>
                             x \in active /\ \E w \in Workers : worker[w].pc = "run" /\ worker[w].run = x
                        /\ runs[x].status = "pending" =>
                             \/ x \in (creating \ {r}) \cup refused
                             \/ InQueue(x)'
                             \/ \E w \in Workers : worker[w].pc = "lock" /\ worker[w].run = x
      <4>1. runs' = runs BY <1>3
      <4> QED BY <1>2, <4>1 DEF RunsHeld, InQueue
    <3>1. /\ runs[x].status = "running" =>
               x \in active /\ \E w \in Workers : worker[w].pc = "run" /\ worker[w].run = x
          /\ runs[x].status = "pending" =>
               \/ x \in creating \cup refused
               \/ InQueue(x)
               \/ \E w \in Workers : worker[w].pc = "lock" /\ worker[w].run = x
      BY Zenon DEF HeldInv, RunsHeld, InQueue
    <3> QED BY <2>2, <2>3, <3>1, ZenonT(30)
  <2>5. WorkerKnows'
    BY <1>2, <1>3 DEF HeldInv, WorkerKnows, Executing
  <2> QED BY <2>4, <2>5 DEF HeldInv
<1>4. CASE FailRun(r) /\ UNCHANGED queue
  <2>1. /\ \A x \in Runs : runs'[x].status = IF x = r THEN "error" ELSE runs[x].status
        /\ \A x \in Runs : log[x] # "none" => log'[x] # "none"
    BY <1>1, <1>4, FailRunTables
  <2>2. RunsHeld'
    BY <1>2, <1>4, <2>1 DEF HeldInv, RunsHeld
  <2>3. \A w \in Workers : Executing(w) => worker[w].run \in Runs
    BY <1>1, Taken DEF Executing
  <2>4. WorkerKnows'
    BY <1>2, <2>1, <2>3 DEF HeldInv, WorkerKnows, Executing
  <2> QED BY <2>2, <2>4 DEF HeldInv
<1>5. CASE runs[r].status = "absent" /\ UNCHANGED <<runs, log, queue>>
  <2>1. RunsHeld'
    BY <1>2, <1>5 DEF HeldInv, RunsHeld
  <2>2. WorkerKnows'
    BY <1>2, <1>5, SMTT(30) DEF HeldInv, WorkerKnows, Executing
  <2> QED BY <2>1, <2>2 DEF HeldInv
<1> QED BY <1>3, <1>4, <1>5 DEF EnqueueRun

\* A pending run leaves the queue only into the hands of a worker.
LEMMA TakeHeld ==
    ASSUME ServerInv, HeldInv, NEW w \in Workers, Take(w)
    PROVE  HeldInv'
<1> DEFINE r == Head(queue)
           next == [pc |-> "lock", run |-> r, thread |-> runs[r].thread]
<1>1. TypeOK
  BY DEF ServerInv
<1>2. /\ queue \in Seq(Runs) /\ queue # <<>> /\ queue' = Tail(queue)
      /\ worker[w] = Free
      /\ worker \in [Workers -> Worker]
      /\ UNCHANGED <<runs, log, active, creating, server, refused>>
      /\ \/ runs[r].status = "pending" /\ worker' = [worker EXCEPT ![w] = next]
         \/ runs[r].status # "pending" /\ worker' = worker
  BY <1>1, TypesApart DEF Types, Take, history
<1>3. \A x : InQueue(x) => x = r \/ InQueue(x)'
  <2> SUFFICES ASSUME NEW i \in 1..Len(queue), queue[i] # r
               PROVE  \E j \in 1..Len(queue') : queue'[j] = queue[i]
    BY DEF InQueue
  <2>1. Len(queue) \in Nat /\ queue[1] = r
    BY <1>2
  <2>2. i - 1 \in 1..Len(queue') /\ queue'[i - 1] = queue[i]
    BY <1>2, <2>1
  <2> QED BY <2>2
<1>4. \A v \in Workers : v # w => worker'[v] = worker[v]
  BY <1>2
<1>5. Free.pc = "idle" /\ next.pc = "lock" /\ next.run = r
  BY DEF Free
<1>6. \/ worker'[w] = next
      \/ runs[r].status # "pending" /\ worker'[w] = Free
  <2> HIDE DEF next, r
  <2> QED BY <1>2
<1> HIDE DEF r, next
<1>7. RunsHeld'
  <2> SUFFICES ASSUME server' # "down", NEW x \in Runs
               PROVE  /\ runs'[x].status = "running" =>
                            x \in active' /\ \E v \in Workers : worker'[v].pc = "run" /\ worker'[v].run = x
                      /\ runs'[x].status = "pending" =>
                            \/ x \in creating' \cup refused'
                            \/ InQueue(x)'
                            \/ \E v \in Workers : worker'[v].pc = "lock" /\ worker'[v].run = x
    BY DEF RunsHeld, InQueue
  <2>1. ASSUME runs'[x].status = "running"
        PROVE  x \in active' /\ \E v \in Workers : worker'[v].pc = "run" /\ worker'[v].run = x
    <3>1. x \in active /\ \E v \in Workers : worker[v].pc = "run" /\ worker[v].run = x
      BY <1>2, <2>1, SMTT(30) DEF HeldInv, RunsHeld
    <3> QED BY <1>2, <1>4, <1>5, <3>1
  <2>2. ASSUME runs'[x].status = "pending"
        PROVE  \/ x \in creating' \cup refused'
               \/ InQueue(x)'
               \/ \E v \in Workers : worker'[v].pc = "lock" /\ worker'[v].run = x
    <3>1. \/ x \in creating \cup refused
          \/ InQueue(x)
          \/ \E v \in Workers : worker[v].pc = "lock" /\ worker[v].run = x
      BY <1>2, <2>2 DEF HeldInv, RunsHeld, InQueue
    <3>2. CASE InQueue(x)
      BY <1>2, <1>3, <1>5, <1>6, <2>2, <3>2
    <3>3. CASE \E v \in Workers : worker[v].pc = "lock" /\ worker[v].run = x
      BY <1>2, <1>4, <1>5, <3>3
    <3> QED BY <1>2, <3>1, <3>2, <3>3
  <2> QED BY <2>1, <2>2
<1>8. WorkerKnows'
  BY <1>2, <1>4, <1>5, <1>6 DEF HeldInv, WorkerKnows, Executing
<1> QED BY <1>7, <1>8 DEF HeldInv

\* A run with a worker at the thread's mutex or beyond it: the worker goes on
\* with its run, and changes the status of no other.
LEMMA WorkerHeld ==
    ASSUME ServerInv, HeldInv, NEW w \in Workers, NEW next \in Worker,
           worker[w].pc \in {"lock", "run", "end"},
           worker' = [worker EXCEPT ![w] = next],
           UNCHANGED <<queue, creating, server, refused>>,
           \A x \in Runs : log[x] # "none" => log'[x] # "none",
           \A x \in Runs \ {worker[w].run} :
               runs'[x].status = runs[x].status /\ (x \in active => x \in active'),
           LET status == runs'[worker[w].run].status IN
               /\ status # "pending"
               /\ status = "running" => /\ next.pc = "run" /\ next.run = worker[w].run
                                        /\ worker[w].run \in active'
               /\ next.pc \in {"run", "end"} =>
                     /\ next.run = worker[w].run /\ log[worker[w].run] # "none"
                     /\ next.pc = "end" => status # "running",
           runs'[worker[w].run].status = "running" =>
               \A v \in Workers \ {w} : Executing(v) => worker[v].run # worker[w].run
    PROVE  HeldInv'
<1> DEFINE r == worker[w].run
<1>1. TypeOK /\ r \in Runs
  BY Taken DEF ServerInv
<1>2. worker'[w] = next /\ \A v \in Workers : v # w => worker'[v] = worker[v]
  BY <1>1, TypesApart DEF Types
<1> HIDE DEF r
<1>3. RunsHeld'
  <2> SUFFICES ASSUME server' # "down", NEW x \in Runs
               PROVE  /\ runs'[x].status = "running" =>
                            x \in active' /\ \E v \in Workers : worker'[v].pc = "run" /\ worker'[v].run = x
                      /\ runs'[x].status = "pending" =>
                            \/ x \in creating' \cup refused'
                            \/ InQueue(x)'
                            \/ \E v \in Workers : worker'[v].pc = "lock" /\ worker'[v].run = x
    BY ZenonT(30) DEF RunsHeld, InQueue
  <2>1. CASE x = r
    BY <1>2, <2>1 DEF r
  <2>2. CASE x # r
    <3>1. runs'[x].status = runs[x].status /\ (x \in active => x \in active')
      BY <2>2, SMTT(30) DEF r
    <3>2. \A v \in Workers : worker[v].run = x => worker'[v] = worker[v]
      BY <1>2, <2>2, SMTT(30) DEF r
    <3>3. runs[x].status = "running" =>
              x \in active /\ \E v \in Workers : worker[v].pc = "run" /\ worker[v].run = x
      BY DEF HeldInv, RunsHeld
    <3>4. runs[x].status = "pending" =>
              \/ x \in creating \cup refused
              \/ InQueue(x)
              \/ \E v \in Workers : worker[v].pc = "lock" /\ worker[v].run = x
      BY ZenonT(30) DEF HeldInv, RunsHeld, InQueue
    <3>5. InQueue(x) => InQueue(x)'
      BY DEF InQueue
    <3> QED BY <3>1, <3>2, <3>3, <3>4, <3>5, ZenonT(30)
  <2> QED BY <2>1, <2>2, ZenonT(30)
<1>4. WorkerKnows'
  <2> SUFFICES ASSUME NEW v \in Workers, Executing(v)'
               PROVE  /\ log'[worker'[v].run] # "none"
                      /\ runs'[worker'[v].run].status # "pending"
                      /\ worker'[v].pc = "end" => runs'[worker'[v].run].status # "running"
    BY SMTT(30) DEF WorkerKnows
  <2>1. CASE v = w
    <3>1. next.pc \in {"run", "end"}
      BY <1>2, <2>1 DEF Executing
    <3> QED BY <1>1, <1>2, <2>1, <3>1, SMTT(30) DEF r
  <2>2. CASE v # w
    <3>1. worker'[v] = worker[v] /\ Executing(v)
      BY <1>2, <2>2, SMTT(30) DEF Executing
    <3>2. worker[v].run \in Runs
      BY <1>1, <3>1, Taken DEF Executing
    <3>3. /\ log[worker[v].run] # "none"
          /\ runs[worker[v].run].status # "pending"
          /\ worker[v].pc = "end" => runs[worker[v].run].status # "running"
      BY <3>1, ZenonT(30) DEF HeldInv, WorkerKnows
    <3>4. CASE worker[v].run = r
      BY <2>2, <3>1, <3>2, <3>3, <3>4, ZenonT(30) DEF r
    <3>5. CASE worker[v].run # r
      BY <3>1, <3>2, <3>3, <3>5, ZenonT(30) DEF r
    <3> QED BY <3>4, <3>5, ZenonT(30)
  <2> QED BY <2>1, <2>2, ZenonT(30)
<1> QED BY <1>3, <1>4, SMTT(30) DEF HeldInv

\* The steps of a worker with its run.
LEMMA WorkHeld ==
    ASSUME ServerInv, HeldInv, NEW w \in Workers, Acquire(w) \/ Returns(w) \/ Leave(w)
    PROVE  HeldInv'
<1> DEFINE r == worker[w].run
<1>1. TypeOK /\ Logged
  BY SMTT(30) DEF ServerInv
<1>2. /\ worker[w].pc \in {"lock", "run", "end"}
      /\ worker[w] \in [pc : {"lock", "run", "end"}, run : Runs, thread : Threads]
      /\ UNCHANGED <<queue, creating, server, refused>>
  <2>1. worker[w].pc \in {"lock", "run", "end"} /\ UNCHANGED <<queue, creating, server, refused>>
    BY DEF Acquire, Start, Drop, StartFails, LockFree, Returns, Leave, history
  <2> QED BY <1>1, <2>1, Taken
<1>3. Free \in Worker /\ Free.pc = "idle"
  BY DEF Worker, Free
<1>4. CASE Start(w)
  <2> DEFINE next == [worker[w] EXCEPT !.pc = "run"]
  <2>1. next \in Worker /\ next.pc = "run" /\ next.run = r /\ worker' = [worker EXCEPT ![w] = next]
    BY <1>2, <1>4 DEF Start, Worker
  <2>2. runs[r].status = "pending" /\ active' = active \cup {r} /\ UNCHANGED log
    BY <1>4 DEF Start
  <2>3. \A x \in Runs : runs'[x].status = IF x = r THEN "running" ELSE runs[x].status
    BY <1>1, <1>4, SetStatusRuns, SMTT(30) DEF Start, RunStatus
  <2>4. log[r] # "none"
    BY <1>1, <1>2, <2>2, SMTT(30) DEF Logged
  <2>5. \A v \in Workers : Executing(v) => worker[v].run # r
    BY <2>2 DEF HeldInv, WorkerKnows
  <2> HIDE DEF next
  <2> QED BY <1>2, <2>1, <2>2, <2>3, <2>4, <2>5, WorkerHeld, Zenon
<1>5. CASE Drop(w)
  <2>1. /\ worker' = [worker EXCEPT ![w] = Free] /\ UNCHANGED <<runs, log, active>>
        /\ runs[r].status # "pending" /\ worker[w].pc = "lock"
    BY <1>5 DEF Drop, LockFree
  <2>2. worker'[w] = Free /\ \A v \in Workers : v # w => worker'[v] = worker[v]
    BY <1>1, <2>1, TypesApart DEF Types
  <2>3. \A v \in Workers : worker[v].pc = "run" => worker'[v] = worker[v]
    BY <2>1, <2>2
  <2>4. \A v \in Workers : runs[worker[v].run].status = "pending" => worker'[v] = worker[v]
    BY <2>1, <2>2, SMTT(30)
  <2>5. RunsHeld'
    BY <1>2, <2>1, <2>3, <2>4, SMTT(30) DEF HeldInv, RunsHeld
  <2>6. WorkerKnows'
    BY <1>3, <2>1, <2>2 DEF HeldInv, WorkerKnows, Executing
  <2> QED BY <2>5, <2>6, SMTT(30) DEF HeldInv
<1>6. CASE StartFails(w)
  <2>1. worker' = [worker EXCEPT ![w] = Free] /\ FailRun(r) /\ UNCHANGED active
    BY <1>6 DEF StartFails
  <2>2. /\ \A x \in Runs : runs'[x].status = IF x = r THEN "error" ELSE runs[x].status
        /\ \A x \in Runs : log[x] # "none" => log'[x] # "none"
    BY <1>1, <1>2, <2>1, FailRunTables
  <2> QED BY <1>2, <1>3, <2>1, <2>2, WorkerHeld, ZenonT(30)
<1>7. CASE Returns(w)
  <2> DEFINE next == [worker[w] EXCEPT !.pc = "end"]
  <2>1. next \in Worker /\ next.pc = "end" /\ next.run = r /\ worker' = [worker EXCEPT ![w] = next]
    BY <1>2, <1>7 DEF Returns, Worker
  <2>2. log[r] # "none" /\ UNCHANGED active
    BY <1>7 DEF Returns, HeldInv, WorkerKnows, Executing
  <2>3. /\ \A x \in Runs \ {r} : runs'[x].status = runs[x].status
        /\ runs'[r].status \notin {"pending", "running"}
        /\ \A x \in Runs : log[x] # "none" => log'[x] # "none"
    <3>1. CASE runs[r].status = "absent" /\ UNCHANGED <<runs, log>>
      BY <3>1, SMTT(30)
    <3>2. ASSUME NEW outcome \in {"success", "interrupted", "error"}, CompleteRun(r, outcome)
          PROVE  /\ \A x \in Runs \ {r} : runs'[x].status = runs[x].status
                 /\ runs'[r].status \notin {"pending", "running"}
                 /\ \A x \in Runs : log[x] # "none" => log'[x] # "none"
      <4>1. /\ \A x \in Runs : runs'[x].status = IF x = r THEN outcome ELSE runs[x].status
            /\ \A x \in Runs : log[x] # "none" => log'[x] # "none"
        BY <1>1, <1>2, <3>2, CompleteRunTables
      <4> QED BY <1>2, <4>1, SMTT(30)
    <3> QED BY <1>7, <3>1, <3>2, SMTT(30) DEF Returns
  <2> HIDE DEF next
  <2> QED BY <1>2, <2>1, <2>2, <2>3, WorkerHeld, Zenon
<1>8. CASE Leave(w)
  <2>1. /\ worker' = [worker EXCEPT ![w] = Free] /\ UNCHANGED <<runs, log>>
        /\ active' = active \ {r}
    BY <1>8, SMTT(30) DEF Leave
  <2>2. runs[r].status \notin {"pending", "running"}
    BY <1>8 DEF Leave, HeldInv, WorkerKnows, Executing
  <2> QED BY <1>2, <1>3, <2>1, <2>2, WorkerHeld, Zenon
<1> QED BY <1>4, <1>5, <1>6, <1>7, <1>8 DEF Acquire

\* Every step of the server holds on to its unfinished runs.
LEMMA NextHeld == ServerInv /\ HeldInv /\ [Next]_vars => HeldInv'
<1> SUFFICES ASSUME ServerInv, HeldInv, [Next]_vars PROVE HeldInv'
  OBVIOUS
<1>1. TypeOK
  BY DEF ServerInv
<1>2. ASSUME NEW w \in Workers, Quit(w) PROVE HeldInv'
  <2>1. /\ worker[w] = Free /\ worker' = [worker EXCEPT ![w] = [pc |-> "gone"]]
        /\ UNCHANGED <<runs, log, active, queue, creating, server, refused>>
    BY <1>2 DEF Quit, history
  <2>2. worker'[w].pc = "gone" /\ \A v \in Workers : v # w => worker'[v] = worker[v]
    BY <1>1, <2>1, TypesApart DEF Types
  <2>3. \A v \in Workers : worker[v].pc \in {"lock", "run", "end"} => worker'[v] = worker[v]
    BY <2>1, <2>2, SMTT(30) DEF Free
  <2>4. RunsHeld'
    BY <2>1, <2>3 DEF HeldInv, RunsHeld
  <2>5. WorkerKnows'
    BY <2>1, <2>2 DEF HeldInv, WorkerKnows, Executing
  <2> QED BY <2>4, <2>5 DEF HeldInv
<1>3. CASE Close \/ Closed \/ UNCHANGED vars
  <2>1. /\ UNCHANGED <<runs, log, worker, active, queue, creating, refused>>
        /\ server' # "down" => server # "down"
    BY <1>3, SMTT(30) DEF Close, Closed, vars, live, history
  <2> QED BY <2>1, HeldFrame
<1>4. CASE Crash
  <2>1. server' = "down" /\ \A w \in Workers : worker'[w].pc = "gone"
    BY <1>4 DEF Crash
  <2> QED BY <2>1 DEF HeldInv, RunsHeld, WorkerKnows, Executing
<1>5. CASE Restart
  <2>1. disk.runs \in [Runs -> RunRecord]
    BY <1>1, TypesApart DEF Types, Tables, RunRecord
  <2>2. \A r \in Runs : runs'[r].status \notin {"pending", "running"}
    BY <1>5, <2>1 DEF Restart, LoadRuns, RunRecord, RunStatus
  <2>3. \A w \in Workers : worker'[w].pc = "idle"
    BY <1>5 DEF Restart, Free
  <2> QED BY <2>2, <2>3 DEF HeldInv, RunsHeld, WorkerKnows, Executing
<1>6. ASSUME NEW w \in Workers, Work(w) PROVE HeldInv'
  BY <1>2, <1>6, TakeHeld, WorkHeld DEF Work
<1> QED BY <1>3, <1>4, <1>5, <1>6, HandlerHeld, EnqueueRunHeld DEF Next

\* While the server lives no unfinished run is forgotten: one it reports as
\* running is executed by a worker and can be cancelled, and a pending one is
\* in somebody's hands, unless its creation could not be written.
THEOREM RunsSafe == Spec => []RunsHeld
<1>1. Init => HeldInv
  <2> SUFFICES ASSUME Init PROVE HeldInv
    OBVIOUS
  <2>1. \A r \in Runs : runs[r].status = "absent"
    BY DEF Init, Absent
  <2>2. \A w \in Workers : worker[w].pc = "idle"
    BY DEF Init, Free
  <2> QED BY <2>1, <2>2 DEF HeldInv, RunsHeld, WorkerKnows, Executing
<1>2. HeldInv => RunsHeld
  BY DEF HeldInv
<1> QED BY <1>1, <1>2, InitServer, NextServer, NextHeld, PTL DEF Spec
=============================================================================
