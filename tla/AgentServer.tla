---------------------------- MODULE AgentServer ----------------------------
(***************************************************************************)
(* The run queue of the embeddable Agent Server (daserver): HTTP handlers  *)
(* create, cancel and delete runs and threads under the server mutex,      *)
(* queue workers execute the runs of one thread one at a time, every       *)
(* change is written to the state file, and a restart loads that file.     *)
(* One action is one critical section of the mutex.                        *)
(*                                                                         *)
(* A run's context is a member of `cancelled' once its CancelFunc was      *)
(* called.  log is the run's eventLog, which clients of /stream, /join and *)
(* /wait follow until it is done.  `creating' holds the runs that          *)
(* createRun has stored and not yet enqueued, `refused' those whose        *)
(* creation failed to be written.  `stopped' is a history variable: the    *)
(* runs a client cancelled, or superseded by the "interrupt" strategy,     *)
(* before they had ended.                                                  *)
(***************************************************************************)
EXTENDS Naturals, Sequences, FiniteSets

CONSTANTS
    Threads, Runs, Workers,
    Capacity,      \* of the queue channel: 4 per worker in the code
    MaxFaults,     \* bound on state files that cannot be written
    MaxRestarts    \* bound on restarts of the process

ASSUME ServerAssumption ==
    /\ Threads # {}
    /\ Capacity \in Nat \ {0} /\ MaxFaults \in Nat /\ MaxRestarts \in Nat

VARIABLES
    threads, runs, log, active, cancelled, queue, worker, creating,
    server, disk, refused, stopped, faults, restarts

live == <<log, active, cancelled, queue, worker, creating>>
history == <<refused, stopped, restarts>>
vars == <<threads, runs, live, server, disk, history, faults>>

Absent(t) == [status |-> "absent", thread |-> t]
Free == [pc |-> "idle"]
Memory == [threads |-> threads, runs |-> runs]

Init ==
    /\ threads = [t \in Threads |-> "absent"]
    /\ runs \in [Runs -> {Absent(CHOOSE t \in Threads : TRUE)}]
    /\ log = [r \in Runs |-> "none"]
    /\ active = {} /\ cancelled = {} /\ queue = <<>> /\ creating = {}
    /\ worker = [w \in Workers |-> Free]
    /\ server = "up"
    /\ disk = Memory
    /\ refused = {} /\ stopped = {} /\ faults = 0 /\ restarts = 0

Unfinished == {r \in Runs : runs[r].status \in {"pending", "running"}}
Of(t) == {r \in Runs : runs[r].thread = t}
SetStatus(S, status) ==
    [r \in Runs |-> IF r \in S THEN [runs[r] EXCEPT !.status = status] ELSE runs[r]]
Finished(S) == [r \in Runs |-> IF r \in S THEN "done" ELSE log[r]]

-----------------------------------------------------------------------------
(* persistLocked: the state file is replaced as a whole, or not at all.    *)

Written == disk' = Memory' /\ UNCHANGED faults
NotWritten == faults < MaxFaults /\ faults' = faults + 1 /\ UNCHANGED disk
Persist == Written \/ NotWritten

(* failRunLocked *)
FailRun(r) ==
    /\ runs' = SetStatus({r}, "error")
    /\ threads' = [threads EXCEPT ![runs[r].thread] = "error"]
    /\ log' = Finished({r})
    /\ Persist

-----------------------------------------------------------------------------
(* HTTP handlers                                                           *)

CreateThread(t) ==
    /\ threads[t] = "absent"
    /\ threads' = [threads EXCEPT ![t] = "idle"]
    /\ UNCHANGED <<runs, live, server, history>>
    /\ Persist

\* Mutant: the event logs of superseded runs stay open.
SupersededOpen(S) == log

(* The event logs once the "interrupt" or "rollback" strategy superseded    *)
(* the runs S that were not active; an active one is cancelled and ends by *)
(* itself.                                                                 *)
SupersededLogs(S) == Finished(S)

(* createRun up to the release of the mutex.  The "reject" strategy refuses *)
(* a thread that has an unfinished run; "enqueue" leaves the others alone.  *)
CreateRun(r, t, strategy) ==
    LET hit == IF strategy = "interrupt" THEN Unfinished \cap Of(t) ELSE {}
    IN  /\ log[r] = "none"
        /\ strategy = "reject" => Unfinished \cap Of(t) = {}
        /\ threads' = [threads EXCEPT ![t] = IF @ = "absent" THEN "idle" ELSE @]
        /\ cancelled' = cancelled \cup (hit \cap active)
        /\ runs' = [SetStatus(hit \ active, "interrupted")
                        EXCEPT ![r] = [status |-> "pending", thread |-> t]]
        /\ log' = [SupersededLogs(hit \ active) EXCEPT ![r] = "open"]
        /\ stopped' = stopped \cup hit
        /\ \/ Written /\ creating' = creating \cup {r} /\ UNCHANGED refused
           \/ NotWritten /\ refused' = refused \cup {r} /\ UNCHANGED creating
        /\ UNCHANGED <<active, queue, worker, server, restarts>>

\* Mutant: the queue takes one run more than its capacity.
RoomInclusive == Len(queue) <= Capacity

(* A send on the queue channel would not block.                            *)
Room == Len(queue) < Capacity

(* The end of createRun.  With room in the queue of a closed server the    *)
(* select may take either ready case.                                      *)
EnqueueRun(r) ==
    /\ r \in creating
    /\ creating' = creating \ {r}
    /\ \/ /\ Room
          /\ queue' = Append(queue, r)
          /\ UNCHANGED <<threads, runs, log, disk, faults>>
       \/ /\ ~Room \/ server # "up"
          /\ IF runs[r].status # "absent"
                THEN FailRun(r)
                ELSE UNCHANGED <<threads, runs, log, disk, faults>>
          /\ UNCHANGED queue
    /\ UNCHANGED <<active, cancelled, worker, server, history>>

\* Mutant: a cancellation is not written to the state file.
CancelUnsaved(r) ==
    /\ r \in Unfinished
    /\ stopped' = stopped \cup {r}
    /\ IF r \in active
          THEN /\ cancelled' = cancelled \cup {r}
               /\ UNCHANGED <<threads, runs, log>>
          ELSE /\ runs' = SetStatus({r}, "interrupted")
               /\ threads' = [threads EXCEPT ![runs[r].thread] = "interrupted"]
               /\ log' = Finished({r})
               /\ UNCHANGED cancelled
    /\ UNCHANGED <<active, queue, worker, creating, server, disk, faults,
                   refused, restarts>>

(* cancelRun; on a run that has ended it changes nothing.                  *)
CancelRun(r) ==
    /\ r \in Unfinished
    /\ stopped' = stopped \cup {r}
    /\ IF r \in active
          THEN /\ cancelled' = cancelled \cup {r}
               /\ UNCHANGED <<threads, runs, log, disk, faults>>
          ELSE /\ runs' = SetStatus({r}, "interrupted")
               /\ threads' = [threads EXCEPT ![runs[r].thread] = "interrupted"]
               /\ log' = Finished({r})
               /\ Persist
               /\ UNCHANGED cancelled
    /\ UNCHANGED <<active, queue, worker, creating, server, refused, restarts>>

(* handleDeleteRun and the loop of handleDeleteThread: an executing run is *)
(* cancelled and forgotten at once; its worker finds it gone.              *)
Forget(S) ==
    /\ cancelled' = cancelled \cup (S \cap active)
    /\ log' = Finished(S)
    /\ runs' = SetStatus(S, "absent")
    /\ UNCHANGED <<active, queue, worker, creating, server, history>>

DeleteRun(r) ==
    /\ runs[r].status # "absent"
    /\ Forget({r})
    /\ UNCHANGED threads
    /\ Persist

DeleteThread(t) ==
    /\ threads[t] # "absent"
    /\ Forget({r \in Of(t) : runs[r].status # "absent"})
    /\ threads' = [threads EXCEPT ![t] = "absent"]
    /\ Persist

Handler ==
    /\ server # "down"
    /\ \/ \E t \in Threads : CreateThread(t) \/ DeleteThread(t)
       \/ \E r \in Runs, t \in Threads, s \in {"reject", "interrupt", "enqueue"} :
             CreateRun(r, t, s)
       \/ \E r \in Runs : CancelRun(r) \/ DeleteRun(r)

-----------------------------------------------------------------------------
(* Queue workers: worker and executeRun                                    *)

(* A worker takes a run off the queue and drops it unless it is pending.   *)
(* It remembers the thread whose lock it asks for.                         *)
Take(w) ==
    /\ worker[w] = Free /\ queue # <<>>
    /\ queue' = Tail(queue)
    /\ LET r == Head(queue)
       IN  worker' = IF runs[r].status = "pending"
                        THEN [worker EXCEPT ![w] =
                                [pc |-> "lock", run |-> r, thread |-> runs[r].thread]]
                        ELSE worker
    /\ UNCHANGED <<threads, runs, log, active, cancelled, creating, server, disk,
                   history, faults>>

Executing(w) == worker[w].pc \in {"run", "end"}

\* Mutant: a worker does not wait for the thread's mutex.
LockShared(w) == worker[w].pc = "lock"

(* The mutex of the worker's thread is free.                               *)
LockFree(w) ==
    /\ worker[w].pc = "lock"
    /\ ~ \E v \in Workers : Executing(v) /\ worker[v].thread = worker[w].thread

\* Mutant: the status is not read again under the thread's mutex.
StartUnchecked(w) ==
    LET r == worker[w].run
    IN  /\ LockFree(w)
        /\ runs[r].status # "absent"
        /\ runs' = SetStatus({r}, "running")
        /\ threads' = [threads EXCEPT ![worker[w].thread] = "busy"]
        /\ active' = active \cup {r}
        /\ cancelled' = IF server = "up" THEN cancelled ELSE cancelled \cup {r}
        /\ worker' = [worker EXCEPT ![w].pc = "run"]
        /\ Persist
        /\ UNCHANGED <<log, queue, creating, server, history>>

(* With the lock, a run that is still pending starts.  The run context is  *)
(* a child of the server's, so that it is cancelled from the start once    *)
(* Close was called.                                                       *)
Start(w) ==
    LET r == worker[w].run
    IN  /\ LockFree(w)
        /\ runs[r].status = "pending"
        /\ runs' = SetStatus({r}, "running")
        /\ threads' = [threads EXCEPT ![worker[w].thread] = "busy"]
        /\ active' = active \cup {r}
        /\ cancelled' = IF server = "up" THEN cancelled ELSE cancelled \cup {r}
        /\ worker' = [worker EXCEPT ![w].pc = "run"]
        /\ Persist
        /\ UNCHANGED <<log, queue, creating, server, history>>

(* A run cancelled, superseded or deleted while its worker waited for the  *)
(* lock is dropped.                                                        *)
Drop(w) ==
    /\ LockFree(w)
    /\ runs[worker[w].run].status # "pending"
    /\ worker' = [worker EXCEPT ![w] = Free]
    /\ UNCHANGED <<threads, runs, log, active, cancelled, queue, creating, server,
                   disk, history, faults>>

(* The assistant is gone or the stored request cannot be decoded.          *)
StartFails(w) ==
    /\ LockFree(w)
    /\ runs[worker[w].run].status = "pending"
    /\ FailRun(worker[w].run)
    /\ worker' = [worker EXCEPT ![w] = Free]
    /\ UNCHANGED <<active, cancelled, queue, creating, server, history>>

\* Mutant: the event log of an interrupted run is not finished.
CompleteSilently(r, outcome) ==
    /\ runs' = SetStatus({r}, outcome)
    /\ threads' = [threads EXCEPT ![runs[r].thread] =
                      IF outcome = "success" THEN "idle" ELSE outcome]
    /\ log' = IF outcome = "interrupted" THEN log ELSE Finished({r})
    /\ Persist

(* completeRun on a run that still exists.                                 *)
CompleteRun(r, outcome) ==
    /\ runs' = SetStatus({r}, outcome)
    /\ threads' = [threads EXCEPT ![runs[r].thread] =
                      IF outcome = "success" THEN "idle" ELSE outcome]
    /\ log' = Finished({r})
    /\ Persist

(* The agent's stream ends: with a result, with interrupts or a cancelled  *)
(* context, or with another error.  A run whose context is cancelled may   *)
(* still have won the race with its last event.                            *)
Returns(w) ==
    /\ worker[w].pc = "run"
    /\ worker' = [worker EXCEPT ![w].pc = "end"]
    /\ \E outcome \in {"success", "interrupted", "error"} :
          IF runs[worker[w].run].status # "absent"
             THEN CompleteRun(worker[w].run, outcome)
             ELSE UNCHANGED <<runs, threads, log, disk, faults>>
    /\ UNCHANGED <<active, cancelled, queue, creating, server, history>>

ReturnsCancelled(w) == worker[w].pc = "run" /\ worker[w].run \in cancelled /\ Returns(w)

(* The deferred calls: the CancelFunc is dropped, the thread unlocked.     *)
Leave(w) ==
    /\ worker[w].pc = "end"
    /\ active' = active \ {worker[w].run}
    /\ worker' = [worker EXCEPT ![w] = Free]
    /\ UNCHANGED <<threads, runs, log, cancelled, queue, creating, server, disk,
                   history, faults>>

(* A worker that finds the server context done, even with runs queued.     *)
Quit(w) ==
    /\ worker[w] = Free /\ server = "closing"
    /\ worker' = [worker EXCEPT ![w] = [pc |-> "gone"]]
    /\ UNCHANGED <<threads, runs, log, active, cancelled, queue, creating, server,
                   disk, history, faults>>

Acquire(w) == Start(w) \/ Drop(w) \/ StartFails(w)
Work(w) == Take(w) \/ Acquire(w) \/ Returns(w) \/ Leave(w) \/ Quit(w)

-----------------------------------------------------------------------------
(* Life of the server                                                      *)

(* Close, up to its wait for the workers.                                  *)
Close ==
    /\ server = "up"
    /\ server' = "closing"
    /\ cancelled' = cancelled \cup active
    /\ UNCHANGED <<threads, runs, log, active, queue, worker, creating, disk,
                   history, faults>>

Closed ==
    /\ server = "closing"
    /\ \A w \in Workers : worker[w].pc = "gone"
    /\ server' = "closed"
    /\ UNCHANGED <<threads, runs, live, history>>
    /\ Persist

(* The process ends: what is left is the state file, and connections to    *)
(* clients are cut.                                                        *)
Crash ==
    /\ server # "down" /\ restarts < MaxRestarts
    /\ server' = "down"
    /\ log' = Finished({r \in Runs : log[r] # "none"})
    /\ active' = {} /\ cancelled' = {} /\ queue' = <<>> /\ creating' = {}
    /\ worker' = [w \in Workers |-> [pc |-> "gone"]]
    /\ UNCHANGED <<threads, runs, disk, history, faults>>

\* Mutant: a restart leaves running runs as they were stored.
LoadRunning ==
    [r \in Runs |-> IF disk.runs[r].status = "pending"
                       THEN [disk.runs[r] EXCEPT !.status = "error"]
                       ELSE disk.runs[r]]

(* loadState: nothing that was unfinished is taken up again.               *)
LoadRuns ==
    [r \in Runs |-> IF disk.runs[r].status \in {"pending", "running"}
                       THEN [disk.runs[r] EXCEPT !.status = "error"]
                       ELSE disk.runs[r]]

LoadThreads ==
    [t \in Threads |-> IF disk.threads[t] = "busy" THEN "error" ELSE disk.threads[t]]

(* New on an existing state file; it fails if the file cannot be written.  *)
Restart ==
    /\ server = "down" /\ restarts < MaxRestarts
    /\ server' = "up"
    /\ restarts' = restarts + 1
    /\ runs' = LoadRuns
    /\ threads' = LoadThreads
    /\ worker' = [w \in Workers |-> Free]
    /\ Written
    /\ UNCHANGED <<log, active, cancelled, queue, creating, refused, stopped>>

-----------------------------------------------------------------------------
Next ==
    \/ Handler
    \/ \E r \in Runs : EnqueueRun(r)
    \/ \E w \in Workers : Work(w)
    \/ Close \/ Closed \/ Crash \/ Restart

(* Handlers and workers keep running, a thread mutex admits every waiter   *)
(* in the end, and an agent returns once its context is cancelled.  An     *)
(* agent that is not cancelled may run forever.                            *)
Fairness ==
    /\ \A r \in Runs : WF_vars(EnqueueRun(r))
    /\ \A w \in Workers :
          /\ WF_vars(Take(w)) /\ SF_vars(Acquire(w)) /\ WF_vars(Leave(w))
          /\ WF_vars(Quit(w)) /\ WF_vars(ReturnsCancelled(w))
    /\ WF_vars(Closed)

Spec == Init /\ [][Next]_vars /\ Fairness

-----------------------------------------------------------------------------
RunStatus == {"absent", "pending", "running", "success", "error", "interrupted"}
ThreadStatus == {"absent", "idle", "busy", "error", "interrupted"}
Tables == [threads : [Threads -> ThreadStatus],
           runs : [Runs -> [status : RunStatus, thread : Threads]]]

(* The tables of the server and of its state file, the queue within the    *)
(* capacity of its channel.                                                *)
TypeOK ==
    /\ Memory \in Tables /\ disk \in Tables
    /\ log \in [Runs -> {"none", "open", "done"}]
    /\ active \subseteq Runs /\ cancelled \subseteq Runs
    /\ creating \subseteq Runs /\ refused \subseteq Runs /\ stopped \subseteq Runs
    /\ queue \in Seq(Runs) /\ Len(queue) <= Capacity
    /\ worker \in [Workers -> {Free, [pc |-> "gone"]}
                      \cup [pc : {"lock", "run", "end"}, run : Runs, thread : Threads]]
    /\ server \in {"up", "closing", "closed", "down"}
    /\ faults \in 0..MaxFaults /\ restarts \in 0..MaxRestarts

(* No two workers execute runs of one thread at a time, even when the      *)
(* thread, or one of the runs, was deleted and made anew in between: the   *)
(* thread mutex (run.go:23-25) outlives both.                              *)
ThreadExclusive ==
    \A v, w \in Workers :
        v # w /\ Executing(v) /\ Executing(w) => worker[v].thread # worker[w].thread

(* A run that was cancelled, or superseded by a later run of its thread,   *)
(* before it had ended never executes with a live context afterwards,      *)
(* whether it was being created, queued, waiting for its thread or         *)
(* executing when the request came (run.go:29, server.go:246-271).         *)
CancelSticks ==
    \A r \in stopped :
        /\ runs[r].status # "pending"
        /\ runs[r].status = "running" => server = "down" \/ r \in cancelled

(* While the server lives no unfinished run is forgotten, also after a     *)
(* restart.  One it reports as running is executed by a worker and can be  *)
(* cancelled; a pending one is with the request that creates it, in the    *)
(* queue, or with a worker.  The exception is a run whose creation could   *)
(* not be written (http.go:774-778), which stays pending.                  *)
RunsHeld ==
    server # "down" =>
        \A r \in Runs :
            /\ runs[r].status = "running" =>
                  r \in active /\ \E w \in Workers : worker[w].pc = "run" /\ worker[w].run = r
            /\ runs[r].status = "pending" =>
                  \/ r \in creating \cup refused
                  \/ \E i \in 1..Len(queue) : queue[i] = r
                  \/ \E w \in Workers : worker[w].pc = "lock" /\ worker[w].run = r

(* As long as the state file can be written it holds what the server       *)
(* knows: a crash between any two critical sections loses nothing.         *)
DiskCurrent == faults = 0 => disk = Memory

(* Agents return only when cancelled, and still two things end.  Clients   *)
(* that follow a cancelled run are released, although other runs of the    *)
(* thread or in the workers may never end.  Close returns: every worker,   *)
(* also one waiting for a thread that is taken, comes to its end.          *)
RequestedEnds ==
    /\ \A r \in Runs : (r \in cancelled /\ log[r] = "open" ~> log[r] = "done")
    /\ server = "closing" ~> server \in {"closed", "down"}

(* With agents that return, every run that was accepted comes to its end   *)
(* and releases the clients that follow it, unless the server is closed.   *)
StreamEnds ==
    (\A w \in Workers : WF_vars(Returns(w))) =>
        \A r \in Runs : log[r] = "open" /\ r \notin refused
                            ~> log[r] = "done" \/ server # "up"
=============================================================================
