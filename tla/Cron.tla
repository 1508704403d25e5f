-------------------------------- MODULE Cron --------------------------------
(***************************************************************************)
(* The persistent cron scheduler (datalon/cron/scheduler.go, store.go):    *)
(* the jobs file, the tools that create, edit, remove and prune jobs, and  *)
(* the ticks that claim the jobs that are due and run them through the     *)
(* host.  Every store method reads the file, changes it and replaces it    *)
(* under store.mu, so each is one atomic step; between the steps of a tick *)
(* the other methods run, and the process may stop or crash.               *)
(*                                                                         *)
(* Time is a number of minutes.  A schedule is [kind, minutes]; 0 stands   *)
(* for the zero time.                                                      *)
(***************************************************************************)
EXTENDS Naturals, FiniteSets, FiniteSetsExt, Sequences, Sorting

CONSTANTS
    Jobs,           \* job ids, in creation order
    Schedules,      \* schedules a job may be given
    Repeats,        \* recurring caps a job may be given; 0 is unlimited
    Enables,        \* values an edit may give Enabled
    MaxJobs,        \* Options.MaxJobs
    MaxDuePerTick,  \* SchedulerOptions.MaxDuePerTick
    MaxCompleted,   \* the largest Repeat.Completed a stored job may have
    MaxTime,        \* bound: clock
    MaxEvents       \* bound: edits, removals, crashes and failures of the file system

ASSUME CronAssumption ==
    /\ Jobs \subseteq Nat \ {0}
    /\ Schedules \subseteq [kind : {"in", "every"}, minutes : Nat \ {0}]
    /\ Repeats \subseteq Nat
    /\ Enables \subseteq BOOLEAN
    /\ {MaxJobs, MaxDuePerTick, MaxCompleted} \subseteq Nat \ {0}
    /\ MaxTime \in Nat /\ MaxEvents \in Nat

VARIABLES
    now,            \* the clock
    file,           \* jobs.json: job id -> job
    tick,           \* the tick in progress
    created,        \* ids used so far
    events,         \* edits, removals, crashes and failures so far
    claims          \* claims[j]: [due, at]: the due times of j claimed and the tick's time

cronVars == <<now, file, tick, created, events, claims>>

NoTick == [pc |-> "idle", now |-> 0, due |-> <<>>, job |-> 0]

Init ==
    /\ now = 1
    /\ file = [j \in {} |-> j]
    /\ tick = NoTick
    /\ created = {}
    /\ events = 0
    /\ claims = [j \in Jobs |-> <<>>]

\* validateJobInput.
ValidInput(schedule, times) == schedule.kind = "in" => times = 0

\* validateStoredJob.
ValidStored(job) ==
    /\ ValidInput(job.schedule, job.times)
    /\ job.completed <= MaxCompleted
    /\ job.times > 0 => job.completed <= job.times
    /\ job.enabled => job.next # 0

\* readLocked: one invalid job and no method reads the file.
Readable == \A j \in DOMAIN file : ValidStored(file[j])

Write(j, job) == file' = [i \in DOMAIN file \cup {j} |-> IF i = j THEN job ELSE file[i]]
-----------------------------------------------------------------------------
(* The store's methods *)

Create(j, schedule, times) ==
    /\ Readable
    /\ created \subseteq 1..(j - 1)
    /\ ValidInput(schedule, times)
    /\ Cardinality(DOMAIN file) < MaxJobs
    /\ Write(j, [schedule |-> schedule, times |-> times, completed |-> 0, enabled |-> TRUE,
                 next |-> now + schedule.minutes, last |-> now, status |-> ""])
    /\ created' = created \cup {j}
    /\ UNCHANGED <<now, tick, events, claims>>

\* Mutant: a new cap keeps the count of attempts.
EditedKeepsCount(job, option) ==
    CASE option.field = "schedule" ->
           [job EXCEPT !.schedule = option.value, !.next = now + option.value.minutes]
      [] option.field = "enabled" ->
           [job EXCEPT !.enabled = option.value,
                       !.next = IF option.value /\ @ = 0 THEN now + job.schedule.minutes ELSE @]
      [] option.field = "repeat" ->
           [job EXCEPT !.times = option.value]

\* Each option replaces its field; a new schedule, or enabling a job that has
\* no next run, sets the next run.
Edited(job, option) ==
    CASE option.field = "schedule" ->
           [job EXCEPT !.schedule = option.value, !.next = now + option.value.minutes]
      [] option.field = "enabled" ->
           [job EXCEPT !.enabled = option.value,
                       !.next = IF option.value /\ @ = 0 THEN now + job.schedule.minutes ELSE @]
      [] option.field = "repeat" ->
           [job EXCEPT !.times = option.value, !.completed = 0]

Options ==
    [field : {"schedule"}, value : Schedules] \cup [field : {"enabled"}, value : Enables]
        \cup [field : {"repeat"}, value : Repeats]

Edit(j, option) ==
    LET job == Edited(file[j], option) IN
    /\ Readable
    /\ events < MaxEvents
    /\ ValidInput(job.schedule, job.times)
    /\ Write(j, job)
    /\ events' = events + 1
    /\ UNCHANGED <<now, tick, created, claims>>

RemoveJob(j) ==
    /\ Readable
    /\ events < MaxEvents
    /\ file' = [i \in DOMAIN file \ {j} |-> file[i]]
    /\ events' = events + 1
    /\ UNCHANGED <<now, tick, created, claims>>

Completed(job) == ~job.enabled /\ job.next = 0

\* PruneCompleted with some retention: every completed job whose last run is
\* old enough goes.
PruneCompleted(cutoff) ==
    LET old == {j \in DOMAIN file : Completed(file[j]) /\ file[j].last <= cutoff} IN
    /\ Readable
    /\ old # {}
    /\ file' = [i \in DOMAIN file \ old |-> file[i]]
    /\ UNCHANGED <<now, tick, created, events, claims>>

\* Mutant: due a minute late.
DueLate(job, at) == job.enabled /\ job.next # 0 /\ job.next < at

IsDue(job, at) == job.enabled /\ job.next # 0 /\ job.next <= at
-----------------------------------------------------------------------------
(* A tick *)

\* due: the jobs that are due, earliest first, at most limit.
Listed(limit) ==
    LET due == {j \in DOMAIN file : IsDue(file[j], now)}
        order == InOrder(due, LAMBDA i, j :
                     file[i].next < file[j].next \/ (file[i].next = file[j].next /\ i < j))
    IN SubSeq(order, 1, Min({Len(order), limit}))

\* Mutant: every due job is listed.
BeginTickAll ==
    /\ tick.pc = "idle"
    /\ Readable
    /\ Listed(MaxDuePerTick) # <<>>
    /\ tick' = [tick EXCEPT !.pc = "claim", !.now = now, !.due = Listed(MaxJobs)]
    /\ UNCHANGED <<now, file, created, events, claims>>

BeginTick ==
    /\ tick.pc = "idle"
    /\ Readable
    /\ Listed(MaxDuePerTick) # <<>>
    /\ tick' = [tick EXCEPT !.pc = "claim", !.now = now, !.due = Listed(MaxDuePerTick)]
    /\ UNCHANGED <<now, file, created, events, claims>>

\* Mutant: the next run may be the tick's own time.
NextRunNotBefore(next, minutes, at) ==
    CHOOSE t \in next..(next + at + minutes) :
        /\ t >= at
        /\ (t - next) % minutes = 0
        /\ \A u \in next..(t - 1) : u >= at => (u - next) % minutes # 0

\* The first time of the schedule after the tick's.
NextRun(next, minutes, at) ==
    CHOOSE t \in next..(next + at + minutes) :
        /\ t > at
        /\ (t - next) % minutes = 0
        /\ \A u \in next..(t - 1) : u > at => (u - next) % minutes # 0

\* What a claim makes of a job.
Claimed(job, at) ==
    LET counted == [job EXCEPT !.completed = @ + 1] IN
    IF job.schedule.kind = "in" THEN [job EXCEPT !.enabled = FALSE, !.next = 0]
    ELSE IF job.times > 0 /\ counted.completed >= job.times
    THEN [counted EXCEPT !.enabled = FALSE, !.next = 0]
    ELSE [counted EXCEPT !.next = NextRun(@, job.schedule.minutes, at)]

\* claim: a job changed since due read it, or a file that cannot be read, is
\* passed over.
Claim ==
    LET j == Head(tick.due) IN
    /\ tick.pc = "claim"
    /\ tick.due # <<>>
    /\ IF Readable /\ j \in DOMAIN file /\ IsDue(file[j], tick.now)
       THEN /\ Write(j, Claimed(file[j], tick.now))
            /\ claims' = [claims EXCEPT ![j] = Append(@, [due |-> file[j].next, at |-> tick.now])]
            /\ tick' = [tick EXCEPT !.pc = "run", !.due = Tail(@), !.job = j]
       ELSE /\ tick' = [tick EXCEPT !.due = Tail(@)]
            /\ UNCHANGED <<file, claims>>
    /\ UNCHANGED <<now, created, events>>

\* mark; a job removed meanwhile is left alone.
Mark(status) ==
    IF Readable /\ tick.job \in DOMAIN file
    THEN Write(tick.job, [file[tick.job] EXCEPT !.last = now, !.status = status])
    ELSE UNCHANGED file

\* The handler returns, with an error or with a text to deliver, if its
\* success could be stored, or with none.
RunReturns ==
    /\ tick.pc = "run"
    /\ \/ Mark("error") /\ tick' = [tick EXCEPT !.pc = "claim", !.job = 0]
       \/ Mark("ok") /\ tick' = [tick EXCEPT !.pc = "claim", !.job = 0]
       \/ Readable /\ Mark("ok") /\ tick' = [tick EXCEPT !.pc = "deliver"]
    /\ UNCHANGED <<now, created, events, claims>>

DeliveryReturns ==
    /\ tick.pc = "deliver"
    /\ \/ UNCHANGED file
       \/ Mark("error")
    /\ tick' = [tick EXCEPT !.pc = "claim", !.job = 0]
    /\ UNCHANGED <<now, created, events, claims>>

EndTick ==
    /\ tick.pc = "claim"
    /\ tick.due = <<>>
    /\ tick' = NoTick
    /\ UNCHANGED <<now, file, created, events, claims>>

\* The scheduler is stopped, or the process dies, at any point of a tick.
Crash ==
    /\ tick.pc # "idle"
    /\ events < MaxEvents
    /\ events' = events + 1
    /\ tick' = NoTick
    /\ UNCHANGED <<now, file, created, claims>>

\* The file cannot be replaced: the job is not claimed, or its outcome not
\* stored and its text not delivered, and the tick goes on.
StoreFails ==
    /\ tick.pc \in {"claim", "run"}
    /\ tick.pc = "claim" => tick.due # <<>>
    /\ events < MaxEvents
    /\ events' = events + 1
    /\ tick' = IF tick.pc = "claim" THEN [tick EXCEPT !.due = Tail(@)]
               ELSE [tick EXCEPT !.pc = "claim", !.job = 0]
    /\ UNCHANGED <<now, file, created, claims>>

Clock ==
    /\ now < MaxTime
    /\ now' = now + 1
    /\ UNCHANGED <<file, tick, created, events, claims>>

Tick == BeginTick \/ Claim \/ RunReturns \/ DeliveryReturns \/ EndTick

Next ==
    \/ Tick \/ Crash \/ StoreFails \/ Clock
    \/ \E j \in Jobs, schedule \in Schedules, times \in Repeats : Create(j, schedule, times)
    \/ \E j \in DOMAIN file : RemoveJob(j) \/ \E option \in Options : Edit(j, option)
    \/ \E cutoff \in 1..now : PruneCompleted(cutoff)

\* The scheduler keeps ticking, the handler and the delivery return (their
\* contexts carry JobTimeout).
Spec == Init /\ [][Next]_cronVars /\ WF_cronVars(Tick)
-----------------------------------------------------------------------------
(* Properties *)

TypeOK ==
    /\ now \in 1..MaxTime
    /\ DOMAIN file \subseteq created
    /\ \A j \in DOMAIN file :
         /\ file[j].schedule \in Schedules
         /\ file[j].enabled \in BOOLEAN
         /\ file[j].last \in 1..now
         /\ file[j].status \in {"", "ok", "error"}
    /\ Len(tick.due) <= MaxDuePerTick
    /\ tick.pc \in {"run", "deliver"} => tick.job \in Jobs

\* An interval is run once at most, and a late tick does not run a job once
\* for every interval it missed: a job is claimed for a time that has come,
\* and for its next one only when that lies after the tick of the claim
\* before, across late ticks, edits, crashes and restarts (store.go claim).
IntervalOnce == \A j \in Jobs :
    /\ \A i \in 1..Len(claims[j]) : claims[j][i].due <= claims[j][i].at
    /\ \A i \in 1..(Len(claims[j]) - 1) : claims[j][i].at < claims[j][i + 1].due

\* The file the store writes is one it can read: a stored recurring job has
\* not completed more often than its cap (store.go validateStoredJob).
StoreReadable == Readable

Overdue(j) == j \in DOMAIN file /\ file[j].enabled /\ file[j].next \in 1..now

\* A job that is due is run, edited or removed in the end, however many jobs
\* are due with it (scheduler.go Tick, MaxDuePerTick).
DueRuns == \A j \in Jobs : Overdue(j) ~> ~Overdue(j)
=============================================================================
