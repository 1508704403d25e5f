----------------------------- MODULE CronProofs -----------------------------
(***************************************************************************)
(* Proofs about the cron scheduler, for any jobs, schedules and bounds: an *)
(* interval is run once at most, and the jobs file stays readable as long  *)
(* as no job is enabled again and no count passes its limit.               *)
(***************************************************************************)
EXTENDS Cron, WellFoundedInduction, TLAPS

\* Every set of naturals that is not empty has a least element.
LEMMA LeastTime ==
    ASSUME NEW S, S \subseteq Nat, S # {}
    PROVE  \E x \in S : \A y \in S : x <= y
<1>1. IsWellFoundedOn(OpToRel(<, Nat), Nat)
  BY NatLessThanWellFounded, Zenon
<1>2. PICK x \in S : \A y \in S : ~(<<y, x>> \in OpToRel(<, Nat))
  BY <1>1, WFMin, Zenon
<1>3. ASSUME NEW y \in S PROVE x <= y
  <2>1. ~(y < x)
    BY <1>2, Zenon DEF OpToRel
  <2> QED BY <2>1
<1> QED BY <1>3

\* One of m consecutive numbers is a multiple of m.
LEMMA SomeMultiple ==
    ASSUME NEW m \in Nat \ {0}, NEW d \in Nat
    PROVE  \E k \in 1..m : (d + k) % m = 0
<1>1. m - (d % m) \in 1..m
  OBVIOUS
<1>2. (d + (m - (d % m))) % m = 0
  OBVIOUS
<1> QED BY <1>1, <1>2

\* The next run of a job that is due lies after the tick.
LEMMA NextRunLater ==
    ASSUME NEW next \in Nat, NEW minutes \in Nat \ {0}, NEW at \in Nat, next <= at
    PROVE  NextRun(next, minutes, at) \in Nat /\ NextRun(next, minutes, at) > at
<1> DEFINE T == {t \in next..(next + at + minutes) : t > at /\ (t - next) % minutes = 0}
           First(t) == /\ t > at
                       /\ (t - next) % minutes = 0
                       /\ \A u \in next..(t - 1) : u > at => (u - next) % minutes # 0
<1>1. at - next \in Nat
  OBVIOUS
<1>2. PICK k \in 1..minutes : ((at - next) + k) % minutes = 0
  BY <1>1, SomeMultiple, Zenon
<1>3. at + k \in T
  <2>1. (at + k) - next = (at - next) + k
    BY <1>2
  <2>2. at + k \in next..(next + at + minutes) /\ at + k > at
    BY <1>2
  <2> QED BY <1>2, <2>1, <2>2
<1>4. T \subseteq Nat
  OBVIOUS
<1>5. PICK t \in T : \A y \in T : t <= y
  <2> HIDE DEF T
  <2> QED BY <1>3, <1>4, LeastTime, Zenon
<1>6. First(t)
  <2> SUFFICES ASSUME NEW u \in next..(t - 1), u > at, (u - next) % minutes = 0 PROVE FALSE
    BY SMTT(30)
  <2>1. u \in T
    OBVIOUS
  <2> QED BY <1>5, <2>1
<1>7. NextRun(next, minutes, at) = CHOOSE x \in next..(next + at + minutes) : First(x)
  BY DEF NextRun
<1>8. t \in next..(next + at + minutes)
  OBVIOUS
<1>9. NextRun(next, minutes, at) \in next..(next + at + minutes) /\ First(NextRun(next, minutes, at))
  <2> HIDE DEF First, T
  <2> QED BY <1>6, <1>7, <1>8
<1> QED BY <1>9
-----------------------------------------------------------------------------
Stored == [schedule : Schedules, times : Nat, completed : Nat, enabled : BOOLEAN,
           next : Nat, last : Nat, status : {"", "ok", "error"}]

\* A job with one field replaced; the other fields are as they were.
WithSchedule(job, x) == [job EXCEPT !.schedule = x]
WithTimes(job, x) == [job EXCEPT !.times = x]
WithCompleted(job, x) == [job EXCEPT !.completed = x]
WithEnabled(job, x) == [job EXCEPT !.enabled = x]
WithNext(job, x) == [job EXCEPT !.next = x]
WithLast(job, x) == [job EXCEPT !.last = x]
WithStatus(job, x) == [job EXCEPT !.status = x]

LEMMA ScheduleFacts ==
    ASSUME NEW job \in Stored, NEW x \in Schedules
    PROVE  /\ WithSchedule(job, x) \in Stored /\ WithSchedule(job, x).schedule = x
           /\ WithSchedule(job, x).times = job.times /\ WithSchedule(job, x).completed = job.completed
           /\ WithSchedule(job, x).enabled = job.enabled /\ WithSchedule(job, x).next = job.next
BY Zenon DEF Stored, WithSchedule

LEMMA TimesFacts ==
    ASSUME NEW job \in Stored, NEW x \in Nat
    PROVE  /\ WithTimes(job, x) \in Stored /\ WithTimes(job, x).times = x
           /\ WithTimes(job, x).schedule = job.schedule /\ WithTimes(job, x).completed = job.completed
           /\ WithTimes(job, x).enabled = job.enabled /\ WithTimes(job, x).next = job.next
BY Zenon DEF Stored, WithTimes

LEMMA CompletedFacts ==
    ASSUME NEW job \in Stored, NEW x \in Nat
    PROVE  /\ WithCompleted(job, x) \in Stored /\ WithCompleted(job, x).completed = x
           /\ WithCompleted(job, x).schedule = job.schedule /\ WithCompleted(job, x).times = job.times
           /\ WithCompleted(job, x).enabled = job.enabled /\ WithCompleted(job, x).next = job.next
BY Zenon DEF Stored, WithCompleted

LEMMA EnabledFacts ==
    ASSUME NEW job \in Stored, NEW x \in BOOLEAN
    PROVE  /\ WithEnabled(job, x) \in Stored /\ WithEnabled(job, x).enabled = x
           /\ WithEnabled(job, x).schedule = job.schedule /\ WithEnabled(job, x).times = job.times
           /\ WithEnabled(job, x).completed = job.completed /\ WithEnabled(job, x).next = job.next
BY Zenon DEF Stored, WithEnabled

LEMMA NextFacts ==
    ASSUME NEW job \in Stored, NEW x \in Nat
    PROVE  /\ WithNext(job, x) \in Stored /\ WithNext(job, x).next = x
           /\ WithNext(job, x).schedule = job.schedule /\ WithNext(job, x).times = job.times
           /\ WithNext(job, x).completed = job.completed /\ WithNext(job, x).enabled = job.enabled
BY Zenon DEF Stored, WithNext

LEMMA LastFacts ==
    ASSUME NEW job \in Stored, NEW x \in Nat
    PROVE  /\ WithLast(job, x) \in Stored /\ WithLast(job, x).last = x
           /\ WithLast(job, x).schedule = job.schedule /\ WithLast(job, x).times = job.times
           /\ WithLast(job, x).completed = job.completed /\ WithLast(job, x).enabled = job.enabled
           /\ WithLast(job, x).next = job.next
BY Zenon DEF Stored, WithLast

LEMMA StatusFacts ==
    ASSUME NEW job \in Stored, NEW x \in {"", "ok", "error"}
    PROVE  /\ WithStatus(job, x) \in Stored /\ WithStatus(job, x).status = x
           /\ WithStatus(job, x).schedule = job.schedule /\ WithStatus(job, x).times = job.times
           /\ WithStatus(job, x).completed = job.completed /\ WithStatus(job, x).enabled = job.enabled
           /\ WithStatus(job, x).next = job.next
BY Zenon DEF Stored, WithStatus

\* What a claim leaves of a job.
LEMMA ClaimedFacts ==
    ASSUME NEW job \in Stored, NEW at \in Nat, IsDue(job, at)
    PROVE  LET new == Claimed(job, at) IN
           /\ new \in Stored /\ new.times = job.times /\ new.schedule = job.schedule
           /\ new.next = 0 \/ new.next > at
           /\ new.enabled => new.next # 0 /\ (job.times > 0 => new.completed < job.times)
           /\ new.completed = IF job.schedule.kind = "in" THEN job.completed
                              ELSE job.completed + 1
<1> DEFINE counted == WithCompleted(job, job.completed + 1)
           later == NextRun(job.next, job.schedule.minutes, at)
<1>1. /\ job.schedule \in Schedules /\ job.times \in Nat /\ job.completed \in Nat
      /\ job.next \in Nat
  BY Zenon DEF Stored
<1>2. job.schedule.minutes \in Nat \ {0}
  BY <1>1, CronAssumption
<1>3. job.next <= at
  BY DEF IsDue
<1>4. later \in Nat /\ later > at
  BY <1>1, <1>2, <1>3, NextRunLater, Zenon
<1>5. /\ counted \in Stored /\ counted.completed = job.completed + 1
      /\ counted.times = job.times /\ counted.schedule = job.schedule /\ counted.next = job.next
  <2>1. job.completed + 1 \in Nat
    BY <1>1
  <2> QED BY <2>1, CompletedFacts, Zenon
<1>6. CASE job.schedule.kind = "in"
  <2>1. Claimed(job, at) = WithNext(WithEnabled(job, FALSE), 0)
    BY <1>6, Zenon DEF Claimed, WithNext, WithEnabled
  <2>2. /\ WithEnabled(job, FALSE) \in Stored /\ WithEnabled(job, FALSE).enabled = FALSE
        /\ WithEnabled(job, FALSE).times = job.times
        /\ WithEnabled(job, FALSE).schedule = job.schedule
        /\ WithEnabled(job, FALSE).completed = job.completed
    BY EnabledFacts, Zenon
  <2>0. 0 \in Nat
    OBVIOUS
  <2>i. /\ WithNext(WithEnabled(job, FALSE), 0) \in Stored /\ WithNext(WithEnabled(job, FALSE), 0).next = 0
        /\ WithNext(WithEnabled(job, FALSE), 0).times = WithEnabled(job, FALSE).times /\ WithNext(WithEnabled(job, FALSE), 0).schedule = WithEnabled(job, FALSE).schedule
        /\ WithNext(WithEnabled(job, FALSE), 0).completed = WithEnabled(job, FALSE).completed /\ WithNext(WithEnabled(job, FALSE), 0).enabled = WithEnabled(job, FALSE).enabled
    BY <2>0, <2>2, NextFacts, Zenon
  <2>3. /\ Claimed(job, at) \in Stored /\ Claimed(job, at).next = 0
        /\ Claimed(job, at).times = job.times /\ Claimed(job, at).schedule = job.schedule
        /\ Claimed(job, at).completed = job.completed /\ Claimed(job, at).enabled = FALSE
    BY <2>1, <2>2, <2>i, Zenon
  <2> QED BY <1>6, <2>3
<1>7. CASE job.schedule.kind # "in" /\ job.times > 0 /\ counted.completed >= job.times
  <2>1. Claimed(job, at) = WithNext(WithEnabled(counted, FALSE), 0)
    BY <1>7, Zenon DEF Claimed, WithNext, WithEnabled, WithCompleted
  <2> HIDE DEF counted
  <2>2. /\ WithEnabled(counted, FALSE) \in Stored /\ WithEnabled(counted, FALSE).enabled = FALSE
        /\ WithEnabled(counted, FALSE).times = job.times
        /\ WithEnabled(counted, FALSE).schedule = job.schedule
        /\ WithEnabled(counted, FALSE).completed = job.completed + 1
    BY <1>5, EnabledFacts, Zenon
  <2>0. 0 \in Nat
    OBVIOUS
  <2>i. /\ WithNext(WithEnabled(counted, FALSE), 0) \in Stored /\ WithNext(WithEnabled(counted, FALSE), 0).next = 0
        /\ WithNext(WithEnabled(counted, FALSE), 0).times = WithEnabled(counted, FALSE).times /\ WithNext(WithEnabled(counted, FALSE), 0).schedule = WithEnabled(counted, FALSE).schedule
        /\ WithNext(WithEnabled(counted, FALSE), 0).completed = WithEnabled(counted, FALSE).completed /\ WithNext(WithEnabled(counted, FALSE), 0).enabled = WithEnabled(counted, FALSE).enabled
    BY <2>0, <2>2, NextFacts, Zenon
  <2>3. /\ Claimed(job, at) \in Stored /\ Claimed(job, at).next = 0
        /\ Claimed(job, at).times = job.times /\ Claimed(job, at).schedule = job.schedule
        /\ Claimed(job, at).completed = job.completed + 1 /\ Claimed(job, at).enabled = FALSE
    BY <2>1, <2>2, <2>i, Zenon
  <2> QED BY <1>7, <2>3
<1>8. CASE job.schedule.kind # "in" /\ ~(job.times > 0 /\ counted.completed >= job.times)
  <2>1. counted.next = job.next
    BY <1>5
  <2>2. Claimed(job, at) = WithNext(counted, NextRun(counted.next, job.schedule.minutes, at))
    BY <1>8, Zenon DEF Claimed, WithNext, WithCompleted
  <2> HIDE DEF counted, later
  <2>3. Claimed(job, at) = WithNext(counted, later)
    BY <2>1, <2>2 DEF later
  <2>4. job.times > 0 => job.completed + 1 < job.times
    BY <1>1, <1>5, <1>8
  <2>i. /\ WithNext(counted, later) \in Stored /\ WithNext(counted, later).next = later
        /\ WithNext(counted, later).times = counted.times /\ WithNext(counted, later).schedule = counted.schedule
        /\ WithNext(counted, later).completed = counted.completed /\ WithNext(counted, later).enabled = counted.enabled
    BY <1>4, <1>5, NextFacts, Zenon
  <2>5. /\ Claimed(job, at) \in Stored /\ Claimed(job, at).next = later
        /\ Claimed(job, at).times = job.times /\ Claimed(job, at).schedule = job.schedule
        /\ Claimed(job, at).completed = job.completed + 1
    BY <1>5, <2>3, <2>i
  <2>6. later # 0
    BY <1>4
  <2> QED BY <1>4, <1>8, <2>4, <2>5, <2>6
<1> QED BY <1>6, <1>7, <1>8
-----------------------------------------------------------------------------
\* The time of the tick that claimed a job last.
LastAt(j) == IF claims[j] = <<>> THEN 0 ELSE claims[j][Len(claims[j])].at

Claims == Seq([due : Nat, at : Nat])

TickShape ==
    /\ DOMAIN tick = {"pc", "now", "due", "job"}
    /\ tick.now \in Nat /\ tick.now <= now

\* A stored job runs next after the tick that claimed it last.
JobAhead(j) == file[j] \in Stored /\ (file[j].next # 0 => LastAt(j) < file[j].next)

\* The inductive invariant for IntervalOnce.
CronInv ==
    /\ now \in Nat
    /\ TickShape
    /\ DOMAIN file \subseteq Jobs
    /\ claims \in [Jobs -> Claims]
    /\ \A j \in Jobs : LastAt(j) <= now
    /\ \A j \in DOMAIN file : JobAhead(j)
    /\ IntervalOnce

\* The last element of a sequence.
LEMMA LastElement ==
    ASSUME NEW S, NEW s \in Seq(S), s # <<>>
    PROVE  Len(s) \in 1..Len(s) /\ s[Len(s)] \in S
OBVIOUS

\* LastAt is a time.
LEMMA LastAtNat ==
    ASSUME CronInv, NEW j \in Jobs
    PROVE  LastAt(j) \in Nat
<1>1. claims[j] \in Seq([due : Nat, at : Nat])
  BY DEF CronInv, Claims
<1>2. CASE claims[j] = <<>>
  BY <1>2 DEF LastAt
<1>3. CASE claims[j] # <<>>
  <2>2. claims[j][Len(claims[j])] \in [due : Nat, at : Nat]
    BY <1>1, <1>3, LastElement, Zenon
  <2> QED BY <1>3, <2>2 DEF LastAt
<1> QED BY <1>2, <1>3

\* A step that leaves the claims alone keeps the invariant if the jobs it
\* writes run after their last claim.
LEMMA WriteKeeps ==
    ASSUME CronInv, claims' = claims, now' \in Nat, now <= now', TickShape',
           DOMAIN file' \subseteq Jobs, \A j \in DOMAIN file' : JobAhead(j)'
    PROVE  CronInv'
<1>1. \A j \in Jobs : LastAt(j)' = LastAt(j)
  BY DEF LastAt
<1>2. \A j \in Jobs : LastAt(j)' <= now'
  <2>1. \A j \in Jobs : LastAt(j) \in Nat /\ LastAt(j) <= now
    BY LastAtNat DEF CronInv
  <2>2. now \in Nat
    BY DEF CronInv
  <2> QED BY <1>1, <2>1, <2>2
<1>3. IntervalOnce'
  BY DEF CronInv, IntervalOnce
<1> QED BY <1>2, <1>3 DEF CronInv

\* Write replaces one job.
LEMMA WriteFacts ==
    ASSUME NEW j, NEW job, Write(j, job)
    PROVE  /\ DOMAIN file' = DOMAIN file \cup {j} /\ file'[j] = job
           /\ \A i \in DOMAIN file \ {j} : file'[i] = file[i]
BY Zenon DEF Write

\* Claims that stay and a job that is written with a next run after the last
\* claim.
LEMMA WriteOne ==
    ASSUME CronInv, NEW j \in Jobs, NEW job \in Stored, job.next # 0 => LastAt(j) < job.next,
           Write(j, job), claims' = claims
    PROVE  DOMAIN file' \subseteq Jobs /\ \A i \in DOMAIN file' : JobAhead(i)'
<1>1. \A i \in Jobs : LastAt(i)' = LastAt(i)
  BY DEF LastAt
<1>2. /\ DOMAIN file' = DOMAIN file \cup {j} /\ file'[j] = job
      /\ \A i \in DOMAIN file \ {j} : file'[i] = file[i]
  BY WriteFacts, Zenon
<1>3. DOMAIN file \subseteq Jobs /\ \A i \in DOMAIN file : JobAhead(i)
  BY DEF CronInv
<1>4. JobAhead(j)'
  BY <1>1, <1>2 DEF JobAhead
<1>5. ASSUME NEW i \in DOMAIN file \ {j} PROVE JobAhead(i)'
  <2>1. i \in Jobs /\ JobAhead(i) /\ file'[i] = file[i] /\ LastAt(i)' = LastAt(i)
    BY <1>1, <1>2, <1>3
  <2> QED BY <2>1 DEF JobAhead
<1> QED BY <1>2, <1>3, <1>4, <1>5, Zenon

\* What an edit leaves of a job.
LEMMA EditedFacts ==
    ASSUME CronInv, NEW j \in DOMAIN file, NEW option \in Options
    PROVE  LET job == file[j]
               new == Edited(job, option)
           IN /\ new \in Stored
              /\ new.next # 0 => LastAt(j) < new.next
              /\ new.completed = 0 \/ (new.completed = job.completed /\ new.times = job.times)
              /\ new.enabled => job.enabled \/ TRUE \in Enables
              /\ new.enabled /\ (job.enabled => job.next # 0) => new.next # 0
<1> DEFINE job == file[j]
           new == Edited(job, option)
<1>1. job \in Stored /\ (job.next # 0 => LastAt(j) < job.next) /\ j \in Jobs
  BY DEF CronInv, JobAhead
<1>2. LastAt(j) \in Nat /\ LastAt(j) <= now /\ now \in Nat
  BY <1>1, LastAtNat DEF CronInv
<1>3. \A s \in Schedules : s.minutes \in Nat \ {0}
  BY CronAssumption
<1>4. job.schedule \in Schedules /\ job.next \in Nat
  BY <1>1, Zenon DEF Stored
<1> HIDE DEF job
<1>5. CASE option.field = "schedule"
  <2> DEFINE moved == WithSchedule(job, option.value)
             run == now + option.value.minutes
  <2>1. option.value \in Schedules
    BY <1>5, Zenon DEF Options
  <2>2. /\ moved \in Stored /\ moved.completed = job.completed /\ moved.times = job.times
        /\ moved.enabled = job.enabled
    BY <1>1, <2>1, ScheduleFacts, Zenon
  <2>3. run \in Nat /\ LastAt(j) < run /\ run # 0
    BY <1>2, <1>3, <2>1
  <2>4. new = WithNext(moved, run)
    BY <1>5, Zenon DEF Edited, WithNext, WithSchedule
  <2> HIDE DEF moved, run, new
  <2>5. /\ WithNext(moved, run) \in Stored /\ WithNext(moved, run).next = run
        /\ WithNext(moved, run).completed = moved.completed
        /\ WithNext(moved, run).times = moved.times
        /\ WithNext(moved, run).enabled = moved.enabled
    BY <2>2, <2>3, NextFacts, Zenon
  <2>6. /\ new \in Stored /\ new.next = run /\ new.completed = job.completed
        /\ new.times = job.times /\ new.enabled = job.enabled
    BY <2>2, <2>4, <2>5
  <2> QED BY <2>3, <2>6, Zenon DEF job, new
<1>6. CASE option.field = "enabled"
  <2>1. option.value \in Enables /\ option.value \in BOOLEAN
    BY <1>6, CronAssumption, Zenon DEF Options
  <2> DEFINE run == IF option.value /\ job.next = 0 THEN now + job.schedule.minutes ELSE job.next
             switched == WithEnabled(job, option.value)
  <2>2. /\ switched \in Stored /\ switched.next = job.next /\ switched.enabled = option.value
        /\ switched.completed = job.completed /\ switched.times = job.times
    BY <1>1, <2>1, EnabledFacts, Zenon
  <2>3. run \in Nat /\ (run # 0 => LastAt(j) < run) /\ (option.value => run # 0)
    <3>1. job.schedule.minutes \in Nat \ {0}
      BY <1>3, <1>4
    <3>2. CASE option.value /\ job.next = 0
      BY <1>2, <3>1, <3>2
    <3>3. CASE ~(option.value /\ job.next = 0)
      BY <1>1, <1>4, <3>3
    <3> QED BY <3>2, <3>3
  <2>4. new = WithNext(switched, run)
    BY <1>6, <2>2, Zenon DEF Edited, WithNext, WithEnabled
  <2> HIDE DEF run, switched, new
  <2>5. /\ WithNext(switched, run) \in Stored /\ WithNext(switched, run).next = run
        /\ WithNext(switched, run).completed = switched.completed
        /\ WithNext(switched, run).times = switched.times
        /\ WithNext(switched, run).enabled = switched.enabled
    BY <2>2, <2>3, NextFacts, Zenon
  <2>6. /\ new \in Stored /\ new.next = run /\ new.completed = job.completed
        /\ new.times = job.times /\ new.enabled = option.value
    BY <2>2, <2>4, <2>5
  <2>7. new.enabled => TRUE \in Enables /\ run # 0
    BY <2>1, <2>3, <2>6, Zenon
  <2> QED BY <2>3, <2>6, <2>7, Zenon DEF job, new
<1>7. CASE option.field = "repeat"
  <2> DEFINE capped == WithTimes(job, option.value)
  <2>1. option.value \in Nat /\ 0 \in Nat
    <3>1. option.value \in Repeats
      BY <1>7, Zenon DEF Options
    <3> QED BY <3>1, CronAssumption, Zenon
  <2>2. new = WithCompleted(capped, 0)
    BY <1>7, Zenon DEF Edited, WithCompleted, WithTimes
  <2>3. capped \in Stored /\ capped.next = job.next /\ capped.enabled = job.enabled
    BY <1>1, <2>1, TimesFacts, Zenon
  <2> HIDE DEF capped, new
  <2>4. /\ WithCompleted(capped, 0) \in Stored /\ WithCompleted(capped, 0).completed = 0
        /\ WithCompleted(capped, 0).next = capped.next
        /\ WithCompleted(capped, 0).enabled = capped.enabled
    BY <2>1, <2>3, CompletedFacts, Zenon
  <2>5. /\ new \in Stored /\ new.next = job.next /\ new.completed = 0
        /\ new.enabled = job.enabled
    BY <2>2, <2>3, <2>4
  <2> QED BY <1>1, <2>5, Zenon DEF job, new
<1>8. option.field \in {"schedule", "enabled", "repeat"}
  BY Zenon DEF Options
<1> QED BY <1>5, <1>6, <1>7, <1>8, Zenon
\* Two jobs that differ in what the last run left only.
SameJob(a, b) ==
    /\ a.schedule = b.schedule /\ a.times = b.times /\ a.completed = b.completed
    /\ a.enabled = b.enabled /\ a.next = b.next

\* mark changes the last time and the status of one job.
LEMMA MarkFacts ==
    ASSUME CronInv, NEW status \in {"", "ok", "error"}, Mark(status)
    PROVE  /\ DOMAIN file' = DOMAIN file
           /\ \A i \in DOMAIN file : file'[i] \in Stored /\ SameJob(file'[i], file[i])
<1>1. now \in Nat /\ \A i \in DOMAIN file : file[i] \in Stored
  BY Zenon DEF CronInv, JobAhead
<1>2. CASE Readable /\ tick.job \in DOMAIN file
  <2> DEFINE job == file[tick.job]
             dated == WithLast(job, now)
  <2>1. Write(tick.job, WithStatus(dated, status))
    BY <1>2, Zenon DEF Mark, WithStatus, WithLast
  <2>2. dated \in Stored /\ SameJob(dated, job)
    BY <1>1, <1>2, LastFacts, Zenon DEF SameJob
  <2> HIDE DEF dated, job
  <2>3. WithStatus(dated, status) \in Stored /\ SameJob(WithStatus(dated, status), dated)
    BY <2>2, StatusFacts, Zenon DEF SameJob
  <2>4. SameJob(WithStatus(dated, status), job)
    BY <2>2, <2>3, Zenon DEF SameJob
  <2>5. /\ DOMAIN file' = DOMAIN file \cup {tick.job}
        /\ file'[tick.job] = WithStatus(dated, status)
        /\ \A i \in DOMAIN file \ {tick.job} : file'[i] = file[i]
    BY <2>1, WriteFacts, Zenon
  <2>6. DOMAIN file' = DOMAIN file
    BY <1>2, <2>5, Zenon
  <2>7. ASSUME NEW i \in DOMAIN file
        PROVE  file'[i] \in Stored /\ SameJob(file'[i], file[i])
    <3>1. CASE i = tick.job
      BY <2>3, <2>4, <2>5, <3>1, Zenon DEF job
    <3>2. CASE i # tick.job
      BY <1>1, <2>5, <3>2, Zenon DEF SameJob
    <3> QED BY <3>1, <3>2, Zenon
  <2> QED BY <2>6, <2>7, Zenon
<1>3. CASE ~(Readable /\ tick.job \in DOMAIN file)
  BY <1>1, <1>3, Zenon DEF Mark, SameJob
<1> QED BY <1>2, <1>3, Zenon

LEMMA SameAhead ==
    ASSUME CronInv, claims' = claims, DOMAIN file' = DOMAIN file,
           \A i \in DOMAIN file : file'[i] \in Stored /\ SameJob(file'[i], file[i])
    PROVE  DOMAIN file' \subseteq Jobs /\ \A i \in DOMAIN file' : JobAhead(i)'
<1>1. \A i \in DOMAIN file : JobAhead(i) /\ LastAt(i)' = LastAt(i)
  BY DEF CronInv, LastAt
<1> QED BY <1>1 DEF CronInv, JobAhead, SameJob

\* A step of a tick: only its begin sets the tick's time, to the clock's.
TickMoves ==
    \/ tick' = NoTick
    \/ tick' = tick
    \/ \E due : tick' = [tick EXCEPT !.due = due]
    \/ \E pc : tick' = [tick EXCEPT !.pc = pc]
    \/ \E pc, job : tick' = [tick EXCEPT !.pc = pc, !.job = job]
    \/ \E pc, due, job : tick' = [tick EXCEPT !.pc = pc, !.due = due, !.job = job]
    \/ \E pc, due : tick' = [tick EXCEPT !.pc = pc, !.now = now, !.due = due]

LEMMA TickKeeps ==
    ASSUME CronInv, now' \in Nat, now <= now', TickMoves
    PROVE  TickShape'
<1>1. /\ DOMAIN tick = {"pc", "now", "due", "job"}
      /\ tick.now \in Nat /\ tick.now <= now /\ now \in Nat
  BY DEF CronInv, TickShape
<1>2. CASE tick' = NoTick
  BY <1>1, <1>2 DEF NoTick, TickShape
<1>3. CASE tick' # NoTick
  <2>1. DOMAIN tick' = DOMAIN tick /\ (tick'.now = tick.now \/ tick'.now = now)
    BY <1>1, <1>3, Zenon DEF TickMoves
  <2>2. DOMAIN tick' = {"pc", "now", "due", "job"}
    BY <1>1, <2>1, Zenon
  <2>3. tick'.now \in Nat /\ tick'.now <= now'
    BY <1>1, <2>1
  <2> QED BY <2>2, <2>3, ZenonT(30) DEF TickShape
<1> QED BY <1>2, <1>3

\* A claim of a job that is due lies after the one before.
LEMMA ClaimStep ==
    ASSUME CronInv, NEW j \in DOMAIN file, IsDue(file[j], tick.now),
           Write(j, Claimed(file[j], tick.now)),
           claims' = [claims EXCEPT ![j] = Append(@, [due |-> file[j].next, at |-> tick.now])],
           now' = now, TickShape'
    PROVE  CronInv' /\ LastAt(j)' = tick.now /\ \A i \in Jobs \ {j} : LastAt(i)' = LastAt(i)
<1> DEFINE job == file[j]
           entry == [due |-> job.next, at |-> tick.now]
           old == claims[j]
<1>1. /\ job \in Stored /\ (job.next # 0 => LastAt(j) < job.next) /\ j \in Jobs
      /\ tick.now \in Nat /\ tick.now <= now /\ now \in Nat
  BY DEF CronInv, JobAhead, TickShape
<1>2. job.next \in Nat /\ job.next # 0 /\ job.next <= tick.now
  BY <1>1, Zenon DEF Stored, IsDue
<1>3. entry \in [due : Nat, at : Nat] /\ entry.due = job.next /\ entry.at = tick.now
  BY <1>1, <1>2
<1>4. old \in Seq([due : Nat, at : Nat])
  BY <1>1 DEF CronInv, Claims
<1>5. claims' = [claims EXCEPT ![j] = Append(old, entry)]
  OBVIOUS
<1>6. LastAt(j) = IF old = <<>> THEN 0 ELSE old[Len(old)].at
  BY DEF LastAt
<1>7. /\ \A i \in 1..Len(old) : old[i].due <= old[i].at
      /\ \A i \in 1..(Len(old) - 1) : old[i].at < old[i + 1].due
  BY <1>1 DEF CronInv, IntervalOnce
<1> HIDE DEF entry, old
<1>8. /\ Append(old, entry) \in Seq([due : Nat, at : Nat]) /\ Append(old, entry) # <<>>
      /\ Len(Append(old, entry)) = Len(old) + 1 /\ Len(old) \in Nat
      /\ \A i \in 1..Len(old) : Append(old, entry)[i] = old[i]
      /\ Append(old, entry)[Len(old) + 1] = entry
  BY <1>3, <1>4
<1>9. claims \in [Jobs -> Seq([due : Nat, at : Nat])]
  BY DEF CronInv, Claims
<1>10. /\ claims' \in [Jobs -> Seq([due : Nat, at : Nat])] /\ claims'[j] = Append(old, entry)
       /\ \A i \in Jobs \ {j} : claims'[i] = claims[i]
  BY <1>1, <1>5, <1>8, <1>9
<1>11. LastAt(j)' = tick.now /\ \A i \in Jobs \ {j} : LastAt(i)' = LastAt(i)
  BY <1>3, <1>8, <1>10 DEF LastAt
<1>12. IntervalOnce'
  <2>1. ASSUME NEW i \in 1..(Len(old) + 1)
        PROVE  Append(old, entry)[i].due <= Append(old, entry)[i].at
    <3>1. CASE i = Len(old) + 1
      BY <1>2, <1>3, <1>8, <3>1
    <3>2. CASE i # Len(old) + 1
      <4>1. i \in 1..Len(old)
        BY <1>8, <3>2
      <4> QED BY <1>7, <1>8, <4>1
    <3> QED BY <3>1, <3>2
  <2>2. ASSUME NEW i \in 1..Len(old)
        PROVE  Append(old, entry)[i].at < Append(old, entry)[i + 1].due
    <3>1. CASE i = Len(old)
      <4>1. old # <<>>
        BY <3>1
      <4>2. LastAt(j) = old[i].at
        BY <1>6, <3>1, <4>1
      <4> QED BY <1>1, <1>2, <1>3, <1>8, <3>1, <4>2
    <3>2. CASE i # Len(old)
      <4>1. i \in 1..(Len(old) - 1) /\ i + 1 \in 1..Len(old)
        BY <1>8, <3>2, SMTT(30)
      <4> QED BY <1>7, <1>8, <4>1
    <3> QED BY <3>1, <3>2
  <2>3. ASSUME NEW k \in Jobs \ {j}
        PROVE  /\ \A i \in 1..Len(claims'[k]) : claims'[k][i].due <= claims'[k][i].at
               /\ \A i \in 1..(Len(claims'[k]) - 1) : claims'[k][i].at < claims'[k][i + 1].due
    <3>1. claims'[k] = claims[k]
      BY <1>10
    <3> QED BY <3>1 DEF CronInv, IntervalOnce
  <2>4. /\ \A i \in 1..Len(claims'[j]) : claims'[j][i].due <= claims'[j][i].at
        /\ \A i \in 1..(Len(claims'[j]) - 1) : claims'[j][i].at < claims'[j][i + 1].due
    <3>1. Len(claims'[j]) = Len(old) + 1 /\ Len(claims'[j]) - 1 = Len(old)
      BY <1>8, <1>10
    <3> QED BY <1>10, <2>1, <2>2, <3>1, Zenon
  <2> QED BY <2>3, <2>4 DEF IntervalOnce
<1>13. /\ Claimed(job, tick.now) \in Stored
       /\ Claimed(job, tick.now).next = 0 \/ Claimed(job, tick.now).next > tick.now
  BY <1>1, ClaimedFacts
<1>14. /\ DOMAIN file' = DOMAIN file \cup {j} /\ file'[j] = Claimed(job, tick.now)
       /\ \A i \in DOMAIN file \ {j} : file'[i] = file[i]
  BY WriteFacts, Zenon
<1>15. DOMAIN file \subseteq Jobs /\ \A i \in DOMAIN file : JobAhead(i)
  BY DEF CronInv
<1>16. \A i \in DOMAIN file' : JobAhead(i)'
  <2>1. JobAhead(j)'
    <3>1. Claimed(job, tick.now).next # 0 => tick.now < Claimed(job, tick.now).next
      <4>1. Claimed(job, tick.now).next \in Nat
        BY <1>13, Zenon DEF Stored
      <4> QED BY <1>1, <1>13, <4>1
    <3> QED BY <1>11, <1>13, <1>14, <3>1 DEF JobAhead
  <2>2. ASSUME NEW i \in DOMAIN file \ {j} PROVE JobAhead(i)'
    BY <1>11, <1>14, <1>15 DEF JobAhead
  <2> QED BY <1>14, <2>1, <2>2
<1>17. \A i \in Jobs : LastAt(i)' <= now'
  BY <1>1, <1>11 DEF CronInv
<1> QED BY <1>1, <1>10, <1>11, <1>12, <1>14, <1>15, <1>16, <1>17 DEF CronInv, Claims
-----------------------------------------------------------------------------
\* What a step does to the file, the claims and the clock.
JobsSame ==
    /\ DOMAIN file' = DOMAIN file
    /\ \A i \in DOMAIN file : file'[i] \in Stored /\ SameJob(file'[i], file[i])

JobsGo == DOMAIN file' \subseteq DOMAIN file /\ \A i \in DOMAIN file' : file'[i] = file[i]

Creates(j, job) ==
    /\ job \in Stored /\ job.completed = 0 /\ job.next # 0 /\ job.next > now
    /\ ValidInput(job.schedule, job.times)
    /\ Write(j, job)

Edits(j, option) == ValidInput(Edited(file[j], option).schedule, Edited(file[j], option).times)
                    /\ Write(j, Edited(file[j], option))

ClaimsJob(j) ==
    /\ IsDue(file[j], tick.now)
    /\ Write(j, Claimed(file[j], tick.now))
    /\ claims' = [claims EXCEPT ![j] = Append(@, [due |-> file[j].next, at |-> tick.now])]

\* Every step is of one of these forms.
LEMMA StepForms ==
    ASSUME CronInv, [Next]_cronVars
    PROVE  /\ TickMoves
           /\ now' = now \/ (now < MaxTime /\ now' = now + 1 /\ file' = file)
           /\ \/ claims' = claims /\ (JobsSame \/ JobsGo)
              \/ claims' = claims /\ now' = now /\ \E j \in Jobs, job \in Stored : Creates(j, job)
              \/ claims' = claims /\ now' = now
                 /\ \E j \in DOMAIN file, option \in Options : Edits(j, option)
              \/ now' = now /\ \E j \in DOMAIN file : ClaimsJob(j)
<1>0. JobsGo \/ file' # file
  BY DEF JobsGo
<1>1. CASE BeginTick
  BY <1>0, <1>1, Zenon DEF BeginTick, TickMoves
<1>2. CASE Claim
  <2> DEFINE j == Head(tick.due)
  <2>1. now' = now
    BY <1>2, Zenon DEF Claim
  <2>2. CASE Readable /\ j \in DOMAIN file /\ IsDue(file[j], tick.now)
    <3>1. /\ ClaimsJob(j)
          /\ tick' = [tick EXCEPT !.pc = "run", !.due = Tail(tick.due), !.job = j]
      BY <1>2, <2>2, Zenon DEF Claim, ClaimsJob
    <3> HIDE DEF j
    <3>2. TickMoves
      BY <3>1, Zenon DEF TickMoves
    <3> QED BY <2>1, <2>2, <3>1, <3>2
  <2>3. CASE ~(Readable /\ j \in DOMAIN file /\ IsDue(file[j], tick.now))
    <3>1. tick' = [tick EXCEPT !.due = Tail(tick.due)] /\ file' = file /\ claims' = claims
      BY <1>2, <2>3, Zenon DEF Claim
    <3>2. TickMoves
      BY <3>1, Zenon DEF TickMoves
    <3> QED BY <1>0, <2>1, <3>1, <3>2
  <2> QED BY <2>2, <2>3
<1>3. CASE RunReturns
  <2>1. Mark("error") \/ Mark("ok")
    BY <1>3, Zenon DEF RunReturns
  <2>2. JobsSame
    BY <2>1, MarkFacts, Zenon DEF JobsSame
  <2>3. TickMoves /\ now' = now /\ claims' = claims
    BY <1>3, Zenon DEF RunReturns, TickMoves
  <2> QED BY <2>2, <2>3
<1>4. CASE DeliveryReturns
  <2>1. file' = file \/ Mark("error")
    BY <1>4, Zenon DEF DeliveryReturns
  <2>2. JobsSame \/ JobsGo
    BY <1>0, <2>1, MarkFacts, Zenon DEF JobsSame
  <2>3. TickMoves /\ now' = now /\ claims' = claims
    BY <1>4, Zenon DEF DeliveryReturns, TickMoves
  <2> QED BY <2>2, <2>3
<1>5. CASE EndTick \/ Crash
  BY <1>0, <1>5, Zenon DEF EndTick, Crash, TickMoves
<1>6. CASE StoreFails
  <2>1. now' = now /\ claims' = claims /\ file' = file
    BY <1>6, Zenon DEF StoreFails
  <2>2. TickMoves
    BY <1>6, Zenon DEF StoreFails, TickMoves
  <2> QED BY <1>0, <2>1, <2>2
<1>7. CASE Clock
  BY <1>0, <1>7, Zenon DEF Clock, TickMoves
<1>8. ASSUME NEW j \in Jobs, NEW schedule \in Schedules, NEW times \in Repeats,
             Create(j, schedule, times)
      PROVE  /\ TickMoves /\ now' = now /\ claims' = claims
             /\ \E job \in Stored : Creates(j, job)
  <2> DEFINE job == [schedule |-> schedule, times |-> times, completed |-> 0, enabled |-> TRUE,
                     next |-> now + schedule.minutes, last |-> now, status |-> ""]
  <2>1. /\ ValidInput(schedule, times) /\ Write(j, job) /\ tick' = tick
        /\ now' = now /\ claims' = claims
    BY <1>8, Zenon DEF Create
  <2>2. /\ now \in Nat /\ schedule.minutes \in Nat \ {0} /\ times \in Nat /\ 0 \in Nat
        /\ now + schedule.minutes \in Nat /\ now + schedule.minutes > now
        /\ now + schedule.minutes # 0
    <3>1. now \in Nat /\ schedule.minutes \in Nat \ {0} /\ times \in Nat
      BY CronAssumption DEF CronInv
    <3> QED BY <3>1
  <2>3. /\ job.schedule = schedule /\ job.times = times /\ job.completed = 0
        /\ job.next = now + schedule.minutes /\ job \in Stored
    BY <2>2, Zenon DEF Stored
  <2> HIDE DEF job
  <2>4. Creates(j, job)
    BY <2>1, <2>2, <2>3 DEF Creates
  <2>5. TickMoves
    BY <2>1, Zenon DEF TickMoves
  <2> QED BY <2>1, <2>3, <2>4, <2>5
<1>9. ASSUME NEW j \in DOMAIN file, RemoveJob(j)
      PROVE  TickMoves /\ now' = now /\ claims' = claims /\ JobsGo
  BY <1>9, Zenon DEF RemoveJob, JobsGo, TickMoves
<1>10. ASSUME NEW j \in DOMAIN file, NEW option \in Options, Edit(j, option)
       PROVE  TickMoves /\ now' = now /\ claims' = claims /\ Edits(j, option)
  BY <1>10, Zenon DEF Edit, Edits, TickMoves
<1>11. ASSUME NEW cutoff, PruneCompleted(cutoff)
       PROVE  TickMoves /\ now' = now /\ claims' = claims /\ JobsGo
  BY <1>11, Zenon DEF PruneCompleted, JobsGo, TickMoves
<1>12. CASE UNCHANGED cronVars
  BY <1>0, <1>12, Zenon DEF cronVars, TickMoves
<1> QED BY <1>1, <1>2, <1>3, <1>4, <1>5, <1>6, <1>7, <1>8, <1>9, <1>10, <1>11, <1>12 DEF Next, Tick

LEMMA InitCron == Init => CronInv
<1> SUFFICES ASSUME Init PROVE CronInv
  OBVIOUS
<1>1. /\ now = 1 /\ tick = NoTick /\ claims = [j \in Jobs |-> <<>>] /\ DOMAIN file = {}
  BY Zenon DEF Init
<1>2. TickShape
  BY <1>1 DEF TickShape, NoTick
<1>3. \A j \in Jobs : claims[j] = <<>>
  BY <1>1
<1>4. claims \in [Jobs -> Claims] /\ \A j \in Jobs : LastAt(j) <= now
  BY <1>1, <1>3 DEF Claims, LastAt
<1>5. IntervalOnce
  BY <1>3 DEF IntervalOnce
<1> QED BY <1>1, <1>2, <1>4, <1>5 DEF CronInv

LEMMA NextCron == CronInv /\ [Next]_cronVars => CronInv'
<1> SUFFICES ASSUME CronInv, [Next]_cronVars PROVE CronInv'
  OBVIOUS
<1>1. now \in Nat /\ now' \in Nat /\ now <= now'
  <2>1. now \in Nat
    BY DEF CronInv
  <2> QED BY <2>1, StepForms
<1>2. TickShape'
  BY <1>1, StepForms, TickKeeps
<1>3. CASE claims' = claims /\ JobsSame
  BY <1>1, <1>2, <1>3, SameAhead, WriteKeeps DEF JobsSame
<1>4. CASE claims' = claims /\ JobsGo
  <2>1. \A j \in DOMAIN file' : j \in Jobs /\ JobAhead(j) /\ file'[j] = file[j] /\ LastAt(j)' = LastAt(j)
    BY <1>4 DEF CronInv, JobsGo, LastAt
  <2>2. DOMAIN file' \subseteq Jobs /\ \A j \in DOMAIN file' : JobAhead(j)'
    BY <2>1 DEF JobAhead
  <2> QED BY <1>1, <1>2, <1>4, <2>2, WriteKeeps
<1>5. ASSUME claims' = claims, NEW j \in Jobs, NEW job \in Stored, Creates(j, job) PROVE CronInv'
  <2>1. LastAt(j) \in Nat /\ LastAt(j) <= now /\ job.next \in Nat
    BY LastAtNat, Zenon DEF CronInv, Stored
  <2>2. Write(j, job) /\ job.next > now
    BY <1>5 DEF Creates
  <2>3. LastAt(j) < job.next
    BY <1>1, <2>1, <2>2
  <2> QED BY <1>1, <1>2, <1>5, <2>2, <2>3, WriteOne, WriteKeeps
<1>6. ASSUME claims' = claims, NEW j \in DOMAIN file, NEW option \in Options, Edits(j, option)
      PROVE  CronInv'
  <2>1. j \in Jobs /\ Write(j, Edited(file[j], option))
    BY <1>6 DEF CronInv, Edits
  <2>2. /\ Edited(file[j], option) \in Stored
        /\ Edited(file[j], option).next # 0 => LastAt(j) < Edited(file[j], option).next
    BY EditedFacts, Zenon
  <2> QED BY <1>1, <1>2, <1>6, <2>1, <2>2, WriteOne, WriteKeeps
<1>7. ASSUME now' = now, NEW j \in DOMAIN file, ClaimsJob(j) PROVE CronInv'
  BY <1>2, <1>7, ClaimStep, Zenon DEF ClaimsJob
<1> QED BY <1>3, <1>4, <1>5, <1>6, <1>7, StepForms

\* However late ticks are, whatever is edited, removed or created between the
\* steps of a tick and wherever it crashes: a job is claimed for a time that
\* has come, and next for one after the tick of that claim (store.go claim).
THEOREM IntervalsOnce == Spec => []IntervalOnce
<1>1. CronInv => IntervalOnce
  BY DEF CronInv
<1> QED BY <1>1, InitCron, NextCron, PTL DEF Spec
-----------------------------------------------------------------------------
\* A job that can be read, has attempts left if it is enabled, and has been
\* claimed at a later time for each attempt it counts.
JobReadable(job, last) ==
    /\ ValidStored(job)
    /\ job.enabled /\ job.times > 0 => job.completed < job.times
    /\ job.completed <= last

ReadInv == now <= MaxCompleted /\ \A j \in DOMAIN file : JobReadable(file[j], LastAt(j))

LEMMA NextRead ==
    ASSUME TRUE \notin Enables, MaxTime <= MaxCompleted
    PROVE  CronInv /\ CronInv' /\ ReadInv /\ [Next]_cronVars => ReadInv'
<1> SUFFICES ASSUME CronInv, CronInv', ReadInv, [Next]_cronVars PROVE ReadInv'
  OBVIOUS
<1>1. now \in Nat /\ MaxTime \in Nat /\ MaxCompleted \in Nat
  BY CronAssumption DEF CronInv
<1>2. now' <= MaxCompleted
  <2>1. now' = now \/ (now < MaxTime /\ now' = now + 1)
    BY StepForms
  <2> QED BY <1>1, <2>1 DEF ReadInv
<1>3. \A j \in DOMAIN file : /\ file[j] \in Stored /\ j \in Jobs /\ JobReadable(file[j], LastAt(j))
                              /\ file[j].completed \in Nat /\ file[j].times \in Nat
  BY Zenon DEF CronInv, JobAhead, ReadInv, Stored
<1>4. ASSUME claims' = claims PROVE \A j : LastAt(j)' = LastAt(j)
  BY <1>4 DEF LastAt
<1>5. CASE claims' = claims /\ JobsSame
  <2>1. ASSUME NEW j \in DOMAIN file' PROVE JobReadable(file'[j], LastAt(j)')
    <3>1. j \in DOMAIN file /\ SameJob(file'[j], file[j])
      BY <1>5 DEF JobsSame
    <3>2. ValidStored(file'[j])
      BY <1>3, <3>1 DEF ValidStored, JobReadable, SameJob
    <3> QED BY <1>3, <1>4, <1>5, <3>1, <3>2 DEF JobReadable, SameJob
  <2> QED BY <1>2, <2>1 DEF ReadInv
<1>6. CASE claims' = claims /\ JobsGo
  BY <1>2, <1>3, <1>4, <1>6 DEF ReadInv, JobsGo, JobReadable
<1>7. ASSUME claims' = claims, NEW j \in Jobs, NEW job, Write(j, job), JobReadable(job, LastAt(j))
      PROVE  ReadInv'
  <2>1. /\ DOMAIN file' = DOMAIN file \cup {j} /\ file'[j] = job
        /\ \A i \in DOMAIN file \ {j} : file'[i] = file[i]
    BY <1>7, WriteFacts, Zenon
  <2>2. JobReadable(file'[j], LastAt(j)')
    BY <1>4, <1>7, <2>1 DEF JobReadable
  <2>3. ASSUME NEW i \in DOMAIN file \ {j} PROVE JobReadable(file'[i], LastAt(i)')
    BY <1>3, <1>4, <1>7, <2>1 DEF JobReadable
  <2> QED BY <1>2, <2>1, <2>2, <2>3 DEF ReadInv
<1>8. ASSUME claims' = claims, NEW j \in Jobs, NEW job \in Stored, Creates(j, job) PROVE ReadInv'
  <2>1. /\ job.completed = 0 /\ job.next # 0 /\ ValidInput(job.schedule, job.times) /\ Write(j, job)
    BY <1>8 DEF Creates
  <2>2. LastAt(j) \in Nat /\ job.times \in Nat
    BY LastAtNat, Zenon DEF Stored
  <2>3. ValidStored(job)
    BY <1>1, <2>1, <2>2 DEF ValidStored
  <2>4. JobReadable(job, LastAt(j))
    BY <2>1, <2>2, <2>3 DEF JobReadable
  <2> QED BY <1>7, <1>8, <2>1, <2>4
<1>9. ASSUME claims' = claims, NEW j \in DOMAIN file, NEW option \in Options, Edits(j, option)
      PROVE  ReadInv'
  <2> DEFINE job == file[j]
             new == Edited(job, option)
  <2>1. j \in Jobs /\ Write(j, new) /\ ValidInput(new.schedule, new.times)
    BY <1>3, <1>9 DEF Edits
  <2>2. /\ new \in Stored
        /\ new.completed = 0 \/ (new.completed = job.completed /\ new.times = job.times)
        /\ new.enabled => job.enabled
        /\ new.enabled /\ (job.enabled => job.next # 0) => new.next # 0
    BY EditedFacts, Zenon
  <2>3. new.times \in Nat /\ LastAt(j) \in Nat
    BY <2>1, <2>2, LastAtNat, Zenon DEF Stored
  <2>4. JobReadable(job, LastAt(j)) /\ job.completed \in Nat /\ job.times \in Nat
    BY <1>3
  <2> HIDE DEF new, job
  <2>5. ValidStored(new)
    BY <1>1, <2>1, <2>2, <2>3, <2>4 DEF ValidStored, JobReadable
  <2>6. JobReadable(new, LastAt(j))
    BY <2>2, <2>3, <2>4, <2>5 DEF JobReadable
  <2> QED BY <1>7, <1>9, <2>1, <2>6
<1>10. ASSUME now' = now, NEW j \in DOMAIN file, ClaimsJob(j) PROVE ReadInv'
  <2> DEFINE job == file[j]
             new == Claimed(job, tick.now)
  <2>1. /\ LastAt(j)' = tick.now /\ \A i \in Jobs \ {j} : LastAt(i)' = LastAt(i)
    <3>1. TickShape'
      BY DEF CronInv
    <3> QED BY <1>10, <3>1, ClaimStep, Zenon DEF ClaimsJob
  <2>2. /\ job \in Stored /\ j \in Jobs /\ tick.now \in Nat /\ tick.now <= now /\ IsDue(job, tick.now)
        /\ (job.next # 0 => LastAt(j) < job.next) /\ JobReadable(job, LastAt(j))
    BY <1>3, <1>10 DEF CronInv, JobAhead, TickShape, ClaimsJob
  <2>3. job.next \in Nat /\ job.next # 0 /\ job.next <= tick.now /\ LastAt(j) \in Nat
        /\ job.completed \in Nat /\ job.times \in Nat /\ job.enabled
    BY <2>2, LastAtNat, Zenon DEF Stored, IsDue
  <2>4. LastAt(j) + 1 <= tick.now
    BY <2>2, <2>3
  <2>5. /\ new \in Stored /\ new.times = job.times /\ new.schedule = job.schedule
        /\ new.enabled => new.next # 0 /\ (job.times > 0 => new.completed < job.times)
        /\ new.completed = IF job.schedule.kind = "in" THEN job.completed ELSE job.completed + 1
    BY <2>2, ClaimedFacts
  <2>6. /\ DOMAIN file' = DOMAIN file \cup {j} /\ file'[j] = new
        /\ \A i \in DOMAIN file \ {j} : file'[i] = file[i]
    BY <1>10, WriteFacts, Zenon DEF ClaimsJob
  <2> HIDE DEF new, job
  <2>7. new.completed \in Nat /\ new.completed <= tick.now
    BY <2>2, <2>3, <2>4, <2>5 DEF JobReadable
  <2>8. new.times > 0 => new.completed <= new.times
    BY <2>2, <2>3, <2>5 DEF JobReadable
  <2>9. ValidStored(new)
    <3>1. new.completed <= MaxCompleted
      BY <1>1, <2>2, <2>7 DEF ReadInv
    <3>2. ValidInput(new.schedule, new.times)
      BY <2>2, <2>5 DEF JobReadable, ValidStored
    <3> QED BY <2>5, <2>8, <3>1, <3>2 DEF ValidStored
  <2>10. JobReadable(file'[j], LastAt(j)')
    BY <2>1, <2>5, <2>6, <2>7, <2>9 DEF JobReadable
  <2>11. ASSUME NEW i \in DOMAIN file \ {j} PROVE JobReadable(file'[i], LastAt(i)')
    BY <1>3, <2>1, <2>6 DEF JobReadable
  <2> QED BY <1>2, <2>6, <2>10, <2>11 DEF ReadInv
<1> QED BY <1>5, <1>6, <1>8, <1>9, <1>10, StepForms

\* If no edit enables a job again and the clock ends before a count can reach
\* its limit, no method ever writes a file it cannot read: late ticks, new
\* caps, crashes and failures of the file system included (store.go claim,
\* validateStoredJob).  Without either condition the statement is false.
THEOREM FileReadable ==
    ASSUME TRUE \notin Enables, MaxTime <= MaxCompleted
    PROVE  Spec => []StoreReadable
<1>1. Init => ReadInv
  <2>1. MaxCompleted \in Nat \ {0}
    BY CronAssumption
  <2>2. Init => now = 1 /\ DOMAIN file = {}
    BY Zenon DEF Init
  <2> QED BY <2>1, <2>2 DEF ReadInv
<1>2. ReadInv => StoreReadable
  BY DEF ReadInv, JobReadable, StoreReadable, Readable
<1>3. CronInv /\ CronInv' /\ ReadInv /\ [Next]_cronVars => ReadInv'
  BY NextRead
<1> QED BY <1>1, <1>2, <1>3, InitCron, NextCron, PTL DEF Spec
=============================================================================
