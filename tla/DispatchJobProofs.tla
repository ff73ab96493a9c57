-------------------------- MODULE DispatchJobProofs --------------------------
(***************************************************************************)
(* Proofs about DispatchJob, for any number of jobs, platforms, replicas,  *)
(* slots, shutdowns and deaths, and any timeouts a run keeps within the    *)
(* age at which the sweepers give it up.  The inductive invariant ties the *)
(* age of a row to the timers of its run, and the semaphore to the calls.  *)
(***************************************************************************)
EXTENDS DispatchJob, FiniteSetTheorems, TLAPS

\* Where a run is tells its row, its shutdown and, before it runs, its dispatches.
Runs ==
  \A j \in Job :
    /\ Live(j) => home[j] \in Pod /\ j \in wg[home[j]] /\ phase[home[j]] # "closed"
    /\ pc[j] \in {"new", "starting"} => status[j] = "none"
    /\ pc[j] = "created" => status[j] = "queued" /\ age[j] = 0
    /\ pc[j] = "running" => status[j] \in Unfinished /\ age[j] <= QueueTimeout + CallTimeout
    /\ pc[j] \in {"new", "starting", "created"} =>
         \A p \in Platform : disp[j][p] = "waiting" /\ timer[j][p] = 0

\* A row is no older than the timers of the dispatches its run waits for.
Timers ==
  \A j \in Job : pc[j] = "running" => \A p \in Platform :
    /\ disp[j][p] = "waiting" => timer[j][p] <= QueueTimeout /\ age[j] <= timer[j][p]
    /\ disp[j][p] = "calling" => timer[j][p] <= CallTimeout /\ age[j] <= QueueTimeout + timer[j][p]

\* The calls in progress from a replica.
Calling(d, j, p) == home[j] = d /\ pc[j] = "running" /\ disp[j][p] = "calling"

Calls(d) == {r \in Job \X Platform : Calling(d, r[1], r[2])}

Held == \A d \in Pod : sem[d] = Cardinality(Calls(d))

Inv == TypeOK /\ Runs /\ Timers /\ Held

-----------------------------------------------------------------------------
(* Types. *)

Status == {"none", "pruned"} \cup Unfinished \cup Terminal
DispState == {"waiting", "calling"} \cup Settled
Timer == 0 .. QueueTimeout + CallTimeout
Phase == {"up", "draining", "cancelled", "closed", "forced", "down"}
Place == {"new", "starting", "created", "running", "over"}

LEMMA Domains ==
  ASSUME TypeOK
  PROVE  /\ status \in [Job -> Status] /\ age \in [Job -> 0 .. Cutoff + 1]
         /\ pc \in [Job -> Place] /\ home \in [Job -> Pod \cup {None}]
         /\ disp \in [Job -> [Platform -> DispState]] /\ timer \in [Job -> [Platform -> Timer]]
         /\ sem \in [Pod -> 0 .. Slots] /\ phase \in [Pod -> Phase] /\ wg \in [Pod -> SUBSET Job]
  BY DEF TypeOK, Status, DispState, Timer, Phase, Place

LEMMA Numbers ==
  /\ QueueTimeout \in Nat /\ CallTimeout \in Nat /\ Cutoff \in Nat /\ Slots \in Nat
  /\ QueueTimeout + CallTimeout \in Nat /\ QueueTimeout + CallTimeout <= Cutoff
  BY DispatchConstants

\* A dispatch of a run moves on, and the others of all runs stay.
LEMMA Moved ==
  ASSUME disp \in [Job -> [Platform -> DispState]], timer \in [Job -> [Platform -> Timer]],
         NEW j \in Job, NEW p \in Platform, NEW s \in DispState, Step(j, p, s)
  PROVE  /\ disp' \in [Job -> [Platform -> DispState]] /\ timer' \in [Job -> [Platform -> Timer]]
         /\ disp'[j][p] = s /\ timer'[j][p] = 0
         /\ \A i \in Job : i # j => disp'[i] = disp[i] /\ timer'[i] = timer[i]
         /\ \A q \in Platform : q # p => disp'[j][q] = disp[j][q] /\ timer'[j][q] = timer[j][q]
<1>1. 0 \in Timer
  BY Numbers DEF Timer
<1>2. disp' = [disp EXCEPT ![j][p] = s] /\ timer' = [timer EXCEPT ![j][p] = 0]
  BY DEF Step
<1> QED
  BY <1>1, <1>2

\* The statuses and the ages of rows, whoever writes them.
LEMMA RowWrites ==
  ASSUME TypeOK, NEW j \in Job, NEW s \in Status
  PROVE  /\ InsertRow(j) \/ UpdateJobStatus(j, s) \/ FailStuckJobs \/ UNCHANGED rows =>
              status' \in [Job -> Status] /\ age' \in [Job -> 0 .. Cutoff + 1]
         /\ InsertRow(j) \/ UpdateJobStatus(j, s) \/ UNCHANGED rows =>
              \A i \in Job : i # j => status'[i] = status[i] /\ age'[i] = age[i]
<1>1. status \in [Job -> Status] /\ age \in [Job -> 0 .. Cutoff + 1] /\ 0 \in 0 .. Cutoff + 1
  BY Domains, Numbers
<1>2. "queued" \in Status /\ "failed" \in Status
  BY DEF Status, Unfinished, Terminal
<1>3. ASSUME InsertRow(j)
      PROVE  /\ status' \in [Job -> Status] /\ age' \in [Job -> 0 .. Cutoff + 1]
             /\ \A i \in Job : i # j => status'[i] = status[i] /\ age'[i] = age[i]
  BY <1>1, <1>2, <1>3 DEF InsertRow
<1>4. ASSUME UNCHANGED rows
      PROVE  /\ status' \in [Job -> Status] /\ age' \in [Job -> 0 .. Cutoff + 1]
             /\ \A i \in Job : i # j => status'[i] = status[i] /\ age'[i] = age[i]
  BY <1>1, <1>4 DEF rows
<1>5. ASSUME UpdateJobStatus(j, s)
      PROVE  /\ status' \in [Job -> Status] /\ age' \in [Job -> 0 .. Cutoff + 1]
             /\ \A i \in Job : i # j => status'[i] = status[i] /\ age'[i] = age[i]
  BY <1>1, <1>4, <1>5 DEF UpdateJobStatus
<1>6. ASSUME FailStuckJobs PROVE status' \in [Job -> Status] /\ age' \in [Job -> 0 .. Cutoff + 1]
  BY <1>1, <1>2, <1>6 DEF FailStuckJobs
<1> QED
  BY <1>3, <1>4, <1>5, <1>6

\* A verdict is a terminal status.
LEMMA VerdictIsTerminal == \A results : Verdict(results) \in Terminal
  BY DEF Verdict, Terminal

-----------------------------------------------------------------------------
(* The runs. *)

\* What Runs and Timers say of a job.
RunOf(j) ==
  /\ Live(j) => home[j] \in Pod /\ j \in wg[home[j]] /\ phase[home[j]] # "closed"
  /\ pc[j] \in {"new", "starting"} => status[j] = "none"
  /\ pc[j] = "created" => status[j] = "queued" /\ age[j] = 0
  /\ pc[j] = "running" => status[j] \in Unfinished /\ age[j] <= QueueTimeout + CallTimeout
  /\ pc[j] \in {"new", "starting", "created"} =>
       \A p \in Platform : disp[j][p] = "waiting" /\ timer[j][p] = 0

TimersOf(j) ==
  pc[j] = "running" => \A p \in Platform :
    /\ disp[j][p] = "waiting" => timer[j][p] <= QueueTimeout /\ age[j] <= timer[j][p]
    /\ disp[j][p] = "calling" => timer[j][p] <= CallTimeout /\ age[j] <= QueueTimeout + timer[j][p]

\* A job nothing happens to; its process may move on, if not to the end.
Untouched(j) ==
  /\ pc'[j] = pc[j] /\ home'[j] = home[j] /\ status'[j] = status[j] /\ age'[j] = age[j]
  /\ disp'[j] = disp[j] /\ timer'[j] = timer[j]
  /\ Live(j) => j \in wg'[home[j]] /\ phase'[home[j]] # "closed"

LEMMA UntouchedStays ==
  ASSUME NEW j \in Job, RunOf(j), TimersOf(j), Untouched(j)
  PROVE  RunOf(j)' /\ TimersOf(j)'
  BY DEF RunOf, TimersOf, Untouched, Live

\* A step of one run leaves the others alone.
LEMMA OthersStay ==
  ASSUME TypeOK, NEW i \in Job, RunOf(i), NEW j \in Job, i # j, RunStep(j) \/ \E d \in Pod : Accept(d, j)
  PROVE  Untouched(i)
<1>1. /\ pc \in [Job -> Place] /\ home \in [Job -> Pod \cup {None}] /\ wg \in [Pod -> SUBSET Job]
      /\ disp \in [Job -> [Platform -> DispState]] /\ timer \in [Job -> [Platform -> Timer]]
  BY Domains
<1>2. Live(i) => home[i] \in Pod /\ i \in wg[home[i]] /\ phase[home[i]] # "closed"
  BY DEF RunOf
<1>3. ASSUME NEW d \in Pod, Accept(d, j) PROVE Untouched(i)
  BY <1>1, <1>2, <1>3 DEF Accept, Counted, Untouched, rows
<1>4. RunEnds(j) => pc'[i] = pc[i] /\ (Live(i) => i \in wg'[home[i]])
  BY <1>1, <1>2 DEF RunEnds
<1>5. CASE CreateJob(j)
  <2>1. status'[i] = status[i] /\ age'[i] = age[i]
    BY <1>5, RowWrites DEF CreateJob, Status
  <2> QED
    BY <1>1, <1>2, <1>5, <2>1 DEF CreateJob, Untouched
<1>6. CASE CreateJobFails(j)
  <2>1. status'[i] = status[i] /\ age'[i] = age[i]
    BY <1>6, RowWrites DEF CreateJobFails, Status
  <2> QED
    BY <1>1, <1>2, <1>4, <1>6, <2>1 DEF CreateJobFails, Untouched
<1>7. CASE MarkRunning(j)
  <2>1. status'[i] = status[i] /\ age'[i] = age[i]
    BY <1>7, RowWrites DEF MarkRunning, Status, Unfinished
  <2> QED
    BY <1>1, <1>2, <1>7, <2>1 DEF MarkRunning, Untouched
<1>8. CASE Finalize(j)
  <2>1. Verdict({disp[j][p] : p \in Platform}) \in Status
    BY VerdictIsTerminal DEF Status
  <2>2. status'[i] = status[i] /\ age'[i] = age[i]
    BY <1>8, <2>1, RowWrites DEF Finalize
  <2> QED
    BY <1>1, <1>2, <1>4, <1>8, <2>2 DEF Finalize, Untouched
<1>9. ASSUME NEW p \in Platform, NEW s \in DispState, Step(j, p, s) PROVE Untouched(i)
  <2>1. disp'[i] = disp[i] /\ timer'[i] = timer[i]
    BY <1>1, <1>9, Moved
  <2> QED
    BY <1>2, <1>9, <2>1 DEF Step, Untouched, rows
<1>10. ASSUME NEW p \in Platform, TakeSlot(j, p) \/ LeaveQueue(j, p) \/ \E o \in Settled : Return(j, p, o)
       PROVE  \E s \in DispState : Step(j, p, s)
  BY <1>10 DEF TakeSlot, LeaveQueue, Return, DispState, Settled
<1> QED
  BY <1>3, <1>5, <1>6, <1>7, <1>8, <1>9, <1>10 DEF RunStep

\* Nothing is claimed of a job that is over.
LEMMA OverIsOver == \A j \in Job : pc'[j] = "over" => RunOf(j)' /\ TimersOf(j)'
  BY DEF RunOf, TimersOf, Live

\* A run's dispatch takes no time: its row is as old as it was.
LEMMA MoveStays ==
  ASSUME TypeOK, NEW j \in Job, RunOf(j), TimersOf(j), NEW p \in Platform, NEW s \in DispState,
         Step(j, p, s), pc[j] = "running", s # "waiting",
         s = "calling" => age[j] <= QueueTimeout
  PROVE  RunOf(j)' /\ TimersOf(j)'
<1>1. /\ disp'[j][p] = s /\ timer'[j][p] = 0
      /\ \A q \in Platform : q # p => disp'[j][q] = disp[j][q] /\ timer'[j][q] = timer[j][q]
  BY Domains, Moved
<1>2. UNCHANGED <<status, age, pc, home, wg, phase>>
  BY DEF Step, rows
<1>3. RunOf(j)'
  BY <1>2 DEF RunOf, Live
<1>4. age[j] \in Nat
  BY Domains, Numbers
<1>5. TimersOf(j)'
  BY <1>1, <1>2, <1>4, Numbers DEF TimersOf
<1> QED
  BY <1>3, <1>5

LEMMA OwnStep ==
  ASSUME TypeOK, NEW j \in Job, RunOf(j), TimersOf(j), RunStep(j) \/ \E d \in Pod : Accept(d, j)
  PROVE  RunOf(j)' /\ TimersOf(j)'
<1>1. /\ pc \in [Job -> Place] /\ home \in [Job -> Pod \cup {None}] /\ wg \in [Pod -> SUBSET Job]
      /\ disp \in [Job -> [Platform -> DispState]] /\ timer \in [Job -> [Platform -> Timer]]
      /\ status \in [Job -> Status] /\ age \in [Job -> 0 .. Cutoff + 1]
  BY Domains
<1>2. ASSUME NEW d \in Pod, Accept(d, j) PROVE RunOf(j)' /\ TimersOf(j)'
  <2>1. /\ pc'[j] = "starting" /\ home'[j] = d /\ j \in wg'[d] /\ phase'[d] = "up" /\ pc[j] = "new"
        /\ UNCHANGED <<status, disp, timer>>
    BY <1>1, <1>2 DEF Accept, Counted, rows
  <2> QED
    BY <2>1 DEF RunOf, TimersOf, Live
<1>3. CASE CreateJob(j)
  <2>1. /\ pc[j] = "starting" /\ pc'[j] = "created" /\ status'[j] = "queued" /\ age'[j] = 0
        /\ UNCHANGED <<home, disp, timer, wg, phase>>
    BY <1>1, <1>3 DEF CreateJob, InsertRow
  <2> QED
    BY <2>1 DEF RunOf, TimersOf, Live
<1>4. CASE MarkRunning(j)
  <2>1. /\ pc[j] = "created" /\ pc'[j] = "running" /\ UNCHANGED <<home, disp, timer, wg, phase>>
        /\ status[j] = "queued" /\ age[j] = 0
    BY <1>1, <1>4 DEF MarkRunning, RunOf
  <2>2. status'[j] \in Unfinished /\ age'[j] = 0
    BY <1>1, <1>4, <2>1 DEF MarkRunning, UpdateJobStatus, rows, Unfinished
  <2>3. \A p \in Platform : disp'[j][p] = "waiting" /\ timer'[j][p] = 0
    BY <2>1 DEF RunOf
  <2>4. RunOf(j)'
    BY <2>1, <2>2, Numbers DEF RunOf, Live
  <2> QED
    BY <2>1, <2>2, <2>3, <2>4, Numbers DEF TimersOf
<1>5. CASE CreateJobFails(j) \/ Finalize(j)
  BY <1>1, <1>5, OverIsOver DEF CreateJobFails, Finalize, RunEnds
<1>6. ASSUME NEW p \in Platform, TakeSlot(j, p) PROVE RunOf(j)' /\ TimersOf(j)'
  <2>1. pc[j] = "running" /\ disp[j][p] = "waiting" /\ Step(j, p, "calling")
    BY <1>6 DEF TakeSlot
  <2>2. timer[j][p] <= QueueTimeout /\ age[j] <= timer[j][p]
    BY <2>1 DEF TimersOf
  <2>3. age[j] <= QueueTimeout
    BY <1>1, <2>2, Numbers DEF Timer
  <2> QED
    BY <2>1, <2>3, MoveStays DEF DispState
<1>7. ASSUME NEW p \in Platform, LeaveQueue(j, p) PROVE RunOf(j)' /\ TimersOf(j)'
  <2>1. pc[j] = "running" /\ Step(j, p, "failed")
    BY <1>7 DEF LeaveQueue
  <2> QED
    BY <2>1, MoveStays DEF DispState, Settled
<1>8. ASSUME NEW p \in Platform, NEW o \in Settled, Return(j, p, o) PROVE RunOf(j)' /\ TimersOf(j)'
  <2>1. pc[j] = "running" /\ Step(j, p, o) /\ o \in DispState /\ o \notin {"waiting", "calling"}
    BY <1>8 DEF Return, DispState, Settled
  <2> QED
    BY <2>1, MoveStays
<1> QED
  BY <1>2, <1>3, <1>4, <1>5, <1>6, <1>7, <1>8 DEF RunStep

\* The sweepers find no run at work: its row is too young.
LEMMA SweepSpares ==
  ASSUME TypeOK, NEW j \in Job, RunOf(j), FailStuckJobs, pc[j] # "over"
  PROVE  status'[j] = status[j] /\ age'[j] = age[j]
<1>1. status \in [Job -> Status] /\ age[j] \in Nat /\ pc[j] \in Place
  BY Domains, Numbers
<1>2. status[j] = "none" \/ age[j] <= Cutoff
  BY <1>1, Numbers DEF RunOf, Place
<1>3. ~Stale(j)
  BY <1>1, <1>2, Numbers DEF Stale, Unfinished
<1> QED
  BY <1>3 DEF FailStuckJobs

LEMMA ProcessStep ==
  ASSUME TypeOK, NEW d \in Pod, Process(d), NEW j \in Job, RunOf(j), TimersOf(j)
  PROVE  RunOf(j)' /\ TimersOf(j)'
<1>1. /\ pc \in [Job -> Place] /\ home \in [Job -> Pod \cup {None}] /\ wg \in [Pod -> SUBSET Job]
      /\ status \in [Job -> Status] /\ phase \in [Pod -> Phase]
  BY Domains
<1>2. Live(j) => home[j] \in Pod /\ j \in wg[home[j]] /\ phase[home[j]] # "closed"
  BY DEF RunOf
<1>3. pc[j] # "over" => status[j] \notin Terminal
  BY <1>1 DEF RunOf, Place, Terminal, Unfinished
<1>4. CASE Sweep(d) \/ Boot(d)
  <2>1. UNCHANGED runs /\ (FailStuckJobs \/ UNCHANGED rows)
    BY <1>4 DEF Sweep, Boot
  <2>2. Live(j) => phase'[home[j]] # "closed"
    BY <1>1, <1>2, <1>4 DEF Sweep, Boot
  <2>3. CASE pc[j] = "over"
    BY <2>1, <2>3, OverIsOver DEF runs
  <2>4. CASE pc[j] # "over"
    <3>1. status'[j] = status[j] /\ age'[j] = age[j]
      BY <2>1, <2>4, SweepSpares DEF rows
    <3>2. Untouched(j)
      BY <1>2, <2>1, <2>2, <3>1 DEF Untouched, runs
    <3> QED
      BY <3>2, UntouchedStays
  <2> QED
    BY <2>3, <2>4
<1>5. CASE PruneTerminalJobs(d)
  <2>1. UNCHANGED <<age, runs, phase>>
    BY <1>5 DEF PruneTerminalJobs
  <2>2. CASE pc[j] = "over"
    BY <2>1, <2>2, OverIsOver DEF runs
  <2>3. CASE pc[j] # "over"
    <3>1. status'[j] = status[j]
      BY <1>1, <1>3, <1>5, <2>3 DEF PruneTerminalJobs
    <3>2. Untouched(j)
      BY <1>2, <2>1, <3>1 DEF Untouched, runs
    <3> QED
      BY <3>2, UntouchedStays
  <2> QED
    BY <2>2, <2>3
<1>6. CASE Shutdown(d) \/ Drained(d) \/ DrainTimesOut(d) \/ GraceTimesOut(d)
  <2>1. UNCHANGED <<rows, runs>>
    BY <1>6 DEF Shutdown, Drained, DrainTimesOut, GraceTimesOut, MoveTo
  <2>2. Live(j) => phase'[home[j]] # "closed"
    BY <1>1, <1>2, <1>6 DEF Shutdown, Drained, DrainTimesOut, GraceTimesOut, MoveTo
  <2>3. Untouched(j)
    BY <1>2, <2>1, <2>2 DEF Untouched, runs, rows
  <2> QED
    BY <2>3, UntouchedStays
<1>7. CASE Exit(d) \/ Crash(d)
  <2>1. Dies(d)
    BY <1>7 DEF Exit, Crash
  <2>2. CASE home[j] = d /\ Live(j)
    BY <2>1, <2>2, OverIsOver DEF Dies
  <2>3. CASE ~(home[j] = d /\ Live(j))
    <3>1. Live(j) => j \in wg'[home[j]] /\ phase'[home[j]] # "closed"
      BY <1>1, <1>2, <2>1, <2>3 DEF Dies
    <3>2. Untouched(j)
      BY <2>1, <2>3, <3>1 DEF Untouched, Dies, rows
    <3> QED
      BY <3>2, UntouchedStays
  <2> QED
    BY <2>2, <2>3
<1> QED
  BY <1>4, <1>5, <1>6, <1>7 DEF Process

\* The clock does not pass the timeouts of a run, so its row stays as young.
LEMMA TickStep ==
  ASSUME TypeOK, Tick, NEW j \in Job, RunOf(j), TimersOf(j)
  PROVE  RunOf(j)' /\ TimersOf(j)'
<1>1. /\ pc[j] \in Place /\ age[j] \in 0 .. Cutoff + 1 /\ \A p \in Platform : timer[j][p] \in Nat /\ disp[j][p] \in DispState
  BY Domains, Numbers DEF Timer
<1>2. UNCHANGED <<status, pc, home, disp, wg, phase>>
  BY DEF Tick
<1>3. CASE pc[j] = "running"
  <2>1. /\ \E p \in Platform : disp[j][p] \notin Settled
        /\ \A p \in Platform : disp[j][p] = "waiting" => timer[j][p] # QueueTimeout
        /\ \A p \in Platform : disp[j][p] = "calling" => timer[j][p] # CallTimeout
    BY <1>3 DEF Tick, Urgent, QueueLimit
  <2>2. age[j] <= Cutoff
    BY <1>1, <1>3, Numbers DEF RunOf
  <2>3. age'[j] = age[j] + 1
    BY <1>3, <2>2, <1>1, Numbers DEF Tick, Older, RunOf, Unfinished
  <2>4. \A p \in Platform : timer'[j][p] = IF disp[j][p] \notin Settled THEN timer[j][p] + 1 ELSE timer[j][p]
    BY <1>3 DEF Tick
  <2>5. ASSUME NEW p \in Platform
        PROVE  /\ disp[j][p] = "waiting" => timer'[j][p] <= QueueTimeout /\ age'[j] <= timer'[j][p]
               /\ disp[j][p] = "calling" => timer'[j][p] <= CallTimeout /\ age'[j] <= QueueTimeout + timer'[j][p]
    BY <1>1, <1>3, <2>1, <2>3, <2>4, Numbers DEF TimersOf, Settled
  <2>6. TimersOf(j)'
    BY <1>2, <2>5 DEF TimersOf
  <2>7. age'[j] <= QueueTimeout + CallTimeout
    <3>1. PICK p \in Platform : disp[j][p] \in {"waiting", "calling"}
      BY <1>1, <2>1 DEF DispState
    <3>2. timer'[j][p] \in Nat
      BY <1>1, <2>4
    <3> QED
      BY <1>1, <2>3, <2>5, <3>1, <3>2, Numbers
  <2>8. RunOf(j)'
    BY <1>2, <1>3, <2>7 DEF RunOf, Live
  <2> QED
    BY <2>6, <2>8
<1>4. CASE pc[j] # "running"
  <2>1. \A p \in Platform : timer'[j][p] = timer[j][p]
    BY <1>4 DEF Tick
  <2>2. pc[j] # "created"
    BY DEF Tick, Urgent
  <2>3. RunOf(j)'
    BY <1>1, <1>2, <1>4, <2>1, <2>2 DEF RunOf, Live, Place
  <2> QED
    BY <1>2, <1>4, <2>3 DEF TimersOf
<1> QED
  BY <1>3, <1>4

\* No step takes a run out of step with its row and its timers.
LEMMA RunsStep ==
  ASSUME TypeOK, Runs, Timers, Next, NEW j \in Job
  PROVE  RunOf(j)' /\ TimersOf(j)'
<1>1. RunOf(j) /\ TimersOf(j)
  BY DEF Runs, Timers, RunOf, TimersOf
<1>2. ASSUME NEW i \in Job, RunStep(i) \/ \E d \in Pod : Accept(d, i) PROVE RunOf(j)' /\ TimersOf(j)'
  <2>1. CASE i = j
    BY <1>1, <1>2, <2>1, OwnStep
  <2>2. CASE i # j
    BY <1>1, <1>2, <2>2, OthersStay, UntouchedStays
  <2> QED
    BY <2>1, <2>2
<1> QED
  BY <1>1, <1>2, ProcessStep, TickStep DEF Next

-----------------------------------------------------------------------------
(* The semaphore. *)

LEMMA CallsAreFinite ==
  \A d : IsFiniteSet(Calls(d)) /\ Cardinality(Calls(d)) \in Nat
<1>1. IsFiniteSet(Job \X Platform)
  BY DispatchConstants, FS_Product
<1>2. ASSUME NEW d PROVE IsFiniteSet(Calls(d)) /\ Cardinality(Calls(d)) \in Nat
  <2>1. Calls(d) \subseteq Job \X Platform
    BY DEF Calls
  <2> QED
    BY <1>1, <2>1, FS_Subset, FS_CardinalityType
<1> QED
  BY <1>2

\* The calls of a replica, pair by pair: the same, one more, one less.
LEMMA CallsSame ==
  ASSUME NEW d \in Pod, \A i \in Job, q \in Platform : Calling(d, i, q)' <=> Calling(d, i, q)
  PROVE  Calls(d)' = Calls(d)
  BY DEF Calls

LEMMA CallsAdded ==
  ASSUME NEW d \in Pod, NEW j \in Job, NEW p \in Platform, Calling(d, j, p)',
         \A i \in Job, q \in Platform : i # j \/ q # p => (Calling(d, i, q)' <=> Calling(d, i, q))
  PROVE  Calls(d)' = Calls(d) \cup {<<j, p>>}
  BY DEF Calls

LEMMA CallsRemoved ==
  ASSUME NEW d \in Pod, NEW j \in Job, NEW p \in Platform, ~Calling(d, j, p)',
         \A i \in Job, q \in Platform : i # j \/ q # p => (Calling(d, i, q)' <=> Calling(d, i, q))
  PROVE  Calls(d)' = Calls(d) \ {<<j, p>>}
  BY DEF Calls

\* A slot is taken by a call that begins and given back by one that ends.
SlotsOf(d) == sem[d] \in 0 .. Slots /\ sem[d] = Cardinality(Calls(d))

LEMMA SlotsStay ==
  ASSUME NEW d \in Pod, SlotsOf(d), sem'[d] = sem[d],
         \A i \in Job, q \in Platform : Calling(d, i, q)' <=> Calling(d, i, q)
  PROVE  SlotsOf(d)'
<1>1. Calls(d)' = Calls(d)
  BY CallsSame
<1> QED
  BY <1>1 DEF SlotsOf

LEMMA SlotsStep ==
  ASSUME TypeOK, Runs, Held, Next, NEW d \in Pod
  PROVE  SlotsOf(d)'
<1>1. /\ pc \in [Job -> Place] /\ home \in [Job -> Pod \cup {None}] /\ sem \in [Pod -> 0 .. Slots]
      /\ disp \in [Job -> [Platform -> DispState]] /\ timer \in [Job -> [Platform -> Timer]]
  BY Domains
<1>2. SlotsOf(d)
  BY <1>1 DEF Held, SlotsOf
<1>3. \A i \in Job : pc[i] = "running" => home[i] \in Pod
  BY DEF Runs, Live
<1>4. ASSUME NEW e \in Pod, NEW j \in Job, Accept(e, j) PROVE SlotsOf(d)'
  <2>1. UNCHANGED <<disp, sem>> /\ pc[j] = "new" /\ pc'[j] = "starting"
        /\ \A i \in Job : i # j => home'[i] = home[i] /\ pc'[i] = pc[i]
    BY <1>1, <1>4 DEF Accept
  <2>2. \A i \in Job, q \in Platform : Calling(d, i, q)' <=> Calling(d, i, q)
    BY <2>1 DEF Calling
  <2> QED
    BY <1>2, <2>1, <2>2, SlotsStay
<1>5. ASSUME NEW j \in Job, CreateJob(j) \/ CreateJobFails(j) PROVE SlotsOf(d)'
  <2>1. UNCHANGED <<home, disp, sem>> /\ pc[j] # "running" /\ pc'[j] # "running"
        /\ \A i \in Job : i # j => pc'[i] = pc[i]
    BY <1>1, <1>5 DEF CreateJob, CreateJobFails, RunEnds
  <2>2. \A i \in Job, q \in Platform : Calling(d, i, q)' <=> Calling(d, i, q)
    BY <2>1 DEF Calling
  <2> QED
    BY <1>2, <2>1, <2>2, SlotsStay
<1>6. ASSUME NEW j \in Job, MarkRunning(j) \/ Finalize(j) PROVE SlotsOf(d)'
  <2>1. UNCHANGED <<home, disp, sem>> /\ \A i \in Job : i # j => pc'[i] = pc[i]
    BY <1>1, <1>6 DEF MarkRunning, Finalize, RunEnds
  <2>2. \A q \in Platform : disp[j][q] # "calling"
    BY <1>6 DEF MarkRunning, Finalize, Runs, Settled
  <2>3. \A i \in Job, q \in Platform : Calling(d, i, q)' <=> Calling(d, i, q)
    BY <2>1, <2>2 DEF Calling
  <2> QED
    BY <1>2, <2>1, <2>3, SlotsStay
<1>7. ASSUME NEW j \in Job, NEW p \in Platform, LeaveQueue(j, p) PROVE SlotsOf(d)'
  <2>1. Step(j, p, "failed") /\ disp[j][p] = "waiting" /\ UNCHANGED <<sem, home, pc>>
    BY <1>7 DEF LeaveQueue, Step
  <2>2. \A i \in Job, q \in Platform : i # j \/ q # p => disp'[i][q] = disp[i][q]
    BY <1>1, <2>1, Moved DEF DispState, Settled
  <2>3. disp'[j][p] = "failed"
    BY <1>1, <2>1, Moved DEF DispState, Settled
  <2>4. \A i \in Job, q \in Platform : Calling(d, i, q)' <=> Calling(d, i, q)
    BY <2>1, <2>2, <2>3 DEF Calling
  <2> QED
    BY <1>2, <2>1, <2>4, SlotsStay
<1>8. ASSUME NEW j \in Job, NEW p \in Platform, TakeSlot(j, p) PROVE SlotsOf(d)'
  <2>1. /\ Step(j, p, "calling") /\ disp[j][p] = "waiting" /\ pc[j] = "running" /\ home[j] \in Pod
        /\ sem[home[j]] < Slots /\ sem' = [sem EXCEPT ![home[j]] = @ + 1] /\ UNCHANGED <<home, pc>>
    BY <1>3, <1>8 DEF TakeSlot, Step, SlotFree
  <2>2. \A i \in Job, q \in Platform : i # j \/ q # p => disp'[i][q] = disp[i][q]
    BY <1>1, <2>1, Moved DEF DispState
  <2>3. disp'[j][p] = "calling"
    BY <1>1, <2>1, Moved DEF DispState
  <2>4. \A i \in Job, q \in Platform : i # j \/ q # p => (Calling(d, i, q)' <=> Calling(d, i, q))
    BY <2>1, <2>2 DEF Calling
  <2>5. CASE home[j] # d
    <3>1. sem'[d] = sem[d] /\ (Calling(d, j, p)' <=> Calling(d, j, p))
      BY <1>1, <2>1, <2>5 DEF Calling
    <3> QED
      BY <1>2, <2>4, <3>1, SlotsStay
  <2>6. CASE home[j] = d
    <3>1. Calling(d, j, p)' /\ <<j, p>> \notin Calls(d)
      BY <2>1, <2>3, <2>6 DEF Calling, Calls
    <3>2. Calls(d)' = Calls(d) \cup {<<j, p>>}
      BY <2>4, <3>1, CallsAdded
    <3>3. Cardinality(Calls(d)') = Cardinality(Calls(d)) + 1
      BY <3>1, <3>2, CallsAreFinite, FS_AddElement
    <3>4. sem'[d] = sem[d] + 1 /\ sem[d] < Slots
      BY <1>1, <2>1, <2>6
    <3>5. sem'[d] = Cardinality(Calls(d)') /\ sem'[d] \in 0 .. Slots
      BY <1>2, <3>3, <3>4, Numbers DEF SlotsOf
    <3> QED
      BY <3>5 DEF SlotsOf
  <2> QED
    BY <2>5, <2>6
<1>9. ASSUME NEW j \in Job, NEW p \in Platform, NEW o \in Settled, Return(j, p, o) PROVE SlotsOf(d)'
  <2>1. /\ Step(j, p, o) /\ disp[j][p] = "calling" /\ pc[j] = "running" /\ home[j] \in Pod
        /\ sem' = [sem EXCEPT ![home[j]] = @ - 1] /\ UNCHANGED <<home, pc>> /\ o \in DispState /\ o # "calling"
    BY <1>3, <1>9 DEF Return, Step, AfterCall, DispState, Settled
  <2>2. \A i \in Job, q \in Platform : i # j \/ q # p => disp'[i][q] = disp[i][q]
    BY <1>1, <2>1, Moved
  <2>3. disp'[j][p] = o
    BY <1>1, <2>1, Moved
  <2>4. \A i \in Job, q \in Platform : i # j \/ q # p => (Calling(d, i, q)' <=> Calling(d, i, q))
    BY <2>1, <2>2 DEF Calling
  <2>5. CASE home[j] # d
    <3>1. sem'[d] = sem[d] /\ (Calling(d, j, p)' <=> Calling(d, j, p))
      BY <1>1, <2>1, <2>5 DEF Calling
    <3> QED
      BY <1>2, <2>4, <3>1, SlotsStay
  <2>6. CASE home[j] = d
    <3>1. ~Calling(d, j, p)' /\ <<j, p>> \in Calls(d)
      BY <2>1, <2>3, <2>6 DEF Calling, Calls
    <3>2. Calls(d)' = Calls(d) \ {<<j, p>>}
      BY <2>4, <3>1, CallsRemoved
    <3>3. Cardinality(Calls(d)') = Cardinality(Calls(d)) - 1 /\ Cardinality(Calls(d)') \in Nat
      BY <3>1, <3>2, CallsAreFinite, FS_RemoveElement, FS_CardinalityType
    <3>4. sem'[d] = sem[d] - 1
      BY <1>1, <2>1, <2>6
    <3>5. sem'[d] = Cardinality(Calls(d)') /\ sem'[d] \in 0 .. Slots
      BY <1>2, <3>3, <3>4, Numbers DEF SlotsOf
    <3> QED
      BY <3>5 DEF SlotsOf
  <2> QED
    BY <2>5, <2>6
<1>10. ASSUME UNCHANGED <<home, pc, disp, sem>> PROVE SlotsOf(d)'
  BY <1>2, <1>10, SlotsStay DEF Calling
<1>11. ASSUME NEW e \in Pod, Dies(e) PROVE SlotsOf(d)'
  <2>1. UNCHANGED <<home, disp>> /\ \A i \in Job : pc'[i] = IF home[i] = e /\ Live(i) THEN "over" ELSE pc[i]
    BY <1>11 DEF Dies
  <2>2. CASE e = d
    <3>1. \A i \in Job, q \in Platform : ~Calling(d, i, q)'
      BY <2>1, <2>2 DEF Calling, Live
    <3>2. Calls(d)' = {}
      BY <3>1 DEF Calls
    <3>3. sem'[d] = 0
      BY <1>1, <1>11, <2>2 DEF Dies
    <3> QED
      BY <3>2, <3>3, FS_EmptySet, Numbers DEF SlotsOf
  <2>3. CASE e # d
    <3>1. sem'[d] = sem[d]
      BY <1>1, <1>11, <2>3 DEF Dies
    <3>2. \A i \in Job, q \in Platform : Calling(d, i, q)' <=> Calling(d, i, q)
      BY <2>1, <2>3 DEF Calling
    <3> QED
      BY <1>2, <3>1, <3>2, SlotsStay
  <2> QED
    BY <2>2, <2>3
<1>12. ASSUME NEW e \in Pod, Process(e) PROVE Dies(e) \/ UNCHANGED <<home, pc, disp, sem>>
  BY <1>12 DEF Process, Sweep, PruneTerminalJobs, Shutdown, Drained, DrainTimesOut, GraceTimesOut, Exit, Crash,
     Boot, MoveTo, runs
<1>13. Tick => UNCHANGED <<home, pc, disp, sem>>
  BY DEF Tick
<1> QED
  BY <1>4, <1>5, <1>6, <1>7, <1>8, <1>9, <1>10, <1>11, <1>12, <1>13 DEF Next, RunStep

-----------------------------------------------------------------------------
(* The invariant. *)

LEMMA TypeStep ==
  ASSUME TypeOK, Runs, Timers, Held, Next
  PROVE  TypeOK'
<1>1. /\ status \in [Job -> Status] /\ age \in [Job -> 0 .. Cutoff + 1]
      /\ pc \in [Job -> Place] /\ home \in [Job -> Pod \cup {None}]
      /\ disp \in [Job -> [Platform -> DispState]] /\ timer \in [Job -> [Platform -> Timer]]
      /\ sem \in [Pod -> 0 .. Slots] /\ phase \in [Pod -> Phase] /\ wg \in [Pod -> SUBSET Job]
      /\ exits \in 0 .. MaxExits
  BY Domains DEF TypeOK
<1> DEFINE RowsTyped == status \in [Job -> Status] /\ age \in [Job -> 0 .. Cutoff + 1]
           RunsTyped == /\ pc \in [Job -> Place] /\ home \in [Job -> Pod \cup {None}]
                        /\ disp \in [Job -> [Platform -> DispState]] /\ timer \in [Job -> [Platform -> Timer]]
                        /\ wg \in [Pod -> SUBSET Job]
           PodsTyped == phase \in [Pod -> Phase] /\ exits \in 0 .. MaxExits
<1>2. sem' \in [Pod -> 0 .. Slots]
  <2>1. \A d \in Pod : sem'[d] \in 0 .. Slots
    BY SlotsStep DEF SlotsOf
  <2>2. DOMAIN sem' = Pod /\ sem' = [d \in Pod |-> sem'[d]]
    BY <1>1 DEF Next, RunStep, Process, Accept, CreateJob, CreateJobFails, MarkRunning, TakeSlot, LeaveQueue, Return,
       Step, Finalize, Sweep, PruneTerminalJobs, Shutdown, Drained, DrainTimesOut, GraceTimesOut, MoveTo, Exit, Crash,
       Dies, Boot, Tick, runs
  <2> QED
    BY <2>1, <2>2
<1>3. ASSUME NEW j \in Job, NEW d \in Pod, Accept(d, j) PROVE (RowsTyped /\ RunsTyped /\ PodsTyped)'
  BY <1>1, <1>3 DEF Accept, Counted, Place, rows
<1>4. ASSUME NEW j \in Job, RunEnds(j) PROVE pc' \in [Job -> Place] /\ wg' \in [Pod -> SUBSET Job]
  BY <1>1, <1>4 DEF RunEnds, Place
<1>5. ASSUME NEW j \in Job, CreateJob(j) \/ CreateJobFails(j) PROVE (RowsTyped /\ RunsTyped /\ PodsTyped)'
  <2>1. RowsTyped'
    BY <1>5, RowWrites DEF CreateJob, CreateJobFails, Status
  <2> QED
    BY <1>1, <1>4, <1>5, <2>1 DEF CreateJob, CreateJobFails, Place
<1>6. ASSUME NEW j \in Job, MarkRunning(j) PROVE (RowsTyped /\ RunsTyped /\ PodsTyped)'
  <2>1. RowsTyped'
    BY <1>6, RowWrites DEF MarkRunning, Status, Unfinished
  <2> QED
    BY <1>1, <1>6, <2>1 DEF MarkRunning, Place
<1>7. ASSUME NEW j \in Job, Finalize(j) PROVE (RowsTyped /\ RunsTyped /\ PodsTyped)'
  <2>1. Verdict({disp[j][p] : p \in Platform}) \in Status
    BY VerdictIsTerminal DEF Status
  <2>2. RowsTyped'
    BY <1>7, <2>1, RowWrites DEF Finalize
  <2> QED
    BY <1>1, <1>4, <1>7, <2>2 DEF Finalize
<1>8. ASSUME NEW j \in Job, NEW p \in Platform, NEW s \in DispState, Step(j, p, s)
      PROVE  (RowsTyped /\ RunsTyped /\ PodsTyped)'
  <2>1. disp' \in [Job -> [Platform -> DispState]] /\ timer' \in [Job -> [Platform -> Timer]]
    BY <1>1, <1>8, Moved
  <2> QED
    BY <1>1, <1>8, <2>1 DEF Step, rows
<1>9. ASSUME NEW j \in Job, NEW p \in Platform, TakeSlot(j, p) \/ LeaveQueue(j, p) \/ \E o \in Settled : Return(j, p, o)
      PROVE  \E s \in DispState : Step(j, p, s)
  BY <1>9 DEF TakeSlot, LeaveQueue, Return, DispState, Settled
<1>10. ASSUME NEW d \in Pod, Process(d) PROVE (RowsTyped /\ RunsTyped /\ PodsTyped)'
  <2>1. CASE Sweep(d) \/ Boot(d)
    <3>1. ASSUME FailStuckJobs PROVE RowsTyped'
      BY <1>1, <3>1, Numbers DEF FailStuckJobs, Status, Terminal
    <3>2. ASSUME UNCHANGED rows PROVE RowsTyped'
      BY <1>1, <3>2 DEF rows
    <3> QED
      BY <1>1, <2>1, <3>1, <3>2 DEF Sweep, Boot, runs, Phase
  <2>2. CASE PruneTerminalJobs(d)
    BY <1>1, <2>2 DEF PruneTerminalJobs, runs, Status
  <2>3. CASE Shutdown(d) \/ Drained(d) \/ DrainTimesOut(d) \/ GraceTimesOut(d)
    <3>1. exits' \in 0 .. MaxExits
      BY <1>1, <2>3, DispatchConstants DEF Shutdown, Drained, DrainTimesOut, GraceTimesOut
    <3>2. \E ph \in Phase : MoveTo(d, ph)
      BY <2>3 DEF Shutdown, Drained, DrainTimesOut, GraceTimesOut, Phase
    <3> QED
      BY <1>1, <3>1, <3>2 DEF MoveTo, rows, runs
  <2>4. CASE Exit(d) \/ Crash(d)
    <3>1. exits' \in 0 .. MaxExits
      BY <1>1, <2>4, DispatchConstants DEF Exit, Crash
    <3>2. Dies(d)
      BY <2>4 DEF Exit, Crash
    <3>3. wg' \in [Pod -> SUBSET Job] /\ phase' \in [Pod -> Phase] /\ pc' \in [Job -> Place]
      BY <1>1, <3>2 DEF Dies, Phase, Place
    <3> QED
      BY <1>1, <3>1, <3>2, <3>3 DEF Dies, rows
  <2> QED
    BY <1>10, <2>1, <2>2, <2>3, <2>4 DEF Process
<1>11. ASSUME Tick PROVE (RowsTyped /\ RunsTyped /\ PodsTyped)'
  <2>1. age' \in [Job -> 0 .. Cutoff + 1]
    BY <1>1, <1>11, Numbers DEF Tick, Older
  <2>2. ASSUME NEW j \in Job, NEW p \in Platform, pc[j] = "running", disp[j][p] \notin Settled
        PROVE  timer[j][p] + 1 \in Timer
    <3>1. \/ disp[j][p] = "waiting" /\ timer[j][p] <= QueueTimeout /\ timer[j][p] # QueueTimeout
          \/ disp[j][p] = "calling" /\ timer[j][p] <= CallTimeout /\ timer[j][p] # CallTimeout
      BY <1>1, <1>11, <2>2 DEF Tick, Urgent, QueueLimit, Timers, DispState
    <3>2. timer[j][p] \in Nat
      BY <1>1, Numbers DEF Timer
    <3>3. timer[j][p] + 1 <= QueueTimeout + CallTimeout
      BY <3>1, <3>2, Numbers
    <3> QED
      BY <3>2, <3>3, Numbers DEF Timer
  <2>3. timer' \in [Job -> [Platform -> Timer]]
    BY <1>1, <1>11, <2>2 DEF Tick
  <2> QED
    BY <1>1, <1>11, <2>1, <2>3 DEF Tick
<1>12. (RowsTyped /\ RunsTyped /\ PodsTyped)'
  BY <1>3, <1>5, <1>6, <1>7, <1>8, <1>9, <1>10, <1>11 DEF Next, RunStep
<1> QED
  BY <1>2, <1>12 DEF TypeOK, Status, DispState, Timer, Phase, Place

LEMMA Start == Init => Inv
<1> SUFFICES ASSUME Init PROVE Inv
  OBVIOUS
<1>1. TypeOK
  BY DispatchConstants, Numbers DEF Init, TypeOK
<1>2. Runs /\ Timers
  BY DEF Init, Runs, Timers, Live
<1>3. \A d \in Pod : Calls(d) = {}
  BY DEF Init, Calls, Calling
<1>4. Held
  BY <1>3, FS_EmptySet DEF Init, Held
<1> QED
  BY <1>1, <1>2, <1>4 DEF Inv

LEMMA StepKeeps == Inv /\ [Next]_vars => Inv'
<1>1. ASSUME Inv, Next PROVE Inv'
  <2>1. TypeOK'
    BY <1>1, TypeStep DEF Inv
  <2>2. \A j \in Job : RunOf(j)' /\ TimersOf(j)'
    BY <1>1, RunsStep DEF Inv
  <2>3. Runs'
    BY <2>2 DEF Runs, RunOf
  <2>4. Timers'
    BY <2>2 DEF Timers, TimersOf
  <2>5. Held'
    BY <1>1, SlotsStep DEF Inv, SlotsOf, Held
  <2> QED
    BY <2>1, <2>3, <2>4, <2>5 DEF Inv
<1>2. ASSUME Inv, UNCHANGED vars PROVE Inv'
  <2>1. TypeOK'
    BY <1>2 DEF vars, rows, runs, Inv, TypeOK
  <2>2. Runs' /\ Timers'
    BY <1>2 DEF vars, rows, runs, Inv, Runs, Timers, Live
  <2>3. Held'
    BY <1>2 DEF vars, runs, Inv, Held, Calls, Calling
  <2> QED
    BY <2>1, <2>2, <2>3 DEF Inv
<1> QED
  BY <1>1, <1>2

LEMMA Invariance == Spec => []Inv
  BY Start, StepKeeps, PTL DEF Spec

-----------------------------------------------------------------------------
(* The theorems. *)

\* For any numbers of jobs, platforms and replicas, no sweeper fails a job whose run still
\* works, as long as a run's two timeouts fit into the age it goes by (FailStuckJobs,
\* dispatchQueueTimeout, providerCallTimeout, staleJobCutoff).
THEOREM LiveRunsAreSpared == Spec => []SweeperSparesLiveRuns
<1>1. Inv => SweeperSparesLiveRuns
  BY DEF Inv, Runs, SweeperSparesLiveRuns, Live, Unfinished
<1> QED
  BY <1>1, Invariance, PTL

\* For any numbers of slots, calls and deaths, a process has taken as many slots as it
\* has calls in progress, and never more than it has (the deferred release of the slot).
THEOREM SlotsAreTheCalls == Spec => []SlotsAreHeldByCalls
<1>1. Inv => SlotsAreHeldByCalls
  BY DEF Inv, Held, Calls, Calling, SlotsAreHeldByCalls
<1> QED
  BY <1>1, Invariance, PTL

\* A shutdown that reports a clean drain leaves no run behind (the draining check and the
\* wait group's Add in one critical section of StartWithOptions).
THEOREM CleanDrainIsClean == Spec => []CleanShutdownStrandsNoRun
<1>1. Inv => CleanShutdownStrandsNoRun
  BY DEF Inv, Runs, CleanShutdownStrandsNoRun
<1> QED
  BY <1>1, Invariance, PTL

\* No verdict is reopened or replaced, by whichever run, sweeper or boot, though
\* UpdateJobStatus tests nothing of the row but that it exists.
THEOREM VerdictsStand == Spec => VerdictIsFinal
<1>1. ASSUME Inv, Next, NEW j \in Job, status[j] \in Terminal
      PROVE  status'[j] \in {status[j], "pruned"}
  <2>1. /\ status \in [Job -> Status] /\ pc \in [Job -> Place] /\ TypeOK
    BY <1>1, Domains DEF Inv
  <2>2. pc[j] = "over"
    BY <1>1, <2>1 DEF Inv, Runs, Place, Terminal, Unfinished
  <2>3. ASSUME NEW i \in Job, CreateJob(i) \/ CreateJobFails(i) \/ MarkRunning(i) \/ Finalize(i)
        PROVE  status'[j] = status[j]
    <3>1. i # j
      BY <2>2, <2>3 DEF CreateJob, CreateJobFails, MarkRunning, Finalize
    <3>2. \/ InsertRow(i) \/ UNCHANGED rows
          \/ \E s \in Status : UpdateJobStatus(i, s)
      BY <2>3, VerdictIsTerminal DEF CreateJob, CreateJobFails, MarkRunning, Finalize, Status, Unfinished
    <3> QED
      BY <2>1, <3>1, <3>2, RowWrites DEF Status
  <2>4. ASSUME NEW i \in Job, NEW p \in Platform,
               TakeSlot(i, p) \/ LeaveQueue(i, p) \/ \E o \in Settled : Return(i, p, o)
        PROVE  status'[j] = status[j]
    BY <2>4 DEF TakeSlot, LeaveQueue, Return, Step, rows
  <2>5. ASSUME NEW d \in Pod, Process(d) PROVE status'[j] \in {status[j], "pruned"}
    <3>1. CASE FailStuckJobs
      BY <1>1, <3>1 DEF FailStuckJobs, Stale, Terminal, Unfinished
    <3>2. CASE PruneTerminalJobs(d)
      BY <2>1, <3>2 DEF PruneTerminalJobs
    <3>3. CASE UNCHANGED rows
      BY <3>3 DEF rows
    <3> QED
      BY <2>5, <3>1, <3>2, <3>3 DEF Process, Sweep, Shutdown, Drained, DrainTimesOut, GraceTimesOut, MoveTo, Exit,
         Crash, Dies, Boot
  <2>6. ASSUME NEW d \in Pod, NEW i \in Job, Accept(d, i) PROVE status'[j] = status[j]
    BY <2>6 DEF Accept, rows
  <2>7. Tick => status'[j] = status[j]
    BY DEF Tick
  <2> QED
    BY <1>1, <2>3, <2>4, <2>5, <2>6, <2>7 DEF Next, RunStep
<1>2. Inv /\ [Next]_vars =>
        [\A j \in Job : status[j] \in Terminal => status'[j] \in {status[j], "pruned"}]_status
  BY <1>1 DEF vars, rows
<1> QED
  BY <1>2, Invariance, PTL DEF Spec, VerdictIsFinal
=============================================================================
