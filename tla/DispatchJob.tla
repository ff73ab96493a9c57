---------------------------- MODULE DispatchJob ----------------------------
(***************************************************************************)
(* The life of a dispatch job: the request that creates its row, the run   *)
(* in the process that accepted it, which dispatches the platforms through *)
(* a process-wide semaphore and writes the job's verdict, the sweepers of  *)
(* every replica, and the shutdown that drains the runs.                   *)
(*                                                                         *)
(* Time is discrete.  A statement takes none; a wait for a slot and a call *)
(* to a platform end by their timeouts, so the clock does not tick past    *)
(* them.  The sweeper goes by the age of a row's last write alone.         *)
(***************************************************************************)
EXTENDS Naturals, FiniteSets

CONSTANTS
  Job,           \* dispatch requests, each made once
  Platform,      \* the platforms every request names
  Pod,           \* replicas
  None,          \* no replica yet
  Slots,         \* maxParallelDispatch
  QueueTimeout,  \* dispatchQueueTimeout
  CallTimeout,   \* providerCallTimeout and the writes after it
  Cutoff,        \* staleJobCutoff
  MaxExits       \* bound: shutdowns and deaths of processes

ASSUME DispatchConstants ==
  /\ IsFiniteSet(Job) /\ IsFiniteSet(Platform) /\ Platform # {}
  /\ None \notin Pod
  /\ Slots \in Nat \ {0}
  /\ QueueTimeout \in Nat /\ CallTimeout \in Nat /\ Cutoff \in Nat
  /\ QueueTimeout + CallTimeout <= Cutoff
  /\ MaxExits \in Nat

VARIABLES
  status,  \* campaign_jobs: the status of each job's row
  age,     \* ticks since that row was last written
  pc,      \* where each job's request, then its run, is
  home,    \* the replica that accepted each job
  disp,    \* each platform's dispatch within a run
  timer,   \* ticks each dispatch has waited or called
  sem,     \* slots taken in each process
  phase,   \* each process, from boot to exit
  wg,      \* runs each process's shutdown waits for
  exits

rows == <<status, age>>
runs == <<pc, home, disp, timer, sem, wg>>
vars == <<rows, runs, phase, exits>>

Unfinished == {"queued", "running"}
Terminal == {"succeeded", "partial", "failed"}
Settled == {"ok", "failed", "skipped"}
Stopping == {"cancelled", "forced"}

TypeOK ==
  /\ status \in [Job -> {"none", "pruned"} \cup Unfinished \cup Terminal]
  /\ age \in [Job -> 0 .. Cutoff + 1]
  /\ pc \in [Job -> {"new", "starting", "created", "running", "over"}]
  /\ home \in [Job -> Pod \cup {None}]
  /\ disp \in [Job -> [Platform -> {"waiting", "calling"} \cup Settled]]
  /\ timer \in [Job -> [Platform -> 0 .. QueueTimeout + CallTimeout]]
  /\ sem \in [Pod -> 0 .. Slots]
  /\ phase \in [Pod -> {"up", "draining", "cancelled", "closed", "forced", "down"}]
  /\ wg \in [Pod -> SUBSET Job]
  /\ exits \in 0 .. MaxExits

Init ==
  /\ status = [j \in Job |-> "none"]
  /\ age = [j \in Job |-> 0]
  /\ pc = [j \in Job |-> "new"]
  /\ home = [j \in Job |-> None]
  /\ disp = [j \in Job |-> [p \in Platform |-> "waiting"]]
  /\ timer = [j \in Job |-> [p \in Platform |-> 0]]
  /\ sem = [d \in Pod |-> 0]
  /\ phase = [d \in Pod |-> "up"]
  /\ wg = [d \in Pod |-> {}]
  /\ exits = 0

-----------------------------------------------------------------------------
Live(j) == pc[j] \in {"starting", "created", "running"}

\* The pool closes when the process's shutdown returns.
PoolOpen(j) == phase[home[j]] \notin {"closed", "forced"}

\* UpdateJobStatus tests nothing of the row but that it exists.
UpdateJobStatus(j, s) ==
  IF status[j] \in {"none", "pruned"} \/ ~PoolOpen(j)
  THEN UNCHANGED rows
  ELSE status' = [status EXCEPT ![j] = s] /\ age' = [age EXCEPT ![j] = 0]

InsertRow(j) ==
  /\ PoolOpen(j)
  /\ status' = [status EXCEPT ![j] = "queued"]
  /\ age' = [age EXCEPT ![j] = 0]

RunEnds(j) ==
  /\ pc' = [pc EXCEPT ![j] = "over"]
  /\ wg' = [wg EXCEPT ![home[j]] = @ \ {j}]

-----------------------------------------------------------------------------
(* StartWithOptions. *)

\* Mutant: the run joins the wait group later, when it starts.
MutCounted(d, j) == wg[d]

Counted(d, j) == wg[d] \cup {j}

\* The draining check and the wait group's Add are one critical section.
Accept(d, j) ==
  /\ pc[j] = "new"
  /\ phase[d] = "up"
  /\ pc' = [pc EXCEPT ![j] = "starting"]
  /\ home' = [home EXCEPT ![j] = d]
  /\ wg' = [wg EXCEPT ![d] = Counted(d, j)]
  /\ UNCHANGED <<rows, disp, timer, sem, phase, exits>>

CreateJob(j) ==
  /\ pc[j] = "starting"
  /\ InsertRow(j)
  /\ pc' = [pc EXCEPT ![j] = "created"]
  /\ UNCHANGED <<home, disp, timer, sem, wg, phase, exits>>

\* The approval is stale, or the insert fails, or only its answer is lost: a
\* queued row that nobody runs.
CreateJobFails(j) ==
  /\ pc[j] = "starting"
  /\ InsertRow(j) \/ UNCHANGED rows
  /\ RunEnds(j)
  /\ UNCHANGED <<home, disp, timer, sem, phase, exits>>

-----------------------------------------------------------------------------
(* run. *)

\* A failure of this write is logged and the run goes on.
MarkRunning(j) ==
  /\ pc[j] = "created"
  /\ UpdateJobStatus(j, "running") \/ UNCHANGED rows
  /\ pc' = [pc EXCEPT ![j] = "running"]
  /\ UNCHANGED <<home, disp, timer, sem, wg, phase, exits>>

Step(j, p, s) ==
  /\ disp' = [disp EXCEPT ![j][p] = s]
  /\ timer' = [timer EXCEPT ![j][p] = 0]
  /\ UNCHANGED <<rows, pc, home, wg, phase, exits>>

SlotFree(d) == sem[d] < Slots

TakeSlot(j, p) ==
  /\ pc[j] = "running" /\ disp[j][p] = "waiting"
  /\ SlotFree(home[j])
  /\ sem' = [sem EXCEPT ![home[j]] = @ + 1]
  /\ Step(j, p, "calling")

\* Mutant: the wait for a slot is bounded by the shutdown alone.
MutQueueLimit == QueueTimeout + CallTimeout

QueueLimit == QueueTimeout

LeaveQueue(j, p) ==
  /\ pc[j] = "running" /\ disp[j][p] = "waiting"
  /\ timer[j][p] = QueueLimit \/ phase[home[j]] \in Stopping
  /\ Step(j, p, "failed")
  /\ UNCHANGED sem

\* Mutant: a slot is given back by the path that returns a result.
MutAfterCall(n, outcome) == IF outcome = "failed" THEN n ELSE n - 1

\* The slot's release is deferred: it covers errors, timeouts and panics.
AfterCall(n, outcome) == n - 1

Return(j, p, outcome) ==
  /\ pc[j] = "running" /\ disp[j][p] = "calling"
  /\ sem' = [sem EXCEPT ![home[j]] = AfterCall(@, outcome)]
  /\ Step(j, p, outcome)

\* aggregateStatus.
Verdict(results) ==
  CASE "failed" \notin results -> "succeeded"
    [] results = {"failed"} -> "failed"
    [] OTHER -> "partial"

\* The last write is made on a context that no shutdown cancels, and may fail.
Finalize(j) ==
  /\ pc[j] = "running"
  /\ \A p \in Platform : disp[j][p] \in Settled
  /\ UpdateJobStatus(j, Verdict({disp[j][p] : p \in Platform})) \/ UNCHANGED rows
  /\ RunEnds(j)
  /\ UNCHANGED <<home, disp, timer, sem, phase, exits>>

-----------------------------------------------------------------------------
(* The sweepers, in every running process. *)

\* Mutant: only rows that were marked running are recovered.
MutStale(j) == status[j] = "running" /\ age[j] > Cutoff

\* Mutant: the age alone.
MutStaleByAge(j) == status[j] # "none" /\ age[j] > Cutoff

Stale(j) == status[j] \in Unfinished /\ age[j] > Cutoff

FailStuckJobs ==
  /\ status' = [j \in Job |-> IF Stale(j) THEN "failed" ELSE status[j]]
  /\ age' = [j \in Job |-> IF Stale(j) THEN 0 ELSE age[j]]

Sweep(d) ==
  /\ phase[d] = "up"
  /\ \E j \in Job : Stale(j)
  /\ FailStuckJobs
  /\ UNCHANGED <<runs, phase, exits>>

\* The retention is far longer than any age the model tells apart.
PruneTerminalJobs(d) ==
  /\ phase[d] = "up"
  /\ \E j \in Job :
       /\ status[j] \in Terminal /\ age[j] > Cutoff
       /\ status' = [status EXCEPT ![j] = "pruned"]
  /\ UNCHANGED <<age, runs, phase, exits>>

-----------------------------------------------------------------------------
(* Shutdown, death and boot of a process. *)

MoveTo(d, ph) == phase' = [phase EXCEPT ![d] = ph] /\ UNCHANGED <<rows, runs>>

\* Draining refuses new work and stops the sweepers.
Shutdown(d) ==
  /\ phase[d] = "up" /\ exits < MaxExits
  /\ exits' = exits + 1
  /\ MoveTo(d, "draining")

Drained(d) ==
  /\ phase[d] \in {"draining", "cancelled"} /\ wg[d] = {}
  /\ MoveTo(d, "closed") /\ UNCHANGED exits

DrainTimesOut(d) ==
  /\ phase[d] = "draining" /\ wg[d] # {}
  /\ MoveTo(d, "cancelled") /\ UNCHANGED exits

\* The grace is over too, or was never in the budget: the pool closes on the runs.
GraceTimesOut(d) ==
  /\ phase[d] \in {"draining", "cancelled"} /\ wg[d] # {}
  /\ MoveTo(d, "forced") /\ UNCHANGED exits

Dies(d) ==
  /\ phase' = [phase EXCEPT ![d] = "down"]
  /\ pc' = [j \in Job |-> IF home[j] = d /\ Live(j) THEN "over" ELSE pc[j]]
  /\ sem' = [sem EXCEPT ![d] = 0]
  /\ wg' = [wg EXCEPT ![d] = {}]
  /\ UNCHANGED <<rows, home, disp, timer>>

Exit(d) == phase[d] \in {"closed", "forced"} /\ Dies(d) /\ UNCHANGED exits

Crash(d) ==
  /\ phase[d] \in {"up", "draining", "cancelled"} /\ exits < MaxExits
  /\ exits' = exits + 1
  /\ Dies(d)

\* The boot fails stuck jobs once, if it can, before the sweeper starts.
Boot(d) ==
  /\ phase[d] = "down"
  /\ phase' = [phase EXCEPT ![d] = "up"]
  /\ FailStuckJobs \/ UNCHANGED rows
  /\ UNCHANGED <<runs, exits>>

-----------------------------------------------------------------------------
(* Time. *)

Urgent(j) ==
  \/ pc[j] = "created"
  \/ /\ pc[j] = "running"
     /\ \/ phase[home[j]] \in Stopping
        \/ \A p \in Platform : disp[j][p] \in Settled
        \/ \E p \in Platform :
             \/ disp[j][p] = "waiting" /\ timer[j][p] = QueueLimit
             \/ disp[j][p] = "calling" /\ timer[j][p] = CallTimeout

Older(n) == IF n > Cutoff THEN n ELSE n + 1

Tick ==
  /\ \A j \in Job : ~Urgent(j)
  /\ age' = [j \in Job |-> IF status[j] \in {"none", "pruned"} THEN age[j] ELSE Older(age[j])]
  /\ timer' = [j \in Job |-> [p \in Platform |->
                 IF pc[j] = "running" /\ disp[j][p] \notin Settled
                 THEN timer[j][p] + 1 ELSE timer[j][p]]]
  /\ UNCHANGED <<status, pc, home, disp, sem, wg, phase, exits>>

-----------------------------------------------------------------------------
RunStep(j) ==
  \/ CreateJob(j) \/ CreateJobFails(j)
  \/ MarkRunning(j)
  \/ \E p \in Platform :
       \/ TakeSlot(j, p) \/ LeaveQueue(j, p)
       \/ \E outcome \in Settled : Return(j, p, outcome)
  \/ Finalize(j)

Process(d) ==
  \/ Sweep(d) \/ PruneTerminalJobs(d)
  \/ Shutdown(d) \/ Drained(d) \/ DrainTimesOut(d) \/ GraceTimesOut(d)
  \/ Exit(d) \/ Crash(d) \/ Boot(d)

Next ==
  \/ \E d \in Pod, j \in Job : Accept(d, j)
  \/ \E j \in Job : RunStep(j)
  \/ \E d \in Pod : Process(d)
  \/ Tick

\* Time passes, replicas are restarted and their sweepers run.  Nothing is assumed
\* of the runs beyond the timeouts the clock honours.
Fairness ==
  /\ WF_vars(Tick)
  /\ \A j \in Job : WF_vars(RunStep(j))
  /\ \A d \in Pod : WF_vars(Sweep(d)) /\ WF_vars(Boot(d)) /\ WF_vars(Exit(d))
  /\ \A d \in Pod : WF_vars(Drained(d) \/ GraceTimesOut(d))

Spec == Init /\ [][Next]_vars /\ Fairness

-----------------------------------------------------------------------------
(* Properties. *)

\* No sweeper, of whatever replica, fails a job whose run is still working: the
\* two timeouts of a run stay below the age a row must reach.
SweeperSparesLiveRuns == \A j \in Job : Live(j) => status[j] \in Unfinished \cup {"none"}

\* A verdict, once written, is not reopened or replaced: not by a late run, since
\* UpdateJobStatus tests nothing, nor by a sweeper; it can only be pruned.
VerdictIsFinal ==
  [][\A j \in Job : status[j] \in Terminal => status'[j] \in {status[j], "pruned"}]_status

\* Every slot taken is held by a call in progress: none leaks, whichever way a
\* call ends, and a leaked slot would be lost to the process for good.
SlotsAreHeldByCalls ==
  /\ TypeOK
  /\ \A d \in Pod :
       sem[d] = Cardinality({r \in Job \X Platform :
                  home[r[1]] = d /\ pc[r[1]] = "running" /\ disp[r[1]][r[2]] = "calling"})

\* A shutdown that reports a clean drain closes the pool on no run: no request
\* slips in between the draining check and the wait group.
CleanShutdownStrandsNoRun == \A j \in Job : Live(j) => phase[home[j]] # "closed"

\* Every job reaches a verdict in the end, whatever died or failed to be written.
EveryJobSettles == \A j \in Job : status[j] \in Unfinished ~> status[j] \notin Unfinished
=============================================================================
