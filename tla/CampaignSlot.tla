----------------------------- MODULE CampaignSlot -----------------------------
(***************************************************************************)
(* One slot of a brief: the campaigns of one (brief, platform, variant),   *)
(* numbered by slot version.  A dispatch job looks the slot up, decides    *)
(* which version it wants, claims it with a 'pending' row, calls the ad    *)
(* platform and records what came back.  Every one of those is a separate  *)
(* statement or network call, so other jobs, adoptions, deletions and an   *)
(* operator's clearing of a stuck claim interleave with them.              *)
(*                                                                         *)
(* Every write takes the per-slot advisory lock for its whole transaction, *)
(* so a transaction is one action here.  A request that is refused and     *)
(* changes nothing (an adoption into an occupied slot, a deletion of an    *)
(* unfinished row) is no step at all.                                      *)
(***************************************************************************)
EXTENDS Naturals, FiniteSets

CONSTANTS
  Job,            \* dispatch jobs, each handling this slot once
  Foreign,        \* upstream campaigns this service did not create
  BoundElsewhere, \* the foreign ones another brief's live row already binds
  None,           \* no job (an adopted row) and no upstream id
  MaxVersion,     \* bound: slot versions considered
  MaxDeleted,     \* bound: distinct (version, campaign) pairs soft-deleted
  MaxCleared      \* bound: jobs whose pending claim an operator clears

ASSUME SlotConstants ==
  /\ MaxVersion \in Nat \ {0}
  /\ BoundElsewhere \subseteq Foreign
  /\ Job \cap Foreign = {}
  /\ None \notin Job \cup Foreign
  /\ MaxDeleted \in Nat
  /\ MaxCleared \in Nat

VARIABLES
  live,     \* the slot's live rows
  buried,   \* what its soft-deleted rows still record
  upstream, \* upstream[j]: the version job j created a paid campaign for, or 0
  asked,    \* jobs whose create request may still take effect upstream
  cleared,  \* jobs whose claim an operator has cleared (history)
  pc, req, ver, ret, res

vars == <<live, buried, upstream, asked, cleared, pc, req, ver, ret, res>>

Version == 1 .. MaxVersion

\* A campaign a job creates is identified by the job: a job makes at most one.
CampaignId == Job \cup Foreign

PartialOrphanStatuses == {"group_created", "unconfirmed"}
PreservableErrorStatuses == PartialOrphanStatuses \cup {"created_degraded"}
Status == {"pending", "created"} \cup PreservableErrorStatuses

\* detail: the row carries a Result blob an operator can reconcile from.  A row
\* without a job was adopted, and complete from the start.
Row == {r \in [ver: Version, job: Job \cup {None}, id: CampaignId \cup {None},
               status: Status, detail: BOOLEAN] : r.job = None => r.status = "created"}

\* exp: the slot version of the latest campaign a new_version caller saw.
Request == [new: BOOLEAN, exp: Version \cup {0}]

Return == [err: BOOLEAN, id: CampaignId \cup {None}, status: Status, detail: BOOLEAN]
NoReturn == [err |-> FALSE, id |-> None, status |-> "pending", detail |-> FALSE]

Outcome == {"running", "created", "reused", "skipped", "reconcile", "failed", "lost"}
Result == [kind: Outcome, id: CampaignId \cup {None}]

PC == {"idle", "lookup", "claim", "readback_own", "readback_other", "call",
       "release", "persist", "done", "dead"}

TypeOK ==
  /\ live \subseteq Row
  /\ buried \subseteq [ver: Version, id: CampaignId \cup {None}]
  /\ upstream \in [Job -> Version \cup {0}]
  /\ asked \subseteq Job
  /\ cleared \subseteq Job
  /\ pc \in [Job -> PC]
  /\ req \in [Job -> Request]
  /\ ver \in [Job -> Version]
  /\ ret \in [Job -> Return]
  /\ res \in [Job -> Result]

Init ==
  /\ live = {}
  /\ buried = {}
  /\ upstream = [j \in Job |-> 0]
  /\ asked = {}
  /\ cleared = {}
  /\ pc = [j \in Job |-> "idle"]
  /\ req = [j \in Job |-> [new |-> FALSE, exp |-> 0]]
  /\ ver = [j \in Job |-> 1]
  /\ ret = [j \in Job |-> NoReturn]
  /\ res = [j \in Job |-> [kind |-> "running", id |-> None]]

-----------------------------------------------------------------------------
(* What the repository's queries read. *)

Reusable(r) == r.id # None /\ r.status \notin {"pending"} \cup PartialOrphanStatuses

Orphan(r) == r.id # None \/ r.detail

Deletable(r) == r.status \in {"created", "created_degraded"}

LiveAt(v) == {r \in live : r.ver = v}

IsLatest(r) == r \in live /\ \A s \in live : s.ver <= r.ver

DeletedVersions == {b.ver : b \in buried}

UsedVersions == {r.ver : r \in live} \cup DeletedVersions

\* One past every version the slot has ever used; the first on a fresh slot.
IsNextVersion(v) ==
  /\ \A u \in UsedVersions : u < v
  /\ v = 1 \/ v - 1 \in UsedVersions

OwnRows(j) == {r \in LiveAt(ver[j]) : r.job = j}

\* The per-provider binding indexes: one live row per upstream campaign.
AlreadyBound(id, others) ==
  id # None /\ (id \in BoundElsewhere \/ \E r \in others : r.id = id)

ClaimRow(j) == [ver |-> ver[j], job |-> j, id |-> None, status |-> "pending", detail |-> FALSE]

Finish(j, kind, id) ==
  /\ pc' = [pc EXCEPT ![j] = "done"]
  /\ res' = [res EXCEPT ![j] = [kind |-> kind, id |-> id]]

Goto(j, step) == pc' = [pc EXCEPT ![j] = step] /\ res' = res

-----------------------------------------------------------------------------
(* The dispatch of one job. *)

\* The slot version of the latest campaign a caller sees, 0 when it sees none.
Seen(v) == (live = {} /\ v = 0) \/ \E r \in live : IsLatest(r) /\ r.ver = v

\* A create-campaigns request: a retry, or a new_version request carrying what
\* its caller sees.  The dispatch reaches its lookup any time later, so the
\* expectation may be stale by then.
Start(j) ==
  /\ pc[j] = "idle"
  /\ \/ req' = [req EXCEPT ![j] = [new |-> FALSE, exp |-> 0]]
     \/ \E v \in Version \cup {0} :
          Seen(v) /\ req' = [req EXCEPT ![j] = [new |-> TRUE, exp |-> v]]
  /\ Goto(j, "lookup")
  /\ UNCHANGED <<live, buried, upstream, asked, cleared, ver, ret>>

\* The lookup itself fails, or nothing can dispatch to the platform.
LookupFails(j) ==
  /\ pc[j] = "lookup"
  /\ Finish(j, "failed", None)
  /\ UNCHANGED <<live, buried, upstream, asked, cleared, req, ver, ret>>

\* A complete latest campaign answers a retry, and a new_version request whose
\* caller did not see it.
LookupReuses(j) ==
  /\ pc[j] = "lookup"
  /\ \E r \in live :
       /\ IsLatest(r) /\ Reusable(r)
       /\ req[j].new => req[j].exp # r.ver
       /\ Finish(j, "reused", r.id)
  /\ UNCHANGED <<live, buried, upstream, asked, cleared, req, ver, ret>>

\* A new_version request behind an unfinished campaign claims nothing.
LookupFindsUnfinished(j) ==
  /\ pc[j] = "lookup"
  /\ req[j].new
  /\ \E r \in live :
       /\ IsLatest(r) /\ ~Reusable(r)
       /\ IF Orphan(r) THEN Finish(j, "reconcile", r.id) ELSE Finish(j, "skipped", None)
  /\ UNCHANGED <<live, buried, upstream, asked, cleared, req, ver, ret>>

\* Mutant: the caller's expectation is not compared.
MutTargetIgnoresExpectation(j, v) ==
  \/ /\ req[j].new
     /\ live = {} \/ \E r \in live : IsLatest(r) /\ Reusable(r)
     /\ IsNextVersion(v)
  \/ ~req[j].new /\ live = {} /\ v = 1
  \/ ~req[j].new /\ \E r \in live : IsLatest(r) /\ ~Reusable(r) /\ r.ver = v

\* The version a dispatch goes on to claim.
Target(j, v) ==
  \/ /\ req[j].new
     /\ live = {} \/ \E r \in live : IsLatest(r) /\ Reusable(r) /\ r.ver = req[j].exp
     /\ IsNextVersion(v)
  \/ ~req[j].new /\ live = {} /\ v = 1
  \/ ~req[j].new /\ \E r \in live : IsLatest(r) /\ ~Reusable(r) /\ r.ver = v

LookupTargets(j) ==
  /\ pc[j] = "lookup"
  /\ \E v \in Version : Target(j, v) /\ ver' = [ver EXCEPT ![j] = v]
  /\ Goto(j, "claim")
  /\ UNCHANGED <<live, buried, upstream, asked, cleared, req, ret>>

\* Mutant: a new_version claim asks only for live rows, as a retry does.
MutVersionIsAnyFree(j) == FALSE

\* A new_version claim refuses a version only a soft-deleted row holds.
VersionWasDeleted(j) ==
  req[j].new /\ ver[j] \in DeletedVersions /\ LiveAt(ver[j]) = {}

ClaimRefused(j) ==
  /\ pc[j] = "claim"
  /\ VersionWasDeleted(j)
  /\ Finish(j, "skipped", None)
  /\ UNCHANGED <<live, buried, upstream, asked, cleared, req, ver, ret>>

ClaimInserts(j) ==
  /\ pc[j] = "claim"
  /\ ~VersionWasDeleted(j)
  /\ LiveAt(ver[j]) = {}
  /\ live' = live \cup {ClaimRow(j)}
  /\ Goto(j, "readback_own")
  /\ UNCHANGED <<buried, upstream, asked, cleared, req, ver, ret>>

ClaimConflicts(j) ==
  /\ pc[j] = "claim"
  /\ LiveAt(ver[j]) # {}
  /\ Goto(j, "readback_other")
  /\ UNCHANGED <<live, buried, upstream, asked, cleared, req, ver, ret>>

\* The claim's transaction rolls back, or commits with its answer lost: the
\* job fails either way, and in the second case leaves its row behind.
ClaimFails(j) ==
  /\ pc[j] = "claim"
  /\ \/ UNCHANGED live
     \/ ~VersionWasDeleted(j) /\ LiveAt(ver[j]) = {} /\ live' = live \cup {ClaimRow(j)}
  /\ Finish(j, "failed", None)
  /\ UNCHANGED <<buried, upstream, asked, cleared, req, ver, ret>>

\* The claim's read-back, a statement of its own.  Any live row at the version
\* satisfies it; from here the create request may reach the platform.
ReadBackOwn(j) ==
  /\ pc[j] = "readback_own"
  /\ LiveAt(ver[j]) # {}
  /\ asked' = asked \cup {j}
  /\ Goto(j, "call")
  /\ UNCHANGED <<live, buried, upstream, cleared, req, ver, ret>>

ReadBackOwnFails(j) ==
  /\ pc[j] = "readback_own"
  /\ Goto(j, "release")
  /\ UNCHANGED <<live, buried, upstream, asked, cleared, req, ver, ret>>

\* The loser of a claim answers from the row that won.
ReadBackOther(j) ==
  /\ pc[j] = "readback_other"
  /\ \E r \in LiveAt(ver[j]) :
       IF Reusable(r) THEN Finish(j, "reused", r.id)
       ELSE IF Orphan(r) THEN Finish(j, "reconcile", r.id)
       ELSE Finish(j, "skipped", None)
  /\ UNCHANGED <<live, buried, upstream, asked, cleared, req, ver, ret>>

ReadBackOtherFails(j) ==
  /\ pc[j] = "readback_other"
  /\ Finish(j, "failed", None)
  /\ UNCHANGED <<live, buried, upstream, asked, cleared, req, ver, ret>>

\* Mutant: the release names the slot version and not the job.
MutReleasedByAnyJob(j) == {r \in LiveAt(ver[j]) : r.status = "pending"}

\* DeleteDispatchClaim: a job releases its own pending claim and no other row.
ReleasedBy(j) == {r \in OwnRows(j) : r.status = "pending"}

ReleaseClaim(j) ==
  /\ pc[j] = "release"
  /\ live' = live \ ReleasedBy(j)
  /\ Finish(j, "failed", None)
  /\ UNCHANGED <<buried, upstream, asked, cleared, req, ver, ret>>

ReleaseFails(j) ==
  /\ pc[j] = "release"
  /\ Finish(j, "failed", None)
  /\ UNCHANGED <<live, buried, upstream, asked, cleared, req, ver, ret>>

-----------------------------------------------------------------------------
(* The provider call. *)

\* The request takes effect on the platform: before the call returns, or long
\* after the call timed out or its process died.
CreateUpstream(j) ==
  /\ j \in asked
  /\ upstream' = [upstream EXCEPT ![j] = ver[j]]
  /\ asked' = asked \ {j}
  /\ UNCHANGED <<live, buried, cleared, pc, req, ver, ret, res>>

\* What a successful dispatch may resolve to.  A version composes its campaign's
\* name, so a platform that reuses campaigns by name may hand back an earlier
\* one of the same version, or one another brief holds.
Resolved(j) ==
  IF upstream[j] # 0 THEN {j}
  ELSE {i \in Job : upstream[i] = ver[j]} \cup BoundElsewhere

ReturnSuccess(j) ==
  /\ pc[j] = "call"
  /\ \E id \in Resolved(j), st \in {"created", "created_degraded"} :
       ret' = [ret EXCEPT ![j] = [err |-> FALSE, id |-> id, status |-> st, detail |-> TRUE]]
  /\ asked' = asked \ {j}
  /\ Goto(j, "persist")
  /\ UNCHANGED <<live, buried, upstream, cleared, req, ver>>

\* Mutant: an unfinished campaign keeps the running status its dispatcher set.
MutKeepsStatus(st) == st

\* Only a status that says what went wrong survives on a retained row.
Flattened(st) == IF st \in PreservableErrorStatuses THEN st ELSE "pending"

\* What dispatchers put on the campaign they return beside an error; "active"
\* stands for any status that would read as complete.
ErrorStatus == PreservableErrorStatuses \cup {"active"}

\* Mutant: NoUpstreamCreate is believed even when a campaign came back with it.
MutPartialReleases(j) ==
  /\ pc[j] = "call"
  /\ Goto(j, "release")
  /\ UNCHANGED <<live, buried, upstream, asked, cleared, req, ver, ret>>

\* An error together with what was built so far: an id, the job's own or one reused,
\* or a Result blob alone.  An id ends the create; without one it may still take effect.
ReturnPartial(j) ==
  /\ pc[j] = "call"
  /\ \E id \in {None} \cup Resolved(j), st \in ErrorStatus :
       /\ st = "created_degraded" => id # None
       /\ ret' = [ret EXCEPT ![j] =
                 [err |-> TRUE, id |-> id, status |-> Flattened(st), detail |-> TRUE]]
       /\ asked' = IF id = None THEN asked ELSE asked \ {j}
  /\ Goto(j, "persist")
  /\ UNCHANGED <<live, buried, upstream, cleared, req, ver>>

\* An error the dispatcher vouches happened before any create request.
ReturnPreCreate(j) ==
  /\ pc[j] = "call"
  /\ j \in asked
  /\ asked' = asked \ {j}
  /\ Goto(j, "release")
  /\ UNCHANGED <<live, buried, upstream, cleared, req, ver, ret>>

\* Mutant: a call without an answer frees the slot for a retry.
MutNothingReleases(j) ==
  /\ pc[j] = "call"
  /\ Goto(j, "release")
  /\ UNCHANGED <<live, buried, upstream, asked, cleared, req, ver, ret>>

\* An ambiguous error, no campaign, an empty id or a panic: the claim is kept.
ReturnNothing(j) ==
  /\ pc[j] = "call"
  /\ Finish(j, "failed", None)
  /\ UNCHANGED <<live, buried, upstream, asked, cleared, req, ver, ret>>

-----------------------------------------------------------------------------
(* Recording the result: UpsertCampaign. *)

\* Mutant: only the claimed version has to be free, not the slot.
MutOwnsOrVersionFree(j) == OwnRows(j) # {} \/ LiveAt(ver[j]) = {}

\* The claim is still this job's, or it is gone and nothing is live on the slot.
OwnsOrEmpty(j) == OwnRows(j) # {} \/ live = {}

RecordedRow(j) ==
  [ver |-> ver[j], job |-> j, id |-> ret[j].id, status |-> ret[j].status, detail |-> ret[j].detail]

CanRecord(j) == OwnsOrEmpty(j) /\ ~AlreadyBound(ret[j].id, live \ OwnRows(j))

Record(j) == live' = (live \ OwnRows(j)) \cup {RecordedRow(j)}

NamedId(j) == IF ret[j].err THEN None ELSE ret[j].id

PersistRecords(j) ==
  /\ pc[j] = "persist"
  /\ CanRecord(j)
  /\ Record(j)
  /\ IF ret[j].err THEN Finish(j, "failed", None) ELSE Finish(j, "created", ret[j].id)
  /\ UNCHANGED <<buried, upstream, asked, cleared, req, ver, ret>>

\* ErrDispatchClaimLost: nothing is written and the job result carries the id.
PersistClaimLost(j) ==
  /\ pc[j] = "persist"
  /\ ~OwnsOrEmpty(j)
  /\ Finish(j, "lost", ret[j].id)
  /\ UNCHANGED <<live, buried, upstream, asked, cleared, req, ver, ret>>

\* The write is refused as already bound or fails, or its commit's answer is
\* lost; the pending claim stays unless that commit did land.
PersistFails(j) ==
  /\ pc[j] = "persist"
  /\ OwnsOrEmpty(j)
  /\ UNCHANGED live \/ (CanRecord(j) /\ Record(j))
  /\ Finish(j, "failed", NamedId(j))
  /\ UNCHANGED <<buried, upstream, asked, cleared, req, ver, ret>>

-----------------------------------------------------------------------------
(* The job's process, and the slot's other writers. *)

Crash(j) ==
  /\ pc[j] \notin {"idle", "done", "dead"}
  /\ Goto(j, "dead")
  /\ UNCHANGED <<live, buried, upstream, asked, cleared, req, ver, ret>>

\* Binds an existing upstream campaign, always as version 1, to an empty slot.
AdoptCampaign(id) ==
  /\ id \in Foreign \/ (id \in Job /\ upstream[id] # 0)
  /\ live = {}
  /\ ~AlreadyBound(id, {})
  /\ live' = {[ver |-> 1, job |-> None, id |-> id, status |-> "created", detail |-> TRUE]}
  /\ UNCHANGED <<buried, upstream, asked, cleared, pc, req, ver, ret, res>>

\* Soft deletion: the version is free again, the campaign's id is kept.
DeleteCampaign(r) ==
  /\ r \in live
  /\ Deletable(r)
  /\ LET b == buried \cup {[ver |-> r.ver, id |-> r.id]}
     IN Cardinality(b) <= MaxDeleted /\ buried' = b
  /\ live' = live \ {r}
  /\ UNCHANGED <<upstream, asked, cleared, pc, req, ver, ret, res>>

\* The operator's clear: any job's claim, as long as it is still pending.
ClearDispatchClaim(r) ==
  /\ r \in live
  /\ r.status = "pending"
  /\ Cardinality(cleared \cup {r.job}) <= MaxCleared
  /\ live' = live \ {r}
  /\ cleared' = cleared \cup {r.job}
  /\ UNCHANGED <<buried, upstream, asked, pc, req, ver, ret, res>>

JobStep(j) ==
  \/ Start(j)
  \/ LookupFails(j) \/ LookupReuses(j) \/ LookupFindsUnfinished(j) \/ LookupTargets(j)
  \/ ClaimRefused(j) \/ ClaimInserts(j) \/ ClaimConflicts(j) \/ ClaimFails(j)
  \/ ReadBackOwn(j) \/ ReadBackOwnFails(j) \/ ReadBackOther(j) \/ ReadBackOtherFails(j)
  \/ ReleaseClaim(j) \/ ReleaseFails(j)
  \/ CreateUpstream(j)
  \/ ReturnSuccess(j) \/ ReturnPartial(j) \/ ReturnPreCreate(j) \/ ReturnNothing(j)
  \/ PersistRecords(j) \/ PersistClaimLost(j) \/ PersistFails(j)
  \/ Crash(j)

Next ==
  \/ \E j \in Job : JobStep(j)
  \/ \E id \in CampaignId : AdoptCampaign(id)
  \/ \E r \in live : DeleteCampaign(r) \/ ClearDispatchClaim(r)

Spec == Init /\ [][Next]_vars

-----------------------------------------------------------------------------
(* Properties. *)

\* At most one paid campaign is ever created for a slot version, across every
\* replica, crash, timeout and late effect of a create request, as long as the
\* version's claim was not cleared by an operator and the version was not
\* freed by deleting its campaign.
NoDoubleCreate ==
  \A i, j \in Job :
    /\ i # j
    /\ upstream[i] # 0
    /\ upstream[i] = upstream[j]
    => i \in cleared \/ j \in cleared \/ upstream[i] \in DeletedVersions

\* A paid campaign is never forgotten, at any step of its job or after its
\* death: a live or a soft-deleted row names it, or its version is held by an
\* unfinished row of that job, which blocks a repeat and is there to reconcile.
\* After an operator's clear of the claim the platform alone may know of it.
EveryCampaignTracked ==
  \A j \in Job :
    upstream[j] # 0 =>
      \/ \E r \in live : r.id = j \/ (r.job = j /\ ~Reusable(r))
      \/ \E b \in buried : b.id = j
      \/ j \in cleared

\* Both requests come from one form: a double click, a reload, a second tab or
\* a replay of the same new_version request.
SameSubmission(i, j) == i # j /\ req[i].new /\ req[j].new /\ req[i].exp = req[j].exp

\* A new_version request submitted twice pays for one campaign, when the
\* campaign its caller saw is still there, or the caller saw none.
DoubleSubmitCreatesOne ==
  \A i, j \in Job :
    /\ SameSubmission(i, j)
    /\ req[i].exp = 0 \/ \E r \in live : r.ver = req[i].exp /\ r.job \notin {i, j}
    /\ buried = {} /\ cleared = {}
    => upstream[i] = 0 \/ upstream[j] = 0

Finishes(j, kind) == res[j].kind = "running" /\ res'[j].kind = kind

\* What a new_version request reports as created is not a campaign somebody
\* deleted: its version, and so its upstream name, was never used before.
NewVersionNeverRevivesADeleted ==
  [][\A j \in Job :
       Finishes(j, "created") /\ req[j].new /\ cleared = {} =>
         \A b \in buried : b.id # res'[j].id]_vars

\* A live row changes or goes away only by its own job's step, by a deletion
\* that keeps its campaign's id, or by an operator clearing a pending claim.
\* A dispatch that lost its claim never touches the successor's row.
OnlyTheOwnerTouchesARow ==
  [][\A r \in live \ live' :
       \/ r.job \in Job /\ pc'[r.job] # pc[r.job]
       \/ Deletable(r) /\ [ver |-> r.ver, id |-> r.id] \in buried'
       \/ r.status = "pending" /\ r.job \in cleared']_vars

\* A second live row comes to stand beside another only as a fresh claim.  The
\* late result of a dispatch whose claim is gone, and an adoption, never do it.
BesideOnlyByClaim ==
  [][\A r \in live' :
       /\ live # {}
       /\ \A s \in live : s.ver # r.ver
       => r = ClaimRow(r.job) /\ pc[r.job] = "claim"]_vars

\* design/brief.go: without new_version, "repeating a create for a platform
\* that already has a completed campaign returns that campaign".  So a retry
\* never claims a campaign of its own beside a complete one.
RetryNeverAddsACampaign ==
  [][\A r \in live' \ live :
       /\ r.job \in Job
       /\ pc[r.job] = "claim"
       /\ ~req[r.job].new
       => \A s \in live : ~Reusable(s)]_vars
=============================================================================
