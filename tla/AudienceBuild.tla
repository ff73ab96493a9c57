---------------------------- MODULE AudienceBuild ----------------------------
(***************************************************************************)
(* Builds of a brief's audience in HubSpot.  A build first inserts its row *)
(* as `building', which at most one row of the brief may be (a partial     *)
(* unique index), then reads the brief and plans, confirms that the brief  *)
(* is still approved at the version its claim saw, creates the lists, and  *)
(* records what came of it.  A build that ends before its first list gives *)
(* the claim back; one whose lists may exist keeps it for an operator, who *)
(* may edit the row at any time.                                           *)
(***************************************************************************)
EXTENDS BriefApproval, FiniteSets

CONSTANTS
  Build,      \* requests to build, each made once
  MaxEdits,   \* bound: an operator's edits of the rows
  MaxFaults   \* bound: crashes and failed statements

ASSUME BuildConstants == IsFiniteSet(Build) /\ MaxEdits \in Nat /\ MaxFaults \in Nat

VARIABLES
  row,       \* each build's row: status, version
  pc,
  claimed,   \* the brief's version each build's claim saw
  planned,   \* the content each build's lists are made from
  ids,       \* builds that know of a list they created
  lists,     \* builds whose lists are in HubSpot, in part or whole
  outcome,   \* what each build will record
  edits,
  handled,   \* rows whose status an operator changed
  faulted    \* builds that a crash or a failed statement ended

local == <<pc, claimed, planned, ids, outcome>>
operator == <<edits, handled>>
buildVars == <<row, local, lists, operator, faulted>>
vars == <<briefVars, buildVars>>

briefData == <<brief, review, order, signedOff, dispatched>>

NoVersion == 0

TypeOK ==
  /\ BriefTypeOK
  /\ lockedBy \subseteq Build
  /\ row \in [Build -> [status : {"none", "building", "built", "failed"}, version : 0 .. MaxEdits + 2]]
  /\ pc \in [Build -> {"new", "reconciling", "claimed", "planned", "releasing",
                       "creating", "recording", "over"}]
  /\ claimed \in [Build -> 0 .. MaxVersion]
  /\ planned \in [Build -> 0 .. MaxVersion]
  /\ ids \subseteq lists
  /\ lists \subseteq Build
  /\ outcome \in [Build -> {"unstarted", "building", "built", "failed"}]
  /\ edits \in 0 .. MaxEdits
  /\ handled \subseteq Build
  /\ faulted \subseteq Build

Init ==
  /\ BriefInit
  /\ row = [b \in Build |-> [status |-> "none", version |-> 0]]
  /\ pc = [b \in Build |-> "new"]
  /\ claimed = [b \in Build |-> NoVersion]
  /\ planned = [b \in Build |-> NoVersion]
  /\ ids = {} /\ lists = {}
  /\ outcome = [b \in Build |-> "unstarted"]
  /\ edits = 0
  /\ handled = {} /\ faulted = {}

-----------------------------------------------------------------------------
Goto(b, l) == pc' = [pc EXCEPT ![b] = l]

\* The lease: no row is building.
LeaseFree == \A o \in Build : row[o].status # "building"

BuildingRow == [status |-> "building", version |-> 1]

\* CreateAudienceForApprovedBrief, committed.
Claim(b) ==
  /\ pc[b] = "new"
  /\ lockedBy = {} /\ brief.status = "approved"
  /\ LeaseFree
  /\ row' = [row EXCEPT ![b] = BuildingRow]
  /\ claimed' = [claimed EXCEPT ![b] = brief.version]
  /\ Goto(b, "claimed")
  /\ UNCHANGED <<briefVars, planned, ids, outcome, lists, operator, faulted>>

\* The same, with a commit that is not acknowledged: it may be under way still, the
\* brief's row locked and the new row unseen.
ClaimUnacknowledged(b) ==
  /\ pc[b] = "new"
  /\ lockedBy = {} /\ brief.status = "approved"
  /\ LeaseFree
  /\ lockedBy' = {b}
  /\ Goto(b, "reconciling")
  /\ UNCHANGED <<briefData, row, claimed, planned, ids, outcome, lists, operator, faulted>>

CommitEnds(b) ==
  /\ b \in lockedBy
  /\ lockedBy' = {}
  /\ row' \in {row, [row EXCEPT ![b] = BuildingRow]}
  /\ UNCHANGED <<briefData, local, lists, operator, faulted>>

\* The brief is not approved, the lease taken, or the transaction rolled back.
ClaimRefused(b) ==
  /\ pc[b] = "new"
  /\ Goto(b, "over")
  /\ UNCHANGED <<briefVars, row, claimed, planned, ids, outcome, lists, operator, faulted>>

\* Mutant: a release writes the version its build knows.
MutReleasable(b) == row[b] = BuildingRow

Releasable(b) == row[b].status = "building"

\* ReleaseAudienceBuildLease.
Released(b) ==
  IF Releasable(b) THEN [row EXCEPT ![b] = [status |-> "failed", version |-> @.version + 1]] ELSE row

\* Mutant: one look settles it.
MutMayStopReconciling(b) == TRUE

\* The attempts outlast a commit that is under way.
MayStopReconciling(b) == row[b].status # "none" \/ b \notin lockedBy

\* reconcileAmbiguousAudienceCommit.
Reconcile(b) ==
  /\ pc[b] = "reconciling"
  /\ MayStopReconciling(b)
  /\ row' = Released(b)
  /\ Goto(b, "over")
  /\ UNCHANGED <<briefVars, claimed, planned, ids, outcome, lists, operator, faulted>>

\* GetBrief and everything up to the portal's lookup; any of it may fail.
Plan(b) ==
  /\ pc[b] = "claimed"
  /\ \/ /\ brief.status = "approved"
        /\ planned' = [planned EXCEPT ![b] = brief.content]
        /\ Goto(b, "planned")
     \/ Goto(b, "releasing") /\ UNCHANGED planned
  /\ UNCHANGED <<briefVars, row, claimed, ids, outcome, lists, operator, faulted>>

\* Mutant: approved, at whatever version.
MutConfirmed(b) == lockedBy = {} /\ brief.status = "approved"

Confirmed(b) == ApprovedAt(claimed[b])

\* ConfirmBriefApproved.
Confirm(b) ==
  /\ pc[b] = "planned" /\ lockedBy = {}
  /\ IF Confirmed(b)
     THEN Goto(b, "creating") /\ outcome' = [outcome EXCEPT ![b] = "building"]
     ELSE Goto(b, "releasing") /\ UNCHANGED outcome
  /\ UNCHANGED <<briefVars, row, claimed, planned, ids, lists, operator, faulted>>

\* releaseUnstartedClaim.
ReleaseClaim(b) ==
  /\ pc[b] = "releasing"
  /\ row' = Released(b)
  /\ Goto(b, "over")
  /\ UNCHANGED <<briefVars, claimed, planned, ids, outcome, lists, operator, faulted>>

-----------------------------------------------------------------------------
(* createPlanLists and its record. *)

CreateList(b) ==
  /\ pc[b] = "creating" /\ b \notin ids
  /\ ids' = ids \cup {b} /\ lists' = lists \cup {b}
  /\ UNCHANGED <<briefVars, row, pc, claimed, planned, outcome, operator, faulted>>

AllListsCreated(b) ==
  /\ pc[b] = "creating" /\ b \in ids
  /\ outcome' = [outcome EXCEPT ![b] = "built"]
  /\ Goto(b, "recording")
  /\ UNCHANGED <<briefVars, row, claimed, planned, ids, lists, operator, faulted>>

\* Mutant: without an id, nothing was created.
MutAfterError(b, unconfirmed) == IF b \in ids THEN "building" ELSE "failed"

AfterError(b, unconfirmed) == IF b \in ids \/ unconfirmed THEN "building" ELSE "failed"

\* A create fails, for sure or with a list that may exist.
ListFails(b) ==
  /\ pc[b] = "creating"
  /\ \E unconfirmed \in BOOLEAN :
       /\ lists' \in IF unconfirmed THEN {lists, lists \cup {b}} ELSE {lists}
       /\ outcome' = [outcome EXCEPT ![b] = AfterError(b, unconfirmed)]
  /\ Goto(b, "recording")
  /\ UNCHANGED <<briefVars, row, claimed, planned, ids, operator, faulted>>

\* UpdateAudience, gated on the version the claim returned.
Record(b) ==
  /\ pc[b] = "recording"
  /\ row' = IF row[b].version = BuildingRow.version
            THEN [row EXCEPT ![b] = [status |-> outcome[b], version |-> @.version + 1]] ELSE row
  /\ Goto(b, "over")
  /\ UNCHANGED <<briefVars, claimed, planned, ids, outcome, lists, operator, faulted>>

\* The process dies, or the statement that would give back or record fails.
Fault(b) ==
  /\ pc[b] \notin {"new", "over"} /\ Cardinality(faulted) < MaxFaults
  /\ faulted' = faulted \cup {b}
  /\ Goto(b, "over")
  /\ UNCHANGED <<briefVars, row, claimed, planned, ids, outcome, lists, operator>>

\* An operator's PATCH of the row, of its status or of other fields.
EditRow(b) ==
  /\ edits < MaxEdits /\ row[b].status # "none" /\ Live
  /\ edits' = edits + 1
  /\ \E s \in {"building", "built", "failed"} :
       /\ s = "building" => row[b].status = "building" \/ (LeaseFree /\ lockedBy = {})
       /\ row' = [row EXCEPT ![b] = [status |-> s, version |-> @.version + 1]]
       /\ handled' = IF s = row[b].status THEN handled ELSE handled \cup {b}
  /\ UNCHANGED <<briefVars, local, lists, faulted>>

BuildStep(b) ==
  \/ Claim(b) \/ ClaimUnacknowledged(b) \/ CommitEnds(b) \/ ClaimRefused(b) \/ Reconcile(b)
  \/ Plan(b) \/ Confirm(b) \/ ReleaseClaim(b)
  \/ CreateList(b) \/ AllListsCreated(b) \/ ListFails(b) \/ Record(b)
  \/ Fault(b) \/ EditRow(b)

Next == (BriefNext /\ UNCHANGED buildVars) \/ \E b \in Build : BuildStep(b)

Spec == Init /\ [][Next]_vars

-----------------------------------------------------------------------------
(* Properties. *)

\* A build comes to its first list only with a content that was approved after being
\* read, and that is approved at that moment, whatever was edited since its claim.
ListsAreOfTheApprovedContent ==
  [][\A b \in Build : pc[b] # "creating" /\ pc'[b] = "creating" =>
       /\ planned[b] \in signedOff
       /\ brief.status = "approved" /\ planned[b] = brief.content]_vars

\* Lists exist, or are being made, that no row calls built.
Unsettled(b) == (pc[b] = "creating" \/ b \in lists) /\ row[b].status # "built"

\* No build comes to its first list while those of another are unsettled, which would
\* be made twice, unless an operator took the row of either in hand.
NoBlindRebuild ==
  [][\A b \in Build : pc[b] # "creating" /\ pc'[b] = "creating" =>
       \A o \in Build \ {b} : Unsettled(o) => {b, o} \cap handled # {}]_vars

\* A build that ended before its first list holds no lease, which would keep every
\* other build of the brief out: not after an unacknowledged commit, and not when the
\* row was edited meanwhile.
NoClaimLeftBehind ==
  /\ TypeOK
  /\ \A b \in Build \ (faulted \cup handled) :
       pc[b] = "over" /\ outcome[b] = "unstarted" => row[b].status # "building"
=============================================================================
