------------------------ MODULE AudienceBuildProofs ------------------------
(***************************************************************************)
(* Proofs about AudienceBuild and the BriefApproval it extends, for every  *)
(* set of builds and any number of edits and faults.  The inductive        *)
(* invariant says what the versions read of the brief tell of its content, *)
(* that one row at most is building, and what each stage of a build tells  *)
(* of its row and its lists.                                               *)
(***************************************************************************)
EXTENDS AudienceBuild, TLAPS

\* A reading of the brief is as old as its version.
Known(r) == r # NoRead => r.version <= brief.version /\ (r.version = brief.version => r = brief)

Approvals ==
  /\ Known(review) /\ Known(order)
  /\ order # NoRead => order.content \in signedOff
  /\ brief.status = "approved" => brief.content \in signedOff
  /\ dispatched \subseteq signedOff

Plans ==
  \A b \in Build :
    /\ pc[b] \in {"claimed", "planned"} => claimed[b] <= brief.version
    /\ pc[b] = "planned" =>
         planned[b] \in signedOff /\ (claimed[b] = brief.version => planned[b] = brief.content)

Leases ==
  /\ \A b, o \in Build : row[b].status = "building" /\ row[o].status = "building" => b = o
  /\ lockedBy # {} => LeaseFree

Rows ==
  \A b \in Build :
    /\ row[b].version <= edits + (IF pc[b] = "over" THEN 2 ELSE 1)
    /\ row[b].status = "none" <=> row[b].version = 0
    /\ row[b].version = 1 => row[b].status = "building"
    /\ pc[b] = "new" => row[b].status = "none" /\ b \notin lockedBy \cup handled
    /\ b \in lockedBy =>
         /\ row[b].status = "none" /\ pc[b] \in {"reconciling", "over"}
         /\ pc[b] = "over" => b \in faulted

Early == {"new", "reconciling", "claimed", "planned", "releasing"}

Outcomes ==
  \A b \in Build :
    /\ pc[b] \in Early => outcome[b] = "unstarted"
    /\ pc[b] = "creating" => outcome[b] = "building" /\ (b \in lists => b \in ids)
    /\ pc[b] = "recording" => outcome[b] # "unstarted" /\ (outcome[b] = "failed" => b \notin lists)
    /\ outcome[b] = "unstarted" => b \notin lists

\* A row nobody took in hand is building as long as its build may come to lists, and
\* as long as the lists it came to are not recorded.
Kept ==
  \A b \in Build \ handled :
    /\ pc[b] \in {"claimed", "planned", "creating", "recording"} => row[b].status = "building"
    /\ b \in lists => row[b].status \in {"building", "built"}
    /\ pc[b] = "over" /\ outcome[b] = "unstarted" /\ b \notin faulted => row[b].status # "building"

Inv == TypeOK /\ Approvals /\ Plans /\ Leases /\ Rows /\ Outcomes /\ Kept

-----------------------------------------------------------------------------
(* The brief. *)

LEMMA Start == Init => Inv
<1> SUFFICES ASSUME Init PROVE Inv
  OBVIOUS
<1>1. TypeOK
  BY BriefConstants, BuildConstants DEF Init, BriefInit, TypeOK, BriefTypeOK, Brief, NoVersion
<1>2. Approvals /\ Plans /\ Leases /\ Rows /\ Outcomes /\ Kept
  BY BriefConstants, BuildConstants
  DEF Init, BriefInit, Approvals, Known, Plans, Leases, LeaseFree, Rows, Early, Outcomes, Kept, NoVersion
<1> QED
  BY <1>1, <1>2 DEF Inv

LEMMA BriefStep ==
  ASSUME Inv, BriefNext, UNCHANGED buildVars
  PROVE  Inv'
<1> USE BriefConstants, BuildConstants
<1>0. UNCHANGED <<row, pc, claimed, planned, ids, outcome, lists, edits, handled, faulted, lockedBy>>
  BY DEF BriefNext, ReadForReview, ReadForDispatch, ReplaceBrief, Approve, ArchiveBrief, CreateJob,
         buildVars, local, operator
<1>1. BriefTypeOK'
  <2>1. CASE ReadForReview
    BY <2>1 DEF Inv, TypeOK, BriefTypeOK, Brief, ReadForReview, Live
  <2>2. CASE ReadForDispatch
    BY <2>2 DEF Inv, TypeOK, BriefTypeOK, Brief, ReadForDispatch, Live
  <2>3. CASE ReplaceBrief
    BY <2>3 DEF Inv, TypeOK, BriefTypeOK, Brief, ReplaceBrief, Writable, Live
  <2>4. CASE Approve
    <3>0. brief' = [version |-> brief.version + 1, status |-> "approved", content |-> brief.content]
      BY <2>4 DEF Inv, TypeOK, BriefTypeOK, Brief, Approve
    <3>1. brief' \in Brief
      BY <2>4, <3>0 DEF Inv, TypeOK, BriefTypeOK, Brief, Approve, Writable
    <3>2. signedOff' \subseteq 1 .. MaxVersion
      BY <2>4 DEF Inv, TypeOK, BriefTypeOK, Brief, Approve
    <3> QED
      BY <2>4, <3>1, <3>2 DEF Inv, TypeOK, BriefTypeOK, Approve
  <2>5. CASE ArchiveBrief
    <3>0. brief' = [version |-> brief.version + 1, status |-> "archived", content |-> brief.content]
      BY <2>5 DEF Inv, TypeOK, BriefTypeOK, Brief, ArchiveBrief
    <3>1. brief' \in Brief
      BY <2>5, <3>0 DEF Inv, TypeOK, BriefTypeOK, Brief, ArchiveBrief, Writable
    <3> QED
      BY <2>5, <3>1 DEF Inv, TypeOK, BriefTypeOK, ArchiveBrief
  <2>6. CASE CreateJob
    BY <2>6 DEF Inv, TypeOK, BriefTypeOK, Brief, CreateJob, ApprovedAt
  <2> QED
    BY <2>1, <2>2, <2>3, <2>4, <2>5, <2>6 DEF BriefNext
<1>2. Approvals'
  <2>1. CASE ReadForReview
    BY <2>1 DEF Inv, TypeOK, BriefTypeOK, Brief, Approvals, Known, ReadForReview, Live
  <2>2. CASE ReadForDispatch
    BY <2>2 DEF Inv, TypeOK, BriefTypeOK, Brief, Approvals, Known, ReadForDispatch, Live
  <2>3. CASE ReplaceBrief
    BY <2>3 DEF Inv, TypeOK, BriefTypeOK, Brief, Approvals, Known, ReplaceBrief, Writable, Live
  <2>4. CASE Approve
    BY <2>4 DEF Inv, TypeOK, BriefTypeOK, Brief, Approvals, Known, Approve, Writable, Live, Approvable
  <2>5. CASE ArchiveBrief
    BY <2>5 DEF Inv, TypeOK, BriefTypeOK, Brief, Approvals, Known, ArchiveBrief, Writable, Live
  <2>6. CASE CreateJob
    BY <2>6 DEF Inv, TypeOK, BriefTypeOK, Brief, Approvals, Known, CreateJob, ApprovedAt
  <2> QED
    BY <2>1, <2>2, <2>3, <2>4, <2>5, <2>6 DEF BriefNext
<1>3. Plans'
  <2>1. CASE ReadForReview
    BY <2>1 DEF Inv, TypeOK, BriefTypeOK, Brief, Plans, buildVars, local, ReadForReview, Live
  <2>2. CASE ReadForDispatch
    BY <2>2 DEF Inv, TypeOK, BriefTypeOK, Brief, Plans, buildVars, local, ReadForDispatch, Live
  <2>3. CASE ReplaceBrief
    BY <2>3 DEF Inv, TypeOK, BriefTypeOK, Brief, Plans, buildVars, local, ReplaceBrief, Writable, Live
  <2>4. CASE Approve
    BY <2>4 DEF Inv, TypeOK, BriefTypeOK, Brief, Plans, buildVars, local, Approve, Writable, Live, Approvable
  <2>5. CASE ArchiveBrief
    BY <2>5 DEF Inv, TypeOK, BriefTypeOK, Brief, Plans, buildVars, local, ArchiveBrief, Writable, Live
  <2>6. CASE CreateJob
    BY <2>6 DEF Inv, TypeOK, BriefTypeOK, Brief, Plans, buildVars, local, CreateJob, ApprovedAt
  <2> QED
    BY <2>1, <2>2, <2>3, <2>4, <2>5, <2>6 DEF BriefNext
<1>4. TypeOK'
  BY <1>0, <1>1 DEF Inv, TypeOK
<1>5. Leases' /\ Rows' /\ Outcomes' /\ Kept'
  BY <1>0 DEF Inv, Leases, LeaseFree, Rows, Early, Outcomes, Kept
<1> QED
  BY <1>2, <1>3, <1>4, <1>5 DEF Inv

-----------------------------------------------------------------------------
(* The builds. *)

LEMMA BuildsLeaveTheBrief ==
  ASSUME NEW b \in Build, BuildStep(b)
  PROVE  UNCHANGED <<brief, review, order, signedOff, dispatched>>
BY DEF BuildStep, Claim, ClaimUnacknowledged, CommitEnds, ClaimRefused, Reconcile, Plan, Confirm, ReleaseClaim,
       CreateList, AllListsCreated, ListFails, Record, Fault, EditRow, briefVars, briefData

LEMMA TypesKept ==
  ASSUME Inv, NEW b \in Build, BuildStep(b)
  PROVE  TypeOK'
<1> USE BriefConstants, BuildConstants
<1> USE DEF Inv, TypeOK, BriefTypeOK, Brief, Rows, NoVersion
<1>1. CASE Claim(b)
  BY <1>1 DEF Claim, Goto, operator, briefVars, BuildingRow, LeaseFree
<1>2. CASE ClaimUnacknowledged(b)
  BY <1>2 DEF ClaimUnacknowledged, Goto, operator, briefData, LeaseFree
<1>3. CASE CommitEnds(b)
  BY <1>3 DEF CommitEnds, local, operator, briefData, BuildingRow
<1>4. CASE ClaimRefused(b)
  BY <1>4 DEF ClaimRefused, Goto, operator, briefVars
<1>5. CASE Reconcile(b)
  BY <1>5 DEF Reconcile, Goto, operator, briefVars, MayStopReconciling, Released, Releasable
<1>6. CASE Plan(b)
  BY <1>6 DEF Plan, Goto, operator, briefVars
<1>7. CASE Confirm(b)
  BY <1>7 DEF Confirm, Goto, operator, briefVars, Confirmed, ApprovedAt
<1>8. CASE ReleaseClaim(b)
  BY <1>8 DEF ReleaseClaim, Goto, operator, briefVars, Released, Releasable
<1>9. CASE CreateList(b)
  BY <1>9 DEF CreateList, Goto, operator, briefVars
<1>10. CASE AllListsCreated(b)
  BY <1>10 DEF AllListsCreated, Goto, operator, briefVars
<1>11. CASE ListFails(b)
  BY <1>11 DEF ListFails, Goto, operator, briefVars, AfterError
<1>12. CASE Record(b)
  BY <1>12 DEF Record, Goto, operator, briefVars, BuildingRow, Outcomes
<1>13. CASE Fault(b)
  BY <1>13 DEF Fault, Goto, operator, briefVars
<1>14. CASE EditRow(b)
  BY <1>14 DEF EditRow, local, briefVars, LeaseFree, Live
<1> QED
  BY <1>1, <1>2, <1>3, <1>4, <1>5, <1>6, <1>7, <1>8, <1>9, <1>10, <1>11, <1>12, <1>13, <1>14 DEF BuildStep

LEMMA PlansKept ==
  ASSUME Inv, NEW b \in Build, BuildStep(b)
  PROVE  Plans'
<1> USE BriefConstants, BuildConstants
<1> USE DEF Inv, TypeOK, BriefTypeOK, Brief, Approvals, Plans
<1>1. CASE Claim(b)
  BY <1>1 DEF Claim, Goto, operator, briefVars, BuildingRow, LeaseFree
<1>2. CASE ClaimUnacknowledged(b)
  BY <1>2 DEF ClaimUnacknowledged, Goto, operator, briefData, LeaseFree
<1>3. CASE CommitEnds(b)
  BY <1>3 DEF CommitEnds, local, operator, briefData, BuildingRow
<1>4. CASE ClaimRefused(b)
  BY <1>4 DEF ClaimRefused, Goto, operator, briefVars
<1>5. CASE Reconcile(b)
  BY <1>5 DEF Reconcile, Goto, operator, briefVars, MayStopReconciling, Released, Releasable
<1>6. CASE Plan(b)
  BY <1>6 DEF Plan, Goto, operator, briefVars
<1>7. CASE Confirm(b)
  BY <1>7 DEF Confirm, Goto, operator, briefVars, Confirmed, ApprovedAt
<1>8. CASE ReleaseClaim(b)
  BY <1>8 DEF ReleaseClaim, Goto, operator, briefVars, Released, Releasable
<1>9. CASE CreateList(b)
  BY <1>9 DEF CreateList, Goto, operator, briefVars
<1>10. CASE AllListsCreated(b)
  BY <1>10 DEF AllListsCreated, Goto, operator, briefVars
<1>11. CASE ListFails(b)
  BY <1>11 DEF ListFails, Goto, operator, briefVars, AfterError
<1>12. CASE Record(b)
  BY <1>12 DEF Record, Goto, operator, briefVars, BuildingRow
<1>13. CASE Fault(b)
  BY <1>13 DEF Fault, Goto, operator, briefVars
<1>14. CASE EditRow(b)
  BY <1>14 DEF EditRow, local, briefVars, LeaseFree, Live
<1> QED
  BY <1>1, <1>2, <1>3, <1>4, <1>5, <1>6, <1>7, <1>8, <1>9, <1>10, <1>11, <1>12, <1>13, <1>14 DEF BuildStep

LEMMA LeasesKept ==
  ASSUME Inv, NEW b \in Build, BuildStep(b)
  PROVE  Leases'
<1> USE BriefConstants, BuildConstants
<1> USE DEF Inv, TypeOK, BriefTypeOK, Leases, LeaseFree, Rows
<1>1. CASE Claim(b)
  BY <1>1 DEF Claim, Goto, operator, briefVars, BuildingRow, LeaseFree
<1>2. CASE ClaimUnacknowledged(b)
  BY <1>2 DEF ClaimUnacknowledged, Goto, operator, briefData, LeaseFree
<1>3. CASE CommitEnds(b)
  BY <1>3 DEF CommitEnds, local, operator, briefData, BuildingRow
<1>4. CASE ClaimRefused(b)
  BY <1>4 DEF ClaimRefused, Goto, operator, briefVars
<1>5. CASE Reconcile(b)
  BY <1>5 DEF Reconcile, Goto, operator, briefVars, MayStopReconciling, Released, Releasable
<1>6. CASE Plan(b)
  BY <1>6 DEF Plan, Goto, operator, briefVars
<1>7. CASE Confirm(b)
  BY <1>7 DEF Confirm, Goto, operator, briefVars, Confirmed, ApprovedAt
<1>8. CASE ReleaseClaim(b)
  BY <1>8 DEF ReleaseClaim, Goto, operator, briefVars, Released, Releasable
<1>9. CASE CreateList(b)
  BY <1>9 DEF CreateList, Goto, operator, briefVars
<1>10. CASE AllListsCreated(b)
  BY <1>10 DEF AllListsCreated, Goto, operator, briefVars
<1>11. CASE ListFails(b)
  BY <1>11 DEF ListFails, Goto, operator, briefVars, AfterError
<1>12. CASE Record(b)
  BY <1>12 DEF Record, Goto, operator, briefVars, BuildingRow
<1>13. CASE Fault(b)
  BY <1>13 DEF Fault, Goto, operator, briefVars
<1>14. CASE EditRow(b)
  BY <1>14 DEF EditRow, local, briefVars, LeaseFree, Live
<1> QED
  BY <1>1, <1>2, <1>3, <1>4, <1>5, <1>6, <1>7, <1>8, <1>9, <1>10, <1>11, <1>12, <1>13, <1>14 DEF BuildStep

LEMMA RowsKept ==
  ASSUME Inv, NEW b \in Build, BuildStep(b)
  PROVE  Rows'
<1> USE BriefConstants, BuildConstants
<1> USE DEF Inv, TypeOK, BriefTypeOK, Rows, Kept
<1>1. CASE Claim(b)
  BY <1>1 DEF Claim, Goto, operator, briefVars, BuildingRow, LeaseFree
<1>2. CASE ClaimUnacknowledged(b)
  BY <1>2 DEF ClaimUnacknowledged, Goto, operator, briefData, LeaseFree
<1>3. CASE CommitEnds(b)
  BY <1>3 DEF CommitEnds, local, operator, briefData, BuildingRow
<1>4. CASE ClaimRefused(b)
  BY <1>4 DEF ClaimRefused, Goto, operator, briefVars
<1>5. CASE Reconcile(b)
  BY <1>5 DEF Reconcile, Goto, operator, briefVars, MayStopReconciling, Released, Releasable
<1>6. CASE Plan(b)
  BY <1>6 DEF Plan, Goto, operator, briefVars
<1>7. CASE Confirm(b)
  BY <1>7 DEF Confirm, Goto, operator, briefVars, Confirmed, ApprovedAt
<1>8. CASE ReleaseClaim(b)
  BY <1>8 DEF ReleaseClaim, Goto, operator, briefVars, Released, Releasable
<1>9. CASE CreateList(b)
  BY <1>9 DEF CreateList, Goto, operator, briefVars
<1>10. CASE AllListsCreated(b)
  BY <1>10 DEF AllListsCreated, Goto, operator, briefVars
<1>11. CASE ListFails(b)
  BY <1>11 DEF ListFails, Goto, operator, briefVars, AfterError
<1>12. CASE Record(b)
  BY <1>12 DEF Record, Goto, operator, briefVars, BuildingRow
<1>13. CASE Fault(b)
  BY <1>13 DEF Fault, Goto, operator, briefVars
<1>14. CASE EditRow(b)
  BY <1>14 DEF EditRow, local, briefVars, LeaseFree, Live
<1> QED
  BY <1>1, <1>2, <1>3, <1>4, <1>5, <1>6, <1>7, <1>8, <1>9, <1>10, <1>11, <1>12, <1>13, <1>14 DEF BuildStep

LEMMA OutcomesKept ==
  ASSUME Inv, NEW b \in Build, BuildStep(b)
  PROVE  Outcomes'
<1> USE BriefConstants, BuildConstants
<1> USE DEF Inv, TypeOK, BriefTypeOK, Rows, Early, Outcomes
<1>1. CASE Claim(b)
  BY <1>1 DEF Claim, Goto, operator, briefVars, BuildingRow, LeaseFree
<1>2. CASE ClaimUnacknowledged(b)
  BY <1>2 DEF ClaimUnacknowledged, Goto, operator, briefData, LeaseFree
<1>3. CASE CommitEnds(b)
  BY <1>3 DEF CommitEnds, local, operator, briefData, BuildingRow
<1>4. CASE ClaimRefused(b)
  BY <1>4 DEF ClaimRefused, Goto, operator, briefVars
<1>5. CASE Reconcile(b)
  BY <1>5 DEF Reconcile, Goto, operator, briefVars, MayStopReconciling, Released, Releasable
<1>6. CASE Plan(b)
  BY <1>6 DEF Plan, Goto, operator, briefVars
<1>7. CASE Confirm(b)
  BY <1>7 DEF Confirm, Goto, operator, briefVars, Confirmed, ApprovedAt
<1>8. CASE ReleaseClaim(b)
  BY <1>8 DEF ReleaseClaim, Goto, operator, briefVars, Released, Releasable
<1>9. CASE CreateList(b)
  BY <1>9 DEF CreateList, Goto, operator, briefVars
<1>10. CASE AllListsCreated(b)
  BY <1>10 DEF AllListsCreated, Goto, operator, briefVars
<1>11. CASE ListFails(b)
  BY <1>11 DEF ListFails, Goto, operator, briefVars, AfterError
<1>12. CASE Record(b)
  BY <1>12 DEF Record, Goto, operator, briefVars, BuildingRow
<1>13. CASE Fault(b)
  BY <1>13 DEF Fault, Goto, operator, briefVars
<1>14. CASE EditRow(b)
  BY <1>14 DEF EditRow, local, briefVars, LeaseFree, Live
<1> QED
  BY <1>1, <1>2, <1>3, <1>4, <1>5, <1>6, <1>7, <1>8, <1>9, <1>10, <1>11, <1>12, <1>13, <1>14 DEF BuildStep

LEMMA RecordsKept ==
  ASSUME Inv, NEW b \in Build, BuildStep(b)
  PROVE  Kept'
<1> USE BriefConstants, BuildConstants
<1> USE DEF Inv, TypeOK, BriefTypeOK, Rows, Early, Outcomes, Kept
<1>1. CASE Claim(b)
  BY <1>1 DEF Claim, Goto, operator, briefVars, BuildingRow, LeaseFree
<1>2. CASE ClaimUnacknowledged(b)
  BY <1>2 DEF ClaimUnacknowledged, Goto, operator, briefData, LeaseFree
<1>3. CASE CommitEnds(b)
  BY <1>3 DEF CommitEnds, local, operator, briefData, BuildingRow
<1>4. CASE ClaimRefused(b)
  BY <1>4 DEF ClaimRefused, Goto, operator, briefVars
<1>5. CASE Reconcile(b)
  BY <1>5 DEF Reconcile, Goto, operator, briefVars, MayStopReconciling, Released, Releasable
<1>6. CASE Plan(b)
  BY <1>6 DEF Plan, Goto, operator, briefVars
<1>7. CASE Confirm(b)
  BY <1>7 DEF Confirm, Goto, operator, briefVars, Confirmed, ApprovedAt
<1>8. CASE ReleaseClaim(b)
  BY <1>8 DEF ReleaseClaim, Goto, operator, briefVars, Released, Releasable
<1>9. CASE CreateList(b)
  BY <1>9 DEF CreateList, Goto, operator, briefVars
<1>10. CASE AllListsCreated(b)
  BY <1>10 DEF AllListsCreated, Goto, operator, briefVars
<1>11. CASE ListFails(b)
  BY <1>11 DEF ListFails, Goto, operator, briefVars, AfterError
<1>12. CASE Record(b)
  BY <1>12 DEF Record, Goto, operator, briefVars, BuildingRow
<1>13. CASE Fault(b)
  BY <1>13 DEF Fault, Goto, operator, briefVars
<1>14. CASE EditRow(b)
  BY <1>14 DEF EditRow, local, briefVars, LeaseFree, Live
<1> QED
  BY <1>1, <1>2, <1>3, <1>4, <1>5, <1>6, <1>7, <1>8, <1>9, <1>10, <1>11, <1>12, <1>13, <1>14 DEF BuildStep

LEMMA Invariance == Spec => []Inv
<1>1. Inv /\ [Next]_vars => Inv'
  <2> SUFFICES ASSUME Inv, [Next]_vars PROVE Inv'
    OBVIOUS
  <2>1. CASE BriefNext /\ UNCHANGED buildVars
    BY <2>1, BriefStep
  <2>2. ASSUME NEW b \in Build, BuildStep(b) PROVE Inv'
    <3>1. Approvals'
      BY <2>2, BuildsLeaveTheBrief DEF Inv, Approvals, Known
    <3> QED
      BY <2>2, <3>1, TypesKept, PlansKept, LeasesKept, RowsKept, OutcomesKept, RecordsKept DEF Inv
  <2>3. CASE UNCHANGED vars
    BY <2>3 DEF vars, briefVars, buildVars, local, operator, Inv, TypeOK, BriefTypeOK, Approvals, Known, Plans,
                Leases, LeaseFree, Rows, Early, Outcomes, Kept
  <2> QED
    BY <2>1, <2>2, <2>3 DEF Next
<1> QED
  BY <1>1, Start, PTL DEF Spec

-----------------------------------------------------------------------------
(* The theorems. *)

\* For any number of builds, edits and faults, a job is only created for a content that
\* an approver read and then approved (CreateJobForApprovedBrief, Approve).
THEOREM JobsAreSignedOff == Spec => []JobsUseSignedOffContent
BY Invariance, PTL DEF Inv, Approvals, JobsUseSignedOffContent

\* A build that ended before its first list left no claim (ReleaseAudienceBuildLease,
\* reconcileAmbiguousAudienceCommit), and the variables keep their types.
THEOREM NoClaimIsLeft == Spec => []NoClaimLeftBehind
<1>1. Inv => NoClaimLeftBehind
  BY DEF Inv, NoClaimLeftBehind, Kept
<1> QED
  BY <1>1, Invariance, PTL

LEMMA OnlyConfirmLeadsToLists ==
  ASSUME Inv, [Next]_vars, NEW b \in Build, pc[b] # "creating", pc'[b] = "creating"
  PROVE  pc[b] = "planned" /\ Confirmed(b) /\ BuildStep(b)
<1>1. ~UNCHANGED pc
  OBVIOUS
<1>2. PICK o \in Build : BuildStep(o)
  BY <1>1 DEF Next, vars, buildVars, local
<1>3. ASSUME NEW l, Goto(o, l) PROVE o = b
  BY <1>3 DEF Inv, TypeOK, Goto
<1>4. o = b
  <2>1. CASE CommitEnds(o) \/ CreateList(o) \/ EditRow(o)
    BY <1>1, <2>1 DEF CommitEnds, CreateList, EditRow, local
  <2>2. CASE Claim(o) \/ ClaimUnacknowledged(o) \/ ClaimRefused(o) \/ Reconcile(o) \/ Plan(o) \/ Confirm(o)
    BY <1>3, <2>2 DEF Claim, ClaimUnacknowledged, ClaimRefused, Reconcile, Plan, Confirm
  <2>3. CASE ReleaseClaim(o) \/ AllListsCreated(o) \/ ListFails(o) \/ Record(o) \/ Fault(o)
    BY <1>3, <2>3 DEF ReleaseClaim, AllListsCreated, ListFails, Record, Fault
  <2> QED
    BY <1>2, <2>1, <2>2, <2>3 DEF BuildStep
<1>5. pc'[b] = "creating" /\ b \in DOMAIN pc
  BY DEF Inv, TypeOK
<1>6. Confirm(b)
  <2>1. ~Claim(b) /\ ~ClaimUnacknowledged(b) /\ ~ClaimRefused(b) /\ ~Reconcile(b) /\ ~ReleaseClaim(b)
    BY <1>5 DEF Claim, ClaimUnacknowledged, ClaimRefused, Reconcile, ReleaseClaim, Goto
  <2>2. ~AllListsCreated(b) /\ ~ListFails(b) /\ ~Record(b) /\ ~Fault(b)
    BY <1>5 DEF AllListsCreated, ListFails, Record, Fault, Goto
  <2>3. ~CommitEnds(b) /\ ~CreateList(b) /\ ~EditRow(b)
    BY <1>5 DEF CommitEnds, CreateList, EditRow, local
  <2>4. ~Plan(b)
    BY <1>5 DEF Plan, Goto
  <2> QED
    BY <1>2, <1>4, <2>1, <2>2, <2>3, <2>4 DEF BuildStep
<1> QED
  BY <1>2, <1>4, <1>5, <1>6 DEF Confirm, Goto

\* A build comes to its first list only with the content that is approved at that
\* moment, which was read before its approval (ConfirmBriefApproved).
THEOREM ListsFollowTheApproval == Spec => ListsAreOfTheApprovedContent
<1>1. ASSUME Inv, [Next]_vars, NEW b \in Build, pc[b] # "creating", pc'[b] = "creating"
      PROVE  planned[b] \in signedOff /\ brief.status = "approved" /\ planned[b] = brief.content
  BY <1>1, OnlyConfirmLeadsToLists DEF Inv, Plans, Confirmed, ApprovedAt
<1>2. Inv /\ [Next]_vars => [\A b \in Build : pc[b] # "creating" /\ pc'[b] = "creating" =>
                               /\ planned[b] \in signedOff
                               /\ brief.status = "approved" /\ planned[b] = brief.content]_vars
  BY <1>1
<1> QED
  BY <1>2, Invariance, PTL DEF Spec, ListsAreOfTheApprovedContent

\* No build comes to its first list while those of another are unsettled, unless an
\* operator took a row in hand (the lease index, createPlanLists and its record).
THEOREM ListsAreNotMadeTwice == Spec => NoBlindRebuild
<1>1. ASSUME Inv, [Next]_vars, NEW b \in Build, pc[b] # "creating", pc'[b] = "creating",
             NEW o \in Build \ {b}, Unsettled(o)
      PROVE  {b, o} \cap handled # {}
  <2> SUFFICES ASSUME b \notin handled, o \notin handled PROVE FALSE
    OBVIOUS
  <2>1. row[b].status = "building"
    BY <1>1, OnlyConfirmLeadsToLists DEF Inv, Kept
  <2>2. row[o].status = "building"
    BY <1>1 DEF Inv, Kept, Unsettled
  <2> QED
    BY <1>1, <2>1, <2>2 DEF Inv, Leases
<1>2. Inv /\ [Next]_vars => [\A b \in Build : pc[b] # "creating" /\ pc'[b] = "creating" =>
                               \A o \in Build \ {b} : Unsettled(o) => {b, o} \cap handled # {}]_vars
  BY <1>1
<1> QED
  BY <1>2, Invariance, PTL DEF Spec, NoBlindRebuild
=============================================================================
