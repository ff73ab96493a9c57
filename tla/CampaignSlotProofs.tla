-------------------------- MODULE CampaignSlotProofs --------------------------
(***************************************************************************)
(* What CampaignSlot promises for any number of jobs, foreign campaigns,   *)
(* versions, deletions and clears.                                         *)
(***************************************************************************)
EXTENDS CampaignSlot, TLAPS

\* The create request of j may have, or may yet, put a campaign on the platform.
Committed(j) == j \in asked \/ upstream[j] # 0

\* The claim of j was cleared, or the campaign of its version deleted: the two
\* ways an operator frees a version.
Freed(j) == j \in cleared \/ ver[j] \in DeletedVersions

\* A row belongs to a job that has claimed, at the version that job claimed.
RowsOfClaimants ==
  \A r \in live : r.job # None => r.ver = ver[r.job] /\ pc[r.job] \notin {"idle", "lookup", "claim"}

OneRowPerVersion == \A r, s \in live : r.ver = s.ver => r = s

\* Nothing is asked of the platform before the claim is read back, nor after
\* an error the dispatcher vouches for.
QuietBeforeTheCall ==
  \A j \in Job :
    pc[j] \in {"idle", "lookup", "claim", "readback_own", "readback_other", "release"}
      => ~Committed(j)

\* A job creates once, at the version it claimed.
UpstreamAtTheClaimedVersion ==
  \A j \in Job : upstream[j] \in {0, ver[j]} /\ (j \in asked => upstream[j] = 0)

\* A job that may create a campaign holds its version's row, until it is freed.
CommittedJobsHoldTheirRow ==
  \A j \in Job : Committed(j) \/ pc[j] = "readback_own" => Freed(j) \/ OwnRows(j) # {}

SlotRest ==
  /\ RowsOfClaimants
  /\ OneRowPerVersion
  /\ QuietBeforeTheCall
  /\ UpstreamAtTheClaimedVersion
  /\ CommittedJobsHoldTheirRow

SlotInv == TypeOK /\ SlotRest

-----------------------------------------------------------------------------
(* Type correctness. *)

LEMMA InitTypeOK == Init => TypeOK
BY SlotConstants DEF Init, TypeOK, PC, Request, Return, NoReturn, Result, Outcome,
   Version, Status, CampaignId

\* Steps that only finish a job or move it on.
LEMMA FinishTypeOK ==
  ASSUME TypeOK, NEW j \in Job, NEW kind \in Outcome, NEW id \in CampaignId \cup {None},
         Finish(j, kind, id)
  PROVE  pc' \in [Job -> PC] /\ res' \in [Job -> Result]
BY DEF TypeOK, Finish, Result, PC

LEMMA GotoTypeOK ==
  ASSUME TypeOK, NEW j \in Job, NEW step \in PC, Goto(j, step)
  PROVE  pc' \in [Job -> PC] /\ res' \in [Job -> Result]
BY DEF TypeOK, Goto

LEMMA RowTypes ==
  ASSUME TypeOK, NEW j \in Job
  PROVE  /\ ClaimRow(j) \in Row
         /\ RecordedRow(j) \in Row
         /\ ret[j].id \in CampaignId \cup {None}
         /\ NamedId(j) \in CampaignId \cup {None}
<1>1. j # None
  BY SlotConstants
<1> QED
  BY <1>1 DEF TypeOK, ClaimRow, RecordedRow, NamedId, Row, Return, Status

LEMMA LookupTypeOK ==
  ASSUME TypeOK, NEW j \in Job,
         \/ Start(j) \/ LookupFails(j) \/ LookupReuses(j)
         \/ LookupFindsUnfinished(j) \/ LookupTargets(j)
  PROVE  TypeOK'
<1>1. CASE Start(j)
  <2>1. pc' \in [Job -> PC] /\ res' \in [Job -> Result]
    BY <1>1, GotoTypeOK DEF Start, PC
  <2>2. req' \in [Job -> Request]
    <3>1. req[j] \in Request /\ \A v \in Version \cup {0}, b \in BOOLEAN :
            [new |-> b, exp |-> v] \in Request
      BY DEF TypeOK, Request
    <3>2. PICK q \in Request : req' = [req EXCEPT ![j] = q]
      BY <1>1, <3>1 DEF Start
    <3> QED
      BY <3>2 DEF TypeOK
  <2> QED
    BY <1>1, <2>1, <2>2 DEF Start, TypeOK
<1>2. CASE LookupFails(j)
  BY <1>2, FinishTypeOK DEF LookupFails, TypeOK, Outcome
<1>3. CASE LookupReuses(j)
  <2>1. PICK r \in live : Finish(j, "reused", r.id)
    BY <1>3 DEF LookupReuses
  <2>2. r.id \in CampaignId \cup {None}
    BY <2>1 DEF TypeOK, Row
  <2> QED
    BY <1>3, <2>1, <2>2, FinishTypeOK DEF LookupReuses, TypeOK, Outcome
<1>4. CASE LookupFindsUnfinished(j)
  <2>1. PICK r \in live : Finish(j, "reconcile", r.id) \/ Finish(j, "skipped", None)
    BY <1>4 DEF LookupFindsUnfinished
  <2>2. r.id \in CampaignId \cup {None}
    BY <2>1 DEF TypeOK, Row
  <2>3. pc' \in [Job -> PC] /\ res' \in [Job -> Result]
    BY <2>1, <2>2, FinishTypeOK DEF Outcome
  <2> QED
    BY <1>4, <2>3 DEF LookupFindsUnfinished, TypeOK
<1>5. CASE LookupTargets(j)
  <2>1. pc' \in [Job -> PC] /\ res' \in [Job -> Result]
    BY <1>5, GotoTypeOK DEF LookupTargets, PC
  <2> QED
    BY <1>5, <2>1 DEF LookupTargets, TypeOK
<1> QED
  BY <1>1, <1>2, <1>3, <1>4, <1>5

LEMMA ClaimTypeOK ==
  ASSUME TypeOK, NEW j \in Job,
         \/ ClaimRefused(j) \/ ClaimInserts(j) \/ ClaimConflicts(j) \/ ClaimFails(j)
         \/ ReleaseClaim(j) \/ ReleaseFails(j)
  PROVE  TypeOK'
<1>1. CASE ClaimRefused(j)
  BY <1>1, FinishTypeOK DEF ClaimRefused, TypeOK, Outcome
<1>2. CASE ClaimInserts(j)
  BY <1>2, GotoTypeOK, RowTypes DEF ClaimInserts, TypeOK, PC
<1>3. CASE ClaimConflicts(j)
  BY <1>3, GotoTypeOK DEF ClaimConflicts, TypeOK, PC
<1>4. CASE ClaimFails(j)
  BY <1>4, FinishTypeOK, RowTypes DEF ClaimFails, TypeOK, Outcome
<1>5. CASE ReleaseClaim(j)
  BY <1>5, FinishTypeOK DEF ReleaseClaim, TypeOK, Outcome
<1>6. CASE ReleaseFails(j)
  BY <1>6, FinishTypeOK DEF ReleaseFails, TypeOK, Outcome
<1> QED
  BY <1>1, <1>2, <1>3, <1>4, <1>5, <1>6

LEMMA ReadBackTypeOK ==
  ASSUME TypeOK, NEW j \in Job,
         \/ ReadBackOwn(j) \/ ReadBackOwnFails(j)
         \/ ReadBackOther(j) \/ ReadBackOtherFails(j)
  PROVE  TypeOK'
<1>1. CASE ReadBackOwn(j)
  BY <1>1, GotoTypeOK DEF ReadBackOwn, TypeOK, PC
<1>2. CASE ReadBackOwnFails(j)
  BY <1>2, GotoTypeOK DEF ReadBackOwnFails, TypeOK, PC
<1>3. CASE ReadBackOther(j)
  <2>1. PICK r \in LiveAt(ver[j]) :
          \E kind \in Outcome : Finish(j, kind, r.id) \/ Finish(j, kind, None)
    BY <1>3 DEF ReadBackOther, Outcome
  <2>2. r.id \in CampaignId \cup {None}
    BY <2>1 DEF TypeOK, Row, LiveAt
  <2>3. pc' \in [Job -> PC] /\ res' \in [Job -> Result]
    BY <2>1, <2>2, FinishTypeOK
  <2> QED
    BY <1>3, <2>3 DEF ReadBackOther, TypeOK
<1>4. CASE ReadBackOtherFails(j)
  BY <1>4, FinishTypeOK DEF ReadBackOtherFails, TypeOK, Outcome
<1> QED
  BY <1>1, <1>2, <1>3, <1>4

LEMMA CallTypeOK ==
  ASSUME TypeOK, NEW j \in Job,
         \/ CreateUpstream(j) \/ ReturnSuccess(j) \/ ReturnPartial(j)
         \/ ReturnPreCreate(j) \/ ReturnNothing(j) \/ Crash(j)
  PROVE  TypeOK'
<1>1. CASE CreateUpstream(j)
  BY <1>1 DEF CreateUpstream, TypeOK
<1>2. CASE ReturnSuccess(j)
  <2>1. pc' \in [Job -> PC] /\ res' \in [Job -> Result]
    BY <1>2, GotoTypeOK DEF ReturnSuccess, PC
  <2>2. Resolved(j) \subseteq CampaignId
    BY SlotConstants DEF Resolved, CampaignId
  <2>3. ret' \in [Job -> Return]
    BY <1>2, <2>2 DEF ReturnSuccess, TypeOK, Return, Status, PreservableErrorStatuses
  <2> QED
    BY <1>2, <2>1, <2>3 DEF ReturnSuccess, TypeOK
<1>3. CASE ReturnPartial(j)
  <2>1. pc' \in [Job -> PC] /\ res' \in [Job -> Result]
    BY <1>3, GotoTypeOK DEF ReturnPartial, PC
  <2>2. PICK id \in {None} \cup Resolved(j), st \in ErrorStatus :
          ret' = [ret EXCEPT ![j] =
                   [err |-> TRUE, id |-> id, status |-> Flattened(st), detail |-> TRUE]]
    BY <1>3 DEF ReturnPartial
  <2>3. Flattened(st) \in Status
    BY DEF Flattened, Status
  <2>4. id \in CampaignId \cup {None}
    BY <2>2, SlotConstants DEF Resolved, CampaignId
  <2>5. ret' \in [Job -> Return]
    BY <2>2, <2>3, <2>4 DEF TypeOK, Return
  <2> QED
    BY <1>3, <2>1, <2>5 DEF ReturnPartial, TypeOK
<1>4. CASE ReturnPreCreate(j)
  BY <1>4, GotoTypeOK DEF ReturnPreCreate, TypeOK, PC
<1>5. CASE ReturnNothing(j)
  BY <1>5, FinishTypeOK DEF ReturnNothing, TypeOK, Outcome
<1>6. CASE Crash(j)
  BY <1>6, GotoTypeOK DEF Crash, TypeOK, PC
<1> QED
  BY <1>1, <1>2, <1>3, <1>4, <1>5, <1>6

LEMMA PersistTypeOK ==
  ASSUME TypeOK, NEW j \in Job, PersistRecords(j) \/ PersistClaimLost(j) \/ PersistFails(j)
  PROVE  TypeOK'
<1>1. CASE PersistRecords(j)
  <2>1. pc' \in [Job -> PC] /\ res' \in [Job -> Result]
    BY <1>1, FinishTypeOK, RowTypes DEF PersistRecords, Outcome
  <2> QED
    BY <1>1, <2>1, RowTypes DEF PersistRecords, Record, TypeOK
<1>2. CASE PersistClaimLost(j)
  BY <1>2, FinishTypeOK, RowTypes DEF PersistClaimLost, TypeOK, Outcome
<1>3. CASE PersistFails(j)
  <2>1. pc' \in [Job -> PC] /\ res' \in [Job -> Result]
    BY <1>3, FinishTypeOK, RowTypes DEF PersistFails, Outcome
  <2> QED
    BY <1>3, <2>1, RowTypes DEF PersistFails, Record, TypeOK
<1> QED
  BY <1>1, <1>2, <1>3

LEMMA OthersTypeOK ==
  ASSUME TypeOK,
         \/ \E id \in CampaignId : AdoptCampaign(id)
         \/ \E r \in live : DeleteCampaign(r) \/ ClearDispatchClaim(r)
  PROVE  TypeOK'
<1>1. ASSUME NEW id \in CampaignId, AdoptCampaign(id) PROVE TypeOK'
  BY <1>1, SlotConstants DEF AdoptCampaign, TypeOK, Row, Status, Version
<1>2. ASSUME NEW r \in live, DeleteCampaign(r) PROVE TypeOK'
  BY <1>2 DEF DeleteCampaign, TypeOK, Row
<1>3. ASSUME NEW r \in live, ClearDispatchClaim(r) PROVE TypeOK'
  BY <1>3 DEF ClearDispatchClaim, TypeOK, Row
<1> QED
  BY <1>1, <1>2, <1>3


LEMMA NextTypeOK == TypeOK /\ [Next]_vars => TypeOK'
<1> SUFFICES ASSUME TypeOK, [Next]_vars PROVE TypeOK'
  OBVIOUS
<1>1. ASSUME NEW j \in Job, JobStep(j) PROVE TypeOK'
  BY <1>1, LookupTypeOK, ClaimTypeOK, ReadBackTypeOK, CallTypeOK, PersistTypeOK DEF JobStep
<1>2. CASE UNCHANGED vars
  BY <1>2 DEF vars, TypeOK
<1> QED
  BY <1>1, <1>2, OthersTypeOK DEF Next

\* Every row, result and program counter stays in its type: in particular an
\* unfinished campaign never keeps the running status its dispatcher reported.
THEOREM TypeCorrect == Spec => []TypeOK
BY InitTypeOK, NextTypeOK, PTL DEF Spec

-----------------------------------------------------------------------------
(* SlotInv is inductive.                                                       *)

LEMMA InitSlotRest == Init => SlotRest
BY DEF Init, SlotRest, RowsOfClaimants, OneRowPerVersion, QuietBeforeTheCall,
   UpstreamAtTheClaimedVersion, CommittedJobsHoldTheirRow, Committed

\* A step that only moves a job on, past its claim, and into a release or a
\* read-back only when nothing was asked for.
LEMMA MoveOn ==
  ASSUME SlotInv, NEW j \in Job, NEW step \in PC \ {"idle", "lookup", "claim", "readback_own"},
         pc' = [pc EXCEPT ![j] = step],
         step \in {"release", "readback_other"} => ~Committed(j),
         UNCHANGED <<live, buried, upstream, asked, cleared, ver>>
  PROVE  SlotRest'
<1>1. RowsOfClaimants'
  BY SlotConstants DEF SlotInv, SlotRest, TypeOK, RowsOfClaimants, Row
<1>2. OneRowPerVersion' /\ UpstreamAtTheClaimedVersion'
  BY DEF SlotInv, SlotRest, OneRowPerVersion, UpstreamAtTheClaimedVersion
<1>3. QuietBeforeTheCall'
  BY DEF SlotInv, SlotRest, TypeOK, QuietBeforeTheCall, Committed
<1>4. CommittedJobsHoldTheirRow'
  BY DEF SlotInv, SlotRest, TypeOK, CommittedJobsHoldTheirRow, Committed, Freed, OwnRows, LiveAt,
     DeletedVersions
<1> QED
  BY <1>1, <1>2, <1>3, <1>4 DEF SlotRest

\* The steps that do nothing else.
LEMMA OnlyMovesOn ==
  ASSUME SlotInv, NEW j \in Job,
         \/ LookupFails(j) \/ LookupReuses(j) \/ LookupFindsUnfinished(j)
         \/ ClaimRefused(j) \/ ClaimConflicts(j)
         \/ ReadBackOwnFails(j) \/ ReadBackOther(j) \/ ReadBackOtherFails(j)
         \/ ReleaseFails(j) \/ ReturnNothing(j)
         \/ PersistClaimLost(j) \/ Crash(j)
  PROVE  SlotRest'
<1>1. UNCHANGED <<live, buried, upstream, asked, cleared, ver>>
  BY DEF LookupFails, LookupReuses, LookupFindsUnfinished, ClaimRefused, ClaimConflicts,
     ReadBackOwnFails, ReadBackOther, ReadBackOtherFails, ReleaseFails,
     ReturnNothing, PersistClaimLost, Crash
<1>2. \/ pc' = [pc EXCEPT ![j] = "done"]
      \/ pc' = [pc EXCEPT ![j] = "dead"]
      \/ pc' = [pc EXCEPT ![j] = "persist"]
      \/ pc' = [pc EXCEPT ![j] = "readback_other"] /\ pc[j] = "claim"
      \/ pc' = [pc EXCEPT ![j] = "release"] /\ pc[j] = "readback_own"
  BY DEF LookupFails, LookupReuses, LookupFindsUnfinished, ClaimRefused, ClaimConflicts,
     ReadBackOwnFails, ReadBackOther, ReadBackOtherFails, ReleaseFails,
     ReturnNothing, PersistClaimLost, Crash, Finish, Goto
<1>3. pc[j] \in {"claim", "readback_own"} => ~Committed(j)
  BY DEF SlotInv, SlotRest, QuietBeforeTheCall
<1> QED
  BY <1>1, <1>2, <1>3, MoveOn DEF PC

\* Before its claim a job has no row, and nothing of it is upstream.
LEMMA LookupSlotRest ==
  ASSUME SlotInv, NEW j \in Job, Start(j) \/ LookupTargets(j)
  PROVE  SlotRest'
<1>1. /\ UNCHANGED <<live, buried, upstream, asked, cleared>>
      /\ \A i \in Job \ {j} : pc'[i] = pc[i] /\ ver'[i] = ver[i]
      /\ pc[j] \in {"idle", "lookup"} /\ pc'[j] \in {"lookup", "claim"}
  BY DEF Start, LookupTargets, Goto, SlotInv, SlotRest, TypeOK
<1>2. ~Committed(j) /\ \A r \in live : r.job # j
  BY <1>1, SlotConstants DEF SlotInv, SlotRest, QuietBeforeTheCall, RowsOfClaimants
<1>3. RowsOfClaimants'
  BY <1>1, <1>2 DEF SlotInv, SlotRest, TypeOK, RowsOfClaimants, Row
<1>4. OneRowPerVersion'
  BY <1>1 DEF SlotInv, SlotRest, OneRowPerVersion
<1>5. QuietBeforeTheCall' /\ UpstreamAtTheClaimedVersion'
  BY <1>1, <1>2 DEF SlotInv, SlotRest, TypeOK, QuietBeforeTheCall, UpstreamAtTheClaimedVersion, Committed
<1>6. CommittedJobsHoldTheirRow'
  BY <1>1, <1>2 DEF SlotInv, SlotRest, TypeOK, CommittedJobsHoldTheirRow, Committed, Freed, OwnRows,
     LiveAt, DeletedVersions
<1> QED
  BY <1>3, <1>4, <1>5, <1>6 DEF SlotRest

\* A claim's row is the version's only row, whether or not its answer arrives.
LEMMA ClaimSlotRest ==
  ASSUME SlotInv, NEW j \in Job, ClaimInserts(j) \/ ClaimFails(j)
  PROVE  SlotRest'
<1>1. CASE pc' = [pc EXCEPT ![j] = "done"] /\ UNCHANGED live
  BY <1>1, MoveOn DEF ClaimInserts, ClaimFails, PC
<1>2. CASE /\ LiveAt(ver[j]) = {}
           /\ live' = live \cup {ClaimRow(j)}
           /\ pc' \in {[pc EXCEPT ![j] = "done"], [pc EXCEPT ![j] = "readback_own"]}
  <2>1. pc[j] = "claim" /\ UNCHANGED <<buried, upstream, asked, cleared, ver>>
    BY DEF ClaimInserts, ClaimFails
  <2>2. ~Committed(j)
    BY <2>1 DEF SlotInv, SlotRest, QuietBeforeTheCall
  <2>3. ClaimRow(j).job = j /\ ClaimRow(j).ver = ver[j]
    BY DEF ClaimRow
  <2>4. RowsOfClaimants'
    BY <1>2, <2>1, <2>3, SlotConstants DEF SlotInv, SlotRest, TypeOK, RowsOfClaimants, Row
  <2>5. OneRowPerVersion'
    BY <1>2, <2>3 DEF SlotInv, SlotRest, OneRowPerVersion, LiveAt
  <2>6. QuietBeforeTheCall' /\ UpstreamAtTheClaimedVersion'
    BY <1>2, <2>1, <2>2 DEF SlotInv, SlotRest, TypeOK, QuietBeforeTheCall, UpstreamAtTheClaimedVersion,
       Committed
  <2>7. ClaimRow(j) \in OwnRows(j)'
    BY <1>2, <2>1, <2>3 DEF OwnRows, LiveAt
  <2>8. \A i \in Job : OwnRows(i) \subseteq OwnRows(i)'
    BY <1>2, <2>1 DEF OwnRows, LiveAt
  <2>9. CommittedJobsHoldTheirRow'
    BY <1>2, <2>1, <2>2, <2>7, <2>8 DEF SlotInv, SlotRest, TypeOK, CommittedJobsHoldTheirRow, Committed,
       Freed, DeletedVersions
  <2> QED
    BY <2>4, <2>5, <2>6, <2>9 DEF SlotRest
<1> QED
  BY <1>1, <1>2 DEF ClaimInserts, ClaimFails, Goto, Finish

\* A job releases only its own row, and only when it asked for nothing.
LEMMA ReleaseSlotRest ==
  ASSUME SlotInv, NEW j \in Job, ReleaseClaim(j)
  PROVE  SlotRest'
<1>1. /\ pc[j] = "release" /\ pc' = [pc EXCEPT ![j] = "done"]
      /\ live' = live \ ReleasedBy(j)
      /\ UNCHANGED <<buried, upstream, asked, cleared, ver>>
  BY DEF ReleaseClaim, Finish
<1>2. ~Committed(j)
  BY <1>1 DEF SlotInv, SlotRest, QuietBeforeTheCall
<1>3. \A r \in ReleasedBy(j) : r.job = j
  BY DEF ReleasedBy, OwnRows
<1>4. RowsOfClaimants'
  BY <1>1, SlotConstants DEF SlotInv, SlotRest, TypeOK, RowsOfClaimants, Row
<1>5. OneRowPerVersion'
  BY <1>1 DEF SlotInv, SlotRest, OneRowPerVersion
<1>6. QuietBeforeTheCall' /\ UpstreamAtTheClaimedVersion'
  BY <1>1 DEF SlotInv, SlotRest, TypeOK, QuietBeforeTheCall, UpstreamAtTheClaimedVersion, Committed
<1>7. \A i \in Job \ {j} : OwnRows(i)' = OwnRows(i)
  BY <1>1, <1>3 DEF OwnRows, LiveAt
<1>8. CommittedJobsHoldTheirRow'
  BY <1>1, <1>2, <1>7 DEF SlotInv, SlotRest, TypeOK, CommittedJobsHoldTheirRow, Committed, Freed,
     DeletedVersions
<1> QED
  BY <1>4, <1>5, <1>6, <1>8 DEF SlotRest

\* The call: a job asks only once it has read its claim back, and creates at
\* the version it claimed.
LEMMA CallSlotRest ==
  ASSUME SlotInv, NEW j \in Job,
         ReadBackOwn(j) \/ CreateUpstream(j) \/ ReturnSuccess(j) \/ ReturnPartial(j) \/ ReturnPreCreate(j)
  PROVE  SlotRest'
<1>1. UNCHANGED <<live, buried, cleared, ver>>
  BY DEF ReadBackOwn, CreateUpstream, ReturnSuccess, ReturnPartial, ReturnPreCreate
<1>2. /\ \A i \in Job \ {j} : /\ i \in asked' <=> i \in asked
                              /\ upstream'[i] = upstream[i]
                              /\ pc'[i] = pc[i]
      /\ upstream'[j] = upstream[j] \/ (j \in asked /\ upstream'[j] = ver[j])
      /\ Committed(j)' => Committed(j) \/ pc[j] = "readback_own"
  BY DEF ReadBackOwn, CreateUpstream, ReturnSuccess, ReturnPartial, ReturnPreCreate, Goto, Committed,
     SlotInv, SlotRest, TypeOK
<1>3. \/ pc'[j] = pc[j] /\ j \in asked
      \/ pc'[j] \in {"call", "persist"}
      \/ pc'[j] = "release" /\ j \in asked /\ j \notin asked' /\ upstream' = upstream
  BY DEF ReadBackOwn, CreateUpstream, ReturnSuccess, ReturnPartial, ReturnPreCreate, Goto, SlotInv, SlotRest, TypeOK
<1>4. RowsOfClaimants'
  BY <1>1, <1>2, <1>3, SlotConstants
  DEF SlotInv, SlotRest, TypeOK, RowsOfClaimants, QuietBeforeTheCall, Committed, Row
<1>5. OneRowPerVersion'
  BY <1>1 DEF SlotInv, SlotRest, OneRowPerVersion
<1>6. QuietBeforeTheCall'
  BY <1>1, <1>2, <1>3 DEF SlotInv, SlotRest, TypeOK, QuietBeforeTheCall, UpstreamAtTheClaimedVersion,
     Committed
<1>7. UpstreamAtTheClaimedVersion'
  BY <1>1 DEF ReadBackOwn, CreateUpstream, ReturnSuccess, ReturnPartial, ReturnPreCreate, SlotInv, SlotRest, TypeOK,
     QuietBeforeTheCall, UpstreamAtTheClaimedVersion, Committed
<1>8. \A i \in Job : Committed(i)' \/ pc'[i] = "readback_own"
                    => Committed(i) \/ pc[i] = "readback_own"
  BY <1>2, <1>3 DEF Committed
<1>9. CommittedJobsHoldTheirRow'
  BY <1>1, <1>8 DEF SlotInv, SlotRest, CommittedJobsHoldTheirRow, Freed, OwnRows, LiveAt, DeletedVersions
<1> QED
  BY <1>4, <1>5, <1>6, <1>7, <1>9 DEF SlotRest

\* A result replaces the job's own row, or stands alone on an empty slot.
LEMMA PersistSlotRest ==
  ASSUME SlotInv, NEW j \in Job, PersistRecords(j) \/ PersistFails(j)
  PROVE  SlotRest'
<1>1. /\ pc[j] = "persist" /\ pc' = [pc EXCEPT ![j] = "done"]
      /\ UNCHANGED <<buried, upstream, asked, cleared, ver>>
      /\ UNCHANGED live \/ (OwnsOrEmpty(j) /\ Record(j))
  BY DEF PersistRecords, PersistFails, CanRecord, Finish
<1>2. CASE UNCHANGED live
  BY <1>1, <1>2, MoveOn DEF PC
<1>3. CASE OwnsOrEmpty(j) /\ Record(j)
  <2>1. RecordedRow(j).job = j /\ RecordedRow(j).ver = ver[j]
    BY DEF RecordedRow
  <2>2. live' = (live \ OwnRows(j)) \cup {RecordedRow(j)}
    BY <1>3 DEF Record
  <2>3. \A r \in live \ OwnRows(j) : r.ver # ver[j]
    BY <1>3 DEF OwnsOrEmpty, OwnRows, LiveAt, SlotInv, SlotRest, OneRowPerVersion
  <2>4. RowsOfClaimants'
    BY <1>1, <2>1, <2>2, SlotConstants DEF SlotInv, SlotRest, TypeOK, RowsOfClaimants, Row
  <2>5. OneRowPerVersion'
    BY <2>1, <2>2, <2>3 DEF SlotInv, SlotRest, OneRowPerVersion
  <2>6. QuietBeforeTheCall' /\ UpstreamAtTheClaimedVersion'
    BY <1>1 DEF SlotInv, SlotRest, TypeOK, QuietBeforeTheCall, UpstreamAtTheClaimedVersion, Committed
  <2>7. RecordedRow(j) \in OwnRows(j)'
    BY <1>1, <2>1, <2>2 DEF OwnRows, LiveAt
  <2>8. \A i \in Job \ {j} : OwnRows(i) \subseteq OwnRows(i)'
    BY <1>1, <2>2 DEF OwnRows, LiveAt
  <2>9. CommittedJobsHoldTheirRow'
    BY <1>1, <2>7, <2>8 DEF SlotInv, SlotRest, TypeOK, CommittedJobsHoldTheirRow, Committed, Freed,
       DeletedVersions
  <2> QED
    BY <2>4, <2>5, <2>6, <2>9 DEF SlotRest
<1> QED
  BY <1>1, <1>2, <1>3

\* Adoption needs an empty slot, so it takes no job's row away.
LEMMA AdoptSlotRest ==
  ASSUME SlotInv, NEW id \in CampaignId, AdoptCampaign(id)
  PROVE  SlotRest'
<1>1. /\ live = {}
      /\ UNCHANGED <<buried, upstream, asked, cleared, pc, ver>>
      /\ \A r \in live' : live' = {r} /\ r.job = None
  BY DEF AdoptCampaign
<1>2. RowsOfClaimants' /\ OneRowPerVersion'
  BY <1>1 DEF RowsOfClaimants, OneRowPerVersion
<1>3. QuietBeforeTheCall' /\ UpstreamAtTheClaimedVersion'
  BY <1>1 DEF SlotInv, SlotRest, QuietBeforeTheCall, UpstreamAtTheClaimedVersion, Committed
<1>4. CommittedJobsHoldTheirRow'
  BY <1>1 DEF SlotInv, SlotRest, CommittedJobsHoldTheirRow, Committed, Freed, OwnRows, LiveAt,
     DeletedVersions
<1> QED
  BY <1>2, <1>3, <1>4 DEF SlotRest

\* Whoever takes a job's row away frees the job: a deletion by burying its
\* version, a clear by naming the job.
LEMMA RemovalSlotRest ==
  ASSUME SlotInv, NEW r \in live, DeleteCampaign(r) \/ ClearDispatchClaim(r)
  PROVE  SlotRest'
<1>1. /\ live' = live \ {r}
      /\ UNCHANGED <<upstream, asked, pc, ver>>
      /\ buried \subseteq buried' /\ cleared \subseteq cleared'
      /\ r.ver \in DeletedVersions' \/ r.job \in cleared'
  BY DEF DeleteCampaign, ClearDispatchClaim, DeletedVersions
<1>2. RowsOfClaimants' /\ OneRowPerVersion'
  BY <1>1 DEF SlotInv, SlotRest, RowsOfClaimants, OneRowPerVersion
<1>3. QuietBeforeTheCall' /\ UpstreamAtTheClaimedVersion'
  BY <1>1 DEF SlotInv, SlotRest, QuietBeforeTheCall, UpstreamAtTheClaimedVersion, Committed
<1>4. \A i \in Job : r \notin OwnRows(i) => OwnRows(i)' = OwnRows(i)
  BY <1>1 DEF OwnRows, LiveAt
<1>5. \A i \in Job : r \in OwnRows(i) => Freed(i)'
  BY <1>1 DEF OwnRows, LiveAt, Freed
<1>6. \A i \in Job : Freed(i) => Freed(i)'
  BY <1>1 DEF Freed, DeletedVersions
<1>7. CommittedJobsHoldTheirRow'
  BY <1>1, <1>4, <1>5, <1>6 DEF SlotInv, SlotRest, CommittedJobsHoldTheirRow, Committed
<1> QED
  BY <1>2, <1>3, <1>7 DEF SlotRest

LEMMA NextSlotInv == SlotInv /\ [Next]_vars => SlotInv'
<1> SUFFICES ASSUME SlotInv, [Next]_vars PROVE SlotRest'
  BY NextTypeOK DEF SlotInv, SlotRest
<1>1. ASSUME NEW j \in Job, JobStep(j) PROVE SlotRest'
  BY <1>1, OnlyMovesOn, LookupSlotRest, ClaimSlotRest, ReleaseSlotRest, CallSlotRest,
     PersistSlotRest DEF JobStep
<1>2. CASE UNCHANGED vars
  BY <1>2 DEF vars, SlotInv, SlotRest, RowsOfClaimants, OneRowPerVersion, QuietBeforeTheCall,
     UpstreamAtTheClaimedVersion, CommittedJobsHoldTheirRow, Committed, Freed, OwnRows, LiveAt,
     DeletedVersions
<1> QED
  BY <1>1, <1>2, AdoptSlotRest, RemovalSlotRest DEF Next

LEMMA SlotInvHolds == Spec => []SlotInv
<1>1. Init => SlotInv
  BY InitTypeOK, InitSlotRest DEF SlotInv, SlotRest
<1> QED
  BY <1>1, NextSlotInv, PTL DEF Spec

-----------------------------------------------------------------------------
(* The theorems. *)

\* A slot version is paid for at most once, by any number of jobs, unless an
\* operator cleared its claim or its campaign was deleted.
THEOREM AtMostOnePaidCampaign == Spec => []NoDoubleCreate
<1>1. SlotInv => NoDoubleCreate
  <2> SUFFICES ASSUME SlotInv, NEW i \in Job, NEW j \in Job,
                      i # j, upstream[i] # 0, upstream[i] = upstream[j],
                      i \notin cleared, j \notin cleared, upstream[i] \notin DeletedVersions
               PROVE  FALSE
    BY DEF NoDoubleCreate
  <2>1. ver[i] = upstream[i] /\ ver[j] = upstream[i]
    BY DEF SlotInv, SlotRest, UpstreamAtTheClaimedVersion
  <2>2. PICK r \in OwnRows(i) : TRUE
    BY <2>1 DEF SlotInv, SlotRest, CommittedJobsHoldTheirRow, Committed, Freed
  <2>3. PICK s \in OwnRows(j) : TRUE
    BY <2>1 DEF SlotInv, SlotRest, CommittedJobsHoldTheirRow, Committed, Freed
  <2>4. r = s
    BY <2>1, <2>2, <2>3 DEF SlotInv, SlotRest, OneRowPerVersion, OwnRows, LiveAt
  <2> QED
    BY <2>2, <2>3, <2>4 DEF OwnRows
<1> QED
  BY <1>1, SlotInvHolds, PTL

\* A live row is changed or removed by its own job's step, by a deletion that
\* keeps its campaign's id, or by an operator clearing a pending claim; a
\* dispatch that lost its claim never touches the row that took its place.
THEOREM RowsBelongToTheirJobs == Spec => OnlyTheOwnerTouchesARow
<1> DEFINE A == \A r \in live \ live' :
                  \/ r.job \in Job /\ pc'[r.job] # pc[r.job]
                  \/ Deletable(r) /\ [ver |-> r.ver, id |-> r.id] \in buried'
                  \/ r.status = "pending" /\ r.job \in cleared'
<1>1. ASSUME TypeOK, NEW j \in Job, JobStep(j) PROVE A
  <2>1. live \subseteq live' \/ ReleaseClaim(j) \/ PersistRecords(j) \/ PersistFails(j)
    BY <1>1 DEF JobStep, Start, LookupFails, LookupReuses, LookupFindsUnfinished, LookupTargets,
       ClaimRefused, ClaimInserts, ClaimConflicts, ClaimFails, ReadBackOwn, ReadBackOwnFails,
       ReadBackOther, ReadBackOtherFails, ReleaseFails, CreateUpstream, ReturnSuccess,
       ReturnPartial, ReturnPreCreate, ReturnNothing, PersistClaimLost, Crash
  <2>2. \A r \in ReleasedBy(j) \cup OwnRows(j) : r.job = j
    BY DEF ReleasedBy, OwnRows
  <2>3. CASE ReleaseClaim(j)
    BY <1>1, <2>2, <2>3 DEF ReleaseClaim, Finish, TypeOK
  <2>4. CASE PersistRecords(j) \/ PersistFails(j)
    BY <1>1, <2>2, <2>4 DEF PersistRecords, PersistFails, Record, Finish, TypeOK
  <2> QED
    BY <2>1, <2>3, <2>4
<1>2. ASSUME NEW id \in CampaignId, AdoptCampaign(id) PROVE A
  BY <1>2 DEF AdoptCampaign
<1>3. ASSUME NEW r \in live, DeleteCampaign(r) \/ ClearDispatchClaim(r) PROVE A
  BY <1>3 DEF DeleteCampaign, ClearDispatchClaim
<1>4. TypeOK /\ [Next]_vars => [A]_vars
  BY <1>1, <1>2, <1>3 DEF Next
<1> QED
  BY <1>4, TypeCorrect, PTL DEF Spec, OnlyTheOwnerTouchesARow

\* A second live row comes to stand beside another only as a fresh claim: a
\* late result of a dispatch whose claim is gone, or an adoption, never does it.
THEOREM OnlyAClaimAddsAVersion == Spec => BesideOnlyByClaim
<1> DEFINE A == \A r \in live' :
                  /\ live # {}
                  /\ \A s \in live : s.ver # r.ver
                  => r = ClaimRow(r.job) /\ pc[r.job] = "claim"
<1>1. ASSUME NEW j \in Job, JobStep(j) PROVE A
  <2>1. \/ live' \subseteq live
        \/ ClaimInserts(j) \/ ClaimFails(j) \/ PersistRecords(j) \/ PersistFails(j)
    BY <1>1 DEF JobStep, Start, LookupFails, LookupReuses, LookupFindsUnfinished, LookupTargets,
       ClaimRefused, ClaimConflicts, ReadBackOwn, ReadBackOwnFails, ReleaseClaim,
       ReadBackOther, ReadBackOtherFails, ReleaseFails, CreateUpstream, ReturnSuccess,
       ReturnPartial, ReturnPreCreate, ReturnNothing, PersistClaimLost, Crash
  <2>2. CASE ClaimInserts(j) \/ ClaimFails(j)
    <3>1. pc[j] = "claim" /\ live' \subseteq live \cup {ClaimRow(j)} /\ ClaimRow(j).job = j
      BY <2>2 DEF ClaimInserts, ClaimFails, ClaimRow
    <3> QED
      BY <3>1
  <2>3. CASE PersistRecords(j) \/ PersistFails(j)
    <3>1. live' \subseteq live \/ (OwnsOrEmpty(j) /\ Record(j))
      BY <2>3 DEF PersistRecords, PersistFails, CanRecord
    <3>2. \A r \in OwnRows(j) : r \in live /\ r.ver = RecordedRow(j).ver
      BY DEF OwnRows, LiveAt, RecordedRow
    <3> QED
      BY <3>1, <3>2 DEF OwnsOrEmpty, Record
  <2> QED
    BY <2>1, <2>2, <2>3
<1>2. ASSUME NEW id \in CampaignId, AdoptCampaign(id) PROVE A
  BY <1>2 DEF AdoptCampaign
<1>3. ASSUME NEW r \in live, DeleteCampaign(r) \/ ClearDispatchClaim(r) PROVE A
  BY <1>3 DEF DeleteCampaign, ClearDispatchClaim
<1>4. [Next]_vars => [A]_vars
  BY <1>1, <1>2, <1>3 DEF Next
<1> QED
  BY <1>4, PTL DEF Spec, BesideOnlyByClaim

-----------------------------------------------------------------------------
(* Where a paid campaign is recorded, and what a new version builds on.    *)

\* A campaign that reads as complete: it can be reused, and deleted.
Complete(st) == st \in {"created", "created_degraded"}

\* A job's row is pending until its result is recorded.
RowsArePendingUntilRecorded ==
  \A r \in live : r.job # None /\ pc[r.job] \notin {"done", "dead"} => r.status = "pending"

\* A job at its call or its record holds its version's row, unless it was cleared.
WorkingJobsHoldTheirRow ==
  \A j \in Job : pc[j] \in {"readback_own", "call", "persist"} =>
    j \in cleared \/ OwnRows(j) # {}

\* What a job may have created is held by its row, or buried under its own name.
CampaignsAreKept ==
  \A j \in Job : Committed(j) =>
    j \in cleared \/ OwnRows(j) # {} \/ [ver |-> ver[j], id |-> j] \in buried

\* A job that created something, and reports it as complete, reports that campaign.
CompleteNamesTheCampaign ==
  \A j \in Job : Committed(j) =>
    /\ pc[j] = "persist" /\ Complete(ret[j].status) => ret[j].id = j
    /\ \A r \in live : r.job = j /\ Complete(r.status) => r.id = j

\* A new_version request claims a version no deleted campaign had, and keeps it.
NewVersionsAreFresh ==
  \A j \in Job : req[j].new /\ pc[j] \in {"readback_own", "call", "persist"} =>
    j \in cleared \/ ver[j] \notin DeletedVersions

\* While nothing was cleared, nobody names the campaign of a job that is running.
UnnamedUntilRecorded ==
  cleared = {} =>
    \A j \in Job : pc[j] \notin {"done", "dead"} =>
      /\ \A r \in live : r.id # j
      /\ \A b \in buried : b.id # j
      /\ \A i \in Job \ {j} : pc[i] = "persist" => ret[i].id # j

\* A new_version request gets its own campaign, or one it cannot bind.
NewVersionsAreTheirOwn ==
  cleared = {} =>
    \A j \in Job : req[j].new /\ pc[j] = "persist" /\ ~ret[j].err =>
      ret[j].id \in {j} \cup BoundElsewhere

\* The slot has a complete campaign at version v.
Settled(v) == \E r \in live : r.ver = v /\ Reusable(r)

\* Until an operator frees a version, every version above the first stands on
\* a complete campaign, whether it is a job's or the one a caller saw.
VersionsBuildUp ==
  buried = {} /\ cleared = {} =>
    \A j \in Job :
      /\ ver[j] > 1 => Settled(ver[j] - 1)
      /\ req[j].new /\ req[j].exp > 1 => Settled(req[j].exp - 1)

AdoptedIsFirst == \A r \in live : r.job = None => r.ver = 1

NotYetTargeted == \A j \in Job : pc[j] \in {"idle", "lookup"} => ver[j] = 1

\* A new_version request claims the version after the one its caller saw; an
\* expectation of the first version may also find the slot empty.
ClaimsTheNext ==
  buried = {} /\ cleared = {} =>
    \A j \in Job :
      req[j].new /\ (Committed(j) \/ pc[j] \in {"claim", "readback_own"}) =>
        ver[j] = req[j].exp + 1 \/ (ver[j] = 1 /\ req[j].exp = 1)

Keeping ==
  /\ RowsArePendingUntilRecorded
  /\ WorkingJobsHoldTheirRow
  /\ CampaignsAreKept
  /\ CompleteNamesTheCampaign

Naming == NewVersionsAreFresh /\ UnnamedUntilRecorded /\ NewVersionsAreTheirOwn

Building == VersionsBuildUp /\ AdoptedIsFirst /\ NotYetTargeted /\ ClaimsTheNext

\* A job's step leaves the other jobs and their rows alone.
LEMMA OthersAreUntouched ==
  ASSUME SlotInv, NEW j \in Job, JobStep(j)
  PROVE  /\ UNCHANGED <<buried, cleared>>
         /\ \A i \in Job \ {j} : /\ pc'[i] = pc[i] /\ ver'[i] = ver[i]
                                 /\ req'[i] = req[i] /\ ret'[i] = ret[i]
                                 /\ upstream'[i] = upstream[i]
                                 /\ i \in asked' <=> i \in asked
         /\ \A r : r.job # j => (r \in live' <=> r \in live)
<1>1. UNCHANGED <<buried, cleared>>
  BY DEF JobStep, Start, LookupFails, LookupReuses, LookupFindsUnfinished, LookupTargets,
     ClaimRefused, ClaimInserts, ClaimConflicts, ClaimFails, ReadBackOwn, ReadBackOwnFails,
     ReadBackOther, ReadBackOtherFails, ReleaseClaim, ReleaseFails, CreateUpstream,
     ReturnSuccess, ReturnPartial, ReturnPreCreate, ReturnNothing, PersistRecords,
     PersistClaimLost, PersistFails, Crash
<1>2. \A i \in Job \ {j} : /\ pc'[i] = pc[i] /\ ver'[i] = ver[i]
                           /\ req'[i] = req[i] /\ ret'[i] = ret[i]
                           /\ upstream'[i] = upstream[i]
                           /\ i \in asked' <=> i \in asked
  BY DEF SlotInv, TypeOK, Finish, Goto, JobStep, Start, LookupFails, LookupReuses,
     LookupFindsUnfinished, LookupTargets, ClaimRefused, ClaimInserts, ClaimConflicts,
     ClaimFails, ReadBackOwn, ReadBackOwnFails, ReadBackOther, ReadBackOtherFails,
     ReleaseClaim, ReleaseFails, CreateUpstream, ReturnSuccess, ReturnPartial,
     ReturnPreCreate, ReturnNothing, PersistRecords, PersistClaimLost, PersistFails, Crash
<1>3. \/ live' = live \/ live' = live \cup {ClaimRow(j)}
      \/ live' = live \ ReleasedBy(j) \/ live' = (live \ OwnRows(j)) \cup {RecordedRow(j)}
  BY DEF JobStep, Start, LookupFails, LookupReuses, LookupFindsUnfinished, LookupTargets,
     ClaimRefused, ClaimInserts, ClaimConflicts, ClaimFails, ReadBackOwn, ReadBackOwnFails,
     ReadBackOther, ReadBackOtherFails, ReleaseClaim, ReleaseFails, CreateUpstream,
     ReturnSuccess, ReturnPartial, ReturnPreCreate, ReturnNothing, PersistRecords,
     PersistClaimLost, PersistFails, Crash, Record
<1>4. ClaimRow(j).job = j /\ RecordedRow(j).job = j /\ \A r \in ReleasedBy(j) \cup OwnRows(j) : r.job = j
  BY DEF ClaimRow, RecordedRow, ReleasedBy, OwnRows
<1> QED
  BY <1>1, <1>2, <1>3, <1>4

\* The kinds of step, by what they do to the job itself and to its row.
MovesOn(j) ==
  /\ UNCHANGED <<live, asked, upstream, ver, ret, req>>
  /\ \/ pc'[j] \in {"done", "dead"}
     \/ pc[j] = "claim" /\ pc'[j] = "readback_other"
     \/ pc[j] = "readback_own" /\ pc'[j] = "release"

Inserts(j) ==
  /\ pc[j] = "claim" /\ pc'[j] \in {"readback_own", "done"}
  /\ LiveAt(ver[j]) = {} /\ ~VersionWasDeleted(j)
  /\ live' = live \cup {ClaimRow(j)}
  /\ UNCHANGED <<asked, upstream, ver, ret, req>>

Records(j) ==
  /\ pc[j] = "persist" /\ pc'[j] = "done"
  /\ CanRecord(j) /\ Record(j)
  /\ UNCHANGED <<asked, upstream, ver, ret, req>>

LEMMA KindsOfStep ==
  ASSUME SlotInv, NEW j \in Job, JobStep(j)
  PROVE  \/ MovesOn(j) \/ Start(j) \/ LookupTargets(j) \/ Inserts(j) \/ ReleaseClaim(j)
         \/ ReadBackOwn(j) \/ CreateUpstream(j) \/ ReturnSuccess(j) \/ ReturnPartial(j)
         \/ ReturnPreCreate(j) \/ Records(j)
<1>1. j \in DOMAIN pc
  BY DEF SlotInv, TypeOK
<1>2. CASE \/ LookupFails(j) \/ LookupReuses(j) \/ LookupFindsUnfinished(j) \/ ClaimRefused(j)
           \/ ClaimConflicts(j) \/ ReadBackOwnFails(j) \/ ReadBackOther(j)
           \/ ReadBackOtherFails(j) \/ ReleaseFails(j) \/ ReturnNothing(j)
           \/ PersistClaimLost(j) \/ Crash(j)
  BY <1>1, <1>2 DEF MovesOn, Finish, Goto, LookupFails, LookupReuses, LookupFindsUnfinished,
     ClaimRefused, ClaimConflicts, ReadBackOwnFails, ReadBackOther, ReadBackOtherFails,
     ReleaseFails, ReturnNothing, PersistClaimLost, Crash
<1>3. CASE ClaimInserts(j) \/ ClaimFails(j)
  BY <1>1, <1>3 DEF MovesOn, Inserts, ClaimInserts, ClaimFails, Finish, Goto
<1>4. CASE PersistRecords(j) \/ PersistFails(j)
  BY <1>1, <1>4 DEF MovesOn, Records, PersistRecords, PersistFails, Finish
<1> QED
  BY <1>2, <1>3, <1>4 DEF JobStep
\* The row of a job that is past its claim stays until the job is done with it.
LEMMA OwnRowStays ==
  ASSUME SlotInv, NEW j \in Job, JobStep(j)
  PROVE  /\ OwnRows(j) # {} /\ ~ReleaseClaim(j) /\ pc[j] \notin {"idle", "lookup"}
              => OwnRows(j)' # {}
         /\ Inserts(j) => OwnRows(j)' # {}
<1>1. CASE MovesOn(j) \/ ReadBackOwn(j) \/ CreateUpstream(j) \/ ReturnSuccess(j)
           \/ ReturnPartial(j) \/ ReturnPreCreate(j)
  <2>1. live' = live /\ ver' = ver /\ (Inserts(j) => ClaimRow(j) \in live')
    BY <1>1 DEF MovesOn, ReadBackOwn, CreateUpstream, ReturnSuccess, ReturnPartial, ReturnPreCreate,
       Inserts
  <2>2. ClaimRow(j).job = j /\ ClaimRow(j).ver = ver[j]
    BY DEF ClaimRow
  <2> QED
    BY <2>1, <2>2 DEF OwnRows, LiveAt
<1>2. CASE Inserts(j)
  <2>1. ClaimRow(j) \in OwnRows(j)'
    BY <1>2 DEF Inserts, ClaimRow, OwnRows, LiveAt
  <2> QED
    BY <2>1
<1>3. CASE Records(j)
  <2>1. RecordedRow(j) \in OwnRows(j)'
    BY <1>3 DEF Records, Record, RecordedRow, OwnRows, LiveAt
  <2> QED
    BY <2>1, <1>3 DEF Records
<1>4. CASE Start(j) \/ LookupTargets(j) \/ ReleaseClaim(j)
  BY <1>4 DEF Start, LookupTargets, ReleaseClaim, Inserts
<1> QED
  BY <1>1, <1>2, <1>3, <1>4, KindsOfStep

\* An uncommitted job's call or create: who has asked, and what is upstream.
LEMMA Commits ==
  ASSUME SlotInv, NEW j \in Job, JobStep(j)
  PROVE  /\ Committed(j)' => Committed(j) \/ (pc[j] = "readback_own" /\ ReadBackOwn(j))
         /\ pc'[j] \in {"readback_own", "call", "persist"} =>
              Inserts(j) \/ pc[j] \in {"readback_own", "call", "persist"}
         /\ pc[j] \in {"done", "dead"} => pc'[j] = pc[j] /\ live' = live /\ ret' = ret
<1>1. j \in DOMAIN pc /\ j \in DOMAIN upstream /\ asked \subseteq Job
  BY DEF SlotInv, TypeOK
<1>2. Committed(j)' => Committed(j) \/ (pc[j] = "readback_own" /\ ReadBackOwn(j))
  BY <1>1, KindsOfStep DEF Committed, MovesOn, Inserts, Records, Start, LookupTargets, ReleaseClaim,
     ReadBackOwn, CreateUpstream, ReturnSuccess, ReturnPartial, ReturnPreCreate
<1>3. pc'[j] \in {"readback_own", "call", "persist"} =>
              Inserts(j) \/ pc[j] \in {"readback_own", "call", "persist"}
  BY <1>1, KindsOfStep DEF MovesOn, Inserts, Records, Start, LookupTargets, ReleaseClaim,
     ReadBackOwn, CreateUpstream, ReturnSuccess, ReturnPartial, ReturnPreCreate, Goto, Finish
<1>4. pc[j] \in {"done", "dead"} => CreateUpstream(j)
  BY DEF JobStep, Start, LookupFails, LookupReuses, LookupFindsUnfinished, LookupTargets,
     ClaimRefused, ClaimInserts, ClaimConflicts, ClaimFails, ReadBackOwn, ReadBackOwnFails,
     ReadBackOther, ReadBackOtherFails, ReleaseClaim, ReleaseFails,
     ReturnSuccess, ReturnPartial, ReturnPreCreate, ReturnNothing, PersistRecords,
     PersistClaimLost, PersistFails, Crash
<1> QED
  BY <1>2, <1>3, <1>4 DEF CreateUpstream

LEMMA JobKeeps ==
  ASSUME SlotInv, SlotInv', Keeping, NEW j \in Job, JobStep(j)
  PROVE  Keeping'
<1>1. j # None /\ \A r \in live' : r.job \in Job \cup {None}
  BY SlotConstants DEF SlotInv, TypeOK, Row
<1>2. ~Committed(j) \/ pc[j] \notin {"idle", "lookup", "claim", "readback_own", "readback_other", "release"}
  BY DEF SlotInv, SlotRest, QuietBeforeTheCall
<1>3. \A i \in Job \ {j} : OwnRows(i)' = OwnRows(i) /\ (Committed(i)' <=> Committed(i))
  BY OthersAreUntouched DEF OwnRows, LiveAt, Committed
<1>4. \A r \in live' : r \in live \/ (r = ClaimRow(j) /\ Inserts(j)) \/ (r = RecordedRow(j) /\ Records(j))
  BY KindsOfStep DEF MovesOn, Inserts, Records, Record, Start, LookupTargets, ReleaseClaim,
     ReadBackOwn, CreateUpstream, ReturnSuccess, ReturnPartial, ReturnPreCreate
<1>5. RowsArePendingUntilRecorded'
  <2> SUFFICES ASSUME NEW r \in live', r.job # None, pc'[r.job] \notin {"done", "dead"}
               PROVE  r.status = "pending"
    BY DEF RowsArePendingUntilRecorded
  <2>1. CASE r \in live
    BY <1>1, <2>1, OthersAreUntouched, Commits DEF Keeping, RowsArePendingUntilRecorded
  <2>2. CASE r = ClaimRow(j)
    BY <2>2 DEF ClaimRow
  <2>3. CASE r = RecordedRow(j) /\ Records(j)
    BY <2>3 DEF RecordedRow, Records
  <2> QED
    BY <1>4, <2>1, <2>2, <2>3
<1>6. WorkingJobsHoldTheirRow'
  <2> SUFFICES ASSUME NEW i \in Job, pc'[i] \in {"readback_own", "call", "persist"}, i \notin cleared'
               PROVE  OwnRows(i)' # {}
    BY DEF WorkingJobsHoldTheirRow
  <2>1. CASE i # j
    BY <1>3, <2>1, OthersAreUntouched DEF Keeping, WorkingJobsHoldTheirRow
  <2>2. CASE i = j
    <3>1. ~ReleaseClaim(j)
      BY <2>2 DEF ReleaseClaim, Finish, SlotInv, TypeOK
    <3> QED
      BY <2>2, <3>1, OthersAreUntouched, Commits, OwnRowStays DEF Keeping, WorkingJobsHoldTheirRow
  <2> QED
    BY <2>1, <2>2
<1>7. CampaignsAreKept'
  <2> SUFFICES ASSUME NEW i \in Job, Committed(i)', i \notin cleared',
                      [ver |-> ver[i], id |-> i]' \notin buried'
               PROVE  OwnRows(i)' # {}
    BY DEF CampaignsAreKept
  <2>1. CASE i # j
    BY <1>3, <2>1, OthersAreUntouched DEF Keeping, CampaignsAreKept
  <2>2. CASE i = j
    <3>1. Committed(j) \/ pc[j] = "readback_own"
      BY <2>2, Commits
    <3>2. pc[j] \notin {"idle", "lookup"} /\ ver' = ver
      BY <1>2, <2>2, <3>1, KindsOfStep DEF MovesOn, Inserts, Records, Start, LookupTargets,
         ReleaseClaim, ReadBackOwn, CreateUpstream, ReturnSuccess, ReturnPartial, ReturnPreCreate
    <3>3. ~ReleaseClaim(j)
      BY <1>2, <3>1 DEF ReleaseClaim
    <3>4. OwnRows(j) # {}
      BY <2>2, <3>1, <3>2, OthersAreUntouched
      DEF Keeping, CampaignsAreKept, WorkingJobsHoldTheirRow
    <3> QED
      BY <2>2, <3>2, <3>3, <3>4, OwnRowStays
  <2> QED
    BY <2>1, <2>2
<1>8. CompleteNamesTheCampaign'
  <2> SUFFICES ASSUME NEW i \in Job, Committed(i)'
               PROVE  /\ pc'[i] = "persist" /\ Complete(ret'[i].status) => ret'[i].id = i
                      /\ \A r \in live' : r.job = i /\ Complete(r.status) => r.id = i
    BY DEF CompleteNamesTheCampaign
  <2>1. CASE i # j
    BY <1>3, <2>1, OthersAreUntouched DEF Keeping, CompleteNamesTheCampaign
  <2>2. CASE i = j
    <3>1. \A r \in live : r.job = j /\ Complete(r.status) => Committed(j) /\ r.id = j
      BY <1>1, <2>2, Commits
      DEF Keeping, CompleteNamesTheCampaign, RowsArePendingUntilRecorded, Complete
    <3>2. ASSUME pc'[j] = "persist", Complete(ret'[j].status) PROVE ret'[j].id = j
      <4>1. CASE ReturnSuccess(j)
        <5>1. upstream[j] # 0
          BY <2>2, <4>1 DEF ReturnSuccess, Committed
        <5> QED
          BY <4>1, <5>1 DEF ReturnSuccess, Resolved, SlotInv, TypeOK
      <4>2. CASE ReturnPartial(j)
        <5>1. ret'[j].id # None /\ ret'[j].id \in Resolved(j) /\ asked' = asked \ {j}
          BY <4>2, <3>2 DEF ReturnPartial, Complete, Flattened, PreservableErrorStatuses, SlotInv, TypeOK,
             PartialOrphanStatuses, ErrorStatus
        <5>2. upstream[j] # 0
          BY <2>2, <4>2, <5>1 DEF ReturnPartial, Committed
        <5> QED
          BY <5>1, <5>2 DEF Resolved
      <4>3. CASE CreateUpstream(j)
        BY <4>3, <3>2 DEF CreateUpstream, Committed, Keeping, CompleteNamesTheCampaign
      <4> QED
        BY <3>2, <4>1, <4>2, <4>3, KindsOfStep DEF MovesOn, Inserts, Records, Start, LookupTargets,
           ReleaseClaim, ReadBackOwn, ReturnPreCreate, Goto, Finish, SlotInv, TypeOK
    <3>3. ASSUME NEW r \in live', r.job = j, Complete(r.status) PROVE r.id = j
      <4>1. CASE r \in live
        BY <3>1, <3>3, <4>1
      <4>2. CASE r = ClaimRow(j)
        BY <3>3, <4>2 DEF ClaimRow, Complete
      <4>3. CASE r = RecordedRow(j) /\ Records(j)
        <5>1. Committed(j) /\ pc[j] = "persist"
          BY <2>2, <4>3 DEF Records, Committed
        <5> QED
          BY <3>3, <4>3, <5>1 DEF RecordedRow, Keeping, CompleteNamesTheCampaign
      <4> QED
        BY <1>4, <4>1, <4>2, <4>3
    <3> QED
      BY <2>2, <3>2, <3>3
  <2> QED
    BY <2>1, <2>2
<1> QED
  BY <1>5, <1>6, <1>7, <1>8 DEF Keeping

LEMMA AdoptionKeeps ==
  ASSUME SlotInv, Keeping, NEW id \in CampaignId, AdoptCampaign(id)
  PROVE  Keeping'
<1>1. /\ live = {}
      /\ UNCHANGED <<buried, upstream, asked, cleared, pc, ver, ret>>
      /\ \A r \in live' : r.job = None
      /\ \A i \in Job : OwnRows(i) = {}
  BY DEF AdoptCampaign, OwnRows, LiveAt
<1>2. None \notin Job
  BY SlotConstants
<1>3. \A i \in Job : OwnRows(i)' = {}
  BY <1>1, <1>2 DEF OwnRows, LiveAt
<1>4. RowsArePendingUntilRecorded'
  BY <1>1 DEF RowsArePendingUntilRecorded
<1>5. WorkingJobsHoldTheirRow' /\ CampaignsAreKept'
  BY <1>1, <1>3 DEF Keeping, WorkingJobsHoldTheirRow, CampaignsAreKept, Committed
<1>6. CompleteNamesTheCampaign'
  BY <1>1, <1>2 DEF Keeping, CompleteNamesTheCampaign, Committed
<1> QED
  BY <1>4, <1>5, <1>6 DEF Keeping

LEMMA RemovalKeeps ==
  ASSUME SlotInv, Keeping, NEW r \in live, DeleteCampaign(r) \/ ClearDispatchClaim(r)
  PROVE  Keeping'
<1>1. /\ live' = live \ {r}
      /\ UNCHANGED <<upstream, asked, pc, ver, ret>>
      /\ buried \subseteq buried' /\ cleared \subseteq cleared'
  BY DEF DeleteCampaign, ClearDispatchClaim
<1>2. \/ Complete(r.status) /\ [ver |-> r.ver, id |-> r.id] \in buried'
      \/ r.job \in cleared'
  BY DEF DeleteCampaign, ClearDispatchClaim, Deletable, Complete
<1>3. \A i \in Job : r \notin OwnRows(i) => OwnRows(i)' = OwnRows(i)
  BY <1>1 DEF OwnRows, LiveAt
<1>4. \A i \in Job : r \in OwnRows(i) => r.job = i /\ r.ver = ver[i]
  BY DEF OwnRows, LiveAt
<1>5. RowsArePendingUntilRecorded'
  BY <1>1 DEF Keeping, RowsArePendingUntilRecorded
<1>6. WorkingJobsHoldTheirRow'
  <2> SUFFICES ASSUME NEW i \in Job, pc[i] \in {"readback_own", "call", "persist"}, i \notin cleared'
               PROVE  OwnRows(i)' # {}
    BY <1>1 DEF WorkingJobsHoldTheirRow
  <2>1. i # None
    BY SlotConstants
  <2>2. r \notin OwnRows(i)
    BY <1>2, <1>4, <2>1 DEF Keeping, RowsArePendingUntilRecorded, Complete
  <2> QED
    BY <1>1, <1>3, <2>2 DEF Keeping, WorkingJobsHoldTheirRow
<1>7. CampaignsAreKept'
  <2> SUFFICES ASSUME NEW i \in Job, Committed(i), i \notin cleared',
                      [ver |-> ver[i], id |-> i] \notin buried'
               PROVE  OwnRows(i)' # {}
    BY <1>1 DEF CampaignsAreKept, Committed
  <2>1. r \notin OwnRows(i)
    BY <1>2, <1>4 DEF Keeping, CompleteNamesTheCampaign
  <2> QED
    BY <1>1, <1>3, <2>1 DEF Keeping, CampaignsAreKept
<1>8. CompleteNamesTheCampaign'
  BY <1>1 DEF Keeping, CompleteNamesTheCampaign, Committed
<1> QED
  BY <1>5, <1>6, <1>7, <1>8 DEF Keeping
-----------------------------------------------------------------------------
(* Who is named by what: Naming is kept.                                   *)

LEMMA OneJobPerVersion ==
  ASSUME SlotInv, NEW i \in Job, NEW j \in Job, ver[i] = ver[j],
         OwnRows(i) # {}, OwnRows(j) # {}
  PROVE  i = j
<1>1. PICK r \in OwnRows(i) : TRUE
  OBVIOUS
<1>2. PICK s \in OwnRows(j) : TRUE
  OBVIOUS
<1> QED
  BY <1>1, <1>2 DEF OwnRows, LiveAt, SlotInv, SlotRest, OneRowPerVersion

\* A campaign that somebody else may name was created by a job that holds the
\* version's row as long as it works on it.
LEMMA CreatedAndRunning ==
  ASSUME SlotInv, Keeping, cleared = {}, NEW k \in Job, upstream[k] # 0,
         pc[k] \notin {"done", "dead"}
  PROVE  pc[k] \in {"call", "persist"} /\ OwnRows(k) # {} /\ ver[k] = upstream[k]
<1>1. pc[k] \in {"call", "persist"}
  BY DEF SlotInv, SlotRest, QuietBeforeTheCall, Committed, TypeOK, PC
<1>2. ver[k] = upstream[k]
  BY DEF SlotInv, SlotRest, UpstreamAtTheClaimedVersion
<1> QED
  BY <1>1, <1>2 DEF Keeping, WorkingJobsHoldTheirRow

\* How a call comes by the campaign it reports.
LEMMA NamesAreResolved ==
  ASSUME SlotInv, Keeping, Naming, cleared = {}, NEW j \in Job,
         ReturnSuccess(j) \/ (ReturnPartial(j) /\ ret'[j].id # None)
  PROVE  /\ ret'[j].id \in Resolved(j)
         /\ ver[j] # 0
         /\ OwnRows(j) # {}
         /\ \A k \in Job \ {j} : ret'[j].id = k => upstream[k] = ver[j]
<1>1. ret'[j].id \in Resolved(j) /\ pc[j] = "call"
  BY DEF ReturnSuccess, ReturnPartial, SlotInv, TypeOK
<1>2. ver[j] # 0
  BY SlotConstants DEF SlotInv, TypeOK, Version
<1>3. OwnRows(j) # {}
  BY <1>1 DEF Keeping, WorkingJobsHoldTheirRow
<1>4. \A k \in Job \ {j} : ret'[j].id = k => upstream[k] = ver[j]
  BY <1>1, SlotConstants DEF Resolved
<1> QED
  BY <1>1, <1>2, <1>3, <1>4

LEMMA JobNames ==
  ASSUME SlotInv, Keeping, Naming, NEW j \in Job, JobStep(j)
  PROVE  Naming'
<1>1. \A r \in live' : r \in live \/ (r = ClaimRow(j) /\ Inserts(j)) \/ (r = RecordedRow(j) /\ Records(j))
  BY KindsOfStep DEF MovesOn, Inserts, Records, Record, Start, LookupTargets, ReleaseClaim,
     ReadBackOwn, CreateUpstream, ReturnSuccess, ReturnPartial, ReturnPreCreate
<1>2. pc'[j] = "persist" =>
        ReturnSuccess(j) \/ ReturnPartial(j) \/ (pc[j] = "persist" /\ UNCHANGED <<ret, req>>)
  BY KindsOfStep DEF MovesOn, Inserts, Records, Start, LookupTargets, ReleaseClaim, ReadBackOwn,
     CreateUpstream, ReturnPreCreate, Goto, Finish, SlotInv, TypeOK
<1>3. NewVersionsAreFresh'
  <2> SUFFICES ASSUME NEW i \in Job, req'[i].new, pc'[i] \in {"readback_own", "call", "persist"},
                      i \notin cleared'
               PROVE  ver'[i] \notin DeletedVersions'
    BY DEF NewVersionsAreFresh
  <2>1. DeletedVersions' = DeletedVersions /\ cleared' = cleared
    BY OthersAreUntouched DEF DeletedVersions
  <2>2. CASE i # j
    BY <2>1, <2>2, OthersAreUntouched DEF Naming, NewVersionsAreFresh
  <2>3. CASE i = j
    <3>1. CASE Inserts(j)
      BY <2>1, <2>3, <3>1 DEF Inserts, VersionWasDeleted
    <3>2. CASE pc[j] \in {"readback_own", "call", "persist"}
      <4>1. UNCHANGED <<ver, req>>
        BY <3>2, KindsOfStep DEF MovesOn, Inserts, Records, Start, LookupTargets, ReleaseClaim,
           ReadBackOwn, CreateUpstream, ReturnSuccess, ReturnPartial, ReturnPreCreate
      <4> QED
        BY <2>1, <2>3, <3>2, <4>1 DEF Naming, NewVersionsAreFresh
    <3> QED
      BY <2>3, <3>1, <3>2, Commits
  <2> QED
    BY <2>2, <2>3
<1>4. UnnamedUntilRecorded'
  <2> SUFFICES ASSUME cleared = {}, NEW k \in Job, pc'[k] \notin {"done", "dead"}
               PROVE  /\ \A r \in live' : r.id # k
                      /\ \A b \in buried' : b.id # k
                      /\ \A i \in Job \ {k} : pc'[i] = "persist" => ret'[i].id # k
    BY OthersAreUntouched DEF UnnamedUntilRecorded
  <2>1. pc[k] \notin {"done", "dead"}
    BY OthersAreUntouched, Commits
  <2>2. ASSUME NEW r \in live' PROVE r.id # k
    <3>1. CASE r \in live
      BY <2>1, <3>1 DEF Naming, UnnamedUntilRecorded
    <3>2. CASE r = ClaimRow(j)
      BY <3>2, SlotConstants DEF ClaimRow
    <3>3. CASE r = RecordedRow(j) /\ Records(j)
      BY <2>1, <3>3 DEF Records, RecordedRow, Naming, UnnamedUntilRecorded
    <3> QED
      BY <1>1, <3>1, <3>2, <3>3
  <2>3. \A b \in buried' : b.id # k
    BY <2>1, OthersAreUntouched DEF Naming, UnnamedUntilRecorded
  <2>4. ASSUME NEW i \in Job \ {k}, pc'[i] = "persist" PROVE ret'[i].id # k
    <3>1. CASE i # j
      BY <2>1, <2>4, <3>1, OthersAreUntouched DEF Naming, UnnamedUntilRecorded
    <3>2. CASE i = j /\ (ReturnSuccess(j) \/ ReturnPartial(j))
      <4> SUFFICES ASSUME ret'[j].id = k PROVE FALSE
        BY <3>2
      <4>1. upstream[k] = ver[j] /\ ver[j] # 0 /\ OwnRows(j) # {}
        BY <2>4, <3>2, NamesAreResolved, SlotConstants
      <4>2. OwnRows(k) # {} /\ ver[k] = ver[j]
        BY <2>1, <4>1, CreatedAndRunning
      <4> QED
        BY <2>4, <3>2, <4>1, <4>2, OneJobPerVersion
    <3>3. CASE i = j /\ pc[j] = "persist" /\ UNCHANGED ret
      BY <2>1, <2>4, <3>3 DEF Naming, UnnamedUntilRecorded
    <3> QED
      BY <1>2, <2>4, <3>1, <3>2, <3>3
  <2> QED
    BY <2>2, <2>3, <2>4
<1>5. NewVersionsAreTheirOwn'
  <2> SUFFICES ASSUME cleared = {}, NEW i \in Job, req'[i].new, pc'[i] = "persist", ~ret'[i].err
               PROVE  ret'[i].id \in {i} \cup BoundElsewhere
    BY OthersAreUntouched DEF NewVersionsAreTheirOwn
  <2>1. CASE i # j
    BY <2>1, OthersAreUntouched DEF Naming, NewVersionsAreTheirOwn
  <2>2. CASE i = j /\ ReturnSuccess(j)
    <3> SUFFICES ASSUME ret'[j].id \notin {j} \cup BoundElsewhere PROVE FALSE
      BY <2>2
    <3>1. /\ ret'[j].id \in Resolved(j) /\ ver[j] # 0 /\ OwnRows(j) # {}
          /\ \A k \in Job \ {j} : ret'[j].id = k => upstream[k] = ver[j]
      BY <2>2, NamesAreResolved
    <3>2. PICK k \in Job \ {j} : upstream[k] = ver[j]
      BY <3>1 DEF Resolved
    <3>3. ver[k] = ver[j] /\ Committed(k)
      BY <3>1, <3>2 DEF SlotInv, SlotRest, UpstreamAtTheClaimedVersion, Committed
    <3>4. OwnRows(k) = {}
      BY <3>1, <3>2, <3>3, OneJobPerVersion
    <3>5. [ver |-> ver[k], id |-> k] \in buried
      BY <3>3, <3>4 DEF Keeping, CampaignsAreKept
    <3>6. ver[j] \in DeletedVersions
      BY <3>3, <3>5 DEF DeletedVersions
    <3>7. pc[j] = "call" /\ req[j].new
      BY <2>2 DEF ReturnSuccess
    <3> QED
      BY <3>6, <3>7 DEF Naming, NewVersionsAreFresh
  <2>3. CASE i = j /\ ReturnPartial(j)
    BY <2>3 DEF ReturnPartial, SlotInv, TypeOK
  <2>4. CASE i = j /\ pc[j] = "persist" /\ UNCHANGED <<ret, req>>
    BY <2>4 DEF Naming, NewVersionsAreTheirOwn
  <2> QED
    BY <1>2, <2>1, <2>2, <2>3, <2>4
<1> QED
  BY <1>3, <1>4, <1>5 DEF Naming

LEMMA AdoptionNames ==
  ASSUME SlotInv, Keeping, Naming, NEW id \in CampaignId, AdoptCampaign(id)
  PROVE  Naming'
<1>1. /\ UNCHANGED <<buried, cleared, pc, req, ver, ret>>
      /\ live = {} /\ \A r \in live' : r.id = id
      /\ id \in Foreign \/ (id \in Job /\ upstream[id] # 0)
  BY DEF AdoptCampaign
<1>2. \A k \in Job : OwnRows(k) = {}
  BY <1>1 DEF OwnRows, LiveAt
<1>3. \A k \in Job : cleared = {} /\ id = k => pc[k] \in {"done", "dead"}
  BY <1>1, <1>2, SlotConstants, CreatedAndRunning
<1>4. NewVersionsAreFresh' /\ NewVersionsAreTheirOwn'
  BY <1>1 DEF Naming, NewVersionsAreFresh, NewVersionsAreTheirOwn, DeletedVersions
<1>5. UnnamedUntilRecorded'
  BY <1>1, <1>3 DEF Naming, UnnamedUntilRecorded
<1> QED
  BY <1>4, <1>5 DEF Naming

LEMMA RemovalNames ==
  ASSUME SlotInv, Keeping, Naming, NEW r \in live, DeleteCampaign(r) \/ ClearDispatchClaim(r)
  PROVE  Naming'
<1>1. /\ UNCHANGED <<pc, req, ver, ret>>
      /\ live' = live \ {r} /\ cleared \subseteq cleared'
      /\ \/ Complete(r.status) /\ buried' = buried \cup {[ver |-> r.ver, id |-> r.id]}
         \/ buried' = buried
  BY DEF DeleteCampaign, ClearDispatchClaim, Deletable, Complete
<1>2. NewVersionsAreFresh'
  <2> SUFFICES ASSUME NEW k \in Job, req[k].new, pc[k] \in {"readback_own", "call", "persist"},
                      k \notin cleared'
               PROVE  ver[k] \notin DeletedVersions'
    BY <1>1 DEF NewVersionsAreFresh
  <2>1. k \notin cleared /\ ver[k] \notin DeletedVersions /\ k # None
    BY <1>1, SlotConstants DEF Naming, NewVersionsAreFresh
  <2>2. PICK s \in live : s.ver = ver[k] /\ s.job = k
    BY <2>1 DEF Keeping, WorkingJobsHoldTheirRow, OwnRows, LiveAt
  <2>3. ~Complete(s.status)
    BY <2>1, <2>2 DEF Keeping, RowsArePendingUntilRecorded, Complete
  <2>4. Complete(r.status) => r.ver # ver[k]
    BY <2>2, <2>3 DEF SlotInv, SlotRest, OneRowPerVersion
  <2> QED
    BY <1>1, <2>1, <2>4 DEF DeletedVersions
<1>3. UnnamedUntilRecorded'
  <2> SUFFICES ASSUME cleared = {}, NEW k \in Job, pc[k] \notin {"done", "dead"}
               PROVE  /\ \A s \in live' : s.id # k
                      /\ \A b \in buried' : b.id # k
                      /\ \A i \in Job \ {k} : pc[i] = "persist" => ret[i].id # k
    BY <1>1 DEF UnnamedUntilRecorded
  <2> QED
    BY <1>1 DEF Naming, UnnamedUntilRecorded
<1>4. NewVersionsAreTheirOwn'
  BY <1>1 DEF Naming, NewVersionsAreTheirOwn
<1> QED
  BY <1>2, <1>3, <1>4 DEF Naming

-----------------------------------------------------------------------------
(* What versions build on: Building is kept.                               *)

\* Only an operator takes a complete campaign off the slot.
LEMMA SettledStays ==
  ASSUME SlotInv, Keeping, NEW j \in Job, JobStep(j), NEW v \in Nat, Settled(v)
  PROVE  \E r \in live' : r.ver = v /\ Reusable(r)
<1>1. PICK r \in live : r.ver = v /\ Reusable(r)
  BY DEF Settled
<1>2. CASE ReleaseClaim(j)
  <2>1. r \notin ReleasedBy(j)
    BY <1>1 DEF ReleasedBy, Reusable
  <2> QED
    BY <1>1, <1>2, <2>1 DEF ReleaseClaim
<1>3. CASE Records(j)
  <2>1. r \notin OwnRows(j)
    BY <1>1, <1>3, SlotConstants
    DEF Records, OwnRows, LiveAt, Reusable, Keeping, RowsArePendingUntilRecorded
  <2> QED
    BY <1>1, <1>3, <2>1 DEF Records, Record
<1>4. CASE ~ReleaseClaim(j) /\ ~Records(j)
  <2>1. r \in live'
    BY <1>4, KindsOfStep DEF MovesOn, Inserts, Start, LookupTargets, ReadBackOwn, CreateUpstream,
       ReturnSuccess, ReturnPartial, ReturnPreCreate
  <2> QED
    BY <1>1, <2>1
<1> QED
  BY <1>2, <1>3, <1>4

LEMMA SlotTypes ==
  ASSUME SlotInv
  PROVE  /\ \A j \in Job : ver[j] \in Nat \ {0} /\ req[j].exp \in Nat
         /\ \A r \in live : r.ver \in Nat \ {0} /\ r.job \in Job \cup {None}
BY SlotConstants DEF SlotInv, TypeOK, Version, Request, Row

\* Below every row of a version above the first is a complete campaign.
LEMMA RowsBuildUp ==
  ASSUME SlotInv, Building, buried = {}, cleared = {}, NEW r \in live, r.ver > 1
  PROVE  Settled(r.ver - 1)
<1>1. r.job # None
  BY DEF Building, AdoptedIsFirst
<1>2. r.job \in Job /\ r.ver = ver[r.job]
  BY <1>1, SlotTypes DEF SlotInv, SlotRest, RowsOfClaimants
<1> QED
  BY <1>2 DEF Building, VersionsBuildUp

\* The version a new_version request goes for is the first of an empty slot, or
\* the one after the campaign its caller saw.
LEMMA NewTarget ==
  ASSUME SlotInv, buried = {}, NEW j \in Job, req[j].new, NEW v \in Version, Target(j, v)
  PROVE  \/ live = {} /\ v = 1
         \/ \E r \in live : Reusable(r) /\ r.ver = req[j].exp /\ v = r.ver + 1
<1>1. v \in Nat \ {0} /\ IsNextVersion(v) /\ UsedVersions = {r.ver : r \in live}
  BY SlotConstants DEF Target, Version, UsedVersions, DeletedVersions
<1>2. CASE live = {}
  BY <1>1, <1>2 DEF IsNextVersion
<1>3. CASE live # {}
  <2>1. PICK r \in live : IsLatest(r) /\ Reusable(r) /\ r.ver = req[j].exp
    BY <1>3 DEF Target
  <2>2. r.ver \in Nat \ {0} /\ r.ver < v
    BY <1>1, SlotTypes DEF IsNextVersion
  <2>3. PICK s \in live : s.ver = v - 1
    BY <1>1, <2>2 DEF IsNextVersion
  <2>4. s.ver <= r.ver
    BY <2>1 DEF IsLatest
  <2> QED
    BY <1>1, <2>1, <2>2, <2>3, <2>4
<1> QED
  BY <1>2, <1>3

LEMMA JobBuilds ==
  ASSUME SlotInv, SlotInv', Keeping, Building, NEW j \in Job, JobStep(j)
  PROVE  Building'
<1>1. AdoptedIsFirst'
  <2>1. j # None
    BY SlotConstants
  <2> QED
    BY <2>1, OthersAreUntouched DEF Building, AdoptedIsFirst
<1>2. UNCHANGED <<ver, req>> \/ Start(j) \/ LookupTargets(j)
  BY KindsOfStep DEF MovesOn, Inserts, Records, ReleaseClaim, ReadBackOwn, CreateUpstream,
     ReturnSuccess, ReturnPartial, ReturnPreCreate
<1>3. NotYetTargeted'
  <2> SUFFICES ASSUME NEW i \in Job, pc'[i] \in {"idle", "lookup"} PROVE ver'[i] = 1
    BY DEF NotYetTargeted
  <2>1. CASE i # j
    BY <2>1, OthersAreUntouched DEF Building, NotYetTargeted
  <2>2. CASE i = j
    <3>1. pc[j] \in {"idle", "lookup"} /\ ver' = ver
      BY <2>2, KindsOfStep DEF MovesOn, Inserts, Records, Start, LookupTargets, ReleaseClaim,
         ReadBackOwn, CreateUpstream, ReturnSuccess, ReturnPartial, ReturnPreCreate, Goto, Finish,
         SlotInv, TypeOK
    <3> QED
      BY <2>2, <3>1 DEF Building, NotYetTargeted
  <2> QED
    BY <2>1, <2>2
<1>4. VersionsBuildUp'
  <2> SUFFICES ASSUME buried = {}, cleared = {}, NEW i \in Job
               PROVE  (/\ ver[i] > 1 => Settled(ver[i] - 1)
                       /\ req[i].new /\ req[i].exp > 1 => Settled(req[i].exp - 1))'
    BY OthersAreUntouched DEF VersionsBuildUp
  <2>1. ver'[i] \in Nat \ {0} /\ req'[i].exp \in Nat
    BY SlotTypes, SlotConstants DEF SlotInv, TypeOK, Version, Request
  <2>2. ver'[i] > 1 => Settled(ver'[i] - 1)
    <3>1. CASE ver'[i] = ver[i]
      BY <3>1 DEF Building, VersionsBuildUp
    <3>2. CASE i = j /\ LookupTargets(j)
      <4>1. PICK v \in Version : Target(j, v) /\ ver'[j] = v
        BY <3>2 DEF LookupTargets, SlotInv, TypeOK
      <4>2. CASE req[j].new
        <5>1. SUFFICES ASSUME v > 1 PROVE Settled(v - 1)
          BY <3>2, <4>1
        <5>2. PICK r \in live : Reusable(r) /\ v = r.ver + 1
          BY <4>1, <4>2, <5>1, NewTarget
        <5>3. r.ver = v - 1
          BY <5>2, SlotTypes
        <5> QED
          BY <5>2, <5>3 DEF Settled
      <4>3. CASE ~req[j].new
        <5>1. v = 1 \/ \E r \in live : r.ver = v
          BY <4>1, <4>3 DEF Target
        <5> QED
          BY <3>2, <4>1, <5>1, RowsBuildUp
      <4> QED
        BY <4>2, <4>3
    <3> QED
      BY <1>2, <3>1, <3>2, OthersAreUntouched DEF Start
  <2>3. req'[i].new /\ req'[i].exp > 1 => Settled(req'[i].exp - 1)
    <3>1. CASE req'[i] = req[i]
      BY <3>1 DEF Building, VersionsBuildUp
    <3>2. CASE i = j /\ Start(j)
      <4>1. \/ ~req'[j].new
            \/ \E v \in Version \cup {0} : Seen(v) /\ req'[j].exp = v
        BY <3>2 DEF Start, SlotInv, TypeOK
      <4>2. req'[j].new /\ req'[j].exp > 1 => \E r \in live : r.ver = req'[j].exp
        BY <4>1 DEF Seen
      <4> QED
        BY <3>2, <4>2, RowsBuildUp
    <3> QED
      BY <1>2, <3>1, <3>2, OthersAreUntouched DEF LookupTargets
  <2> QED
    BY <2>1, <2>2, <2>3, SettledStays DEF Settled, Reusable
<1>5. ClaimsTheNext'
  <2> SUFFICES ASSUME buried = {}, cleared = {}, NEW i \in Job, req'[i].new,
                      Committed(i)' \/ pc'[i] \in {"claim", "readback_own"}
               PROVE  ver'[i] = req'[i].exp + 1 \/ (ver'[i] = 1 /\ req'[i].exp = 1)
    BY OthersAreUntouched DEF ClaimsTheNext
  <2>1. CASE i # j
    BY <2>1, OthersAreUntouched DEF Building, ClaimsTheNext, Committed
  <2>2. CASE i = j /\ LookupTargets(j)
    <3>1. PICK v \in Version : Target(j, v) /\ ver'[j] = v
      BY <2>2 DEF LookupTargets, SlotInv, TypeOK
    <3>2. req' = req
      BY <2>2 DEF LookupTargets
    <3>3. CASE live = {} /\ v = 1
      <4>1. ~Settled(req[j].exp - 1)
        BY <3>3 DEF Settled
      <4>2. req[j].exp \in Nat /\ ~(req[j].exp > 1)
        BY <2>2, <3>2, <4>1, SlotTypes DEF Building, VersionsBuildUp
      <4> QED
        BY <2>2, <3>1, <3>2, <3>3, <4>2
    <3>4. CASE v = req[j].exp + 1
      BY <2>2, <3>1, <3>2, <3>4
    <3> QED
      BY <2>2, <3>1, <3>2, <3>3, <3>4, NewTarget
  <2>3. CASE i = j /\ ~LookupTargets(j)
    <3>1. Committed(j) \/ pc[j] \in {"claim", "readback_own"}
      <4>1. pc'[j] \in {"claim", "readback_own"} => pc[j] \in {"claim", "readback_own"}
        BY <2>3, KindsOfStep DEF MovesOn, Inserts, Records, Start, ReleaseClaim,
           ReadBackOwn, CreateUpstream, ReturnSuccess, ReturnPartial, ReturnPreCreate, Goto, Finish,
           SlotInv, TypeOK
      <4> QED
        BY <2>3, <4>1, Commits
    <3>2. ~Start(j)
      BY <3>1 DEF Start, SlotInv, SlotRest, QuietBeforeTheCall
    <3> QED
      BY <1>2, <2>3, <3>1, <3>2 DEF Building, ClaimsTheNext
  <2> QED
    BY <2>1, <2>2, <2>3
<1> QED
  BY <1>1, <1>3, <1>4, <1>5 DEF Building

LEMMA AdoptionBuilds ==
  ASSUME SlotInv, Building, NEW id \in CampaignId, AdoptCampaign(id)
  PROVE  Building'
<1>1. /\ UNCHANGED <<buried, cleared, upstream, asked, pc, req, ver>>
      /\ live = {} /\ \A r \in live' : r.ver = 1
  BY DEF AdoptCampaign
<1>2. \A v : ~Settled(v)
  BY <1>1 DEF Settled
<1>3. VersionsBuildUp'
  BY <1>1, <1>2 DEF Building, VersionsBuildUp
<1>4. AdoptedIsFirst' /\ NotYetTargeted' /\ ClaimsTheNext'
  BY <1>1 DEF Building, AdoptedIsFirst, NotYetTargeted, ClaimsTheNext, Committed
<1> QED
  BY <1>3, <1>4 DEF Building

LEMMA RemovalBuilds ==
  ASSUME SlotInv, Building, NEW r \in live, DeleteCampaign(r) \/ ClearDispatchClaim(r)
  PROVE  Building'
<1>1. /\ UNCHANGED <<upstream, asked, pc, req, ver>>
      /\ live' \subseteq live
      /\ buried' # {} \/ cleared' # {}
  BY DEF DeleteCampaign, ClearDispatchClaim
<1>2. VersionsBuildUp' /\ ClaimsTheNext'
  BY <1>1 DEF VersionsBuildUp, ClaimsTheNext
<1>3. AdoptedIsFirst' /\ NotYetTargeted'
  BY <1>1 DEF Building, AdoptedIsFirst, NotYetTargeted
<1> QED
  BY <1>2, <1>3 DEF Building

-----------------------------------------------------------------------------
(* The invariant of the last three theorems.                               *)

TrackInv == SlotInv /\ Keeping /\ Naming /\ Building

LEMMA InitTrackInv == Init => TrackInv
<1> SUFFICES ASSUME Init PROVE TrackInv
  OBVIOUS
<1>1. SlotInv
  BY InitTypeOK, InitSlotRest DEF SlotInv
<1>2. /\ live = {} /\ buried = {} /\ asked = {}
      /\ \A j \in Job : /\ pc[j] = "idle" /\ upstream[j] = 0 /\ ver[j] = 1
                        /\ ~req[j].new /\ ~Committed(j)
  BY DEF Init, Committed
<1>3. Keeping
  BY <1>2 DEF Keeping, RowsArePendingUntilRecorded, WorkingJobsHoldTheirRow, CampaignsAreKept,
     CompleteNamesTheCampaign
<1>4. Naming
  BY <1>2 DEF Naming, NewVersionsAreFresh, UnnamedUntilRecorded, NewVersionsAreTheirOwn
<1>5. Building
  BY <1>2 DEF Building, VersionsBuildUp, AdoptedIsFirst, NotYetTargeted, ClaimsTheNext
<1> QED
  BY <1>1, <1>3, <1>4, <1>5 DEF TrackInv

LEMMA NextTrackInv == TrackInv /\ [Next]_vars => TrackInv'
<1> SUFFICES ASSUME TrackInv, [Next]_vars PROVE TrackInv'
  OBVIOUS
<1>1. SlotInv'
  BY NextSlotInv DEF TrackInv
<1>2. ASSUME NEW j \in Job, JobStep(j) PROVE TrackInv'
  BY <1>1, <1>2, JobKeeps, JobNames, JobBuilds DEF TrackInv
<1>3. ASSUME NEW id \in CampaignId, AdoptCampaign(id) PROVE TrackInv'
  BY <1>1, <1>3, AdoptionKeeps, AdoptionNames, AdoptionBuilds DEF TrackInv
<1>4. ASSUME NEW r \in live, DeleteCampaign(r) \/ ClearDispatchClaim(r) PROVE TrackInv'
  BY <1>1, <1>4, RemovalKeeps, RemovalNames, RemovalBuilds DEF TrackInv
<1>5. CASE UNCHANGED vars
  <2>1. Keeping'
    BY <1>5 DEF vars, TrackInv, Keeping, RowsArePendingUntilRecorded, WorkingJobsHoldTheirRow,
       CampaignsAreKept, CompleteNamesTheCampaign, Committed, OwnRows, LiveAt
  <2>2. Naming'
    BY <1>5 DEF vars, TrackInv, Naming, NewVersionsAreFresh, UnnamedUntilRecorded,
       NewVersionsAreTheirOwn, DeletedVersions
  <2>3. Building'
    BY <1>5 DEF vars, TrackInv, Building, VersionsBuildUp, AdoptedIsFirst, NotYetTargeted,
       ClaimsTheNext, Committed, Settled, Reusable
  <2> QED
    BY <1>1, <2>1, <2>2, <2>3 DEF TrackInv
<1> QED
  BY <1>2, <1>3, <1>4, <1>5 DEF Next

LEMMA TrackInvHolds == Spec => []TrackInv
BY InitTrackInv, NextTrackInv, PTL DEF Spec

\* A campaign a job paid for is named by a live or a deleted row, or its
\* version is held by an unfinished row of that job, at every step and after
\* the job's death, unless an operator cleared the claim.
THEOREM PaidCampaignsAreTracked == Spec => []EveryCampaignTracked
<1>1. TrackInv => EveryCampaignTracked
  <2> SUFFICES ASSUME TrackInv, NEW j \in Job, upstream[j] # 0, j \notin cleared,
                      \A b \in buried : b.id # j
               PROVE  \E r \in live : r.id = j \/ (r.job = j /\ ~Reusable(r))
    BY DEF EveryCampaignTracked
  <2>1. Committed(j)
    BY DEF Committed
  <2>2. PICK r \in live : r.job = j
    BY <2>1 DEF TrackInv, Keeping, CampaignsAreKept, OwnRows, LiveAt
  <2>3. r.status \in Status
    BY DEF TrackInv, SlotInv, TypeOK, Row
  <2>4. Reusable(r) => Complete(r.status)
    BY <2>3 DEF Reusable, Complete, Status, PreservableErrorStatuses
  <2> QED
    BY <2>1, <2>2, <2>4 DEF TrackInv, Keeping, CompleteNamesTheCampaign
<1> QED
  BY <1>1, TrackInvHolds, PTL

\* Two new_version requests from one form, whose caller saw the campaign that is
\* still there, or none, pay for one campaign between them.
THEOREM DoubleSubmitPaysOnce == Spec => []DoubleSubmitCreatesOne
<1>1. TrackInv => DoubleSubmitCreatesOne
  <2> SUFFICES ASSUME TrackInv, NEW i \in Job, NEW j \in Job, SameSubmission(i, j),
                      req[i].exp = 0 \/ \E r \in live : r.ver = req[i].exp /\ r.job \notin {i, j},
                      buried = {}, cleared = {}, upstream[i] # 0, upstream[j] # 0
               PROVE  FALSE
    BY DEF DoubleSubmitCreatesOne
  <2>1. Committed(i) /\ Committed(j)
    BY DEF Committed
  <2>2. OwnRows(i) # {} /\ OwnRows(j) # {}
    BY <2>1 DEF TrackInv, Keeping, CampaignsAreKept
  <2>3. ver[i] # ver[j]
    BY <2>2, OneJobPerVersion DEF TrackInv, SameSubmission
  <2>4. /\ ver[i] = req[i].exp + 1 \/ (ver[i] = 1 /\ req[i].exp = 1)
        /\ ver[j] = req[i].exp + 1 \/ (ver[j] = 1 /\ req[i].exp = 1)
    BY <2>1 DEF TrackInv, Building, ClaimsTheNext, SameSubmission
  <2>5. req[i].exp = 1 /\ 1 \in {ver[i], ver[j]}
    BY <2>3, <2>4
  <2>6. PICK r \in live : r.ver = 1 /\ r.job \notin {i, j}
    BY <2>5
  <2> QED
    BY <2>2, <2>5, <2>6 DEF OwnRows, LiveAt, TrackInv, SlotInv, SlotRest, OneRowPerVersion
<1> QED
  BY <1>1, TrackInvHolds, PTL

\* What a new_version request reports as created is not a campaign that
\* somebody deleted.
THEOREM NewVersionsAreNew == Spec => NewVersionNeverRevivesADeleted
<1> DEFINE A == \A j \in Job :
                  Finishes(j, "created") /\ req[j].new /\ cleared = {} =>
                    \A b \in buried : b.id # res'[j].id
<1>1. ASSUME TrackInv, NEW k \in Job, JobStep(k) PROVE A
  <2> SUFFICES ASSUME NEW j \in Job, Finishes(j, "created"), req[j].new, cleared = {}
               PROVE  \A b \in buried : b.id # res'[j].id
    OBVIOUS
  <2>1. k = j /\ PersistRecords(j) /\ ~ret[j].err
    BY <1>1 DEF Finishes, TrackInv, SlotInv, TypeOK, Finish, Goto, JobStep, Start, LookupFails,
       LookupReuses, LookupFindsUnfinished, LookupTargets, ClaimRefused, ClaimInserts,
       ClaimConflicts, ClaimFails, ReadBackOwn, ReadBackOwnFails, ReadBackOther,
       ReadBackOtherFails, ReleaseClaim, ReleaseFails, CreateUpstream, ReturnSuccess,
       ReturnPartial, ReturnPreCreate, ReturnNothing, PersistRecords, PersistClaimLost,
       PersistFails, Crash
  <2>2. pc[j] = "persist" /\ CanRecord(j) /\ res'[j].id = ret[j].id
    BY <1>1, <2>1 DEF PersistRecords, Finish, TrackInv, SlotInv, TypeOK
  <2>3. ret[j].id \in {j} \cup BoundElsewhere
    BY <1>1, <2>1, <2>2 DEF TrackInv, Naming, NewVersionsAreTheirOwn
  <2>4. ret[j].id = j
    BY <2>2, <2>3, SlotConstants DEF CanRecord, AlreadyBound
  <2> QED
    BY <1>1, <2>2, <2>4 DEF TrackInv, Naming, UnnamedUntilRecorded
<1>2. ASSUME NEW id \in CampaignId, AdoptCampaign(id) PROVE A
  BY <1>2 DEF AdoptCampaign, Finishes
<1>3. ASSUME NEW r \in live, DeleteCampaign(r) \/ ClearDispatchClaim(r) PROVE A
  BY <1>3 DEF DeleteCampaign, ClearDispatchClaim, Finishes
<1>4. TrackInv /\ [Next]_vars => [A]_vars
  BY <1>1, <1>2, <1>3 DEF Next
<1> QED
  BY <1>4, TrackInvHolds, PTL DEF Spec, NewVersionNeverRevivesADeleted
===============================================================================
