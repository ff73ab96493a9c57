---------------------------- MODULE BriefApproval ----------------------------
(***************************************************************************)
(* One campaign brief: its edits, approvals and archival, and the dispatch *)
(* jobs created from it.  Every write bumps the version of the row; edits  *)
(* and approvals are compare-and-swaps on the version their client read.   *)
(* A dispatch uses the brief its request read, and its job is created only *)
(* if that is still the row's approved version, under the row's lock.      *)
(*                                                                         *)
(* A content is named by the version of the edit that wrote it.            *)
(***************************************************************************)
EXTENDS Naturals

CONSTANTS
  NoRead,     \* nothing read
  MaxVersion  \* bound: versions of the brief

ASSUME BriefConstants == MaxVersion \in Nat \ {0} /\ NoRead \notin [version : Nat, status : STRING, content : Nat]

VARIABLES
  brief,     \* the row
  lockedBy,  \* transactions of other components that hold the row's lock
  review,    \* what the approver has read and not yet decided on
  order,     \* what the request for a dispatch has read
  signedOff, \* history: the contents an approver read and then approved
  dispatched \* the contents jobs were created for

briefVars == <<brief, lockedBy, review, order, signedOff, dispatched>>

Brief == [version : 1 .. MaxVersion, status : {"draft", "approved", "archived"}, content : 1 .. MaxVersion]

BriefTypeOK ==
  /\ brief \in Brief
  /\ review \in Brief \cup {NoRead}
  /\ order \in Brief \cup {NoRead}
  /\ signedOff \subseteq 1 .. MaxVersion
  /\ dispatched \subseteq 1 .. MaxVersion

BriefInit ==
  /\ brief = [version |-> 1, status |-> "draft", content |-> 1]
  /\ lockedBy = {}
  /\ review = NoRead /\ order = NoRead
  /\ signedOff = {} /\ dispatched = {}

-----------------------------------------------------------------------------
Live == brief.status # "archived"

\* An UPDATE of the row waits for its lock.
Writable == lockedBy = {} /\ Live /\ brief.version < MaxVersion

\* GetBrief shows the last committed row.
ReadForReview ==
  /\ Live
  /\ review' = brief
  /\ UNCHANGED <<brief, lockedBy, order, signedOff, dispatched>>

ReadForDispatch ==
  /\ Live /\ brief.status = "approved"
  /\ order' = brief
  /\ UNCHANGED <<brief, lockedBy, review, signedOff, dispatched>>

\* An edit is the compare-and-swap alone: its editor read the version it replaces.
ReplaceBrief ==
  /\ Writable
  /\ brief' = [version |-> brief.version + 1, status |-> "draft", content |-> brief.version + 1]
  /\ UNCHANGED <<lockedBy, review, order, signedOff, dispatched>>

\* Mutant: an approval is of the brief, whatever its version.
MutApprovable == TRUE

Approvable == brief.version = review.version

Approve ==
  /\ Writable /\ review # NoRead
  /\ Approvable
  /\ brief' = [brief EXCEPT !.version = @ + 1, !.status = "approved"]
  /\ signedOff' = signedOff \cup {review.content}
  /\ review' = NoRead
  /\ UNCHANGED <<lockedBy, order, dispatched>>

\* Not gated on a version.
ArchiveBrief ==
  /\ Writable
  /\ brief' = [brief EXCEPT !.version = @ + 1, !.status = "archived"]
  /\ UNCHANGED <<lockedBy, review, order, signedOff, dispatched>>

\* The row, its lock taken, is still approved at version v.
ApprovedAt(v) == lockedBy = {} /\ brief.status = "approved" /\ brief.version = v

\* CreateJobForApprovedBrief.
CreateJob ==
  /\ order # NoRead
  /\ ApprovedAt(order.version)
  /\ dispatched' = dispatched \cup {order.content}
  /\ order' = NoRead
  /\ UNCHANGED <<brief, lockedBy, review, signedOff>>

BriefNext ==
  \/ ReadForReview \/ ReadForDispatch \/ ReplaceBrief \/ Approve \/ ArchiveBrief \/ CreateJob

BriefSpec == BriefInit /\ [][BriefNext]_briefVars

-----------------------------------------------------------------------------
(* Properties. *)

\* What a job dispatches is a content that an approver read and then approved, however
\* edits, approvals and requests for a dispatch interleave.
JobsUseSignedOffContent == dispatched \subseteq signedOff
=============================================================================
