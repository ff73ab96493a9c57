---------------------------- MODULE UploadProofs -----------------------------
(***************************************************************************)
(* Proofs about the two parts of the service that an upload goes through,  *)
(* the brief's assets and, further down, the memory budget.                *)
(*                                                                         *)
(* BriefAssets, for any number of uploads, deletions, dispatches and edits *)
(* of a brief and any quota: the brief's lock keeps what an upload checked *)
(* and what a deletion decided true until they commit; the version of a    *)
(* campaign's row keeps an edit from bringing back a row that has no       *)
(* snapshot.                                                               *)
(*                                                                         *)
(* UploadBudget, for any number of uploads of any size and any budget: the *)
(* invariant says of each upload whether it is in a queue, was granted its *)
(* charge or holds it, and of the counter that it is the sum of what is    *)
(* held; one lemma about grantLocked serves every operation that calls it. *)
(***************************************************************************)
EXTENDS BriefAssets, UploadBudget, FiniteSetTheorems, WellFoundedInduction, TLAPS

\* The brief's lock is of the upload or the deletion that works under it.
Locks ==
  /\ \A u \in Upload : uploads[u] = "checked" => lock = u
  /\ \A x \in Deletion : deletions[x].at \in {"locked", "deleting"} => lock = x

\* What was checked of an upload is true until it commits.
Checked ==
  \A u \in Upload : uploads[u] = "checked" => ~archived /\ (Stored(ImageOf[u]) \/ RoomLeft(u))

\* Where a dispatch is tells its row, and the row's status whether it has a snapshot.
Rows ==
  \A d \in Dispatch :
    /\ uses[d] # Null
    /\ pc[d] = "new" => row[d].status = "none"
    /\ pc[d] # "new" => row[d].version > 0
    /\ pc[d] \in {"claimed", "creating", "releasing"} =>
         row[d].status = "pending" \/ (row[d].status = "none" /\ d \in cleared)
    /\ row[d].status = "pending" => row[d].asset = Null
    /\ row[d].status = "settled" => row[d].asset # Null

\* An edit whose version is still the row's goes from no snapshot to none, or from one
\* to one.
Edits ==
  \A e \in Edit : edits[e].of # Null =>
    /\ pc[edits[e].of] # "new"
    /\ edits[e].version <= row[edits[e].of].version
    /\ edits[e].version = row[edits[e].of].version =>
         /\ row[edits[e].of].status = "pending" => edits[e].asset = Null
         /\ row[edits[e].of].status = "settled" => edits[e].asset # Null

\* A deletion that was decided is still right.
Deciding ==
  \A x \in Deletion : deletions[x].at = "deleting" => \A d \in Dispatch : ~Needs(d, deletions[x].of)

InUse ==
  ~archived => \A d \in Dispatch \ cleared :
     /\ row[d].status = "settled" => row[d].asset \in assets \cup {NoAsset}
     /\ pc[d] = "creating" => uses[d] \in assets \cup {NoAsset}

Inv == TypeOK /\ Locks /\ Checked /\ Rows /\ Edits /\ Deciding /\ InUse

-----------------------------------------------------------------------------
(* Types. *)

\* What the types say of each variable.
Statuses == {"none", "pending", "settled", "deleted"}
RowSet == [status : Statuses, asset : Snapshot, version : Nat]
EditSet == [of : Dispatch \cup {Null}, version : Nat, asset : Snapshot]

LEMMA Domains ==
  ASSUME TypeOK
  PROVE  /\ row \in [Dispatch -> RowSet]
         /\ edits \in [Edit -> EditSet]
         /\ deletions \in [Deletion -> [at : {"new", "locked", "deleting", "over"}, of : Upload \cup {Null}]]
         /\ uploads \in [Upload -> {"new", "checked", "over"}]
         /\ pc \in [Dispatch -> {"new", "claimed", "creating", "releasing", "over"}]
         /\ uses \in [Dispatch -> Snapshot]
         /\ assets \subseteq Upload
  BY DEF TypeOK, RowSet, Statuses, EditSet

\* A campaign's row changes by these.
LEMMA RowStep ==
  ASSUME row \in [Dispatch -> RowSet], uses \in [Dispatch -> Snapshot], edits \in [Edit -> EditSet], Next
  PROVE  row' \in [Dispatch -> RowSet]
<1>1. ASSUME NEW d \in Dispatch, Claim(d) PROVE row' \in [Dispatch -> RowSet]
  BY <1>1 DEF Claim, RowSet, Statuses, Snapshot
<1>2. ASSUME NEW d \in Dispatch, ReleaseClaim(d) \/ ClearClaim(d) PROVE row' \in [Dispatch -> RowSet]
  <2>1. Without(d) \in [Dispatch -> RowSet]
    BY DEF Without, RowSet, Statuses, Snapshot
  <2> QED
    BY <1>2, <2>1 DEF ReleaseClaim, ClearClaim
<1>3. ASSUME NEW d \in Dispatch, Record(d) PROVE row' \in [Dispatch -> RowSet]
  <2>1. row[d].version + 1 \in Nat
    BY DEF RowSet
  <2> QED
    BY <1>3, <2>1 DEF Record, RowSet, Statuses
<1>4. ASSUME NEW d \in Dispatch, DeleteCampaign(d) PROVE row' \in [Dispatch -> RowSet]
  BY <1>4 DEF DeleteCampaign, RowSet, Statuses
<1>5. ASSUME NEW e \in Edit, Replace(e) PROVE row' \in [Dispatch -> RowSet]
  <2>1. edits[e].asset \in Snapshot /\ \A d \in Dispatch : row[d].version + 1 \in Nat
    BY DEF EditSet, RowSet
  <2> QED
    BY <1>5, <2>1 DEF Replace, RowSet
<1>6. ASSUME NEW e \in Edit, Load(e) PROVE row' = row
  BY <1>6 DEF Load, campaigns
<1>7. ASSUME NEW d \in Dispatch, Resolve(d) \/ Stop(d) PROVE row' = row
  BY <1>7 DEF Resolve, Stop
<1>8. ASSUME NEW u \in Upload, CheckUpload(u) \/ CommitUpload(u) \/ Prune(u) PROVE row' = row
  BY <1>8 DEF CheckUpload, CommitUpload, Prune, campaigns
<1>9. ASSUME NEW x \in Deletion, LockForDeletion(x) \/ Decide(x) \/ CommitDeletion(x) PROVE row' = row
  BY <1>9 DEF LockForDeletion, Decide, CommitDeletion, campaigns
<1>10. ASSUME Archive PROVE row' = row
  BY <1>10 DEF Archive, campaigns
<1> QED
  BY <1>1, <1>2, <1>3, <1>4, <1>5, <1>6, <1>7, <1>8, <1>9, <1>10 DEF Next

\* What an edit loads is a version and an asset, or none.
LEMMA EditStep ==
  ASSUME row \in [Dispatch -> RowSet], edits \in [Edit -> EditSet], Next
  PROVE  edits' \in [Edit -> EditSet]
<1>1. ASSUME NEW e \in Edit, Load(e) PROVE edits' \in [Edit -> EditSet]
  <2>1. PICK d \in Dispatch, a \in Snapshot :
          edits' = [edits EXCEPT ![e] = [of |-> d, version |-> row[d].version, asset |-> a]]
    BY <1>1 DEF Load, RowSet, Snapshot
  <2> QED
    BY <2>1 DEF EditSet, RowSet
<1>2. ASSUME NEW e \in Edit, Replace(e) PROVE edits' \in [Edit -> EditSet]
  BY <1>2 DEF Replace, EditSet
<1>3. ASSUME NEW d \in Dispatch, \/ Claim(d) \/ Resolve(d) \/ ReleaseClaim(d) \/ Record(d) \/ Stop(d)
                                 \/ ClearClaim(d) \/ DeleteCampaign(d)
      PROVE  edits' = edits
  BY <1>3 DEF Claim, Resolve, ReleaseClaim, Record, Stop, ClearClaim, DeleteCampaign
<1>4. ASSUME NEW u \in Upload, CheckUpload(u) \/ CommitUpload(u) \/ Prune(u) PROVE edits' = edits
  BY <1>4 DEF CheckUpload, CommitUpload, Prune
<1>5. ASSUME NEW x \in Deletion, LockForDeletion(x) \/ Decide(x) \/ CommitDeletion(x) PROVE edits' = edits
  BY <1>5 DEF LockForDeletion, Decide, CommitDeletion
<1> QED
  BY <1>1, <1>2, <1>3, <1>4, <1>5 DEF Next, Archive

LEMMA TypeStep ==
  ASSUME TypeOK, [Next]_vars
  PROVE  TypeOK'
<1> DEFINE Rest == /\ archived \in BOOLEAN
                   /\ lock \in Upload \cup Deletion \cup {Null}
                   /\ assets \subseteq Upload
                   /\ uploads \in [Upload -> {"new", "checked", "over"}]
                   /\ pc \in [Dispatch -> {"new", "claimed", "creating", "releasing", "over"}]
                   /\ uses \in [Dispatch -> Snapshot]
                   /\ cleared \subseteq Dispatch
                   /\ deletions \in [Deletion -> [at : {"new", "locked", "deleting", "over"}, of : Upload \cup {Null}]]
<1>1. Rest
  BY DEF TypeOK
<1>2. ASSUME NEW u \in Upload, CheckUpload(u) \/ CommitUpload(u) \/ Prune(u) PROVE Rest'
  BY <1>1, <1>2 DEF CheckUpload, CommitUpload, Prune, campaigns
<1>3. ASSUME NEW x \in Deletion, LockForDeletion(x) \/ Decide(x) \/ CommitDeletion(x) PROVE Rest'
  BY <1>1, <1>3 DEF LockForDeletion, Decide, CommitDeletion, campaigns
<1>4. ASSUME NEW d \in Dispatch, \/ Claim(d) \/ Resolve(d) \/ ReleaseClaim(d) \/ Record(d) \/ Stop(d)
                                 \/ ClearClaim(d) \/ DeleteCampaign(d)
      PROVE  Rest'
  BY <1>1, <1>4 DEF Claim, Resolve, ReleaseClaim, Record, Stop, ClearClaim, DeleteCampaign, Goto, Snapshot
<1>5. ASSUME NEW e \in Edit, Load(e) \/ Replace(e) PROVE Rest'
  BY <1>1, <1>5 DEF Load, Replace, campaigns
<1>6. ASSUME Archive PROVE Rest'
  BY <1>1, <1>6 DEF Archive, campaigns
<1>7. CASE Next
  <2>1. Rest'
    BY <1>2, <1>3, <1>4, <1>5, <1>6, <1>7 DEF Next
  <2>2. row' \in [Dispatch -> RowSet] /\ edits' \in [Edit -> EditSet]
    BY <1>7, Domains, RowStep, EditStep
  <2> QED
    BY <2>1, <2>2 DEF TypeOK, RowSet, Statuses, EditSet
<1>8. CASE UNCHANGED vars
  BY <1>8 DEF vars, campaigns, TypeOK
<1> QED
  BY <1>7, <1>8

-----------------------------------------------------------------------------
(* The lock. *)

LEMMA LocksStep ==
  ASSUME TypeOK, Locks, Next
  PROVE  Locks'
<1>1. /\ \A u \in Upload, x \in Deletion : u # x
      /\ \A u \in Upload : u # Null
      /\ \A x \in Deletion : x # Null
  BY AssetConstants
<1>2. ASSUME NEW u \in Upload, CheckUpload(u) PROVE Locks'
  <2>1. (\A v \in Upload : uploads[v] # "checked") /\ (\A x \in Deletion : deletions[x].at \notin {"locked", "deleting"})
    BY <1>1, <1>2 DEF CheckUpload, LockFree, Locks
  <2>2. UNCHANGED deletions /\ \A v \in Upload : uploads'[v] = "checked" => v = u /\ lock' = u
    BY <1>2, <2>1, Domains DEF CheckUpload
  <2> QED
    BY <2>1, <2>2 DEF Locks
<1>3. ASSUME NEW u \in Upload, CommitUpload(u) PROVE Locks'
  BY <1>1, <1>3, Domains DEF CommitUpload, Locks
<1>4. ASSUME NEW x \in Deletion, LockForDeletion(x) PROVE Locks'
  BY <1>1, <1>4, Domains DEF LockForDeletion, LockFree, Locks
<1>5. ASSUME NEW x \in Deletion, Decide(x) PROVE Locks'
  BY <1>1, <1>5, Domains DEF Decide, Locks
<1>6. ASSUME NEW x \in Deletion, CommitDeletion(x) PROVE Locks'
  BY <1>1, <1>6, Domains DEF CommitDeletion, Locks
<1>7. UNCHANGED <<lock, uploads, deletions>> => Locks'
  BY DEF Locks
<1>8. ASSUME NEW d \in Dispatch, \/ Claim(d) \/ Resolve(d) \/ ReleaseClaim(d) \/ Record(d) \/ Stop(d)
                                 \/ ClearClaim(d) \/ DeleteCampaign(d)
      PROVE  UNCHANGED <<lock, uploads, deletions>>
  BY <1>8 DEF Claim, Resolve, ReleaseClaim, Record, Stop, ClearClaim, DeleteCampaign
<1>9. ASSUME NEW e \in Edit, Load(e) \/ Replace(e) PROVE UNCHANGED <<lock, uploads, deletions>>
  BY <1>9 DEF Load, Replace
<1>10. ASSUME NEW u \in Upload, Prune(u) PROVE UNCHANGED <<lock, uploads, deletions>>
  BY <1>10 DEF Prune
<1>11. ASSUME Archive PROVE UNCHANGED <<lock, uploads, deletions>>
  BY <1>11 DEF Archive
<1> QED
  BY <1>2, <1>3, <1>4, <1>5, <1>6, <1>7, <1>8, <1>9, <1>10, <1>11 DEF Next

\* While an upload works under the lock, the brief stays live and its images stay.
LEMMA CheckedStep ==
  ASSUME TypeOK, Locks, Checked, Next
  PROVE  Checked'
<1> SUFFICES ASSUME NEW u \in Upload, uploads'[u] = "checked"
             PROVE  ~archived' /\ (Stored(ImageOf[u])' \/ RoomLeft(u)')
  BY DEF Checked
<1>1. CASE CheckUpload(u)
  BY <1>1, Domains DEF CheckUpload, Stored, RoomLeft, BytesUsed
<1>2. CASE ~CheckUpload(u)
  <2>1. uploads[u] = "checked"
    BY <1>2, Domains DEF Next, CheckUpload, CommitUpload, Prune, LockForDeletion, Decide, CommitDeletion,
       Claim, Resolve, ReleaseClaim, Record, Stop, ClearClaim, DeleteCampaign, Load, Replace, Archive
  <2>2. lock = u /\ lock # Null /\ ~archived /\ (Stored(ImageOf[u]) \/ RoomLeft(u))
    BY <2>1, AssetConstants DEF Locks, Checked
  <2>3. ASSUME NEW v \in Upload, CommitUpload(v) PROVE FALSE
    <3>1. v = u
      BY <2>2, <2>3 DEF CommitUpload, Locks
    <3> QED
      BY <2>3, <3>1, Domains DEF CommitUpload
  <2>4. ASSUME NEW x \in Deletion, CommitDeletion(x) PROVE FALSE
    BY <2>2, <2>4, AssetConstants DEF CommitDeletion, Locks
  <2>5. UNCHANGED <<archived, assets>>
    BY <2>2, <2>3, <2>4 DEF Next, CheckUpload, Prune, LockForDeletion, Decide, LockFree,
       Claim, Resolve, ReleaseClaim, Record, Stop, ClearClaim, DeleteCampaign, Load, Replace, Archive
  <2> QED
    BY <2>2, <2>5 DEF Stored, RoomLeft, BytesUsed
<1> QED
  BY <1>1, <1>2

\* No campaign comes to need an asset while a deletion works under the lock.
LEMMA DecidingStep ==
  ASSUME TypeOK, Locks, Rows, Deciding, Next
  PROVE  Deciding'
<1> SUFFICES ASSUME NEW x \in Deletion, NEW a, deletions'[x] = [at |-> "deleting", of |-> a], NEW d \in Dispatch
             PROVE  ~(row'[d].status \in {"pending", "settled"}
                      /\ (row'[d].status = "pending" \/ row'[d].asset \in {Null, a}))
  <2>1. \A x \in Deletion : deletions'[x].at = "deleting" =>
          deletions'[x] = [at |-> "deleting", of |-> deletions'[x].of]
    BY TypeStep, Domains DEF TypeOK
  <2> QED
    BY <2>1 DEF Deciding, Needs
<1>1. row \in [Dispatch -> RowSet] /\ row[d] \in RowSet
  BY Domains
<1>2. CASE Decide(x)
  <2>1. MayDelete(deletions[x].of) /\ deletions[x].of = a /\ UNCHANGED row
    BY <1>2, Domains DEF Decide, campaigns
  <2> QED
    BY <2>1 DEF MayDelete, Needs
<1>3. CASE ~Decide(x)
  <2>1. deletions[x].at = "deleting" /\ deletions[x].of = a
    <3>1. ASSUME NEW y \in Deletion, LockForDeletion(y) \/ Decide(y) \/ CommitDeletion(y)
          PROVE  deletions'[x] = deletions[x]
      BY <1>3, <3>1, Domains DEF LockForDeletion, Decide, CommitDeletion
    <3>2. ASSUME NEW c \in Dispatch, \/ Claim(c) \/ Resolve(c) \/ ReleaseClaim(c) \/ Record(c) \/ Stop(c)
                                     \/ ClearClaim(c) \/ DeleteCampaign(c)
          PROVE  deletions' = deletions
      BY <3>2 DEF Claim, Resolve, ReleaseClaim, Record, Stop, ClearClaim, DeleteCampaign
    <3>3. ASSUME NEW u \in Upload, CheckUpload(u) \/ CommitUpload(u) \/ Prune(u) PROVE deletions' = deletions
      BY <3>3 DEF CheckUpload, CommitUpload, Prune
    <3>4. ASSUME NEW e \in Edit, Load(e) \/ Replace(e) PROVE deletions' = deletions
      BY <3>4 DEF Load, Replace
    <3>5. deletions'[x] = deletions[x]
      BY <3>1, <3>2, <3>3, <3>4 DEF Next, Archive
    <3> QED
      BY <3>5
  <2>2. lock = x /\ lock # Null /\ ~Needs(d, a)
    BY <2>1, AssetConstants DEF Locks, Deciding
  <2>3. row[d].status \notin {"pending", "settled"} \/ (row[d].status = "settled" /\ row[d].asset \notin {Null, a})
    BY <2>2 DEF Needs
  <2>4. ASSUME NEW c \in Dispatch, Claim(c) PROVE FALSE
    BY <2>2, <2>4 DEF Claim, LockFree
  <2>5. ASSUME NEW e \in Edit, Replace(e) PROVE FALSE
    BY <2>2, <2>5 DEF Replace, LockFree
  <2>6. ASSUME NEW c \in Dispatch, Record(c) PROVE row'[d] = row[d]
    <3>1. row[c].status = "pending"
      BY <2>2, <2>6 DEF Record, LockFree, Rows
    <3>2. c # d
      BY <2>3, <3>1
    <3> QED
      BY <1>1, <2>6, <3>2 DEF Record
  <2>7. ASSUME NEW c \in Dispatch, ReleaseClaim(c) \/ ClearClaim(c)
        PROVE  row'[d] = row[d] \/ row'[d].status = "none"
    BY <1>1, <2>7 DEF ReleaseClaim, ClearClaim, Without
  <2>8. ASSUME NEW c \in Dispatch, DeleteCampaign(c) PROVE row'[d] = row[d] \/ row'[d].status = "deleted"
    BY <1>1, <2>8 DEF DeleteCampaign, RowSet
  <2>9. ASSUME NEW c \in Dispatch, Resolve(c) \/ Stop(c) PROVE row' = row
    BY <2>9 DEF Resolve, Stop
  <2>10. ASSUME NEW u \in Upload, CheckUpload(u) \/ CommitUpload(u) \/ Prune(u) PROVE row' = row
    BY <2>10 DEF CheckUpload, CommitUpload, Prune, campaigns
  <2>11. ASSUME NEW y \in Deletion, LockForDeletion(y) \/ Decide(y) \/ CommitDeletion(y) PROVE row' = row
    BY <2>11 DEF LockForDeletion, Decide, CommitDeletion, campaigns
  <2>12. (Archive \/ \E e \in Edit : Load(e)) => row' = row
    BY DEF Archive, Load, campaigns
  <2>13. row'[d] = row[d] \/ row'[d].status \in {"none", "deleted"}
    BY <2>4, <2>5, <2>6, <2>7, <2>8, <2>9, <2>10, <2>11, <2>12 DEF Next
  <2> QED
    BY <2>3, <2>13
<1> QED
  BY <1>2, <1>3

-----------------------------------------------------------------------------
(* The campaigns' rows. *)

\* What Rows says of a dispatch.
RowOf(d) ==
  /\ uses[d] # Null
  /\ pc[d] = "new" => row[d].status = "none"
  /\ pc[d] # "new" => row[d].version > 0
  /\ pc[d] \in {"claimed", "creating", "releasing"} =>
       row[d].status = "pending" \/ (row[d].status = "none" /\ d \in cleared)
  /\ row[d].status = "pending" => row[d].asset = Null
  /\ row[d].status = "settled" => row[d].asset # Null

\* The variables RowOf looks at.
rowvars == <<row, pc, uses, cleared>>

LEMMA RowsStep ==
  ASSUME TypeOK, Rows, Edits, Next
  PROVE  Rows'
<1> SUFFICES ASSUME NEW d \in Dispatch PROVE RowOf(d)'
  BY DEF Rows, RowOf
<1>1. /\ row \in [Dispatch -> RowSet] /\ row[d] \in RowSet
      /\ pc \in [Dispatch -> {"new", "claimed", "creating", "releasing", "over"}]
      /\ uses \in [Dispatch -> Snapshot] /\ Null \notin Upload /\ Null # NoAsset
  BY Domains, AssetConstants
<1>2. RowOf(d)
  BY DEF Rows, RowOf
<1>3. ASSUME NEW c \in Dispatch, Claim(c) PROVE RowOf(d)'
  BY <1>1, <1>2, <1>3 DEF Claim, Goto, RowOf
<1>4. ASSUME NEW c \in Dispatch, Resolve(c) \/ Stop(c) PROVE RowOf(d)'
  BY <1>1, <1>2, <1>4 DEF Resolve, Stop, Goto, RowOf
<1>5. ASSUME NEW c \in Dispatch, ReleaseClaim(c) PROVE RowOf(d)'
  BY <1>1, <1>2, <1>5 DEF ReleaseClaim, Without, Goto, RowOf, RowSet
<1>6. ASSUME NEW c \in Dispatch, ClearClaim(c) PROVE RowOf(d)'
  BY <1>1, <1>2, <1>6 DEF ClearClaim, Without, RowOf, RowSet
<1>7. ASSUME NEW c \in Dispatch, Record(c) PROVE RowOf(d)'
  BY <1>1, <1>2, <1>7 DEF Record, Goto, RowOf, RowSet
<1>8. ASSUME NEW c \in Dispatch, DeleteCampaign(c) PROVE RowOf(d)'
  BY <1>1, <1>2, <1>8 DEF DeleteCampaign, RowOf, RowSet
<1>9. ASSUME NEW e \in Edit, Replace(e) PROVE RowOf(d)'
  <2>1. PICK c \in Dispatch : c = edits[e].of
    BY <1>9, Domains DEF Replace, EditSet
  <2>2. /\ row[c].status \in {"pending", "settled"} /\ row[c].version = edits[e].version
        /\ row' = [row EXCEPT ![c].asset = edits[e].asset, ![c].version = @ + 1]
        /\ UNCHANGED <<pc, uses, cleared>>
    BY <1>9, <2>1 DEF Replace
  <2>3. edits[e].of # Null /\ (row[c].status = "pending" => edits[e].asset = Null)
        /\ (row[c].status = "settled" => edits[e].asset # Null)
    BY <1>9, <2>1, <2>2 DEF Replace, Edits
  <2>4. CASE c = d
    BY <1>1, <1>2, <2>2, <2>3, <2>4 DEF RowOf, RowSet
  <2>5. CASE c # d
    BY <1>1, <1>2, <2>2, <2>5 DEF RowOf
  <2> QED
    BY <2>4, <2>5
<1>10. UNCHANGED rowvars => RowOf(d)'
  BY <1>2 DEF rowvars, RowOf
<1>11. ASSUME NEW u \in Upload, CheckUpload(u) \/ CommitUpload(u) \/ Prune(u) PROVE UNCHANGED rowvars
  BY <1>11 DEF CheckUpload, CommitUpload, Prune, campaigns, rowvars
<1>12. ASSUME NEW x \in Deletion, LockForDeletion(x) \/ Decide(x) \/ CommitDeletion(x) PROVE UNCHANGED rowvars
  BY <1>12 DEF LockForDeletion, Decide, CommitDeletion, campaigns, rowvars
<1>13. ASSUME NEW e \in Edit, Load(e) PROVE UNCHANGED rowvars
  BY <1>13 DEF Load, campaigns, rowvars
<1>14. ASSUME Archive PROVE UNCHANGED rowvars
  BY <1>14 DEF Archive, campaigns, rowvars
<1> QED
  BY <1>3, <1>4, <1>5, <1>6, <1>7, <1>8, <1>9, <1>10, <1>11, <1>12, <1>13, <1>14 DEF Next

\* What Edits says of one edit.
EditOf(e, d) ==
  /\ pc[d] # "new"
  /\ edits[e].version <= row[d].version
  /\ edits[e].version = row[d].version =>
       /\ row[d].status = "pending" => edits[e].asset = Null
       /\ row[d].status = "settled" => edits[e].asset # Null

LEMMA EditsStep ==
  ASSUME TypeOK, Rows, Edits, Next
  PROVE  Edits'
<1> SUFFICES ASSUME NEW e \in Edit, NEW d \in Dispatch, edits'[e].of = d
             PROVE  EditOf(e, d)'
  <2>1. \A e \in Edit : edits'[e].of # Null => edits'[e].of \in Dispatch
    BY Domains, EditStep DEF EditSet
  <2> QED
    BY <2>1 DEF Edits, EditOf
<1>1. /\ row \in [Dispatch -> RowSet] /\ row[d] \in RowSet /\ row[d].version \in Nat
      /\ pc \in [Dispatch -> {"new", "claimed", "creating", "releasing", "over"}]
      /\ uses \in [Dispatch -> Snapshot] /\ edits \in [Edit -> EditSet] /\ d # Null
      /\ edits[e].version \in Nat
  BY Domains, AssetConstants DEF RowSet, EditSet
<1>2. ASSUME edits'[e] = edits[e] PROVE EditOf(e, d)
  BY <1>1, <1>2 DEF Edits, EditOf
<1>3. RowOf(d)
  BY DEF Rows, RowOf
<1>4. ASSUME NEW c \in Dispatch, Claim(c) PROVE EditOf(e, d)'
  <2>1. UNCHANGED edits /\ c # d /\ row'[d] = row[d] /\ pc'[d] = pc[d]
    BY <1>1, <1>2, <1>4 DEF Claim, Goto, EditOf
  <2> QED
    BY <1>2, <2>1 DEF EditOf
<1>5. ASSUME NEW c \in Dispatch, Resolve(c) \/ Stop(c) PROVE EditOf(e, d)'
  BY <1>1, <1>2, <1>5 DEF Resolve, Stop, Goto, EditOf
<1>6. ASSUME NEW c \in Dispatch, ReleaseClaim(c) \/ ClearClaim(c) PROVE EditOf(e, d)'
  <2>1. UNCHANGED edits /\ EditOf(e, d) /\ (pc'[d] = "new" => pc[d] = "new")
    BY <1>1, <1>2, <1>6 DEF ReleaseClaim, ClearClaim, Goto
  <2>2. row'[d] = row[d] \/ (row'[d].status = "none" /\ row'[d].version = row[d].version)
    BY <1>1, <1>6 DEF ReleaseClaim, ClearClaim, Without
  <2> QED
    BY <2>1, <2>2 DEF EditOf
<1>7. ASSUME NEW c \in Dispatch, Record(c) PROVE EditOf(e, d)'
  <2>1. UNCHANGED edits /\ EditOf(e, d) /\ (pc'[d] = "new" => pc[d] = "new")
    BY <1>1, <1>2, <1>7 DEF Record, Goto
  <2>2. row'[d] = row[d] \/ row'[d].version = row[d].version + 1
    BY <1>1, <1>7 DEF Record
  <2> QED
    BY <1>1, <2>1, <2>2 DEF EditOf
<1>8. ASSUME NEW c \in Dispatch, DeleteCampaign(c) PROVE EditOf(e, d)'
  <2>1. UNCHANGED <<edits, pc>> /\ EditOf(e, d)
    BY <1>2, <1>8 DEF DeleteCampaign
  <2>2. row'[d] = row[d] \/ (row'[d].status = "deleted" /\ row'[d].version = row[d].version)
    BY <1>1, <1>8 DEF DeleteCampaign, RowSet
  <2> QED
    BY <2>1, <2>2 DEF EditOf
<1>9. ASSUME NEW f \in Edit, Load(f) PROVE EditOf(e, d)'
  <2>1. UNCHANGED <<row, pc>>
    BY <1>9 DEF Load, campaigns
  <2>2. CASE f = e
    <3>1. PICK c \in Dispatch :
            /\ row[c].status \in {"pending", "settled"}
            /\ \E a \in {row[c].asset} \cup (IF row[c].status = "pending" THEN {} ELSE Upload \cup {NoAsset}) :
                 edits' = [edits EXCEPT ![f] = [of |-> c, version |-> row[c].version, asset |-> a]]
      BY <1>9 DEF Load
    <3>2. PICK a \in {row[c].asset} \cup (IF row[c].status = "pending" THEN {} ELSE Upload \cup {NoAsset}) :
            edits' = [edits EXCEPT ![f] = [of |-> c, version |-> row[c].version, asset |-> a]]
      BY <3>1
    <3>3. c = d /\ edits'[e].version = row[d].version /\ edits'[e].asset = a
      BY <1>1, <2>2, <3>2
    <3>4. (row[d].status = "pending" => a = Null) /\ (row[d].status = "settled" => a # Null)
      BY <1>3, <3>3, AssetConstants DEF RowOf
    <3>5. pc[d] # "new"
      BY <1>3, <3>1, <3>3 DEF RowOf
    <3> QED
      BY <1>1, <2>1, <3>3, <3>4, <3>5 DEF EditOf
  <2>3. CASE f # e
    <3>1. edits'[e] = edits[e]
      BY <1>1, <1>9, <2>3 DEF Load
    <3> QED
      BY <1>2, <2>1, <3>1 DEF EditOf
  <2> QED
    BY <2>2, <2>3
<1>10. ASSUME NEW f \in Edit, Replace(f) PROVE EditOf(e, d)'
  <2>1. PICK c \in Dispatch : c = edits[f].of
    BY <1>1, <1>10 DEF Replace, EditSet
  <2>2. /\ row' = [row EXCEPT ![c].asset = edits[f].asset, ![c].version = @ + 1]
        /\ edits' = [edits EXCEPT ![f].version = 0] /\ UNCHANGED pc
    BY <1>10, <2>1 DEF Replace
  <2>3. row'[d] = row[d] \/ row'[d].version = row[d].version + 1
    BY <1>1, <2>2 DEF RowSet
  <2>4. edits[e].of = d
    BY <1>1, <2>2 DEF EditSet
  <2>5. EditOf(e, d)
    BY <1>1, <2>4 DEF Edits, EditOf
  <2>6. \/ edits'[e].version = edits[e].version /\ edits'[e].asset = edits[e].asset
        \/ edits'[e].version = 0
    BY <1>1, <2>2 DEF EditSet
  <2>7. row[d].version > 0
    BY <1>3, <2>5 DEF RowOf, EditOf
  <2> QED
    BY <1>1, <2>2, <2>3, <2>5, <2>6, <2>7 DEF EditOf
<1>11. UNCHANGED <<edits, row, pc>> => EditOf(e, d)'
  BY <1>2 DEF EditOf
<1>12. ASSUME NEW u \in Upload, CheckUpload(u) \/ CommitUpload(u) \/ Prune(u) PROVE UNCHANGED <<edits, row, pc>>
  BY <1>12 DEF CheckUpload, CommitUpload, Prune, campaigns
<1>13. ASSUME NEW x \in Deletion, LockForDeletion(x) \/ Decide(x) \/ CommitDeletion(x)
       PROVE  UNCHANGED <<edits, row, pc>>
  BY <1>13 DEF LockForDeletion, Decide, CommitDeletion, campaigns
<1>14. ASSUME Archive PROVE UNCHANGED <<edits, row, pc>>
  BY <1>14 DEF Archive, campaigns
<1> QED
  BY <1>4, <1>5, <1>6, <1>7, <1>8, <1>9, <1>10, <1>11, <1>12, <1>13, <1>14 DEF Next

-----------------------------------------------------------------------------
(* The images in use. *)

\* What InUse says of a dispatch.
UseOf(d) ==
  /\ row[d].status = "settled" => row[d].asset \in assets \cup {NoAsset}
  /\ pc[d] = "creating" => uses[d] \in assets \cup {NoAsset}

LEMMA InUseStep ==
  ASSUME TypeOK, Rows, Edits, Deciding, InUse, Next
  PROVE  InUse'
<1>1. cleared \subseteq cleared' /\ (archived => archived')
  <2>1. ASSUME NEW c \in Dispatch, \/ Claim(c) \/ Resolve(c) \/ ReleaseClaim(c) \/ Record(c) \/ Stop(c)
                                   \/ ClearClaim(c) \/ DeleteCampaign(c)
        PROVE  cleared \subseteq cleared' /\ archived' = archived
    BY <2>1 DEF Claim, Resolve, ReleaseClaim, Record, Stop, ClearClaim, DeleteCampaign
  <2>2. ASSUME NEW u \in Upload, CheckUpload(u) \/ CommitUpload(u) \/ Prune(u)
        PROVE  UNCHANGED <<archived, cleared>>
    BY <2>2 DEF CheckUpload, CommitUpload, Prune, campaigns
  <2>3. ASSUME NEW x \in Deletion, LockForDeletion(x) \/ Decide(x) \/ CommitDeletion(x)
        PROVE  UNCHANGED <<archived, cleared>>
    BY <2>3 DEF LockForDeletion, Decide, CommitDeletion, campaigns
  <2>4. ASSUME NEW e \in Edit, Load(e) \/ Replace(e) PROVE UNCHANGED <<archived, cleared>>
    BY <2>4 DEF Load, Replace, campaigns
  <2> QED
    BY <2>1, <2>2, <2>3, <2>4 DEF Next, Archive, campaigns
<1> SUFFICES ASSUME ~archived', NEW d \in Dispatch, d \notin cleared'
             PROVE  UseOf(d)'
  BY DEF InUse, UseOf
<1>2. ~archived /\ d \notin cleared /\ UseOf(d)
  BY <1>1 DEF InUse, UseOf
<1>3. RowOf(d)
  BY DEF Rows, RowOf
<1>4. /\ row \in [Dispatch -> RowSet] /\ row[d] \in RowSet
      /\ pc \in [Dispatch -> {"new", "claimed", "creating", "releasing", "over"}]
      /\ uses \in [Dispatch -> Snapshot] /\ edits \in [Edit -> EditSet]
  BY Domains
<1>5. ASSUME assets \subseteq assets', UNCHANGED <<row, pc, uses>> PROVE UseOf(d)'
  BY <1>2, <1>5 DEF UseOf
<1>6. ASSUME NEW u \in Upload, CheckUpload(u) \/ CommitUpload(u) \/ Prune(u)
      PROVE  assets \subseteq assets' /\ UNCHANGED <<row, pc, uses>>
  BY <1>2, <1>6 DEF CheckUpload, CommitUpload, Prune, campaigns
<1>7. ASSUME NEW x \in Deletion, LockForDeletion(x) \/ Decide(x)
      PROVE  assets \subseteq assets' /\ UNCHANGED <<row, pc, uses>>
  BY <1>7 DEF LockForDeletion, Decide, campaigns
<1>8. ASSUME NEW x \in Deletion, CommitDeletion(x) PROVE UseOf(d)'
  <2>1. ~Needs(d, deletions[x].of) /\ UNCHANGED <<row, pc, uses>> /\ assets \ {deletions[x].of} \subseteq assets'
    BY <1>8 DEF CommitDeletion, campaigns, Deciding
  <2>2. pc[d] # "creating"
    BY <1>2, <1>3, <2>1 DEF Needs, RowOf
  <2>3. row[d].status = "settled" => row[d].asset \in assets' \cup {NoAsset}
    BY <1>2, <2>1 DEF Needs, UseOf
  <2> QED
    BY <2>1, <2>2, <2>3 DEF UseOf
<1>9. ASSUME NEW c \in Dispatch, Claim(c) PROVE UseOf(d)'
  <2>1. UNCHANGED assets /\ (c # d => row'[d] = row[d] /\ pc'[d] = pc[d] /\ uses'[d] = uses[d])
    BY <1>4, <1>9 DEF Claim, Goto
  <2>2. c = d => row'[d].status = "pending" /\ pc'[d] = "claimed"
    BY <1>4, <1>9 DEF Claim, Goto
  <2> QED
    BY <1>2, <2>1, <2>2 DEF UseOf
<1>10. ASSUME NEW c \in Dispatch, Resolve(c) PROVE UseOf(d)'
  BY <1>2, <1>4, <1>10 DEF Resolve, Goto, UseOf
<1>11. ASSUME NEW c \in Dispatch, Stop(c) PROVE UseOf(d)'
  BY <1>2, <1>4, <1>11 DEF Stop, Goto, UseOf
<1>12. ASSUME NEW c \in Dispatch, ReleaseClaim(c) \/ ClearClaim(c) PROVE UseOf(d)'
  <2>1. UNCHANGED <<assets, uses>> /\ (row'[d] = row[d] \/ row'[d].status = "none")
    BY <1>4, <1>12 DEF ReleaseClaim, ClearClaim, Without
  <2>2. pc'[d] = pc[d] \/ pc'[d] = "over"
    BY <1>4, <1>12 DEF ReleaseClaim, ClearClaim, Goto
  <2> QED
    BY <1>2, <2>1, <2>2 DEF UseOf
<1>13. ASSUME NEW c \in Dispatch, Record(c) PROVE UseOf(d)'
  <2>1. UNCHANGED <<assets, uses>> /\ (c # d => row'[d] = row[d] /\ pc'[d] = pc[d])
    BY <1>4, <1>13 DEF Record, Goto
  <2>2. c = d => row'[d].asset = uses[d] /\ pc'[d] = "over" /\ pc[d] = "creating"
    BY <1>4, <1>13 DEF Record, Goto
  <2> QED
    BY <1>2, <2>1, <2>2 DEF UseOf
<1>14. ASSUME NEW c \in Dispatch, DeleteCampaign(c) PROVE UseOf(d)'
  <2>1. UNCHANGED <<assets, uses, pc>> /\ (row'[d] = row[d] \/ row'[d].status = "deleted")
    BY <1>4, <1>14 DEF DeleteCampaign, RowSet
  <2> QED
    BY <1>2, <2>1 DEF UseOf
<1>15. ASSUME NEW e \in Edit, Replace(e) PROVE UseOf(d)'
  <2>1. PICK c \in Dispatch : c = edits[e].of
    BY <1>4, <1>15 DEF Replace, EditSet
  <2>2. /\ row' = [row EXCEPT ![c].asset = edits[e].asset, ![c].version = @ + 1]
        /\ edits[e].of # Null /\ row[c].version = edits[e].version /\ UNCHANGED <<assets, pc, uses>>
        /\ edits[e].asset \in assets \cup {Null, NoAsset, row[c].asset}
    BY <1>15, <2>1 DEF Replace, NewAssetsExist
  <2>3. CASE c = d
    <3>1. row'[d].status = row[d].status /\ row'[d].asset = edits[e].asset
      BY <1>4, <2>2, <2>3 DEF RowSet
    <3>2. row[d].status = "settled" => edits[e].asset # Null
      BY <2>1, <2>2, <2>3 DEF Edits
    <3> QED
      BY <1>2, <2>2, <2>3, <3>1, <3>2 DEF UseOf
  <2>4. CASE c # d
    BY <1>2, <1>4, <2>2, <2>4 DEF UseOf
  <2> QED
    BY <2>3, <2>4
<1>16. ASSUME NEW e \in Edit, Load(e) PROVE UNCHANGED <<assets, row, pc, uses>>
  BY <1>16 DEF Load, campaigns
<1>17. ~Archive
  BY DEF Archive
<1> QED
  BY <1>5, <1>6, <1>7, <1>8, <1>9, <1>10, <1>11, <1>12, <1>13, <1>14, <1>15, <1>16, <1>17 DEF Next

-----------------------------------------------------------------------------
(* The theorems. *)

LEMMA Start == Init => Inv
<1> SUFFICES ASSUME Init PROVE Inv
  OBVIOUS
<1>1. TypeOK
  BY DEF Init, TypeOK, Snapshot, NoEdit, Idle
<1>2. Locks /\ Checked /\ Deciding
  BY DEF Init, Idle, Locks, Checked, Deciding
<1>3. Rows /\ Edits /\ InUse
  BY AssetConstants DEF Init, NoEdit, Rows, Edits, InUse
<1> QED
  BY <1>1, <1>2, <1>3 DEF Inv

LEMMA InvIsInductive == Inv /\ [Next]_vars => Inv'
<1>1. ASSUME Inv, Next PROVE Inv'
  BY <1>1, TypeStep, LocksStep, CheckedStep, RowsStep, EditsStep, DecidingStep, InUseStep DEF Inv
<1>2. ASSUME Inv, UNCHANGED vars PROVE Inv'
  <2>1. TypeOK'
    BY <1>2, TypeStep DEF Inv
  <2>2. Locks' /\ Checked' /\ Deciding'
    BY <1>2 DEF vars, campaigns, Inv, Locks, Checked, Deciding, Stored, RoomLeft, BytesUsed, Needs
  <2>3. Rows' /\ Edits' /\ InUse'
    BY <1>2 DEF vars, campaigns, Inv, Rows, Edits, InUse
  <2> QED
    BY <2>1, <2>2, <2>3 DEF Inv
<1> QED
  BY <1>1, <1>2

LEMMA Invariance == Spec => []Inv
  BY Start, InvIsInductive, PTL DEF Spec

\* For any uploads, deletions, dispatches and edits at once, what a live campaign names,
\* or a dispatch at work was given, is stored as long as the brief lives
\* (deleteCreativeAssetQuery, checkNewSnapshotAssetRefs, the version of a replace).
THEOREM InUseIsStored == Spec => []AssetsInUseAreStored
<1>1. Inv => AssetsInUseAreStored
  BY DEF Inv, InUse, AssetsInUseAreStored
<1> QED
  BY <1>1, Invariance, PTL

\* The bytes of some assets are finitely many, and one more adds its own.
LEMMA BytesOfAsset ==
  ASSUME NEW u \in Upload
  PROVE  /\ IsFiniteSet({u} \X (1 .. ByteSize[ImageOf[u]]))
         /\ Cardinality({u} \X (1 .. ByteSize[ImageOf[u]])) = ByteSize[ImageOf[u]]
<1>1. ByteSize[ImageOf[u]] \in Nat
  BY AssetConstants
<1>2. /\ IsFiniteSet(1 .. ByteSize[ImageOf[u]])
      /\ Cardinality(1 .. ByteSize[ImageOf[u]]) = ByteSize[ImageOf[u]]
  BY <1>1, FS_Interval
<1>3. IsFiniteSet({u}) /\ Cardinality({u}) = 1
  BY FS_Singleton
<1>4. /\ IsFiniteSet({u} \X (1 .. ByteSize[ImageOf[u]]))
      /\ Cardinality({u} \X (1 .. ByteSize[ImageOf[u]])) = Cardinality({u}) * Cardinality(1 .. ByteSize[ImageOf[u]])
  BY <1>2, <1>3, FS_Product
<1>. QED BY <1>1, <1>2, <1>3, <1>4

LEMMA OneMoreAsset ==
  ASSUME NEW S \in SUBSET Upload, NEW u \in Upload, u \notin S
  PROVE  BytesUsed(S \cup {u}) = BytesUsed(S) + ByteSize[ImageOf[u]]
<1> DEFINE bytes(a) == {a} \X (1 .. ByteSize[ImageOf[a]])
           all == UNION {bytes(a) : a \in S}
           of == [a \in S |-> bytes(a)]
<1>1. IsFiniteSet({bytes(a) : a \in S})
  <2>1. IsFiniteSet(S)
    BY AssetConstants, FS_Subset
  <2>2. of \in Surjection(S, {bytes(a) : a \in S})
    BY DEF Surjection
  <2> QED
    BY <2>1, <2>2, FS_Surjection
<1>2. IsFiniteSet(all)
  <2>1. \A s \in {bytes(a) : a \in S} : IsFiniteSet(s)
    BY BytesOfAsset
  <2> QED
    BY <1>1, <2>1, FS_UNION
<1>3. IsFiniteSet(bytes(u)) /\ Cardinality(bytes(u)) = ByteSize[ImageOf[u]]
  BY BytesOfAsset
<1>4. UNION {bytes(a) : a \in S \cup {u}} = all \cup bytes(u) /\ all \cap bytes(u) = {}
  OBVIOUS
<1>5. Cardinality(all \cup bytes(u)) =
        Cardinality(all) + Cardinality(bytes(u)) - Cardinality(all \cap bytes(u))
  BY <1>2, <1>3, FS_Union
<1>6. Cardinality(all \cap bytes(u)) = 0 /\ Cardinality(all) \in Nat /\ ByteSize[ImageOf[u]] \in Nat
  BY <1>2, <1>4, FS_EmptySet, FS_CardinalityType, AssetConstants
<1>7. Cardinality(all \cup bytes(u)) = Cardinality(all) + ByteSize[ImageOf[u]]
  BY <1>3, <1>5, <1>6
<1>. QED BY <1>4, <1>7 DEF BytesUsed

\* For any uploads at once, images of any sizes and any quota, an image is stored under
\* a live brief only and within its quota of images and of bytes (CreateAsset's checks,
\* made under the lock the insert commits).
THEOREM QuotaIsKept == Spec => UploadsStayWithinTheBrief
<1>1. ASSUME Inv, Next, assets' \ assets # {}
      PROVE  ~archived /\ Cardinality(assets') <= MaxAssets /\ BytesUsed(assets') <= MaxBytes
  <2>1. PICK u \in Upload : CommitUpload(u)
    BY <1>1 DEF Next, CheckUpload, Prune, LockForDeletion, Decide, CommitDeletion, Claim, Resolve,
     ReleaseClaim, Record, Stop, ClearClaim, DeleteCampaign, Load, Replace, Archive
  <2>2. ~Stored(ImageOf[u]) /\ assets' = assets \cup {u} /\ uploads[u] = "checked" /\ u \notin assets
    BY <1>1, <2>1 DEF CommitUpload
  <2>3. /\ ~archived /\ Cardinality(assets) < MaxAssets
        /\ BytesUsed(assets) + ByteSize[ImageOf[u]] <= MaxBytes
    BY <1>1, <2>2 DEF Inv, Checked, RoomLeft
  <2>4. IsFiniteSet(assets)
    BY <1>1, AssetConstants, FS_Subset DEF Inv, TypeOK
  <2>5. Cardinality(assets') = Cardinality(assets) + 1 /\ Cardinality(assets) \in Nat
    BY <2>2, <2>4, FS_AddElement, FS_CardinalityType
  <2>6. assets \in SUBSET Upload
    BY <1>1 DEF Inv, TypeOK
  <2>7. BytesUsed(assets') = BytesUsed(assets) + ByteSize[ImageOf[u]]
    BY <2>2, <2>6, OneMoreAsset
  <2> QED
    BY <2>3, <2>5, <2>7, AssetConstants
<1>2. Inv /\ [Next]_vars =>
        [assets' \ assets # {} =>
           /\ ~archived
           /\ Cardinality(assets') <= MaxAssets /\ BytesUsed(assets') <= MaxBytes]_assets
  BY <1>1 DEF vars
<1> QED
  BY <1>2, Invariance, PTL DEF Spec, UploadsStayWithinTheBrief

-----------------------------------------------------------------------------
(***************************************************************************)
(* UploadBudget.  A sum of charges is the number of the bytes asked for,   *)
(* so that the theorems on finite sets speak of it.                        *)
(***************************************************************************)
\* Every set of naturals that is not empty has a least one.
LEMMA LeastNatural ==
  ASSUME NEW T, T \subseteq Nat, T # {}
  PROVE  \E x \in T : \A y \in T : x <= y
<1>1. PICK x \in T : \A y \in T : ~ (<<y, x>> \in OpToRel(<, Nat))
  BY WFMin, NatLessThanWellFounded, Zenon
<1>2. \A y \in T : <<y, x>> \in OpToRel(<, Nat) <=> y < x
  BY Zenon DEF OpToRel
<1>3. \A y \in T : ~ (y < x) /\ y \in Nat /\ x \in Nat
  BY <1>1, <1>2, Zenon
<1>. QED BY <1>3

\* The bytes that one upload asks for, several, none, and two sets apart from each other.
LEMMA BytesOfOne ==
  ASSUME NEW want \in [Request -> Nat], NEW u \in Request
  PROVE  /\ IsFiniteSet({u} \X (1 .. want[u]))
         /\ Cardinality({u} \X (1 .. want[u])) = want[u]
<1>1. IsFiniteSet(1 .. want[u]) /\ Cardinality(1 .. want[u]) = want[u]
  BY FS_Interval
<1>2. IsFiniteSet({u}) /\ Cardinality({u}) = 1
  BY FS_Singleton
<1>3. /\ IsFiniteSet({u} \X (1 .. want[u]))
      /\ Cardinality({u} \X (1 .. want[u])) = Cardinality({u}) * Cardinality(1 .. want[u])
  BY <1>1, <1>2, FS_Product
<1>. QED BY <1>1, <1>2, <1>3

LEMMA FiniteBytes ==
  ASSUME NEW want \in [Request -> Nat], NEW S \in SUBSET Request
  PROVE  IsFiniteSet(Bytes(want, S)) /\ Size(want, S) \in Nat
<1> DEFINE shares == {{u} \X (1 .. want[u]) : u \in S}
           share == [u \in S |-> {u} \X (1 .. want[u])]
<1>1. IsFiniteSet(S)
  BY FS_Subset, BudgetConstants
<1>2. share \in Surjection(S, shares)
  BY DEF Surjection
<1>3. IsFiniteSet(shares)
  BY <1>1, <1>2, FS_Surjection
<1>4. \A share_ \in shares : IsFiniteSet(share_)
  BY BytesOfOne
<1>5. IsFiniteSet(UNION shares)
  BY <1>3, <1>4, FS_UNION
<1>. QED BY <1>5, FS_CardinalityType DEF Bytes, Size

LEMMA SizeOfNone ==
  ASSUME NEW want PROVE Size(want, {}) = 0
<1>1. Bytes(want, {}) = {}
  BY DEF Bytes
<1>. QED BY <1>1, FS_EmptySet DEF Size

LEMMA SizeOfOne ==
  ASSUME NEW want \in [Request -> Nat], NEW u \in Request
  PROVE  Size(want, {u}) = want[u]
<1>1. Bytes(want, {u}) = {u} \X (1 .. want[u])
  BY DEF Bytes
<1>. QED BY <1>1, BytesOfOne DEF Size

LEMMA SizeOfTwo ==
  ASSUME NEW want \in [Request -> Nat],
         NEW S \in SUBSET Request, NEW T \in SUBSET Request, S \cap T = {}
  PROVE  Size(want, S \cup T) = Size(want, S) + Size(want, T)
<1>1. Bytes(want, S \cup T) = Bytes(want, S) \cup Bytes(want, T)
  BY DEF Bytes
<1>2. Bytes(want, S) \cap Bytes(want, T) = {}
  BY DEF Bytes
<1>3. IsFiniteSet(Bytes(want, S)) /\ IsFiniteSet(Bytes(want, T))
  BY FiniteBytes
<1>4. /\ Cardinality(Bytes(want, S)) \in Nat
      /\ Cardinality(Bytes(want, T)) \in Nat
  BY <1>3, FS_CardinalityType
<1>5. Cardinality(Bytes(want, S \cup T)) =
        Cardinality(Bytes(want, S)) + Cardinality(Bytes(want, T))
          - Cardinality(Bytes(want, S) \cap Bytes(want, T))
  BY <1>1, <1>3, FS_Union
<1>6. Cardinality(Bytes(want, S) \cap Bytes(want, T)) = 0
  BY <1>2, FS_EmptySet
<1>7. Cardinality(Bytes(want, S \cup T)) =
        Cardinality(Bytes(want, S)) + Cardinality(Bytes(want, T))
  BY <1>4, <1>5, <1>6
<1>. QED BY <1>7, Zenon DEF Size

-----------------------------------------------------------------------------
(* Queues. *)

\* A queue of uploads, none of them twice.
Line(q) == q \in Seq(Request) /\ \A i, j \in 1 .. Len(q) : q[i] = q[j] => i = j

Waiters(q) == Ahead(q, Len(q))

\* The first waiters of a queue, and the next one.
LEMMA AheadOfNext ==
  ASSUME NEW q, Line(q), NEW n \in 0 .. Len(q)
  PROVE  /\ Ahead(q, 0) = {}
         /\ Ahead(q, n) \subseteq Waiters(q)
         /\ Waiters(q) \subseteq Request
         /\ n < Len(q) =>
              /\ q[n + 1] \in Waiters(q) \ Ahead(q, n)
              /\ Ahead(q, n + 1) = Ahead(q, n) \cup {q[n + 1]}
BY DEF Line, Waiters, Ahead

\* A queue whose first waiters were admitted.
LEMMA RestOfLine ==
  ASSUME NEW q, Line(q), NEW n \in 0 .. Len(q)
  PROVE  LET rest == SubSeq(q, n + 1, Len(q))
         IN  /\ Line(rest)
             /\ Waiters(rest) = Waiters(q) \ Ahead(q, n)
             /\ rest # <<>> <=> n < Len(q)
             /\ n < Len(q) => Head(rest) = q[n + 1]
<1> DEFINE rest == SubSeq(q, n + 1, Len(q))
<1>1. /\ rest \in Seq(Request)
      /\ Len(rest) = Len(q) - n
      /\ \A i \in 1 .. Len(rest) : rest[i] = q[i + n]
  BY DEF Line
<1> HIDE DEF rest
<1>2. Line(rest)
  BY <1>1 DEF Line
<1>3. Waiters(rest) = Waiters(q) \ Ahead(q, n)
  <2>1. ASSUME NEW i \in 1 .. Len(rest)
        PROVE  rest[i] \in Waiters(q) \ Ahead(q, n)
    <3>1. i + n \in 1 .. Len(q) /\ rest[i] = q[i + n] /\ n < i + n
      BY <1>1 DEF Line
    <3>2. q[i + n] \in Waiters(q)
      BY <3>1 DEF Waiters, Ahead
    <3>3. ASSUME NEW j \in 1 .. n, q[j] = q[i + n]
          PROVE  FALSE
      <4>1. j \in 1 .. Len(q) /\ j # i + n
        BY <3>1 DEF Line
      <4>. QED BY <3>1, <3>3, <4>1 DEF Line
    <3>. QED BY <3>1, <3>2, <3>3 DEF Ahead
  <2>2. ASSUME NEW i \in 1 .. Len(q), q[i] \notin Ahead(q, n)
        PROVE  q[i] \in Waiters(rest)
    <3>1. i - n \in 1 .. Len(rest) /\ rest[i - n] = q[i]
      BY <1>1, <2>2 DEF Line, Ahead
    <3>. QED BY <3>1 DEF Waiters, Ahead
  <2>. QED BY <2>1, <2>2 DEF Waiters, Ahead
<1>4. rest # <<>> <=> n < Len(q)
  BY <1>1 DEF Line
<1>5. n < Len(q) => Head(rest) = q[n + 1]
  BY <1>1, <1>4 DEF Line
<1>. QED BY <1>2, <1>3, <1>4, <1>5 DEF rest

\* A queue that one upload joined.
LEMMA LineJoined ==
  ASSUME NEW q, Line(q), NEW u \in Request, u \notin Waiters(q)
  PROVE  /\ Line(Append(q, u))
         /\ Waiters(Append(q, u)) = Waiters(q) \cup {u}
         /\ Append(q, u) # <<>>
         /\ q # <<>> => Head(Append(q, u)) = Head(q)
         /\ q = <<>> => Head(Append(q, u)) = u
<1> DEFINE joined == Append(q, u)
<1>1. /\ joined \in Seq(Request)
      /\ Len(joined) = Len(q) + 1
      /\ \A i \in 1 .. Len(q) : joined[i] = q[i]
      /\ joined[Len(q) + 1] = u
  BY DEF Line
<1>2. Len(q) \in Nat
  BY DEF Line
<1>3. q # <<>> => Head(joined) = Head(q)
  BY DEF Line
<1>4. q = <<>> => Head(joined) = u
  BY DEF Line
<1> HIDE DEF joined
<1>5. Line(joined)
  BY <1>1, <1>2 DEF Line, Waiters, Ahead
<1>6. Waiters(joined) = Waiters(q) \cup {u}
  BY <1>1, <1>2 DEF Waiters, Ahead
<1>7. joined # <<>>
  BY <1>1, <1>2
<1>. QED BY <1>3, <1>4, <1>5, <1>6, <1>7 DEF joined

\* A queue that one upload left.
LEMMA LineWithout ==
  ASSUME NEW q, Line(q), NEW u
  PROVE  /\ Line(Removed(q, u))
         /\ Waiters(Removed(q, u)) = Waiters(q) \ {u}
<1>1. CASE u \notin Waiters(q)
  BY <1>1 DEF Removed, Waiters
<1>2. CASE u \in Waiters(q)
  <2> DEFINE at == Place(q, u)
             left == Removed(q, u)
  <2>1. at \in 1 .. Len(q) /\ q[at] = u
    BY <1>2 DEF Waiters, Ahead, Place
  <2> DEFINE before == SubSeq(q, 1, at - 1)
             behind == SubSeq(q, at + 1, Len(q))
  <2>2. left = before \o behind
    BY <1>2 DEF Waiters, Removed
  <2> HIDE DEF at
  <2>3. /\ before \in Seq(Request)
        /\ Len(before) = at - 1
        /\ \A i \in 1 .. at - 1 : before[i] = q[i]
    BY <2>1 DEF Line
  <2>4. /\ behind \in Seq(Request)
        /\ Len(behind) = Len(q) - at
        /\ \A i \in 1 .. Len(q) - at : behind[i] = q[i + at]
    BY <2>1 DEF Line
  <2>5. Len(q) \in Nat
    BY DEF Line
  <2> HIDE DEF left, before, behind
  <2>6. /\ left \in Seq(Request)
        /\ Len(left) = Len(before) + Len(behind)
        /\ \A i \in 1 .. Len(left) :
             left[i] = IF i <= Len(before) THEN before[i] ELSE behind[i - Len(before)]
    BY <2>2, <2>3, <2>4
  <2>7. Len(left) = Len(q) - 1
    BY <2>1, <2>3, <2>4, <2>5, <2>6
  <2>8. ASSUME NEW i \in 1 .. Len(left)
        PROVE  left[i] = IF i < at THEN q[i] ELSE q[i + 1]
    <3>1. CASE i < at
      BY <2>1, <2>3, <2>4, <2>5, <2>6, <3>1
    <3>2. CASE i >= at
      <4>1. left[i] = behind[i - (at - 1)] /\ i - (at - 1) \in 1 .. Len(q) - at
        BY <2>1, <2>3, <2>4, <2>5, <2>6, <2>7, <3>2
      <4>2. behind[i - (at - 1)] = q[i - (at - 1) + at]
        BY <2>4, <4>1
      <4>. QED BY <2>1, <2>5, <2>7, <3>2, <4>1, <4>2
    <3>. QED BY <2>1, <3>1, <3>2
  <2>9. /\ left \in Seq(Request)
        /\ Len(left) = Len(q) - 1
        /\ \A i \in 1 .. Len(left) : left[i] = IF i < at THEN q[i] ELSE q[i + 1]
    BY <2>6, <2>7, <2>8
  <2>10. Line(left)
    BY <2>1, <2>9 DEF Line
  <2>11. ASSUME NEW i \in 1 .. Len(left)
         PROVE  left[i] \in Waiters(q) \ {u}
    <3>1. PICK j \in 1 .. Len(q) : left[i] = q[j] /\ j # at
      BY <2>1, <2>5, <2>9
    <3>2. q[j] # u
      BY <2>1, <3>1 DEF Line
    <3>. QED BY <3>1, <3>2 DEF Waiters, Ahead
  <2>12. ASSUME NEW i \in 1 .. Len(q), q[i] # u
         PROVE  q[i] \in Waiters(left)
    <3>1. CASE i < at
      <4>1. i \in 1 .. Len(left) /\ left[i] = q[i]
        BY <2>1, <2>9, <3>1 DEF Line
      <4>. QED BY <4>1 DEF Waiters, Ahead
    <3>2. CASE i > at
      <4>1. i - 1 \in 1 .. Len(left) /\ left[i - 1] = q[i]
        BY <2>1, <2>9, <3>2 DEF Line
      <4>. QED BY <4>1 DEF Waiters, Ahead
    <3>. QED BY <2>1, <2>12, <3>1, <3>2 DEF Line
  <2>13. Waiters(q) \ {u} \subseteq Waiters(left)
    BY <2>12 DEF Waiters, Ahead
  <2>14. Waiters(left) \subseteq Waiters(q) \ {u}
    BY <2>11 DEF Waiters, Ahead
  <2>. QED BY <2>10, <2>13, <2>14 DEF left
<1>. QED BY <1>1, <1>2

-----------------------------------------------------------------------------
(* Grants. *)

\* What the first waiters ask for together grows by what the next one asks for.
LEMMA LoadOfNext ==
  ASSUME NEW want \in [Request -> Nat], NEW q, Line(q), NEW n \in 0 .. Len(q)
  PROVE  /\ Asked(q, want, n) \in Nat
         /\ Asked(q, want, 0) = 0
         /\ n < Len(q) => Asked(q, want, n + 1) = Asked(q, want, n) + want[q[n + 1]]
<1>1. Ahead(q, n) \subseteq Request /\ Ahead(q, 0) = {}
  BY AheadOfNext
<1>2. Asked(q, want, n) \in Nat
  BY <1>1, FiniteBytes DEF Asked
<1>3. Asked(q, want, 0) = 0
  BY <1>1, SizeOfNone DEF Asked
<1>4. ASSUME n < Len(q)
      PROVE  Asked(q, want, n + 1) = Asked(q, want, n) + want[q[n + 1]]
  <2>1. /\ q[n + 1] \in Request
        /\ Ahead(q, n) \cap {q[n + 1]} = {}
        /\ Ahead(q, n + 1) = Ahead(q, n) \cup {q[n + 1]}
    BY <1>4, AheadOfNext
  <2>2. Size(want, Ahead(q, n + 1)) =
          Size(want, Ahead(q, n)) + Size(want, {q[n + 1]})
    BY <1>1, <2>1, SizeOfTwo
  <2>3. Size(want, {q[n + 1]}) = want[q[n + 1]]
    BY <2>1, SizeOfOne
  <2>. QED BY <2>2, <2>3 DEF Asked
<1>. QED BY <1>2, <1>3, <1>4

\* The longest head of a queue that fits: what is admitted fits, and the next one does not.
LEMMA FitsAsFarAsItCan ==
  ASSUME NEW want \in [Request -> Nat], NEW q, Line(q),
         NEW held \in Nat, NEW limit \in Nat
  PROVE  LET n == Fits(q, want, held, limit)
         IN  /\ n \in 0 .. Len(q)
             /\ n > 0 => held + Asked(q, want, n) <= limit
             /\ n < Len(q) => held + Asked(q, want, n) + want[q[n + 1]] > limit
<1> DEFINE fitting == {0} \cup {n \in 1 .. Len(q) : held + Asked(q, want, n) <= limit}
           bounds == {m \in Nat : \A n \in fitting : n <= m}
           n == Fits(q, want, held, limit)
<1>1. Len(q) \in Nat
  BY DEF Line
<1>2. fitting \subseteq 0 .. Len(q) /\ 0 \in fitting
  BY <1>1
<1>3. Len(q) \in bounds
  BY <1>1, <1>2
<1> HIDE DEF fitting
<1>4. PICK m \in bounds : \A k \in bounds : m <= k
  BY <1>3, LeastNatural
<1>5. m \in fitting
  <2>1. SUFFICES ASSUME m \notin fitting PROVE FALSE
    OBVIOUS
  <2>2. m \in Nat /\ m > 0 /\ \A k \in fitting : k <= m - 1
    BY <1>1, <1>2, <1>4, <2>1
  <2>3. m - 1 \in bounds
    BY <2>2
  <2>. QED BY <1>4, <2>2, <2>3
<1>6. \A k \in fitting : m >= k
  BY <1>1, <1>2, <1>4
<1>7. n = CHOOSE x \in fitting : \A y \in fitting : x >= y
  BY Zenon DEF Fits, Max, fitting
<1>8. n \in fitting /\ \A y \in fitting : n >= y
  BY <1>5, <1>6, <1>7
<1> HIDE DEF n
<1>9. n \in 0 .. Len(q) /\ (n > 0 => held + Asked(q, want, n) <= limit)
  BY <1>2, <1>8 DEF fitting
<1>10. ASSUME n < Len(q)
       PROVE  held + Asked(q, want, n) + want[q[n + 1]] > limit
  <2>1. n + 1 \in 1 .. Len(q) /\ n + 1 \notin fitting
    BY <1>1, <1>2, <1>8, <1>9, <1>10
  <2>2. ~ (held + Asked(q, want, n + 1) <= limit)
    BY <2>1 DEF fitting
  <2>3. /\ Asked(q, want, n) \in Nat
        /\ Asked(q, want, n + 1) = Asked(q, want, n) + want[q[n + 1]]
    BY <1>9, <1>10, LoadOfNext
  <2>4. want[q[n + 1]] \in Nat
    BY <2>1 DEF Line
  <2>. QED BY <2>2, <2>3, <2>4
<1>. QED BY <1>9, <1>10 DEF n

\* What one call of grantLocked does to the uploads W and P that hold a charge of either
\* stage and to the queues behind them.
Granted(q1, q2, W, P, granted, A, B) ==
  /\ A \subseteq Waiters(q1) /\ B \subseteq Waiters(q2)
  /\ used' = Size(wire, W \cup A) + Size(pixels, P \cup B)
  /\ used' <= Total
  /\ Size(wire, W \cup A) <= FirstStageLimit
  /\ Line(first') /\ Waiters(first') = Waiters(q1) \ A
  /\ Line(second') /\ Waiters(second') = Waiters(q2) \ B
  /\ ready' = granted \cup B \cup A
  /\ NoWaiterOverlooked'

\* Fits admits as the loops of grantLocked do: the second stage's head while it fits, the
\* first stage's only behind no second.
LEMMA GrantStep ==
  ASSUME wire \in [Request -> Nat], pixels \in [Request -> Nat], UNCHANGED <<wire, pixels>>,
         NEW q1, NEW q2, Line(q1), Line(q2),
         NEW W \in SUBSET Request, NEW P \in SUBSET Request, NEW granted,
         W \cap Waiters(q1) = {}, P \cap Waiters(q2) = {},
         NEW held, held = Size(wire, W) + Size(pixels, P), held <= Total,
         Size(wire, W) <= FirstStageLimit,
         Grant(held, q1, q2, granted)
  PROVE  \E A, B : Granted(q1, q2, W, P, granted, A, B)
<1> DEFINE n2 == Fits(q2, pixels, held, Total)
           held2 == held + Asked(q2, pixels, n2)
           n1 == IF n2 < Len(q2) THEN 0 ELSE Fits(q1, wire, held2, FirstStageLimit)
           A == Ahead(q1, n1)
           B == Ahead(q2, n2)
<1>1. /\ Total \in Nat /\ FirstStageLimit \in Nat /\ FirstStageLimit <= Total
      /\ Len(q1) \in Nat /\ Len(q2) \in Nat
  BY BudgetConstants DEF FirstStageLimit, Line
<1>2. Size(wire, W) \in Nat /\ Size(pixels, P) \in Nat /\ held \in Nat
  BY FiniteBytes
<1>3. /\ n2 \in 0 .. Len(q2)
      /\ n2 > 0 => held2 <= Total
      /\ n2 < Len(q2) => held2 + pixels[q2[n2 + 1]] > Total
  BY <1>1, <1>2, FitsAsFarAsItCan
<1>4. /\ Asked(q2, pixels, n2) \in Nat
      /\ n2 = 0 => Asked(q2, pixels, n2) = 0
  BY <1>3, LoadOfNext
<1>5. held2 \in Nat /\ held2 <= Total
  BY <1>1, <1>2, <1>3, <1>4
<1>6. /\ n1 \in 0 .. Len(q1)
      /\ n1 > 0 => held2 + Asked(q1, wire, n1) <= FirstStageLimit
      /\ n2 = Len(q2) /\ n1 < Len(q1) =>
           held2 + Asked(q1, wire, n1) + wire[q1[n1 + 1]] > FirstStageLimit
  <2>1. CASE n2 < Len(q2)
    BY <1>1, <2>1
  <2>2. CASE ~ (n2 < Len(q2))
    BY <1>1, <1>5, <2>2, FitsAsFarAsItCan
  <2>. QED BY <2>1, <2>2
<1>7. /\ Asked(q1, wire, n1) \in Nat
      /\ n1 = 0 => Asked(q1, wire, n1) = 0
  BY <1>6, LoadOfNext
<1>8. /\ used' = held2 + Asked(q1, wire, n1)
      /\ second' = SubSeq(q2, n2 + 1, Len(q2))
      /\ first' = SubSeq(q1, n1 + 1, Len(q1))
      /\ ready' = granted \cup B \cup A
  BY Zenon DEF Grant
<1>9. /\ A \subseteq Waiters(q1) /\ B \subseteq Waiters(q2)
      /\ Waiters(q1) \subseteq Request /\ Waiters(q2) \subseteq Request
  BY <1>3, <1>6, AheadOfNext
<1> DEFINE l1 == Asked(q1, wire, n1)
           l2 == Asked(q2, pixels, n2)
<1>10. Size(wire, W \cup A) = Size(wire, W) + l1
  <2>1. A \in SUBSET Request /\ W \cap A = {}
    BY <1>9
  <2>. QED BY <2>1, SizeOfTwo DEF Asked
<1>11. Size(pixels, P \cup B) = Size(pixels, P) + l2
  <2>1. B \in SUBSET Request /\ P \cap B = {}
    BY <1>9
  <2>. QED BY <2>1, SizeOfTwo DEF Asked
<1>12. /\ Line(first') /\ Waiters(first') = Waiters(q1) \ A
       /\ first' # <<>> <=> n1 < Len(q1)
       /\ n1 < Len(q1) => Head(first') = q1[n1 + 1]
  BY <1>6, <1>8, RestOfLine
<1>13. /\ Line(second') /\ Waiters(second') = Waiters(q2) \ B
       /\ second' # <<>> <=> n2 < Len(q2)
       /\ n2 < Len(q2) => Head(second') = q2[n2 + 1]
  BY <1>3, <1>8, RestOfLine
<1>14. /\ held2 = held + l2 /\ l1 \in Nat /\ l2 \in Nat
       /\ used' = held2 + l1
       /\ n1 = 0 => l1 = 0
       /\ n1 > 0 => held2 + l1 <= FirstStageLimit
       /\ n2 = Len(q2) /\ n1 < Len(q1) =>
            held2 + l1 + wire[q1[n1 + 1]] > FirstStageLimit
  BY <1>4, <1>6, <1>7, <1>8
<1> HIDE DEF n1, n2, held2, A, B, l1, l2
<1>15. l1 \in Nat /\ l2 \in Nat /\ held2 \in Nat /\ used' \in Nat /\ used' = held2 + l1
  BY <1>5, <1>14
<1>16. Size(wire, W \cup A) \in Nat /\ Size(wire, W \cup A) <= used'
  <2>1. used' = (Size(wire, W) + l1) + (Size(pixels, P) + l2)
    BY <1>2, <1>14
  <2>. QED BY <1>2, <1>10, <1>15, <2>1
<1>17. used' = Size(wire, W \cup A) + Size(pixels, P \cup B)
  BY <1>2, <1>10, <1>11, <1>14
<1>18. used' <= Total /\ Size(wire, W \cup A) <= FirstStageLimit
  <2>1. CASE n1 = 0
    <3>1. l1 = 0
      BY <1>14, <2>1
    <3>. QED BY <1>2, <1>5, <1>10, <1>15, <3>1
  <2>2. CASE n1 > 0
    <3>1. used' <= FirstStageLimit
      BY <1>14, <2>2
    <3>. QED BY <1>1, <1>15, <1>16, <3>1
  <2>. QED BY <1>6, <2>1, <2>2
<1>19. NoWaiterOverlooked'
  <2>1. ASSUME second' # <<>>
        PROVE  used' + pixels'[Head(second')] > Total
    <3>1. n2 < Len(q2) /\ Head(second') = q2[n2 + 1] /\ pixels[q2[n2 + 1]] \in Nat
      <4>1. n2 < Len(q2) /\ Head(second') = q2[n2 + 1]
        BY <1>13, <2>1
      <4>2. q2[n2 + 1] \in Request
        BY <1>1, <1>3, <4>1 DEF Line
      <4>. QED BY <4>1, <4>2
    <3>2. pixels'[Head(second')] = pixels[q2[n2 + 1]]
      BY <3>1
    <3>3. held2 + pixels[q2[n2 + 1]] > Total /\ pixels[q2[n2 + 1]] \in Nat
      BY <1>3, <3>1
    <3>. QED BY <1>1, <1>15, <3>2, <3>3
  <2>2. ASSUME second' = <<>>, first' # <<>>
        PROVE  used' + wire'[Head(first')] > FirstStageLimit
    <3>1. n1 < Len(q1) /\ Head(first') = q1[n1 + 1] /\ n2 = Len(q2)
      BY <1>1, <1>3, <1>12, <1>13, <2>2
    <3>2. wire'[Head(first')] = wire[q1[n1 + 1]]
      BY <3>1
    <3>. QED BY <1>14, <3>1, <3>2
  <2>. QED BY <2>1, <2>2 DEF NoWaiterOverlooked, FirstStageLimit
<1>. QED BY <1>8, <1>9, <1>12, <1>13, <1>17, <1>18, <1>19 DEF Granted

-----------------------------------------------------------------------------
(* The budget's invariant. *)

\* The uploads that hold a charge of either stage, when they are at the steps of at and
\* those of granted have been granted theirs.
OnWire(at, granted) ==
  {u \in Request : \/ at[u] \in {"reading", "wait_pixels", "decoding", "writing"}
                   \/ at[u] = "wait_wire" /\ u \in granted}

OnPixels(at, granted) ==
  {u \in Request : at[u] = "decoding" \/ (at[u] = "wait_pixels" /\ u \in granted)}

\* The queues hold the waiters that were not granted, each once.
Queued(q1, q2, at, granted) ==
  /\ Line(q1) /\ Waiters(q1) = {u \in Request : at[u] = "wait_wire" /\ u \notin granted}
  /\ Line(q2) /\ Waiters(q2) = {u \in Request : at[u] = "wait_pixels" /\ u \notin granted}
  /\ granted \subseteq Request /\ \A u \in granted : at[u] \in Waiting

\* The counter is what the holders were charged, and the first stage leaves the reserve.
Charged(sum, at, granted) ==
  /\ sum = Size(wire, OnWire(at, granted)) + Size(pixels, OnPixels(at, granted))
  /\ sum <= Total
  /\ Size(wire, OnWire(at, granted)) <= FirstStageLimit

BudgetInv ==
  /\ BudgetTypeOK
  /\ Queued(first, second, step, ready)
  /\ Charged(used, step, ready)
  /\ NoWaiterOverlooked

\* Every pixel buffer fits in what the first stage leaves free.
LEMMA SizesAreNatural ==
  ASSUME BudgetTypeOK
  PROVE  /\ wire \in [Request -> Nat] /\ pixels \in [Request -> Nat]
         /\ \A u \in Request : pixels[u] <= Reserve
         /\ Total \in Nat /\ Reserve \in Nat /\ FirstStageLimit \in Nat
         /\ FirstStageLimit + Reserve = Total
<1>1. /\ WireSize \subseteq Nat /\ PixelSize \subseteq Nat
      /\ \A size \in PixelSize : size <= Reserve
      /\ Total \in Nat /\ Reserve \in Nat /\ Reserve < Total
  BY BudgetConstants
<1>2. wire \in [Request -> WireSize] /\ pixels \in [Request -> PixelSize]
  BY DEF BudgetTypeOK
<1>3. wire \in [Request -> Nat] /\ pixels \in [Request -> Nat]
  BY <1>1, <1>2
<1>4. \A u \in Request : pixels[u] <= Reserve
  BY <1>1, <1>2
<1>5. FirstStageLimit \in Nat /\ FirstStageLimit + Reserve = Total
  BY <1>1 DEF FirstStageLimit
<1>. QED BY <1>1, <1>3, <1>4, <1>5

\* The sums over the holders are numbers.
LEMMA HoldersAreCharged ==
  ASSUME BudgetTypeOK, NEW at, NEW granted
  PROVE  /\ OnWire(at, granted) \in SUBSET Request /\ OnPixels(at, granted) \in SUBSET Request
         /\ Size(wire, OnWire(at, granted)) \in Nat
         /\ Size(pixels, OnPixels(at, granted)) \in Nat
<1>1. OnWire(at, granted) \in SUBSET Request /\ OnPixels(at, granted) \in SUBSET Request
  BY DEF OnWire, OnPixels
<1>. QED BY <1>1, SizesAreNatural, FiniteBytes

\* What the invariant says of the counter is ChargesAddUp.
LEMMA ChargesFollow ==
  ASSUME BudgetInv
  PROVE  ChargesAddUp
<1>1. /\ {u \in Request : HoldsWire(u)} = OnWire(step, ready)
      /\ {u \in Request : HoldsPixels(u)} = OnPixels(step, ready)
  BY Zenon DEF OnWire, OnPixels, HoldsWire, HoldsPixels
<1>. QED BY <1>1, Zenon DEF BudgetInv, Charged, ChargesAddUp, WireHeld, PixelsHeld

\* Without a pixel buffer in use the reserve alone would admit the first that waits.
LEMMA DecodesFollow ==
  ASSUME BudgetInv
  PROVE  PixelsWaitOnlyOnDecodes
<1>1. SUFFICES ASSUME second # <<>>, \A u \in Request : ~ HoldsPixels(u)
               PROVE  FALSE
  BY DEF PixelsWaitOnlyOnDecodes
<1>2. OnPixels(step, ready) = {}
  BY <1>1 DEF OnPixels, HoldsPixels
<1>3. Size(pixels, OnPixels(step, ready)) = 0
  BY <1>2, SizeOfNone
<1>4. Size(wire, OnWire(step, ready)) \in Nat
  BY HoldersAreCharged DEF BudgetInv
<1>5. used <= FirstStageLimit /\ used \in Nat
  BY <1>3, <1>4 DEF BudgetInv, Charged
<1>6. Head(second) \in Request
  BY <1>1 DEF BudgetInv, BudgetTypeOK
<1>7. used + pixels[Head(second)] > Total
  BY <1>1 DEF BudgetInv, NoWaiterOverlooked
<1>8. BudgetTypeOK
  BY DEF BudgetInv
<1>9. pixels[Head(second)] \in Nat /\ pixels[Head(second)] <= Reserve
  BY <1>6, <1>8, SizesAreNatural
<1>. QED BY <1>5, <1>7, <1>8, <1>9, SizesAreNatural

\* Whatever calls grantLocked, with the counter, the queues and the grants as they are then.
LEMMA GrantKeeps ==
  ASSUME BudgetTypeOK, UNCHANGED <<wire, pixels, cancelled>>,
         step' \in [Request -> PC],
         NEW held, NEW q1, NEW q2, NEW granted,
         Queued(q1, q2, step', granted), Charged(held, step', granted),
         Grant(held, q1, q2, granted)
  PROVE  BudgetInv'
<1> DEFINE W == OnWire(step', granted)
           P == OnPixels(step', granted)
<1>1. wire \in [Request -> Nat] /\ pixels \in [Request -> Nat]
  BY SizesAreNatural
<1>2. Line(q1) /\ Line(q2)
  BY DEF Queued
<1>3. /\ W \in SUBSET Request /\ P \in SUBSET Request
      /\ Size(wire, W) \in Nat /\ Size(pixels, P) \in Nat
  BY HoldersAreCharged
<1>4. W \cap Waiters(q1) = {} /\ P \cap Waiters(q2) = {}
  BY DEF Queued, OnWire, OnPixels
<1>5. /\ held = Size(wire, W) + Size(pixels, P) /\ held <= Total
      /\ Size(wire, W) <= FirstStageLimit
  BY DEF Charged
<1> HIDE DEF W, P
<1>6. PICK A, B : Granted(q1, q2, W, P, granted, A, B)
  BY <1>1, <1>2, <1>3, <1>4, <1>5, GrantStep
<1>7. /\ A \subseteq Waiters(q1) /\ B \subseteq Waiters(q2)
      /\ ready' = granted \cup B \cup A
      /\ Waiters(first') = Waiters(q1) \ A /\ Waiters(second') = Waiters(q2) \ B
      /\ Line(first') /\ Line(second')
  BY <1>6 DEF Granted
<1>8. OnWire(step', ready') = W \cup A
  BY <1>7 DEF W, OnWire, Queued
<1>9. OnPixels(step', ready') = P \cup B
  BY <1>7 DEF P, OnPixels, Queued
<1>10. Queued(first', second', step', ready')
  <2>1. ready' \subseteq Request /\ \A u \in ready' : step'[u] \in Waiting
    BY <1>7 DEF Queued, Waiting
  <2>2. Waiters(first') = {u \in Request : step'[u] = "wait_wire" /\ u \notin ready'}
    BY <1>7 DEF Queued
  <2>3. Waiters(second') = {u \in Request : step'[u] = "wait_pixels" /\ u \notin ready'}
    BY <1>7 DEF Queued
  <2>. QED BY <1>7, <2>1, <2>2, <2>3 DEF Queued
<1>11. Charged(used, step, ready)'
  BY <1>6, <1>8, <1>9, Zenon DEF Granted, Charged, OnWire, OnPixels, FirstStageLimit
<1>12. used' \in Nat
  <2>1. Size(wire, OnWire(step', ready')) \in Nat /\ Size(pixels, OnPixels(step', ready')) \in Nat
    BY HoldersAreCharged
  <2>2. used' = Size(wire, OnWire(step', ready')) + Size(pixels, OnPixels(step', ready'))
    BY <1>6, <1>8, <1>9, Zenon DEF Granted
  <2>. QED BY <2>1, <2>2
<1>13. BudgetTypeOK'
  BY <1>7, <1>10, <1>12 DEF BudgetTypeOK, Line, Queued
<1>14. Queued(first, second, step, ready)'
  BY <1>10, Zenon DEF Queued, Waiting
<1>. QED BY <1>6, <1>11, <1>13, <1>14 DEF BudgetInv, Granted

\* One holder more, one holder less.
LEMMA OneMore ==
  ASSUME NEW want \in [Request -> Nat], NEW S \in SUBSET Request,
         NEW u \in Request
  PROVE  /\ u \notin S => Size(want, S \cup {u}) = Size(want, S) + want[u]
         /\ u \in S => Size(want, S \ {u}) = Size(want, S) - want[u]
         /\ want[u] \in Nat
<1>1. Size(want, {u}) = want[u] /\ want[u] \in Nat
  BY SizeOfOne
<1>2. ASSUME u \notin S
      PROVE  Size(want, S \cup {u}) = Size(want, S) + want[u]
  <2>1. S \cap {u} = {} /\ {u} \in SUBSET Request
    BY <1>2
  <2>. QED BY <1>1, <2>1, SizeOfTwo
<1>3. ASSUME u \in S
      PROVE  Size(want, S \ {u}) = Size(want, S) - want[u]
  <2>1. (S \ {u}) \cap {u} = {} /\ S = (S \ {u}) \cup {u}
    BY <1>3
  <2>2. {u} \in SUBSET Request /\ S \ {u} \in SUBSET Request
    OBVIOUS
  <2>3. Size(want, S) = Size(want, S \ {u}) + Size(want, {u})
    BY <2>1, <2>2, SizeOfTwo
  <2>4. Size(want, S \ {u}) \in Nat
    BY <2>2, FiniteBytes
  <2>. QED BY <1>1, <2>3, <2>4
<1>. QED BY <1>1, <1>2, <1>3

\* The parts of the invariant that are asked for by name.
LEMMA PartsOfBudgetInv ==
  ASSUME BudgetInv
  PROVE  /\ step \in [Request -> PC] /\ ready \subseteq Request /\ cancelled \subseteq Request
         /\ used \in Nat
         /\ used = Size(wire, OnWire(step, ready)) + Size(pixels, OnPixels(step, ready))
         /\ used <= Total
         /\ Size(wire, OnWire(step, ready)) <= FirstStageLimit
         /\ Size(wire, OnWire(step, ready)) \in Nat
         /\ Size(pixels, OnPixels(step, ready)) \in Nat
         /\ OnWire(step, ready) \in SUBSET Request /\ OnPixels(step, ready) \in SUBSET Request
         /\ wire \in [Request -> Nat] /\ pixels \in [Request -> Nat]
BY HoldersAreCharged, SizesAreNatural DEF BudgetInv, BudgetTypeOK, Charged

\* A step that charges nothing and lets no waiter go.
LEMMA QuietStep ==
  ASSUME BudgetInv, UNCHANGED <<wire, pixels, used, first, second>>,
         step' \in [Request -> PC], cancelled' \subseteq Request,
         Queued(first, second, step', ready'),
         OnWire(step', ready') = OnWire(step, ready),
         OnPixels(step', ready') = OnPixels(step, ready)
  PROVE  BudgetInv'
<1>1. BudgetTypeOK'
  BY DEF BudgetInv, BudgetTypeOK, Queued
<1>2. Queued(first, second, step, ready)'
  BY Zenon DEF Queued, Waiting
<1>3. Charged(used', step', ready')
  BY DEF BudgetInv, Charged
<1>4. Charged(used, step, ready)'
  BY <1>3, Zenon DEF Charged, OnWire, OnPixels, FirstStageLimit
<1>5. NoWaiterOverlooked'
  BY DEF BudgetInv, NoWaiterOverlooked, FirstStageLimit
<1>. QED BY <1>1, <1>2, <1>4, <1>5 DEF BudgetInv

\* A step that admits or queues one request.
LEMMA AskingStep ==
  ASSUME BudgetInv, UNCHANGED <<wire, pixels, ready, cancelled>>,
         step' \in [Request -> PC], used' \in Nat,
         Queued(first', second', step', ready), Charged(used', step', ready),
         NoWaiterOverlooked'
  PROVE  BudgetInv'
<1>1. BudgetTypeOK'
  BY DEF BudgetInv, BudgetTypeOK, Queued, Line
<1>2. Queued(first, second, step, ready)'
  BY Zenon DEF Queued, Waiting
<1>3. Charged(used, step, ready)'
  BY Zenon DEF Charged, OnWire, OnPixels, FirstStageLimit
<1>. QED BY <1>1, <1>2, <1>3 DEF BudgetInv

\* Each operation of the budget and of an upload's handler.
LEMMA AcquireWireStep ==
  ASSUME BudgetInv, NEW u \in Request, AcquireWire(u)
  PROVE  BudgetInv'
<1>1. /\ step[u] = "new" /\ UNCHANGED <<wire, pixels, second, ready, cancelled>>
      /\ u \notin ready
  BY DEF AcquireWire, sizes, BudgetInv, Queued, Waiting
<1>2. wire[u] \in Nat /\ FirstStageLimit \in Nat /\ FirstStageLimit <= Total
  BY PartsOfBudgetInv, SizesAreNatural DEF BudgetInv
<1>3. CASE /\ first = <<>> /\ second = <<>> /\ used + wire[u] <= FirstStageLimit
           /\ used' = used + wire[u] /\ step' = [step EXCEPT ![u] = "reading"] /\ UNCHANGED first
  <2>1. step' \in [Request -> PC] /\ used' \in Nat
    BY <1>2, <1>3, PartsOfBudgetInv DEF PC
  <2>2. OnWire(step', ready) = OnWire(step, ready) \cup {u} /\ u \notin OnWire(step, ready)
    BY <1>1, <1>3, PartsOfBudgetInv DEF OnWire
  <2>3. OnPixels(step', ready) = OnPixels(step, ready)
    BY <1>1, <1>3, PartsOfBudgetInv DEF OnPixels
  <2>4. Size(wire, OnWire(step', ready)) = Size(wire, OnWire(step, ready)) + wire[u]
    BY <2>2, PartsOfBudgetInv, OneMore
  <2>5. Charged(used', step', ready)
    <3> DEFINE w == Size(wire, OnWire(step, ready))
               p == Size(pixels, OnPixels(step, ready))
    <3>1. used = w + p /\ w \in Nat /\ p \in Nat
      BY PartsOfBudgetInv
    <3> HIDE DEF w, p
    <3>2. /\ used' = (w + wire[u]) + p /\ used' <= Total
          /\ w + wire[u] <= FirstStageLimit
      <4>1. Total \in Nat
        BY SizesAreNatural DEF BudgetInv
      <4>. QED BY <1>2, <1>3, <3>1, <4>1
    <3>. QED BY <2>3, <2>4, <3>2, Zenon DEF Charged, w, p
  <2>6. Queued(first', second', step', ready)
    BY <1>1, <1>3, PartsOfBudgetInv DEF BudgetInv, Queued, Waiting
  <2>7. NoWaiterOverlooked'
    BY <1>1, <1>3 DEF NoWaiterOverlooked
  <2>. QED BY <1>1, <2>1, <2>5, <2>6, <2>7, AskingStep
<1>4. CASE /\ ~ (first = <<>> /\ second = <<>> /\ used + wire[u] <= FirstStageLimit)
           /\ first' = Append(first, u) /\ step' = [step EXCEPT ![u] = "wait_wire"] /\ UNCHANGED used
  <2>1. step' \in [Request -> PC] /\ used' \in Nat
    BY <1>4, PartsOfBudgetInv DEF PC
  <2>2. OnWire(step', ready) = OnWire(step, ready) /\ OnPixels(step', ready) = OnPixels(step, ready)
    BY <1>1, <1>4, PartsOfBudgetInv DEF OnWire, OnPixels
  <2>3. Charged(used', step', ready)
    BY <1>4, <2>2 DEF Charged, BudgetInv
  <2>4. /\ Line(first') /\ Waiters(first') = Waiters(first) \cup {u} /\ first' # <<>>
        /\ first # <<>> => Head(first') = Head(first)
        /\ first = <<>> => Head(first') = u
    <3>1. Line(first) /\ u \notin Waiters(first)
      BY <1>1 DEF BudgetInv, Queued
    <3>. QED BY <1>4, <3>1, LineJoined
  <2>5. Queued(first', second', step', ready)
    BY <1>1, <1>4, <2>4, PartsOfBudgetInv DEF BudgetInv, Queued, Waiting
  <2>6. NoWaiterOverlooked'
    <3>1. second' # <<>> => used' + pixels'[Head(second')] > Total
      BY <1>1, <1>4 DEF BudgetInv, NoWaiterOverlooked
    <3>2. CASE first = <<>> /\ second = <<>>
      BY <1>1, <1>2, <1>4, <2>4, <3>2, PartsOfBudgetInv
         DEF NoWaiterOverlooked, FirstStageLimit
    <3>3. CASE first # <<>> /\ second = <<>>
      BY <1>1, <1>4, <2>4, <3>3 DEF BudgetInv, NoWaiterOverlooked, FirstStageLimit
    <3>4. CASE second # <<>>
      BY <1>1, <3>1, <3>4 DEF NoWaiterOverlooked
    <3>. QED BY <3>2, <3>3, <3>4
  <2>. QED BY <1>1, <2>1, <2>3, <2>5, <2>6, AskingStep
<1>. QED BY <1>3, <1>4, Zenon DEF AcquireWire, Move

LEMMA AcquirePixelsStep ==
  ASSUME BudgetInv, NEW u \in Request, AcquirePixels(u)
  PROVE  BudgetInv'
<1>1. /\ step[u] = "reading" /\ UNCHANGED <<wire, pixels, first, ready, cancelled>>
      /\ u \notin ready
  BY DEF AcquirePixels, sizes, BudgetInv, Queued, Waiting
<1>2. pixels[u] \in Nat /\ FirstStageLimit \in Nat /\ Total \in Nat
  BY PartsOfBudgetInv, SizesAreNatural DEF BudgetInv
<1>3. CASE /\ second = <<>> /\ used + pixels[u] <= Total
           /\ used' = used + pixels[u] /\ step' = [step EXCEPT ![u] = "decoding"] /\ UNCHANGED second
  <2>1. step' \in [Request -> PC] /\ used' \in Nat
    BY <1>2, <1>3, PartsOfBudgetInv DEF PC
  <2>2. OnPixels(step', ready) = OnPixels(step, ready) \cup {u} /\ u \notin OnPixels(step, ready)
    BY <1>1, <1>3, PartsOfBudgetInv DEF OnPixels
  <2>3. OnWire(step', ready) = OnWire(step, ready)
    BY <1>1, <1>3, PartsOfBudgetInv DEF OnWire
  <2>4. Size(pixels, OnPixels(step', ready)) = Size(pixels, OnPixels(step, ready)) + pixels[u]
    BY <2>2, PartsOfBudgetInv, OneMore
  <2>5. Charged(used', step', ready)
    <3> DEFINE w == Size(wire, OnWire(step, ready))
               p == Size(pixels, OnPixels(step, ready))
    <3>1. /\ used = w + p /\ w \in Nat /\ p \in Nat
          /\ w <= FirstStageLimit
      BY PartsOfBudgetInv
    <3> HIDE DEF w, p
    <3>2. used' = w + (p + pixels[u])
      BY <1>2, <1>3, <3>1
    <3>3. Size(wire, OnWire(step, ready)) <= FirstStageLimit
      BY <3>1 DEF w
    <3>. QED BY <1>3, <2>3, <2>4, <3>2, <3>3, Zenon DEF Charged, w, p
  <2>6. Queued(first', second', step', ready)
    BY <1>1, <1>3, PartsOfBudgetInv DEF BudgetInv, Queued, Waiting
  <2>7. NoWaiterOverlooked'
    <3>1. ASSUME first # <<>>
          PROVE  used' + wire[Head(first)] > FirstStageLimit
      <4>1. used + wire[Head(first)] > FirstStageLimit
        BY <1>3, <3>1 DEF BudgetInv, NoWaiterOverlooked
      <4>2. wire[Head(first)] \in Nat
        BY <3>1, PartsOfBudgetInv DEF BudgetInv, BudgetTypeOK
      <4>3. used' = used + pixels[u] /\ used \in Nat
        BY <1>3, PartsOfBudgetInv
      <4>. QED BY <1>2, <4>1, <4>2, <4>3
    <3>. QED BY <1>1, <1>3, <3>1 DEF NoWaiterOverlooked, FirstStageLimit
  <2>. QED BY <1>1, <2>1, <2>5, <2>6, <2>7, AskingStep
<1>4. CASE /\ ~ (second = <<>> /\ used + pixels[u] <= Total)
           /\ second' = Append(second, u) /\ step' = [step EXCEPT ![u] = "wait_pixels"] /\ UNCHANGED used
  <2>1. step' \in [Request -> PC] /\ used' \in Nat
    BY <1>4, PartsOfBudgetInv DEF PC
  <2>2. OnWire(step', ready) = OnWire(step, ready) /\ OnPixels(step', ready) = OnPixels(step, ready)
    BY <1>1, <1>4, PartsOfBudgetInv DEF OnWire, OnPixels
  <2>3. Charged(used', step', ready)
    BY <1>4, <2>2 DEF Charged, BudgetInv
  <2>4. /\ Line(second') /\ Waiters(second') = Waiters(second) \cup {u} /\ second' # <<>>
        /\ second # <<>> => Head(second') = Head(second)
        /\ second = <<>> => Head(second') = u
    <3>1. Line(second) /\ u \notin Waiters(second)
      BY <1>1 DEF BudgetInv, Queued
    <3>. QED BY <1>4, <3>1, LineJoined
  <2>5. Queued(first', second', step', ready)
    BY <1>1, <1>4, <2>4, PartsOfBudgetInv DEF BudgetInv, Queued, Waiting
  <2>6. used' + pixels'[Head(second')] > Total
    <3>1. CASE second = <<>>
      BY <1>1, <1>2, <1>4, <2>4, <3>1, PartsOfBudgetInv
    <3>2. CASE second # <<>>
      BY <1>1, <1>4, <2>4, <3>2 DEF BudgetInv, NoWaiterOverlooked
    <3>. QED BY <3>1, <3>2
  <2>7. NoWaiterOverlooked'
    BY <2>4, <2>6 DEF NoWaiterOverlooked
  <2>. QED BY <1>1, <2>1, <2>3, <2>5, <2>7, AskingStep
<1>. QED BY <1>3, <1>4, Zenon DEF AcquirePixels, SecondStageAhead, Move

LEMMA QuietSteps ==
  ASSUME BudgetInv, NEW u \in Request,
         RefuseWire(u) \/ Wake(u) \/ RefuseImage(u) \/ Cancel(u)
  PROVE  BudgetInv'
<1>1. CASE RefuseWire(u)
  <2>1. /\ step[u] = "new" /\ step' = [step EXCEPT ![u] = "shed"]
        /\ UNCHANGED <<wire, pixels, used, first, second, ready, cancelled>>
    BY <1>1 DEF RefuseWire, Move, sizes
  <2>2. step' \in [Request -> PC] /\ cancelled' \subseteq Request
    BY <2>1, PartsOfBudgetInv DEF PC
  <2>3. Queued(first, second, step', ready')
    BY <2>1, PartsOfBudgetInv DEF BudgetInv, Queued, Waiting
  <2>4. OnWire(step', ready') = OnWire(step, ready) /\ OnPixels(step', ready') = OnPixels(step, ready)
    BY <2>1, PartsOfBudgetInv DEF OnWire, OnPixels
  <2>. QED BY <2>1, <2>2, <2>3, <2>4, QuietStep
<1>2. CASE Wake(u)
  <2>1. /\ step[u] \in {"wait_wire", "wait_pixels"} /\ u \in ready /\ ready' = ready \ {u}
        /\ step' = [step EXCEPT ![u] = IF step[u] = "wait_wire" THEN "reading" ELSE "decoding"]
        /\ UNCHANGED <<wire, pixels, used, first, second, cancelled>>
    BY <1>2 DEF Wake, Move, sizes, Waiting, Admitted
  <2>2. step' \in [Request -> PC] /\ cancelled' \subseteq Request
    BY <2>1, PartsOfBudgetInv DEF PC
  <2>3. Queued(first, second, step', ready')
    BY <2>1, PartsOfBudgetInv DEF BudgetInv, Queued, Waiting
  <2>4. OnWire(step', ready') = OnWire(step, ready) /\ OnPixels(step', ready') = OnPixels(step, ready)
    BY <2>1, PartsOfBudgetInv DEF OnWire, OnPixels
  <2>. QED BY <2>1, <2>2, <2>3, <2>4, QuietStep
<1>3. CASE RefuseImage(u)
  <2>1. /\ step[u] = "reading" /\ step' = [step EXCEPT ![u] = "writing"]
        /\ UNCHANGED <<wire, pixels, used, first, second, ready, cancelled>>
    BY <1>3 DEF RefuseImage, Move, sizes
  <2>2. step' \in [Request -> PC] /\ cancelled' \subseteq Request
    BY <2>1, PartsOfBudgetInv DEF PC
  <2>3. Queued(first, second, step', ready')
    BY <2>1, PartsOfBudgetInv DEF BudgetInv, Queued, Waiting
  <2>4. OnWire(step', ready') = OnWire(step, ready) /\ OnPixels(step', ready') = OnPixels(step, ready)
    BY <2>1, PartsOfBudgetInv DEF OnWire, OnPixels
  <2>. QED BY <2>1, <2>2, <2>3, <2>4, QuietStep
<1>4. CASE Cancel(u)
  <2>1. /\ UNCHANGED <<wire, pixels, used, first, second, ready, step>>
        /\ cancelled' = cancelled \cup {u}
    BY <1>4 DEF Cancel, sizes
  <2>2. step' \in [Request -> PC] /\ cancelled' \subseteq Request
    BY <2>1, PartsOfBudgetInv
  <2>3. Queued(first, second, step', ready')
    BY <2>1 DEF BudgetInv
  <2>4. OnWire(step', ready') = OnWire(step, ready) /\ OnPixels(step', ready') = OnPixels(step, ready)
    BY <2>1
  <2>. QED BY <2>1, <2>2, <2>3, <2>4, QuietStep
<1>. QED BY <1>1, <1>2, <1>3, <1>4

\* A step of one upload that gives back its charge of one stage, or nothing, and grants.
LEMMA ReleaseStep ==
  ASSUME BudgetInv, UNCHANGED <<wire, pixels, cancelled>>,
         step' \in [Request -> PC], NEW u \in Request,
         NEW held, NEW q1, NEW q2, NEW granted,
         Queued(q1, q2, step', granted), Grant(held, q1, q2, granted),
         \/ /\ held = used
            /\ OnWire(step', granted) = OnWire(step, ready)
            /\ OnPixels(step', granted) = OnPixels(step, ready)
         \/ /\ held = used - wire[u] /\ u \in OnWire(step, ready)
            /\ OnWire(step', granted) = OnWire(step, ready) \ {u}
            /\ OnPixels(step', granted) = OnPixels(step, ready)
         \/ /\ held = used - pixels[u] /\ u \in OnPixels(step, ready)
            /\ OnWire(step', granted) = OnWire(step, ready)
            /\ OnPixels(step', granted) = OnPixels(step, ready) \ {u}
  PROVE  BudgetInv'
<1> DEFINE W == OnWire(step, ready)
           P == OnPixels(step, ready)
<1>1. BudgetTypeOK
  BY DEF BudgetInv
<1>2. Total \in Nat /\ FirstStageLimit \in Nat
  BY <1>1, SizesAreNatural
<1>3. /\ u \in W => Size(wire, W \ {u}) = Size(wire, W) - wire[u]
      /\ u \in P => Size(pixels, P \ {u}) = Size(pixels, P) - pixels[u]
      /\ wire[u] \in Nat /\ pixels[u] \in Nat
  BY PartsOfBudgetInv, OneMore
<1>4. /\ used = Size(wire, W) + Size(pixels, P) /\ used <= Total
      /\ Size(wire, W) <= FirstStageLimit
      /\ Size(wire, W) \in Nat /\ Size(pixels, P) \in Nat
  BY PartsOfBudgetInv, Zenon
<1> HIDE DEF W, P
<1>5. /\ OnWire(step, ready) = W /\ OnPixels(step, ready) = P
  BY Zenon DEF W, P
<1>6. Charged(held, step', granted)
  <2>1. CASE /\ held = used
             /\ OnWire(step', granted) = W /\ OnPixels(step', granted) = P
    BY <1>4, <2>1, Zenon DEF Charged
  <2>2. CASE /\ held = used - wire[u] /\ u \in W
             /\ OnWire(step', granted) = W \ {u} /\ OnPixels(step', granted) = P
    <3>1. /\ held = Size(wire, W \ {u}) + Size(pixels, P)
          /\ held <= Total /\ Size(wire, W \ {u}) <= FirstStageLimit
      BY <1>2, <1>3, <1>4, <2>2
    <3>. QED BY <2>2, <3>1, Zenon DEF Charged
  <2>3. CASE /\ held = used - pixels[u] /\ u \in P
             /\ OnWire(step', granted) = W /\ OnPixels(step', granted) = P \ {u}
    <3>1. held = Size(wire, W) + Size(pixels, P \ {u}) /\ held <= Total
      BY <1>2, <1>3, <1>4, <2>3
    <3>. QED BY <1>4, <2>3, <3>1, Zenon DEF Charged
  <2>. QED BY <1>5, <2>1, <2>2, <2>3, Zenon
<1>. QED BY <1>1, <1>6, GrantKeeps

LEMMA GiveBackStep ==
  ASSUME BudgetInv, NEW u \in Request, GiveBack(u)
  PROVE  BudgetInv'
<1>1. /\ step[u] \in {"wait_wire", "wait_pixels"} /\ u \in ready
      /\ UNCHANGED <<wire, pixels, cancelled>>
      /\ step' = [step EXCEPT ![u] = IF step[u] = "wait_wire" THEN "shed" ELSE "writing"]
      /\ Grant(used - Charge(u), first, second, ready \ {u})
  BY Zenon DEF GiveBack, AfterGiveBack, Move, sizes, Waiting,
     Turned
<1>2. step' \in [Request -> PC]
  BY <1>1, PartsOfBudgetInv DEF PC
<1>3. Queued(first, second, step', ready \ {u})
  BY <1>1, PartsOfBudgetInv DEF BudgetInv, Queued, Waiting
<1>4. CASE step[u] = "wait_wire"
  <2>1. Grant(used - wire[u], first, second, ready \ {u})
    BY <1>1, <1>4, Zenon DEF Charge
  <2>2. /\ u \in OnWire(step, ready)
        /\ OnWire(step', ready \ {u}) = OnWire(step, ready) \ {u}
        /\ OnPixels(step', ready \ {u}) = OnPixels(step, ready)
    BY <1>1, <1>4, PartsOfBudgetInv DEF OnWire, OnPixels
  <2>. QED BY <1>1, <1>2, <1>3, <2>1, <2>2, ReleaseStep
<1>5. CASE step[u] = "wait_pixels"
  <2>1. Grant(used - pixels[u], first, second, ready \ {u})
    BY <1>1, <1>5 DEF Charge
  <2>2. /\ u \in OnPixels(step, ready)
        /\ OnWire(step', ready \ {u}) = OnWire(step, ready)
        /\ OnPixels(step', ready \ {u}) = OnPixels(step, ready) \ {u}
    BY <1>1, <1>5, PartsOfBudgetInv DEF OnWire, OnPixels
  <2>. QED BY <1>1, <1>2, <1>3, <2>1, <2>2, ReleaseStep
<1>. QED BY <1>1, <1>4, <1>5

LEMMA GiveUpStep ==
  ASSUME BudgetInv, NEW u \in Request, GiveUp(u)
  PROVE  BudgetInv'
<1> DEFINE q1 == Removed(first, u)
           q2 == Removed(second, u)
<1>1. /\ step[u] \in {"wait_wire", "wait_pixels"} /\ u \notin ready
      /\ UNCHANGED <<wire, pixels, cancelled>>
      /\ step' = [step EXCEPT ![u] = IF step[u] = "wait_wire" THEN "shed" ELSE "writing"]
      /\ Grant(used, q1, q2, ready)
  BY Zenon DEF GiveUp, LeaveQueue, Move, sizes, Waiting,
     Turned
<1>2. step' \in [Request -> PC]
  BY <1>1, PartsOfBudgetInv DEF PC
<1>3. /\ Line(q1) /\ Waiters(q1) = Waiters(first) \ {u}
      /\ Line(q2) /\ Waiters(q2) = Waiters(second) \ {u}
  BY LineWithout DEF BudgetInv, Queued
<1> HIDE DEF q1, q2
<1>4. Queued(q1, q2, step', ready)
  BY <1>1, <1>3, PartsOfBudgetInv DEF BudgetInv, Queued, Waiting
<1>5. OnWire(step', ready) = OnWire(step, ready) /\ OnPixels(step', ready) = OnPixels(step, ready)
  BY <1>1, PartsOfBudgetInv DEF OnWire, OnPixels
<1>. QED BY <1>1, <1>2, <1>4, <1>5, ReleaseStep

LEMMA DecodeStep ==
  ASSUME BudgetInv, NEW u \in Request, Decode(u)
  PROVE  BudgetInv'
<1>1. /\ step[u] = "decoding" /\ step' = [step EXCEPT ![u] = "writing"]
      /\ UNCHANGED <<wire, pixels, cancelled>>
      /\ Grant(used - pixels[u], first, second, ready)
  BY Zenon DEF Decode, Release, Move, sizes
<1>2. step' \in [Request -> PC]
  BY <1>1, PartsOfBudgetInv DEF PC
<1>3. Queued(first, second, step', ready)
  BY <1>1, PartsOfBudgetInv DEF BudgetInv, Queued, Waiting
<1>4. /\ u \in OnPixels(step, ready)
      /\ OnWire(step', ready) = OnWire(step, ready)
      /\ OnPixels(step', ready) = OnPixels(step, ready) \ {u}
  BY <1>1, PartsOfBudgetInv DEF OnWire, OnPixels
<1>. QED BY <1>1, <1>2, <1>3, <1>4, ReleaseStep

LEMMA ReturnStep ==
  ASSUME BudgetInv, NEW u \in Request, Return(u)
  PROVE  BudgetInv'
<1>1. /\ step[u] = "writing" /\ step' = [step EXCEPT ![u] = "done"]
      /\ UNCHANGED <<wire, pixels, cancelled>>
      /\ Grant(used - wire[u], first, second, ready)
  BY Zenon DEF Return, Release, Move, sizes
<1>2. step' \in [Request -> PC]
  BY <1>1, PartsOfBudgetInv DEF PC
<1>3. Queued(first, second, step', ready)
  BY <1>1, PartsOfBudgetInv DEF BudgetInv, Queued, Waiting
<1>4. /\ u \in OnWire(step, ready)
      /\ OnWire(step', ready) = OnWire(step, ready) \ {u}
      /\ OnPixels(step', ready) = OnPixels(step, ready)
  BY <1>1, PartsOfBudgetInv DEF OnWire, OnPixels
<1>. QED BY <1>1, <1>2, <1>3, <1>4, ReleaseStep

LEMMA InitialBudget ==
  ASSUME BudgetInit
  PROVE  BudgetInv
<1>1. BudgetTypeOK
  BY DEF BudgetInit, BudgetTypeOK, PC
<1>2. OnWire(step, ready) = {} /\ OnPixels(step, ready) = {}
  BY DEF BudgetInit, OnWire, OnPixels
<1>3. /\ Size(wire, OnWire(step, ready)) = 0
      /\ Size(pixels, OnPixels(step, ready)) = 0
  BY <1>2, SizeOfNone
<1>4. Total \in Nat /\ FirstStageLimit \in Nat
  BY <1>1, SizesAreNatural
<1>5. used = 0
  BY DEF BudgetInit
<1>6. Charged(used, step, ready)
  BY <1>3, <1>4, <1>5 DEF Charged
<1>7. Line(<<>>) /\ Waiters(<<>>) = {}
  BY DEF Line, Waiters, Ahead
<1>8. Queued(first, second, step, ready)
  BY <1>7 DEF BudgetInit, Queued
<1>9. NoWaiterOverlooked
  BY DEF BudgetInit, NoWaiterOverlooked
<1>. QED BY <1>1, <1>6, <1>8, <1>9 DEF BudgetInv

LEMMA BudgetIsInductive ==
  ASSUME BudgetInv, [BudgetNext]_budgetVars
  PROVE  BudgetInv'
<1>1. CASE UNCHANGED budgetVars
  <2>1. UNCHANGED <<wire, pixels, used, first, second, ready, cancelled, step>>
    BY <1>1 DEF budgetVars
  <2>2. Queued(first, second, step', ready')
    BY <2>1 DEF BudgetInv
  <2>. QED BY <2>1, <2>2, PartsOfBudgetInv, QuietStep
<1>2. ASSUME NEW u \in Request, Step(u)
      PROVE  BudgetInv'
  BY <1>2, AcquireWireStep, AcquirePixelsStep, QuietSteps, GiveBackStep, GiveUpStep, DecodeStep,
     ReturnStep DEF Step
<1>. QED BY <1>1, <1>2 DEF BudgetNext

\* The counter is what the uploads hold and stays within the budget, whatever a grant
\* raced with (acquire, releaser, grantLocked), for any number of uploads of any size.
THEOREM BudgetIsKept ==
  BudgetSpec => []ChargesAddUp
<1>1. BudgetInit => BudgetInv
  BY InitialBudget
<1>2. BudgetInv /\ [BudgetNext]_budgetVars => BudgetInv'
  BY BudgetIsInductive
<1>3. BudgetInv => ChargesAddUp
  BY ChargesFollow
<1>. QED BY <1>1, <1>2, <1>3, PTL DEF BudgetSpec

\* Nobody waits beside room that is theirs to take: every release, give-back and departure
\* of a waiter grants as far as it can (grantLocked).
THEOREM NobodyIsOverlooked ==
  BudgetSpec => []NoWaiterOverlooked
<1>1. BudgetInit => BudgetInv
  BY InitialBudget
<1>2. BudgetInv /\ [BudgetNext]_budgetVars => BudgetInv'
  BY BudgetIsInductive
<1>3. BudgetInv => NoWaiterOverlooked
  BY DEF BudgetInv
<1>. QED BY <1>1, <1>2, <1>3, PTL DEF BudgetSpec

\* While an upload waits for a pixel buffer, another one holds one: the reserve leaves room
\* for the largest, whatever the first stage has admitted.
THEOREM PixelsWaitOnDecodes ==
  BudgetSpec => []PixelsWaitOnlyOnDecodes
<1>1. BudgetInit => BudgetInv
  BY InitialBudget
<1>2. BudgetInv /\ [BudgetNext]_budgetVars => BudgetInv'
  BY BudgetIsInductive
<1>3. BudgetInv => PixelsWaitOnlyOnDecodes
  BY DecodesFollow
<1>. QED BY <1>1, <1>2, <1>3, PTL DEF BudgetSpec

=============================================================================
