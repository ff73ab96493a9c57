------------------------------ MODULE BriefAssets ------------------------------
(***************************************************************************)
(* The images stored for one brief, and the campaigns that name them.  A   *)
(* campaign's row names its images in its config snapshot, which is null   *)
(* from the claim until the dispatch is recorded.  A deletion is refused   *)
(* while a campaign may need the image; uploads, deletions and edits of    *)
(* campaigns take the brief's row lock, and inserting a campaign's row     *)
(* takes a share of it, for its foreign key.                               *)
(*                                                                         *)
(* An asset is named by the upload that stored it, and a campaign by the   *)
(* dispatch that creates it, each for a slot of its own.                   *)
(***************************************************************************)
EXTENDS Naturals, FiniteSets

CONSTANTS
  Upload, ImageOf,
  ByteSize,  \* of each image
  MaxAssets, \* MaxCreativeAssetsPerBrief
  MaxBytes,  \* MaxCreativeAssetBytesPerBrief
  Dispatch, Edit, Deletion,
  Null, NoAsset

ASSUME AssetConstants ==
  /\ MaxAssets \in Nat /\ MaxBytes \in Nat
  /\ \A u \in Upload : ByteSize[ImageOf[u]] \in Nat
  /\ IsFiniteSet(Upload)
  /\ {Null, NoAsset} \cap Upload = {} /\ Null # NoAsset
  /\ Null \notin Deletion /\ Upload \cap Deletion = {}
  /\ Null \notin Dispatch

VARIABLES
  archived,
  lock,     \* the upload or deletion that has the brief's row lock
  assets,
  row,      \* campaigns: status, the asset named, version
  uploads,  \* where each upload is
  pc, uses, \* where each dispatch is, and the asset its request names
  cleared,  \* dispatches whose claim an operator cleared
  edits,    \* what each edit has loaded and is to write
  deletions

campaigns == <<row, pc, uses, cleared>>
vars == <<archived, lock, assets, campaigns, uploads, edits, deletions>>

Snapshot == Upload \cup {Null, NoAsset}
NoEdit == [of |-> Null, version |-> 0, asset |-> Null]
Idle == [at |-> "new", of |-> Null]

TypeOK ==
  /\ archived \in BOOLEAN
  /\ lock \in Upload \cup Deletion \cup {Null}
  /\ assets \subseteq Upload
  /\ row \in [Dispatch -> [status : {"none", "pending", "settled", "deleted"}, asset : Snapshot, version : Nat]]
  /\ uploads \in [Upload -> {"new", "checked", "over"}]
  /\ pc \in [Dispatch -> {"new", "claimed", "creating", "releasing", "over"}]
  /\ uses \in [Dispatch -> Snapshot]
  /\ cleared \subseteq Dispatch
  /\ edits \in [Edit -> [of : Dispatch \cup {Null}, version : Nat, asset : Snapshot]]
  /\ deletions \in [Deletion -> [at : {"new", "locked", "deleting", "over"}, of : Upload \cup {Null}]]

Init ==
  /\ archived = FALSE
  /\ lock = Null
  /\ assets = {}
  /\ row = [d \in Dispatch |-> [status |-> "none", asset |-> Null, version |-> 0]]
  /\ uploads = [u \in Upload |-> "new"]
  /\ pc = [d \in Dispatch |-> "new"]
  /\ uses = [d \in Dispatch |-> NoAsset]
  /\ cleared = {}
  /\ edits = [e \in Edit |-> NoEdit]
  /\ deletions = [x \in Deletion |-> Idle]

-----------------------------------------------------------------------------
\* Mutant: the brief's lock keeps nobody out.
MutLockFree == TRUE

LockFree == lock = Null

(* CreateAsset. *)

\* The sum of the byte sizes of some assets: the number of their bytes.
BytesUsed(S) == Cardinality(UNION {{a} \X (1 .. ByteSize[ImageOf[a]]) : a \in S})

\* Mutants: one asset too many, and the bytes of this upload left out.
MutOneMore(u) ==
  /\ Cardinality(assets) <= MaxAssets
  /\ BytesUsed(assets) + ByteSize[ImageOf[u]] <= MaxBytes
MutUncounted(u) == Cardinality(assets) < MaxAssets /\ BytesUsed(assets) <= MaxBytes

\* Room for one asset more, and for its bytes.
RoomLeft(u) ==
  /\ Cardinality(assets) < MaxAssets
  /\ BytesUsed(assets) + ByteSize[ImageOf[u]] <= MaxBytes

Stored(image) == \E a \in assets : ImageOf[a] = image

\* The lock, the brief's status and the quota.
CheckUpload(u) ==
  /\ uploads[u] = "new" /\ LockFree
  /\ IF ~archived /\ (Stored(ImageOf[u]) \/ RoomLeft(u))
     THEN lock' = u /\ uploads' = [uploads EXCEPT ![u] = "checked"]
     ELSE uploads' = [uploads EXCEPT ![u] = "over"] /\ UNCHANGED lock
  /\ UNCHANGED <<archived, assets, campaigns, edits, deletions>>

\* The insert, which a stored image makes an update of nothing, and the commit; or
\* neither.
CommitUpload(u) ==
  /\ uploads[u] = "checked"
  /\ assets' \in {assets, IF Stored(ImageOf[u]) THEN assets ELSE assets \cup {u}}
  /\ lock' = Null
  /\ uploads' = [uploads EXCEPT ![u] = "over"]
  /\ UNCHANGED <<archived, campaigns, edits, deletions>>

-----------------------------------------------------------------------------
(* DeleteAsset. *)

LockForDeletion(x) ==
  /\ deletions[x].at = "new" /\ LockFree
  /\ \E a \in Upload : deletions' = [deletions EXCEPT ![x] = [at |-> "locked", of |-> a]]
  /\ lock' = x
  /\ UNCHANGED <<archived, assets, campaigns, uploads, edits>>

\* A live campaign that is pending, has no snapshot, or names the asset.
Needs(d, a) ==
  /\ row[d].status \in {"pending", "settled"}
  /\ row[d].status = "pending" \/ row[d].asset \in {Null, a}

MayDelete(a) == ~archived /\ a \in assets /\ \A d \in Dispatch : ~Needs(d, a)

\* deleteCreativeAssetQuery, in one snapshot taken after the lock.
Decide(x) ==
  /\ deletions[x].at = "locked"
  /\ IF MayDelete(deletions[x].of)
     THEN deletions' = [deletions EXCEPT ![x].at = "deleting"] /\ UNCHANGED lock
     ELSE deletions' = [deletions EXCEPT ![x].at = "over"] /\ lock' = Null
  /\ UNCHANGED <<archived, assets, campaigns, uploads, edits>>

CommitDeletion(x) ==
  /\ deletions[x].at = "deleting"
  /\ assets' \in {assets, assets \ {deletions[x].of}}
  /\ deletions' = [deletions EXCEPT ![x].at = "over"]
  /\ lock' = Null
  /\ UNCHANGED <<archived, campaigns, uploads, edits>>

-----------------------------------------------------------------------------
(* A dispatch. *)

Goto(d, l) == pc' = [pc EXCEPT ![d] = l]

\* The insert shares the brief's row until it commits, so it waits for the lock.
Claim(d) ==
  /\ pc[d] = "new" /\ LockFree
  /\ row' = [row EXCEPT ![d] = [status |-> "pending", asset |-> Null, version |-> 1]]
  /\ \E a \in Upload \cup {NoAsset} : uses' = [uses EXCEPT ![d] = a]
  /\ Goto(d, "claimed")
  /\ UNCHANGED <<archived, lock, assets, cleared, uploads, edits, deletions>>

\* GetAsset, or GetAssetSize, before the first call to the platform.
Resolve(d) ==
  /\ pc[d] = "claimed"
  /\ Goto(d, IF uses[d] = NoAsset \/ (uses[d] \in assets /\ ~archived) THEN "creating" ELSE "releasing")
  /\ UNCHANGED <<archived, lock, assets, row, uses, cleared, uploads, edits, deletions>>

Without(d) == [row EXCEPT ![d] = [status |-> "none", asset |-> Null, version |-> @.version]]

\* DeleteDispatchClaim.
ReleaseClaim(d) ==
  /\ pc[d] = "releasing"
  /\ row' = IF row[d].status = "pending" THEN Without(d) ELSE row
  /\ Goto(d, "over")
  /\ UNCHANGED <<archived, lock, assets, uses, cleared, uploads, edits, deletions>>

\* UpsertCampaign finalizes the claim, which touches the campaign's row alone, or,
\* with the claim gone, inserts a row.
Record(d) ==
  /\ pc[d] = "creating"
  /\ row[d].status = "none" => LockFree
  /\ row' = [row EXCEPT ![d] = [status |-> "settled", asset |-> uses[d], version |-> @.version + 1]]
  /\ Goto(d, "over")
  /\ UNCHANGED <<archived, lock, assets, uses, cleared, uploads, edits, deletions>>

\* A crash, or an outcome nobody knows: the claim stays pending.
Stop(d) ==
  /\ pc[d] \in {"claimed", "creating", "releasing"}
  /\ Goto(d, "over")
  /\ UNCHANGED <<archived, lock, assets, row, uses, cleared, uploads, edits, deletions>>

\* ClearDispatchClaim.
ClearClaim(d) ==
  /\ row[d].status = "pending"
  /\ row' = Without(d)
  /\ cleared' = cleared \cup {d}
  /\ UNCHANGED <<archived, lock, assets, pc, uses, uploads, edits, deletions>>

DeleteCampaign(d) ==
  /\ row[d].status = "settled"
  /\ row' = [row EXCEPT ![d].status = "deleted"]
  /\ UNCHANGED <<archived, lock, assets, pc, uses, cleared, uploads, edits, deletions>>

-----------------------------------------------------------------------------
(* UpdateCampaign, and ReplaceCampaign for every other writer of the row. *)

\* The config of a pending campaign may not be replaced; what is loaded goes back.
Load(e) ==
  /\ edits[e] = NoEdit
  /\ \E d \in Dispatch :
       /\ row[d].status \in {"pending", "settled"}
       /\ \E a \in {row[d].asset} \cup (IF row[d].status = "pending" THEN {} ELSE Upload \cup {NoAsset}) :
            edits' = [edits EXCEPT ![e] = [of |-> d, version |-> row[d].version, asset |-> a]]
  /\ UNCHANGED <<archived, lock, assets, campaigns, uploads, deletions>>

\* Mutant: only the service checks what an edit names.
MutNewAssetsExist(e) == TRUE

\* checkNewSnapshotAssetRefs, against what is stored and under the lock.
NewAssetsExist(e) ==
  edits[e].asset \in assets \cup {Null, NoAsset, row[edits[e].of].asset}

\* One transaction under the brief's lock, gated on the version at its end.
Replace(e) ==
  LET d == edits[e].of IN
  /\ d # Null /\ LockFree
  /\ row[d].status \in {"pending", "settled"} /\ row[d].version = edits[e].version
  /\ NewAssetsExist(e)
  /\ row' = [row EXCEPT ![d].asset = edits[e].asset, ![d].version = @ + 1]
  /\ edits' = [edits EXCEPT ![e].version = 0]
  /\ UNCHANGED <<archived, lock, assets, pc, uses, cleared, uploads, deletions>>

-----------------------------------------------------------------------------
\* ArchiveBrief updates the brief's row.
Archive ==
  /\ ~archived /\ LockFree
  /\ archived' = TRUE
  /\ UNCHANGED <<lock, assets, campaigns, uploads, edits, deletions>>

\* PruneArchivedBriefAssets, after the retention: no lock of the brief, no check.
Prune(a) ==
  /\ archived /\ a \in assets
  /\ assets' = assets \ {a}
  /\ UNCHANGED <<archived, lock, campaigns, uploads, edits, deletions>>

Next ==
  \/ \E u \in Upload : CheckUpload(u) \/ CommitUpload(u) \/ Prune(u)
  \/ \E x \in Deletion : LockForDeletion(x) \/ Decide(x) \/ CommitDeletion(x)
  \/ \E d \in Dispatch :
       \/ Claim(d) \/ Resolve(d) \/ ReleaseClaim(d) \/ Record(d) \/ Stop(d)
       \/ ClearClaim(d) \/ DeleteCampaign(d)
  \/ \E e \in Edit : Load(e) \/ Replace(e)
  \/ Archive

Spec == Init /\ [][Next]_vars

-----------------------------------------------------------------------------
(* Properties. *)

\* Whatever a live campaign names, or a dispatch at work has been given, is stored as
\* long as the brief lives, however deletions, claims, results and edits interleave;
\* except for a dispatch whose claim an operator cleared under it.
AssetsInUseAreStored ==
  /\ TypeOK
  /\ ~archived => \A d \in Dispatch \ cleared :
       /\ row[d].status = "settled" => row[d].asset \in assets \cup {NoAsset}
       /\ pc[d] = "creating" => uses[d] \in assets \cup {NoAsset}

\* An asset is stored under a live brief only, and within its quota of assets and of
\* bytes, whatever is uploaded and archived at once.
UploadsStayWithinTheBrief ==
  [][assets' \ assets # {} =>
       /\ ~archived
       /\ Cardinality(assets') <= MaxAssets /\ BytesUsed(assets') <= MaxBytes]_assets
=============================================================================
