# LFX campaign service: verification

TLA+ models of the campaign service's stateful core, the TLC runs that check
them on small instances, and TLAPS proofs of what they promise for any number
of jobs, requests and replicas. Sources are quoted as paths under `src/`.

Contents: [the system](#the-system) · [what is hard](#what-is-hard) ·
[modules](#modules) · [runs](#runs) · [fairness](#fairness) ·
[proofs](#proofs) · [what the models found](#what-the-models-found) ·
[assumptions](#assumptions-about-the-environment) · [not modelled](#not-modelled) ·
[plan](#plan).

## The system

The service runs as several replicas over one Postgres database. It keeps the
briefs of marketing campaigns, dispatches an approved brief to ad platforms
(paid campaigns), changes those campaigns afterwards, and publishes every brief
and campaign to a search index through NATS. There is no coordinator: replicas
meet in rows, unique indexes, advisory locks and compare-and-swaps.

| Component | State | Operations | What makes it correct |
| --- | --- | --- | --- |
| Orchestrator (`internal/service/orchestrator.go`) | a semaphore of dispatch slots, the runs in flight, draining flag | start a job, run its platforms, aggregate, sweep, shut down; per platform: look up, claim, create, record | a paid campaign is created once and never forgotten; a job ends with one verdict |
| Campaign repository (`infrastructure/postgres/campaign_repo.go`) | `campaigns` rows by slot and version; per-slot and per-campaign advisory locks | claim, release, upsert, adopt, delete, clear; claim of a version, release at once or after a cooldown, replace | a row is changed by its owner alone; no change of a row is lost; locks come back |
| Jobs (`job_repo.go`) | `campaign_jobs` rows | create for an approved brief, set status, fail stuck ones, prune | a live run is not failed, a dead one is; verdicts are final |
| Index outbox and relay (`outbox_repo.go`, `infrastructure/indexer`) | `index_outbox` rows with leases and attempts | co-commit a row, claim a batch, publish, settle, prune | the index shows the writes of an object in their order, and catches up |
| Upload budget (`internal/membudget`, `middleware/upload_admission.go`, decoders) | bytes charged, two queues | acquire, grant, give up, release | no byte leaked, no lost wake-up, no hold-and-wait |
| Brief service and repository (`service/brief.go`, `brief_repo.go`) | `campaign_briefs` rows with status and version | create, replace, approve, archive; toggle, edit and delete campaigns | a dispatch uses the approved version; a persisted run status is the platform's |
| Budget, bid, keyword, ad-set actions (`brief_budget.go`, ...) | as the toggle's | claim the version, call the platform, verify, release | as the toggle's |
| Stats-job lease (`stats_job_lease.go`) | one session, the keys it holds, a one-slot semaphore | own, recover a failed lock, close | one replica per account; no admission after close |
| Keyword targeting lock (`keyword_targeting_lock.go`) | a pooled session per hold | poll until a deadline, release, release after a cooldown | as the campaign lock |
| Reddit report ledger (`reddit_report_ledger.go`) | rows per attempt in a window | take a slot, release it | no window is given more slots than its limits |
| Credential and client caches (`internal/dispatch/creds.go`, `credcache.go`) | decrypted credentials and clients by connection, id and version | resolve, get, put, evict, coalesced build | never a credential of another row; none made twice; no system account for a project that left |
| Audience builder (`service/audience_build.go`, `audience_repo.go`) | `campaign_audiences` rows, one building per brief | claim, reconcile, plan, confirm, create lists, record; an operator's edit | lists are of the approved content, are not made twice, and no claim is left behind |
| Creative assets (`creative_asset_repo.go`, `campaign_snapshot_assets.go`) | images of a brief, their names in campaigns' snapshots | store within a quota, delete, prune; claim, record and edit of campaigns | no campaign loses an image it names; the quota holds |
| Server, container, middleware | in-flight count, phases of shutdown | serve, drain, close the pool | no use of the pool after it is closed |
| Reports, email wizard, connections' accounts | rows with versions and statuses | mostly single compare-and-swaps around external calls | each row's transitions |
| Dispatchers and platform clients | none shared | HTTP calls | outcome classification |

How they interact. A request for a dispatch creates a job (jobs, brief row
lock), whose run takes slots and, for each platform, works on the campaign's
slot (campaign repository) around the dispatcher's paid call. A toggle, edit or
delete works on the rows that dispatches made, under another lock. Each write
of a brief or a campaign co-commits an outbox row, which any replica's relay
publishes. Shutdown drains the handlers, then the runs, then closes the pool.
Uploads share a budget before anything else runs.

## What is hard

* **Interleavings between statements.** Lookup, claim, read-back, create and
  record of a dispatch are separate statements and calls; adoptions, deletions,
  an operator's clear and other dispatches run in between.
* **Unknown outcomes.** A create, a toggle or a publish whose answer is lost may
  have happened, may still happen, or never will. What is kept and what is
  released afterwards decides whether a retry pays twice.
* **Locks that die with their session**, and locks kept on purpose over a
  cooldown, on pooled connections.
* **Leases and age limits**: a lease that expires while its owner works, a sweep
  that goes by a row's age alone.
* **Crashes and shutdowns** between any two steps; nothing is resumed, all
  recovery is by rows left behind.
* **Queues and limits**: slots, budget, batches, back-off, starvation.

`PROJECT.json` lists each hazard at the line where it bites, with the
properties that would catch it, or the reason there is none yet.

## Modules

| Module | Models | Composes |
| --- | --- | --- |
| `CampaignSlot` | one slot: rows, claims, paid creates, results, adoption, deletion, clear | |
| `CampaignSlotProofs` | proofs about it | `CampaignSlot` |
| `DispatchJob` | job rows, runs and slots in each replica, sweepers, shutdown, time | |
| `DispatchJobProofs` | proofs about it | `DispatchJob` |
| `CampaignVersionLock` | toggles, edits, deletes and the finalizing dispatch on one row, with the advisory lock and the pool | |
| `CampaignVersionLockProofs` | proofs about it | `CampaignVersionLock` |
| `SearchIndex` | abstract: documents show committed writes in their order, and late repeats | |
| `IndexOutbox` | outbox rows, leases, relays, connections, the indexer | `SearchIndex` (refinement) |
| `IndexOutboxProofs` | proofs about it, and of the refinement | `IndexOutbox`, `SearchIndex` |
| `UploadBudget` | the two-stage memory budget and its uploads | |
| `BriefApproval` | a brief's edits, approvals and archival, the dispatches requested of it | |
| `AudienceBuild` | builds of the brief's audience: claims, lists, records, an operator | `BriefApproval` |
| `AudienceBuildProofs` | proofs about both | `AudienceBuild` |
| `StatsJobLease` | sessions, advisory locks and the slot of each pod; `Own` and `Close` | |
| `StatsJobLeaseProofs` | proofs about it | `StatsJobLease` |
| `ClientCache` | connections, the two caches and their flights | |
| `ClientCacheProofs` | proofs about it | `ClientCache` |
| `BriefAssets` | a brief's images, the campaigns and dispatches that name them | |
| `UploadProofs` | proofs about `BriefAssets` and `UploadBudget` | `BriefAssets`, `UploadBudget` |
| `MC...` | the sets that give the constants their values | each its module |

### CampaignSlot and the code

`live` is the set of non-deleted rows of one `(brief, platform, variant)`,
`buried` what the soft-deleted ones still record. `upstream[j]` is the version
job `j` paid a campaign for and `asked` holds jobs whose create call is under
way or may still take effect; both stand for the ad platform. `pc`, `req`,
`ver`, `ret`, `res` are the locals of `dispatchPlatform`. The steps are the
statements of `dispatchPlatform`: lookup (reuse, target, new version), claim,
its read-back, release, the call and its kinds of return, the upsert. A
transaction is one action because it takes the slot's advisory lock; the
claim's read-back is an action of its own because it runs after the commit.
Every statement also has a failing form, which may have committed.
`DeleteCampaign`, `AdoptCampaign` and `ClearDispatchClaim` are the slot's other
writers.

### DispatchJob and the code

`status` and `age` are the job's row; `home`, `pc`, `disp`, `timer` the run and
its platform goroutines; `sem`, `wg`, `phase` the process. `Accept` is the part
of `StartWithOptions` under the mutex, `CreateJob` the insert after it.
`LeaveQueue` and `Return` are the ways out of a goroutine; `Finalize` the
terminal write, which may fail. `Sweep` and `PruneTerminalJobs` run in every
live process, `Boot` sweeps once. Time is counted in ticks: `Tick` is disabled
while a timeout is due, which is what the contexts' deadlines give.

### CampaignVersionLock and the code

`row` has the version, the status and the author of the last edit; `platform`
is the run status upstream, `wire` the calls that may still be applied. `holder`
is the session with the advisory lock, `conn` the session each request keeps,
`lost` the requests whose session is dead. `Load` is the read and the checks at
the start of `ToggleCampaignStatus`, `UpdateCampaign` and `DeleteCampaign`;
`Claim` is `ClaimCampaignVersion`; `Persist` is `ReplaceCampaign`, which runs on
the kept session; `Delete` is the whole transaction; `DispatchFinalizes` is the
upsert of the dispatch, which takes no such lock. `cooling` is
`ReleaseCampaignLockAfterCooldown`.

### IndexOutbox and the code

An outbox row's id orders the writes. `Claim` is the claiming query of
`DrainPendingIndexMessages` with its predecessor and back-off conditions,
`ClaimUnacknowledged` its commit without an answer. `Send`, `GiveUp` and
`Answer` are the request on a pod's connection; `wire` is that connection, in
order. A request that timed out stays in the connection, as the NATS client's
reconnect buffer keeps it, and may be delivered or lost at any later time:
`Awaited` is the one message whose answer a pass waits for. `shown` records, for
the properties alone, every write a document has shown. `Retire`, `RecordFailure` and
`SettleFails` settle a row under its lease guard; `EndPass` ends a pass and
prunes. `Accept`, `Refuse`, `LoseMessage` and `LoseAnswer` are the broker and
the indexer, which overwrites a document without comparing versions.

### UploadBudget and the code

`used`, `first`, `second` are the fields of the budget, `ready` the waiters
whose channel was closed by a grant and who have not run yet, `step` how far each
upload's handler is. A method under the
mutex is one action; `Wake`, `GiveBack` and `GiveUp` are the arms of the
`select`, so a grant can race with a cancellation or the timer. `AcquireWire`
and `RefuseWire` belong to the admission middleware, `AcquirePixels` and
`Decode` to the upload handler that holds the wire charge meanwhile. The loops of
`grantLocked` admit the longest head of a queue that fits (`Fits`), and `Bytes` and
`Size` are what a set of uploads asks for.

### BriefApproval, AudienceBuild and the code

`brief` is the row: its version, status and content, a content being named by
the version of the edit that wrote it. `review` and `order` are what the approver
and the request for a dispatch have read and act on later; `signedOff` and
`dispatched` are histories. `ReplaceBrief`, `Approve` and `ArchiveBrief` are the
three guarded updates, `CreateJob` is `CreateJobForApprovedBrief`, with the
status and version it checks under the brief's lock. `AudienceBuild` extends this
module, so that its builds run beside all of it. `row[b]` is the audience's row,
`lockedBy` the brief's row lock held by a commit whose end nobody knows.
`Claim` is the claiming transaction, `ClaimUnacknowledged` and `CommitEnds` the
two halves of one with a lost answer, `Reconcile` the look for it afterwards.
`Plan` is everything between the claim and the confirmation, `Confirm` is
`ConfirmBriefApproved`, the last statement before the first list. `CreateList`,
`AllListsCreated` and `ListFails` are `createPlanLists`, `Record` the update of
the row, gated on its version, and `EditRow` an operator's PATCH. A crash or a
failed statement (`Fault`) ends a build where it is; such builds are in
`faulted`, rows whose status an operator changed in `handled`, and both are
excused where a property says so: the code leaves them to the operator. An edit
of other fields between claim and record makes the record miss its version, and
the row stays building until the operator sets it; that is inside
`NoBlindRebuild`, which then still keeps others out.

### StatsJobLease and the code

`conn`, `heldKeys`, `slot` and `closed` are the lease's fields, `pc`, `key` and
`verdict` the locals of a call of `Own`. `locks` and `alive` are the server's
side. Each action is the code between two database calls or two readings of
`closed`; wherever the code asks for the request's context, the call may also
leave. `Recover` is `recoverFailedLock`, `Leave` and `ReleaseSlot` the two
statements of `releaseSlot`, whose one reading of `closed` decides both the
session and the verdict. When a session is abandoned the server may drop its
locks at once or later: in between they belong to `Ghost`.

### ClientCache and the code

`conn` is the live row of each project's connection, and of the system's; `left`
the scopes with a deleted row. `Get`, `AskDisconnected` and `GetSystem` are the
three statements of `resolveWithFallback` and `systemConn`, in their order: connections
come and go between them. `connectedBefore` remembers of a call that its project was
connected, or had left, when the first of them ran. The two caches have
one shape and are one set of actions with a `layer`: `Lookup` is `get` (which
drops an entry of another row), `JoinFlight` the singleflight group, `LookAgain`
the second look inside the flight, `Make` the decrypt or build and its `put`.
The scope and row in a key are as the code has them; for a client they are those
of the credential the call got (`cacheIdentity`).

### BriefAssets and the code

`assets` are the stored images, each named by the upload that stored it (an
image stored twice is one asset). `RoomLeft` is the quota's two limits, of images
and of bytes; a sum of sizes is the number of the bytes (`BytesUsed`), as in
`UploadBudget`. `lock` is the brief's row lock: `CreateAsset`
and `DeleteAsset` keep it from their check to their commit and so take two
actions, the others take it for one. Inserting a campaign's row needs a share
of it, for the foreign key, so `Claim` waits for it; finalizing a claim touches
the campaign's row alone and does not. `row[d]` is the campaign that dispatch
`d` makes, with the image in its snapshot, `Null` until the dispatch is
recorded. `Decide` is the deletion's query, with its reasons to refuse, `Load`
and `Replace` an edit with `checkNewSnapshotAssetRefs`, `Prune` the retention's
sweep of archived briefs.

## Runs

| Run | Bounds | Distinct states | Shows |
| --- | --- | --- | --- |
| `slot_two_jobs` | 2 jobs, 2 foreign campaigns (one bound elsewhere), versions 1-3, 2 deletions, 1 clear | 801,483 | no double create, every paid campaign tracked, rows belong to their jobs, a double submit creates one |
| `slot_retry_adds` | 2 jobs, 1 foreign campaign | violation | a plain retry can add a campaign |
| `upload_budget` | 3 uploads of wire size 1 or 3 and pixel size 1 or 2, total 5, reserve 2 | 114,760 | charges add up, no waiter is overlooked, the pixel stage drains |
| `outbox_two_pods` | 2 objects, 2 pods (symmetric), batch 2, 3 writes, 2 messages kept, 1 crash | 1,517,708 | one awaited request per object, writes shown in turn and none passed over, only late requests go back, refinement of `SearchIndex` |
| `outbox_delivers` | 2 objects, one always refused; 1 pod, batch 1, 2 writes, 1 message kept, 1 crash | 1,484 | every accepted write is indexed |
| `outbox_late_replay` | 1 object, 2 pods, 1 message kept | violation | the index can go back |
| `dispatch` | 2 jobs of 1 platform, 2 replicas, 1 slot each, 1 exit; queue 2, call 1, cutoff 3 ticks | 579,634 | live runs are spared, slots are held by calls, a clean shutdown strands no run, verdicts are final, every job ends |
| `toggle_writers` | 2 requests, 2 connections, 2 losses | 48,598 | claims stand, no change lost, no lock kept, and without losses the persisted status is real |
| `audience_build` | 2 builds, brief versions 1-4, 1 operator's edit, 1 fault | 959,923 | jobs and lists are of approved content, no claim is left, lists are not made twice |
| `stats_lease` | 3 calls on 2 pods, 2 accounts, 1 dying session, 1 close | 412,042 | locks and memory agree, ownership is the server's word, a closed lease is given up |
| `client_cache` | 3 calls, 2 of one project and 1 of another, and the system's connection; 2 writes, 1 expiry | 3,359,598 | no entry of another row is used, none is made twice, only who never connected is served by the system's |
| `brief_assets` | 5 uploads of 4 images, sizes 1, 1, 1 and 3; quota 2 images and 3 bytes; 1 dispatch, 2 edits, 1 deletion | 1,685,468 | images in use are stored, the quota holds |

Why the bounds are enough. On a slot, a conflict is between two jobs and a third
writer, which the adoption, deletion and clear are; three versions let a version
be complete, another claimed and a third freed, and two deletions let a version
be reused and freed again. Two pods are needed for a lease to pass from one to
another, three writes for an object with a predecessor and a successor beside a
second object, and a batch of one is the smallest that a refused row can fill.
One slot and two jobs make a platform wait for another's, and the cutoff is
the least that the assumption on the timeouts admits, so one tick more of waiting
or calling would be seen; with one platform a job is never partly successful,
which changes the name of a verdict and nothing else. Three uploads fill both queues behind a decode, with
sizes that do and do not fit beside each other. Two requests and two connections
are enough for one to hold the lock while the other tries it; two losses let
each lose its session once. Two builds contend
for the one lease of a brief, and four versions let it be approved, edited and
approved again between a claim and its confirmation. Two calls on one pod queue
for its slot while a third on another pod takes a lock that a dead session let
go, and two accounts show what a failure on one does to the other. Two calls
of one project share flights and entries; two writes are a deletion and a new
connection at the same version, or two rotations; the second project shares the
system's entry. One deletion and two edits of one campaign's row meet its
dispatch at every stage (campaigns share the images and nothing else, so a second
dispatch adds only reasons to refuse a deletion). Three small images are one too
many while their bytes would fit, a small and a large one have too many bytes while
two images would fit, and one image is uploaded twice, which the quota exempts. The
proofs remove these bounds for the properties they cover.

Deadlock is not checked where requests are finite (each job, upload or write
happens once), so the system may rightly stop.

Each property of a passing run comes with a mutant of the model (an operator
`Mut...` beside the one it replaces) that violates it.

## Fairness

* `UploadBudget`: a decode returns and a granted waiter wakes. Nothing of
  timers or callers: the pixel stage drains by the decodes alone.
* `DispatchJob`: time passes; each step of a run is taken (every wait is on a
  timeout); replicas are restarted by the deployment and sweep on a ticker; a
  shutdown ends by its deadlines. A crash, a failed write and which replica
  takes a job are left open.
* `IndexOutbox` (`FairSpec`, used by `outbox_delivers`): the relay's ticker runs,
  leases and back-offs elapse (weak). Outages end: a row claimed again and again
  is at last sent, answered while its pass waits, and settled in time (strong), and
  the connection, which reconnects for ever, is back during some pass that has the
  row to send, so that earlier messages leave it (strong; it matters because a
  run's connection holds few messages). The back-off of a row that keeps failing
  grows to an hour, so it outlasts passes.
* `CampaignVersionLock`: each handler step, since every statement and call has a
  deadline, and the platform applies or drops a call in the end, which is what
  the cooldown waits for.

* `StatsJobLease`: each step of a call, since every database step has a timeout,
  and of `Close`, whose wait has a deadline. Sessions need not die, nor locks of
  abandoned sessions be dropped.

The other modules state only safety and assume no fairness.

## Proofs

All proofs are for arbitrary constants under the `ASSUME`s of the modules
(finite sets, a null value outside the others, disjoint kinds of actors, and for
the jobs that the two timeouts of a run fit into the sweeper's cutoff). Every
safety invariant, action property and refinement that a run checks is proved; only
liveness is not. In each module an inductive invariant was
first checked by TLC on the run's instance; then come its initial case, one
lemma per action or kind of action, and the theorems, as consequences of the
invariant or of one step under it.

**CampaignSlotProofs.** `TypeCorrect` (with it: an unfinished campaign never keeps
a running status), `AtMostOnePaidCampaign` (`NoDoubleCreate`),
`RowsBelongToTheirJobs`, `OnlyAClaimAddsAVersion`. `NoDoubleCreate` alone is not
inductive: it speaks of the platform and says nothing of the row that keeps a
second job away. `SlotInv` adds that: a job that may have created something
(`asked` or `upstream`) holds the row of its version unless the version was
freed; rows belong to jobs past their claim and there is one per version;
nothing is asked before the claim was read back as the job's own. Two jobs that
paid for one version would hold the same row.

The same invariant with three more groups (`TrackInv`) gives
`PaidCampaignsAreTracked` (`EveryCampaignTracked`), `DoubleSubmitPaysOnce`
(`DoubleSubmitCreatesOne`) and `NewVersionsAreNew`
(`NewVersionNeverRevivesADeleted`). `Keeping`: a job's row is pending until its
result is recorded, so only a clear can take it before; a complete row of a job
that created something names that campaign, so a deletion buries its name; hence
a job that created something has its row, or is buried under its own name, or
was cleared. `Naming`: while nothing is cleared, nobody names the campaign of a
job still running, since whoever could have resolved to it would hold the same
version's row. `Building`: until an operator frees a version, every version
above the first stands on a complete campaign, and so a new_version request
claims the version after the one its caller saw.

**DispatchJobProofs.** `LiveRunsAreSpared` (`SweeperSparesLiveRuns`),
`SlotsAreTheCalls` (`SlotsAreHeldByCalls`), `CleanDrainIsClean`
(`CleanShutdownStrandsNoRun`), `VerdictsStand` (`VerdictIsFinal`). `Timers` is the
heart: a row is no older than the timer of each dispatch its run still waits for,
and no older than the queue timeout plus the timer of each call, so while a run is
alive its row is younger than the cutoff. `Runs` ties each run to its row and to
its process's wait group, `Held` the semaphore to a cardinality of calls.

**IndexOutboxProofs.** No theorem limits what the connections keep or when they
deliver it. `OneRequestAtATime` (`OneRequestPerObject`): a claimed row stays leased
to its pass and the oldest pending one of its object (`InHand`, `Current`).
`NothingIsForgotten` (`ShownInTurn`), `OnlyLateOnesGoBack` (`OnlyLateRequestsGoBack`)
and `OutboxImplementsSearchIndex` (`ImplementsSearchIndex`) add `Delivery`: whatever
is on a wire, late or not, is of a row that has been shown or of the oldest pending
one of its object (`Carried`), so its delivery repeats something or shows the next
write; what answers a pass is its own request (`Own`); what is retired has been
shown. That the index never goes back cannot be proved, as finding 2 shows, and is
not claimed: the theorems bound what a late request can do. The refinement is
proved step by step: every step is a write, shows a write in its turn, shows one
again, or stutters.

**StatsJobLeaseProofs.** `MemoryIsTheServers` (`LeaseMatchesLocks`),
`OwnersKeepTheirSession` (`OwnersSessionIsOpen`), `ServerConfirms`
(`OwnershipIsConfirmed`). The invariant: the slot's holder alone touches the
session (`Slots`), what the stage of a call tells of its session (`Sessions`), what
is remembered of a live session it has (`Memory`), and a lock that is not
remembered is one the slot's holder is about to undo (`Orphans`).

**ClientCacheProofs.** `OnlyTheRowReadIsUsed` (`MadeFromTheRowRead`),
`LeaversStayOut` (`LeaversGetNoSystemClient`), `OneMaking` (`NothingIsMadeTwice`).
The invariant: who waits for a flight has a leader at work on the same row
(`Flights`), what a call has is of the row it read (`Made`), and what is being made
is not in the cache (`Fresh`), which is why the second look inside a flight is
needed; and a call that found no row, of a project that had ever connected, will find
its tombstone, which stays (`Leavers`).

**UploadProofs** speaks of the two modules an upload goes through. Of `BriefAssets`:
`InUseIsStored` (`AssetsInUseAreStored`) and `QuotaIsKept`
(`UploadsStayWithinTheBrief`). The invariant: what an upload or a deletion checked
under the brief's lock is true until it commits (`Checked`, `Deciding`), though
dispatches finalize their rows without that lock; and an edit, which takes the lock
but names its image from an earlier reading, cannot give a snapshot to a row that has
none, nor take one away, while its version is still the row's (`Edits`). One more
image adds its own bytes to those used (`OneMoreAsset`).

Of `UploadBudget`, whose definitions have names of their own where both modules
have one (`BudgetInit`, `BudgetNext`, `step` where an upload is, `Request` for the
uploads): `BudgetIsKept` (`ChargesAddUp`), `NobodyIsOverlooked`
(`NoWaiterOverlooked`) and `PixelsWaitOnDecodes` (`PixelsWaitOnlyOnDecodes`), under
the module's assumption on its constants. A sum of charges is written as the number
of bytes asked for, `Size`, so that the theorems on finite sets give how it grows and
shrinks by one upload; as a fold it would need an induction over sets that the
prover cannot instantiate, and the run checks on its instance that both are the
same (`SizeIsTheSum`). `BudgetInv` adds to the three properties that a queue holds
each upload that waits and was not granted, once and nobody else (`Queued`), and that
the wire charges alone leave the reserve free (`Charged`): without the second, waiters
for pixels could be kept out by wire charges. `GrantStep` says what one call of
`grantLocked` does, whoever calls it: it admits the longest fitting head of each
queue, and the next head does not fit. That there is a longest one is the well-foundedness
of the naturals (`LeastNatural`).

**CampaignVersionLockProofs.** `TypeCorrectness`, `ClaimsStand`
(`ClaimedVersionStands`), `PooledSessionsAreClean` (`IdleSessionsHoldNoLock`),
`WritesAreSerial` (`OneChangePerVersion`), `StatusIsReal`
(`ConfirmedStatusIsReal`). `LockInv` has two parts. `Sessions`: a session serves
one request, one that lives holds the lock, and a held lock is a checked-out
session's. `Rows`: a version identifies its row, a toggle never meets a pending
row, and the version of a toggle whose session lives is the row's. The lemma
`GrantedMeansFree` (the lock goes to an idle session only when every session
checked out is dead) carries a claim past every other writer. `StatusIsReal`
needs more: while nothing is lost, a call that was not answered is still waited
for, and what was confirmed is what the platform has (`CallsAreSettled`).

**AudienceBuildProofs.** `JobsAreSignedOff` (`JobsUseSignedOffContent`),
`NoClaimIsLeft` (`NoClaimLeftBehind`), `ListsFollowTheApproval`
(`ListsAreOfTheApprovedContent`), `ListsAreNotMadeTwice` (`NoBlindRebuild`). The
invariant `Inv` says that a reading of the brief at its present version is the
brief (`Approvals`), that a plan made at the claimed version is of its content
(`Plans`), that one row at most is building, and none while a claim's commit is
unknown (`Leases`), that a row at version 1 is as its claim wrote it (`Rows`),
what a stage of a build tells of its outcome and lists (`Outcomes`), and that
until an operator takes a row in hand it is building while its build may come
to lists, or has unrecorded ones (`Kept`). `NoBlindRebuild` is then two rows
that both are building. TLC checked `Inv` first, on the run's instance.

**Only model-checked.** Liveness (`EveryLockIsReleased`, `EveryJobSettles`,
`EveryWriteIsIndexed`, `AdmittedUploadsDrain`, `ClosedLeaseIsGivenUp`): temporal
reasoning about enabledness is beyond the prover.

## What the models found

Each is a run that TLC finds violated, with the sentence it contradicts in
`PROJECT.json`.

1. `slot_retry_adds`: a create without `new_version` targets the version it saw
   unfinished. If that was another request's new version beside a complete
   campaign, and its claim is released meanwhile, the retry inserts the version
   afresh and pays for a second campaign.
2. `outbox_late_replay`: a publish given up during a disconnect is kept by the
   connection and delivered after another pod published the row and its
   successor; the index goes back, and no row is left to repair it.

Other limits show in how a property is stated. `DoubleSubmitCreatesOne` speaks
of a caller whose expectation was current. `ConfirmedStatusIsReal` speaks of
histories without a lost session: when a session dies during a toggle's call, a
second toggle may claim the same version, and the two calls be applied in either
order. `OneChangePerVersion` speaks of versions: the dispatch's upsert does bump
it, but writes the name over one that was edited while the campaign was pending.
`ClosedLeaseIsGivenUp` leaves out a call past its last reading of `closed` when
`Close` gives up: its session stays until the process ends.
`AssetsInUseAreStored` leaves out dispatches whose claim an operator cleared
under them: the upsert's insert may then name an image that was deleted
meanwhile; and briefs that are archived, whose images are pruned by age alone.

## Assumptions about the environment

* A platform either applies a call or never will by the time the cooldown ends
  (30 s in the code), and a create call takes effect at most once.
* A lease outlasts the pass that took it, so a pod never awaits a request under
  an expired lease; a settlement may still come late. Nothing is assumed of when a
  connection delivers what it keeps.
* Status writes of jobs take no time against the timeouts (the write that marks
  a job running, `orchestrator.go:1484`, has no deadline of its own).
* The attempts to reconcile an audience's claim outlast a commit in progress.
* In `CampaignVersionLock` the end of a session and the release of its locks are
  one step; in `StatsJobLease` the release may come later.
* A connection's row is read and written by single statements; one decrypt or
  build is one step that may fail.
* Each dispatch of `BriefAssets` has a campaign slot of its own; two dispatches
  of one slot are `CampaignSlot`'s subject.
* The write order of two outbox rows of one object is their id order, since the
  row's own lock serializes the writers.
* `MaxVersion`, `MaxDeleted`, `MaxCleared`, `MaxWrites`, `MaxBuffer`,
  `MaxCrashes`, `MaxExits` and `MaxLosses` bound the runs; they stand in guards.

## Not modelled

Platform dispatchers and clients, authentication, crypto, configuration,
metrics, text generation, generated code and command-line tools: sequential
code or external interfaces, whose answers the models leave open. Reports and
the email wizard: single compare-and-swaps around external calls, after the plan
below. The code generated from the API's design is nearly all of the
repository's lines and holds no state. Of the modelled components these parts are
left out: the refresh of tokens inside the platforms' clients and the
forced-system and existing-campaign resolvers (caches), audiences entered by
hand and the plan's queries (audiences), listings and signed reads (assets),
creation of briefs, deadlocks of the database's own locks, which it breaks by
failing a statement. In the modelled
parts, payloads, names, budgets and configuration are abstracted to what the
properties tell apart, and several campaigns are modelled one at a time, since
no lock or row spans two. `PROJECT.json` has the reason for each component.

## Plan

In this order, the most consequential behaviour first:

1. Done: `CampaignSlot` (paid creates), `DispatchJob`, `CampaignVersionLock`,
   `IndexOutbox` over `SearchIndex`, `UploadBudget`, `BriefApproval` with
   `AudienceBuild`, `StatsJobLease`, `ClientCache`, `BriefAssets`, and eight proof
   modules, which cover every safety property that a run checks.
2. `RedditReportLedger` and `KeywordLock`: the shared window count, and the polled
   lock with its cooldown; `InflightShutdown`: handlers, the bounded wait and the
   pool. What the ledger can keep is a property of the slots' own stamps: a slot is
   stamped when it is taken, and its request may leave up to 30 s later.
3. Proofs: an abstract ledger of paid campaigns that `CampaignSlot` implements, and
   an abstract lock that `CampaignVersionLock` and `StatsJobLease` implement.
