------------------------ MODULE CampaignVersionLock ------------------------
(***************************************************************************)
(* The writers of one campaign: run-status toggles, which change the ad    *)
(* platform first and the row after it, edits and deletes, which change    *)
(* the row alone, and the dispatch that created it.  Each client's request *)
(* reads the row, then tries to take the campaign's advisory lock on a     *)
(* pooled session it keeps, then writes the row by a compare-and-swap on   *)
(* the version it read.  The dispatch takes no such lock.                  *)
(*                                                                         *)
(* The lock lives as long as its session.  A request to the platform whose *)
(* answer never came may still be applied, but not for longer than the     *)
(* cooldown its writer holds the lock for.                                 *)
(***************************************************************************)
EXTENDS Naturals, FiniteSets

CONSTANTS
  Request,   \* requests of clients, each made once
  Conn,      \* the slots of the connection pool
  None,      \* no session; nobody's edit
  MaxLosses  \* bound: sessions lost, processes stopped

ASSUME LockConstants ==
  /\ IsFiniteSet(Request)
  /\ None \notin Conn \cup Request
  /\ MaxLosses \in Nat

VARIABLES
  row,       \* the campaign's row: version, status, author of its last edit
  platform,  \* the run status on the ad platform
  wire,      \* toggles sent to the platform and neither applied nor dropped
  holder,    \* the session that holds the advisory lock
  op,        \* what each request is to do
  seen,      \* the row each request read
  pc,
  conn,      \* the session each request has checked out
  lost,      \* requests whose session is dead
  losses

sessions == <<holder, conn, lost>>
vars == <<row, platform, wire, sessions, op, seen, pc, losses>>

RunStatus == {"active", "paused"}
Degraded == "created_degraded"
Toggleable == RunStatus \cup {"created"}
Deletable == Toggleable \cup {Degraded}
Row == [version : Nat, status : Deletable \cup {"pending", "deleted"}, edit : Request \cup {None}]

TypeOK ==
  /\ row \in Row
  /\ platform \in RunStatus
  /\ wire \subseteq Request
  /\ holder \in Conn \cup {None}
  /\ op \in [Request -> RunStatus \cup {"edit", "delete"}]
  /\ seen \in [Request -> Row]
  /\ pc \in [Request -> {"new", "loaded", "claimed", "calling", "applied",
                         "persisting", "cooling", "releasing", "over"}]
  /\ conn \in [Request -> Conn \cup {None}]
  /\ lost \subseteq Request
  /\ losses \in 0 .. MaxLosses

Init ==
  /\ platform \in RunStatus
  /\ row \in {[version |-> 1, status |-> s, edit |-> None] : s \in {"pending", platform, Degraded}}
  /\ wire = {}
  /\ holder = None
  /\ op = [r \in Request |-> "edit"]
  /\ seen = [r \in Request |-> row]
  /\ pc = [r \in Request |-> "new"]
  /\ conn = [r \in Request |-> None]
  /\ lost = {}
  /\ losses = 0

-----------------------------------------------------------------------------
Idle == {c \in Conn : \A r \in Request : conn[r] # c}

Goto(r, l) == pc' = [pc EXCEPT ![r] = l]

\* A degraded campaign may be paused but not resumed.  An edit of a pending row is
\* of its name alone.
Allowed(o) ==
  CASE o = "active" -> row.status \in Toggleable
    [] o = "paused" -> row.status \in Toggleable \cup {Degraded}
    [] OTHER -> row.status # "deleted"

\* GetCampaign and the checks made before the claim.
Load(r) ==
  /\ pc[r] = "new"
  /\ \E o \in RunStatus \cup {"edit", "delete"} :
       Allowed(o) /\ op' = [op EXCEPT ![r] = o]
  /\ seen' = [seen EXCEPT ![r] = row]
  /\ Goto(r, "loaded")
  /\ UNCHANGED <<row, platform, wire, sessions, losses>>

-----------------------------------------------------------------------------
(* ClaimCampaignVersion and ReleaseCampaignLock. *)

\* pg_try_advisory_lock: a session that has the lock gets it again.
LockGranted(c) == holder \in {None, c}

Claim(r) ==
  /\ pc[r] = "loaded" /\ op[r] # "delete"
  /\ row.version = seen[r].version /\ row.status # "deleted"
  /\ \E c \in Idle :
       /\ LockGranted(c)
       /\ holder' = c
       /\ conn' = [conn EXCEPT ![r] = c]
  /\ Goto(r, "claimed")
  /\ UNCHANGED <<row, platform, wire, op, seen, lost, losses>>

\* Mutant: the connection goes back to the pool as it is.
MutAfterLostAnswer(c) == c

\* The lock was granted but its answer lost: the session is destroyed.
AfterLostAnswer(c) == None

\* Refused, out of date, without a connection, or cut short.
ClaimFails(r) ==
  /\ pc[r] = "loaded"
  /\ \/ UNCHANGED holder
     \/ \E c \in Idle : LockGranted(c) /\ holder' = AfterLostAnswer(c)
  /\ Goto(r, "over")
  /\ UNCHANGED <<row, platform, wire, conn, lost, op, seen, losses>>

\* What is left of the lock once request r's session gives it up or dies.
WithoutLockOf(r) == IF holder = conn[r] THEN None ELSE holder

Release(r) ==
  /\ pc[r] = "releasing"
  /\ holder' = WithoutLockOf(r)
  /\ conn' = [conn EXCEPT ![r] = None]
  /\ lost' = lost \ {r}
  /\ Goto(r, "over")
  /\ UNCHANGED <<row, platform, wire, op, seen, losses>>

-----------------------------------------------------------------------------
(* The call to the platform. *)

Send(r) ==
  /\ pc[r] = "claimed" /\ op[r] \in RunStatus
  /\ wire' = wire \cup {r}
  /\ Goto(r, "calling")
  /\ UNCHANGED <<row, platform, sessions, op, seen, losses>>

\* Refused before anything is sent: no credentials, no dispatcher, not provisioned.
Refuse(r) ==
  /\ pc[r] = "claimed" /\ op[r] \in RunStatus
  /\ Goto(r, "releasing")
  /\ UNCHANGED <<row, platform, wire, sessions, op, seen, losses>>

PlatformApplies(r) ==
  /\ r \in wire
  /\ platform' = op[r]
  /\ wire' = wire \ {r}
  /\ pc' = IF pc[r] = "calling" THEN [pc EXCEPT ![r] = "applied"] ELSE pc
  /\ UNCHANGED <<row, sessions, op, seen, losses>>

PlatformDrops(r) ==
  /\ r \in wire /\ pc[r] # "calling"
  /\ wire' = wire \ {r}
  /\ UNCHANGED <<row, platform, sessions, op, seen, pc, losses>>

Confirmed(r) ==
  /\ pc[r] = "applied"
  /\ Goto(r, "persisting")
  /\ UNCHANGED <<row, platform, wire, sessions, op, seen, losses>>

Rejected(r) ==
  /\ pc[r] = "calling" /\ r \in wire
  /\ wire' = wire \ {r}
  /\ Goto(r, "releasing")
  /\ UNCHANGED <<row, platform, sessions, op, seen, losses>>

\* Mutant: the deferred release runs on every path.
MutAfterUnconfirmed == "releasing"

\* Mutant: no release at all is scheduled.
MutNoRelease == "over"

AfterUnconfirmed == "cooling"

\* A timeout, a 5xx or a broken transport: applied, or still to be, or not.
Unconfirmed(r) ==
  /\ pc[r] \in {"calling", "applied"}
  /\ Goto(r, AfterUnconfirmed)
  /\ UNCHANGED <<row, platform, wire, sessions, op, seen, losses>>

\* The platform is done with the request by then.
CooldownEnds(r) ==
  /\ pc[r] = "cooling" /\ r \notin wire
  /\ Goto(r, "releasing")
  /\ UNCHANGED <<row, platform, wire, sessions, op, seen, losses>>

-----------------------------------------------------------------------------
(* ReplaceCampaign, VerifyClaimedVersion and DeleteCampaign. *)

\* Mutant: the update is not gated on the version.
MutVersionStands(r) == row.status # "deleted"

VersionStands(r) == row.version = seen[r].version /\ row.status # "deleted"

Bump(w) == [w EXCEPT !.version = @ + 1]

\* Mutant: the run status is taken from the request, whatever it asks for.
MutEdited(r) == [Bump(seen[r]) EXCEPT !.status = op[r]]

\* Every column is written, from the row the request read.
Edited(r) ==
  CASE op[r] = "edit" -> [Bump(seen[r]) EXCEPT !.edit = r]
    [] op[r] \in RunStatus /\ seen[r].status = Degraded -> row
    [] OTHER -> [Bump(seen[r]) EXCEPT !.status = op[r]]

\* The write runs on the request's own session.  It may fail, or only its
\* answer be lost: the request releases the lock all the same.
Persist(r) ==
  /\ pc[r] = "persisting" \/ (pc[r] = "claimed" /\ op[r] = "edit")
  /\ \/ r \notin lost /\ VersionStands(r) /\ row' = Edited(r)
     \/ UNCHANGED row
  /\ Goto(r, "releasing")
  /\ UNCHANGED <<platform, wire, sessions, op, seen, losses>>

\* Mutant: the row lock alone guards a delete.
MutMayDelete == Idle # {}

MayDelete == \E c \in Idle : LockGranted(c)

\* One transaction on the session that takes the lock.
Delete(r) ==
  /\ pc[r] = "loaded" /\ op[r] = "delete"
  /\ MayDelete
  /\ VersionStands(r) /\ row.status \in Deletable
  /\ row' = [Bump(row) EXCEPT !.status = "deleted"]
  /\ Goto(r, "over")
  /\ UNCHANGED <<platform, wire, sessions, op, seen, losses>>

\* UpsertCampaign: the dispatch writes its result over its own claim, name included.
DispatchFinalizes ==
  /\ row.status = "pending"
  /\ \E s \in {"created", Degraded} :
       row' = [Bump(row) EXCEPT !.status = s, !.edit = None]
  /\ UNCHANGED <<platform, wire, sessions, op, seen, pc, losses>>

-----------------------------------------------------------------------------
(* Losses. *)

\* Postgres drops the lock of a severed session; its request runs on.
LoseSession(r) ==
  /\ conn[r] # None /\ r \notin lost /\ losses < MaxLosses
  /\ holder' = WithoutLockOf(r)
  /\ lost' = lost \cup {r}
  /\ losses' = losses + 1
  /\ UNCHANGED <<row, platform, wire, conn, op, seen, pc>>

\* A process dies, or a shutdown cuts the cooldown short.
Stop(r) ==
  /\ pc[r] \notin {"new", "over"} /\ losses < MaxLosses
  /\ losses' = losses + 1
  /\ holder' = WithoutLockOf(r)
  /\ conn' = [conn EXCEPT ![r] = None]
  /\ lost' = lost \ {r}
  /\ Goto(r, "over")
  /\ UNCHANGED <<row, platform, wire, op, seen>>

-----------------------------------------------------------------------------
Handler(r) ==
  \/ Claim(r) \/ ClaimFails(r) \/ Delete(r)
  \/ Send(r) \/ Refuse(r)
  \/ Confirmed(r) \/ Rejected(r) \/ Unconfirmed(r) \/ CooldownEnds(r)
  \/ Persist(r) \/ Release(r)

Platform(r) == PlatformApplies(r) \/ PlatformDrops(r)

Next ==
  \/ \E r \in Request : Load(r) \/ Handler(r) \/ Platform(r) \/ LoseSession(r) \/ Stop(r)
  \/ DispatchFinalizes

\* Every call of a handler is bounded by a timeout, and the platform settles.
Fairness == \A r \in Request : WF_vars(Handler(r)) /\ WF_vars(Platform(r))

Spec == Init /\ [][Next]_vars /\ Fairness

-----------------------------------------------------------------------------
(* Properties. *)

Claiming == {"claimed", "calling", "applied", "persisting", "cooling"}

\* While a toggle's session lives, from its claim to its write, its version is the
\* row's: no edit, delete or other toggle takes it away under a change that is
\* already on its way to the platform.
ClaimedVersionStands ==
  \A r \in Request :
    op[r] \in RunStatus /\ pc[r] \in Claiming /\ r \notin lost =>
      holder = conn[r] /\ VersionStands(r)

\* A session in the pool holds no lock: one that did would refuse this campaign's
\* writers for as long as it lives.
IdleSessionsHoldNoLock == holder \notin Idle

\* Every write of the row is one writer's change of the version before it: none is
\* lost under the columns of a writer that read an older row, whatever sessions are
\* lost.  Only the dispatch changes more, and no write makes a row pending again.
OneChangePerVersion ==
  [][ /\ row.status # "deleted"
      /\ row'.version = row.version + 1
      /\ row.status # "pending" =>
           /\ row'.status # "pending"
           /\ row'.status = row.status \/ row'.edit = row.edit ]_row

\* A run status written to the row is the platform's at that moment, as long as no
\* session is lost: an unconfirmed call is over before the next toggle makes its own.
ConfirmedStatusIsReal ==
  [][losses = 0 /\ row'.status \in RunStatus \ {row.status} => platform' = row'.status]_vars

\* A lock that is taken is released: no path through a failed or unconfirmed call
\* keeps the campaign's other writers out for good.
EveryLockIsReleased == \A c \in Conn : holder = c ~> holder # c
=============================================================================
