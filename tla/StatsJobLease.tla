---------------------------- MODULE StatsJobLease ----------------------------
(***************************************************************************)
(* The lease that lets one pod run an X ad account's stats jobs.  A pod    *)
(* keeps one database session beside its pool, takes a session-level       *)
(* advisory lock on it for every account's key, and remembers the keys it  *)
(* has.  A call of Own uses the session while it has the one slot of a     *)
(* semaphore; Close marks the lease, and waits for the slot only until its *)
(* deadline.                                                               *)
(*                                                                         *)
(* The server drops a session's locks when it learns of its end, which may *)
(* be after the pod has opened another: the locks of a session the pod     *)
(* gave up belong to a ghost meanwhile.                                    *)
(***************************************************************************)
EXTENDS Naturals, FiniteSets

CONSTANTS
  Pod,
  Call,      \* calls of Own, each made once
  Key,       \* lock keys: accounts, up to collisions of their hashes
  PodOf,     \* the pod each call is made on
  Free, Ghost, Closer,
  MaxDeaths, \* bound: sessions that die of themselves
  MaxCloses  \* bound: pods that close their lease

ASSUME LeaseConstants ==
  /\ PodOf \in [Call -> Pod]
  /\ Free # Ghost
  /\ IsFiniteSet(Pod)
  /\ {Free, Ghost} \cap Pod = {}
  /\ Free # Closer
  /\ {Free, Closer} \cap Call = {}
  /\ Free \notin Key
  /\ MaxDeaths \in Nat /\ MaxCloses \in Nat

VARIABLES
  locks,     \* on the server: the pod whose session has each key's lock
  alive,     \* pods whose session the server still has
  conn,      \* pods that have a session, dead or alive, in conn
  heldKeys,
  slot,      \* who holds each pod's semaphore
  closed,
  closer,    \* where each pod's Close is
  pc,
  key, verdict, \* locals of a call, reset when it returns
  deaths

server == <<locks, alive, deaths>>
session == <<locks, alive, conn, heldKeys>>
call == <<pc, key, verdict>>
closing == <<closed, closer>>
vars == <<session, slot, closing, call, deaths>>

TypeOK ==
  /\ locks \in [Key -> Pod \cup {Free, Ghost}]
  /\ alive \subseteq conn
  /\ conn \subseteq Pod
  /\ heldKeys \in [Pod -> SUBSET Key]
  /\ slot \in [Pod -> Call \cup {Free, Closer}]
  /\ closed \subseteq Pod
  /\ closer \in [Pod -> {"idle", "marked", "waiting", "closing", "over"}]
  /\ pc \in [Call -> {"new", "waiting", "entered", "pinging", "connecting", "locking",
                      "recovering", "admitting", "leaving", "releasing", "over"}]
  /\ key \in [Call -> Key \cup {Free}]
  /\ verdict \in [Call -> {"unavailable", "not held", "owned"}]
  /\ deaths \in 0 .. MaxDeaths

Init ==
  /\ locks = [k \in Key |-> Free]
  /\ alive = {} /\ conn = {}
  /\ heldKeys = [p \in Pod |-> {}]
  /\ slot = [p \in Pod |-> Free]
  /\ closed = {}
  /\ closer = [p \in Pod |-> "idle"]
  /\ pc = [c \in Call |-> "new"]
  /\ key = [c \in Call |-> Free]
  /\ verdict = [c \in Call |-> "unavailable"]
  /\ deaths = 0

-----------------------------------------------------------------------------
(* The session. *)

\* closeSession.  The server may learn of it only later.
CloseSession(p) ==
  /\ conn' = conn \ {p}
  /\ alive' = alive \ {p}
  /\ heldKeys' = [heldKeys EXCEPT ![p] = {}]
  /\ \E after \in {Free, Ghost} :
       locks' = [k \in Key |-> IF locks[k] = p THEN after ELSE locks[k]]

Goto(c, l) == pc' = [pc EXCEPT ![c] = l]

HasSlot(c, l) == pc[c] = l /\ slot[PodOf[c]] = c

-----------------------------------------------------------------------------
(* Own.  A request's context may end at any time, so wherever the code asks  *)
(* for it the call may leave; a call that leaves by an error is unavailable. *)

Enter(c) ==
  /\ pc[c] = "new"
  /\ Goto(c, IF PodOf[c] \in closed THEN "over" ELSE "waiting")
  /\ UNCHANGED <<session, slot, closing, key, verdict, deaths>>

AcquireSlot(c) ==
  /\ pc[c] = "waiting"
  /\ \/ /\ slot[PodOf[c]] = Free
        /\ slot' = [slot EXCEPT ![PodOf[c]] = c]
        /\ Goto(c, "entered")
     \/ Goto(c, "over") /\ UNCHANGED slot
  /\ UNCHANGED <<session, closing, key, verdict, deaths>>

Begin(c) ==
  LET p == PodOf[c] IN
  /\ HasSlot(c, "entered")
  /\ \/ /\ p \notin closed
        /\ \E k \in Key : key' = [key EXCEPT ![c] = k]
        /\ Goto(c, IF p \in conn THEN "pinging" ELSE "connecting")
     \/ Goto(c, "leaving") /\ UNCHANGED key
  /\ UNCHANGED <<session, slot, closing, verdict, deaths>>

\* Mutant: a remembered key is believed without asking the session.
MutPing(c) ==
  LET p == PodOf[c] IN
  /\ HasSlot(c, "pinging")
  /\ Goto(c, IF key[c] \in heldKeys[p] THEN "admitting" ELSE "locking")
  /\ UNCHANGED <<session, slot, closing, key, verdict, deaths>>

\* A ping that fails tells nothing when the lease is closed or the request over.
Ping(c) ==
  LET p == PodOf[c] IN
  /\ HasSlot(c, "pinging")
  /\ \/ /\ p \in alive
        /\ IF key[c] \in heldKeys[p]
           THEN Goto(c, "admitting")
           ELSE Goto(c, "locking") \/ Goto(c, "leaving")
        /\ UNCHANGED session
     \/ Goto(c, "leaving") /\ UNCHANGED session
     \/ /\ p \notin closed
        /\ CloseSession(p)
        /\ Goto(c, "connecting") \/ Goto(c, "leaving")
  /\ UNCHANGED <<slot, closing, key, verdict, deaths>>

Connect(c) ==
  LET p == PodOf[c] IN
  /\ HasSlot(c, "connecting")
  /\ \/ /\ conn' = conn \cup {p}
        /\ alive' = alive \cup {p}
        /\ Goto(c, IF p \in closed THEN "leaving" ELSE "locking")
     \/ Goto(c, "leaving") /\ UNCHANGED <<conn, alive>>
  /\ UNCHANGED <<locks, heldKeys, slot, closing, key, verdict, deaths>>

\* pg_try_advisory_lock on pod p's session.
Grantable(p, k) == p \in alive /\ locks[k] \in {Free, p}

TryLock(c) ==
  LET p == PodOf[c]  k == key[c] IN
  /\ HasSlot(c, "locking")
  /\ \/ /\ Grantable(p, k)
        /\ locks' = [locks EXCEPT ![k] = p]
        /\ heldKeys' = [heldKeys EXCEPT ![p] = @ \cup {k}]
        /\ Goto(c, "admitting")
        /\ UNCHANGED verdict
     \/ /\ p \in alive /\ ~Grantable(p, k)
        /\ verdict' = [verdict EXCEPT ![c] = "not held"]
        /\ Goto(c, "leaving")
        /\ UNCHANGED <<locks, heldKeys>>
     \/ \* The statement fails, its lock granted or not.
        /\ \/ Grantable(p, k) /\ locks' = [locks EXCEPT ![k] = p]
           \/ UNCHANGED locks
        /\ Goto(c, IF p \in closed THEN "leaving" ELSE "recovering")
        /\ UNCHANGED <<heldKeys, verdict>>
  /\ UNCHANGED <<conn, alive, slot, closing, key, deaths>>

\* Mutant: no unlock, since the lock query failed.
MutAfterUnlock(p, k) == locks

AfterUnlock(p, k) == IF locks[k] = p THEN [locks EXCEPT ![k] = Free] ELSE locks

\* recoverFailedLock: a session that answers a ping and unlocks is kept.
Recover(c) ==
  LET p == PodOf[c] IN
  /\ HasSlot(c, "recovering")
  /\ \/ p \in alive /\ locks' = AfterUnlock(p, key[c]) /\ UNCHANGED <<alive, conn, heldKeys>>
     \/ CloseSession(p)
  /\ Goto(c, "leaving")
  /\ UNCHANGED <<slot, closing, key, verdict, deaths>>

Admit(c) ==
  /\ HasSlot(c, "admitting")
  /\ \/ PodOf[c] \notin closed /\ verdict' = [verdict EXCEPT ![c] = "owned"]
     \/ UNCHANGED verdict
  /\ Goto(c, "leaving")
  /\ UNCHANGED <<session, slot, closing, key, deaths>>

\* Mutant: the verdict of the admission stands.
MutFinalVerdict(c) == verdict[c]

FinalVerdict(c) ==
  IF PodOf[c] \in closed /\ verdict[c] = "owned" THEN "unavailable" ELSE verdict[c]

\* Mutant: the session is left to Close.
MutMustClose(p) == FALSE

MustClose(p) == p \in closed /\ p \in conn

\* releaseSlot's one reading of closed decides the session and the verdict.
Leave(c) ==
  LET p == PodOf[c] IN
  /\ HasSlot(c, "leaving")
  /\ IF MustClose(p) THEN CloseSession(p) ELSE UNCHANGED session
  /\ verdict' = [verdict EXCEPT ![c] = FinalVerdict(c)]
  /\ Goto(c, "releasing")
  /\ UNCHANGED <<slot, closing, key, deaths>>

ReleaseSlot(c) ==
  /\ HasSlot(c, "releasing")
  /\ slot' = [slot EXCEPT ![PodOf[c]] = Free]
  /\ Goto(c, "over")
  /\ key' = [key EXCEPT ![c] = Free]
  /\ verdict' = [verdict EXCEPT ![c] = "unavailable"]
  /\ UNCHANGED <<session, closing, deaths>>

Own(c) ==
  \/ Enter(c) \/ AcquireSlot(c) \/ Begin(c) \/ Ping(c) \/ Connect(c) \/ TryLock(c)
  \/ Recover(c) \/ Admit(c) \/ Leave(c) \/ ReleaseSlot(c)

-----------------------------------------------------------------------------
(* Close. *)

MarkClosed(p) ==
  /\ closer[p] = "idle" /\ Cardinality(closed) < MaxCloses
  /\ closed' = closed \cup {p}
  /\ closer' = [closer EXCEPT ![p] = "marked"]
  /\ UNCHANGED <<session, slot, call, deaths>>

CloserTakesSlot(p) ==
  /\ closer[p] \in {"marked", "waiting"} /\ slot[p] = Free
  /\ slot' = [slot EXCEPT ![p] = Closer]
  /\ closer' = [closer EXCEPT ![p] = "closing"]
  /\ UNCHANGED <<session, closed, call, deaths>>

CloserWaits(p) ==
  /\ closer[p] = "marked" /\ slot[p] # Free
  /\ closer' = [closer EXCEPT ![p] = "waiting"]
  /\ UNCHANGED <<session, slot, closed, call, deaths>>

CloserGivesUp(p) ==
  /\ closer[p] = "waiting"
  /\ closer' = [closer EXCEPT ![p] = "over"]
  /\ UNCHANGED <<session, slot, closed, call, deaths>>

CloserCloses(p) ==
  /\ closer[p] = "closing"
  /\ CloseSession(p)
  /\ slot' = [slot EXCEPT ![p] = Free]
  /\ closer' = [closer EXCEPT ![p] = "over"]
  /\ UNCHANGED <<closed, call, deaths>>

CloseProceeds(p) == CloserTakesSlot(p) \/ CloserWaits(p) \/ CloserGivesUp(p) \/ CloserCloses(p)

-----------------------------------------------------------------------------
(* The server. *)

\* A failover, a terminated backend or a severed connection.
SessionDies(p) ==
  /\ p \in alive /\ deaths < MaxDeaths
  /\ alive' = alive \ {p}
  /\ \E after \in {Free, Ghost} :
       locks' = [k \in Key |-> IF locks[k] = p THEN after ELSE locks[k]]
  /\ deaths' = deaths + 1
  /\ UNCHANGED <<conn, heldKeys, slot, closing, call>>

GhostEnds(k) ==
  /\ locks[k] = Ghost
  /\ locks' = [locks EXCEPT ![k] = Free]
  /\ UNCHANGED <<alive, conn, heldKeys, slot, closing, call, deaths>>

Next ==
  \/ \E c \in Call : Own(c)
  \/ \E p \in Pod : MarkClosed(p) \/ CloseProceeds(p) \/ SessionDies(p)
  \/ \E k \in Key : GhostEnds(k)

\* Every database step has a timeout, and so has the wait of Close.
Fairness ==
  /\ \A c \in Call : WF_vars(Own(c))
  /\ \A p \in Pod : WF_vars(CloseProceeds(p))

Spec == Init /\ [][Next]_vars /\ Fairness

-----------------------------------------------------------------------------
(* Properties. *)

\* A lock that a live session has and no call is working on is among the keys the pod
\* remembers: no failed or refused call orphans a lock, which would keep the account
\* from every pod while this one denies having it.  And what is remembered of a live
\* session it has, and of one that was given up nothing: no two pods with live sessions
\* claim one account.
LeaseMatchesLocks ==
  /\ TypeOK
  /\ \A p \in Pod, k \in Key : slot[p] = Free /\ locks[k] = p => k \in heldKeys[p]
  /\ \A p \in Pod : \A k \in heldKeys[p] : p \in conn /\ (p \in alive => locks[k] = p)

\* A call comes to its admission only on the server's word, in that very step: never
\* on the memory of a session whose locks may have passed to another pod.
OwnershipIsConfirmed ==
  [][\A c \in Call : pc[c] # "admitting" /\ pc'[c] = "admitting" =>
       locks[key[c]] \in {Free, PodOf[c]} /\ locks'[key[c]] = PodOf[c]]_vars

\* A call that is about to answer that the pod owns the account has not closed the
\* session itself, whenever Close came.
OwnersSessionIsOpen ==
  \A c \in Call : pc[c] = "releasing" /\ verdict[c] = "owned" => PodOf[c] \in conn

\* Once the lease is closed its session is, even if Close gives up waiting: by the
\* call in progress, unless that was already past its last reading of the mark.
ClosedLeaseIsGivenUp ==
  \A p \in Pod :
    (closer[p] = "marked" /\ \A c \in Call : ~HasSlot(c, "releasing")) ~> (\A k \in Key : locks[k] # p)
=============================================================================
