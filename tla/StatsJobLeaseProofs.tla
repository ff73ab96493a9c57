------------------------- MODULE StatsJobLeaseProofs -------------------------
(***************************************************************************)
(* Proofs about StatsJobLease, for every set of pods, calls and accounts   *)
(* and any number of dying sessions and closes.  The slot makes a call, or *)
(* Close, the only one to work on its pod's session; the inductive         *)
(* invariant says what the stage of that call tells of the session, and of *)
(* a lock the pod does not remember.                                       *)
(***************************************************************************)
EXTENDS StatsJobLease, TLAPS

\* The stages at which a call has its pod's slot.
Holding == {"entered", "pinging", "connecting", "locking", "recovering", "admitting", "leaving", "releasing"}

Slots ==
  /\ \A c \in Call : pc[c] \in Holding => slot[PodOf[c]] = c
  /\ \A p \in Pod : slot[p] \in Call => PodOf[slot[p]] = p /\ pc[slot[p]] \in Holding
  /\ \A p \in Pod : closer[p] = "closing" => slot[p] = Closer

\* What the stage of a call tells of its pod's session.
Sessions ==
  \A c \in Call :
    /\ pc[c] \in {"pinging", "connecting", "locking", "recovering", "admitting"} => key[c] \in Key
    /\ pc[c] \in {"pinging", "locking", "recovering", "admitting"} => PodOf[c] \in conn
    /\ pc[c] = "connecting" => PodOf[c] \notin conn
    /\ pc[c] \in {"locking", "recovering"} => key[c] \notin heldKeys[PodOf[c]]
    /\ verdict[c] = "owned" => pc[c] \in {"leaving", "releasing"} /\ PodOf[c] \in conn

\* Locks are of living sessions, and what is remembered of one it has.
Memory ==
  /\ \A p \in Pod, k \in Key : locks[k] = p => p \in alive
  /\ \A p \in Pod : \A k \in heldKeys[p] : p \in conn /\ (p \in alive => locks[k] = p)

\* A lock not remembered is one a call is about to undo, with its session or alone.
Undoing(c, k) == (pc[c] = "recovering" /\ key[c] = k) \/ (pc[c] = "leaving" /\ PodOf[c] \in closed)

Orphans ==
  \A p \in Pod, k \in Key :
    locks[k] = p /\ k \notin heldKeys[p] => slot[p] \in Call /\ Undoing(slot[p], k)

Inv == TypeOK /\ Slots /\ Sessions /\ Memory /\ Orphans

-----------------------------------------------------------------------------
(* What a step may touch. *)

\* The variables of TypeOK that steps update at a pod, a call or a key.
LEMMA Domains ==
  ASSUME TypeOK
  PROVE  /\ locks \in [Key -> Pod \cup {Free, Ghost}]
         /\ heldKeys \in [Pod -> SUBSET Key]
         /\ slot \in [Pod -> Call \cup {Free, Closer}]
         /\ alive \subseteq conn /\ conn \subseteq Pod
         /\ \A c \in Call : PodOf[c] \in Pod
BY LeaseConstants DEF TypeOK

\* Giving up a session frees its locks, or leaves them to the ghost, and forgets its keys.
LEMMA SessionClosed ==
  ASSUME TypeOK, NEW p \in Pod, CloseSession(p)
  PROVE  /\ locks' \in [Key -> Pod \cup {Free, Ghost}]
         /\ heldKeys' \in [Pod -> SUBSET Key]
         /\ conn' = conn \ {p} /\ alive' = alive \ {p}
         /\ heldKeys'[p] = {} /\ \A q \in Pod \ {p} : heldKeys'[q] = heldKeys[q]
         /\ \A k \in Key : locks'[k] # p
         /\ \A k \in Key, q \in Pod \ {p} : locks'[k] = q <=> locks[k] = q
<1>1. PICK after \in {Free, Ghost} : locks' = [k \in Key |-> IF locks[k] = p THEN after ELSE locks[k]]
  BY DEF CloseSession
<1>2. after \notin Pod
  BY LeaseConstants
<1>3. heldKeys' = [heldKeys EXCEPT ![p] = {}]
  BY DEF CloseSession
<1> QED
  BY <1>1, <1>2, <1>3, Domains DEF CloseSession

\* A lock that is tried is the pod's from then on, or stays whose it was.
LEMMA LockTried ==
  ASSUME TypeOK, NEW c \in Call, TryLock(c), key[c] \in Key
  PROVE  LET p == PodOf[c]  k == key[c] IN
         /\ UNCHANGED <<conn, alive>> /\ pc[c] = "locking" /\ slot[p] = c
         /\ locks' \in [Key -> Pod \cup {Free, Ghost}] /\ heldKeys' \in [Pod -> SUBSET Key]
         /\ \A q \in Pod \ {p} : heldKeys'[q] = heldKeys[q]
         /\ \A j \in Key \ {k} : locks'[j] = locks[j]
         /\ locks'[k] = locks[k] \/ (p \in alive /\ locks[k] \in {Free, p} /\ locks'[k] = p)
         /\ \/ heldKeys'[p] = heldKeys[p]
            \/ heldKeys'[p] = heldKeys[p] \cup {k} /\ p \in alive /\ locks'[k] = p
         /\ locks'[k] # locks[k] /\ k \notin heldKeys'[p] =>
              pc'[c] = "recovering" \/ (pc'[c] = "leaving" /\ p \in closed)
<1> DEFINE p == PodOf[c]
           k == key[c]
<1>1. p \in Pod /\ k \in Key
  BY LeaseConstants
<1>2. UNCHANGED <<conn, alive>> /\ pc[c] = "locking" /\ slot[p] = c
  BY DEF TryLock, HasSlot
<1>3. pc' = [pc EXCEPT ![c] = pc'[c]] /\ pc \in [Call -> {"new", "waiting", "entered", "pinging", "connecting", "locking",
                      "recovering", "admitting", "leaving", "releasing", "over"}]
  BY DEF TypeOK, TryLock, Goto
<1>4. \/ /\ p \in alive /\ locks[k] \in {Free, p}
         /\ locks' = [locks EXCEPT ![k] = p] /\ heldKeys' = [heldKeys EXCEPT ![p] = @ \cup {k}]
      \/ /\ locks' = locks /\ heldKeys' = heldKeys
      \/ /\ p \in alive /\ locks[k] \in {Free, p}
         /\ locks' = [locks EXCEPT ![k] = p] /\ heldKeys' = heldKeys
         /\ pc'[c] = "recovering" \/ (pc'[c] = "leaving" /\ p \in closed)
  BY <1>3 DEF TryLock, Grantable, Goto
<1> HIDE DEF p, k
<1>5. /\ locks' \in [Key -> Pod \cup {Free, Ghost}] /\ heldKeys' \in [Pod -> SUBSET Key]
      /\ \A q \in Pod \ {p} : heldKeys'[q] = heldKeys[q]
      /\ \A j \in Key \ {k} : locks'[j] = locks[j]
      /\ locks'[k] = locks[k] \/ (p \in alive /\ locks[k] \in {Free, p} /\ locks'[k] = p)
      /\ \/ heldKeys'[p] = heldKeys[p]
         \/ heldKeys'[p] = heldKeys[p] \cup {k} /\ p \in alive /\ locks'[k] = p
      /\ locks'[k] # locks[k] /\ k \notin heldKeys'[p] =>
           pc'[c] = "recovering" \/ (pc'[c] = "leaving" /\ p \in closed)
  <2>1. CASE /\ p \in alive /\ locks[k] \in {Free, p}
             /\ locks' = [locks EXCEPT ![k] = p] /\ heldKeys' = [heldKeys EXCEPT ![p] = @ \cup {k}]
    BY <1>1, <2>1, Domains
  <2>2. CASE locks' = locks /\ heldKeys' = heldKeys
    BY <1>1, <2>2, Domains
  <2>3. CASE /\ p \in alive /\ locks[k] \in {Free, p}
             /\ locks' = [locks EXCEPT ![k] = p] /\ heldKeys' = heldKeys
             /\ pc'[c] = "recovering" \/ (pc'[c] = "leaving" /\ p \in closed)
    BY <1>1, <2>3, Domains
  <2> QED
    BY <1>4, <2>1, <2>2, <2>3
<1> QED
  BY <1>2, <1>5 DEF p, k

\* A session that is kept after a failed lock query has let the lock go.
LEMMA LockUndone ==
  ASSUME TypeOK, NEW c \in Call, Recover(c), key[c] \in Key
  PROVE  LET p == PodOf[c]  k == key[c] IN
         \/ CloseSession(p)
         \/ /\ UNCHANGED <<conn, alive, heldKeys>> /\ locks' \in [Key -> Pod \cup {Free, Ghost}]
            /\ p \in alive /\ locks'[k] # p /\ locks'[k] \in {locks[k], Free}
            /\ \A j \in Key \ {k} : locks'[j] = locks[j]
<1>1. PodOf[c] \in Pod /\ Free \notin Pod
  BY LeaseConstants
<1> QED
  BY <1>1, Domains DEF Recover, AfterUnlock

\* A call moves its own locals only; it touches its pod's session only with the slot, and
\* no other pod's.
LEMMA OwnFrame ==
  ASSUME TypeOK, NEW c \in Call, Own(c)
  PROVE  /\ \A d \in Call \ {c} : pc'[d] = pc[d] /\ key'[d] = key[d] /\ verdict'[d] = verdict[d]
         /\ UNCHANGED <<closed, closer, deaths>>
         /\ \A q \in Pod \ {PodOf[c]} : slot'[q] = slot[q]
<1> USE DEF session, closing, Goto, TypeOK
<1>1. CASE Enter(c)
  BY <1>1 DEF Enter
<1>2. CASE AcquireSlot(c)
  BY <1>2 DEF AcquireSlot
<1>3. CASE Begin(c)
  BY <1>3 DEF Begin
<1>4. CASE Ping(c)
  BY <1>4 DEF Ping
<1>5. CASE Connect(c)
  BY <1>5 DEF Connect
<1>6. CASE TryLock(c)
  BY <1>6 DEF TryLock, Grantable
<1>7. CASE Recover(c)
  BY <1>7 DEF Recover, AfterUnlock
<1>8. CASE Admit(c)
  BY <1>8 DEF Admit
<1>9. CASE Leave(c)
  BY <1>9 DEF Leave, MustClose, FinalVerdict
<1>10. CASE ReleaseSlot(c)
  BY <1>10 DEF ReleaseSlot
<1> QED
  BY <1>1, <1>2, <1>3, <1>4, <1>5, <1>6, <1>7, <1>8, <1>9, <1>10 DEF Own

LEMMA OwnSession ==
  ASSUME TypeOK, NEW c \in Call, Own(c)
  PROVE  \/ UNCHANGED <<locks, heldKeys, conn, alive>>
         \/ /\ HasSlot(c, pc[c]) /\ pc[c] \in Holding
            /\ \A q \in Pod \ {PodOf[c]} :
                 /\ heldKeys'[q] = heldKeys[q] /\ (q \in conn' <=> q \in conn) /\ (q \in alive' <=> q \in alive)
                 /\ \A k \in Key : locks'[k] = q <=> locks[k] = q
<1> USE DEF session, closing, HasSlot, Holding
<1>0. PodOf[c] \in Pod /\ Free \notin Pod /\ (key[c] \in Key \/ key[c] = Free)
  BY LeaseConstants DEF TypeOK
<1>1. CASE Enter(c)
  BY <1>0, Domains, SessionClosed, <1>1 DEF Enter
<1>2. CASE AcquireSlot(c)
  BY <1>0, Domains, SessionClosed, <1>2 DEF AcquireSlot
<1>3. CASE Begin(c)
  BY <1>0, Domains, SessionClosed, <1>3 DEF Begin
<1>4. CASE Ping(c)
  BY <1>0, Domains, SessionClosed, <1>4 DEF Ping
<1>5. CASE Connect(c)
  BY <1>0, Domains, SessionClosed, <1>5 DEF Connect
<1>6. CASE TryLock(c)
  <2>1. UNCHANGED <<conn, alive>> /\ HasSlot(c, "locking")
    BY <1>6 DEF TryLock
  <2>2. heldKeys' = heldKeys \/ heldKeys' = [heldKeys EXCEPT ![PodOf[c]] = @ \cup {key[c]}]
    BY <1>6 DEF TryLock
  <2>3. \/ locks' = locks
        \/ locks' = [locks EXCEPT ![key[c]] = PodOf[c]] /\ locks[key[c]] \in {Free, PodOf[c]}
    BY <1>6 DEF TryLock, Grantable
  <2>4. \A q \in Pod \ {PodOf[c]}, k \in Key : locks'[k] = q <=> locks[k] = q
    BY <1>0, <2>3, Domains
  <2> QED
    BY <2>1, <2>2, <2>4, Domains
<1>7. CASE Recover(c)
  BY <1>0, Domains, SessionClosed, <1>7 DEF Recover, AfterUnlock
<1>8. CASE Admit(c)
  BY <1>0, Domains, SessionClosed, <1>8 DEF Admit
<1>9. CASE Leave(c)
  BY <1>0, Domains, SessionClosed, <1>9 DEF Leave, MustClose, FinalVerdict
<1>10. CASE ReleaseSlot(c)
  BY <1>0, Domains, SessionClosed, <1>10 DEF ReleaseSlot
<1> QED
  BY <1>1, <1>2, <1>3, <1>4, <1>5, <1>6, <1>7, <1>8, <1>9, <1>10 DEF Own
-----------------------------------------------------------------------------
(* The steps of a call. *)

LEMMA OwnTypes ==
  ASSUME Inv, NEW c \in Call, Own(c)
  PROVE  TypeOK'
<1>a. PodOf[c] \in Pod /\ (HasSlot(c, "locking") \/ HasSlot(c, "recovering") => key[c] \in Key)
  BY LeaseConstants DEF Inv, Sessions, HasSlot
<1>b. TypeOK
  BY DEF Inv
<1>c. /\ locks' \in [Key -> Pod \cup {Free, Ghost}]
      /\ heldKeys' \in [Pod -> SUBSET Key]
      /\ alive' \subseteq conn' /\ conn' \subseteq Pod
  <2> USE DEF session
  <2>1. CASE Ping(c)
    BY <1>a, <1>b, Domains, SessionClosed, <2>1 DEF Ping
  <2>2. CASE Connect(c)
    BY <1>a, <1>b, Domains, SessionClosed, <2>2 DEF Connect
  <2>3. CASE TryLock(c)
    <3>1. key[c] \in Key
      BY <1>a, <2>3 DEF TryLock
    <3> QED
      BY <1>b, <2>3, <3>1, Domains, LockTried
  <2>4. CASE Recover(c)
    BY <1>a, <1>b, Domains, SessionClosed, <2>4 DEF Recover, AfterUnlock
  <2>5. CASE Leave(c)
    BY <1>a, <1>b, Domains, SessionClosed, <2>5 DEF Leave, MustClose, FinalVerdict
  <2>6. CASE Enter(c) \/ AcquireSlot(c) \/ Begin(c) \/ Admit(c) \/ ReleaseSlot(c)
    BY <1>b, Domains, <2>6 DEF Enter, AcquireSlot, Begin, Admit, ReleaseSlot
  <2> QED
    BY <2>1, <2>2, <2>3, <2>4, <2>5, <2>6 DEF Own
<1>d. /\ pc \in [Call -> {"new", "waiting", "entered", "pinging", "connecting", "locking",
                         "recovering", "admitting", "leaving", "releasing", "over"}]
      /\ key \in [Call -> Key \cup {Free}]
      /\ verdict \in [Call -> {"unavailable", "not held", "owned"}]
      /\ slot \in [Pod -> Call \cup {Free, Closer}]
  BY <1>b DEF TypeOK
<1>e. pc' \in [Call -> {"new", "waiting", "entered", "pinging", "connecting", "locking",
                         "recovering", "admitting", "leaving", "releasing", "over"}]
  <2> USE DEF Goto
  <2>1. CASE Enter(c)
    BY <1>d, <2>1 DEF Enter
  <2>2. CASE AcquireSlot(c)
    BY <1>d, <2>2 DEF AcquireSlot
  <2>3. CASE Begin(c)
    BY <1>d, <2>3 DEF Begin
  <2>4. CASE Ping(c)
    BY <1>d, <2>4 DEF Ping
  <2>5. CASE Connect(c)
    BY <1>d, <2>5 DEF Connect
  <2>6. CASE TryLock(c)
    BY <1>d, <2>6 DEF TryLock
  <2>7. CASE Recover(c)
    BY <1>d, <2>7 DEF Recover
  <2>8. CASE Admit(c)
    BY <1>d, <2>8 DEF Admit
  <2>9. CASE Leave(c)
    BY <1>d, <2>9 DEF Leave
  <2>10. CASE ReleaseSlot(c)
    BY <1>d, <2>10 DEF ReleaseSlot
  <2> QED
    BY <2>1, <2>2, <2>3, <2>4, <2>5, <2>6, <2>7, <2>8, <2>9, <2>10 DEF Own
<1>f. slot' \in [Pod -> Call \cup {Free, Closer}]
  <2>1. CASE Enter(c)
    BY <1>d, <2>1 DEF Enter
  <2>2. CASE AcquireSlot(c)
    BY <1>d, <2>2 DEF AcquireSlot
  <2>3. CASE Begin(c)
    BY <1>d, <2>3 DEF Begin
  <2>4. CASE Ping(c)
    BY <1>d, <2>4 DEF Ping
  <2>5. CASE Connect(c)
    BY <1>d, <2>5 DEF Connect
  <2>6. CASE TryLock(c)
    BY <1>d, <2>6 DEF TryLock
  <2>7. CASE Recover(c)
    BY <1>d, <2>7 DEF Recover
  <2>8. CASE Admit(c)
    BY <1>d, <2>8 DEF Admit
  <2>9. CASE Leave(c)
    BY <1>d, <2>9 DEF Leave
  <2>10. CASE ReleaseSlot(c)
    BY <1>d, <2>10 DEF ReleaseSlot
  <2> QED
    BY <2>1, <2>2, <2>3, <2>4, <2>5, <2>6, <2>7, <2>8, <2>9, <2>10 DEF Own
<1>g. key' \in [Call -> Key \cup {Free}]
  <2>1. CASE Enter(c)
    BY <1>d, <2>1 DEF Enter
  <2>2. CASE AcquireSlot(c)
    BY <1>d, <2>2 DEF AcquireSlot
  <2>3. CASE Begin(c)
    BY <1>d, <2>3 DEF Begin
  <2>4. CASE Ping(c)
    BY <1>d, <2>4 DEF Ping
  <2>5. CASE Connect(c)
    BY <1>d, <2>5 DEF Connect
  <2>6. CASE TryLock(c)
    BY <1>d, <2>6 DEF TryLock
  <2>7. CASE Recover(c)
    BY <1>d, <2>7 DEF Recover
  <2>8. CASE Admit(c)
    BY <1>d, <2>8 DEF Admit
  <2>9. CASE Leave(c)
    BY <1>d, <2>9 DEF Leave
  <2>10. CASE ReleaseSlot(c)
    BY <1>d, <2>10 DEF ReleaseSlot
  <2> QED
    BY <2>1, <2>2, <2>3, <2>4, <2>5, <2>6, <2>7, <2>8, <2>9, <2>10 DEF Own
<1>h. verdict' \in [Call -> {"unavailable", "not held", "owned"}]
  <2>1. CASE Enter(c)
    BY <1>d, <2>1 DEF Enter
  <2>2. CASE AcquireSlot(c)
    BY <1>d, <2>2 DEF AcquireSlot
  <2>3. CASE Begin(c)
    BY <1>d, <2>3 DEF Begin
  <2>4. CASE Ping(c)
    BY <1>d, <2>4 DEF Ping
  <2>5. CASE Connect(c)
    BY <1>d, <2>5 DEF Connect
  <2>6. CASE TryLock(c)
    BY <1>d, <2>6 DEF TryLock, Grantable
  <2>7. CASE Recover(c)
    BY <1>d, <2>7 DEF Recover, AfterUnlock
  <2>8. CASE Admit(c)
    BY <1>d, <2>8 DEF Admit
  <2>9. CASE Leave(c)
    BY <1>d, <2>9 DEF Leave, FinalVerdict
  <2>10. CASE ReleaseSlot(c)
    BY <1>d, <2>10 DEF ReleaseSlot
  <2> QED
    BY <2>1, <2>2, <2>3, <2>4, <2>5, <2>6, <2>7, <2>8, <2>9, <2>10 DEF Own
<1> QED
  BY <1>b, <1>c, <1>e, <1>f, <1>g, <1>h, OwnFrame DEF TypeOK

\* A call keeps its slot from AcquireSlot to ReleaseSlot, and nobody else takes it.
LEMMA OwnSlots ==
  ASSUME Inv, NEW c \in Call, Own(c)
  PROVE  Slots'
<1>a. PodOf[c] \in Pod /\ Free \notin Call /\ Closer \notin Call /\ Free # Closer
  BY LeaseConstants
<1>b. /\ \A d \in Call \ {c} : pc'[d] = pc[d]
      /\ closer' = closer
      /\ \A q \in Pod \ {PodOf[c]} : slot'[q] = slot[q]
  BY OwnFrame DEF Inv
<1>c. \/ slot' = slot /\ (pc[c] \in Holding <=> pc'[c] \in Holding)
      \/ slot[PodOf[c]] = Free /\ slot'[PodOf[c]] = c /\ pc'[c] \in Holding
      \/ slot[PodOf[c]] = c /\ slot'[PodOf[c]] = Free /\ pc'[c] \notin Holding
  <2> USE DEF Inv, TypeOK, session, Goto, HasSlot, Holding
  <2>1. CASE Enter(c)
    BY <1>a, <2>1 DEF Enter
  <2>2. CASE AcquireSlot(c)
    BY <1>a, <2>2 DEF AcquireSlot
  <2>3. CASE Begin(c)
    BY <1>a, <2>3 DEF Begin
  <2>4. CASE Ping(c)
    BY <1>a, <2>4 DEF Ping
  <2>5. CASE Connect(c)
    BY <1>a, <2>5 DEF Connect
  <2>6. CASE TryLock(c)
    BY <1>a, <2>6 DEF TryLock, Grantable
  <2>7. CASE Recover(c)
    BY <1>a, <2>7 DEF Recover, AfterUnlock
  <2>8. CASE Admit(c)
    BY <1>a, <2>8 DEF Admit
  <2>9. CASE Leave(c)
    BY <1>a, <2>9 DEF Leave, MustClose, FinalVerdict
  <2>10. CASE ReleaseSlot(c)
    BY <1>a, <2>10 DEF ReleaseSlot
  <2> QED
    BY <2>1, <2>2, <2>3, <2>4, <2>5, <2>6, <2>7, <2>8, <2>9, <2>10 DEF Own
<1>d. /\ \A d \in Call : pc[d] \in Holding => slot[PodOf[d]] = d
      /\ \A p \in Pod : slot[p] \in Call => PodOf[slot[p]] = p /\ pc[slot[p]] \in Holding
      /\ \A p \in Pod : closer[p] = "closing" => slot[p] = Closer
      /\ \A d \in Call : PodOf[d] \in Pod
  BY LeaseConstants DEF Inv, Slots
<1>e. \A d \in Call : pc'[d] \in Holding => slot'[PodOf[d]] = d
  BY <1>a, <1>b, <1>c, <1>d
<1>f. ASSUME NEW p \in Pod, slot'[p] \in Call
      PROVE  PodOf[slot'[p]] = p /\ pc'[slot'[p]] \in Holding
  BY <1>a, <1>b, <1>c, <1>d, <1>f
<1>g. \A p \in Pod : closer'[p] = "closing" => slot'[p] = Closer
  BY <1>a, <1>b, <1>c, <1>d
<1> QED
  BY <1>e, <1>f, <1>g DEF Slots

\* Another call at work on a session has another pod's slot.
LEMMA OneCallAtWork ==
  ASSUME Inv, NEW c \in Call, NEW d \in Call \ {c}, pc[c] \in Holding, pc[d] \in Holding
  PROVE  PodOf[d] \in Pod \ {PodOf[c]}
BY LeaseConstants DEF Inv, Slots

\* Where a ping and a try-lock leave the session.
LEMMA PingOutcomes ==
  ASSUME TypeOK, NEW c \in Call, Ping(c)
  PROVE  \/ UNCHANGED <<conn, heldKeys>> /\ pc'[c] \in {"admitting", "leaving"}
         \/ UNCHANGED <<conn, heldKeys>> /\ pc'[c] = "locking" /\ key[c] \notin heldKeys[PodOf[c]]
         \/ conn' = conn \ {PodOf[c]} /\ pc'[c] \in {"connecting", "leaving"}
<1>1. \A l : Goto(c, l) => pc'[c] = l
  BY DEF TypeOK, Goto
<1> QED
  BY <1>1 DEF Ping, CloseSession, session

LEMMA TryLockOutcomes ==
  ASSUME TypeOK, NEW c \in Call, TryLock(c)
  PROVE  pc'[c] \in {"admitting", "leaving"} \/ (pc'[c] = "recovering" /\ UNCHANGED heldKeys)
<1>1. \A l : Goto(c, l) => pc'[c] = l
  BY DEF TypeOK, Goto
<1> QED
  BY <1>1 DEF TryLock

LEMMA OwnSessions ==
  ASSUME Inv, NEW c \in Call, Own(c)
  PROVE  Sessions'
<1>a. PodOf[c] \in Pod
  BY LeaseConstants
<1>b. \A d \in Call \ {c} : pc'[d] = pc[d] /\ key'[d] = key[d] /\ verdict'[d] = verdict[d]
  BY OwnFrame DEF Inv
<1>c. ASSUME NEW d \in Call \ {c}, pc[d] \in Holding
      PROVE  (PodOf[d] \in conn' <=> PodOf[d] \in conn) /\ heldKeys'[PodOf[d]] = heldKeys[PodOf[d]]
  BY <1>c, OwnSession, OneCallAtWork DEF Inv
<1>d. /\ pc'[c] \in {"pinging", "connecting", "locking", "recovering", "admitting"} => key'[c] \in Key
      /\ pc'[c] \in {"pinging", "locking", "recovering", "admitting"} => PodOf[c] \in conn'
      /\ pc'[c] = "connecting" => PodOf[c] \notin conn'
      /\ pc'[c] \in {"locking", "recovering"} => key'[c] \notin heldKeys'[PodOf[c]]
      /\ verdict'[c] = "owned" => pc'[c] \in {"leaving", "releasing"} /\ PodOf[c] \in conn'
  <2> USE DEF Inv, TypeOK, Sessions, session, Goto, HasSlot
  <2>1. CASE Enter(c)
    BY <1>a, <2>1 DEF Enter, CloseSession
  <2>2. CASE AcquireSlot(c)
    <3>1. pc'[c] \in {"entered", "over"} /\ UNCHANGED <<conn, verdict>> /\ verdict[c] # "owned"
      BY <2>2 DEF AcquireSlot
    <3> QED
      BY <3>1
  <2>3. CASE Begin(c)
    <3>1. /\ pc'[c] = "leaving" \/ (pc'[c] = (IF PodOf[c] \in conn THEN "pinging" ELSE "connecting") /\ key'[c] \in Key)
          /\ UNCHANGED <<conn, verdict>> /\ verdict[c] # "owned"
      BY <2>3 DEF Begin
    <3> QED
      BY <3>1
  <2>4. CASE Ping(c)
    <3>1. key' = key /\ key[c] \in Key /\ verdict' = verdict /\ verdict[c] # "owned" /\ PodOf[c] \in conn
      BY <2>4 DEF Ping
    <3>2. \/ UNCHANGED <<conn, heldKeys>> /\ pc'[c] \in {"admitting", "leaving"}
          \/ UNCHANGED <<conn, heldKeys>> /\ pc'[c] = "locking" /\ key[c] \notin heldKeys[PodOf[c]]
          \/ conn' = conn \ {PodOf[c]} /\ pc'[c] \in {"connecting", "leaving"}
      BY <2>4, PingOutcomes
    <3>3. CASE UNCHANGED <<conn, heldKeys>> /\ pc'[c] \in {"admitting", "leaving"}
      BY <3>1, <3>3
    <3>4. CASE UNCHANGED <<conn, heldKeys>> /\ pc'[c] = "locking" /\ key[c] \notin heldKeys[PodOf[c]]
      BY <3>1, <3>4
    <3>5. CASE conn' = conn \ {PodOf[c]} /\ pc'[c] \in {"connecting", "leaving"}
      BY <3>1, <3>5
    <3> QED
      BY <3>2, <3>3, <3>4, <3>5
  <2>5. CASE Connect(c)
    <3>1. key[c] \in Key /\ PodOf[c] \notin conn /\ verdict[c] # "owned"
      BY <2>5 DEF Connect
    <3>2. heldKeys[PodOf[c]] = {}
      BY <1>a, <3>1 DEF Memory
    <3>3. /\ pc'[c] = "leaving" \/ (pc'[c] = "locking" /\ PodOf[c] \in conn')
          /\ UNCHANGED <<key, verdict, heldKeys>>
      BY <2>5 DEF Connect
    <3> QED
      BY <3>1, <3>2, <3>3
  <2>6. CASE TryLock(c)
    <3>1. /\ UNCHANGED <<conn, key>> /\ key[c] \in Key /\ PodOf[c] \in conn
          /\ verdict'[c] # "owned" /\ key[c] \notin heldKeys[PodOf[c]]
      BY <2>6 DEF TryLock
    <3>2. pc'[c] \in {"admitting", "leaving"} \/ (pc'[c] = "recovering" /\ UNCHANGED heldKeys)
      BY <2>6, TryLockOutcomes
    <3> QED
      BY <3>1, <3>2
  <2>7. CASE Recover(c)
    BY <1>a, <2>7 DEF Recover, AfterUnlock, CloseSession
  <2>8. CASE Admit(c)
    BY <1>a, <2>8 DEF Admit, CloseSession
  <2>9. CASE Leave(c)
    BY <1>a, <2>9 DEF Leave, MustClose, FinalVerdict, CloseSession
  <2>10. CASE ReleaseSlot(c)
    BY <1>a, <2>10 DEF ReleaseSlot, CloseSession
  <2> QED
    BY <2>1, <2>2, <2>3, <2>4, <2>5, <2>6, <2>7, <2>8, <2>9, <2>10 DEF Own
<1> QED
  BY <1>b, <1>c, <1>d DEF Inv, Sessions, Holding

LEMMA OwnMemory ==
  ASSUME Inv, NEW c \in Call, Own(c)
  PROVE  Memory'
<1> DEFINE p == PodOf[c]
<1>a. p \in Pod /\ TypeOK
  BY LeaseConstants DEF Inv
<1>b. \A q \in Pod \ {p} :
        /\ heldKeys'[q] = heldKeys[q] /\ (q \in alive' <=> q \in alive)
        /\ \A k \in Key : locks'[k] = q <=> locks[k] = q
        /\ q \in conn' <=> q \in conn
  BY <1>a, OwnSession
<1>c. /\ \A q \in Pod, k \in Key : locks[k] = q => q \in alive
      /\ \A q \in Pod : \A k \in heldKeys[q] : q \in conn /\ (q \in alive => locks[k] = q)
      /\ \A q \in Pod : heldKeys[q] \subseteq Key
  BY <1>a, Domains DEF Inv, Memory
<1>d. /\ HasSlot(c, "locking") \/ HasSlot(c, "recovering") => key[c] \in Key /\ p \in conn
      /\ HasSlot(c, "connecting") => p \notin conn
      /\ HasSlot(c, "recovering") => key[c] \notin heldKeys[p]
  BY DEF Inv, Sessions, HasSlot
<1>e. /\ \A k \in Key : locks'[k] = p => p \in alive'
      /\ \A k \in heldKeys'[p] : k \in Key /\ p \in conn' /\ (p \in alive' => locks'[k] = p)
  <2> USE DEF session
  <2>1. CASE Ping(c)
    BY <1>a, <1>c, <1>d, Domains, SessionClosed, <2>1 DEF Ping
  <2>2. CASE Connect(c)
    BY <1>a, <1>c, <1>d, Domains, SessionClosed, <2>2 DEF Connect
  <2>3. CASE TryLock(c)
    <3>1. key[c] \in Key /\ p \in conn
      BY <1>d, <2>3 DEF TryLock
    <3> QED
      BY <1>a, <1>c, <2>3, <3>1, LockTried
  <2>4. CASE Recover(c)
    <3>1. key[c] \in Key /\ p \in conn /\ key[c] \notin heldKeys[p]
      BY <1>d, <2>4 DEF Recover
    <3>2. CASE CloseSession(p)
      BY <1>a, <3>2, SessionClosed
    <3>3. CASE /\ UNCHANGED <<conn, alive, heldKeys>>
               /\ p \in alive /\ locks'[key[c]] # p /\ \A j \in Key \ {key[c]} : locks'[j] = locks[j]
      BY <1>a, <1>c, <3>1, <3>3
    <3> QED
      BY <1>a, <2>4, <3>1, <3>2, <3>3, LockUndone
  <2>5. CASE Leave(c)
    BY <1>a, <1>c, <1>d, Domains, SessionClosed, <2>5 DEF Leave, MustClose, FinalVerdict
  <2>6. CASE Enter(c) \/ AcquireSlot(c) \/ Begin(c) \/ Admit(c) \/ ReleaseSlot(c)
    BY <1>a, <1>c, <2>6 DEF Enter, AcquireSlot, Begin, Admit, ReleaseSlot
  <2> QED
    BY <2>1, <2>2, <2>3, <2>4, <2>5, <2>6 DEF Own
<1> QED
  BY <1>a, <1>b, <1>c, <1>e DEF Memory

LEMMA OwnOrphans ==
  ASSUME Inv, NEW c \in Call, Own(c)
  PROVE  Orphans'
<1> DEFINE p == PodOf[c]
<1> SUFFICES ASSUME NEW q \in Pod, NEW k \in Key, locks'[k] = q, k \notin heldKeys'[q]
             PROVE  (slot[q] \in Call /\ Undoing(slot[q], k))'
  BY DEF Orphans
<1>a. p \in Pod /\ TypeOK /\ Slots /\ Memory /\ Orphans /\ Free \notin Pod
  BY LeaseConstants DEF Inv
<1>b. /\ \A d \in Call \ {c} : pc'[d] = pc[d] /\ key'[d] = key[d]
      /\ closed' = closed /\ \A r \in Pod \ {p} : slot'[r] = slot[r]
  BY <1>a, OwnFrame
<1>1. CASE q # p
  <2>1. locks[k] = q /\ k \notin heldKeys[q] /\ slot'[q] = slot[q]
    BY <1>a, <1>b, <1>1, OwnSession
  <2>2. slot[q] \in Call \ {c} /\ Undoing(slot[q], k)
    BY <1>a, <1>1, <2>1 DEF Orphans, Slots
  <2> QED
    BY <1>b, <2>1, <2>2 DEF Undoing
<1>2. CASE q = p /\ locks[k] = p /\ k \notin heldKeys[p]
  <2>1. slot[p] \in Call /\ PodOf[slot[p]] = p /\ pc[slot[p]] \in {"recovering", "leaving"} /\ Undoing(slot[p], k)
    BY <1>a, <1>2 DEF Orphans, Slots, Undoing
  <2>2. CASE slot[p] # c
    <3>1. pc[c] \notin Holding
      BY <1>a, <2>2 DEF Slots
    <3>2. slot' = slot
      BY <2>1, <3>1, LeaseConstants DEF Own, Enter, AcquireSlot, Begin, Ping, Connect, TryLock, Recover, Admit,
         Leave, ReleaseSlot, HasSlot, Holding
    <3> QED
      BY <1>b, <1>2, <2>1, <2>2, <3>2 DEF Undoing
  <2>3. CASE slot[p] = c /\ pc[c] = "recovering"
    <3>1. Recover(c) /\ key[c] = k
      BY <2>1, <2>3 DEF Own, Enter, AcquireSlot, Begin, Ping, Connect, TryLock, Recover, Admit,
         Leave, ReleaseSlot, HasSlot, Undoing
    <3> QED
      BY <1>a, <1>2, <3>1, LockUndone, SessionClosed
  <2>4. CASE slot[p] = c /\ pc[c] = "leaving"
    <3>1. Leave(c) /\ p \in closed /\ p \in conn
      BY <1>a, <1>2, <2>1, <2>4, Domains DEF Own, Enter, AcquireSlot, Begin, Ping, Connect, TryLock, Recover, Admit,
         Leave, ReleaseSlot, HasSlot, Undoing, Memory
    <3>2. CloseSession(p)
      BY <3>1 DEF Leave, MustClose
    <3> QED
      BY <1>a, <1>2, <3>2, SessionClosed
  <2> QED
    BY <2>1, <2>2, <2>3, <2>4
<1>3. CASE q = p /\ ~(locks[k] = p /\ k \notin heldKeys[p])
  <2>1. TryLock(c) \/ ~(locks'[k] = p /\ k \notin heldKeys'[p])
    <3> USE DEF session
    <3>1. CASE Ping(c)
      BY <1>3, <1>a, <3>1, SessionClosed DEF Ping
    <3>2. CASE Connect(c)
      BY <1>3, <3>2 DEF Connect
    <3>3. CASE Recover(c)
      <4>1. key[c] \in Key
        BY <3>3 DEF Recover, HasSlot, Inv, Sessions
      <4> QED
        BY <1>3, <1>a, <3>3, <4>1, LockUndone, SessionClosed
    <3>4. CASE Leave(c)
      BY <1>3, <1>a, <3>4, SessionClosed DEF Leave
    <3>5. CASE Enter(c) \/ AcquireSlot(c) \/ Begin(c) \/ Admit(c) \/ ReleaseSlot(c)
      BY <1>3, <3>5 DEF Enter, AcquireSlot, Begin, Admit, ReleaseSlot
    <3> QED
      BY <3>1, <3>2, <3>3, <3>4, <3>5 DEF Own
  <2>2. TryLock(c)
    BY <1>3, <2>1
  <2>3. key[c] \in Key
    BY <2>2 DEF TryLock, HasSlot, Inv, Sessions
  <2>4. /\ pc[c] = "locking" /\ slot[p] = c /\ (k # key[c] => locks'[k] = locks[k])
        /\ heldKeys[p] \subseteq heldKeys'[p]
        /\ locks'[k] # locks[k] /\ k \notin heldKeys'[p] => pc'[c] = "recovering" \/ (pc'[c] = "leaving" /\ p \in closed)
    BY <1>a, <2>2, <2>3, LockTried
  <2>5. slot' = slot /\ key' = key
    BY <2>2 DEF TryLock
  <2>6. k = key[c] /\ (pc'[c] = "recovering" \/ (pc'[c] = "leaving" /\ p \in closed))
    BY <1>3, <2>4
  <2> QED
    BY <1>a, <1>b, <1>3, <2>4, <2>5, <2>6 DEF Undoing
<1> QED
  BY <1>1, <1>2, <1>3

-----------------------------------------------------------------------------
(* Close and the server. *)

LEMMA CloseStep ==
  ASSUME Inv, NEW p \in Pod, MarkClosed(p) \/ CloseProceeds(p)
  PROVE  Inv'
<1>a. TypeOK /\ Slots /\ Sessions /\ Memory /\ Orphans /\ \A c \in Call : PodOf[c] \in Pod
  BY LeaseConstants DEF Inv
<1>b. Free \notin Call /\ Closer \notin Call /\ Free # Closer
  BY LeaseConstants
<1>c. UNCHANGED <<pc, key, verdict, deaths>> /\ closed \subseteq closed' /\ closed' \subseteq closed \cup {p}
  BY DEF MarkClosed, CloseProceeds, CloserTakesSlot, CloserWaits, CloserGivesUp, CloserCloses, call
<1>1. CASE MarkClosed(p) \/ CloserTakesSlot(p) \/ CloserWaits(p) \/ CloserGivesUp(p)
  <2>1. UNCHANGED session
    BY <1>1 DEF MarkClosed, CloserTakesSlot, CloserWaits, CloserGivesUp
  <2>2. \/ slot' = slot /\ \A q \in Pod : closer'[q] = "closing" => closer[q] = "closing"
        \/ slot[p] = Free /\ slot' = [slot EXCEPT ![p] = Closer] /\ closer' = [closer EXCEPT ![p] = "closing"]
    BY <1>1 DEF MarkClosed, CloserTakesSlot, CloserWaits, CloserGivesUp, Inv, TypeOK
  <2>3. closer' \in [Pod -> {"idle", "marked", "waiting", "closing", "over"}] /\ slot' \in [Pod -> Call \cup {Free, Closer}]
    BY <1>1 DEF MarkClosed, CloserTakesSlot, CloserWaits, CloserGivesUp, Inv, TypeOK
  <2>4. TypeOK'
    BY <1>a, <1>c, <2>1, <2>3 DEF TypeOK, session
  <2>5. Slots'
    BY <1>a, <1>b, <1>c, <2>2, <2>3, Domains DEF Slots
  <2>6. Sessions' /\ Memory'
    BY <1>a, <1>c, <2>1 DEF Sessions, Memory, session
  <2>7. Orphans'
    BY <1>a, <1>b, <1>c, <2>1, <2>2, Domains DEF Orphans, Undoing, session
  <2> QED
    BY <2>4, <2>5, <2>6, <2>7 DEF Inv
<1>2. CASE CloserCloses(p)
  <2>1. /\ CloseSession(p) /\ slot[p] = Closer /\ slot' = [slot EXCEPT ![p] = Free]
        /\ closer' = [closer EXCEPT ![p] = "over"] /\ closed' = closed
    BY <1>2, <1>a DEF CloserCloses, Slots
  <2>2. /\ locks' \in [Key -> Pod \cup {Free, Ghost}] /\ heldKeys' \in [Pod -> SUBSET Key]
        /\ conn' = conn \ {p} /\ alive' = alive \ {p}
        /\ heldKeys'[p] = {} /\ \A q \in Pod \ {p} : heldKeys'[q] = heldKeys[q]
        /\ \A k \in Key : locks'[k] # p
        /\ \A k \in Key, q \in Pod \ {p} : locks'[k] = q <=> locks[k] = q
    BY <1>a, <2>1, SessionClosed
  <2>3. \A c \in Call : pc[c] \in Holding => PodOf[c] # p
    BY <1>a, <1>b, <2>1 DEF Slots
  <2>4. TypeOK'
    <3>1. /\ closer' \in [Pod -> {"idle", "marked", "waiting", "closing", "over"}]
          /\ slot' \in [Pod -> Call \cup {Free, Closer}]
      BY <1>a, <2>1 DEF TypeOK
    <3>2. alive' \subseteq conn' /\ conn' \subseteq Pod
      BY <1>a, <2>2, Domains
    <3> QED
      BY <1>a, <1>c, <2>1, <2>2, <3>1, <3>2 DEF TypeOK
  <2>5. Slots'
    <3>1. /\ \A q \in Pod \ {p} : slot'[q] = slot[q] /\ closer'[q] = closer[q]
          /\ slot'[p] = Free /\ closer'[p] = "over"
      BY <1>a, <2>1 DEF TypeOK
    <3> QED
      BY <1>a, <1>b, <1>c, <2>3, <3>1 DEF Slots
  <2>6. Sessions'
    BY <1>a, <1>c, <2>2, <2>3 DEF Sessions, Holding
  <2>7. Memory'
    BY <1>a, <2>2 DEF Memory
  <2>8. Orphans'
    BY <1>a, <1>c, <2>1, <2>2, Domains DEF Orphans, Undoing
  <2> QED
    BY <2>4, <2>5, <2>6, <2>7, <2>8 DEF Inv
<1> QED
  BY <1>1, <1>2 DEF CloseProceeds

\* A session that dies, and locks dropped later: locks only go.
LEMMA ServerStep ==
  ASSUME Inv, (\E p \in Pod : SessionDies(p)) \/ (\E k \in Key : GhostEnds(k))
  PROVE  Inv'
<1>a. TypeOK /\ Slots /\ Sessions /\ Memory /\ Orphans
  BY DEF Inv
<1>b. UNCHANGED <<conn, heldKeys, slot, closed, closer, pc, key, verdict>>
  BY DEF SessionDies, GhostEnds, closing, call
<1>c. /\ locks' \in [Key -> Pod \cup {Free, Ghost}] /\ alive' \subseteq alive
      /\ \A k \in Key, q \in Pod : locks'[k] = q => locks[k] = q /\ q \in alive'
      /\ \A k \in Key, q \in alive' : locks[k] = q => locks'[k] = q
      /\ deaths' \in 0 .. MaxDeaths
  <2>1. CASE \E p \in Pod : SessionDies(p)
    <3>1. PICK p \in Pod : SessionDies(p)
      BY <2>1
    <3>2. PICK after \in {Free, Ghost} : locks' = [k \in Key |-> IF locks[k] = p THEN after ELSE locks[k]]
      BY <3>1 DEF SessionDies
    <3>3. after \notin Pod /\ alive' = alive \ {p} /\ alive \subseteq Pod
      BY <3>1, <1>a, Domains, LeaseConstants DEF SessionDies
    <3>4. deaths \in 0 .. MaxDeaths /\ deaths < MaxDeaths /\ deaths' = deaths + 1
      BY <3>1, <1>a DEF SessionDies, TypeOK
    <3> QED
      BY <1>a, <3>2, <3>3, <3>4, Domains, LeaseConstants DEF Memory
  <2>2. CASE \E k \in Key : GhostEnds(k)
    <3>1. PICK k \in Key : GhostEnds(k)
      BY <2>2
    <3>2. Ghost \notin Pod /\ Free \notin Pod /\ alive' = alive /\ alive \subseteq Pod /\ deaths' \in 0 .. MaxDeaths
      BY <3>1, <1>a, Domains, LeaseConstants DEF GhostEnds, TypeOK
    <3>3. locks[k] = Ghost /\ locks' = [locks EXCEPT ![k] = Free]
      BY <3>1 DEF GhostEnds
    <3> QED
      BY <1>a, <3>2, <3>3, Domains DEF Memory
  <2> QED
    BY <2>1, <2>2
<1>1. TypeOK'
  BY <1>a, <1>b, <1>c DEF TypeOK
<1>2. Slots' /\ Sessions'
  BY <1>a, <1>b DEF Slots, Sessions
<1>3. Memory'
  BY <1>a, <1>b, <1>c, Domains DEF Memory
<1>4. Orphans'
  BY <1>a, <1>b, <1>c DEF Orphans, Undoing
<1> QED
  BY <1>1, <1>2, <1>3, <1>4 DEF Inv

LEMMA Start == Init => Inv
<1> SUFFICES ASSUME Init PROVE Inv
  OBVIOUS
<1>1. TypeOK
  BY LeaseConstants DEF Init, TypeOK
<1>2. Slots /\ Sessions
  BY LeaseConstants DEF Init, Slots, Holding, Sessions
<1>3. Memory /\ Orphans
  BY LeaseConstants DEF Init, Memory, Orphans
<1> QED
  BY <1>1, <1>2, <1>3 DEF Inv

LEMMA Invariance == Spec => []Inv
<1>1. Inv /\ [Next]_vars => Inv'
  <2> SUFFICES ASSUME Inv, [Next]_vars PROVE Inv'
    OBVIOUS
  <2>1. CASE UNCHANGED vars
    <3> USE <2>1 DEF vars, session, closing, call
    <3>1. TypeOK'
      BY DEF Inv, TypeOK
    <3>2. Slots' /\ Sessions'
      BY DEF Inv, Slots, Sessions
    <3>3. Memory' /\ Orphans'
      BY DEF Inv, Memory, Orphans, Undoing
    <3> QED
      BY <3>1, <3>2, <3>3 DEF Inv
  <2>2. ASSUME NEW c \in Call, Own(c) PROVE Inv'
    BY <2>2, OwnTypes, OwnSlots, OwnSessions, OwnMemory, OwnOrphans DEF Inv
  <2> QED
    BY <2>1, <2>2, CloseStep, ServerStep DEF Next
<1> QED
  BY <1>1, Start, PTL DEF Spec

-----------------------------------------------------------------------------
(* The theorems. *)

\* For any pods and accounts, no lock is orphaned and nothing is remembered that a live
\* session does not have (Own, recoverFailedLock, releaseSlot, closeSession).
THEOREM MemoryIsTheServers == Spec => []LeaseMatchesLocks
<1>1. Inv => LeaseMatchesLocks
  BY LeaseConstants DEF Inv, Memory, Orphans, LeaseMatchesLocks
<1> QED
  BY <1>1, Invariance, PTL

\* A call that answers that the pod owns the account has a session (releaseSlot).
THEOREM OwnersKeepTheirSession == Spec => []OwnersSessionIsOpen
<1>1. Inv => OwnersSessionIsOpen
  BY DEF Inv, Sessions, OwnersSessionIsOpen
<1> QED
  BY <1>1, Invariance, PTL

\* Ownership is the server's word in the step that finds it (the ping and the lock query
\* of Own).
THEOREM ServerConfirms == Spec => OwnershipIsConfirmed
<1>1. ASSUME Inv, Next, NEW c \in Call, pc[c] # "admitting", pc'[c] = "admitting"
      PROVE  locks[key[c]] \in {Free, PodOf[c]} /\ locks'[key[c]] = PodOf[c]
  <2>1. Own(c)
    <3>1. ASSUME NEW d \in Call, Own(d) PROVE d = c
      BY <1>1, <3>1, OwnFrame DEF Inv
    <3>2. ASSUME NEW p \in Pod, MarkClosed(p) \/ CloseProceeds(p) \/ SessionDies(p) PROVE FALSE
      BY <1>1, <3>2 DEF MarkClosed, CloseProceeds, CloserTakesSlot, CloserWaits, CloserGivesUp, CloserCloses,
         SessionDies, call
    <3>3. ASSUME NEW k \in Key, GhostEnds(k) PROVE FALSE
      BY <1>1, <3>3 DEF GhostEnds, call
    <3> QED
      BY <1>1, <3>1, <3>2, <3>3 DEF Next
  <2>2. pc \in [Call -> {"new", "waiting", "entered", "pinging", "connecting", "locking",
                      "recovering", "admitting", "leaving", "releasing", "over"}]
    BY <1>1 DEF Inv, TypeOK
  <2>3. Ping(c) \/ TryLock(c)
    BY <1>1, <2>1, <2>2 DEF Own, Enter, AcquireSlot, Begin, Ping, Connect, TryLock, Recover, Admit, Leave, ReleaseSlot, Goto
  <2>4. CASE Ping(c)
    <3>1. PodOf[c] \in alive /\ key[c] \in heldKeys[PodOf[c]] /\ UNCHANGED session
      BY <1>1, <2>2, <2>4 DEF Ping, Goto
    <3> QED
      BY <1>1, <3>1, LeaseConstants DEF Inv, Memory, session
  <2>5. CASE TryLock(c)
    <3>1. key[c] \in Key
      BY <1>1, <2>5 DEF TryLock, HasSlot, Inv, Sessions
    <3>2. Grantable(PodOf[c], key[c]) /\ locks' = [locks EXCEPT ![key[c]] = PodOf[c]]
      BY <1>1, <2>2, <2>5 DEF TryLock, Goto
    <3> QED
      BY <1>1, <3>1, <3>2, Domains DEF Grantable, Inv
  <2> QED
    BY <2>3, <2>4, <2>5
<1>2. Inv /\ [Next]_vars => [\A c \in Call : pc[c] # "admitting" /\ pc'[c] = "admitting" =>
                               locks[key[c]] \in {Free, PodOf[c]} /\ locks'[key[c]] = PodOf[c]]_vars
  BY <1>1
<1> QED
  BY <1>2, Invariance, PTL DEF Spec, OwnershipIsConfirmed
=============================================================================
