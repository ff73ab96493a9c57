--------------------- MODULE CampaignVersionLockProofs ---------------------
(***************************************************************************)
(* Proofs about CampaignVersionLock, for every set of requests and         *)
(* sessions and any number of losses.  The inductive invariant says who    *)
(* has the lock, from the sessions alone, and that a version identifies    *)
(* its row.                                                                *)
(***************************************************************************)
EXTENDS CampaignVersionLock, TLAPS

CheckedOut(r) == pc[r] \notin {"new", "loaded", "over"}

\* A session serves one request; one that lives holds the lock; the lock is held
\* by a session that is checked out.
Sessions ==
  /\ \A r, q \in Request : conn[r] # None /\ conn[r] = conn[q] => r = q
  /\ \A r \in Request : CheckedOut(r) <=> conn[r] # None
  /\ \A r \in Request : conn[r] # None /\ r \notin lost => holder = conn[r]
  /\ holder # None => \E r \in Request : conn[r] = holder

VersionsIdentifyRows ==
  \A r \in Request :
    /\ seen[r].version <= row.version
    /\ seen[r].version = row.version => seen[r] = row

TogglesAreProvisioned ==
  \A r \in Request : pc[r] # "new" /\ op[r] \in RunStatus => row.status # "pending"

Toggles(r) == op[r] \in RunStatus /\ pc[r] \in Claiming /\ r \notin lost

TogglesAreCurrent == \A r \in Request : Toggles(r) => VersionStands(r)

Rows == VersionsIdentifyRows /\ TogglesAreProvisioned /\ TogglesAreCurrent

\* Only toggles call the platform.
CallersAreToggles ==
  \A r \in Request :
    /\ r \in wire => pc[r] \notin {"new", "loaded"} /\ op[r] \in RunStatus
    /\ pc[r] \in Claiming \ {"claimed"} => op[r] \in RunStatus

LockInv == TypeOK /\ CallersAreToggles /\ Sessions /\ Rows

\* While no session is lost, what the platform has not answered is still waited for,
\* and what it confirmed is what it has.
CallsAreSettled ==
  losses = 0 =>
    /\ lost = {}
    /\ \A r \in Request : r \in wire => pc[r] \in {"calling", "cooling"}
    /\ \A r \in Request : pc[r] \in {"applied", "persisting"} => platform = op[r]

-----------------------------------------------------------------------------
(* Types. *)

\* Bump adds one to a row's version and leaves the rest.
LEMMA Bumped ==
  ASSUME NEW w \in Row
  PROVE  /\ Bump(w) \in Row
         /\ Bump(w).version = w.version + 1
         /\ Bump(w).status = w.status
         /\ Bump(w).edit = w.edit
BY DEF Bump, Row

\* What a writer writes is a row, the version after the one it read: a toggle
\* changes the status of it, an edit the rest.
LEMMA EditedRow ==
  ASSUME TypeOK, NEW r \in Request, op[r] = "edit" \/ op[r] \in RunStatus
  PROVE  /\ Edited(r) \in Row
         /\ Edited(r) # row =>
              /\ Edited(r).version = seen[r].version + 1
              /\ \/ op[r] \in RunStatus /\ Edited(r).edit = seen[r].edit
                                        /\ Edited(r).status = op[r]
                 \/ Edited(r).status = seen[r].status
<1>1. seen[r] \in Row /\ row \in Row BY DEF TypeOK
<1>2. /\ Bump(seen[r]) \in Row
      /\ Bump(seen[r]).version = seen[r].version + 1
      /\ Bump(seen[r]).status = seen[r].status
      /\ Bump(seen[r]).edit = seen[r].edit
  BY <1>1, Bumped
<1>3. CASE op[r] = "edit"
  <2>1. Edited(r) = [Bump(seen[r]) EXCEPT !.edit = r]
    BY <1>3 DEF Edited, RunStatus
  <2>. QED BY <1>2, <1>3, <2>1 DEF Row
<1>4. CASE op[r] \in RunStatus /\ seen[r].status = Degraded
  BY <1>1, <1>4 DEF Edited, RunStatus
<1>5. CASE op[r] \in RunStatus /\ seen[r].status # Degraded
  <2>1. Edited(r) = [Bump(seen[r]) EXCEPT !.status = op[r]]
    BY <1>5 DEF Edited, RunStatus
  <2>. QED BY <1>2, <1>5, <2>1 DEF Row, Deletable, Toggleable
<1>. QED BY <1>3, <1>4, <1>5

LEMMA InitTypeOK == Init => TypeOK /\ CallersAreToggles
<1>. SUFFICES ASSUME Init PROVE TypeOK /\ CallersAreToggles OBVIOUS
<1>1. row \in Row
  BY DEF Init, Row, RunStatus, Deletable, Toggleable
<1>. QED BY <1>1, LockConstants DEF Init, TypeOK, CallersAreToggles, RunStatus, Claiming

LEMMA NextTypeOK == TypeOK /\ CallersAreToggles /\ [Next]_vars => TypeOK' /\ CallersAreToggles'
<1>. SUFFICES ASSUME TypeOK, CallersAreToggles, [Next]_vars PROVE TypeOK' /\ CallersAreToggles'
  OBVIOUS
<1>. USE LockConstants DEF TypeOK, CallersAreToggles, Claiming, sessions, Goto, Idle
<1>1. CASE UNCHANGED vars
  BY <1>1 DEF vars
<1>2. ASSUME NEW r \in Request, Load(r) PROVE TypeOK' /\ CallersAreToggles'
  BY <1>2 DEF Load
<1>3. ASSUME NEW r \in Request, Claim(r) PROVE TypeOK' /\ CallersAreToggles'
  BY <1>3 DEF Claim
<1>4. ASSUME NEW r \in Request, ClaimFails(r) PROVE TypeOK' /\ CallersAreToggles'
  BY <1>4 DEF ClaimFails, AfterLostAnswer
<1>5. ASSUME NEW r \in Request, Delete(r) PROVE TypeOK' /\ CallersAreToggles'
  <2>1. row' \in Row
    BY <1>5, Bumped DEF Delete, Row
  <2>. QED BY <1>5, <2>1 DEF Delete
<1>6. ASSUME NEW r \in Request, Send(r) PROVE TypeOK' /\ CallersAreToggles'
  BY <1>6 DEF Send
<1>7. ASSUME NEW r \in Request, Refuse(r) PROVE TypeOK' /\ CallersAreToggles'
  BY <1>7 DEF Refuse
<1>8. ASSUME NEW r \in Request, Confirmed(r) \/ Rejected(r) PROVE TypeOK' /\ CallersAreToggles'
  BY <1>8 DEF Confirmed, Rejected
<1>9. ASSUME NEW r \in Request, Unconfirmed(r) \/ CooldownEnds(r) PROVE TypeOK' /\ CallersAreToggles'
  BY <1>9 DEF Unconfirmed, CooldownEnds, AfterUnconfirmed
<1>10. ASSUME NEW r \in Request, Persist(r) PROVE TypeOK' /\ CallersAreToggles'
  <2>1. op[r] = "edit" \/ op[r] \in RunStatus
    BY <1>10 DEF Persist
  <2>2. row' \in Row
    BY <1>10, <2>1, EditedRow DEF Persist
  <2>. QED BY <1>10, <2>2 DEF Persist
<1>11. ASSUME NEW r \in Request, Release(r) PROVE TypeOK' /\ CallersAreToggles'
  BY <1>11 DEF Release, WithoutLockOf
<1>12. ASSUME NEW r \in Request, PlatformApplies(r) PROVE TypeOK' /\ CallersAreToggles'
  <2>1. CASE pc[r] = "calling" BY <1>12, <2>1 DEF PlatformApplies
  <2>2. CASE pc[r] # "calling" BY <1>12, <2>2 DEF PlatformApplies
  <2>. QED BY <2>1, <2>2
<1>13. ASSUME NEW r \in Request, PlatformDrops(r) PROVE TypeOK' /\ CallersAreToggles'
  BY <1>13 DEF PlatformDrops
<1>14. ASSUME NEW r \in Request, LoseSession(r) PROVE TypeOK' /\ CallersAreToggles'
  BY <1>14 DEF LoseSession, WithoutLockOf
<1>15. ASSUME NEW r \in Request, Stop(r) PROVE TypeOK' /\ CallersAreToggles'
  BY <1>15 DEF Stop, WithoutLockOf
<1>16. CASE DispatchFinalizes
  <2>1. row' \in Row
    <3>1. PICK t \in {"created", Degraded} : row' = [Bump(row) EXCEPT !.status = t, !.edit = None]
      BY <1>16 DEF DispatchFinalizes
    <3>. QED BY <3>1, Bumped DEF Row, Deletable, Toggleable
  <2>. QED BY <1>16, <2>1 DEF DispatchFinalizes
<1>. QED
  BY <1>1, <1>2, <1>3, <1>4, <1>5, <1>6, <1>7, <1>8, <1>9, <1>10, <1>11, <1>12, <1>13,
     <1>14, <1>15, <1>16 DEF Next, Handler, Platform

\* Rows, sessions and program counters stay in their types; every toggle on the wire
\* is a run status.
THEOREM TypeCorrectness == Spec => []TypeOK
<1>. QED BY InitTypeOK, NextTypeOK, PTL DEF Spec

-----------------------------------------------------------------------------
(* Sessions. *)

LEMMA InitSessions == Init => Sessions
BY LockConstants DEF Init, Sessions, CheckedOut

\* The lock is granted to an idle session only if every session checked out is dead.
LEMMA GrantedMeansFree ==
  ASSUME TypeOK, Sessions, NEW c \in Idle, LockGranted(c)
  PROVE  \A q \in Request : conn[q] # None => q \in lost
<1>. SUFFICES ASSUME NEW q \in Request, conn[q] # None, q \notin lost PROVE FALSE OBVIOUS
<1>1. holder = conn[q] BY DEF Sessions
<1>2. conn[q] # c BY DEF Idle
<1>. QED BY <1>1, <1>2 DEF LockGranted

\* What is left of the lock without request r's session is held by another session.
LEMMA LockWithout ==
  ASSUME TypeOK, Sessions, NEW r \in Request
  PROVE  /\ \A q \in Request \ {r} : conn[q] # None /\ q \notin lost => WithoutLockOf(r) = conn[q]
         /\ WithoutLockOf(r) # None => \E q \in Request \ {r} : conn[q] = WithoutLockOf(r)
<1>1. ASSUME NEW q \in Request \ {r}, conn[q] # None, q \notin lost
      PROVE  WithoutLockOf(r) = conn[q]
  <2>1. holder = conn[q] /\ conn[q] # conn[r] BY <1>1 DEF Sessions
  <2>. QED BY <2>1 DEF WithoutLockOf
<1>2. ASSUME WithoutLockOf(r) # None
      PROVE  \E q \in Request \ {r} : conn[q] = WithoutLockOf(r)
  <2>1. holder # None /\ holder # conn[r] /\ WithoutLockOf(r) = holder
    BY <1>2 DEF WithoutLockOf
  <2>. QED BY <2>1 DEF Sessions
<1>. QED BY <1>1, <1>2

LEMMA NextSessions == TypeOK /\ Sessions /\ [Next]_vars => Sessions'
<1>. SUFFICES ASSUME TypeOK, Sessions, [Next]_vars PROVE Sessions'
  OBVIOUS
<1>1. CASE UNCHANGED vars \/ DispatchFinalizes
  BY <1>1 DEF vars, DispatchFinalizes, sessions, Sessions, CheckedOut
<1>2. ASSUME NEW r \in Request, Load(r) \/ Delete(r) PROVE Sessions'
  BY <1>2 DEF Load, Delete, Goto, sessions, Sessions, CheckedOut, TypeOK
<1>3. ASSUME NEW r \in Request, Claim(r) PROVE Sessions'
  <2>1. PICK c \in Idle : /\ LockGranted(c)
                          /\ holder' = c
                          /\ conn' = [conn EXCEPT ![r] = c]
    BY <1>3 DEF Claim
  <2>2. \A q \in Request : conn[q] # None => q \in lost
    BY <2>1, GrantedMeansFree
  <2>3. c # None /\ \A q \in Request : conn[q] # c
    BY LockConstants DEF Idle
  <2>. QED BY <1>3, <2>1, <2>2, <2>3 DEF Claim, Goto, Sessions, CheckedOut, TypeOK
<1>4. ASSUME NEW r \in Request, ClaimFails(r) PROVE Sessions'
  <2>1. conn' = conn /\ lost' = lost /\ pc[r] = "loaded" /\ pc' = [pc EXCEPT ![r] = "over"]
    BY <1>4 DEF ClaimFails, Goto
  <2>2. CASE holder' = holder
    BY <2>1, <2>2 DEF Sessions, CheckedOut, TypeOK
  <2>3. CASE \E c \in Idle : LockGranted(c) /\ holder' = AfterLostAnswer(c)
    <3>1. holder' = None /\ \A q \in Request : conn[q] # None => q \in lost
      BY <2>3, GrantedMeansFree DEF AfterLostAnswer
    <3>. QED BY <2>1, <3>1 DEF Sessions, CheckedOut, TypeOK
  <2>. QED BY <1>4, <2>2, <2>3 DEF ClaimFails
<1>5. ASSUME NEW r \in Request,
             \/ Send(r) \/ Refuse(r) \/ Confirmed(r) \/ Rejected(r)
             \/ Unconfirmed(r) \/ CooldownEnds(r) \/ Persist(r)
      PROVE  Sessions'
  BY <1>5 DEF Send, Refuse, Confirmed, Rejected, Unconfirmed, CooldownEnds, Persist,
              AfterUnconfirmed, Goto, sessions, Sessions, CheckedOut, TypeOK
<1>6. ASSUME NEW r \in Request, Platform(r) PROVE Sessions'
  <2>1. holder' = holder /\ conn' = conn /\ lost' = lost
    BY <1>6 DEF Platform, PlatformApplies, PlatformDrops, sessions
  <2>2. \A q \in Request : CheckedOut(q)' <=> CheckedOut(q)
    BY <1>6 DEF Platform, PlatformApplies, PlatformDrops, CheckedOut, TypeOK
  <2>. QED BY <2>1, <2>2 DEF Sessions
<1>7. ASSUME NEW r \in Request, Release(r) \/ Stop(r) PROVE Sessions'
  <2>1. /\ holder' = WithoutLockOf(r)
        /\ conn' = [conn EXCEPT ![r] = None]
        /\ lost' = lost \ {r}
        /\ pc' = [pc EXCEPT ![r] = "over"]
    BY <1>7 DEF Release, Stop, Goto
  <2>. QED BY <2>1, LockWithout DEF Sessions, CheckedOut, TypeOK
<1>8. ASSUME NEW r \in Request, LoseSession(r) PROVE Sessions'
  <2>1. holder' = WithoutLockOf(r) /\ conn' = conn /\ lost' = lost \cup {r} /\ pc' = pc
    BY <1>8 DEF LoseSession
  <2>. QED BY <2>1, LockWithout DEF Sessions, CheckedOut, TypeOK
<1>. QED
  BY <1>1, <1>2, <1>3, <1>4, <1>5, <1>6, <1>7, <1>8 DEF Next, Handler, Platform

-----------------------------------------------------------------------------
(* Rows. *)

LEMMA InitRows == Init => Rows
<1>. SUFFICES ASSUME Init PROVE Rows OBVIOUS
<1>1. row.version = 1 BY DEF Init
<1>. QED BY <1>1 DEF Init, Rows, VersionsIdentifyRows, TogglesAreProvisioned, TogglesAreCurrent,
            Toggles, Claiming

\* A write of the row by request r, or by the dispatch, keeps what the requests know
\* of it, if no other toggle counts on the version it replaces.
LEMMA WriteKeepsRows ==
  ASSUME TypeOK, Rows, seen' = seen, op' = op, row' \in Row,
         row'.version = row.version + 1,
         \A q \in Request : pc[q] # "new" /\ op[q] \in RunStatus => row'.status # "pending",
         \A q \in Request : pc'[q] # "new" => pc[q] # "new",
         \A q \in Request : ~Toggles(q)'
  PROVE  Rows'
<1>1. \A q \in Request : seen[q].version \in Nat /\ row.version \in Nat
  BY DEF TypeOK, Row
<1>. QED BY <1>1 DEF Rows, VersionsIdentifyRows, TogglesAreProvisioned, TogglesAreCurrent

LEMMA NextRows == TypeOK /\ Sessions /\ CallersAreToggles /\ Rows /\ [Next]_vars => Rows'
<1>. SUFFICES ASSUME TypeOK, Sessions, CallersAreToggles, Rows, [Next]_vars PROVE Rows'
  OBVIOUS
<1>1. CASE UNCHANGED vars
  BY <1>1 DEF vars, sessions, Rows, VersionsIdentifyRows, TogglesAreProvisioned,
              TogglesAreCurrent, Toggles, VersionStands
<1>2. ASSUME NEW r \in Request, Load(r) PROVE Rows'
  <2>1. /\ row' = row /\ lost' = lost
        /\ seen' = [seen EXCEPT ![r] = row]
        /\ pc' = [pc EXCEPT ![r] = "loaded"]
        /\ row.version \in Nat
    BY <1>2 DEF Load, Goto, sessions, TypeOK, Row
  <2>2. PICK o \in RunStatus \cup {"edit", "delete"} : Allowed(o) /\ op' = [op EXCEPT ![r] = o]
    BY <1>2 DEF Load
  <2>3. o \in RunStatus => row.status # "pending"
    BY <2>2 DEF Allowed, RunStatus, Toggleable, Degraded
  <2>4. VersionsIdentifyRows'
    BY <2>1 DEF Rows, VersionsIdentifyRows, TypeOK
  <2>5. TogglesAreProvisioned'
    BY <2>1, <2>2, <2>3 DEF Rows, TogglesAreProvisioned, TypeOK
  <2>6. TogglesAreCurrent'
    BY <2>1, <2>2 DEF Rows, TogglesAreCurrent, Toggles, Claiming, VersionStands, TypeOK
  <2>. QED BY <2>4, <2>5, <2>6 DEF Rows
<1>3. ASSUME NEW r \in Request, Claim(r) PROVE Rows'
  BY <1>3 DEF Claim, Goto, Rows, VersionsIdentifyRows, TogglesAreProvisioned,
              TogglesAreCurrent, Toggles, VersionStands, Claiming, TypeOK
<1>4. ASSUME NEW r \in Request, row' = row, seen' = seen, op' = op, lost \subseteq lost' \cup {r},
             pc[r] # "new",
             \A q \in Request \ {r} : pc'[q] = pc[q],
             Toggles(r)' => Toggles(r)
      PROVE  Rows'
  BY <1>4 DEF Rows, VersionsIdentifyRows, TogglesAreProvisioned, TogglesAreCurrent,
              Toggles, VersionStands
<1>5. ASSUME NEW r \in Request,
             \/ ClaimFails(r) \/ Send(r) \/ Refuse(r) \/ Confirmed(r) \/ Rejected(r)
             \/ Unconfirmed(r) \/ CooldownEnds(r)
      PROVE  Rows'
  BY <1>4, <1>5 DEF ClaimFails, Send, Refuse, Confirmed, Rejected, Unconfirmed, CooldownEnds,
              AfterUnconfirmed, Goto, sessions, Toggles, Claiming, CallersAreToggles, TypeOK
<1>6. ASSUME NEW r \in Request, Release(r) \/ Stop(r) \/ LoseSession(r) PROVE Rows'
  <2>1. pc[r] # "new"
    BY <1>6 DEF Release, Stop, LoseSession, Sessions, CheckedOut
  <2>. QED BY <1>4, <1>6, <2>1 DEF Release, Stop, LoseSession, Goto, Toggles, Claiming, TypeOK
<1>7. ASSUME NEW r \in Request, Platform(r) PROVE Rows'
  <2>1. pc[r] # "new"
    BY <1>7 DEF Platform, PlatformApplies, PlatformDrops, CallersAreToggles
  <2>. QED BY <1>4, <1>7, <2>1 DEF Platform, PlatformApplies, PlatformDrops, sessions, Toggles,
              Claiming, TypeOK
<1>8. ASSUME NEW r \in Request, Persist(r) PROVE Rows'
  <2>1. /\ seen' = seen /\ op' = op /\ lost' = lost /\ pc[r] \in {"claimed", "persisting"}
        /\ pc' = [pc EXCEPT ![r] = "releasing"]
    BY <1>8 DEF Persist, Goto, sessions
  <2>2. CASE row' = row
    BY <1>4, <2>1, <2>2 DEF Toggles, Claiming, TypeOK
  <2>3. CASE row' # row
    <3>1. r \notin lost /\ VersionStands(r) /\ row' = Edited(r)
      BY <1>8, <2>3 DEF Persist
    <3>2. op[r] = "edit" \/ op[r] \in RunStatus
      BY <1>8 DEF Persist, CallersAreToggles, Claiming
    <3>3. seen[r] = row
      BY <3>1 DEF Rows, VersionsIdentifyRows, VersionStands
    <3>4. row' \in Row /\ row'.version = row.version + 1
          /\ (row'.status \in RunStatus \/ row'.status = row.status)
      BY <2>3, <3>1, <3>2, <3>3, EditedRow
    <3>5. \A q \in Request : pc[q] # "new" /\ op[q] \in RunStatus => row'.status # "pending"
      BY <3>4 DEF Rows, TogglesAreProvisioned, RunStatus
    <3>6. \A q \in Request : ~Toggles(q)'
      <4>. SUFFICES ASSUME NEW q \in Request, Toggles(q)' PROVE FALSE OBVIOUS
      <4>1. q # r /\ pc[q] \in Claiming /\ q \notin lost
        BY <2>1 DEF Toggles, Claiming, TypeOK
      <4>2. conn[q] # None /\ holder = conn[q]
        BY <4>1 DEF Sessions, CheckedOut, Claiming
      <4>3. conn[r] # None /\ holder = conn[r]
        BY <2>1, <3>1 DEF Sessions, CheckedOut
      <4>. QED BY <4>1, <4>2, <4>3 DEF Sessions
    <3>7. \A q \in Request : pc'[q] # "new" => pc[q] # "new"
      BY <2>1 DEF TypeOK
    <3>. QED BY <2>1, <3>4, <3>5, <3>6, <3>7, WriteKeepsRows
  <2>. QED BY <2>2, <2>3
<1>9. ASSUME NEW r \in Request, Delete(r) PROVE Rows'
  <2>1. /\ seen' = seen /\ op' = op /\ lost' = lost /\ conn' = conn /\ pc[r] = "loaded"
        /\ pc' = [pc EXCEPT ![r] = "over"]
        /\ row' = [Bump(row) EXCEPT !.status = "deleted"]
    BY <1>9 DEF Delete, Goto, sessions
  <2>2. row' \in Row /\ row'.version = row.version + 1 /\ row'.status = "deleted"
    BY <2>1, Bumped DEF TypeOK, Row
  <2>3. \A q \in Request : ~Toggles(q)'
    <3>. SUFFICES ASSUME NEW q \in Request, Toggles(q)' PROVE FALSE OBVIOUS
    <3>1. pc[q] \in Claiming /\ q \notin lost
      BY <2>1 DEF Toggles, Claiming, TypeOK
    <3>2. conn[q] # None BY <3>1 DEF Sessions, CheckedOut, Claiming
    <3>3. \E c \in Idle : LockGranted(c) BY <1>9 DEF Delete, MayDelete
    <3>. QED BY <3>1, <3>2, <3>3, GrantedMeansFree
  <2>4. \A q \in Request : pc'[q] # "new" => pc[q] # "new"
    BY <2>1 DEF TypeOK
  <2>. QED BY <2>1, <2>2, <2>3, <2>4, WriteKeepsRows
<1>10. CASE DispatchFinalizes
  <2>1. /\ seen' = seen /\ op' = op /\ lost' = lost /\ pc' = pc /\ row.status = "pending"
    BY <1>10 DEF DispatchFinalizes, sessions
  <2>2. PICK t \in {"created", Degraded} : row' = [Bump(row) EXCEPT !.status = t, !.edit = None]
    BY <1>10 DEF DispatchFinalizes
  <2>3. row' \in Row /\ row'.version = row.version + 1 /\ row'.status = t
    BY <2>2, Bumped DEF TypeOK, Row, Deletable, Toggleable
  <2>4. row'.status # "pending"
    BY <2>3 DEF Degraded
  <2>5. \A q \in Request : ~Toggles(q)'
    BY <2>1 DEF Toggles, Claiming, Rows, TogglesAreProvisioned
  <2>. QED BY <2>1, <2>3, <2>4, <2>5, WriteKeepsRows
<1>. QED
  BY <1>1, <1>2, <1>3, <1>5, <1>6, <1>7, <1>8, <1>9, <1>10 DEF Next, Handler, Platform

-----------------------------------------------------------------------------
(* Calls, while no session is lost. *)

LEMMA InitCalls == Init => CallsAreSettled
BY DEF Init, CallsAreSettled

\* Without losses one request at a time is between its claim and its release.
LEMMA OneCheckedOut ==
  ASSUME Sessions, lost = {}, NEW r \in Request, NEW q \in Request, CheckedOut(r), CheckedOut(q)
  PROVE  r = q
BY DEF Sessions

LEMMA NextCalls == LockInv /\ CallsAreSettled /\ [Next]_vars => CallsAreSettled'
<1>. SUFFICES ASSUME LockInv, CallsAreSettled, [Next]_vars, losses' = 0
              PROVE  /\ lost' = {}
                     /\ \A r \in Request : r \in wire' => pc'[r] \in {"calling", "cooling"}
                     /\ \A r \in Request : pc'[r] \in {"applied", "persisting"} => platform' = op'[r]
  BY DEF CallsAreSettled
<1>. DEFINE Settled == /\ lost' = {}
                       /\ \A r \in Request : r \in wire' => pc'[r] \in {"calling", "cooling"}
                       /\ \A r \in Request : pc'[r] \in {"applied", "persisting"} => platform' = op'[r]
<1>1. TypeOK /\ Sessions /\ CallersAreToggles
  BY DEF LockInv
<1>2. \/ UNCHANGED <<platform, wire, op, pc>>
      \/ \E r \in Request : Load(r) \/ Handler(r) \/ Platform(r)
  BY <1>1 DEF Next, LoseSession, Stop, DispatchFinalizes, vars, TypeOK
<1>3. losses = 0
  BY <1>1 DEF Next, Load, Handler, Platform, Claim, ClaimFails, Delete, Send, Refuse, Confirmed,
     Rejected, Unconfirmed, CooldownEnds, Persist, Release, PlatformApplies, PlatformDrops,
     LoseSession, Stop, DispatchFinalizes, vars, TypeOK
<1>4. /\ lost = {}
      /\ \A r \in Request : r \in wire => pc[r] \in {"calling", "cooling"}
      /\ \A r \in Request : pc[r] \in {"applied", "persisting"} => platform = op[r]
  BY <1>3 DEF CallsAreSettled
<1>5. lost' = {}
  BY <1>1, <1>3, <1>4 DEF Next, Load, Handler, Platform, Claim, ClaimFails, Delete, Send, Refuse,
     Confirmed, Rejected, Unconfirmed, CooldownEnds, Persist, Release, PlatformApplies,
     PlatformDrops, LoseSession, Stop, DispatchFinalizes, vars, sessions, TypeOK
<1>6. CASE UNCHANGED <<platform, wire, op, pc>>
  BY <1>4, <1>5, <1>6
<1>7. ASSUME NEW r \in Request, Load(r) PROVE Settled
  BY <1>1, <1>4, <1>5, <1>7 DEF Load, Goto, TypeOK
<1>8. ASSUME NEW r \in Request,
             \/ Claim(r) \/ ClaimFails(r) \/ Delete(r) \/ Send(r) \/ Refuse(r) \/ Confirmed(r)
             \/ Rejected(r) \/ Unconfirmed(r) \/ CooldownEnds(r) \/ Persist(r) \/ Release(r)
      PROVE  Settled
  BY <1>1, <1>4, <1>5, <1>8 DEF Claim, ClaimFails, Delete, Send, Refuse, Confirmed, Rejected,
     Unconfirmed, CooldownEnds, Persist, Release, AfterUnconfirmed, Goto, TypeOK
<1>9. ASSUME NEW r \in Request, PlatformApplies(r) PROVE Settled
  <2>1. \A q \in Request : q # r => ~CheckedOut(q)
    BY <1>1, <1>4, <1>9, OneCheckedOut DEF PlatformApplies, CheckedOut
  <2>2. /\ platform' = op[r] /\ op' = op /\ wire' = wire \ {r}
        /\ \A q \in Request : q # r => pc'[q] = pc[q]
    BY <1>9 DEF PlatformApplies
  <2>. QED BY <1>4, <1>5, <2>1, <2>2 DEF CheckedOut
<1>10. ASSUME NEW r \in Request, PlatformDrops(r) PROVE Settled
  BY <1>4, <1>5, <1>10 DEF PlatformDrops
<1>. QED BY <1>2, <1>6, <1>7, <1>8, <1>9, <1>10 DEF Handler, Platform

-----------------------------------------------------------------------------
(* The properties. *)

LEMMA LockInvariant == Spec => []LockInv
<1>1. Init => LockInv
  BY InitTypeOK, InitSessions, InitRows DEF LockInv
<1>2. LockInv /\ [Next]_vars => LockInv'
  BY NextTypeOK, NextSessions, NextRows DEF LockInv
<1>. QED BY <1>1, <1>2, PTL DEF Spec

\* A toggle whose session lives keeps its lock and its version from claim to write.
THEOREM ClaimsStand == Spec => []ClaimedVersionStands
<1>1. LockInv => ClaimedVersionStands
  BY DEF LockInv, ClaimedVersionStands, Sessions, CheckedOut, Claiming, Rows,
         TogglesAreCurrent, Toggles
<1>. QED BY <1>1, LockInvariant, PTL

\* No session goes back to the pool with the lock.
THEOREM PooledSessionsAreClean == Spec => []IdleSessionsHoldNoLock
<1>1. LockInv => IdleSessionsHoldNoLock
  BY LockConstants DEF LockInv, IdleSessionsHoldNoLock, Sessions, Idle
<1>. QED BY <1>1, LockInvariant, PTL

\* Every write of the row is one writer's change of the version before it.
THEOREM WritesAreSerial == Spec => OneChangePerVersion
<1>. DEFINE Change == /\ row.status # "deleted"
                      /\ row'.version = row.version + 1
                      /\ row.status # "pending" =>
                           /\ row'.status # "pending"
                           /\ row'.status = row.status \/ row'.edit = row.edit
<1>1. LockInv /\ [Next]_vars => [Change]_row
  <2>. SUFFICES ASSUME LockInv, [Next]_vars, row' # row PROVE Change OBVIOUS
  <2>1. row \in Row BY DEF LockInv, TypeOK
  <2>2. ASSUME NEW r \in Request, Persist(r) PROVE Change
    <3>1. VersionStands(r) /\ row' = Edited(r)
      BY <2>2 DEF Persist
    <3>2. op[r] = "edit" \/ op[r] \in RunStatus
      BY <2>2 DEF Persist, LockInv, CallersAreToggles, Claiming
    <3>3. seen[r] = row
      BY <3>1 DEF LockInv, Rows, VersionsIdentifyRows, VersionStands
    <3>4. /\ row'.version = row.version + 1
          /\ \/ row'.status \in RunStatus /\ row'.edit = row.edit
             \/ row'.status = row.status
      BY <3>1, <3>2, <3>3, EditedRow DEF LockInv
    <3>. QED BY <3>1, <3>4 DEF VersionStands, RunStatus
  <2>3. ASSUME NEW r \in Request, Delete(r) PROVE Change
    <3>1. row' = [Bump(row) EXCEPT !.status = "deleted"] /\ VersionStands(r)
      BY <2>3 DEF Delete
    <3>. QED BY <2>1, <3>1, Bumped DEF VersionStands, Row
  <2>4. CASE DispatchFinalizes
    <3>1. row.status = "pending"
      BY <2>4 DEF DispatchFinalizes
    <3>2. PICK t \in {"created", Degraded} : row' = [Bump(row) EXCEPT !.status = t, !.edit = None]
      BY <2>4 DEF DispatchFinalizes
    <3>. QED BY <2>1, <3>1, <3>2, Bumped DEF Row
  <2>. QED
    BY <2>2, <2>3, <2>4 DEF Next, Handler, Platform, Load, Claim, ClaimFails, Send, Refuse,
       Confirmed, Rejected, Unconfirmed, CooldownEnds, Release, PlatformApplies, PlatformDrops,
       LoseSession, Stop, vars
<1>. QED BY <1>1, LockInvariant, PTL DEF Spec, OneChangePerVersion

\* Without lost sessions, a run status is written to the row only when the platform
\* has it.
THEOREM StatusIsReal == Spec => ConfirmedStatusIsReal
<1>. DEFINE Real == losses = 0 /\ row'.status \in RunStatus \ {row.status} => platform' = row'.status
<1>1. Init => LockInv /\ CallsAreSettled
  BY InitTypeOK, InitSessions, InitRows, InitCalls DEF LockInv
<1>2. LockInv /\ CallsAreSettled /\ [Next]_vars => (LockInv /\ CallsAreSettled)'
  BY NextTypeOK, NextSessions, NextRows, NextCalls DEF LockInv
<1>3. LockInv /\ CallsAreSettled /\ [Next]_vars => [Real]_vars
  <2>. SUFFICES ASSUME LockInv, CallsAreSettled, [Next]_vars, losses = 0,
                       row'.status \in RunStatus, row'.status # row.status
                PROVE  platform' = row'.status
    OBVIOUS
  <2>1. row \in Row BY DEF LockInv, TypeOK
  <2>2. ASSUME NEW r \in Request, Persist(r) PROVE platform' = row'.status
    <3>1. VersionStands(r) /\ row' = Edited(r) /\ platform' = platform
      BY <2>2 DEF Persist
    <3>2. op[r] = "edit" \/ op[r] \in RunStatus
      BY <2>2 DEF Persist, LockInv, CallersAreToggles, Claiming
    <3>3. seen[r] = row
      BY <3>1 DEF LockInv, Rows, VersionsIdentifyRows, VersionStands
    <3>4. op[r] \in RunStatus /\ row'.status = op[r]
      BY <3>1, <3>2, <3>3, EditedRow DEF LockInv
    <3>5. pc[r] = "persisting"
      BY <2>2, <3>4 DEF Persist, RunStatus
    <3>. QED BY <3>1, <3>4, <3>5 DEF CallsAreSettled
  <2>3. ASSUME NEW r \in Request, Delete(r) PROVE FALSE
    <3>1. row' = [Bump(row) EXCEPT !.status = "deleted"]
      BY <2>3 DEF Delete
    <3>. QED BY <2>1, <3>1, Bumped DEF Row, RunStatus
  <2>4. CASE DispatchFinalizes
    <3>1. PICK t \in {"created", Degraded} : row' = [Bump(row) EXCEPT !.status = t, !.edit = None]
      BY <2>4 DEF DispatchFinalizes
    <3>. QED BY <2>1, <3>1, Bumped DEF Row, RunStatus, Degraded
  <2>. QED
    BY <2>2, <2>3, <2>4 DEF Next, Handler, Platform, Load, Claim, ClaimFails, Send, Refuse,
       Confirmed, Rejected, Unconfirmed, CooldownEnds, Release, PlatformApplies, PlatformDrops,
       LoseSession, Stop, vars
<1>. QED BY <1>1, <1>2, <1>3, PTL DEF Spec, ConfirmedStatusIsReal

=============================================================================
