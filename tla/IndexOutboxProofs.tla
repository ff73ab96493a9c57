------------------------- MODULE IndexOutboxProofs -------------------------
(***************************************************************************)
(* Proofs about IndexOutbox, for every set of objects and pods, any number *)
(* of writes, crashes, lost messages and requests that arrive late.  The   *)
(* lease and the predecessor test make a claimed row the oldest pending    *)
(* one of its object, and keep it so until its request is over (Leasing).  *)
(* So whatever a connection carries is of a row the index has shown, or of *)
(* the oldest pending one (Delivery), which bounds what a late request     *)
(* can do to the index.                                                    *)
(***************************************************************************)
EXTENDS IndexOutbox, WellFoundedInduction, TLAPS

\* Rows are numbered no later than the newest write of their object.
Rows == \A i \in DOMAIN outbox : i <= last[outbox[i].of]

\* A claimed row stays leased to its pass, and the oldest of its object.
InHand ==
  \A p \in Pod : \A m \in batch[p] :
    /\ HoldsLease(p, m.id)
    /\ outbox[m.id].of = m.of
    /\ Predecessors(m.id) = {}

\* Where a pass has a request in flight or to settle.
InCall == {"awaiting", "acked", "failed"}

\* So does the row whose request is in flight; while a pass settles it, its lease
\* may be lost, but as long as it is pending it is still the oldest.
Current ==
  \A p \in Pod :
    /\ cur[p] # None <=> pc[p] \in InCall
    /\ cur[p] # None =>
         /\ cur[p].id <= last[cur[p].of]
         /\ cur[p].id \in Pending => outbox[cur[p].id].of = cur[p].of /\ Predecessors(cur[p].id) = {}
         /\ \A m \in batch[p] : m.id # cur[p].id
    /\ pc[p] = "awaiting" => HoldsLease(p, cur[p].id)

\* A message for which nothing newer can have been shown when its row is pending: the
\* index has shown its row, or the row is still pending; none of its object's pending
\* rows is older.
Carried(m) ==
  /\ m.id \in shown[m.of] \/ (m.id \in Pending /\ outbox[m.id].of = m.of)
  /\ \A i \in Pending : outbox[i].of = m.of => m.id <= i

Wire == \A p \in Pod : \A n \in 1 .. Len(wire[p]) : Carried(wire[p][n])

\* A pass that waits has its own request last on its connection, until it left.
Own == \A p \in Pod : pc[p] = "awaiting" /\ wire[p] # <<>> => wire[p][Len(wire[p])] = cur[p]

\* An acknowledged row has been shown.
Acked == \A p \in Pod : pc[p] = "acked" => cur[p].id \in shown[cur[p].of]

\* So has a published one; and nothing newer than a pending one.
Recorded ==
  \A i \in DOMAIN outbox :
    /\ outbox[i].published => i \in shown[outbox[i].of]
    /\ ~outbox[i].published => \A w \in shown[outbox[i].of] : w <= i

\* The newest write has been shown, or is pending.
Newest ==
  \A o \in Object : last[o] \in {0} \cup shown[o] \/ (last[o] \in Pending /\ outbox[last[o]].of = o)

\* A document shows a write of its object.
Shown == \A o \in Object : index[o] \in {0} \cup shown[o] /\ \A w \in shown[o] : w <= last[o]

Leasing == Rows /\ InHand /\ Current

Delivery == Wire /\ Own /\ Acked /\ Recorded /\ Newest /\ Shown

Inv == TypeOK /\ Leasing /\ Delivery

-----------------------------------------------------------------------------
(* Ids. *)

\* The maximum of FiniteSetsExt is one: a bounded set of naturals has a least bound.
LEMMA MaxIsAMaximum ==
  ASSUME NEW S \in SUBSET Nat, S # {}, NEW n \in Nat, \A x \in S : x <= n
  PROVE  Max(S) \in S /\ \A x \in S : x <= Max(S)
<1> DEFINE Bounds == {b \in Nat : \A x \in S : x <= b}
<1>1. PICK m \in Bounds : \A b \in Bounds : ~ (<<b, m>> \in OpToRel(<, Nat))
  <2>1. Bounds \subseteq Nat /\ Bounds # {}
    OBVIOUS
  <2> HIDE DEF Bounds
  <2> QED
    BY <2>1, NatLessThanWellFounded, WFMin
<1>2. \A b \in Bounds : m <= b
  <2>1. SUFFICES ASSUME NEW b \in Bounds, b < m PROVE FALSE
    OBVIOUS
  <2>2. <<b, m>> \in Nat \X Nat
    BY <2>1
  <2>3. <<b, m>> \in OpToRel(<, Nat)
    BY <2>1, <2>2, Zenon DEF OpToRel
  <2> QED
    BY <1>1, <2>3
<1>3. m \in S
  <2>1. SUFFICES ASSUME m \notin S PROVE FALSE
    OBVIOUS
  <2>2. m \in Nat /\ \A x \in S : x \in Nat /\ x < m
    BY <2>1
  <2>3. PICK x \in S : TRUE
    OBVIOUS
  <2>4. m - 1 \in Nat /\ \A y \in S : y <= m - 1
    BY <2>2, <2>3
  <2>5. m - 1 \in Bounds
    BY <2>4
  <2> QED
    BY <1>2, <2>2, <2>5
<1>4. \A x \in S : m >= x
  OBVIOUS
<1> QED
  BY <1>3, <1>4 DEF Max

\* The next id is above every id given out.
LEMMA NextIdIsNew ==
  ASSUME TypeOK
  PROVE  NextId \in Nat /\ \A o \in Object : last[o] < NextId
<1> DEFINE Ids == {0} \cup {last[o] : o \in Object}
<1>1. MaxWrites \in Nat /\ Ids \subseteq 0 .. MaxWrites
  BY OutboxConstants DEF TypeOK
<1>2. Ids \in SUBSET Nat /\ Ids # {} /\ \A x \in Ids : x <= MaxWrites
  BY <1>1
<1>3. \A o \in Object : last[o] \in Ids
  OBVIOUS
<1>4. NextId = 1 + Max(Ids)
  BY DEF NextId
<1> HIDE DEF Ids
<1>5. Max(Ids) \in Ids /\ \A x \in Ids : x <= Max(Ids)
  BY <1>1, <1>2, MaxIsAMaximum
<1>6. Max(Ids) \in Nat
  BY <1>2, <1>5
<1>7. \A o \in Object : last[o] \in Nat /\ last[o] <= Max(Ids)
  BY <1>2, <1>3, <1>5
<1> QED
  BY <1>4, <1>6, <1>7

-----------------------------------------------------------------------------
(* Types. *)

\* What is pending is a row, and a claim leases rows that nobody has.
LEMMA Domains ==
  ASSUME TypeOK
  PROVE  /\ MaxWrites \in Nat /\ Id \subseteq Nat
         /\ \A i \in Pending : i \in DOMAIN outbox /\ i \in Id /\ i \in Nat /\ outbox[i].of \in Object
         /\ \A i \in DOMAIN outbox : i \in Id /\ outbox[i] \in Row
         /\ \A i \in Claimed : i \in Pending /\ outbox[i].by = None /\ ~outbox[i].backoff
                               /\ ~outbox[i].published /\ Predecessors(i) = {}
         /\ \A o \in Object : last[o] \in Nat /\ index[o] \in Nat
         /\ \A m \in Message : m.id \in Nat /\ m.id \in Id /\ m.of \in Object
         /\ \A p \in Pod : p # None /\ batch[p] \in SUBSET Message
                           /\ (cur[p] # None => cur[p] \in Message)
<1>1. MaxWrites \in Nat /\ Id \subseteq Nat
  BY OutboxConstants DEF Id
<1>2. \A i \in DOMAIN outbox : i \in Id /\ outbox[i] \in Row
  BY DEF TypeOK
<1>3. \A i \in Pending : i \in DOMAIN outbox /\ i \in Id /\ i \in Nat /\ outbox[i].of \in Object
  BY <1>1, <1>2 DEF Pending, Row
<1>4. \A i \in Claimed : i \in Pending /\ outbox[i].by = None /\ ~outbox[i].backoff
                         /\ ~outbox[i].published /\ Predecessors(i) = {}
  BY DEF Claimed, Oldest, Claimable, Pending
<1>5. \A o \in Object : last[o] \in Nat /\ index[o] \in Nat
  BY <1>1 DEF TypeOK
<1>6. \A m \in Message : m.id \in Nat /\ m.id \in Id /\ m.of \in Object
  BY <1>1 DEF Message
<1>7. \A p \in Pod : p # None /\ batch[p] \in SUBSET Message /\ (cur[p] # None => cur[p] \in Message)
  BY OutboxConstants DEF TypeOK
<1> QED
  BY <1>1, <1>2, <1>3, <1>4, <1>5, <1>6, <1>7

\* The row updates of the relay make rows of rows.
LEMMA RowUpdates ==
  ASSUME NEW row \in Row
  PROVE  /\ Retired(row) \in Row /\ Retired(row).of = row.of /\ Retired(row).published
         /\ AfterFailure(row) \in Row /\ AfterFailure(row).of = row.of
         /\ AfterFailure(row).published = row.published
         /\ [row EXCEPT !.by = None] \in Row
         /\ [row EXCEPT !.backoff = FALSE] \in Row
         /\ \A p \in Pod : ~row.backoff /\ ~row.published => [row EXCEPT !.by = p] \in Row
<1>1. row \in [of: Object, by: Pod \cup {None}, backoff: BOOLEAN, published: BOOLEAN]
      /\ (row.by # None => ~row.backoff /\ ~row.published)
  BY DEF Row
<1> QED
  BY <1>1 DEF Row, Retired, AfterFailure

\* A claim leases rows, and changes nothing else of them.
LEMMA LeaseRows ==
  ASSUME TypeOK, NEW p \in Pod
  PROVE  /\ DOMAIN Lease(p) = DOMAIN outbox
         /\ \A i \in DOMAIN outbox : Lease(p)[i] \in Row /\ Lease(p)[i].of = outbox[i].of
                                     /\ Lease(p)[i].published = outbox[i].published
         /\ \A i \in Claimed : Lease(p)[i].by = p
         /\ \A i \in DOMAIN outbox \ Claimed : Lease(p)[i] = outbox[i]
<1>1. \A i \in Claimed : ~outbox[i].backoff /\ ~outbox[i].published /\ i \in DOMAIN outbox
  BY Domains
<1>2. \A i \in DOMAIN outbox : outbox[i] \in Row
  BY Domains
<1>3. \A i \in Claimed : Lease(p)[i] = [outbox[i] EXCEPT !.by = p]
  BY <1>1 DEF Lease
<1>4. \A i \in Claimed : Lease(p)[i] \in Row /\ Lease(p)[i].of = outbox[i].of
                         /\ Lease(p)[i].published = outbox[i].published /\ Lease(p)[i].by = p
  <2> SUFFICES ASSUME NEW i \in Claimed
               PROVE  Lease(p)[i] \in Row /\ Lease(p)[i].of = outbox[i].of
                      /\ Lease(p)[i].published = outbox[i].published /\ Lease(p)[i].by = p
    OBVIOUS
  <2>1. outbox[i] \in Row /\ ~outbox[i].backoff /\ ~outbox[i].published
    BY <1>1, <1>2
  <2>2. [outbox[i] EXCEPT !.by = p] \in Row
    BY <2>1, RowUpdates
  <2>3. outbox[i] \in [of: Object, by: Pod \cup {None}, backoff: BOOLEAN, published: BOOLEAN]
    BY <2>1 DEF Row
  <2> QED
    BY <1>3, <2>2, <2>3
<1>5. \A i \in DOMAIN outbox \ Claimed : Lease(p)[i] = outbox[i]
  BY DEF Lease
<1>6. DOMAIN Lease(p) = DOMAIN outbox
  BY DEF Lease
<1> QED
  BY <1>2, <1>4, <1>5, <1>6

\* The outbox stays one: its ids are ids and its rows are rows.
RowsTyped == DOMAIN outbox \subseteq Id /\ \A i \in DOMAIN outbox : outbox[i] \in Row

LEMMA OutboxTyped ==
  ASSUME TypeOK, Next
  PROVE  RowsTyped'
<1>1. DOMAIN outbox \subseteq Id /\ \A i \in DOMAIN outbox : outbox[i] \in Row
  BY Domains
<1>2. \A p \in Pod : DOMAIN Lease(p) \subseteq Id /\ \A i \in DOMAIN Lease(p) : Lease(p)[i] \in Row
  BY <1>1, LeaseRows
<1>3. ASSUME NEW o \in Object, Write(o) PROVE RowsTyped'
  <2>1. NewRow(o) \in Row
    BY DEF NewRow, Row
  <2> QED
    BY <1>1, <1>3, <2>1 DEF Write, RowsTyped
<1>4. ASSUME NEW p \in Pod, RelayStep(p) PROVE RowsTyped'
  <2>1. CASE Claim(p) \/ ClaimUnacknowledged(p)
    BY <1>2, <2>1 DEF Claim, ClaimUnacknowledged, RowsTyped
  <2>2. CASE Retire(p)
    <3>1. outbox' = outbox \/ \E i \in DOMAIN outbox : outbox' = [outbox EXCEPT ![i] = Retired(outbox[i])]
      BY <2>2, Domains DEF Retire, HoldsLease
    <3> QED
      BY <1>1, <3>1, RowUpdates DEF RowsTyped
  <2>3. CASE RecordFailure(p)
    <3>1. outbox' = outbox \/ \E i \in DOMAIN outbox : outbox' = [outbox EXCEPT ![i] = AfterFailure(outbox[i])]
      BY <2>3, Domains DEF RecordFailure, HoldsLease
    <3> QED
      BY <1>1, <3>1, RowUpdates DEF RowsTyped
  <2>4. CASE EndPass(p)
    BY <1>1, <2>4 DEF EndPass, RowsTyped
  <2>5. CASE SettleFails(p) \/ (\E m \in batch[p] : Send(p, m)) \/ GiveUp(p) \/ Crash(p)
    BY <1>1, <2>5 DEF SettleFails, Send, GiveUp, Crash, RowsTyped
  <2> QED
    BY <1>4, <2>1, <2>2, <2>3, <2>4, <2>5 DEF RelayStep, Settle
<1>5. ASSUME NEW p \in Pod, Indexer(p) PROVE RowsTyped'
  BY <1>1, <1>5 DEF Indexer, Accept, Refuse, LoseMessage, LoseAnswer, Lose, Answer, RowsTyped
<1>6. ASSUME NEW i \in Id, LeaseExpires(i) PROVE RowsTyped'
  <2>1. i \in DOMAIN outbox /\ outbox' = [outbox EXCEPT ![i] = [outbox[i] EXCEPT !.by = None]]
    BY <1>6, Domains DEF LeaseExpires
  <2> QED
    BY <1>1, <2>1, RowUpdates DEF RowsTyped
<1>7. ASSUME NEW i \in Id, BackoffElapses(i) PROVE RowsTyped'
  <2>1. i \in DOMAIN outbox /\ outbox' = [outbox EXCEPT ![i] = [outbox[i] EXCEPT !.backoff = FALSE]]
    BY <1>7 DEF BackoffElapses
  <2> QED
    BY <1>1, <2>1, RowUpdates DEF RowsTyped
<1> QED
  BY <1>3, <1>4, <1>5, <1>6, <1>7 DEF Next

\* So does the rest.
LEMMA TypeStep ==
  ASSUME TypeOK, [Next]_vars
  PROVE  TypeOK'
<1> DEFINE Rest == /\ last \in [Object -> 0 .. MaxWrites]
                   /\ index \in [Object -> 0 .. MaxWrites]
                   /\ shown \in [Object -> SUBSET Id]
                   /\ wire \in [Pod -> Seq(Message)]
                   /\ pc \in [Pod -> PC]
                   /\ batch \in [Pod -> SUBSET Message]
                   /\ cur \in [Pod -> Message \cup {None}]
                   /\ crashes \in 0 .. MaxCrashes
<1>1. Rest
  BY DEF TypeOK
<1>2. ASSUME NEW o \in Object, Write(o) PROVE Rest'
  <2>1. NextId \in 0 .. MaxWrites
    BY <1>2, OutboxConstants DEF Write, Id
  <2> QED
    BY <1>1, <1>2, <2>1 DEF Write, search
<1>3. ASSUME NEW p \in Pod, RelayStep(p) PROVE Rest'
  <2>1. CASE Claim(p)
    <3>1. {MessageOf(i) : i \in Claimed} \in SUBSET Message
      BY Domains DEF MessageOf, Message
    <3> QED
      BY <1>1, <2>1, <3>1 DEF Claim, PC, search
  <2>2. CASE ClaimUnacknowledged(p)
    BY <1>1, <2>2 DEF ClaimUnacknowledged, search
  <2>3. ASSUME NEW m \in batch[p], Send(p, m) PROVE Rest'
    <3>1. m \in Message
      BY Domains
    <3> QED
      BY <1>1, <2>3, <3>1 DEF Send, PC, search
  <2>4. CASE GiveUp(p)
    BY <1>1, <2>4 DEF GiveUp, AfterTimeout, PC, search
  <2>5. CASE Settle(p)
    BY <1>1, <2>5 DEF Settle, Retire, RecordFailure, SettleFails, Settled, PC, search
  <2>6. CASE EndPass(p)
    BY <1>1, <2>6 DEF EndPass, PC, search
  <2>7. CASE Crash(p)
    BY <1>1, <2>7, OutboxConstants DEF Crash, PC, search
  <2> QED
    BY <1>3, <2>1, <2>2, <2>3, <2>4, <2>5, <2>6, <2>7 DEF RelayStep
<1>4. ASSUME NEW p \in Pod, Indexer(p) PROVE Rest'
  <2>1. wire[p] # <<>> /\ wire' = [wire EXCEPT ![p] = Tail(@)]
    BY <1>4 DEF Indexer, Accept, Refuse, LoseMessage, LoseAnswer, Lose, Answer
  <2>2. wire' \in [Pod -> Seq(Message)] /\ Head(wire[p]) \in Message
    BY <1>1, <2>1
  <2>3. Head(wire[p]).id \in Id /\ Head(wire[p]).id \in 0 .. MaxWrites /\ Head(wire[p]).of \in Object
    BY <2>2, OutboxConstants DEF Message, Id
  <2>4. index' \in [Object -> 0 .. MaxWrites] /\ shown' \in [Object -> SUBSET Id]
    <3>1. UNCHANGED search \/ Overwrite(Head(wire[p]))
      BY <1>4 DEF Indexer, Accept, Refuse, LoseMessage, LoseAnswer
    <3>2. CASE UNCHANGED search
      BY <1>1, <3>2 DEF search
    <3>3. ASSUME NEW m \in Message, m.id \in Id, m.id \in 0 .. MaxWrites, m.of \in Object, Overwrite(m)
          PROVE  index' \in [Object -> 0 .. MaxWrites] /\ shown' \in [Object -> SUBSET Id]
      <4>1. index \in [Object -> 0 .. MaxWrites] /\ shown \in [Object -> SUBSET Id]
        BY <1>1
      <4> QED
        BY <3>3, <4>1 DEF Overwrite
    <3> QED
      BY <2>2, <2>3, <3>1, <3>2, <3>3
  <2>5. pc' \in [Pod -> PC]
    BY <1>1, <1>4 DEF Indexer, Accept, Refuse, LoseMessage, LoseAnswer, Lose, Answer, PC
  <2> QED
    BY <1>1, <1>4, <2>2, <2>4, <2>5 DEF Indexer, Accept, Refuse, LoseMessage, LoseAnswer, Lose, Answer
<1>5. ASSUME NEW i \in Id, LeaseExpires(i) \/ BackoffElapses(i) PROVE Rest'
  <2>1. UNCHANGED <<last, index, shown, wire, pc, cur, crashes>>
    BY <1>5 DEF LeaseExpires, BackoffElapses, search
  <2>2. batch' \in [Pod -> SUBSET Message]
    <3>1. CASE LeaseExpires(i)
      <4>1. PICK p \in Pod : batch' = [batch EXCEPT ![p] = IF i \in InPass(p) THEN {} ELSE @]
        BY <3>1 DEF LeaseExpires
      <4> QED
        BY <1>1, <4>1
    <3>2. CASE BackoffElapses(i)
      BY <1>1, <3>2 DEF BackoffElapses
    <3> QED
      BY <1>5, <3>1, <3>2
  <2> QED
    BY <1>1, <2>1, <2>2
<1>6. CASE Next
  <2>1. Rest'
    BY <1>2, <1>3, <1>4, <1>5, <1>6 DEF Next
  <2>2. RowsTyped'
    BY <1>6, OutboxTyped
  <2> QED
    BY <2>1, <2>2 DEF RowsTyped, TypeOK
<1>7. CASE UNCHANGED vars
  BY <1>7 DEF vars, search, TypeOK, Row
<1> QED
  BY <1>6, <1>7

LEMMA TypeStart == Init => TypeOK
  BY OutboxConstants DEF Init, TypeOK, PC

\* The relays, the indexer and the clock keep every variable of its type.
THEOREM TypeCorrect == Spec => []TypeOK
<1> QED
  BY TypeStart, TypeStep, PTL DEF Spec

-----------------------------------------------------------------------------
(* What a step leaves of the rows. *)

\* A row is of the same object for ever and is never pending again, or it is new.
Kept(j) ==
  \/ /\ j \in DOMAIN outbox
     /\ outbox'[j].of = outbox[j].of
     /\ outbox[j].published => outbox'[j].published
  \/ /\ \A o \in Object : last[o] < j
     /\ j = last'[outbox'[j].of]

LEMMA RowsKept ==
  ASSUME TypeOK, Next
  PROVE  /\ \A j \in DOMAIN outbox' : Kept(j)
         /\ \A o \in Object : last'[o] >= last[o]
<1>1. \A j \in DOMAIN outbox : outbox[j] \in Row
  BY Domains
<1>2. UNCHANGED outbox => \A j \in DOMAIN outbox' : Kept(j)
  BY DEF Kept
<1>3. UNCHANGED last => \A o \in Object : last'[o] >= last[o]
  BY Domains
<1>4. ASSUME NEW o \in Object, Write(o)
      PROVE  (\A j \in DOMAIN outbox' : Kept(j)) /\ (\A x \in Object : last'[x] >= last[x])
  <2>1. NextId \in Nat /\ \A x \in Object : last[x] < NextId
    BY NextIdIsNew
  <2>2. last' = [last EXCEPT ![o] = NextId] /\ last \in [Object -> 0 .. MaxWrites]
    BY <1>4 DEF Write, TypeOK
  <2>3. \A x \in Object : last'[x] >= last[x]
    BY <2>1, <2>2, OutboxConstants
  <2>4. \A j \in DOMAIN outbox' : Kept(j)
    BY <1>4, <2>1, <2>2 DEF Write, NewRow, Kept
  <2> QED
    BY <2>3, <2>4
<1>5. ASSUME NEW p \in Pod, RelayStep(p) PROVE (\A j \in DOMAIN outbox' : Kept(j)) /\ UNCHANGED last
  <2>1. CASE Claim(p) \/ ClaimUnacknowledged(p)
    <3>1. outbox' = Lease(p) /\ UNCHANGED last
      BY <2>1 DEF Claim, ClaimUnacknowledged
    <3> QED
      BY <3>1, LeaseRows DEF Kept
  <2>2. CASE Retire(p)
    <3>1. UNCHANGED last
      BY <2>2 DEF Retire, Settled
    <3>2. CASE HoldsLease(p, cur[p].id)
      <4>1. cur[p].id \in DOMAIN outbox /\ outbox' = [outbox EXCEPT ![cur[p].id] = Retired(outbox[cur[p].id])]
        BY <2>2, <3>2, Domains DEF Retire, HoldsLease
      <4>2. Retired(outbox[cur[p].id]).of = outbox[cur[p].id].of
            /\ (outbox[cur[p].id].published => Retired(outbox[cur[p].id]).published)
        BY <1>1, <4>1, RowUpdates
      <4> QED
        BY <3>1, <4>1, <4>2 DEF Kept
    <3>3. CASE ~HoldsLease(p, cur[p].id)
      BY <1>2, <2>2, <3>1, <3>3 DEF Retire
    <3> QED
      BY <3>2, <3>3
  <2>3. CASE RecordFailure(p)
    <3>1. UNCHANGED last
      BY <2>3 DEF RecordFailure, Settled
    <3>2. CASE HoldsLease(p, cur[p].id)
      <4>1. cur[p].id \in DOMAIN outbox /\ outbox' = [outbox EXCEPT ![cur[p].id] = AfterFailure(outbox[cur[p].id])]
        BY <2>3, <3>2, Domains DEF RecordFailure, HoldsLease
      <4>2. AfterFailure(outbox[cur[p].id]).of = outbox[cur[p].id].of
            /\ (outbox[cur[p].id].published => AfterFailure(outbox[cur[p].id]).published)
        BY <1>1, <4>1, RowUpdates
      <4> QED
        BY <3>1, <4>1, <4>2 DEF Kept
    <3>3. CASE ~HoldsLease(p, cur[p].id)
      BY <1>2, <2>3, <3>1, <3>3 DEF RecordFailure
    <3> QED
      BY <3>2, <3>3
  <2>4. CASE EndPass(p)
    BY <2>4 DEF EndPass, Kept
  <2>5. CASE SettleFails(p) \/ (\E m \in batch[p] : Send(p, m)) \/ GiveUp(p) \/ Crash(p)
    BY <1>2, <2>5 DEF SettleFails, Settled, Send, GiveUp, Crash
  <2> QED
    BY <1>5, <2>1, <2>2, <2>3, <2>4, <2>5 DEF RelayStep, Settle
<1>6. ASSUME NEW p \in Pod, Indexer(p) PROVE UNCHANGED <<outbox, last>>
  BY <1>6 DEF Indexer, Accept, Refuse, LoseMessage, LoseAnswer, Lose, Answer
<1>7. ASSUME NEW i \in Id, LeaseExpires(i) PROVE (\A j \in DOMAIN outbox' : Kept(j)) /\ UNCHANGED last
  BY <1>1, <1>7 DEF LeaseExpires, Row, Kept
<1>8. ASSUME NEW i \in Id, BackoffElapses(i) PROVE (\A j \in DOMAIN outbox' : Kept(j)) /\ UNCHANGED last
  BY <1>1, <1>8 DEF BackoffElapses, Row, Kept
<1> QED
  BY <1>2, <1>3, <1>4, <1>5, <1>6, <1>7, <1>8 DEF Next

\* So a row stays the oldest pending one of its object as long as it is pending.
LEMMA OldestStaysOldest ==
  ASSUME TypeOK, Rows, Next, NEW i \in Pending, i \in Pending'
  PROVE  /\ outbox'[i].of = outbox[i].of
         /\ Predecessors(i) = {} => Predecessors(i)' = {}
<1>1. i \in DOMAIN outbox /\ i \in Nat /\ outbox[i].of \in Object /\ i <= last[outbox[i].of]
      /\ last[outbox[i].of] \in Nat
  BY Domains DEF Rows
<1>2. \A j \in DOMAIN outbox' : Kept(j)
  BY RowsKept
<1>3. outbox'[i].of = outbox[i].of
  <2>1. Kept(i)
    BY <1>2 DEF Pending
  <2>2. i \in Nat /\ ~(last[outbox[i].of] < i)
    BY <1>1
  <2> QED
    BY <1>1, <2>1, <2>2 DEF Kept
<1>4. ASSUME Predecessors(i) = {}, NEW j \in Predecessors(i)' PROVE FALSE
  <2>1. j \in DOMAIN outbox' /\ ~outbox'[j].published /\ j < i /\ outbox'[j].of = outbox'[i].of
    BY DEF Predecessors, Pending
  <2>2. j \in Nat
    BY <2>1, TypeStep, Domains DEF TypeOK
  <2>3. ~(last[outbox[i].of] < j)
    BY <1>1, <2>1, <2>2
  <2>4. j \in DOMAIN outbox /\ outbox'[j].of = outbox[j].of /\ ~outbox[j].published
    BY <1>1, <1>2, <2>1, <2>3 DEF Kept
  <2>5. j \in Predecessors(i)
    BY <1>3, <2>1, <2>4 DEF Predecessors, Pending
  <2> QED
    BY <1>4, <2>5
<1> QED
  BY <1>3, <1>4

\* A lease goes when its holder settles the row, and when it runs out.
LEMMA LeaseStays ==
  ASSUME TypeOK, Rows, Next, NEW p \in Pod, NEW i, HoldsLease(p, i)
  PROVE  \/ HoldsLease(p, i)'
         \/ (Retire(p) \/ RecordFailure(p)) /\ cur[p].id = i
         \/ LeaseExpires(i)
<1>1. i \in DOMAIN outbox /\ i \in Id /\ i \in Nat /\ outbox[i] \in Row /\ ~outbox[i].published
      /\ outbox[i].by = p /\ p # None
  BY Domains DEF HoldsLease, Pending
<1>2. UNCHANGED outbox => HoldsLease(p, i)'
  BY <1>1 DEF HoldsLease, Pending
<1>3. ASSUME NEW o \in Object, Write(o) PROVE HoldsLease(p, i)'
  <2>1. outbox[i].of \in Object /\ i <= last[outbox[i].of]
    BY <1>1 DEF Rows, Row
  <2>2. i < NextId /\ NextId \in Nat
    BY <1>1, <2>1, NextIdIsNew, Domains
  <2> QED
    BY <1>1, <1>3, <2>2 DEF Write, HoldsLease, Pending
<1>4. ASSUME NEW q \in Pod, Claim(q) \/ ClaimUnacknowledged(q) PROVE HoldsLease(p, i)'
  <2>1. outbox' = Lease(q)
    BY <1>4 DEF Claim, ClaimUnacknowledged
  <2>2. i \notin Claimed
    BY <1>1, Domains
  <2>3. i \in DOMAIN Lease(q) /\ Lease(q)[i] = outbox[i]
    BY <1>1, <2>2, LeaseRows
  <2> QED
    BY <1>1, <2>1, <2>3 DEF HoldsLease, Pending
<1>5. ASSUME NEW q \in Pod, Retire(q) \/ RecordFailure(q), ~HoldsLease(p, i)'
      PROVE  (Retire(p) \/ RecordFailure(p)) /\ cur[p].id = i
  <2>1. HoldsLease(q, cur[q].id) /\ cur[q].id = i
    BY <1>1, <1>5 DEF Retire, RecordFailure, HoldsLease, Pending
  <2>2. q = p
    BY <1>1, <2>1 DEF HoldsLease
  <2> QED
    BY <1>5, <2>1, <2>2
<1>6. ASSUME NEW q \in Pod, EndPass(q) PROVE HoldsLease(p, i)'
  BY <1>1, <1>6 DEF EndPass, Prunable, HoldsLease, Pending
<1>7. ASSUME NEW q \in Pod, SettleFails(q) \/ (\E m \in batch[q] : Send(q, m)) \/ GiveUp(q) \/ Crash(q)
      PROVE  HoldsLease(p, i)'
  BY <1>2, <1>7 DEF SettleFails, Send, GiveUp, Crash
<1>8. ASSUME NEW q \in Pod, Indexer(q) PROVE HoldsLease(p, i)'
  BY <1>2, <1>8 DEF Indexer, Accept, Refuse, LoseMessage, LoseAnswer, Lose, Answer
<1>9. ASSUME NEW j \in Id, LeaseExpires(j), ~HoldsLease(p, i)' PROVE LeaseExpires(i)
  <2>1. j = i
    BY <1>1, <1>9 DEF LeaseExpires, HoldsLease, Pending
  <2> QED
    BY <1>9, <2>1
<1>10. ASSUME NEW j \in Id, BackoffElapses(j) PROVE HoldsLease(p, i)'
  BY <1>1, <1>10 DEF BackoffElapses, HoldsLease, Pending, Row
<1> QED
  BY <1>3, <1>4, <1>5, <1>6, <1>7, <1>8, <1>9, <1>10 DEF Next, RelayStep, Settle

-----------------------------------------------------------------------------
(* The leasing. *)

\* What a step does to the rows a pass has, and to its request.
LEMMA Passes ==
  ASSUME TypeOK, Next, NEW p \in Pod
  PROVE  /\ batch'[p] \subseteq batch[p] \/ Claim(p)
         /\ \/ /\ cur'[p] = cur[p]
               /\ \/ pc'[p] = pc[p]
                  \/ pc[p] = "awaiting" /\ pc'[p] \in {"acked", "failed"}
                  \/ pc[p] \notin InCall /\ pc'[p] \notin InCall
            \/ \E m \in batch[p] : Send(p, m)
            \/ cur'[p] = None /\ pc'[p] \notin InCall
<1>1. batch \in [Pod -> SUBSET Message] /\ cur \in [Pod -> Message \cup {None}] /\ pc \in [Pod -> PC]
  BY DEF TypeOK
<1>2. CASE \E q \in Pod : Claim(q)
  <2>1. PICK q \in Pod : Claim(q)
    BY <1>2
  <2>2. CASE q = p
    BY <1>1, <2>1, <2>2 DEF Claim, InCall
  <2>3. CASE q # p
    BY <1>1, <2>1, <2>3 DEF Claim
  <2> QED
    BY <2>2, <2>3
<1>3. CASE \E q \in Pod : ClaimUnacknowledged(q)
  BY <1>1, <1>3 DEF ClaimUnacknowledged
<1>4. CASE \E q \in Pod : \E m \in batch[q] : Send(q, m)
  <2>1. PICK q \in Pod : \E m \in batch[q] : Send(q, m)
    BY <1>4
  <2>2. CASE q = p
    <3>1. batch'[p] \subseteq batch[p]
      BY <1>1, <2>1, <2>2 DEF Send
    <3> QED
      BY <2>1, <2>2, <3>1
  <2>3. CASE q # p
    BY <1>1, <2>1, <2>3 DEF Send
  <2> QED
    BY <2>2, <2>3
<1>5. CASE \E q \in Pod : GiveUp(q)
  BY <1>1, <1>5 DEF GiveUp, AfterTimeout
<1>6. CASE \E q \in Pod : Settle(q)
  <2>1. PICK q \in Pod : Settled(q)
    BY <1>6 DEF Settle, Retire, RecordFailure, SettleFails
  <2> QED
    BY <1>1, <2>1 DEF Settled, InCall
<1>7. CASE \E q \in Pod : EndPass(q)
  BY <1>1, <1>7 DEF EndPass, InCall
<1>8. CASE \E q \in Pod : Crash(q)
  BY <1>1, <1>8 DEF Crash, InCall
<1>9. CASE \E q \in Pod : Indexer(q)
  BY <1>1, <1>9 DEF Indexer, Accept, Refuse, LoseMessage, LoseAnswer, Lose, Answer, Awaited
<1>10. CASE \E i \in Id : LeaseExpires(i)
  <2>1. UNCHANGED <<pc, cur>> /\ \E q \in Pod, i \in Id : batch' = [batch EXCEPT ![q] = IF i \in InPass(q) THEN {} ELSE @]
    BY <1>10 DEF LeaseExpires
  <2> QED
    BY <1>1, <2>1
<1>11. CASE (\E i \in Id : BackoffElapses(i)) \/ (\E o \in Object : Write(o))
  BY <1>11 DEF BackoffElapses, Write
<1> QED
  BY <1>2, <1>3, <1>4, <1>5, <1>6, <1>7, <1>8, <1>9, <1>10, <1>11 DEF Next, RelayStep

LEMMA RowsStep ==
  ASSUME TypeOK, Rows, Next
  PROVE  Rows'
<1> SUFFICES ASSUME NEW j \in DOMAIN outbox' PROVE j <= last'[outbox'[j].of]
  BY DEF Rows
<1>1. Kept(j) /\ \A o \in Object : last'[o] >= last[o]
  BY RowsKept
<1>2. CASE j \in DOMAIN outbox /\ outbox'[j].of = outbox[j].of
  <2>1. j \in Id /\ outbox[j].of \in Object /\ j <= last[outbox[j].of]
    BY <1>2, Domains DEF Rows, Row
  <2>2. j \in Nat /\ last[outbox[j].of] \in Nat /\ last'[outbox[j].of] \in Nat
    BY <2>1, Domains, TypeStep, OutboxConstants DEF TypeOK
  <2> QED
    BY <1>1, <1>2, <2>1, <2>2
<1>3. CASE j = last'[outbox'[j].of]
  <2>1. j \in Nat
    BY TypeStep, Domains DEF TypeOK
  <2> QED
    BY <1>3, <2>1
<1> QED
  BY <1>1, <1>2, <1>3 DEF Kept

LEMMA InHandStep ==
  ASSUME TypeOK, Leasing, Next
  PROVE  InHand'
<1> SUFFICES ASSUME NEW p \in Pod, NEW m \in batch'[p]
             PROVE  HoldsLease(p, m.id)' /\ outbox'[m.id].of = m.of /\ Predecessors(m.id)' = {}
  BY DEF InHand
<1>1. CASE Claim(p)
  <2>1. batch'[p] = {MessageOf(i) : i \in Claimed} /\ outbox' = Lease(p)
    BY <1>1 DEF Claim, TypeOK
  <2>2. PICK i \in Claimed : m = MessageOf(i)
    BY <2>1
  <2>3. i \in Pending /\ i \in DOMAIN outbox /\ ~outbox[i].published /\ Predecessors(i) = {}
    BY Domains
  <2>4. m.id = i /\ m.of = outbox[i].of
    BY <2>2 DEF MessageOf
  <2>5. i \in DOMAIN Lease(p) /\ Lease(p)[i].by = p /\ ~Lease(p)[i].published
    BY <2>3, LeaseRows
  <2>6. HoldsLease(p, i)'
    BY <2>1, <2>5 DEF HoldsLease, Pending
  <2>7. outbox'[i].of = outbox[i].of /\ Predecessors(i)' = {}
    BY <2>3, <2>6, OldestStaysOldest DEF Leasing, HoldsLease
  <2> QED
    BY <2>4, <2>6, <2>7
<1>2. CASE batch'[p] \subseteq batch[p]
  <2>1. m \in batch[p] /\ HoldsLease(p, m.id) /\ outbox[m.id].of = m.of /\ Predecessors(m.id) = {}
    BY <1>2 DEF Leasing, InHand
  <2>2. HoldsLease(p, m.id)'
    <3>1. SUFFICES ASSUME ~HoldsLease(p, m.id)' PROVE FALSE
      OBVIOUS
    <3>2. ~(Retire(p) \/ RecordFailure(p)) \/ cur[p].id # m.id
      BY <2>1 DEF Retire, RecordFailure, Leasing, Current, InCall
    <3>3. LeaseExpires(m.id)
      BY <2>1, <3>1, <3>2, LeaseStays DEF Leasing
    <3>4. batch'[p] = {}
      BY <2>1, <3>3 DEF LeaseExpires, HoldsLease, InPass, TypeOK
    <3> QED
      BY <3>4
  <2>3. outbox'[m.id].of = outbox[m.id].of /\ Predecessors(m.id)' = {}
    BY <2>1, <2>2, OldestStaysOldest DEF Leasing, HoldsLease
  <2> QED
    BY <2>1, <2>2, <2>3
<1> QED
  BY <1>1, <1>2, Passes

\* What Current says of a pass.
CurrentOf(p) ==
  /\ cur[p] # None <=> pc[p] \in InCall
  /\ cur[p] # None =>
       /\ cur[p].id <= last[cur[p].of]
       /\ cur[p].id \in Pending => outbox[cur[p].id].of = cur[p].of /\ Predecessors(cur[p].id) = {}
       /\ \A m \in batch[p] : m.id # cur[p].id
  /\ pc[p] = "awaiting" => HoldsLease(p, cur[p].id)

LEMMA CurrentStep ==
  ASSUME TypeOK, Leasing, Next, NEW p \in Pod
  PROVE  CurrentOf(p)'
<1>1. CurrentOf(p)
  BY DEF Leasing, Current, CurrentOf
<1>2. batch \in [Pod -> SUBSET Message] /\ cur \in [Pod -> Message \cup {None}] /\ pc \in [Pod -> PC]
  BY DEF TypeOK
<1>3. CASE \E m \in batch[p] : Send(p, m)
  <2>1. PICK m \in batch[p] : Send(p, m)
    BY <1>3
  <2>2. cur'[p] = m /\ pc'[p] = "awaiting" /\ batch'[p] = batch[p] \ {m} /\ UNCHANGED <<outbox, last>>
    BY <1>2, <2>1 DEF Send
  <2>3. HoldsLease(p, m.id) /\ outbox[m.id].of = m.of /\ Predecessors(m.id) = {} /\ m # None /\ m \in Message
    BY Domains, OutboxConstants DEF Leasing, InHand, Message, Id
  <2>4. m.id <= last[m.of]
    BY <2>3 DEF HoldsLease, Pending, Leasing, Rows
  <2>5. \A n \in batch[p] \ {m} : n.id # m.id
    <3>1. SUFFICES ASSUME NEW n \in batch[p], n.id = m.id PROVE n = m
      OBVIOUS
    <3>2. outbox[n.id].of = n.of /\ n \in Message
      BY Domains DEF Leasing, InHand
    <3>3. n.of = m.of
      BY <2>3, <3>1, <3>2
    <3>4. m = [id |-> m.id, of |-> m.of] /\ n = [id |-> n.id, of |-> n.of]
      BY <2>3, <3>2 DEF Message
    <3> QED
      BY <3>1, <3>3, <3>4
  <2>6. HoldsLease(p, m.id)' /\ Pending' = Pending /\ Predecessors(m.id)' = Predecessors(m.id)
    BY <2>2, <2>3 DEF HoldsLease, Pending, Predecessors
  <2> QED
    BY <2>2, <2>3, <2>4, <2>5, <2>6 DEF CurrentOf, InCall
<1>4. CASE cur'[p] = None /\ pc'[p] \notin InCall
  BY <1>4 DEF CurrentOf, InCall
<1>5. ASSUME cur'[p] = cur[p], ~Claim(p),
             \/ pc'[p] = pc[p]
             \/ pc[p] = "awaiting" /\ pc'[p] \in {"acked", "failed"}
             \/ pc[p] \notin InCall /\ pc'[p] \notin InCall
      PROVE  CurrentOf(p)'
  <2>1. cur'[p] # None <=> pc'[p] \in InCall
    BY <1>1, <1>5 DEF CurrentOf, InCall
  <2>2. ASSUME NEW c \in Message, cur[p] = c
        PROVE  /\ c.id <= last'[c.of]
               /\ c.id \in Pending' => outbox'[c.id].of = c.of /\ Predecessors(c.id)' = {}
               /\ \A m \in batch'[p] : m.id # c.id
               /\ pc'[p] = "awaiting" => HoldsLease(p, c.id)'
    <3>1. c.id \in Nat /\ c.of \in Object /\ c # None
      BY <2>2, Domains, OutboxConstants DEF Message, Id
    <3>2. /\ c.id <= last[c.of]
          /\ c.id \in Pending => outbox[c.id].of = c.of /\ Predecessors(c.id) = {}
          /\ \A m \in batch[p] : m.id # c.id
          /\ pc[p] = "awaiting" => HoldsLease(p, c.id)
      BY <1>1, <2>2, <3>1 DEF CurrentOf
    <3>3. last[c.of] \in Nat /\ last'[c.of] \in Nat /\ last'[c.of] >= last[c.of]
      <4>1. last' \in [Object -> 0 .. MaxWrites] /\ MaxWrites \in Nat
        BY TypeStep, OutboxConstants DEF TypeOK
      <4> QED
        BY <3>1, <4>1, Domains, RowsKept
    <3>4. ASSUME c.id \in Pending'
          PROVE  outbox'[c.id].of = c.of /\ Predecessors(c.id)' = {}
      <4>1. Kept(c.id) /\ ~outbox'[c.id].published
        BY <3>4, RowsKept DEF Pending
      <4>2. ~(last[c.of] < c.id)
        BY <3>1, <3>2, <3>3
      <4>3. c.id \in Pending
        BY <3>1, <4>1, <4>2 DEF Kept, Pending
      <4> QED
        BY <3>2, <3>4, <4>3, OldestStaysOldest DEF Leasing
    <3>5. \A m \in batch'[p] : m.id # c.id
      BY <1>5, <3>2, Passes
    <3>6. ASSUME pc'[p] = "awaiting" PROVE HoldsLease(p, c.id)'
      <4>1. pc[p] = "awaiting" /\ HoldsLease(p, c.id)
        BY <1>1, <1>5, <2>2, <3>1, <3>2, <3>6 DEF CurrentOf, InCall
      <4>2. ~Retire(p) /\ ~RecordFailure(p)
        BY <4>1 DEF Retire, RecordFailure
      <4>3. ~LeaseExpires(c.id)
        BY <2>2, <3>1, <4>1 DEF LeaseExpires, HoldsLease, InPass
      <4> QED
        BY <4>1, <4>2, <4>3, LeaseStays DEF Leasing
    <3> QED
      BY <3>1, <3>2, <3>3, <3>4, <3>5, <3>6
  <2>3. CASE cur[p] = None
    BY <1>5, <2>1, <2>3 DEF CurrentOf, InCall
  <2>4. CASE cur[p] # None
    <3>1. PICK c \in Message : cur[p] = c
      BY <1>2, <2>4
    <3>2. cur'[p] = c
      BY <1>5, <3>1
    <3> QED
      BY <2>1, <2>2, <3>1, <3>2 DEF CurrentOf
  <2> QED
    BY <2>3, <2>4
<1>6. CASE Claim(p)
  <2>1. pc[p] = "idle" /\ pc'[p] = "publishing" /\ cur'[p] = cur[p]
    BY <1>2, <1>6 DEF Claim
  <2> QED
    BY <1>1, <2>1 DEF CurrentOf, InCall
<1> QED
  BY <1>3, <1>4, <1>5, <1>6, Passes

LEMMA LeasingStep ==
  ASSUME TypeOK, Leasing, [Next]_vars
  PROVE  Leasing'
<1>1. CASE Next
  <2>1. \A p \in Pod : CurrentOf(p)'
    BY <1>1, CurrentStep
  <2>2. Current'
    BY <2>1 DEF CurrentOf, Current
  <2> QED
    BY <1>1, <2>2, RowsStep, InHandStep DEF Leasing
<1>2. CASE UNCHANGED vars
  BY <1>2 DEF vars, Leasing, Rows, InHand, Current, HoldsLease, Pending, Predecessors
<1> QED
  BY <1>1, <1>2

LEMMA LeasingStart == Init => Leasing
  BY DEF Init, Leasing, Rows, InHand, Current, InCall

\* However long a connection keeps its messages, no object ever has two requests that a
\* pass waits for: the claim's predecessor test (claimBatch) and the lease guard of the
\* settlements (markPublished, recordFailure) suffice.
THEOREM OneRequestAtATime == Spec => []OneRequestPerObject
<1>1. Init => TypeOK /\ Leasing
  BY TypeStart, LeasingStart
<1>2. TypeOK /\ Leasing /\ [Next]_vars => (TypeOK /\ Leasing)'
  BY TypeStep, LeasingStep
<1>3. TypeOK /\ Leasing => OneRequestPerObject
  <2> SUFFICES ASSUME TypeOK, Leasing, NEW p \in Pod, NEW q \in Pod, p # q,
                      pc[p] = "awaiting", pc[q] = "awaiting", cur[p].of = cur[q].of
               PROVE  FALSE
    BY DEF OneRequestPerObject
  <2>1. /\ cur[p].id \in Pending /\ outbox[cur[p].id].by = p /\ outbox[cur[p].id].of = cur[p].of
        /\ Predecessors(cur[p].id) = {} /\ cur[p].id \in Nat
    BY Domains DEF Leasing, Current, InCall, HoldsLease
  <2>2. /\ cur[q].id \in Pending /\ outbox[cur[q].id].by = q /\ outbox[cur[q].id].of = cur[q].of
        /\ Predecessors(cur[q].id) = {} /\ cur[q].id \in Nat
    BY Domains DEF Leasing, Current, InCall, HoldsLease
  <2>3. cur[p].id # cur[q].id
    BY <2>1, <2>2
  <2>4. cur[p].id \notin Predecessors(cur[q].id) /\ cur[q].id \notin Predecessors(cur[p].id)
    BY <2>1, <2>2
  <2> QED
    BY <2>1, <2>2, <2>3, <2>4 DEF Predecessors
<1> QED
  BY <1>1, <1>2, <1>3, PTL DEF Spec

-----------------------------------------------------------------------------
(* The rows that stay pending, and the newest writes. *)

\* Only a retirement under the lease takes a row off the pending ones.
LEMMA PendingStays ==
  ASSUME TypeOK, Rows, Next, NEW i \in Pending
  PROVE  i \in Pending' \/ \E p \in Pod : pc[p] = "acked" /\ cur[p].id = i /\ HoldsLease(p, i)
<1>1. i \in DOMAIN outbox /\ i \in Nat /\ outbox[i] \in Row /\ ~outbox[i].published
  BY Domains DEF Pending
<1>2. UNCHANGED outbox => i \in Pending'
  BY <1>1 DEF Pending
<1>3. ASSUME NEW o \in Object, Write(o) PROVE i \in Pending'
  <2>1. outbox[i].of \in Object /\ i <= last[outbox[i].of]
    BY <1>1 DEF Rows, Row
  <2>2. i < NextId /\ NextId \in Nat
    BY <1>1, <2>1, NextIdIsNew, Domains
  <2> QED
    BY <1>1, <1>3, <2>2 DEF Write, Pending
<1>4. ASSUME NEW q \in Pod, Claim(q) \/ ClaimUnacknowledged(q) PROVE i \in Pending'
  <2>1. outbox' = Lease(q)
    BY <1>4 DEF Claim, ClaimUnacknowledged
  <2> QED
    BY <1>1, <2>1, LeaseRows DEF Pending
<1>5. ASSUME NEW q \in Pod, Retire(q), i \notin Pending'
      PROVE  pc[q] = "acked" /\ cur[q].id = i /\ HoldsLease(q, i)
  BY <1>1, <1>5 DEF Retire, Pending
<1>6. ASSUME NEW q \in Pod, RecordFailure(q) PROVE i \in Pending'
  BY <1>1, <1>6 DEF RecordFailure, AfterFailure, Pending, Row
<1>7. ASSUME NEW q \in Pod, EndPass(q) PROVE i \in Pending'
  BY <1>1, <1>7 DEF EndPass, Prunable, Pending
<1>8. ASSUME NEW q \in Pod, SettleFails(q) \/ (\E m \in batch[q] : Send(q, m)) \/ GiveUp(q) \/ Crash(q)
      PROVE  i \in Pending'
  BY <1>2, <1>8 DEF SettleFails, Send, GiveUp, Crash
<1>9. ASSUME NEW q \in Pod, Indexer(q) PROVE i \in Pending'
  BY <1>2, <1>9 DEF Indexer, Accept, Refuse, LoseMessage, LoseAnswer, Lose, Answer
<1>10. ASSUME NEW j \in Id, LeaseExpires(j) \/ BackoffElapses(j) PROVE i \in Pending'
  BY <1>1, <1>10 DEF LeaseExpires, BackoffElapses, Pending, Row
<1> QED
  BY <1>3, <1>4, <1>5, <1>6, <1>7, <1>8, <1>9, <1>10 DEF Next, RelayStep, Settle

\* A new newest write is a row of its own.
LEMMA NewWrites ==
  ASSUME TypeOK, Next, NEW o \in Object, last'[o] # last[o]
  PROVE  last'[o] \in Pending' /\ outbox'[last'[o]].of = o
<1>1. UNCHANGED last => FALSE
  OBVIOUS
<1>2. ASSUME NEW x \in Object, Write(x) PROVE last'[o] \in Pending' /\ outbox'[last'[o]].of = o
  <2>1. x = o /\ last'[o] = NextId
    BY <1>2 DEF Write, TypeOK
  <2> QED
    BY <1>2, <2>1 DEF Write, NewRow, Pending
<1>3. ASSUME NEW p \in Pod, RelayStep(p) \/ Indexer(p) PROVE UNCHANGED last
  BY <1>3 DEF RelayStep, Claim, ClaimUnacknowledged, Send, GiveUp, Settle, Retire, RecordFailure,
     SettleFails, Settled, EndPass, Crash, Indexer, Accept, Refuse, LoseMessage, LoseAnswer, Lose, Answer
<1> QED
  BY <1>1, <1>2, <1>3 DEF Next, LeaseExpires, BackoffElapses

-----------------------------------------------------------------------------
(* The delivery. *)

\* The oldest message of a connection is shown.
Delivered(p) ==
  /\ wire[p] # <<>>
  /\ wire' = [wire EXCEPT ![p] = Tail(@)]
  /\ Overwrite(Head(wire[p]))
  /\ UNCHANGED <<last, outbox>>

\* The index changes by deliveries alone.
LEMMA IndexMoves ==
  ASSUME TypeOK, Next
  PROVE  UNCHANGED search \/ \E p \in Pod : Delivered(p)
<1>1. ASSUME NEW p \in Pod, Indexer(p) PROVE UNCHANGED search \/ Delivered(p)
  BY <1>1 DEF Indexer, Accept, Refuse, LoseMessage, LoseAnswer, Lose, Answer, Delivered
<1>2. ASSUME NEW p \in Pod, RelayStep(p) PROVE UNCHANGED search
  BY <1>2 DEF RelayStep, Claim, ClaimUnacknowledged, Send, GiveUp, Settle, Retire, RecordFailure,
     SettleFails, Settled, EndPass, Crash
<1> QED
  BY <1>1, <1>2 DEF Next, Write, LeaseExpires, BackoffElapses

\* What a delivery shows is a committed write, carried by the connection.
LEMMA Deliveries ==
  ASSUME TypeOK, Leasing, Delivery, NEW p \in Pod, Delivered(p)
  PROVE  /\ Head(wire[p]) \in Message /\ Carried(Head(wire[p]))
         /\ Head(wire[p]).id <= last[Head(wire[p]).of]
         /\ index' = [index EXCEPT ![Head(wire[p]).of] = Head(wire[p]).id]
         /\ shown' = [shown EXCEPT ![Head(wire[p]).of] = @ \cup {Head(wire[p]).id}]
<1>1. wire[p] \in Seq(Message) /\ wire[p] # <<>>
  BY DEF TypeOK, Delivered
<1>2. 1 \in 1 .. Len(wire[p]) /\ Head(wire[p]) = wire[p][1] /\ Head(wire[p]) \in Message
  BY <1>1
<1>3. Carried(Head(wire[p]))
  BY <1>2 DEF Delivery, Wire
<1>4. Head(wire[p]).id <= last[Head(wire[p]).of]
  BY <1>2, <1>3, Domains DEF Carried, Delivery, Shown, Leasing, Rows, Pending
<1> QED
  BY <1>2, <1>3, <1>4 DEF Delivered, Overwrite

\* What was shown stays shown; what is new comes from a delivery.
LEMMA ShownGrows ==
  ASSUME TypeOK, Leasing, Delivery, Next, NEW o \in Object
  PROVE  /\ shown[o] \subseteq shown'[o]
         /\ index'[o] = index[o] \/ index'[o] \in shown'[o]
         /\ \A w \in shown'[o] \ shown[o] :
              \E p \in Pod : /\ Delivered(p)
                            /\ Head(wire[p]) \in Message /\ Carried(Head(wire[p]))
                            /\ Head(wire[p]).id = w /\ Head(wire[p]).of = o
<1>1. CASE UNCHANGED search
  BY <1>1 DEF search
<1>2. ASSUME NEW p \in Pod, Delivered(p)
      PROVE  /\ shown[o] \subseteq shown'[o]
             /\ index'[o] = index[o] \/ index'[o] \in shown'[o]
             /\ \A w \in shown'[o] \ shown[o] : Head(wire[p]).id = w /\ Head(wire[p]).of = o
  <2>1. /\ Head(wire[p]) \in Message
        /\ index' = [index EXCEPT ![Head(wire[p]).of] = Head(wire[p]).id]
        /\ shown' = [shown EXCEPT ![Head(wire[p]).of] = @ \cup {Head(wire[p]).id}]
    BY <1>2, Deliveries
  <2>2. index \in [Object -> 0 .. MaxWrites] /\ shown \in [Object -> SUBSET Id]
        /\ Head(wire[p]).of \in Object
    BY <2>1, Domains DEF TypeOK
  <2> QED
    BY <2>1, <2>2
<1> QED
  BY <1>1, <1>2, Deliveries, IndexMoves

\* A pending row stays pending, or has been shown.
LEMMA RetiredIsShown ==
  ASSUME TypeOK, Leasing, Delivery, Next, NEW i \in Pending
  PROVE  i \in Pending' \/ i \in shown[outbox[i].of]
<1> SUFFICES ASSUME NEW p \in Pod, pc[p] = "acked", cur[p].id = i, HoldsLease(p, i)
             PROVE  i \in shown[outbox[i].of]
  BY PendingStays DEF Leasing
<1>1. cur[p].id \in shown[cur[p].of]
  BY DEF Delivery, Acked
<1>2. outbox[i].of = cur[p].of
  BY DEF Leasing, Current, InCall
<1> QED
  BY <1>1, <1>2

\* A row that is pending was so before, or is of a write newer than all.
LEMMA PendingBefore ==
  ASSUME TypeOK, Next, NEW i \in Pending'
  PROVE  \/ i \in Pending /\ outbox'[i].of = outbox[i].of
         \/ \A o \in Object : last[o] < i
<1>1. Kept(i) /\ ~outbox'[i].published
  BY RowsKept DEF Pending
<1> QED
  BY <1>1 DEF Kept, Pending

\* What a connection carries, it still does after a step.
LEMMA CarriedStays ==
  ASSUME TypeOK, Leasing, Delivery, Next, NEW m \in Message, Carried(m)
  PROVE  Carried(m)'
<1>1. m.id \in Nat /\ m.of \in Object /\ last[m.of] \in Nat
  BY Domains
<1>2. m.id <= last[m.of]
  BY <1>1 DEF Carried, Delivery, Shown, Leasing, Rows, Pending
<1>3. m.id \in shown'[m.of] \/ (m.id \in Pending' /\ outbox'[m.id].of = m.of)
  <2>1. CASE m.id \in shown[m.of]
    BY <1>1, <2>1, ShownGrows
  <2>2. CASE m.id \in Pending /\ outbox[m.id].of = m.of
    <3>1. CASE m.id \in Pending'
      BY <2>2, <3>1, OldestStaysOldest DEF Leasing
    <3>2. CASE m.id \notin Pending'
      BY <1>1, <2>2, <3>2, RetiredIsShown, ShownGrows
    <3> QED
      BY <3>1, <3>2
  <2> QED
    BY <2>1, <2>2 DEF Carried
<1>4. ASSUME NEW i \in Pending', outbox'[i].of = m.of PROVE m.id <= i
  <2>1. i \in Nat
    BY TypeStep, OutboxConstants DEF TypeOK, Pending, Id
  <2>2. CASE i \in Pending /\ outbox'[i].of = outbox[i].of
    BY <1>4, <2>2 DEF Carried
  <2>3. CASE \A o \in Object : last[o] < i
    BY <1>1, <1>2, <2>1, <2>3
  <2> QED
    BY <2>2, <2>3, PendingBefore
<1> QED
  BY <1>3, <1>4 DEF Carried

\* What a pass sends is leased to it, and the oldest pending row of its object.
LEMMA BatchIsCarried ==
  ASSUME TypeOK, Leasing, NEW p \in Pod, NEW m \in batch[p]
  PROVE  Carried(m)
<1>1. m.id \in Pending /\ outbox[m.id].of = m.of /\ Predecessors(m.id) = {} /\ m.id \in Nat
  BY Domains DEF Leasing, InHand, HoldsLease
<1>2. ASSUME NEW i \in Pending, outbox[i].of = m.of PROVE m.id <= i
  <2>1. i \in Nat /\ ~(i < m.id)
    BY <1>1, <1>2, Domains DEF Predecessors
  <2> QED
    BY <1>1, <2>1
<1> QED
  BY <1>1, <1>2 DEF Carried

LEMMA WireStep ==
  ASSUME TypeOK, Leasing, Delivery, Next
  PROVE  Wire'
<1> SUFFICES ASSUME NEW p \in Pod, NEW n \in 1 .. Len(wire'[p]), NEW c \in Message, c = wire'[p][n]
             PROVE  Carried(c)'
  <2>1. wire' \in [Pod -> Seq(Message)]
    BY TypeStep DEF TypeOK
  <2>2. \A p \in Pod : \A n \in 1 .. Len(wire'[p]) : wire'[p][n] \in Message
    BY <2>1
  <2> QED
    BY <2>2 DEF Wire, Carried
<1>1. wire \in [Pod -> Seq(Message)] /\ wire'[p] \in Seq(Message)
  BY TypeStep DEF TypeOK
<1>2. ASSUME NEW k \in 1 .. Len(wire[p]), c = wire[p][k] PROVE Carried(c)'
  <2>1. Carried(c)
    BY <1>2 DEF Delivery, Wire
  <2> QED
    BY <2>1, CarriedStays
<1>3. ASSUME c \in batch[p] PROVE Carried(c)'
  BY <1>3, BatchIsCarried, CarriedStays
<1>4. ASSUME NEW q \in Pod, RelayStep(q)
      PROVE  \/ wire'[p] = wire[p]
             \/ wire'[p] = <<>>
             \/ \E m \in batch[p] : wire'[p] = Append(wire[p], m)
  <2>1. CASE \E m \in batch[q] : Send(q, m)
    BY <1>1, <2>1 DEF Send
  <2>2. CASE Crash(q)
    BY <1>1, <2>2 DEF Crash
  <2>3. CASE Claim(q) \/ ClaimUnacknowledged(q) \/ GiveUp(q) \/ Settle(q) \/ EndPass(q)
    BY <1>1, <2>3 DEF Claim, ClaimUnacknowledged, GiveUp, Settle, Retire, RecordFailure, SettleFails,
       Settled, EndPass
  <2> QED
    BY <1>4, <2>1, <2>2, <2>3 DEF RelayStep
<1>5. ASSUME NEW q \in Pod, Indexer(q) PROVE wire'[p] = wire[p] \/ (wire[p] # <<>> /\ wire'[p] = Tail(wire[p]))
  BY <1>1, <1>5 DEF Indexer, Accept, Refuse, LoseMessage, LoseAnswer, Lose, Answer
<1>6. \/ wire'[p] = wire[p] \/ wire'[p] = <<>>
      \/ wire[p] # <<>> /\ wire'[p] = Tail(wire[p])
      \/ \E m \in batch[p] : wire'[p] = Append(wire[p], m)
  BY <1>4, <1>5 DEF Next, Write, LeaseExpires, BackoffElapses
<1>7. CASE wire'[p] = wire[p]
  BY <1>2, <1>7
<1>8. CASE wire'[p] = <<>>
  BY <1>8
<1>9. CASE wire[p] # <<>> /\ wire'[p] = Tail(wire[p])
  <2>1. n + 1 \in 1 .. Len(wire[p]) /\ wire'[p][n] = wire[p][n + 1]
    BY <1>1, <1>9
  <2> QED
    BY <1>2, <2>1
<1>10. ASSUME NEW m \in batch[p], wire'[p] = Append(wire[p], m) PROVE Carried(c)'
  <2>1. \/ n \in 1 .. Len(wire[p]) /\ wire'[p][n] = wire[p][n]
        \/ wire'[p][n] = m
    BY <1>1, <1>10
  <2> QED
    BY <1>2, <1>3, <2>1
<1> QED
  BY <1>6, <1>7, <1>8, <1>9, <1>10

LEMMA OwnStep ==
  ASSUME TypeOK, Delivery, Next
  PROVE  Own'
<1> SUFFICES ASSUME NEW p \in Pod, pc'[p] = "awaiting", wire'[p] # <<>>
             PROVE  wire'[p][Len(wire'[p])] = cur'[p]
  BY DEF Own
<1>1. /\ wire \in [Pod -> Seq(Message)] /\ pc \in [Pod -> PC] /\ cur \in [Pod -> Message \cup {None}]
      /\ batch \in [Pod -> SUBSET Message]
  BY DEF TypeOK
<1>2. ASSUME pc'[p] = pc[p], cur'[p] = cur[p], wire'[p] = wire[p]
      PROVE  wire'[p][Len(wire'[p])] = cur'[p]
  BY <1>2 DEF Delivery, Own
<1>3. ASSUME NEW q \in Pod, RelayStep(q) PROVE wire'[p][Len(wire'[p])] = cur'[p]
  <2>1. ASSUME NEW m \in batch[q], Send(q, m) PROVE wire'[p][Len(wire'[p])] = cur'[p]
    <3>1. CASE q = p
      <4>1. m \in Message /\ wire'[p] = Append(wire[p], m) /\ cur'[p] = m /\ wire[p] \in Seq(Message)
        BY <1>1, <2>1, <3>1 DEF Send
      <4> QED
        BY <4>1
    <3>2. CASE q # p
      BY <1>1, <1>2, <2>1, <3>2 DEF Send
    <3> QED
      BY <3>1, <3>2
  <2>2. CASE Claim(q)
    BY <1>1, <1>2, <2>2 DEF Claim
  <2>3. CASE ClaimUnacknowledged(q)
    BY <1>1, <1>2, <2>3 DEF ClaimUnacknowledged
  <2>4. CASE GiveUp(q)
    BY <1>1, <1>2, <2>4 DEF GiveUp, AfterTimeout
  <2>5. CASE Settle(q)
    BY <1>1, <1>2, <2>5 DEF Settle, Retire, RecordFailure, SettleFails, Settled
  <2>6. CASE EndPass(q)
    BY <1>1, <1>2, <2>6 DEF EndPass
  <2>7. CASE Crash(q)
    BY <1>1, <1>2, <2>7 DEF Crash
  <2> QED
    BY <1>3, <2>1, <2>2, <2>3, <2>4, <2>5, <2>6, <2>7 DEF RelayStep
<1>4. ASSUME NEW q \in Pod, Indexer(q) PROVE wire'[p][Len(wire'[p])] = cur'[p]
  <2>1. /\ wire[q] # <<>> /\ wire' = [wire EXCEPT ![q] = Tail(@)] /\ UNCHANGED cur
        /\ pc[p] = "awaiting"
    BY <1>1, <1>4 DEF Indexer, Accept, Refuse, LoseMessage, LoseAnswer, Lose, Answer
  <2>2. CASE q # p
    BY <1>1, <2>1, <2>2 DEF Delivery, Own
  <2>3. CASE q = p
    <3>1. wire[p] \in Seq(Message) /\ wire'[p] = Tail(wire[p]) /\ wire[p][Len(wire[p])] = cur[p]
      BY <1>1, <2>1, <2>3 DEF Delivery, Own
    <3>2. wire'[p][Len(wire'[p])] = wire[p][Len(wire[p])]
      BY <3>1
    <3> QED
      BY <2>1, <3>1, <3>2
  <2> QED
    BY <2>2, <2>3
<1>5. CASE \E i \in Id : LeaseExpires(i) \/ BackoffElapses(i)
  BY <1>2, <1>5 DEF LeaseExpires, BackoffElapses
<1>6. CASE \E o \in Object : Write(o)
  BY <1>2, <1>6 DEF Write
<1> QED
  BY <1>3, <1>4, <1>5, <1>6 DEF Next

\* A request that is given up is not acknowledged: one that is was accepted.
LEMMA AckedIsAccepted ==
  ASSUME TypeOK, Leasing, Delivery, Next, NEW p \in Pod, pc[p] # "acked", pc'[p] = "acked"
  PROVE  /\ Awaited(p) /\ Accept(p) /\ UNCHANGED cur
         /\ cur[p] \in Message /\ Head(wire[p]) = cur[p]
<1>1. pc \in [Pod -> PC] /\ wire \in [Pod -> Seq(Message)] /\ cur \in [Pod -> Message \cup {None}]
  BY DEF TypeOK
<1>2. ASSUME NEW q \in Pod, RelayStep(q) PROVE FALSE
  BY <1>1, <1>2 DEF RelayStep, Claim, ClaimUnacknowledged, Send, GiveUp, AfterTimeout, Settle, Retire,
     RecordFailure, SettleFails, Settled, EndPass, Crash
<1>3. ASSUME NEW q \in Pod, Indexer(q) PROVE q = p /\ Accept(p) /\ Awaited(p)
  BY <1>1, <1>3 DEF Indexer, Accept, Refuse, LoseMessage, LoseAnswer, Lose, Answer
<1>4. Accept(p) /\ Awaited(p)
  BY <1>1, <1>2, <1>3 DEF Next, Write, LeaseExpires, BackoffElapses
<1>5. wire[p][Len(wire[p])] = cur[p] /\ wire[p] # <<>> /\ Len(wire[p]) = 1 /\ UNCHANGED cur
  BY <1>4 DEF Awaited, Accept, Answer, Delivery, Own
<1>6. cur[p] # None
  BY <1>4 DEF Awaited, Leasing, Current, InCall
<1> QED
  BY <1>1, <1>4, <1>5, <1>6

LEMMA AckedStep ==
  ASSUME TypeOK, Leasing, Delivery, Next
  PROVE  Acked'
<1> SUFFICES ASSUME NEW p \in Pod, pc'[p] = "acked" PROVE cur'[p].id \in shown'[cur'[p].of]
  BY DEF Acked
<1>1. CASE pc[p] = "acked"
  <2>1. cur'[p] = cur[p] /\ cur[p] # None
    BY <1>1, Passes DEF InCall, Send, Leasing, Current
  <2>2. cur[p].id \in shown[cur[p].of] /\ cur[p].of \in Object
    BY <1>1, <2>1, Domains DEF Delivery, Acked
  <2> QED
    BY <2>1, <2>2, ShownGrows
<1>2. CASE pc[p] # "acked"
  <2>1. Overwrite(cur[p]) /\ UNCHANGED cur /\ cur[p] \in Message
    BY <1>2, AckedIsAccepted DEF Accept
  <2>2. cur[p].of \in Object /\ shown \in [Object -> SUBSET Id]
    BY <2>1, Domains DEF TypeOK
  <2> QED
    BY <2>1, <2>2 DEF Overwrite
<1> QED
  BY <1>1, <1>2

LEMMA RecordedStep ==
  ASSUME TypeOK, Leasing, Delivery, Next
  PROVE  Recorded'
<1> SUFFICES ASSUME NEW i \in DOMAIN outbox'
             PROVE  /\ outbox'[i].published => i \in shown'[outbox'[i].of]
                    /\ ~outbox'[i].published => \A w \in shown'[outbox'[i].of] : w <= i
  BY DEF Recorded
<1>1. Kept(i) /\ i \in Nat /\ outbox'[i].of \in Object
  <2>1. TypeOK'
    BY TypeStep
  <2> QED
    BY <2>1, RowsKept, OutboxConstants DEF TypeOK, Row, Id
<1>2. ASSUME outbox'[i].published PROVE i \in shown'[outbox'[i].of]
  <2>1. CASE i \in DOMAIN outbox /\ outbox'[i].of = outbox[i].of
    <3>1. CASE outbox[i].published
      BY <1>1, <2>1, <3>1, ShownGrows DEF Delivery, Recorded
    <3>2. CASE ~outbox[i].published
      <4>1. i \in Pending /\ i \notin Pending'
        BY <1>2, <2>1, <3>2 DEF Pending
      <4> QED
        BY <1>1, <2>1, <4>1, RetiredIsShown, ShownGrows
    <3> QED
      BY <3>1, <3>2
  <2>2. CASE (\A o \in Object : last[o] < i) /\ i = last'[outbox'[i].of]
    <3>1. last[outbox'[i].of] < i /\ last[outbox'[i].of] \in Nat
      BY <1>1, <2>2, Domains
    <3>2. last'[outbox'[i].of] # last[outbox'[i].of]
      BY <1>1, <2>2, <3>1
    <3>3. i \in Pending'
      BY <1>1, <2>2, <3>2, NewWrites
    <3> QED
      BY <1>2, <3>3 DEF Pending
  <2> QED
    BY <1>1, <2>1, <2>2 DEF Kept
<1>3. ASSUME ~outbox'[i].published, NEW w \in shown'[outbox'[i].of] PROVE w <= i
  <2>1. i \in Pending'
    BY <1>3 DEF Pending
  <2>2. CASE w \in shown[outbox'[i].of]
    <3>1. CASE i \in Pending /\ outbox'[i].of = outbox[i].of
      BY <2>2, <3>1 DEF Delivery, Recorded, Pending
    <3>2. CASE \A o \in Object : last[o] < i
      <4>1. w <= last[outbox'[i].of] /\ w \in Nat /\ last[outbox'[i].of] \in Nat
        BY <1>1, <2>2, Domains DEF Delivery, Shown, TypeOK
      <4> QED
        BY <1>1, <3>2, <4>1
    <3> QED
      BY <2>1, <3>1, <3>2, PendingBefore
  <2>3. CASE w \notin shown[outbox'[i].of]
    <3>1. PICK p \in Pod : /\ Delivered(p)
                           /\ Head(wire[p]) \in Message /\ Carried(Head(wire[p]))
                           /\ Head(wire[p]).id = w /\ Head(wire[p]).of = outbox'[i].of
      BY <1>1, <1>3, <2>3, ShownGrows
    <3>2. i \in Pending /\ outbox[i].of = outbox'[i].of
      BY <2>1, <3>1 DEF Delivered, Pending
    <3> QED
      BY <3>1, <3>2 DEF Carried
  <2> QED
    BY <2>2, <2>3
<1> QED
  BY <1>2, <1>3

LEMMA NewestStep ==
  ASSUME TypeOK, Leasing, Delivery, Next
  PROVE  Newest'
<1> SUFFICES ASSUME NEW o \in Object
             PROVE  last'[o] \in {0} \cup shown'[o] \/ (last'[o] \in Pending' /\ outbox'[last'[o]].of = o)
  BY DEF Newest
<1>1. CASE last'[o] # last[o]
  BY <1>1, NewWrites
<1>2. CASE last'[o] = last[o] /\ last[o] \in {0} \cup shown[o]
  BY <1>2, ShownGrows
<1>3. CASE last'[o] = last[o] /\ last[o] \in Pending /\ outbox[last[o]].of = o
  <2>1. CASE last[o] \in Pending'
    <3>1. outbox'[last[o]].of = outbox[last[o]].of
      BY <1>3, <2>1, OldestStaysOldest DEF Leasing
    <3> QED
      BY <1>3, <2>1, <3>1
  <2>2. CASE last[o] \notin Pending'
    <3>1. last[o] \in shown[o]
      BY <1>3, <2>2, RetiredIsShown
    <3> QED
      BY <1>3, <3>1, ShownGrows
  <2> QED
    BY <2>1, <2>2
<1> QED
  BY <1>1, <1>2, <1>3 DEF Delivery, Newest

LEMMA ShownStep ==
  ASSUME TypeOK, Leasing, Delivery, Next
  PROVE  Shown'
<1> SUFFICES ASSUME NEW o \in Object
             PROVE  index'[o] \in {0} \cup shown'[o] /\ \A w \in shown'[o] : w <= last'[o]
  BY DEF Shown
<1>1. last[o] \in Nat /\ last'[o] \in Nat /\ last'[o] >= last[o]
  <2>1. TypeOK' /\ MaxWrites \in Nat
    BY TypeStep, OutboxConstants
  <2> QED
    BY <2>1, Domains, RowsKept DEF TypeOK
<1>2. index'[o] \in {0} \cup shown'[o]
  BY ShownGrows DEF Delivery, Shown
<1>3. ASSUME NEW w \in shown'[o] PROVE w <= last'[o]
  <2>1. w \in Nat
    BY TypeStep, OutboxConstants DEF TypeOK, Id
  <2>2. w <= last[o]
    <3>1. CASE w \in shown[o]
      BY <3>1 DEF Delivery, Shown
    <3>2. CASE w \notin shown[o]
      BY <3>2, ShownGrows, Deliveries
    <3> QED
      BY <3>1, <3>2
  <2> QED
    BY <1>1, <2>1, <2>2
<1> QED
  BY <1>2, <1>3

-----------------------------------------------------------------------------
(* The theorems on what the index shows. *)

LEMMA Start == Init => Inv
<1> SUFFICES ASSUME Init PROVE Inv
  OBVIOUS
<1>1. TypeOK /\ Leasing
  BY TypeStart, LeasingStart
<1>2. Delivery
  BY DEF Init, Delivery, Wire, Own, Acked, Recorded, Newest, Shown
<1> QED
  BY <1>1, <1>2 DEF Inv

LEMMA Step == Inv /\ [Next]_vars => Inv'
<1> SUFFICES ASSUME Inv, [Next]_vars PROVE Inv'
  OBVIOUS
<1>1. TypeOK' /\ Leasing'
  BY TypeStep, LeasingStep DEF Inv
<1>2. CASE Next
  BY <1>1, <1>2, WireStep, OwnStep, AckedStep, RecordedStep, NewestStep, ShownStep DEF Inv, Delivery
<1>3. CASE UNCHANGED vars
  BY <1>1, <1>3 DEF vars, search, Inv, Delivery, Wire, Carried, Own, Acked, Recorded, Newest, Shown, Pending
<1> QED
  BY <1>2, <1>3

LEMMA Invariance == Spec => []Inv
  BY Start, Step, PTL DEF Spec

\* No failure, lost answer, expired lease, crash, pruning or late request drops a write
\* the index never showed, or lets a newer one be shown while it is pending
\* (claimBatch, markPublished, recordFailure, the prune).
THEOREM NothingIsForgotten == Spec => []ShownInTurn
<1>1. Inv => ShownInTurn
  BY DEF Inv, Delivery, Newest, Recorded, ShownInTurn
<1> QED
  BY <1>1, Invariance, PTL

\* Only a request nobody waits for takes a document back, though the indexer compares
\* nothing: a claimed row is the oldest pending one of its object, and nothing newer of
\* the object has been shown (claimBatch's predecessor test, the leases).
THEOREM OnlyLateOnesGoBack == Spec => OnlyLateRequestsGoBack
<1> DEFINE Forward == \A o \in Object : index'[o] < index[o] =>
                        \E p \in Pod : wire'[p] # wire[p] /\ ~Awaited(p)
<1>1. ASSUME Inv, Next PROVE Forward
  <2>1. SUFFICES ASSUME NEW o \in Object, index'[o] < index[o]
                 PROVE  \E p \in Pod : wire'[p] # wire[p] /\ ~Awaited(p)
    OBVIOUS
  <2>2. /\ TypeOK /\ Leasing /\ Delivery
        /\ index \in [Object -> 0 .. MaxWrites] /\ wire \in [Pod -> Seq(Message)]
        /\ index[o] \in Nat
    BY <1>1, Domains DEF Inv, TypeOK
  <2>3. ~ UNCHANGED search
    BY <2>1, <2>2 DEF search
  <2>4. PICK p \in Pod : Delivered(p)
    BY <1>1, <2>2, <2>3, IndexMoves
  <2>5. wire'[p] # wire[p]
    <3>1. wire[p] \in Seq(Message) /\ wire[p] # <<>> /\ wire'[p] = Tail(wire[p])
      BY <2>2, <2>4 DEF Delivered
    <3>2. Len(wire'[p]) # Len(wire[p])
      BY <3>1
    <3> QED
      BY <3>2
  <2>6. ASSUME Awaited(p) PROVE FALSE
    <3>1. wire[p] \in Seq(Message) /\ Len(wire[p]) = 1 /\ wire[p][Len(wire[p])] = cur[p] /\ pc[p] = "awaiting"
      BY <2>2, <2>4, <2>6 DEF Awaited, Delivered, Delivery, Own
    <3>2. Head(wire[p]) = cur[p]
      BY <3>1
    <3>3. cur[p].id \in Pending /\ outbox[cur[p].id].of = cur[p].of
      BY <2>2, <3>1 DEF Leasing, Current, HoldsLease, InCall
    <3>4. cur[p] \in Message /\ cur[p].id \in Nat /\ cur[p].of \in Object
          /\ index' = [index EXCEPT ![cur[p].of] = cur[p].id]
      BY <2>2, <2>4, <3>2, Deliveries, Domains
    <3>5. o = cur[p].of /\ index'[o] = cur[p].id
      BY <2>1, <2>2, <3>4
    <3>6. index[o] \in {0} \cup shown[o] /\ \A w \in shown[o] : w <= cur[p].id
      BY <2>2, <3>3, <3>5 DEF Delivery, Shown, Recorded, Pending
    <3> QED
      BY <2>1, <2>2, <3>4, <3>5, <3>6
  <2> QED
    BY <2>5, <2>6
<1>2. Inv /\ [Next]_vars => [Forward]_vars
  BY <1>1
<1> QED
  BY <1>2, Invariance, PTL DEF Spec, OnlyLateRequestsGoBack

\* A delivery shows a write for the first time, in its turn, or one that was shown before.
LEMMA DeliveryIsPromised ==
  ASSUME TypeOK, Leasing, Delivery, NEW p \in Pod, Delivered(p)
  PROVE  \E o \in Object : Promise!CatchUp(o) \/ Promise!Repeat(o)
<1>1. PICK m \in Message : m = Head(wire[p])
  BY Deliveries
<1>2. /\ Carried(m) /\ m.id <= last[m.of] /\ UNCHANGED last
      /\ index' = [index EXCEPT ![m.of] = m.id]
      /\ shown' = [shown EXCEPT ![m.of] = @ \cup {m.id}]
  BY <1>1, Deliveries DEF Delivered
<1>3. m.id \in Id /\ m.of \in Object /\ last[m.of] \in Nat /\ shown[m.of] \in SUBSET Id /\ Id \subseteq Nat
  BY Domains DEF TypeOK
<1>4. Promise!Show(m.of, m.id)
  BY <1>2 DEF Promise!Show
<1>5. CASE m.id \in shown[m.of]
  BY <1>3, <1>4, <1>5 DEF Promise!Repeat
<1>6. CASE m.id \notin shown[m.of]
  <2>1. m.id \in Pending /\ outbox[m.id].of = m.of
    BY <1>2, <1>6 DEF Carried
  <2>2. \A w \in shown[m.of] : w <= m.id
    BY <2>1 DEF Delivery, Recorded, Pending
  <2>3. m.id \in Nat /\ \A w \in shown[m.of] : w \in Nat /\ w # m.id
    BY <1>3, <1>6
  <2>4. m.id \in 1 .. last[m.of]
    BY <1>2, <1>3 DEF Id
  <2>5. \A w \in shown[m.of] : w < m.id
    BY <2>2, <2>3
  <2> QED
    BY <1>3, <1>4, <2>4, <2>5 DEF Promise!CatchUp
<1> QED
  BY <1>5, <1>6

\* A write is numbered after every other.
LEMMA WriteIsPromised ==
  ASSUME TypeOK, NEW o \in Object, Write(o)
  PROVE  Promise!Write(o)
<1>1. NextId \in Nat /\ \A x \in Object : last[x] < NextId
  BY NextIdIsNew
<1>2. last' = [last EXCEPT ![o] = NextId] /\ last'[o] = NextId /\ UNCHANGED <<index, shown>>
  BY DEF Write, TypeOK, search
<1> QED
  BY <1>1, <1>2 DEF Promise!Write

\* The outbox, the leases, the relays and connections that keep requests implement the
\* search index: every step is a write, shows a committed write in its turn, shows one
\* again, or changes nothing of it (enqueueIndexMessage, the relay's pass, the
\* indexer's overwrite).
THEOREM OutboxImplementsSearchIndex == Spec => ImplementsSearchIndex
<1>1. Init => Promise!Init
  BY DEF Init, Promise!Init
<1>2. ASSUME Inv, Next PROVE UNCHANGED <<last, index, shown>> \/ Promise!Next
  <2>1. ASSUME NEW o \in Object, Write(o) PROVE Promise!Next
    BY <1>2, <2>1, WriteIsPromised DEF Inv, Promise!Next
  <2>2. ASSUME NEW p \in Pod, Delivered(p) PROVE Promise!Next
    BY <1>2, <2>2, DeliveryIsPromised DEF Inv, Promise!Next
  <2>3. (\E o \in Object : Write(o)) \/ UNCHANGED last
    <3>1. ASSUME NEW p \in Pod, RelayStep(p) \/ Indexer(p) PROVE UNCHANGED last
      BY <3>1 DEF RelayStep, Claim, ClaimUnacknowledged, Send, GiveUp, Settle, Retire, RecordFailure,
         SettleFails, Settled, EndPass, Crash, Indexer, Accept, Refuse, LoseMessage, LoseAnswer, Lose, Answer
    <3>2. ASSUME NEW i \in Id, LeaseExpires(i) \/ BackoffElapses(i) PROVE UNCHANGED last
      BY <3>2 DEF LeaseExpires, BackoffElapses
    <3> QED
      BY <1>2, <3>1, <3>2 DEF Next
  <2>4. CASE UNCHANGED search
    BY <2>1, <2>3, <2>4 DEF search
  <2> QED
    BY <1>2, <2>2, <2>4, IndexMoves DEF Inv
<1>3. Inv /\ [Next]_vars => [Promise!Next]_(Promise!vars)
  BY <1>2 DEF vars, search, Promise!vars
<1> QED
  BY <1>1, <1>3, Invariance, PTL DEF Spec, ImplementsSearchIndex, Promise!Spec
=============================================================================
