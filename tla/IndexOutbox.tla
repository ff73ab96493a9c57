---------------------------- MODULE IndexOutbox ----------------------------
(***************************************************************************)
(* The transactional outbox that carries committed briefs and campaigns to *)
(* the search index, and the relays, one per pod, that drain it.  A relay  *)
(* pass claims at most one pending row of each object under a lease,       *)
(* publishes the claimed rows as NATS requests with no transaction open,   *)
(* and settles each in a transaction of its own, guarded on the lease.     *)
(*                                                                         *)
(* The indexer overwrites an object's document with whatever arrives last. *)
(* A pod's connection delivers in order, and keeps what it could not send  *)
(* until it is back: a request nobody waits for any more may still be      *)
(* delivered, long after another pod has published the same row.           *)
(***************************************************************************)
EXTENDS Naturals, Sequences, FiniteSets, FiniteSetsExt, SequencesExt

CONSTANTS
  Object,      \* the briefs and campaigns
  Poison,      \* objects whose document the indexer refuses
  Pod,         \* replicas of the service
  None,        \* no lease holder, no row
  BatchLimit,  \* rows one pass may claim
  MaxWrites,   \* bound: writes in a behaviour
  MaxBuffer,   \* bound: messages a connection holds
  MaxCrashes   \* bound: deaths of pods

ASSUME OutboxConstants ==
  /\ IsFiniteSet(Object) /\ Poison \subseteq Object
  /\ None \notin Pod \cup [id: 1 .. MaxWrites, of: Object]
  /\ BatchLimit \in Nat \ {0}
  /\ MaxWrites \in Nat /\ MaxBuffer \in Nat \ {0} /\ MaxCrashes \in Nat

VARIABLES
  last,    \* the newest committed write of each object, its row's id
  outbox,  \* index_outbox: its rows by id
  index,   \* the write shown by each object's document in the search index
  shown,   \* every write each document has shown; read by the properties alone
  wire,    \* messages a pod's connection has accepted, oldest first
  pc,      \* where each pod's relay is
  batch,   \* rows a pass claimed and has not published yet
  cur,     \* the row a pass is publishing or settling
  crashes

search == <<index, shown>>

vars == <<last, outbox, search, wire, pc, batch, cur, crashes>>

Id == 1 .. MaxWrites

\* A retired or failed row is leased to nobody.
Row == {row \in [of: Object, by: Pod \cup {None}, backoff: BOOLEAN, published: BOOLEAN] :
          row.by # None => ~row.backoff /\ ~row.published}

Message == [id: Id, of: Object]

\* "acked" and "failed" are a finished request whose outcome is not settled yet.
PC == {"idle", "publishing", "awaiting", "acked", "failed"}

TypeOK ==
  /\ last \in [Object -> 0 .. MaxWrites]
  /\ DOMAIN outbox \subseteq Id /\ \A i \in DOMAIN outbox : outbox[i] \in Row
  /\ index \in [Object -> 0 .. MaxWrites]
  /\ shown \in [Object -> SUBSET Id]
  /\ wire \in [Pod -> Seq(Message)]
  /\ pc \in [Pod -> PC]
  /\ batch \in [Pod -> SUBSET Message]
  /\ cur \in [Pod -> Message \cup {None}]
  /\ crashes \in 0 .. MaxCrashes

Init ==
  /\ last = [o \in Object |-> 0]
  /\ outbox = [i \in {} |-> None]
  /\ index = [o \in Object |-> 0]
  /\ shown = [o \in Object |-> {}]
  /\ wire = [p \in Pod |-> <<>>]
  /\ pc = [p \in Pod |-> "idle"]
  /\ batch = [p \in Pod |-> {}]
  /\ cur = [p \in Pod |-> None]
  /\ crashes = 0

-----------------------------------------------------------------------------
(* Writing a brief or a campaign. *)

NextId == 1 + Max({0} \cup {last[o] : o \in Object})

NewRow(o) == [of |-> o, by |-> None, backoff |-> FALSE, published |-> FALSE]

\* enqueueIndexMessage: the row commits with the resource, whose row lock makes
\* the ids of one object follow its commits.
Write(o) ==
  /\ NextId \in Id
  /\ last' = [last EXCEPT ![o] = NextId]
  /\ outbox' = [i \in DOMAIN outbox \cup {NextId} |->
                  IF i = NextId THEN NewRow(o) ELSE outbox[i]]
  /\ UNCHANGED <<search, wire, pc, batch, cur, crashes>>

-----------------------------------------------------------------------------
(* One pass of a pod's relay. *)

Pending == {i \in DOMAIN outbox : ~outbox[i].published}

\* Mutant: FOR UPDATE SKIP LOCKED alone, without the predecessor test.
MutNoPredecessors(i) == {}

\* Older pending rows of the same object, leased or not.
Predecessors(i) == {j \in Pending : j < i /\ outbox[j].of = outbox[i].of}

\* Mutant: the lease is not looked at.
MutIgnoresLeases == {i \in Pending : ~outbox[i].backoff /\ Predecessors(i) = {}}

Claimable ==
  {i \in Pending : outbox[i].by = None /\ ~outbox[i].backoff /\ Predecessors(i) = {}}

Oldest(n, S) == {i \in S : Cardinality({j \in S : j < i}) < n}

Claimed == Oldest(BatchLimit, Claimable)

Lease(p) == [i \in DOMAIN outbox |->
               IF i \in Claimed THEN [outbox[i] EXCEPT !.by = p] ELSE outbox[i]]

MessageOf(i) == [id |-> i, of |-> outbox[i].of]

\* claimBatch.
Claim(p) ==
  /\ pc[p] = "idle"
  /\ Claimed # {}
  /\ outbox' = Lease(p)
  /\ batch' = [batch EXCEPT ![p] = {MessageOf(i) : i \in Claimed}]
  /\ pc' = [pc EXCEPT ![p] = "publishing"]
  /\ UNCHANGED <<last, search, wire, cur, crashes>>

\* The claim commits and its acknowledgement is lost: rows leased to nobody.
ClaimUnacknowledged(p) ==
  /\ pc[p] = "idle"
  /\ Claimed # {}
  /\ outbox' = Lease(p)
  /\ UNCHANGED <<last, search, wire, pc, batch, cur, crashes>>

\* PublishRaw: a request on the pod's connection.
Send(p, m) ==
  /\ pc[p] = "publishing"
  /\ m \in batch[p]
  /\ Len(wire[p]) < MaxBuffer
  /\ wire' = [wire EXCEPT ![p] = Append(@, m)]
  /\ batch' = [batch EXCEPT ![p] = @ \ {m}]
  /\ cur' = [cur EXCEPT ![p] = m]
  /\ pc' = [pc EXCEPT ![p] = "awaiting"]
  /\ UNCHANGED <<last, outbox, search, crashes>>

\* Mutant: a request that timed out counts as delivered.
MutAfterTimeout == "acked"

AfterTimeout == "failed"

\* The request times out, finds no responder, or is cancelled with the pass.  What
\* the connection holds of it stays there.
GiveUp(p) ==
  /\ pc[p] = "awaiting"
  /\ pc' = [pc EXCEPT ![p] = AfterTimeout]
  /\ UNCHANGED <<last, outbox, search, wire, batch, cur, crashes>>

Settled(p) ==
  /\ cur' = [cur EXCEPT ![p] = None]
  /\ pc' = [pc EXCEPT ![p] = "publishing"]
  /\ UNCHANGED <<last, search, wire, batch, crashes>>

\* Mutant: the settlement is not guarded on the lease.
MutHoldsLease(p, i) == i \in Pending

\* leased_by is this pod and the lease has not expired.
HoldsLease(p, i) == i \in Pending /\ outbox[i].by = p

\* Mutant: a published row keeps its lease.
MutRetired(row) == [row EXCEPT !.published = TRUE]

Retired(row) == [row EXCEPT !.published = TRUE, !.by = None]

\* markPublished, a no-op once the lease is lost.
Retire(p) ==
  /\ pc[p] = "acked"
  /\ outbox' = IF HoldsLease(p, cur[p].id)
               THEN [outbox EXCEPT ![cur[p].id] = Retired(@)]
               ELSE outbox
  /\ Settled(p)

\* Mutant: a failure is recorded without stamping the attempt.
MutAfterFailure(row) == [row EXCEPT !.by = None]

\* The lease goes, the attempt's time starts the back-off.
AfterFailure(row) == [row EXCEPT !.by = None, !.backoff = TRUE]

\* recordFailure, under the same guard.
RecordFailure(p) ==
  /\ pc[p] = "failed"
  /\ outbox' = IF HoldsLease(p, cur[p].id)
               THEN [outbox EXCEPT ![cur[p].id] = AfterFailure(@)]
               ELSE outbox
  /\ Settled(p)

\* The settling transaction fails; the pass goes on to its next row.
SettleFails(p) ==
  /\ pc[p] \in {"acked", "failed"}
  /\ Settled(p)
  /\ UNCHANGED outbox

\* Mutant: retention by age alone.
MutPrunable == DOMAIN outbox

Prunable == DOMAIN outbox \ Pending

\* The batch is published, or the pass's time is up and the rest keep their
\* leases; the relay then prunes rows past their retention, here any published.
EndPass(p) ==
  /\ pc[p] = "publishing"
  /\ \E old \in SUBSET Prunable :
       outbox' = [i \in DOMAIN outbox \ old |-> outbox[i]]
  /\ batch' = [batch EXCEPT ![p] = {}]
  /\ pc' = [pc EXCEPT ![p] = "idle"]
  /\ UNCHANGED <<last, search, wire, cur, crashes>>

\* The process dies, with what its connection had not sent.
Crash(p) ==
  /\ crashes < MaxCrashes
  /\ crashes' = crashes + 1
  /\ wire' = [wire EXCEPT ![p] = <<>>]
  /\ batch' = [batch EXCEPT ![p] = {}]
  /\ cur' = [cur EXCEPT ![p] = None]
  /\ pc' = [pc EXCEPT ![p] = "idle"]
  /\ UNCHANGED <<last, outbox, search>>

-----------------------------------------------------------------------------
(* Time. *)

\* The rows of the pass a pod is running.
InPass(p) == {m.id : m \in batch[p]} \cup (IF cur[p] = None THEN {} ELSE {cur[p].id})

\* A lease outlasts the pass that took it, so a pod whose lease runs out has no
\* request in flight and sends nothing more; it may be settling.
LeaseExpires(i) ==
  /\ i \in Pending
  /\ \E p \in Pod :
       /\ outbox[i].by = p
       /\ ~(pc[p] = "awaiting" /\ i \in InPass(p))
       /\ batch' = [batch EXCEPT ![p] = IF i \in InPass(p) THEN {} ELSE @]
  /\ outbox' = [outbox EXCEPT ![i].by = None]
  /\ UNCHANGED <<last, search, wire, pc, cur, crashes>>

BackoffElapses(i) ==
  /\ i \in DOMAIN outbox
  /\ outbox[i].backoff
  /\ outbox' = [outbox EXCEPT ![i].backoff = FALSE]
  /\ UNCHANGED <<last, search, wire, pc, batch, cur, crashes>>

-----------------------------------------------------------------------------
(* The broker and the indexer. *)

\* The pass waits for the oldest message of its connection: those before its own
\* request are gone.
Awaited(p) == pc[p] = "awaiting" /\ Len(wire[p]) = 1

\* The oldest message of a connection leaves it, and answers the request it carries.
Answer(p, outcome) ==
  /\ wire[p] # <<>>
  /\ wire' = [wire EXCEPT ![p] = Tail(@)]
  /\ pc' = IF Awaited(p) THEN [pc EXCEPT ![p] = outcome] ELSE pc
  /\ UNCHANGED <<last, outbox, batch, cur, crashes>>

\* The document is overwritten, without comparing versions.
Overwrite(m) ==
  /\ m.of \notin Poison
  /\ index' = [index EXCEPT ![m.of] = m.id]
  /\ shown' = [shown EXCEPT ![m.of] = @ \cup {m.id}]

Accept(p) == Answer(p, "acked") /\ Overwrite(Head(wire[p]))

Refuse(p) == Answer(p, "failed") /\ UNCHANGED search

\* The message, or the answer to it, is lost.
Lose(p) ==
  /\ wire[p] # <<>>
  /\ wire' = [wire EXCEPT ![p] = Tail(@)]
  /\ UNCHANGED <<last, outbox, pc, batch, cur, crashes>>

LoseMessage(p) == Lose(p) /\ UNCHANGED search

LoseAnswer(p) == Lose(p) /\ Overwrite(Head(wire[p]))

-----------------------------------------------------------------------------
Settle(p) == Retire(p) \/ RecordFailure(p) \/ SettleFails(p)

RelayStep(p) ==
  \/ Claim(p) \/ ClaimUnacknowledged(p)
  \/ \E m \in batch[p] : Send(p, m)
  \/ GiveUp(p) \/ Settle(p) \/ EndPass(p) \/ Crash(p)

Indexer(p) == Accept(p) \/ Refuse(p) \/ LoseMessage(p) \/ LoseAnswer(p)

Next ==
  \/ \E o \in Object : Write(o)
  \/ \E p \in Pod : RelayStep(p) \/ Indexer(p)
  \/ \E i \in Id : LeaseExpires(i) \/ BackoffElapses(i)

Spec == Init /\ [][Next]_vars

InTime(p) == cur[p] # None /\ HoldsLease(p, cur[p].id)

Publishing(p, i) == cur[p] # None /\ cur[p].id = i

BackingOff == \E i \in Pending : outbox[i].backoff

\* The relays' tickers run, every step of a pass is bounded by a timeout, and time
\* passes.  The back-off of a row that keeps failing grows to an hour, so it
\* outlasts passes (30 s, every 15 s) again and again, and a row that may be
\* claimed again and again is claimed.  A row claimed again and again is sent once,
\* is answered once and is settled within its lease once: the outage of the
\* broker, the indexer or the database ends.  A connection reconnects for ever, and
\* sends what it holds: it is back during some pass that has the row to send.
Fairness ==
  /\ \A p \in Pod :
       /\ WF_vars(GiveUp(p)) /\ WF_vars(Settle(p)) /\ WF_vars(EndPass(p))
       /\ SF_vars(InTime(p) /\ RecordFailure(p))
       /\ SF_vars(BackingOff /\ EndPass(p))
  /\ \A i \in Id :
       /\ WF_vars(LeaseExpires(i)) /\ WF_vars(BackoffElapses(i))
       /\ SF_vars(\E p \in Pod : Claim(p) /\ i \in Claimed)
       /\ SF_vars(\E p \in Pod : \E m \in batch[p] : m.id = i /\ Indexer(p))
       /\ SF_vars(\E p \in Pod : \E m \in batch[p] : m.id = i /\ Send(p, m))
       /\ SF_vars(\E p \in Pod : Publishing(p, i) /\ Awaited(p) /\ Accept(p))
       /\ SF_vars(\E p \in Pod : Publishing(p, i) /\ InTime(p) /\ Retire(p))

FairSpec == Spec /\ Fairness

-----------------------------------------------------------------------------
(* Properties. *)

\* No two passes, on whatever pods, ever wait for an answer about the same object: a
\* lease is given up, lost, or settled late without opening its object to a second
\* publisher.
OneRequestPerObject ==
  \A p, q \in Pod :
    p # q /\ pc[p] = "awaiting" /\ pc[q] = "awaiting" =>
      cur[p].of # cur[q].of

\* Every object's newest write has been in the index or is still pending: no failure,
\* lost answer, expired lease, crash or pruning drops it.  A row is retired only
\* when the index has shown it, and while it is pending the index has shown nothing
\* newer of its object.
ShownInTurn ==
  /\ TypeOK
  /\ \A o \in Object : last[o] \in {0} \cup shown[o] \cup Pending
  /\ \A i \in DOMAIN outbox :
       /\ outbox[i].published => i \in shown[outbox[i].of]
       /\ ~outbox[i].published => \A w \in shown[outbox[i].of] : w <= i

\* Only a request nobody waits for any more takes a document back: whatever
\* answers a pass overwrites its document with the same write or a newer one.
OnlyLateRequestsGoBack ==
  [][\A o \in Object :
       index'[o] < index[o] => \E p \in Pod : wire'[p] # wire[p] /\ ~Awaited(p)]_vars

Promise == INSTANCE SearchIndex
             WITH Object <- Object, last <- last, index <- index, shown <- shown

\* The index shows the committed writes of each object in their order, and what it
\* shows beside that it has shown before.
ImplementsSearchIndex == Promise!Spec

\* No document is overwritten by an older one: nothing brings an archived brief
\* or a deleted campaign back into the search results.
IndexNeverGoesBack == [][\A o \in Object : index'[o] >= index[o]]_index

\* Every write of an object the indexer accepts is in the index in the end, past
\* crashes, lost messages and failed settlements, and past older rows that the
\* indexer refuses for ever.
EveryWriteIsIndexed ==
  \A o \in Object \ Poison : \A i \in Id : last[o] = i ~> index[o] >= i
=============================================================================
