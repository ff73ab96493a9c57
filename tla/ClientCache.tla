------------------------------ MODULE ClientCache ------------------------------
(***************************************************************************)
(* How a call on an ad platform gets its client.  It reads the row of its  *)
(* project's connection, or, for a project that never had one, that of the *)
(* system's; takes the decrypted credential of that row, and a client made *)
(* with it, from two caches that keep one entry a scope.  An entry is good *)
(* for the row it was made from only, and calls that miss together make it *)
(* once, in a flight of one leader.                                        *)
(*                                                                         *)
(* A row is its id and version; a credential or client is named by its row *)
(* and the call that made it.                                              *)
(***************************************************************************)
EXTENDS Naturals

CONSTANTS
  Project, System,
  Call,       \* calls, each made once
  ProjectOf,
  Nothing,
  MaxWrites,  \* bound: writes of connections
  MaxExpiries \* bound: entries that expire or are evicted

ASSUME ClientConstants ==
  /\ System \notin Project
  /\ ProjectOf \in [Call -> Project]
  /\ MaxWrites \in Nat /\ MaxExpiries \in Nat

Scope == Project \cup {System}

VARIABLES
  conn,     \* the live row of each scope
  left,     \* scopes that ever deleted their connection
  writes,
  cache,    \* the entries, by layer and scope
  expiries,
  pc,
  layer,    \* the cache a call is at
  read,     \* scope and row a call has read
  got,      \* by layer, what a call has
  leader,   \* whose flight a call is in
  connectedBefore \* history: calls whose project had ever connected when they read its row

store == <<conn, left, writes>>
local == <<pc, layer, read, got, leader, connectedBefore>>
vars == <<store, cache, expiries, local>>

Layer == {"credential", "client"}

Row == [scope : Scope, id : 0 .. MaxWrites, version : 1 .. MaxWrites + 1]
Entry == [of : Row, by : Call]

TypeOK ==
  /\ conn \in [Scope -> Row \cup {Nothing}]
  /\ left \subseteq Scope
  /\ writes \in 0 .. MaxWrites
  /\ cache \in [Layer -> [Scope -> Entry \cup {Nothing}]]
  /\ expiries \in 0 .. MaxExpiries
  /\ pc \in [Call -> {"new", "absent", "falling back", "getting", "missed", "leading", "making", "waiting", "served", "refused"}]
  /\ layer \in [Call -> Layer]
  /\ read \in [Call -> [scope : Scope, row : Row \cup {Nothing}]]
  /\ got \in [Layer -> [Call -> Entry \cup {Nothing}]]
  /\ leader \in [Call -> Call]
  /\ connectedBefore \subseteq Call

\* An id is used once; every new row is at version 1.
FreshRow(s, n) == [scope |-> s, id |-> n, version |-> 1]

Init ==
  /\ \E connected \in SUBSET Scope :
       conn = [s \in Scope |-> IF s \in connected THEN FreshRow(s, 0) ELSE Nothing]
  /\ left = {} /\ writes = 0
  /\ cache = [l \in Layer |-> [s \in Scope |-> Nothing]]
  /\ expiries = 0
  /\ pc = [c \in Call |-> "new"]
  /\ layer = [c \in Call |-> "credential"]
  /\ read = [c \in Call |-> [scope |-> ProjectOf[c], row |-> Nothing]]
  /\ got = [l \in Layer |-> [c \in Call |-> Nothing]]
  /\ leader = [c \in Call |-> c]
  /\ connectedBefore = {}

-----------------------------------------------------------------------------
(* The connections. *)

Write(s, row) ==
  /\ writes < MaxWrites
  /\ writes' = writes + 1
  /\ conn' = [conn EXCEPT ![s] = row]
  /\ UNCHANGED <<cache, expiries, local>>

Create(s) ==
  /\ conn[s] = Nothing
  /\ Write(s, FreshRow(s, writes + 1))
  /\ UNCHANGED left

\* Update, UpdateWithCredential or SetCredential.
Update(s) ==
  /\ conn[s] # Nothing
  /\ Write(s, [conn[s] EXCEPT !.version = @ + 1])
  /\ UNCHANGED left

\* A tombstone stays.
Delete(s) ==
  /\ conn[s] # Nothing
  /\ Write(s, Nothing)
  /\ left' = left \cup {s}

-----------------------------------------------------------------------------
(* The row a call works with. *)

Goto(c, l) == pc' = [pc EXCEPT ![c] = l]

Get(c) ==
  LET p == ProjectOf[c] IN
  /\ pc[c] = "new"
  /\ read' = [read EXCEPT ![c].row = conn[p]]
  /\ connectedBefore' = IF conn[p] # Nothing \/ p \in left THEN connectedBefore \cup {c} ELSE connectedBefore
  /\ Goto(c, IF conn[p] = Nothing THEN "absent" ELSE "getting")
  /\ UNCHANGED <<store, cache, expiries, layer, got, leader>>

\* Mutant: a project without a connection uses the system's.
MutMayFallBack(p) == TRUE

MayFallBack(p) == p \notin left

\* Disconnected.
AskDisconnected(c) ==
  /\ pc[c] = "absent"
  /\ Goto(c, IF MayFallBack(ProjectOf[c]) THEN "falling back" ELSE "refused")
  /\ UNCHANGED <<store, cache, expiries, layer, read, got, leader, connectedBefore>>

GetSystem(c) ==
  /\ pc[c] = "falling back"
  /\ read' = [read EXCEPT ![c] = [scope |-> System, row |-> conn[System]]]
  /\ Goto(c, IF conn[System] = Nothing THEN "refused" ELSE "getting")
  /\ UNCHANGED <<store, cache, expiries, layer, got, leader, connectedBefore>>

-----------------------------------------------------------------------------
(* The caches.  The credential is looked for under the row that was read, the *)
(* client under the row its credential was made from.                        *)

\* Mutant: by version alone.
MutSameRow(a, b) == a.version = b.version

SameRow(a, b) == a = b

\* The scope and row a call looks for in the cache it is at.
KeyRow(c) == IF layer[c] = "credential" THEN read[c].row ELSE got["credential"][c].of

Cached(c) == cache[layer[c]][read[c].scope]

Hit(c) == Cached(c) # Nothing /\ SameRow(Cached(c).of, KeyRow(c))

\* A lookup that misses drops the entry it found.
AfterMiss(c) == [cache EXCEPT ![layer[c]][read[c].scope] = Nothing]

\* What the calls of cs receive at layer l, and where they go on.
Received(cs, l, entry) ==
  /\ got' = [got EXCEPT ![l] = [c \in Call |-> IF c \in cs THEN entry ELSE @[c]]]
  /\ layer' = [c \in Call |-> IF c \in cs THEN "client" ELSE layer[c]]
  /\ pc' = [c \in Call |-> IF c \in cs THEN (IF l = "credential" THEN "getting" ELSE "served") ELSE pc[c]]

Lookup(c) ==
  /\ pc[c] = "getting"
  /\ IF Hit(c)
     THEN Received({c}, layer[c], Cached(c)) /\ UNCHANGED cache
     ELSE cache' = AfterMiss(c) /\ Goto(c, "missed") /\ UNCHANGED <<layer, got>>
  /\ UNCHANGED <<store, expiries, read, leader, connectedBefore>>

\* Mutant: one flight a scope.
MutSameFlight(c, d) == layer[c] = layer[d] /\ read[c].scope = read[d].scope

SameFlight(c, d) == layer[c] = layer[d] /\ read[c].scope = read[d].scope /\ KeyRow(c) = KeyRow(d)

Flying(c) == pc[c] \in {"leading", "making"}

JoinFlight(c) ==
  /\ pc[c] = "missed"
  /\ \/ \E d \in Call : Flying(d) /\ SameFlight(c, d) /\ leader' = [leader EXCEPT ![c] = d] /\ Goto(c, "waiting")
     \/ (\A d \in Call : Flying(d) => ~SameFlight(c, d)) /\ Goto(c, "leading") /\ UNCHANGED leader
  /\ UNCHANGED <<store, cache, expiries, layer, read, got, connectedBefore>>

InFlightOf(c) == {c} \cup {d \in Call : pc[d] = "waiting" /\ leader[d] = c}

\* Mutant: the leader does not look again.
MutLookAgain(c) ==
  /\ pc[c] = "leading"
  /\ Goto(c, "making")
  /\ UNCHANGED <<store, cache, expiries, layer, read, got, leader, connectedBefore>>

LookAgain(c) ==
  /\ pc[c] = "leading"
  /\ IF Hit(c)
     THEN Received(InFlightOf(c), layer[c], Cached(c)) /\ UNCHANGED cache
     ELSE cache' = AfterMiss(c) /\ Goto(c, "making") /\ UNCHANGED <<layer, got>>
  /\ UNCHANGED <<store, expiries, read, leader, connectedBefore>>

\* The leader decrypts the credential of the row it read, or builds a client with
\* the credential it has.
Make(c) ==
  LET entry == [of |-> KeyRow(c), by |-> c] IN
  /\ pc[c] = "making"
  /\ cache' = [cache EXCEPT ![layer[c]][read[c].scope] = entry]
  /\ Received(InFlightOf(c), layer[c], entry)
  /\ UNCHANGED <<store, expiries, read, leader, connectedBefore>>

\* One error for the whole flight.
MakeFails(c) ==
  /\ pc[c] = "making"
  /\ pc' = [d \in Call |-> IF d \in InFlightOf(c) THEN "refused" ELSE pc[d]]
  /\ UNCHANGED <<store, cache, expiries, layer, read, got, leader, connectedBefore>>

\* The entry is idle for the TTL, or the oldest of a full cache.
Expire(l, s) ==
  /\ cache[l][s] # Nothing /\ expiries < MaxExpiries
  /\ expiries' = expiries + 1
  /\ cache' = [cache EXCEPT ![l][s] = Nothing]
  /\ UNCHANGED <<store, local>>

Next ==
  \/ \E s \in Scope : Create(s) \/ Update(s) \/ Delete(s)
  \/ \E c \in Call :
       \/ Get(c) \/ AskDisconnected(c) \/ GetSystem(c)
       \/ Lookup(c) \/ JoinFlight(c) \/ LookAgain(c) \/ Make(c) \/ MakeFails(c)
  \/ \E l \in Layer, s \in Scope : Expire(l, s)

Spec == Init /\ [][Next]_vars

-----------------------------------------------------------------------------
(* Properties. *)

\* What a call works with was made from the very row the call read, whatever was
\* rotated, deleted and connected anew since the entry was made or the flight took
\* off: a version begins at 1 again in a new row.
MadeFromTheRowRead ==
  /\ TypeOK
  /\ \A l \in Layer, c \in Call : got[l][c] # Nothing => got[l][c].of = read[c].row

\* While an entry lives, what it was made for is not made again: no call decrypts a
\* second time, or brings a second client, with its own token, into use beside the first.
NothingIsMadeTwice ==
  [][\A l \in Layer, s \in Scope :
       Nothing \notin {cache[l][s], cache'[l][s]} /\ cache'[l][s].of = cache[l][s].of =>
         cache'[l][s] = cache[l][s]]_cache

\* A call is served by the system's connection only if its project had never connected
\* when the call began, though a row that is missing looks the same in a project that
\* left, and a project may leave between a call's statements: the row is read first and
\* the tombstone asked for after it.
LeaversGetNoSystemClient ==
  \A c \in Call : got["credential"][c] # Nothing /\ read[c].scope = System => c \notin connectedBefore
=============================================================================
