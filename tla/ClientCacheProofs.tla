------------------------- MODULE ClientCacheProofs -------------------------
(***************************************************************************)
(* Proofs about ClientCache, for every set of projects and calls and any   *)
(* number of writes and expiries.  A call past the reading of its row has  *)
(* that row in all its keys; the inductive invariant builds on this what   *)
(* a flight is of, and that what is being made is not in the cache.        *)
(***************************************************************************)
EXTENDS ClientCache, TLAPS

\* A call past the reading of its row works with that row.
Active == {"getting", "missed", "leading", "making", "waiting", "served"}

Versions == \A s \in Scope : conn[s] # Nothing => conn[s].version <= writes + 1

Reads ==
  \A c \in Call :
    /\ pc[c] \in Active => read[c].row \in Row
    /\ pc[c] \in {"new", "absent", "falling back"} => layer[c] = "credential" /\ read[c].scope = ProjectOf[c]

\* Where a call is that has not yet the row it is to work with.
Resolving == {"new", "absent", "falling back"}

Leavers ==
  /\ \A c \in Call : pc[c] = "new" => c \notin connectedBefore
  /\ \A c \in Call : pc[c] = "absent" /\ c \in connectedBefore => ProjectOf[c] \in left
  /\ \A c \in Call : pc[c] = "falling back" \/ read[c].scope = System => c \notin connectedBefore

\* What a call has, and so what its keys are of, is of the row it read.
Made ==
  \A c \in Call :
    /\ layer[c] = "client" => got["credential"][c] \in Entry /\ got["credential"][c].of = read[c].row
    /\ layer[c] = "credential" => got["credential"][c] = Nothing
    /\ got["client"][c] # Nothing => pc[c] = "served" /\ got["client"][c].of = read[c].row

Alike(c, d) == layer[c] = layer[d] /\ read[c].scope = read[d].scope /\ read[c].row = read[d].row

\* Who waits has a leader at work on what it waits for; two flights are of two things.
Flights ==
  /\ \A c \in Call : pc[c] = "waiting" => Flying(leader[c]) /\ Alike(c, leader[c])
  /\ \A c, d \in Call : Flying(c) /\ Flying(d) /\ Alike(c, d) => c = d

\* What is being made is not in the cache.
Fresh == \A c \in Call : pc[c] = "making" => Cached(c) = Nothing \/ Cached(c).of # read[c].row

Inv == TypeOK /\ Versions /\ Reads /\ Leavers /\ Made /\ Flights /\ Fresh

-----------------------------------------------------------------------------
(* Types of what a call uses, and changes of one entry. *)

LEMMA CallTypes ==
  ASSUME TypeOK, NEW c \in Call
  PROVE  layer[c] \in Layer /\ read[c].scope \in Scope /\ read[c].row \in Row \cup {Nothing} /\ leader[c] \in Call
BY DEF TypeOK

LEMMA CacheTypes ==
  ASSUME TypeOK, NEW l \in Layer, NEW s \in Scope
  PROVE  cache[l][s] \in Entry \cup {Nothing}
<1>1. cache[l] \in [Scope -> Entry \cup {Nothing}]
  BY DEF TypeOK
<1> QED
  BY <1>1

\* Entries change one at a time.
With(l, s, e) == [cache EXCEPT ![l][s] = e]

LEMMA Changed ==
  ASSUME TypeOK, NEW l \in Layer, NEW s \in Scope, NEW e \in Entry \cup {Nothing},
         cache' = With(l, s, e)
  PROVE  /\ cache' \in [Layer -> [Scope -> Entry \cup {Nothing}]]
         /\ \A m \in Layer, t \in Scope : cache'[m][t] = IF m = l /\ t = s THEN e ELSE cache[m][t]
<1>1. cache \in [Layer -> [Scope -> Entry \cup {Nothing}]]
  BY DEF TypeOK
<1>2. cache' = [cache EXCEPT ![l] = [cache[l] EXCEPT ![s] = e]]
  BY DEF With
<1>3. cache[l] \in [Scope -> Entry \cup {Nothing}]
  BY <1>1
<1>4. cache'[l] = [cache[l] EXCEPT ![s] = e] /\ \A m \in Layer \ {l} : cache'[m] = cache[m]
  BY <1>1, <1>2
<1>5. \A m \in Layer, t \in Scope : cache'[m][t] = IF m = l /\ t = s THEN e ELSE cache[m][t]
  BY <1>3, <1>4
<1>6. [cache[l] EXCEPT ![s] = e] \in [Scope -> Entry \cup {Nothing}]
  BY <1>3
<1> QED
  BY <1>1, <1>2, <1>5, <1>6

LEMMA Dropped ==
  ASSUME TypeOK, NEW l \in Layer, NEW s \in Scope, cache' = With(l, s, Nothing)
  PROVE  /\ cache' \in [Layer -> [Scope -> Entry \cup {Nothing}]]
         /\ \A m \in Layer, t \in Scope : cache'[m][t] \in {Nothing, cache[m][t]}
<1>1. Nothing \in Entry \cup {Nothing}
  OBVIOUS
<1> QED
  BY <1>1, Changed

-----------------------------------------------------------------------------
(* Keys. *)

LEMMA KeysAreOfTheRowRead ==
  ASSUME Inv, NEW c \in Call, pc[c] \in Active
  PROVE  KeyRow(c) = read[c].row
BY DEF Inv, TypeOK, Layer, Made, KeyRow

LEMMA HitsAreOfTheRowRead ==
  ASSUME Inv, NEW c \in Call, pc[c] \in Active
  PROVE  /\ Hit(c) <=> Cached(c) # Nothing /\ Cached(c).of = read[c].row
         /\ Hit(c) => Cached(c) \in Entry
<1>1. KeyRow(c) = read[c].row
  BY KeysAreOfTheRowRead
<1>2. Cached(c) \in Entry \cup {Nothing}
  BY CallTypes, CacheTypes DEF Inv, Cached
<1> QED
  BY <1>1, <1>2 DEF Hit, SameRow

LEMMA FlightsAreOfTheRowRead ==
  ASSUME Inv, NEW c \in Call, NEW d \in Call, pc[c] \in Active, pc[d] \in Active
  PROVE  SameFlight(c, d) <=> Alike(c, d)
BY KeysAreOfTheRowRead DEF SameFlight, Alike

LEMMA FlightIsOfOneRow ==
  ASSUME Inv, NEW c \in Call, pc[c] \in {"getting", "leading", "making"}
  PROVE  /\ InFlightOf(c) \subseteq Call
         /\ \A d \in InFlightOf(c) : pc[d] \in Active \ {"served"} /\ layer[d] = layer[c] /\ read[d].row = read[c].row
         /\ \A d \in Call \ InFlightOf(c) : pc[d] = "waiting" => leader[d] \notin InFlightOf(c)
         /\ pc[c] = "getting" => InFlightOf(c) = {c}
BY DEF Inv, Flights, Flying, Alike, Active, InFlightOf

\* What holds once a flight, or a call on its own, received an entry of the row it read.
LEMMA Reception ==
  ASSUME Inv, NEW k \in Call, pc[k] \in {"getting", "leading", "making"}, NEW entry \in Entry,
         entry.of = read[k].row, Received(InFlightOf(k), layer[k], entry), read' = read, leader' = leader
  PROVE  /\ pc' \in [Call -> {"new", "absent", "falling back", "getting", "missed", "leading", "making",
                               "waiting", "served", "refused"}]
         /\ layer' \in [Call -> Layer]
         /\ got' \in [Layer -> [Call -> Entry \cup {Nothing}]]
         /\ Reads' /\ Made' /\ Flights'
         /\ \A d \in Call \ InFlightOf(k) : pc'[d] = pc[d] /\ layer'[d] = layer[d]
         /\ \A d \in InFlightOf(k) : pc'[d] \in {"getting", "served"}
<1> DEFINE cs == InFlightOf(k)
           l == layer[k]
<1>0. /\ cs \subseteq Call /\ l \in Layer /\ Received(cs, l, entry)
      /\ \A d \in cs : pc[d] \in Active \ {"served"} /\ layer[d] = l /\ read[d].row = entry.of
      /\ \A d \in Call \ cs : pc[d] = "waiting" => leader[d] \notin cs
  BY FlightIsOfOneRow, CallTypes DEF Inv
<1> HIDE DEF cs, l
<1>1. /\ pc' = [c \in Call |-> IF c \in cs THEN (IF l = "credential" THEN "getting" ELSE "served") ELSE pc[c]]
      /\ layer' = [c \in Call |-> IF c \in cs THEN "client" ELSE layer[c]]
  BY <1>0 DEF Received
<1>2. got' = [got EXCEPT ![l] = [c \in Call |-> IF c \in cs THEN entry ELSE got[l][c]]]
  BY <1>0 DEF Received
<1>3. /\ pc' \in [Call -> {"new", "absent", "falling back", "getting", "missed", "leading", "making",
                            "waiting", "served", "refused"}]
      /\ layer' \in [Call -> Layer]
  BY <1>0, <1>1 DEF Inv, TypeOK, Layer
<1>4. got' \in [Layer -> [Call -> Entry \cup {Nothing}]]
  <2>1. [c \in Call |-> IF c \in cs THEN entry ELSE got[l][c]] \in [Call -> Entry \cup {Nothing}]
    <3>1. got[l] \in [Call -> Entry \cup {Nothing}]
      BY <1>0 DEF Inv, TypeOK
    <3> QED
      BY <3>1
  <2>2. got \in [Layer -> [Call -> Entry \cup {Nothing}]]
    BY DEF Inv, TypeOK
  <2> QED
    BY <1>0, <1>2, <2>1, <2>2
<1>5. /\ \A d \in Call \ cs : pc'[d] = pc[d] /\ layer'[d] = layer[d]
      /\ \A d \in cs : pc'[d] = (IF l = "credential" THEN "getting" ELSE "served") /\ layer'[d] = "client"
  BY <1>0, <1>1
<1>6. /\ \A m \in Layer \ {l}, d \in Call : got'[m][d] = got[m][d]
      /\ \A d \in Call \ cs : got'[l][d] = got[l][d]
      /\ \A d \in cs : got'[l][d] = entry
  BY <1>0, <1>2 DEF Inv, TypeOK
<1>7. Reads'
  BY <1>0, <1>5 DEF Inv, Reads, Active
<1>8. Made'
  <2> SUFFICES ASSUME NEW c \in Call
               PROVE  /\ layer'[c] = "client" => got'["credential"][c] \in Entry /\ got'["credential"][c].of = read[c].row
                      /\ layer'[c] = "credential" => got'["credential"][c] = Nothing
                      /\ got'["client"][c] # Nothing => pc'[c] = "served" /\ got'["client"][c].of = read[c].row
    BY DEF Made
  <2>1. CASE c \notin cs
    <3>1. layer'[c] = layer[c] /\ pc'[c] = pc[c]
      BY <2>1, <1>5
    <3>2. got'["credential"][c] = got["credential"][c] /\ got'["client"][c] = got["client"][c]
      BY <1>0, <2>1, <1>6 DEF Layer
    <3> QED
      BY <3>1, <3>2 DEF Inv, Made
  <2>2. CASE c \in cs /\ l = "credential"
    <3>1. got["client"][c] = Nothing
      BY <1>0, <2>2 DEF Inv, Made
    <3>2. layer'[c] = "client" /\ got'["credential"][c] = entry /\ got'["client"][c] = Nothing
      BY <1>0, <2>2, <3>1, <1>5, <1>6 DEF Layer
    <3> QED
      BY <1>0, <2>2, <3>2
  <2>3. CASE c \in cs /\ l = "client"
    BY <1>0, <2>3, <1>5, <1>6 DEF Inv, Made, Layer
  <2> QED
    BY <1>0, <2>1, <2>2, <2>3 DEF Layer
<1>9. Flights'
  <2>1. ASSUME NEW c \in Call, pc'[c] = "waiting" PROVE Flying(leader[c])' /\ Alike(c, leader[c])'
    <3>1. c \notin cs /\ pc[c] = "waiting" /\ leader[c] \in Call /\ leader[c] \notin cs
      BY <1>0, <2>1, <1>5 DEF Inv, TypeOK
    <3> QED
      BY <3>1, <1>5 DEF Inv, Flights, Flying, Alike
  <2>2. ASSUME NEW c \in Call, NEW d \in Call, Flying(c)', Flying(d)', Alike(c, d)' PROVE c = d
    <3>1. c \notin cs /\ d \notin cs
      BY <1>0, <2>2, <1>5 DEF Flying
    <3> QED
      BY <2>2, <3>1, <1>5 DEF Inv, Flights, Flying, Alike
  <2> QED
    BY <2>1, <2>2 DEF Flights
<1> QED
  BY <1>3, <1>4, <1>5, <1>7, <1>8, <1>9 DEF cs

-----------------------------------------------------------------------------
(* The steps. *)

LEMMA Start == Init => Inv
<1> SUFFICES ASSUME Init PROVE Inv
  OBVIOUS
<1> USE ClientConstants
<1>1. conn \in [Scope -> Row \cup {Nothing}] /\ Versions
  <2>1. PICK connected \in SUBSET Scope :
          conn = [s \in Scope |-> IF s \in connected THEN FreshRow(s, 0) ELSE Nothing]
    BY DEF Init
  <2>2. \A s \in Scope : FreshRow(s, 0) \in Row /\ FreshRow(s, 0).version = 1
    BY DEF FreshRow, Row
  <2> QED
    BY <2>1, <2>2 DEF Init, Versions
<1>2. TypeOK
  BY <1>1 DEF Init, TypeOK, Layer, Scope
<1>3. \A c \in Call : pc[c] = "new" /\ layer[c] = "credential" /\ read[c].scope = ProjectOf[c]
  BY DEF Init
<1>4. Reads
  BY <1>3 DEF Reads, Active
<1>5. Leavers
  BY <1>3 DEF Init, Leavers
<1>6. Made
  BY <1>3 DEF Init, Made, Layer
<1>7. Flights /\ Fresh
  BY <1>3 DEF Flights, Flying, Fresh
<1> QED
  BY <1>1, <1>2, <1>4, <1>5, <1>6, <1>7 DEF Inv

\* A write of a connection touches no call and no cache.
LEMMA WriteStep ==
  ASSUME Inv, NEW s \in Scope, Create(s) \/ Update(s) \/ Delete(s)
  PROVE  Inv'
<1> USE ClientConstants
<1>1. UNCHANGED <<cache, expiries, pc, layer, read, got, leader, connectedBefore>> /\ left \subseteq left'
  BY DEF Create, Update, Delete, Write, local
<1>2. /\ writes \in 0 .. MaxWrites /\ writes < MaxWrites /\ writes' = writes + 1
      /\ writes' \in 0 .. MaxWrites /\ left' \subseteq Scope
  <2>1. writes < MaxWrites /\ writes' = writes + 1 /\ left' \in {left, left \cup {s}}
    BY DEF Create, Update, Delete, Write
  <2>2. writes \in 0 .. MaxWrites /\ left \subseteq Scope
    BY DEF Inv, TypeOK
  <2> QED
    BY <2>1, <2>2
<1>3. conn \in [Scope -> Row \cup {Nothing}] /\ \A t \in Scope : conn[t] # Nothing => conn[t].version <= writes + 1
  BY DEF Inv, TypeOK, Versions
<1>4. PICK new \in Row \cup {Nothing} :
        conn' = [conn EXCEPT ![s] = new] /\ (new # Nothing => new.version <= writes + 2)
  <2>1. CASE Create(s)
    <3>1. FreshRow(s, writes + 1) \in Row /\ FreshRow(s, writes + 1).version <= writes + 2
      BY <1>2 DEF FreshRow, Row
    <3> QED
      BY <2>1, <3>1 DEF Create, Write
  <2>2. CASE Update(s)
    <3> DEFINE new == [conn[s] EXCEPT !.version = @ + 1]
    <3>1. conn[s] \in Row /\ conn[s].version <= writes + 1
      BY <2>2, <1>3 DEF Update
    <3>2. new \in Row /\ new.version <= writes + 2
      BY <3>1, <1>2 DEF Row
    <3>3. conn' = [conn EXCEPT ![s] = new]
      BY <2>2 DEF Update, Write
    <3> HIDE DEF new
    <3> QED
      BY <3>2, <3>3
  <2>3. CASE Delete(s)
    BY <2>3 DEF Delete, Write
  <2> QED
    BY <2>1, <2>2, <2>3
<1>5. conn' \in [Scope -> Row \cup {Nothing}]
  BY <1>3, <1>4
<1>6. Versions'
  <2> SUFFICES ASSUME NEW t \in Scope, conn'[t] # Nothing PROVE conn'[t].version <= writes' + 1
    BY DEF Versions
  <2>1. CASE t = s
    BY <2>1, <1>2, <1>3, <1>4
  <2>2. CASE t # s
    <3>1. conn'[t] = conn[t] /\ conn[t] \in Row /\ conn[t].version <= writes + 1
      BY <2>2, <1>3, <1>4
    <3>2. conn[t].version \in Nat
      BY <3>1 DEF Row
    <3> QED
      BY <3>1, <3>2, <1>2
  <2> QED
    BY <2>1, <2>2
<1>7. TypeOK'
  BY <1>1, <1>2, <1>5 DEF Inv, TypeOK
<1>8. Leavers'
  BY <1>1 DEF Inv, Leavers
<1>9. Reads' /\ Made'
  BY <1>1 DEF Inv, Reads, Made
<1>10. Flights' /\ Fresh'
  BY <1>1 DEF Inv, Flights, Flying, Alike, Fresh, Cached
<1> QED
  BY <1>6, <1>7, <1>8, <1>9, <1>10 DEF Inv

\* The reading of a row.
LEMMA ReadStep ==
  ASSUME Inv, NEW c \in Call, Get(c) \/ AskDisconnected(c) \/ GetSystem(c)
  PROVE  Inv'
<1> USE ClientConstants
<1>1. UNCHANGED <<conn, left, writes, cache, expiries, layer, got, leader>>
  BY DEF Get, AskDisconnected, GetSystem, store
<1>2. ProjectOf[c] \in Scope /\ ProjectOf[c] # System /\ System \in Scope
  BY DEF Scope
<1>3. TypeOK'
  <2>1. conn[ProjectOf[c]] \in Row \cup {Nothing} /\ conn[System] \in Row \cup {Nothing}
    BY <1>2 DEF Inv, TypeOK
  <2>2. read' \in [Call -> [scope : Scope, row : Row \cup {Nothing}]]
    <3>1. read \in [Call -> [scope : Scope, row : Row \cup {Nothing}]]
      BY DEF Inv, TypeOK
    <3>2. \A r \in Row \cup {Nothing} :
            /\ [read[c] EXCEPT !.row = r] \in [scope : Scope, row : Row \cup {Nothing}]
            /\ [scope |-> System, row |-> r] \in [scope : Scope, row : Row \cup {Nothing}]
      BY <1>2, <3>1
    <3>3. \/ read' = read
          \/ \E r \in Row \cup {Nothing} :
               \/ read' = [read EXCEPT ![c] = [read[c] EXCEPT !.row = r]]
               \/ read' = [read EXCEPT ![c] = [scope |-> System, row |-> r]]
      BY <2>1 DEF Get, AskDisconnected, GetSystem
    <3> QED
      BY <3>1, <3>2, <3>3
  <2>3. pc' \in [Call -> {"new", "absent", "falling back", "getting", "missed", "leading", "making",
                           "waiting", "served", "refused"}]
    BY DEF Inv, TypeOK, Get, AskDisconnected, GetSystem, Goto
  <2>4. connectedBefore' \subseteq Call
    <3>1. connectedBefore \subseteq Call
      BY DEF Inv, TypeOK
    <3> QED
      BY <3>1 DEF Get, AskDisconnected, GetSystem
  <2> QED
    BY <1>1, <2>2, <2>3, <2>4 DEF Inv, TypeOK
<1>10. Versions'
  BY <1>1 DEF Inv, Versions
<1>4. Reads'
  <2>1. CASE Get(c)
    <3>1. /\ \A d \in Call \ {c} : read'[d] = read[d] /\ pc'[d] = pc[d]
          /\ pc'[c] = IF conn[ProjectOf[c]] = Nothing THEN "absent" ELSE "getting"
          /\ pc[c] = "new" /\ layer' = layer
      BY <2>1 DEF Inv, TypeOK, Get, Goto
    <3>2. read[c] \in [scope : Scope, row : Row \cup {Nothing}] /\ ProjectOf[c] \in Scope
      BY DEF Inv, TypeOK, Scope
    <3>3. read'[c] = [read[c] EXCEPT !.row = conn[ProjectOf[c]]]
      BY <2>1 DEF Inv, TypeOK, Get
    <3>4. read'[c].scope = read[c].scope /\ read'[c].row = conn[ProjectOf[c]]
      BY <3>2, <3>3
    <3>5. conn[ProjectOf[c]] \in Row \cup {Nothing}
      BY <3>2 DEF Inv, TypeOK
    <3>6. pc'[c] = "getting" => read'[c].row \in Row
      BY <3>1, <3>4, <3>5
    <3> QED
      BY <3>1, <3>4, <3>6 DEF Inv, Reads, Active
  <2>2. CASE AskDisconnected(c)
    BY <2>2, <1>1 DEF Inv, TypeOK, Reads, Active, AskDisconnected, Goto
  <2>3. CASE GetSystem(c)
    BY <2>3, <1>1, <1>2 DEF Inv, TypeOK, Reads, Active, GetSystem, Goto
  <2> QED
    BY <2>1, <2>2, <2>3
<1>5. Leavers'
  <2>1. CASE Get(c)
    <3>1. /\ connectedBefore' = IF conn[ProjectOf[c]] # Nothing \/ ProjectOf[c] \in left
                                THEN connectedBefore \cup {c} ELSE connectedBefore
          /\ pc'[c] = "absent" => conn[ProjectOf[c]] = Nothing
          /\ pc[c] = "new" /\ pc'[c] # "new"
          /\ read'[c].scope = read[c].scope /\ read[c].scope = ProjectOf[c]
          /\ \A d \in Call \ {c} : read'[d] = read[d] /\ pc'[d] = pc[d]
          /\ pc'[c] # "falling back"
      BY <2>1, CallTypes DEF Inv, TypeOK, Reads, Get, Goto
    <3>2. \A d \in Call \ {c} : d \in connectedBefore' => d \in connectedBefore
      BY <3>1
    <3>3. ProjectOf[c] \in Project /\ read'[c].scope # System /\ left' = left
      BY <1>1, <1>2, <3>1, ClientConstants
    <3> QED
      BY <3>1, <3>2, <3>3 DEF Inv, Leavers
  <2>2. CASE AskDisconnected(c)
    BY <2>2, <1>1 DEF Inv, TypeOK, Leavers, AskDisconnected, MayFallBack, Goto
  <2>3. CASE GetSystem(c)
    BY <2>3, <1>1 DEF Inv, TypeOK, Leavers, GetSystem, Goto
  <2> QED
    BY <2>1, <2>2, <2>3
<1>6. /\ pc[c] \in {"new", "absent", "falling back"}
      /\ pc'[c] \in {"absent", "getting", "falling back", "refused"}
      /\ \A d \in Call \ {c} : pc'[d] = pc[d] /\ read'[d] = read[d]
  BY DEF Inv, TypeOK, Get, AskDisconnected, GetSystem, Goto
<1>7. Made'
  BY <1>1, <1>6 DEF Inv, Reads, Made
<1>8. Flights'
  <2>1. \A d \in Call : pc[d] = "waiting" => leader[d] \in Call \ {c}
    BY <1>6 DEF Inv, TypeOK, Flights, Flying
  <2> QED
    <3>1. \A d \in Call : Flying(d)' => Flying(d) /\ d # c
      BY <1>6 DEF Flying
    <3>2. \A d \in Call : pc'[d] = "waiting" => pc[d] = "waiting" /\ d # c
      BY <1>6
    <3>3. \A d, e \in Call \ {c} : Alike(d, e)' <=> Alike(d, e)
      BY <1>1, <1>6 DEF Alike
    <3>4. \A d \in Call \ {c} : Flying(d) => Flying(d)'
      BY <1>6 DEF Flying
    <3> QED
      BY <1>1, <2>1, <3>1, <3>2, <3>3, <3>4 DEF Inv, Flights
<1>9. Fresh'
  BY <1>1, <1>6 DEF Inv, Fresh, Cached
<1> QED
  BY <1>3, <1>4, <1>5, <1>7, <1>8, <1>9, <1>10 DEF Inv

\* Dropping an entry leaves nothing in the cache that is being made.
LEMMA DroppingKeepsFresh ==
  ASSUME Inv, NEW l \in Layer, NEW s \in Scope, cache' = With(l, s, Nothing),
         layer' = layer, read' = read,
         \A d \in Call : pc'[d] = "making" => pc[d] = "making" \/ (layer[d] = l /\ read[d].scope = s)
  PROVE  Fresh'
<1> SUFFICES ASSUME NEW d \in Call, pc'[d] = "making"
             PROVE  cache'[layer[d]][read[d].scope] = Nothing \/ cache'[layer[d]][read[d].scope].of # read[d].row
  BY DEF Fresh, Cached
<1>1. layer[d] \in Layer /\ read[d].scope \in Scope
  BY CallTypes DEF Inv
<1>2. cache'[layer[d]][read[d].scope] = IF layer[d] = l /\ read[d].scope = s THEN Nothing ELSE Cached(d)
  BY <1>1, Changed DEF Inv, Cached
<1> QED
  BY <1>2 DEF Inv, Fresh

LEMMA LookupStep ==
  ASSUME Inv, NEW c \in Call, Lookup(c)
  PROVE  Inv'
<1> USE ClientConstants
<1>1. UNCHANGED <<conn, left, writes, expiries, read, leader, connectedBefore>> /\ pc[c] = "getting"
  BY DEF Lookup, store
<1>2. layer[c] \in Layer /\ read[c].scope \in Scope /\ pc[c] \in Active
  BY <1>1 DEF Inv, TypeOK, Active
<1>3. CASE Hit(c)
  <2>1. Received({c}, layer[c], Cached(c)) /\ cache' = cache
    BY <1>3 DEF Lookup
  <2>2. Cached(c) \in Entry /\ Cached(c).of = read[c].row
    BY <1>2, <1>3, HitsAreOfTheRowRead
  <2>3. InFlightOf(c) = {c}
    BY <1>1, FlightIsOfOneRow
  <2>4. /\ pc' \in [Call -> {"new", "absent", "falling back", "getting", "missed", "leading", "making",
                              "waiting", "served", "refused"}]
        /\ layer' \in [Call -> Layer]
        /\ got' \in [Layer -> [Call -> Entry \cup {Nothing}]]
        /\ Reads' /\ Made' /\ Flights'
        /\ \A d \in Call \ {c} : pc'[d] = pc[d] /\ layer'[d] = layer[d]
        /\ \A d \in {c} : pc'[d] \in {"getting", "served"}
    BY <1>1, <2>1, <2>2, <2>3, Reception
  <2>5. TypeOK' /\ Versions' /\ Leavers' /\ Fresh'
    BY <1>1, <2>1, <2>4 DEF Inv, TypeOK, Versions, Leavers, Fresh, Cached
  <2> QED
    BY <2>4, <2>5 DEF Inv
<1>4. CASE ~Hit(c)
  <2>1. cache' = With(layer[c], read[c].scope, Nothing) /\ UNCHANGED <<layer, got>>
    BY <1>4 DEF Lookup, AfterMiss, With
  <2>2. pc' = [pc EXCEPT ![c] = "missed"]
    BY <1>4 DEF Lookup, Goto
  <2>3. TypeOK' /\ Versions'
    BY <1>1, <1>2, <2>1, <2>2, Changed DEF Inv, TypeOK, Versions
  <2>4. Reads' /\ Leavers' /\ Made'
    BY <1>1, <1>2, <2>1, <2>2 DEF Inv, TypeOK, Reads, Active, Leavers, Made
  <2>5. Flights'
    <3>1. \A d \in Call : Flying(d)' <=> Flying(d)
      BY <1>1, <2>2 DEF Inv, TypeOK, Flying
    <3>2. \A d, e \in Call : Alike(d, e)' <=> Alike(d, e)
      BY <1>1, <2>1 DEF Alike
    <3>3. \A d \in Call : pc'[d] = "waiting" => pc[d] = "waiting" /\ leader'[d] = leader[d] /\ leader[d] \in Call
      BY <1>1, <2>2 DEF Inv, TypeOK
    <3> QED
      BY <3>1, <3>2, <3>3 DEF Inv, Flights
  <2>6. Fresh'
    <3>1. \A d \in Call : pc'[d] = "making" => pc[d] = "making"
      BY <2>2 DEF Inv, TypeOK
    <3> QED
      BY <1>1, <1>2, <2>1, <3>1, DroppingKeepsFresh
  <2> QED
    BY <2>3, <2>4, <2>5, <2>6 DEF Inv
<1> QED
  BY <1>3, <1>4

LEMMA JoinStep ==
  ASSUME Inv, NEW c \in Call, JoinFlight(c)
  PROVE  Inv'
<1> USE ClientConstants
<1>1. /\ UNCHANGED <<conn, left, writes, cache, expiries, layer, read, got, connectedBefore>>
      /\ pc[c] = "missed"
  BY DEF JoinFlight, store
<1>2. \A d \in Call : pc[d] = "waiting" => leader[d] \in Call \ {c}
  BY <1>1 DEF Inv, TypeOK, Flights, Flying
<1>3. \A d \in Call : Flying(d) => (SameFlight(c, d) <=> Alike(c, d))
  BY <1>1, FlightsAreOfTheRowRead DEF Flying, Active
<1>4. /\ leader' \in [Call -> Call]
      /\ pc'[c] \in {"waiting", "leading"} /\ \A d \in Call \ {c} : pc'[d] = pc[d]
      /\ pc' \in [Call -> {"new", "absent", "falling back", "getting", "missed", "leading", "making",
                            "waiting", "served", "refused"}]
  <2>1. \E w \in {"waiting", "leading"} : pc' = [pc EXCEPT ![c] = w]
    BY DEF JoinFlight, Goto
  <2>2. leader' = leader \/ \E d \in Call : leader' = [leader EXCEPT ![c] = d]
    BY DEF JoinFlight
  <2>3. /\ leader \in [Call -> Call]
        /\ pc \in [Call -> {"new", "absent", "falling back", "getting", "missed", "leading", "making",
                             "waiting", "served", "refused"}]
    BY DEF Inv, TypeOK
  <2>4. leader' \in [Call -> Call]
    BY <2>2, <2>3
  <2>5. PICK w \in {"waiting", "leading"} : pc' = [pc EXCEPT ![c] = w]
    BY <2>1
  <2> QED
    BY <2>3, <2>4, <2>5
<1>7. TypeOK'
  BY <1>1, <1>4 DEF Inv, TypeOK
<1>8. Versions' /\ Leavers'
  <2>1. \A d \in Call : pc'[d] \in Resolving => pc'[d] = pc[d]
    BY <1>4 DEF Resolving
  <2> QED
    BY <1>1, <2>1 DEF Inv, Versions, Leavers, Resolving
<1>9. Reads' /\ Made'
  BY <1>1, <1>4 DEF Inv, Reads, Active, Made
<1>10. Fresh'
  BY <1>1, <1>4 DEF Inv, Fresh, Cached
<1>5. ASSUME NEW d \in Call, Flying(d), SameFlight(c, d), leader' = [leader EXCEPT ![c] = d], pc' = [pc EXCEPT ![c] = "waiting"]
      PROVE  Flights'
  <2>1. d # c /\ Alike(c, d)
    BY <1>1, <1>3, <1>5 DEF Flying
  <2> QED
    <3>1. \A e \in Call : Flying(e)' <=> Flying(e)
      BY <1>1, <1>5 DEF Inv, TypeOK, Flying
    <3>2. \A e, f \in Call : Alike(e, f)' <=> Alike(e, f)
      BY <1>1 DEF Alike
    <3>3. leader'[c] = d /\ \A e \in Call \ {c} : leader'[e] = leader[e] /\ pc'[e] = pc[e]
      BY <1>5 DEF Inv, TypeOK
    <3>4. \A e \in Call : pc[e] = "waiting" => leader[e] \in Call
      BY <1>2
    <3> QED
      BY <1>5, <2>1, <3>1, <3>2, <3>3, <3>4 DEF Inv, Flights
<1>6. ASSUME \A d \in Call : Flying(d) => ~SameFlight(c, d), leader' = leader, pc' = [pc EXCEPT ![c] = "leading"]
      PROVE  Flights'
  <2>1. \A d \in Call : Flying(d) => ~Alike(c, d)
    BY <1>3, <1>6
  <2> QED
    <3>1. \A d \in Call : Flying(d)' <=> Flying(d) \/ d = c
      BY <1>1, <1>6 DEF Inv, TypeOK, Flying
    <3>2. \A d, e \in Call : Alike(d, e)' <=> Alike(d, e)
      BY <1>1 DEF Alike
    <3>3. \A d \in Call : pc'[d] = "waiting" => pc[d] = "waiting" /\ leader'[d] = leader[d] /\ leader[d] \in Call
      BY <1>2, <1>6 DEF Inv, TypeOK
    <3>4. \A d, e \in Call : Alike(d, e) => Alike(e, d)
      BY DEF Alike
    <3> QED
      BY <2>1, <3>1, <3>2, <3>3, <3>4 DEF Inv, Flights
<1> QED
  BY <1>5, <1>6, <1>7, <1>8, <1>9, <1>10 DEF Inv, JoinFlight, Goto

LEMMA LookAgainStep ==
  ASSUME Inv, NEW c \in Call, LookAgain(c)
  PROVE  Inv'
<1> USE ClientConstants
<1>1. UNCHANGED <<conn, left, writes, expiries, read, leader, connectedBefore>> /\ pc[c] = "leading"
  BY DEF LookAgain, store
<1>2. layer[c] \in Layer /\ read[c].scope \in Scope /\ pc[c] \in Active /\ Flying(c)
  BY <1>1 DEF Inv, TypeOK, Active, Flying
<1>3. CASE Hit(c)
  <2>1. Received(InFlightOf(c), layer[c], Cached(c)) /\ cache' = cache
    BY <1>3 DEF LookAgain
  <2>2. Cached(c) \in Entry /\ Cached(c).of = read[c].row
    BY <1>2, <1>3, HitsAreOfTheRowRead
  <2>4. /\ pc' \in [Call -> {"new", "absent", "falling back", "getting", "missed", "leading", "making",
                              "waiting", "served", "refused"}]
        /\ layer' \in [Call -> Layer]
        /\ got' \in [Layer -> [Call -> Entry \cup {Nothing}]]
        /\ Reads' /\ Made' /\ Flights'
        /\ \A d \in Call \ InFlightOf(c) : pc'[d] = pc[d] /\ layer'[d] = layer[d]
        /\ \A d \in InFlightOf(c) : pc'[d] \in {"getting", "served"}
    BY <1>1, <2>1, <2>2, Reception
  <2>5. TypeOK'
    BY <1>1, <2>1, <2>4 DEF Inv, TypeOK
  <2>6. Versions'
    BY <1>1 DEF Inv, Versions
  <2>7. /\ \A d \in Call : pc'[d] \in Resolving => pc'[d] = pc[d]
        /\ \A d \in Call : pc'[d] = "making" => pc[d] = "making" /\ layer'[d] = layer[d]
    BY <2>4 DEF Resolving
  <2>8. Leavers' /\ Fresh'
    BY <1>1, <2>1, <2>7 DEF Inv, Leavers, Resolving, Fresh, Cached
  <2> QED
    BY <2>4, <2>5, <2>6, <2>8 DEF Inv
<1>4. CASE ~Hit(c)
  <2>1. cache' = With(layer[c], read[c].scope, Nothing) /\ UNCHANGED <<layer, got>>
    BY <1>4 DEF LookAgain, AfterMiss, With
  <2>2. pc' = [pc EXCEPT ![c] = "making"]
    BY <1>4 DEF LookAgain, Goto
  <2>3. TypeOK' /\ Versions'
    BY <1>1, <1>2, <2>1, <2>2, Changed DEF Inv, TypeOK, Versions
  <2>4. Reads' /\ Leavers' /\ Made'
    BY <1>1, <1>2, <2>1, <2>2 DEF Inv, TypeOK, Reads, Active, Leavers, Made
  <2>5. Flights'
    <3>1. \A d \in Call : Flying(d)' <=> Flying(d)
      BY <1>1, <2>2 DEF Inv, TypeOK, Flying
    <3>2. \A d, e \in Call : Alike(d, e)' <=> Alike(d, e)
      BY <1>1, <2>1 DEF Alike
    <3>3. \A d \in Call : pc'[d] = "waiting" => pc[d] = "waiting" /\ leader'[d] = leader[d] /\ leader[d] \in Call
      BY <1>1, <2>2 DEF Inv, TypeOK
    <3> QED
      BY <3>1, <3>2, <3>3 DEF Inv, Flights
  <2>6. Fresh'
    <3>1. \A d \in Call :
             pc'[d] = "making" => pc[d] = "making" \/ (layer[d] = layer[c] /\ read[d].scope = read[c].scope)
      BY <2>2 DEF Inv, TypeOK
    <3>2. layer' = layer /\ read' = read
      BY <1>1, <2>1
    <3> QED
      BY <1>2, <2>1, <3>1, <3>2, DroppingKeepsFresh
  <2> QED
    BY <2>3, <2>4, <2>5, <2>6 DEF Inv
<1> QED
  BY <1>3, <1>4

LEMMA MakeStep ==
  ASSUME Inv, NEW c \in Call, Make(c)
  PROVE  Inv'
<1> USE ClientConstants
<1> DEFINE entry == [of |-> KeyRow(c), by |-> c]
<1>1. UNCHANGED <<conn, left, writes, expiries, read, leader, connectedBefore>> /\ pc[c] = "making"
  BY DEF Make, store
<1>2. layer[c] \in Layer /\ read[c].scope \in Scope /\ pc[c] \in Active /\ Flying(c)
  BY <1>1 DEF Inv, TypeOK, Active, Flying
<1>3. entry \in Entry /\ entry.of = read[c].row
  BY <1>2, KeysAreOfTheRowRead DEF Inv, Reads, Entry
<1>4. /\ Received(InFlightOf(c), layer[c], entry)
      /\ cache' = With(layer[c], read[c].scope, entry)
  BY DEF Make, With
<1> HIDE DEF entry
<1>6. /\ pc' \in [Call -> {"new", "absent", "falling back", "getting", "missed", "leading", "making",
                              "waiting", "served", "refused"}]
      /\ layer' \in [Call -> Layer]
      /\ got' \in [Layer -> [Call -> Entry \cup {Nothing}]]
      /\ Reads' /\ Made' /\ Flights'
      /\ \A d \in Call \ InFlightOf(c) : pc'[d] = pc[d] /\ layer'[d] = layer[d]
      /\ \A d \in InFlightOf(c) : pc'[d] \in {"getting", "served"}
  BY <1>1, <1>3, <1>4, Reception
<1>7. /\ cache' \in [Layer -> [Scope -> Entry \cup {Nothing}]]
      /\ \A m \in Layer, t \in Scope :
           cache'[m][t] = IF m = layer[c] /\ t = read[c].scope THEN entry ELSE cache[m][t]
  <2>1. TypeOK /\ entry \in Entry \cup {Nothing}
    BY <1>3 DEF Inv
  <2> QED
    BY <1>2, <1>4, <2>1, Changed
<1>9. TypeOK'
  BY <1>1, <1>6, <1>7 DEF Inv, TypeOK
<1>10. Versions'
  BY <1>1 DEF Inv, Versions
<1>11. Leavers'
  <2>1. \A d \in Call : pc'[d] \in Resolving => pc'[d] = pc[d]
    BY <1>6 DEF Resolving
  <2> QED
    BY <1>1, <2>1 DEF Inv, Leavers, Resolving
<1>8. Fresh'
  <2> SUFFICES ASSUME NEW d \in Call, pc'[d] = "making" PROVE Cached(d)' = Nothing \/ Cached(d)'.of # read[d].row
    BY <1>1 DEF Fresh
  <2>0. d \notin InFlightOf(c)
    BY <1>6
  <2>1. d # c /\ pc[d] = "making" /\ layer'[d] = layer[d]
    BY <1>6, <2>0 DEF InFlightOf
  <2>2. ~Alike(c, d)
    BY <1>2, <2>1 DEF Inv, Flights, Flying
  <2>3. layer[d] \in Layer /\ read[d].scope \in Scope
    BY DEF Inv, TypeOK
  <2>4. CASE layer[d] = layer[c] /\ read[d].scope = read[c].scope
    BY <1>1, <1>2, <1>3, <1>7, <2>1, <2>2, <2>4 DEF Alike, Cached
  <2>5. CASE ~(layer[d] = layer[c] /\ read[d].scope = read[c].scope)
    BY <1>1, <1>7, <2>1, <2>3, <2>5 DEF Inv, Fresh, Cached
  <2> QED
    BY <2>4, <2>5
<1> QED
  BY <1>6, <1>8, <1>9, <1>10, <1>11 DEF Inv

\* A flight that fails, and an entry that expires.
LEMMA LossStep ==
  ASSUME Inv, (\E c \in Call : MakeFails(c)) \/ (\E l \in Layer, s \in Scope : Expire(l, s))
  PROVE  Inv'
<1> USE ClientConstants
<1>1. ASSUME NEW c \in Call, MakeFails(c) PROVE Inv'
  <2>1. /\ UNCHANGED <<conn, left, writes, cache, expiries, layer, read, got, leader, connectedBefore>>
        /\ pc[c] = "making" /\ Flying(c)
    BY <1>1 DEF MakeFails, store, Flying
  <2>2. pc' = [d \in Call |-> IF d \in InFlightOf(c) THEN "refused" ELSE pc[d]]
    BY <1>1 DEF MakeFails
  <2>3. /\ \A d \in Call \ InFlightOf(c) : pc[d] = "waiting" => leader[d] \notin InFlightOf(c)
        /\ \A d \in InFlightOf(c) : pc[d] # "served"
    BY <2>1, FlightIsOfOneRow DEF InFlightOf
  <2>4. TypeOK' /\ Versions' /\ Reads' /\ Leavers' /\ Made' /\ Fresh'
    BY <2>1, <2>2, <2>3 DEF Inv, TypeOK, Versions, Reads, Active, Leavers, Made, Fresh, Cached
  <2>5. Flights'
    BY <2>1, <2>2, <2>3 DEF Inv, TypeOK, Flights, Flying, Alike
  <2> QED
    BY <2>4, <2>5 DEF Inv
<1>2. ASSUME NEW l \in Layer, NEW s \in Scope, Expire(l, s) PROVE Inv'
  <2>1. UNCHANGED <<conn, left, writes, pc, layer, read, got, leader, connectedBefore>>
    BY <1>2 DEF Expire, store, local
  <2>2. cache' = With(l, s, Nothing) /\ expiries' \in 0 .. MaxExpiries
    <3>1. expiries \in 0 .. MaxExpiries
      BY DEF Inv, TypeOK
    <3> QED
      BY <1>2, <3>1 DEF Expire, With
  <2>3. cache' \in [Layer -> [Scope -> Entry \cup {Nothing}]]
    BY <2>2, Dropped DEF Inv
  <2>4. TypeOK'
    BY <2>1, <2>2, <2>3 DEF Inv, TypeOK
  <2>5. Versions' /\ Leavers'
    BY <2>1 DEF Inv, Versions, Leavers
  <2>6. Reads' /\ Made'
    BY <2>1 DEF Inv, Reads, Made
  <2>7. Flights'
    BY <2>1 DEF Inv, Flights, Flying, Alike
  <2>8. Fresh'
    BY <2>1, <2>2, DroppingKeepsFresh
  <2> QED
    BY <2>4, <2>5, <2>6, <2>7, <2>8 DEF Inv
<1> QED
  BY <1>1, <1>2

LEMMA Invariance == Spec => []Inv
<1>1. Inv /\ [Next]_vars => Inv'
  <2> SUFFICES ASSUME Inv, [Next]_vars PROVE Inv'
    OBVIOUS
  <2>1. CASE UNCHANGED vars
    <3>1. TypeOK'
      BY <2>1 DEF vars, store, local, Inv, TypeOK
    <3>2. Versions' /\ Leavers'
      BY <2>1 DEF vars, store, local, Inv, Versions, Leavers
    <3>3. Reads' /\ Made'
      BY <2>1 DEF vars, store, local, Inv, Reads, Made
    <3>4. Flights'
      BY <2>1 DEF vars, store, local, Inv, Flights, Flying, Alike
    <3>5. Fresh'
      BY <2>1 DEF vars, store, local, Inv, Fresh, Cached
    <3> QED
      BY <3>1, <3>2, <3>3, <3>4, <3>5 DEF Inv
  <2>2. CASE Next
    BY <2>2, WriteStep, ReadStep, LookupStep, JoinStep, LookAgainStep, MakeStep, LossStep DEF Next
  <2> QED
    BY <2>1, <2>2
<1> QED
  BY <1>1, Start, PTL DEF Spec

-----------------------------------------------------------------------------
(* The theorems. *)

\* For any number of calls, writes and expiries, what a call works with was made from
\* the very row it read (credCache.get, clientCache.get, and the keys of their flights).
THEOREM OnlyTheRowReadIsUsed == Spec => []MadeFromTheRowRead
<1>1. Inv => MadeFromTheRowRead
  BY DEF Inv, TypeOK, Layer, Made, MadeFromTheRowRead
<1> QED
  BY <1>1, Invariance, PTL

\* A call of a project that had ever connected when the call began is not served by the
\* system's connection, whenever the project leaves (resolveWithFallback, systemConn).
THEOREM LeaversStayOut == Spec => []LeaversGetNoSystemClient
<1>1. Inv => LeaversGetNoSystemClient
  BY DEF Inv, Leavers, LeaversGetNoSystemClient
<1> QED
  BY <1>1, Invariance, PTL

\* While an entry lives, what it was made for is not made again (decryptOnce, buildOnce).
THEOREM OneMaking == Spec => NothingIsMadeTwice
<1>1. ASSUME Inv, Next, NEW l \in Layer, NEW s \in Scope,
             cache[l][s] # Nothing, cache'[l][s] # Nothing, cache'[l][s].of = cache[l][s].of
      PROVE  cache'[l][s] = cache[l][s]
  <2>1. ASSUME NEW c \in Call, Make(c) PROVE cache'[l][s] = cache[l][s]
    <3>1. pc[c] = "making" /\ layer[c] \in Layer /\ read[c].scope \in Scope /\ pc[c] \in Active
      BY <1>1, <2>1 DEF Inv, TypeOK, Active, Make
    <3> DEFINE entry == [of |-> KeyRow(c), by |-> c]
    <3>2. entry \in Entry /\ entry.of = read[c].row
      BY <1>1, <3>1, KeysAreOfTheRowRead DEF Inv, Reads, Entry
    <3>3. cache' = With(layer[c], read[c].scope, entry)
      BY <2>1 DEF Make, With
    <3> HIDE DEF entry
    <3>4. cache'[l][s] = IF l = layer[c] /\ s = read[c].scope THEN entry ELSE cache[l][s]
      <4>1. TypeOK /\ entry \in Entry \cup {Nothing}
        BY <1>1, <3>2 DEF Inv
      <4> QED
        BY <3>1, <3>3, <4>1, Changed
    <3>5. CASE ~(l = layer[c] /\ s = read[c].scope)
      BY <3>5, <3>4
    <3>6. CASE l = layer[c] /\ s = read[c].scope
      <4>1. cache[l][s].of # entry.of
        BY <1>1, <3>1, <3>2, <3>6 DEF Inv, Fresh, Cached
      <4> QED
        BY <1>1, <3>6, <3>4, <4>1
    <3> QED
      BY <3>5, <3>6
  <2>2. ASSUME NEW c \in Call, Lookup(c) \/ LookAgain(c) PROVE cache'[l][s] = cache[l][s]
    <3>0. layer[c] \in Layer /\ read[c].scope \in Scope
      BY <1>1, CallTypes DEF Inv
    <3>1. cache' = cache \/ cache' = With(layer[c], read[c].scope, Nothing)
      BY <2>2 DEF Lookup, LookAgain, AfterMiss, With
    <3>2. CASE cache' = With(layer[c], read[c].scope, Nothing)
      <4>1. cache'[l][s] \in {Nothing, cache[l][s]}
        BY <1>1, <3>0, <3>2, Dropped DEF Inv
      <4> QED
        BY <1>1, <4>1
    <3> QED
      BY <3>1, <3>2
  <2>3. ASSUME NEW m \in Layer, NEW t \in Scope, Expire(m, t) PROVE cache'[l][s] = cache[l][s]
    <3>1. cache' = With(m, t, Nothing)
      BY <2>3 DEF Expire, With
    <3>2. cache'[l][s] \in {Nothing, cache[l][s]}
      BY <1>1, <3>1, Dropped DEF Inv
    <3> QED
      BY <1>1, <3>2
  <2>4. ASSUME NEW c \in Call, Get(c) \/ AskDisconnected(c) \/ GetSystem(c) \/ JoinFlight(c) \/ MakeFails(c)
        PROVE  cache'[l][s] = cache[l][s]
    BY <2>4 DEF Get, AskDisconnected, GetSystem, JoinFlight, MakeFails
  <2>5. ASSUME NEW t \in Scope, Create(t) \/ Update(t) \/ Delete(t) PROVE cache'[l][s] = cache[l][s]
    BY <2>5 DEF Create, Update, Delete, Write
  <2> QED
    BY <1>1, <2>1, <2>2, <2>3, <2>4, <2>5 DEF Next
<1>2. Inv /\ [Next]_vars => [\A l \in Layer, s \in Scope :
                               Nothing \notin {cache[l][s], cache'[l][s]} /\ cache'[l][s].of = cache[l][s].of =>
                                 cache'[l][s] = cache[l][s]]_cache
  BY <1>1 DEF vars
<1> QED
  BY <1>2, Invariance, PTL DEF Spec, NothingIsMadeTwice
=============================================================================
