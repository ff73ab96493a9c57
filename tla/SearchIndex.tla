----------------------------- MODULE SearchIndex -----------------------------
(***************************************************************************)
(* What the search index promises about briefs and campaigns: committed    *)
(* versions of each object appear in the order they were committed.  A     *)
(* version that has been shown may be shown again, late.  Delivery,        *)
(* retries and replicas are IndexOutbox's business.                        *)
(***************************************************************************)
EXTENDS Naturals

CONSTANT Object

VARIABLES
  last,   \* the newest committed write of each object
  index,  \* the write each object's document in the index shows; 0 for none
  shown   \* every write it has shown

vars == <<last, index, shown>>

Init ==
  /\ last = [o \in Object |-> 0]
  /\ index = [o \in Object |-> 0]
  /\ shown = [o \in Object |-> {}]

\* Writes are numbered across objects, in the order they commit.
Write(o) ==
  /\ last'[o] \in Nat
  /\ last' = [last EXCEPT ![o] = last'[o]]
  /\ \A x \in Object : last[x] < last'[o]
  /\ UNCHANGED <<index, shown>>

\* The document of o shows the write w.
Show(o, w) ==
  /\ index' = [index EXCEPT ![o] = w]
  /\ shown' = [shown EXCEPT ![o] = @ \cup {w}]
  /\ UNCHANGED last

\* A committed write newer than all that was shown.
CatchUp(o) ==
  \E w \in 1 .. last[o] : (\A v \in shown[o] : v < w) /\ Show(o, w)

Repeat(o) == \E w \in shown[o] : Show(o, w)

Next == \E o \in Object : Write(o) \/ CatchUp(o) \/ Repeat(o)

Spec == Init /\ [][Next]_vars
=============================================================================
