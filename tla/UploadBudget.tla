----------------------------- MODULE UploadBudget -----------------------------
(***************************************************************************)
(* The per-pod memory budget that creative-asset uploads draw on in two    *)
(* stages.  An upload takes its wire charge before its body is read and    *)
(* keeps it for the whole handler; once the image header is known it asks  *)
(* for the pixel buffer it decodes into, while holding the first charge.   *)
(* Every method of the budget runs under one mutex and is one action; the  *)
(* wait in between is a select over the grant, the caller's cancellation   *)
(* and a timer, so a grant may race with either.                           *)
(***************************************************************************)
EXTENDS Naturals, Sequences, FiniteSets, FiniteSetsExt

CONSTANTS
  Request,     \* upload requests, each arriving once
  WireSize,   \* wire charges a request may be priced at
  PixelSize,  \* pixel buffers an image header may declare
  Total,      \* the budget
  Reserve     \* what the first stage leaves free: the largest pixel buffer

ASSUME BudgetConstants ==
  /\ IsFiniteSet(Request)
  /\ Total \in Nat /\ Reserve \in Nat
  /\ Reserve < Total
  /\ WireSize \subseteq Nat \ {0}
  /\ PixelSize \subseteq 1 .. Reserve

VARIABLES
  wire, pixels,  \* the charges each upload asks for
  used,          \* bytes charged
  first, second, \* waiters of each stage, in arrival order
  ready,         \* waiters granted while waiting that have not woken yet
  cancelled,     \* uploads whose request context is done
  step

budgetVars == <<wire, pixels, used, first, second, ready, cancelled, step>>
sizes == <<wire, pixels>>

Waiting == {"wait_wire", "wait_pixels"}
PC == {"new", "wait_wire", "reading", "wait_pixels", "decoding", "writing", "done", "shed"}

BudgetTypeOK ==
  /\ wire \in [Request -> WireSize]
  /\ pixels \in [Request -> PixelSize]
  /\ used \in Nat
  /\ first \in Seq(Request) /\ second \in Seq(Request)
  /\ ready \subseteq Request
  /\ cancelled \subseteq Request
  /\ step \in [Request -> PC]

BudgetInit ==
  /\ wire \in [Request -> WireSize]
  /\ pixels \in [Request -> PixelSize]
  /\ used = 0
  /\ first = <<>> /\ second = <<>>
  /\ ready = {}
  /\ cancelled = {}
  /\ step = [u \in Request |-> "new"]

-----------------------------------------------------------------------------
(* The queues. *)

\* Mutant: the first stage may fill the budget.
MutNoReserve == Total

FirstStageLimit == Total - Reserve

\* The bytes that a set of uploads asks for, and how many they are.
Bytes(want, S) == UNION {{u} \X (1 .. want[u]) : u \in S}
Size(want, S) == Cardinality(Bytes(want, S))

\* The first n waiters of a queue, and what they ask for together.
Ahead(q, n) == {q[i] : i \in 1 .. n}
Asked(q, want, n) == Size(want, Ahead(q, n))

\* How many waiters are admitted from the head: a head that does not fit is not
\* overtaken by a smaller one behind it.
Fits(q, want, held, limit) ==
  Max({0} \cup {n \in 1 .. Len(q) : held + Asked(q, want, n) <= limit})

\* grantLocked: the second stage first, the first stage only behind no second.
Grant(held, q1, q2, granted) ==
  LET n2    == Fits(q2, pixels, held, Total)
      held2 == held + Asked(q2, pixels, n2)
      n1    == IF n2 < Len(q2) THEN 0 ELSE Fits(q1, wire, held2, FirstStageLimit)
  IN /\ used' = held2 + Asked(q1, wire, n1)
     /\ second' = SubSeq(q2, n2 + 1, Len(q2))
     /\ first' = SubSeq(q1, n1 + 1, Len(q1))
     /\ ready' = granted \cup Ahead(q2, n2) \cup Ahead(q1, n1)

\* remove: the first entry of u is cut out; a queue without one is left as it is.
Place(q, u) == CHOOSE i \in 1 .. Len(q) : q[i] = u

Removed(q, u) ==
  IF u \in Ahead(q, Len(q))
  THEN SubSeq(q, 1, Place(q, u) - 1) \o SubSeq(q, Place(q, u) + 1, Len(q))
  ELSE q

Move(u, to) == step' = [step EXCEPT ![u] = to]

-----------------------------------------------------------------------------
(* Acquire and AcquireSecondStage, up to the wait. *)

\* Mutant: pixel requests queue behind everything, as on one plain semaphore.
MutBehindEverybody == first # <<>> \/ second # <<>>

SecondStageAhead == second # <<>>

\* A first-stage request takes free room unless somebody is waiting.
AcquireWire(u) ==
  /\ step[u] = "new"
  /\ u \notin cancelled
  /\ wire[u] <= FirstStageLimit
  /\ IF first = <<>> /\ second = <<>> /\ used + wire[u] <= FirstStageLimit
     THEN used' = used + wire[u] /\ Move(u, "reading") /\ UNCHANGED first
     ELSE first' = Append(first, u) /\ Move(u, "wait_wire") /\ UNCHANGED used
  /\ UNCHANGED <<sizes, second, ready, cancelled>>

\* An upload larger than the stage, or one whose caller left, is refused at once.
RefuseWire(u) ==
  /\ step[u] = "new"
  /\ u \in cancelled \/ wire[u] > FirstStageLimit
  /\ Move(u, "shed")
  /\ UNCHANGED <<sizes, used, first, second, ready, cancelled>>

AcquirePixels(u) ==
  /\ step[u] = "reading"
  /\ u \notin cancelled
  /\ IF ~SecondStageAhead /\ used + pixels[u] <= Total
     THEN used' = used + pixels[u] /\ Move(u, "decoding") /\ UNCHANGED second
     ELSE second' = Append(second, u) /\ Move(u, "wait_pixels") /\ UNCHANGED used
  /\ UNCHANGED <<sizes, first, ready, cancelled>>

(* The wait, and its settlement under the mutex. *)

Admitted(u) == IF step[u] = "wait_wire" THEN "reading" ELSE "decoding"

Charge(u) == IF step[u] = "wait_wire" THEN wire[u] ELSE pixels[u]

\* A waiter that is shed from the second stage still holds its wire charge; its
\* handler answers 503 and returns.
Turned(u) == IF step[u] = "wait_wire" THEN "shed" ELSE "writing"

Wake(u) ==
  /\ step[u] \in Waiting
  /\ u \in ready \ cancelled
  /\ ready' = ready \ {u}
  /\ Move(u, Admitted(u))
  /\ UNCHANGED <<sizes, used, first, second, cancelled>>

\* Mutant: the charge of a cancelled grant is forgotten.
MutKeepsCharge(u) == used

AfterGiveBack(u) == used - Charge(u)

\* The grant raced with the caller's cancellation: the charge goes back.
GiveBack(u) ==
  /\ step[u] \in Waiting
  /\ u \in ready \cap cancelled
  /\ Grant(AfterGiveBack(u), first, second, ready \ {u})
  /\ Move(u, Turned(u))
  /\ UNCHANGED <<sizes, cancelled>>

\* Mutant: a waiter leaves its queue without waking whoever it blocked.
MutLeavesQuietly(u) ==
  /\ used' = used /\ ready' = ready
  /\ first' = Removed(first, u) /\ second' = Removed(second, u)

\* Leaving the head of a queue can unblock the waiters behind it.
LeaveQueue(u) == Grant(used, Removed(first, u), Removed(second, u), ready)

\* The timer or the cancellation wins: any time, since the wait is bounded by
\* wall-clock time alone.
GiveUp(u) ==
  /\ step[u] \in Waiting
  /\ u \notin ready
  /\ LeaveQueue(u)
  /\ Move(u, Turned(u))
  /\ UNCHANGED <<sizes, cancelled>>

-----------------------------------------------------------------------------
(* The upload's handler. *)

Release(charge) == Grant(used - charge, first, second, ready)

\* The decode returns, on either arm, and its pixel buffer with it.
Decode(u) ==
  /\ step[u] = "decoding"
  /\ Release(pixels[u])
  /\ Move(u, "writing")
  /\ UNCHANGED <<sizes, cancelled>>

\* The body or the header is refused before a pixel buffer is asked for, or the
\* caller is gone by then.
RefuseImage(u) ==
  /\ step[u] = "reading"
  /\ Move(u, "writing")
  /\ UNCHANGED <<sizes, used, first, second, ready, cancelled>>

\* The handler returns and with it the deferred release of the wire charge.
Return(u) ==
  /\ step[u] = "writing"
  /\ Release(wire[u])
  /\ Move(u, "done")
  /\ UNCHANGED <<sizes, cancelled>>

Cancel(u) ==
  /\ step[u] \notin {"done", "shed"}
  /\ u \notin cancelled
  /\ cancelled' = cancelled \cup {u}
  /\ UNCHANGED <<sizes, used, first, second, ready, step>>

Step(u) ==
  \/ AcquireWire(u) \/ RefuseWire(u) \/ AcquirePixels(u)
  \/ Wake(u) \/ GiveBack(u) \/ GiveUp(u)
  \/ Decode(u) \/ RefuseImage(u) \/ Return(u)
  \/ Cancel(u)

BudgetNext == \E u \in Request : Step(u)

\* A decode returns, and a granted waiter wakes.  Nothing is assumed of the
\* timers, of the callers, or of the handlers that hold a wire charge only.
Fairness ==
  \A u \in Request : WF_budgetVars(Wake(u) \/ GiveBack(u)) /\ WF_budgetVars(Decode(u))

BudgetSpec == BudgetInit /\ [][BudgetNext]_budgetVars /\ Fairness

-----------------------------------------------------------------------------
(* Properties. *)

HoldsWire(u) ==
  \/ step[u] \in {"reading", "wait_pixels", "decoding", "writing"}
  \/ step[u] = "wait_wire" /\ u \in ready

HoldsPixels(u) == step[u] = "decoding" \/ (step[u] = "wait_pixels" /\ u \in ready)

WireHeld == Size(wire, {u \in Request : HoldsWire(u)})
PixelsHeld == Size(pixels, {u \in Request : HoldsPixels(u)})

\* The counter is exactly what the uploads hold, whatever raced with a grant:
\* nothing is leaked or released twice, and it never exceeds the budget.
ChargesAddUp == BudgetTypeOK /\ used = WireHeld + PixelsHeld /\ used <= Total

\* No waiter sleeps beside room that is its to take: neither a release, nor a
\* waiter ahead that gives up, nor a grant handed back loses a wake-up.
NoWaiterOverlooked ==
  /\ second # <<>> => used + pixels[Head(second)] > Total
  /\ second = <<>> /\ first # <<>> => used + wire[Head(first)] > FirstStageLimit

\* An upload that waits for pixels waits only for other uploads' decodes, which
\* hold nothing they have to wait for: there is no hold-and-wait.
PixelsWaitOnlyOnDecodes == second # <<>> => \E u \in Request : HoldsPixels(u)

\* An upload admitted to the pixel stage's queue gets its answer by the running
\* decodes alone, without any timer or cancellation.
AdmittedUploadsDrain ==
  \A u \in Request : step[u] = "wait_pixels" ~> step[u] \in {"decoding", "writing"}
===============================================================================
