----------------------------- MODULE FillLedger -----------------------------
(***************************************************************************)
(* What the executor promises about money: contracts become bets only      *)
(* after the venue filled them, each at most once, and an order whose row  *)
(* is closed is never booked again.  Only an order that a crash cut in two *)
(* is outside the promise.  No process, no loop and no table row appears   *)
(* here; OrderLifecycle implements this specification.                     *)
(***************************************************************************)
EXTENDS Naturals

CONSTANTS Orders, Size

VARIABLES
    filled,   \* contracts the venue has filled
    booked,   \* contracts that have become bets
    closed,   \* orders that will not be booked again
    torn      \* orders outside the promise

ledger == <<filled, booked, closed, torn>>

Init ==
    /\ filled = [o \in Orders |-> 0]
    /\ booked = [o \in Orders |-> 0]
    /\ closed = {}
    /\ torn = {}

Fill(o) ==
    /\ \E n \in 0 .. Size : filled[o] < n /\ filled' = [filled EXCEPT ![o] = n]
    /\ UNCHANGED <<booked, closed, torn>>

\* Orders are closed; what is closed stays closed.
Close ==
    /\ closed \subseteq closed' /\ closed' \subseteq Orders
    /\ UNCHANGED <<filled, booked, torn>>

\* The last contracts may be booked in the step that closes the order.
Book(o) ==
    /\ o \notin closed
    /\ booked' = [booked EXCEPT ![o] = booked'[o]]
    /\ booked'[o] > booked[o]
    /\ booked'[o] <= filled[o] \/ o \in torn
    /\ closed' \in {closed, closed \union {o}}
    /\ UNCHANGED <<filled, torn>>

\* A crash leaves orders cut in two and may close others.
Tear ==
    /\ torn \subseteq torn' /\ torn' \subseteq Orders
    /\ closed \subseteq closed' /\ closed' \subseteq Orders
    /\ UNCHANGED <<filled, booked>>

Next == Close \/ Tear \/ \E o \in Orders : Fill(o) \/ Book(o)

Spec == Init /\ [][Next]_ledger
=============================================================================
