----------------------------- MODULE PaperVenue -----------------------------
(***************************************************************************)
(* PaperExchange on the recorded tape, with the paper branches of Executor *)
(* and the cycle that drives them: an order takes what the book offers,    *)
(* the rest fills later from the prints that went through its limit while  *)
(* it could have rested.                                                   *)
(*                                                                         *)
(* One market.  The bot's steps are those of its single thread; reading    *)
(* the tape and crediting its prints happens at one time.  Bets are        *)
(* committed one by one, so a crash may fall between a fill and its bet;   *)
(* paper orders, their fills and the balance die with the process.  Order  *)
(* rows are left out: in paper mode nothing reads them to decide.          *)
(***************************************************************************)
EXTENDS UsTape, FiniteSetsExt

CONSTANTS
    Orders,
    Side,        \* per order: "yes" or "no"
    Limit,       \* per order: its price, in the frame of its side
    Size,
    Unit,        \* what a YES and a NO contract cost together
    Ttl,         \* order_ttl_seconds
    Start,       \* the market's start time
    Balance,     \* starting balance
    TakerFee, MakerFee,   \* per contract
    Proceeds     \* what a closed or settled position may bring back

ASSUME PaperAssumption ==
    /\ Side \in [Orders -> {"yes", "no"}] /\ Limit \in [Orders -> Nat \ {0}]
    /\ Size \in Nat \ {0} /\ Unit \in Nat /\ Ttl \in Nat \ {0} /\ Start \in Nat
    /\ Balance \in Nat /\ TakerFee \in Nat /\ MakerFee \in Nat
    /\ Proceeds \subseteq Nat

VARIABLES
    order,     \* per order: state, placement time, fill, fill when placed
    balance,
    bets,      \* per order: contracts on its bets rows
    pc,        \* the phase of the cycle
    answer,    \* the prints reconcile_resting has read
    todo,      \* orders it has still to look at
    book,      \* orders whose new fill is not a bet yet
    \* History, read by no action.
    checked,   \* orders last looked at after their window, with its prints
               \* all in the table and paid for
    torn       \* orders a crash cut between fill and bet

bot == <<order, balance, bets, pc, answer, todo, book, checked, torn>>
vars == <<now, tape, bot>>

NewOrder == [state |-> "new", placed |-> 0, filled |-> 0, taken |-> 0]
Resting == {o \in Orders : order[o].state = "resting"}
Min2(x, y) == IF x < y THEN x ELSE y

PaperInit ==
    /\ TapeInit
    /\ order = [o \in Orders |-> NewOrder]
    /\ balance = Balance
    /\ bets = [o \in Orders |-> 0]
    /\ pc = "idle" /\ answer = {} /\ todo = {} /\ book = {}
    /\ checked = {} /\ torn = {}

-----------------------------------------------------------------------------
(* The fill rule. *)

\* print_crosses and tape_fill_size: strictly inside the window.
Crosses(o, price) ==
    IF Side[o] = "yes" THEN price <= Limit[o] ELSE price >= Unit - Limit[o]
WindowEnd(o) == Min2(order[o].placed + Ttl, Start)
Within(o, i, before) ==
    order[o].placed < made[i].ts /\ made[i].ts < before /\ Crosses(o, made[i].price)
Through(o, S, before) ==
    SumFunctionOnSet([i \in Prints |-> made[i].size], {i \in S : Within(o, i, before)})

\* The window closes now, at the cancel deadline or at the start.
WindowToNow(o) == now  \* mutant: a late reconcile credits the whole day
Window(o) == Min2(now, WindowEnd(o))
TargetFromTape(o, S) == Min2(Size, Through(o, S, Window(o)))  \* mutant: the first fill is forgotten
Target(o, S) == Min2(Size, order[o].taken + Through(o, S, Window(o)))
Increment(o, S) == Target(o, S) - order[o].filled
Cost(o) == Increment(o, answer) * (Limit[o] + MakerFee)

-----------------------------------------------------------------------------
(* reconcile_open_orders of a paper venue. *)

\* One read per market and call, from the first order's placement on.
FirstPlaced == CHOOSE t \in {order[o].placed : o \in Resting} :
                   \A o \in Resting : t <= order[o].placed

\* After it, check_global lets the cycle trade or ends it.
Gated(passes) == pc' = IF passes THEN "trade" ELSE "idle"

NothingRests(passes) ==
    /\ pc = "idle" /\ Resting = {}
    /\ Gated(passes)
    /\ UNCHANGED <<now, tape, order, balance, bets, answer, todo, book, checked, torn>>

\* The window of o is over and the table holds all its prints.
AllRecorded(o) ==
    /\ now >= WindowEnd(o)
    /\ \A i \in Prints : Within(o, i, WindowEnd(o)) => i \in recorded
Answered == checked' = (checked \ Resting) \union {o \in Resting : AllRecorded(o)}

ReadTape ==
    LET S == Since(FirstPlaced)
        new == {o \in Resting : Increment(o, S) > 0}
    IN  /\ pc = "idle" /\ Resting # {} /\ Covered(FirstPlaced)
        /\ new # {}
        /\ answer' = S /\ todo' = new
        /\ Answered
        /\ pc' = "credit"
        /\ UNCHANGED <<now, tape, order, balance, bets, book, torn>>

NothingNew(passes) ==
    /\ pc = "idle" /\ Resting # {} /\ Covered(FirstPlaced)
    /\ \A o \in Resting : Increment(o, Since(FirstPlaced)) <= 0
    /\ Answered
    /\ Gated(passes)
    /\ UNCHANGED <<now, tape, order, balance, bets, answer, todo, book, torn>>

\* TapeGap, or the read fails: nothing fills.
NoTape(passes) ==
    /\ pc = "idle" /\ Resting # {}
    /\ checked' = checked \ Resting
    /\ Gated(passes)
    /\ UNCHANGED <<now, tape, order, balance, bets, answer, todo, book, torn>>

\* The orders in the sequence they were placed in.
Looked(o) ==
    /\ pc = "credit" /\ o \in todo
    /\ \A q \in todo : order[o].placed <= order[q].placed
    /\ todo' = todo \ {o}
    /\ IF todo = {o} THEN pc' = "book" /\ answer' = {} ELSE UNCHANGED <<pc, answer>>

Filled(o) ==
    LET n == Target(o, answer)
    IN  /\ order' = [order EXCEPT ![o].filled = n,
                                  ![o].state = IF n = Size THEN "filled" ELSE @]
        /\ balance' = balance - Cost(o)
        /\ book' = book \union {o}

CreditUnpaid(o) ==  \* mutant: the balance is not asked
    /\ Looked(o)
    /\ Filled(o)
    /\ UNCHANGED <<now, tape, bets, checked, torn>>
Credit(o) ==
    /\ Looked(o) /\ Cost(o) <= balance
    /\ Filled(o)
    /\ UNCHANGED <<now, tape, bets, checked, torn>>

\* Tried again at the next reconcile.
TooPoor(o) ==
    /\ Looked(o) /\ Cost(o) > balance
    /\ checked' = checked \ {o}
    /\ UNCHANGED <<now, tape, order, balance, bets, book, torn>>

\* _book_fill: the increment over what is booked, one commit.
BookTotal(o) ==  \* mutant: the whole fill each time
    /\ pc \in {"book", "placed"} /\ o \in book
    /\ bets' = [bets EXCEPT ![o] = @ + order[o].filled]
    /\ book' = book \ {o}
    /\ pc' = IF pc = "placed" THEN "trade" ELSE pc
    /\ UNCHANGED <<now, tape, order, balance, answer, todo, checked, torn>>
BookFill(o) ==
    /\ pc \in {"book", "placed"} /\ o \in book
    /\ bets' = [bets EXCEPT ![o] = order[o].filled]
    /\ book' = book \ {o}
    /\ pc' = IF pc = "placed" THEN "trade" ELSE pc
    /\ UNCHANGED <<now, tape, order, balance, answer, todo, checked, torn>>

Booked(passes) ==
    /\ pc = "book" /\ book = {}
    /\ Gated(passes)
    /\ UNCHANGED <<now, tape, order, balance, bets, answer, todo, book, checked, torn>>

-----------------------------------------------------------------------------
(* The rest of the cycle. *)

\* submit: f contracts are on the book at an average of p or better than the
\* limit; the order is rejected when the balance is short of them.
Place(o, f, p) ==
    /\ pc = "trade" /\ order[o].state = "new" /\ now + Ttl <= MaxTime
    /\ p <= Limit[o] /\ f * (p + TakerFee) <= balance
    /\ balance' = balance - f * (p + TakerFee)
    /\ order' = [order EXCEPT ![o] =
                   [state |-> IF f = Size THEN "filled" ELSE "resting",
                    placed |-> now, filled |-> f, taken |-> f]]
    /\ book' = IF f > 0 THEN {o} ELSE {}
    /\ pc' = IF f > 0 THEN "placed" ELSE "trade"
    /\ UNCHANGED <<now, tape, bets, answer, todo, checked, torn>>

Reject(o, f, p) ==
    /\ pc = "trade" /\ order[o].state = "new"
    /\ p <= Limit[o] /\ f * (p + TakerFee) > balance
    /\ order' = [order EXCEPT ![o].state = "rejected"]
    /\ UNCHANGED <<now, tape, balance, bets, pc, answer, todo, book, checked, torn>>

\* close_position or settle, of this market or another.
Paid(n) ==
    /\ pc = "trade" /\ balance + n <= Balance
    /\ balance' = balance + n
    /\ UNCHANGED <<now, tape, order, bets, pc, answer, todo, book, checked, torn>>

\* expire_stale_orders at the end of a cycle.
PastTtl == {o \in Resting : now - order[o].placed >= Ttl}

EndTrade ==
    /\ pc = "trade" /\ pc' = "idle"
    /\ order' = [o \in Orders |-> IF o \in PastTtl THEN [order[o] EXCEPT !.state = "expired"]
                                  ELSE order[o]]
    /\ UNCHANGED <<now, tape, balance, bets, answer, todo, book, checked, torn>>

\* run_forever catches what a cycle raises; the expiry is skipped.
CycleRaises ==
    /\ pc = "trade" /\ pc' = "idle"
    /\ UNCHANGED <<now, tape, order, balance, bets, answer, todo, book, checked, torn>>

\* The process stops, which cancels what rests, or dies at any point, which
\* forgets it.  The next one starts with the starting balance.
Restart ==
    /\ order' = [o \in Orders |-> IF o \notin Resting THEN order[o]
                                  ELSE [NewOrder EXCEPT !.state = "dead", !.filled = order[o].filled]]
    /\ balance' = Balance
    /\ pc' = "idle" /\ answer' = {} /\ todo' = {} /\ book' = {}
    /\ torn' = torn \union book
    /\ UNCHANGED <<now, tape, bets, checked>>

-----------------------------------------------------------------------------
Gate(passes) ==
    NothingRests(passes) \/ NothingNew(passes) \/ NoTape(passes) \/ Booked(passes)
Reconcile ==
    \/ ReadTape \/ \E passes \in BOOLEAN : Gate(passes)
    \/ \E o \in Orders : Credit(o) \/ TooPoor(o) \/ BookFill(o)
Trade ==
    \/ \E o \in Orders, f \in 0 .. Size, p \in Prices : Place(o, f, p) \/ Reject(o, f, p)
    \/ \E n \in Proceeds : Paid(n)
Cycle == Reconcile \/ Trade \/ EndTrade \/ CycleRaises

\* Time and the tape move between the bot's steps, except while the prints it
\* has read are credited and booked: that reads neither.
Open == pc \in {"idle", "trade"}
Market == Open /\ TapeNext /\ UNCHANGED bot

Next == Market \/ Cycle \/ Restart

Spec == PaperInit /\ [][Next]_vars

-----------------------------------------------------------------------------
(* Properties. *)

TypeOK ==
    /\ TapeTypeOK
    /\ order \in [Orders -> [state : {"new", "resting", "filled", "expired", "dead", "rejected"},
                             placed : Times, filled : 0 .. Size, taken : 0 .. Size]]
    /\ balance \in Nat /\ bets \in [Orders -> Nat]
    /\ pc \in {"idle", "credit", "book", "trade", "placed"}
    /\ answer \subseteq Prints /\ todo \subseteq Resting /\ book \subseteq Orders
    /\ checked \subseteq Orders /\ torn \subseteq Orders

\* An order never fills beyond what the venue traded through its limit while
\* it could have rested, however late the tape is read (paper.py:152-157).
FillsWithinWindow ==
    \A o \in Orders : order[o].state # "dead" =>
        order[o].filled <= order[o].taken + Through(o, Prints, WindowEnd(o))

\* No print is left out: an order that expired after a look at its whole
\* window, its prints all recorded, holds as bets what was traded through it,
\* over any number of reads, gaps and short balances before (paper.py:163-212,
\* executor.py:325-338).
EveryPrintBooked ==
    \A o \in Orders :
        order[o].state = "expired" /\ o \in checked =>
            bets[o] = Min2(Size, order[o].taken + Through(o, Prints, WindowEnd(o)))

\* Paper trading keeps the same promise about money as live trading.
Ledger == INSTANCE FillLedger WITH
    filled <- [o \in Orders |-> order[o].filled],
    booked <- bets,
    closed <- {o \in Orders : order[o].state \notin {"new", "resting"} /\ o \notin book}
ImplementsLedger == Ledger!Spec
=============================================================================
