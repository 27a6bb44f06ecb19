------------------------------ MODULE RiskGate ------------------------------
(***************************************************************************)
(* RiskManager.check_global and the kill switch it latches, with what it   *)
(* recomputes from the bets table every cycle: the drawdown of the settled *)
(* bets in the order of their ids, and the day's loss and new risk over    *)
(* the bets ENTERED today.  Bets settle in any order.  A bet is a fill: an *)
(* order the gate let through may rest and become a bet cycles later.      *)
(***************************************************************************)
EXTENDS Integers, FiniteSets, FiniteSetsExt

CONSTANTS
    MaxBets,      \* ids 1 .. MaxBets, given in the order of entry (bound)
    MaxDay,       \* days explored (bound)
    MaxResets,    \* kill switch resets explored (bound)
    Stake,        \* stake of a bet
    Outcomes,     \* pnl a bet may end with
    Start,        \* starting balance, and the bankroll of the config
    MaxDrawdown, DrawdownDiv,    \* the dollar limit, and 1 / fraction of bankroll
    DailyLoss, DailyLossDiv,
    NewRiskDiv,   \* 1 / max_daily_new_risk
    MaxEntries    \* orders one scan may place: the markets it quotes

ASSUME RiskAssumption ==
    /\ MaxBets \in Nat \ {0} /\ MaxDay \in Nat /\ MaxResets \in Nat
    /\ Stake \in Nat \ {0} /\ Start \in Nat \ {0}
    /\ Outcomes \subseteq Int /\ \A o \in Outcomes : o >= -Stake
    /\ MaxDrawdown \in Nat \ {0} /\ DailyLoss \in Nat \ {0}
    /\ DrawdownDiv \in Nat \ {0} /\ DailyLossDiv \in Nat \ {0}
    /\ NewRiskDiv \in Nat \ {0} /\ MaxEntries \in Nat \ {0}

VARIABLES
    entered,   \* bets entered; their ids are 1 .. entered
    open,      \* the ids still open
    pnl,       \* realized pnl per id (0 while open)
    dayOf,     \* the day a bet was entered
    today,
    latch,     \* the kill_switch_tripped key
    bankroll,  \* cfg.bankroll of this process
    pc,        \* the phase of the cycle
    quota,     \* orders this cycle may still place
    resting,   \* orders of earlier cycles, or of this one, not filled yet
    resets,
    \* History, read by no action.
    cum, peak, fall,   \* pnl, its peak and its largest fall as time went
    inOrder,           \* bets have settled in the order of their ids
    dayPnl,            \* the pnl realized today
    carried,           \* a bet of an earlier day has ended today
    direct             \* ids of the bets that filled when they were placed

table == <<entered, open, pnl, dayOf>>
hist == <<cum, peak, fall, inOrder, dayPnl, carried, direct>>
vars == <<table, today, latch, bankroll, pc, quota, resting, resets, hist>>

Ids == 1 .. MaxBets
Days == 0 .. MaxDay
Larger(x, y) == IF x > y THEN x ELSE y
Smaller(x, y) == IF x < y THEN x ELSE y

Init ==
    /\ entered = 0 /\ open = {}
    /\ pnl = [b \in Ids |-> 0] /\ dayOf = [b \in Ids |-> 0]
    /\ today = 0 /\ latch = FALSE /\ bankroll = Start
    /\ pc = "settle" /\ quota = 0 /\ resting = 0 /\ resets = 0
    /\ cum = 0 /\ peak = 0 /\ fall = 0 /\ inOrder = TRUE
    /\ dayPnl = 0 /\ carried = FALSE /\ direct = {}

-----------------------------------------------------------------------------
(* What check_global computes from the table. *)

Settled == (1 .. entered) \ open
\* The pnl of the settled bets with ids m to n.
PnlOver(m, n) == SumFunctionOnSet(pnl, Settled \intersect (m .. n))
\* The loop walks them in the order of their ids and keeps the largest fall
\* of the pnl from a peak before it.
LossFromStart == -PnlOver(1, entered)  \* mutant: measured from the start, not the peak
Drawdown == Max({0} \union {-PnlOver(m, n) : m, n \in Settled})

MaxDrawdownNow == Smaller(MaxDrawdown, bankroll \div DrawdownDiv)
DailyLossNow == Smaller(DailyLoss, bankroll \div DailyLossDiv)

BetsEndedToday == {b \in Settled : dayOf[b] = today}  \* mutant: open bets not counted
BetsToday == {b \in 1 .. entered : dayOf[b] = today}
RealizedOpen ==  \* mutant: only open bets are summed
    SumFunctionOnSet(pnl, BetsToday \intersect open)
RealizedToday == SumFunctionOnSet(pnl, BetsToday)
StakedToday == Stake * Cardinality(BetsToday)
NewRiskSpent == StakedToday * NewRiskDiv >= bankroll

-----------------------------------------------------------------------------
(* The cycle. *)

\* A fill becomes a bet of today with the next id.
Booked ==
    /\ entered' = entered + 1
    /\ open' = open \union {entered + 1}
    /\ dayOf' = [dayOf EXCEPT ![entered + 1] = today]

\* reconcile_open_orders, before the gate: a resting order has filled.
FillsTwice ==  \* mutant: a filled order stays in the tracker
    /\ pc = "settle" /\ resting > 0
    /\ Booked
    /\ UNCHANGED <<resting, pnl, today, latch, bankroll, pc, quota, resets, hist>>
RestingFills ==
    /\ pc = "settle" /\ resting > 0
    /\ Booked
    /\ resting' = resting - 1
    /\ UNCHANGED <<pnl, today, latch, bankroll, pc, quota, resets, hist>>

\* A bet ends: settled at the start of a cycle, or closed by its exit pass.
End(b) ==
    /\ pc \in {"settle", "manage"} /\ b \in open
    /\ open' = open \ {b}
    /\ \E o \in Outcomes :
         LET c == cum + o
             p == Larger(peak, c)
         IN  /\ pnl' = [pnl EXCEPT ![b] = o]
             /\ cum' = c /\ peak' = p /\ fall' = Larger(fall, p - c)
             /\ dayPnl' = dayPnl + o
    /\ inOrder' = (inOrder /\ \A a \in Settled : a < b)
    /\ carried' = (carried \/ dayOf[b] # today)
    /\ UNCHANGED <<entered, dayOf, today, latch, bankroll, pc, quota, resting,
                   resets, direct>>

\* The gate, in the order of its tests.  Only the drawdown latches.
TripsOnce ==  \* mutant: a reset acknowledges the history
    /\ pc = "settle" /\ ~ latch /\ resets = 0
    /\ Drawdown >= MaxDrawdownNow
    /\ latch' = TRUE
    /\ UNCHANGED <<table, today, bankroll, pc, quota, resting, resets, hist>>
GateTrips ==
    /\ pc = "settle" /\ ~ latch
    /\ Drawdown >= MaxDrawdownNow
    /\ latch' = TRUE
    /\ UNCHANGED <<table, today, bankroll, pc, quota, resting, resets, hist>>

RefusesUnlatched ==  \* mutant: the latch is not read
    Drawdown >= MaxDrawdownNow \/ RealizedToday <= -DailyLossNow \/ NewRiskSpent
Refuses == latch \/ Drawdown >= MaxDrawdownNow \/ RealizedToday <= -DailyLossNow
           \/ NewRiskSpent

\* set_bankroll, called by _cycle_configs right after the gate: in equity
\* mode the bankroll follows the realized pnl, and is never set to zero.
Rebased == {bankroll} \union ({Start + cum} \ {n \in Int : n <= 0})

GatePasses ==
    /\ pc = "settle" /\ ~ Refuses
    /\ pc' = "enter" /\ quota' = MaxEntries
    /\ bankroll' \in Rebased
    /\ UNCHANGED <<table, today, latch, resting, resets, hist>>

\* The scan loop places orders and does not ask the gate again.
Place ==
    /\ pc = "enter" /\ quota > 0 /\ entered + resting < MaxBets
    /\ quota' = quota - 1
    /\ \/ /\ Booked
          /\ direct' = direct \union {entered + 1}
          /\ UNCHANGED resting
       \/ /\ resting' = resting + 1
          /\ UNCHANGED <<entered, open, dayOf, direct>>
    /\ UNCHANGED <<pnl, today, latch, bankroll, pc, resets,
                   cum, peak, fall, inOrder, dayPnl, carried>>

ExitPass ==
    /\ pc = "enter"
    /\ pc' = "manage" /\ quota' = 0
    /\ UNCHANGED <<table, today, latch, bankroll, resting, resets, hist>>

\* expire_stale_orders drops what is past its TTL; a refused cycle returned
\* before it and drops nothing.
EndCycle ==
    /\ pc = "manage"
    /\ pc' = "settle" /\ resting' \in 0 .. resting
    /\ UNCHANGED <<table, today, latch, bankroll, quota, resets, hist>>

-----------------------------------------------------------------------------
(* Around it. *)

Midnight ==
    /\ today < MaxDay /\ today' = today + 1 /\ dayPnl' = 0 /\ carried' = FALSE
    /\ UNCHANGED <<table, latch, bankroll, pc, quota, resting, resets,
                   cum, peak, fall, inOrder, direct>>

\* sportsbot reset-kill-switch, from another process at any time.
Reset ==
    /\ latch /\ resets < MaxResets
    /\ latch' = FALSE /\ resets' = resets + 1
    /\ UNCHANGED <<table, today, bankroll, pc, quota, resting, hist>>

\* A restart forgets the bankroll and cancels what rests; the latch and the
\* table persist.
Restart ==
    /\ pc' = "settle" /\ quota' = 0 /\ resting' = 0 /\ bankroll' = Start
    /\ UNCHANGED <<table, today, latch, resets, hist>>

Next ==
    \/ RestingFills
    \/ \E b \in open : End(b)
    \/ GateTrips \/ GatePasses \/ Place \/ ExitPass \/ EndCycle
    \/ Midnight \/ Reset \/ Restart

Spec == Init /\ [][Next]_vars
\* run_forever reaches the gate again and again.
FairSpec == Spec /\ WF_vars(GateTrips \/ ExitPass \/ EndCycle)

-----------------------------------------------------------------------------
(* Properties. *)

TypeOK ==
    /\ entered \in 0 .. MaxBets /\ open \subseteq 1 .. entered
    /\ pnl \in [Ids -> Int] /\ dayOf \in [Ids -> Days]
    /\ today \in Days /\ latch \in BOOLEAN /\ bankroll \in Nat \ {0}
    /\ pc \in {"settle", "enter", "manage"} /\ quota \in 0 .. MaxEntries
    /\ resting \in 0 .. (MaxBets - entered) /\ resets \in 0 .. MaxResets
    /\ cum \in Int /\ peak \in Nat /\ fall \in Nat /\ inOrder \in BOOLEAN
    /\ dayPnl \in Int /\ carried \in BOOLEAN /\ direct \subseteq 1 .. entered

DirectOn(d) == {b \in direct : dayOf[b] = d}

\* On no day do the bets that fill when placed stake more than the share
\* max_daily_new_risk of the best bankroll so far and one scan's orders
\* (risk.py:123-125): whatever resets, restarts and midnights fall between.
\* Only orders that rested can take a day further.
DailyRiskBounded ==
    \A d \in Days :
        (Cardinality(DirectOn(d)) - MaxEntries) * Stake * NewRiskDiv < Start + peak

\* What a day has lost stops the day, through midnights, restarts and resets,
\* unless a bet of an earlier day ended in it: the gate sums the bets entered
\* today (risk.py:116-121), not those that ended today as the configuration
\* says (config/default.yaml:69).
DailyLossStopsOrders == [][Place /\ ~ carried => dayPnl > -DailyLoss]_vars

\* While bets settle in the order they were entered, no order is placed after
\* a fall of the maximum drawdown from any peak (risk.py:105-113).
DrawdownStopsOrders == [][Place /\ inOrder => fall < MaxDrawdown]_vars

\* No order is placed between a trip of the switch and its reset, through any
\* restart and any recovery of the account (risk.py:84-99).
LatchStopsOrders == [][Place => ~ latch]_vars

\* A reset is no amnesty: while the drawdown in the table is past the limit
\* the switch trips again (risk.py:91-113).
ResetTripsAgain ==
    ~ latch /\ Drawdown >= MaxDrawdownNow ~> latch \/ Drawdown < MaxDrawdownNow
=============================================================================
