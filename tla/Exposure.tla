------------------------------ MODULE Exposure ------------------------------
(***************************************************************************)
(* What the runner has at risk per market and per sport: the open bets in  *)
(* the bets table, the orders that still rest, and the copy of the former  *)
(* that one scan works with.  Two arms place orders: the touch arm, whose  *)
(* sport budget also counts what rests, and the model arm, whose caps see  *)
(* open bets only.  Amounts are dollars at cost, and an event is a market. *)
(* What the venue filled is the amount the next reconcile reports.         *)
(***************************************************************************)
EXTENDS Integers, FiniteSets, FiniteSetsExt

CONSTANTS
    Markets, None,
    Sports, SportOf,
    Arms,          \* the funded arms of a sport: "touch", "model"
    Slots,         \* model orders that may rest on one side of a market (bound)
    TouchStake, TouchCap,    \* stake_usd and max_stake_per_market of touch.py
    MinStake, MarketCap, TotalCap, MaxPositions,    \* StakingConfig
    Targets,       \* Kelly targets explored (bound)
    Budgets,       \* budgets the portfolio may give a sport (bound)
    OtherMode      \* open bets of the other mode in the same table

ASSUME ExposureAssumption ==
    /\ IsFiniteSet(Markets) /\ IsFiniteSet(Slots)
    /\ None \notin Markets
    /\ SportOf \in [Markets -> Sports]
    /\ Arms \in [Sports -> SUBSET {"touch", "model"}]
    /\ Slots \subseteq Nat \ {0}
    /\ TouchStake \in Nat \ {0} /\ TouchCap \in Nat
    /\ MinStake \in Nat \ {0} /\ MarketCap \in Nat /\ TotalCap \in Nat
    /\ MaxPositions \in Nat
    /\ Targets \subseteq Nat /\ Budgets \subseteq Nat
    /\ OtherMode \in [Markets -> Nat]

VARIABLES
    open,       \* cost of the open bets of this mode, per market
    rest,       \* unfilled stake of the tracked orders
    exposure,   \* the copy of the open cost in the scan's hands
    budget,     \* sport_budget of this cycle
    todo,       \* markets this scan has not come to
    turn,       \* the market the model arm is about to look at
    pc

book == <<open, rest>>
scan == <<exposure, budget, todo, turn>>
vars == <<book, scan, pc>>

Sides == {"yes", "no"}
\* A tracked order: the touch arm's has place 0, the model arm's a slot.
Orders == Markets \X Sides \X ({0} \union Slots)
MarketsOf(s) == {m \in Markets : SportOf[m] = s}
OrdersOf(s) == {o \in Orders : SportOf[o[1]] = s}
Runs(m, arm) == arm \in Arms[SportOf[m]]

\* exposure_by: per sport and in total.
Held(f, S) == SumFunctionOnSet(f, S)
\* resting_stake_by_sport: read from the tracker when it is needed.
RestingStake(s) == SumFunctionOnSet(rest, OrdersOf(s))
\* resting_sides: any tracked order counts, whatever its arm.
RestsOn(m, side) == \E p \in {0} \union Slots : rest[<<m, side, p>>] > 0

NoBets == [m \in Markets |-> 0]
NoBudget == [s \in Sports |-> 0]

Init ==
    /\ open = NoBets /\ rest = [o \in Orders |-> 0]
    /\ exposure = NoBets /\ budget = NoBudget
    /\ todo = {} /\ turn = None /\ pc = "sync"

-----------------------------------------------------------------------------
(* Before the scan: reconcile, settle, and the gate. *)

\* A fill becomes a bet; an order that left the book goes with its rest.
Sync(o) ==
    /\ pc = "sync" /\ rest[o] > 0
    /\ \E filled \in 0 .. rest[o] :
         /\ open' = [open EXCEPT ![o[1]] = @ + filled]
         /\ \E left \in {0, rest[o] - filled} : rest' = [rest EXCEPT ![o] = left]
    /\ UNCHANGED <<scan, pc>>

Settle(m) ==
    /\ pc = "sync"
    /\ open' = [open EXCEPT ![m] = 0]
    /\ UNCHANGED <<rest, scan, pc>>

\* The budgets of this cycle, and the exposure of this mode.
StartScan ==
    /\ pc = "sync" /\ pc' = "scan"
    /\ exposure' = open
    /\ budget' \in [Sports -> Budgets]
    /\ todo' \in SUBSET Markets
    /\ UNCHANGED <<book, turn>>

-----------------------------------------------------------------------------
(* The scan. *)

\* An order is accepted, some of it filled at once; it is tracked if it rests.
Submit(o, stake) ==
    \E filled \in 0 .. stake :
        /\ open' = [open EXCEPT ![o[1]] = @ + filled]
        /\ \E left \in {0, stake - filled} : rest' = [rest EXCEPT ![o] = @ + left]

\* evaluate_touch: the side to post, and the caps it must fit.
TouchSideStacks(m, side) ==  \* mutant: the arm stacks on a side it rests on
    side \in Sides
TouchSide(m, side) ==
    /\ ~ RestsOn(m, side)
    /\ side = "no" => RestsOn(m, "yes")
TouchFitsHeld(m) ==  \* mutant: the market cap ignores the new stake
    LET s == SportOf[m] IN
    /\ exposure[m] <= TouchCap
    /\ Held(exposure, MarketsOf(s)) + RestingStake(s) + TouchStake <= budget[s]
TouchFits(m) ==
    LET s == SportOf[m] IN
    /\ exposure[m] + TouchStake <= TouchCap
    /\ Held(exposure, MarketsOf(s)) + RestingStake(s) + TouchStake <= budget[s]

\* The copy the scan goes on with after a touch order: every mode's bets.
AllModesUnread(f) ==  \* mutant: the exposure is not read again
    exposure
AllModes(f) == [m \in Markets |-> f[m] + OtherMode[m]]

\* Whether the model arm looks next: the scanner may have dropped the market.
Passed(m) == turn' \in (IF Runs(m, "model") THEN {m, None} ELSE {None})

TouchPost(m) ==
    /\ pc = "scan" /\ turn = None /\ m \in todo /\ Runs(m, "touch")
    /\ TouchFits(m)
    /\ \E side \in Sides : TouchSide(m, side) /\ Submit(<<m, side, 0>>, TouchStake)
    /\ exposure' = AllModes(open')
    /\ todo' = todo \ {m} /\ Passed(m)
    /\ UNCHANGED <<budget, pc>>

\* No order: the book, the window, a cap, a veto or the venue said no.
TouchSkip(m) ==
    /\ pc = "scan" /\ turn = None /\ m \in todo
    /\ todo' = todo \ {m} /\ Passed(m)
    /\ UNCHANGED <<book, exposure, budget, pc>>

\* decide_stake: top the market up to the target, clipped by the caps; the
\* depth of the book may cut the stake further.
CapsLeft(m) ==
    {MarketCap - exposure[m],
     budget[SportOf[m]] - Held(exposure, MarketsOf(SportOf[m])),
     TotalCap - Held(exposure, Markets)}
Stakes(m, target) ==
    {x \in MinStake .. target - exposure[m] : \A left \in CapsLeft(m) : x <= left}

ModelBet ==
    /\ pc = "scan" /\ turn # None
    /\ Cardinality({m \in Markets : exposure[m] > 0}) < MaxPositions
    /\ \E target \in Targets, side \in Sides, p \in Slots :
         /\ rest[<<turn, side, p>>] = 0
         /\ \E stake \in Stakes(turn, target) : Submit(<<turn, side, p>>, stake)
    /\ exposure' = open' /\ turn' = None
    /\ UNCHANGED <<budget, todo, pc>>

ModelSkip ==
    /\ pc = "scan" /\ turn # None /\ turn' = None
    /\ UNCHANGED <<book, exposure, budget, todo, pc>>

\* The scan's copy ends with it.
Forget == exposure' = NoBets /\ budget' = NoBudget /\ todo' = {} /\ turn' = None

ScanEnds ==
    /\ pc = "scan" /\ todo = {} /\ turn = None
    /\ pc' = "exits" /\ Forget
    /\ UNCHANGED book

-----------------------------------------------------------------------------
(* After the scan: exits and expiry; a cycle that raises skips them. *)

Exit(m) ==
    /\ pc = "exits"
    /\ \E left \in 0 .. open[m] : open' = [open EXCEPT ![m] = left]
    /\ UNCHANGED <<rest, scan, pc>>

\* A cancel that fails leaves the order for the next cycle.
Expire(o) ==
    /\ pc = "exits" /\ rest[o] > 0
    /\ rest' = [rest EXCEPT ![o] = 0]
    /\ UNCHANGED <<open, scan, pc>>

EndCycle ==
    /\ pc = "exits" /\ pc' = "sync"
    /\ UNCHANGED <<book, scan>>

CycleRaises ==
    /\ pc # "sync" /\ pc' = "sync" /\ Forget
    /\ UNCHANGED book

Next ==
    \/ \E o \in Orders : Sync(o) \/ Expire(o)
    \/ \E m \in Markets : Settle(m) \/ TouchPost(m) \/ TouchSkip(m) \/ Exit(m)
    \/ StartScan \/ ModelBet \/ ModelSkip
    \/ ScanEnds \/ EndCycle \/ CycleRaises

Spec == Init /\ [][Next]_vars

-----------------------------------------------------------------------------
(* Properties. *)

\* Types, and a phase has only the locals it uses.
TypeOK ==
    /\ open \in [Markets -> Nat] /\ exposure \in [Markets -> Nat]
    /\ rest \in [Orders -> Nat]
    /\ \A m \in Markets, side \in Sides : rest[<<m, side, 0>>] <= TouchStake
    /\ budget \in [Sports -> Nat]
    /\ todo \subseteq Markets /\ turn \in Markets \union {None}
    /\ pc \in {"sync", "scan", "exits"}
    /\ pc # "scan" => todo = {} /\ turn = None

\* A touch order never takes a sport past its budget of this cycle, counting
\* every open bet and every order that may still fill, of either arm, though
\* the arm reads a copy of the exposure (executor.py:300, touch.py:147).
Committed(s) == Held(open, MarketsOf(s)) + RestingStake(s)
TouchWithinBudget ==
    [][\A m \in Markets : TouchPost(m) => Committed(SportOf[m])' <= budget[SportOf[m]]]_vars

\* Where only the touch arm runs, a market's bets and what rests on it are
\* past the cap by at most one order: the second side, posted while the first
\* rests (touch.py:142).
TouchOnly(m) == ~ Runs(m, "model")
OvershootIsOneOrder ==
    \A m \in Markets :
        TouchOnly(m) => open[m] + rest[<<m, "yes", 0>>] + rest[<<m, "no", 0>>]
                          <= TouchCap + TouchStake
=============================================================================
