---------------------------- MODULE TennisMaker ----------------------------
(***************************************************************************)
(* The paper market maker for tennis matches (maker/tennis_maker_bot.py):  *)
(* the Quoter, its paper orders with their queue position, its positions,  *)
(* and the two coroutines that drive it.                                   *)
(*                                                                         *)
(* Prices are counted in ticks, 0 standing for an empty side of the book.  *)
(* The book itself is not kept: any message may change it between two      *)
(* handlers, so each handler reads an arbitrary one.  A pass of risk_loop  *)
(* has no await between two tokens: no message is handled during a pass.   *)
(***************************************************************************)
EXTENDS Integers, FiniteSetsExt

CONSTANTS
    Tokens,
    Prices,      \* bound: the ticks the market moves in
    Size,        \* QUOTE_SIZE_USD / price, taken as a number of shares
    MaxInv,      \* MAX_TOTAL_INVENTORY_USD, in ticks times shares
    MinSpread,   \* MIN_SPREAD_TICKS
    MinMid, MaxMid,
    TpTicks, SlTicks,
    MaxQueue,    \* bound: the displayed size we may join behind
    MaxPrint     \* bound: the size of a printed trade

ASSUME MakerAssumption ==
    /\ IsFiniteSet(Tokens)
    /\ Prices \subseteq Nat \ {0}
    /\ {Size, MaxInv, MinSpread, TpTicks, SlTicks, MaxPrint} \subseteq Nat \ {0}
    /\ {MaxQueue, MinMid, MaxMid} \subseteq Nat

VARIABLES
    entry,   \* TokenState.entry_order
    tp,      \* TokenState.tp_order
    pos,     \* TokenState.position
    inv,     \* Quoter.total_inventory_usd
    aged,    \* tokens whose position is past POSITION_TTL_SECONDS
    todo     \* tokens the current pass of risk_loop has still to visit

vars == <<entry, tp, pos, inv, aged, todo>>

\* An order or a position that does not exist has size 0.
NoOrder == [price |-> 0, size |-> 0, filled |-> 0, queue |-> 0]
Flat    == [price |-> 0, size |-> 0]

Resting(o) == o.size > 0
Left(o)    == o.size - o.filled
Long(t)    == pos[t].size > 0

Lesser(a, b) == IF a <= b THEN a ELSE b

Init ==
    /\ entry = [t \in Tokens |-> NoOrder]
    /\ tp = [t \in Tokens |-> NoOrder]
    /\ pos = [t \in Tokens |-> Flat]
    /\ inv = 0
    /\ aged = {}
    /\ todo = {}
-----------------------------------------------------------------------------
(* PaperOrder.on_trade: a trade through our price fills us, one at our price *)
(* works off the queue first.                                               *)

\* A variant that forgets the shares ahead of us and what is left of us.
FilledWhole(o, through, n) == IF through THEN o.size ELSE Lesser(o.size, n)

FilledBy(o, through, n) ==
    IF through THEN Left(o)
    ELSE IF n > o.queue THEN Lesser(Left(o), n - o.queue) ELSE 0

AfterPrint(o, through, n) ==
    [o EXCEPT !.filled = @ + FilledBy(o, through, n),
              !.queue = IF through THEN @ ELSE @ - Lesser(@, n)]

\* An order with nothing left is dropped.
Remains(o) == IF Left(o) > 0 THEN o ELSE NoOrder
-----------------------------------------------------------------------------
(* The position.                                                            *)

\* The entry price is the average over the fills of the position.
Enlarged(p, price, f) ==
    IF p.size = 0
    THEN [price |-> price, size |-> f]
    ELSE [p EXCEPT !.price = (p.price * p.size + price * f) \div (p.size + f),
                   !.size = @ + f]

\* Part of it is sold.
Reduced(p, n) == [p EXCEPT !.size = @ - n, !.price = IF n = p.size THEN 0 ELSE @]

\* A variant that takes the closed shares off at the price they were sold for.
InvAfterSale(p, n) == IF inv >= (p.price + TpTicks) * n THEN inv - (p.price + TpTicks) * n ELSE 0

\* The inventory after n shares are closed, never below zero.
InvAfter(p, n) == IF inv >= p.price * n THEN inv - p.price * n ELSE 0

\* One take-profit per token, for what is held when it is placed.
PlaceTp(p, q) ==
    [price |-> p.price + TpTicks, size |-> p.size, filled |-> 0, queue |-> q]

\* A variant that places a take-profit for the whole quote.
PlacedWhole(t, p, q) ==
    IF Resting(tp[t]) THEN tp[t] ELSE [PlaceTp(p, q) EXCEPT !.size = Size]

Placed(t, p, q) == IF Resting(tp[t]) THEN tp[t] ELSE PlaceTp(p, q)
-----------------------------------------------------------------------------
(* Quoter.on_trade_print.  A seller can only hit our bid, a buyer only lift  *)
(* our take-profit.                                                         *)

PrintSell(t, price, n) ==
    /\ todo = {}
    /\ Resting(entry[t]) /\ price <= entry[t].price
    /\ LET o == entry[t]
           through == price < o.price
           f == FilledBy(o, through, n)
       IN  /\ entry' = [entry EXCEPT ![t] = Remains(AfterPrint(o, through, n))]
           /\ IF f = 0
              THEN UNCHANGED <<pos, tp, inv>>
              ELSE /\ pos' = [pos EXCEPT ![t] = Enlarged(@, o.price, f)]
                   /\ inv' = inv + o.price * f
                   /\ \E q \in 0 .. MaxQueue : tp' = [tp EXCEPT ![t] = Placed(t, pos'[t], q)]
    /\ UNCHANGED <<aged, todo>>

PrintBuy(t, price, n) ==
    /\ todo = {}
    /\ Resting(tp[t]) /\ price >= tp[t].price
    /\ LET o == tp[t]
           through == price > o.price
           f == FilledBy(o, through, n)
       IN  /\ tp' = [tp EXCEPT ![t] = Remains(AfterPrint(o, through, n))]
           /\ IF f = 0
              THEN UNCHANGED <<pos, inv, aged>>
              ELSE /\ pos' = [pos EXCEPT ![t] = Reduced(@, f)]
                   /\ inv' = InvAfter(pos[t], f)
                   /\ aged' = IF f = pos[t].size THEN aged \ {t} ELSE aged
    /\ UNCHANGED <<entry, todo>>
-----------------------------------------------------------------------------
(* risk_loop: check_risk, then maybe_quote, for every token.                *)

RiskPass ==
    /\ todo = {} /\ todo' = Tokens
    /\ UNCHANGED <<entry, tp, pos, inv, aged>>

\* A stale quote, or one the market has left behind, is canceled.
Withdrawn(t, bid, stale) ==
    Resting(entry[t]) /\ (stale \/ (bid # 0 /\ bid - entry[t].price > 2))

\* A variant without the time limit.
StopLossOnly(t, bid) == Long(t) /\ bid # 0 /\ bid <= pos[t].price - SlTicks

\* Stop-loss and time limit both need a bid to sell to.
MustExit(t, bid) ==
    Long(t) /\ bid # 0 /\ (bid <= pos[t].price - SlTicks \/ t \in aged)

CheckRisk(t, bid, stale) ==
    IF MustExit(t, bid)
    THEN /\ pos' = [pos EXCEPT ![t] = Reduced(@, @.size)]
         /\ tp' = [tp EXCEPT ![t] = NoOrder]
         /\ inv' = InvAfter(pos[t], pos[t].size)
         /\ aged' = aged \ {t}
    ELSE UNCHANGED <<pos, tp, inv, aged>>

Quotable(bid, ask) ==
    /\ bid # 0 /\ ask # 0
    /\ 2 * MinMid <= bid + ask /\ bid + ask <= 2 * MaxMid
    /\ ask - bid >= MinSpread

\* Improve the bid by a tick, or join it if that would cross.
QuotePrice(bid, ask) == IF bid + 1 < ask THEN bid + 1 ELSE bid
QueueAt(price, bid)  == IF price = bid THEN 1 .. MaxQueue ELSE {0}

\* maybe_quote quotes a token that has neither a position nor a quote.  A
\* variant looks at the quote only.
MayQuoteAnyway(t, e) == ~Resting(e)
MayQuote(t, e)       == pos'[t].size = 0 /\ ~Resting(e)

MaybeQuote(t, e, bid, ask) ==
    IF MayQuote(t, e) /\ Quotable(bid, ask) /\ inv' < MaxInv
    THEN LET price == QuotePrice(bid, ask) IN
         \E q \in QueueAt(price, bid) :
             entry' = [entry EXCEPT ![t] =
                 [price |-> price, size |-> Size, filled |-> 0, queue |-> q]]
    ELSE entry' = [entry EXCEPT ![t] = e]

RiskToken(t, bid, ask, stale) ==
    /\ t \in todo
    /\ CheckRisk(t, bid, stale)
    /\ MaybeQuote(t, IF Withdrawn(t, bid, stale) THEN NoOrder ELSE entry[t], bid, ask)
    /\ todo' = todo \ {t}

\* The position's time limit passes.
Age(t) ==
    /\ Long(t) /\ t \notin aged
    /\ aged' = aged \union {t}
    /\ UNCHANGED <<entry, tp, pos, inv, todo>>
-----------------------------------------------------------------------------
\* The sides of a book: either may be empty, and they never cross.
Books == {b \in (Prices \union {0}) \X (Prices \union {0}) : b[1] = 0 \/ b[2] = 0 \/ b[1] < b[2]}

Prints == \E t \in Tokens, price \in Prices, n \in 1 .. MaxPrint :
             PrintSell(t, price, n) \/ PrintBuy(t, price, n)
VisitOn(t, books) == \E b \in books, stale \in BOOLEAN : RiskToken(t, b[1], b[2], stale)
Visits == \E t \in Tokens : VisitOn(t, Books)

Next == Prints \/ RiskPass \/ Visits \/ \E t \in Tokens : Age(t)

Spec == Init /\ [][Next]_vars

\* The loop keeps ticking, time passes, and the market shows a bid again and
\* again when a token is visited.
Fairness ==
    /\ WF_vars(RiskPass) /\ WF_vars(Visits)
    /\ \A t \in Tokens : WF_vars(Age(t)) /\ SF_vars(VisitOn(t, {b \in Books : b[1] # 0}))

FairSpec == Spec /\ Fairness
-----------------------------------------------------------------------------
(* Properties. *)

\* The shape of every variable.
OrderType == [price : Nat, size : 0 .. Size, filled : 0 .. Size, queue : 0 .. MaxQueue]
TypeOK ==
    /\ entry \in [Tokens -> OrderType]
    /\ tp \in [Tokens -> OrderType]
    /\ pos \in [Tokens -> [price : Nat, size : 0 .. Size]]
    /\ inv \in Nat
    /\ aged \subseteq {t \in Tokens : Long(t)}
    /\ todo \subseteq Tokens

\* The take-profit never offers more than is held: a fill of it always finds a
\* position to close (_on_tp_fill reads st.position unguarded).
TpNeverOversells == \A t \in Tokens : Left(tp[t]) <= pos[t].size

\* Although fills are averaged, a position is never built from two prices:
\* every fill that meets an open position comes from the order that opened it.
OneEntryPrice ==
    \A t \in Tokens : Long(t) /\ Resting(entry[t]) => pos[t].price = entry[t].price

\* MAX_INVENTORY_USD_PER_TOKEN is read by no one; what keeps a token's inventory
\* within one quote is that the position and the rest of the quote never add up
\* to more than that quote.
OneQuotePerToken == \A t \in Tokens : pos[t].size + Left(entry[t]) <= Size

\* The running total is the cost of what is held, and its floor at zero hides
\* nothing.
InventoryIsCost ==
    inv = SumFunctionOnSet([t \in Tokens |-> pos[t].price * pos[t].size], Tokens)

\* Every position is closed, by its take-profit, its stop or its time limit, even
\* one that a late entry fill left larger than its take-profit.
PositionEnds == \A t \in Tokens : Long(t) ~> ~Long(t)
=============================================================================
