----------------------------- MODULE TradingBot -----------------------------
(***************************************************************************)
(* SportsTradingBot of polymarket-bot/v2 with its Portfolio, on the paper  *)
(* executor (DRY_RUN, the default).  The bot is single-threaded: a message *)
(* handler runs to its end before the next one starts, so its steps are    *)
(* the phases of pc and nothing interleaves with them.  What overlaps is   *)
(* longer-lived: resting entries, positions, the registry that discovery   *)
(* replaces and the subscription that follows it.                          *)
(*                                                                         *)
(* One sport is modelled (bankrolls and limits are per sport).  The book   *)
(* is whatever the message leaves in it; time is the choice of what is     *)
(* old.  Money is in units chosen so that half of a locked profit is whole.*)
(***************************************************************************)
EXTENDS Integers, FiniteSets, FiniteSetsExt

CONSTANTS
    Tokens,
    Complement,   \* the other token of its market, or NoToken
    NoToken,
    Listings,     \* the token sets discovery may answer
    Prices,       \* best bids, asks and prints
    Unit,         \* what a pair of tokens pays
    Tick,
    Allocation,   \* the sport's starting bankroll
    Cap,          \* per_trade_cap_usd
    RiskDiv,      \* 1 / risk_fraction
    Fee,          \* taker fee of one share
    MinEdge,      \* arb_min_edge
    TpTicks,      \* the farthest take-profit above the entry
    StopLoss,     \* stop_loss_abs
    MaxOpen,      \* max_open_positions
    MaxEntries    \* entry orders and arbs explored (bound)

ASSUME BotAssumption ==
    /\ IsFiniteSet(Tokens) /\ NoToken \notin Tokens
    /\ Complement \in [Tokens -> Tokens \union {NoToken}]
    /\ \A t \in Tokens : Complement[t] # t
    /\ Listings \subseteq SUBSET Tokens /\ Tokens \in Listings
    /\ Tick \in Nat \ {0} /\ Unit \in Nat /\ Tick <= Unit
    /\ Prices \subseteq Tick .. (Unit - Tick)
    /\ Fee \in 0 .. Tick
    /\ Allocation \in Nat /\ Cap \in Nat /\ RiskDiv \in Nat \ {0}
    /\ MinEdge \in Nat /\ TpTicks \in Nat \ {0} /\ StopLoss \in Nat
    /\ MaxOpen \in Nat /\ MaxEntries \in Nat

VARIABLES
    registry,    \* tokens discovery found
    books,       \* tokens with a book
    feed,        \* tokens the websocket is subscribed to
    resolved,    \* tokens of resolved markets: the venue sends no more of them
    cash,        \* bankrolls[sport]
    realized,
    pos,         \* per token: the position or Flat
    entry,       \* per token: the resting BUY or NoOrder
    exit,        \* per token: the resting SELL or NoOrder
    halted,
    pc,          \* the phase of the handler: see below
    msg,         \* the message in hand, with the book it leaves
    entries,
    \* History, read by no action.
    lost         \* what overwritten positions had cost

accounts == <<cash, realized, pos, lost>>
orders == <<entry, exit>>
market == <<registry, books, feed, resolved>>
vars == <<market, accounts, orders, halted, pc, msg, entries>>

NoPrice == 0
Quotes == Prices \union {NoPrice}
NoOrder == [price |-> 0, size |-> 0]
Flat == [kind |-> "none", price |-> 0, size |-> 0, fee |-> 0, tp |-> 0,
         locked |-> 0, old |-> FALSE]
NoMsg == [token |-> NoToken, bid |-> NoPrice, ask |-> NoPrice, last |-> NoPrice]

Cost(p) == p.price * p.size + p.fee
Held == {t \in Tokens : pos[t] # Flat}
Min2(x, y) == IF x < y THEN x ELSE y
Clamp(p) == Min2(p, Unit - Tick)

Init ==
    /\ registry = {} /\ books = {} /\ feed = {} /\ resolved = {}
    /\ cash = Allocation /\ realized = 0 /\ lost = 0
    /\ pos = [t \in Tokens |-> Flat]
    /\ entry = [t \in Tokens |-> NoOrder] /\ exit = [t \in Tokens |-> NoOrder]
    /\ halted = FALSE /\ pc = "idle" /\ msg = NoMsg /\ entries = 0

-----------------------------------------------------------------------------
(* Portfolio. *)

\* open: nothing happens when the cost exceeds the bankroll; a position the
\* token already has is overwritten.  close: the proceeds come back.
CanOpen(p) == p.size > 0 /\ Cost(p) <= cash
Opened(t, p) ==
    /\ cash' = cash - Cost(p)
    /\ pos' = [pos EXCEPT ![t] = p]
    /\ lost' = lost + Cost(pos[t])
    /\ UNCHANGED realized

PnlNoFee(t, proceeds) == proceeds - pos[t].price * pos[t].size  \* mutant: no entry fee
Pnl(t, proceeds) == proceeds - Cost(pos[t])
Credited(t, proceeds) ==
    /\ cash' = cash + proceeds
    /\ realized' = realized + Pnl(t, proceeds)
    /\ pos' = [pos EXCEPT ![t] = Flat]
    /\ UNCHANGED lost

-----------------------------------------------------------------------------
(* Discovery and the websocket, between handlers. *)

\* refresh_registry: the book of a token that is gone stays while it is held.
Refresh(L) ==
    /\ pc = "idle"
    /\ registry' = L
    /\ books' = L \union (books \intersect Held)
    /\ UNCHANGED <<feed, resolved, accounts, orders, halted, pc, msg, entries>>

\* websocket_supervisor reconnects, after a drop or for a changed registry.
Connect ==
    /\ pc = "idle" /\ registry # {}
    /\ feed' = registry
    /\ UNCHANGED <<registry, books, resolved, accounts, orders, halted, pc,
                   msg, entries>>

-----------------------------------------------------------------------------
(* Messages. *)

Live(t) == pc = "idle" /\ t \in feed \ resolved

Receive(t, b, a, last) ==
    /\ msg' = [token |-> t, bid |-> b, ask |-> a, last |-> last]
    /\ pc' = "fills"
    /\ UNCHANGED <<market, accounts, orders, halted, entries>>

\* on_bbo, to its call of check_paper_fills.
Bbo(t, b, a) ==
    /\ Live(t) /\ t \in registry \intersect books
    /\ Receive(t, b, a, NoPrice)

\* last_trade_price: the registry is not asked.
TradePrint(t, b, a, last) ==
    /\ Live(t) /\ t \in books
    /\ Receive(t, b, a, last)

BuyHit(o) ==
    \/ msg.last # NoPrice /\ msg.last <= o.price
    \/ msg.ask # NoPrice /\ msg.ask <= o.price
SellHit(o) == msg.last >= o.price \/ msg.bid >= o.price
ExitHit == exit[msg.token] # NoOrder /\ SellHit(exit[msg.token])
EntryHit == entry[msg.token] # NoOrder /\ BuyHit(entry[msg.token])

\* A print ends after the fills; on_bbo goes on.
AfterFills ==
    IF msg.last = NoPrice THEN pc' = "expire" /\ UNCHANGED msg
    ELSE pc' = "idle" /\ msg' = NoMsg

\* on_fill of an exit: popped first, and dropped if the market is unknown.
FillExit ==
    LET t == msg.token
    IN  /\ pc = "fills" /\ ExitHit
        /\ exit' = [exit EXCEPT ![t] = NoOrder]
        /\ IF t \in registry /\ pos[t] # Flat
           THEN Credited(t, exit[t].price * pos[t].size)
           ELSE UNCHANGED accounts
        /\ UNCHANGED <<market, entry, halted, pc, msg, entries>>

\* on_fill of an entry: the newest order of its token, so the last looked at.
\* A position opens with its maker exit unless the bankroll is short.
MakerPosition(o, tp) ==
    [Flat EXCEPT !.kind = "maker", !.price = o.price, !.size = o.size, !.tp = tp]
Target(o, k) == Clamp(o.price + k * Tick)

FillEntryKept ==  \* mutant: a filled bid is not taken out of the orders
    LET t == msg.token
        o == entry[t]
    IN  /\ pc = "fills" /\ EntryHit /\ ~ ExitHit
        /\ \E k \in 1 .. TpTicks :
             LET p == MakerPosition(o, Target(o, k))
             IN  IF t \in registry /\ CanOpen(p)
                 THEN /\ Opened(t, p)
                      /\ exit' = [exit EXCEPT ![t] = [price |-> p.tp, size |-> p.size]]
                 ELSE UNCHANGED <<accounts, exit>>
        /\ AfterFills
        /\ UNCHANGED <<market, entry, halted, entries>>
FillEntry ==
    LET t == msg.token
        o == entry[t]
    IN  /\ pc = "fills" /\ EntryHit /\ ~ ExitHit
        /\ entry' = [entry EXCEPT ![t] = NoOrder]
        /\ \E k \in 1 .. TpTicks :
             LET p == MakerPosition(o, Target(o, k))
             IN  IF t \in registry /\ CanOpen(p)
                 THEN /\ Opened(t, p)
                      /\ exit' = [exit EXCEPT ![t] = [price |-> p.tp, size |-> p.size]]
                 ELSE UNCHANGED <<accounts, exit>>
        /\ AfterFills
        /\ UNCHANGED <<market, halted, entries>>

NoFill ==
    /\ pc = "fills" /\ ~ ExitHit /\ ~ EntryHit
    /\ AfterFills
    /\ UNCHANGED <<market, accounts, orders, halted, entries>>

\* expire_orders: the entries past their ttl, of every token.
Expire ==
    /\ pc = "expire"
    /\ \E S \in SUBSET {t \in Tokens : entry[t] # NoOrder} :
         entry' = [t \in Tokens |-> IF t \in S THEN NoOrder ELSE entry[t]]
    /\ pc' = "decide"
    /\ UNCHANGED <<market, accounts, exit, halted, msg, entries>>

-----------------------------------------------------------------------------
(* evaluate_exit and evaluate_entry. *)

Decided == pc' = "idle" /\ msg' = NoMsg

\* taker_out cancels the maker exit, then sells at the bid for a fee.
TakerOutOnly ==  \* mutant: the maker exit is not cancelled
    /\ Credited(msg.token, (msg.bid - Fee) * pos[msg.token].size)
    /\ UNCHANGED exit
TakerOut ==
    LET t == msg.token
    IN  /\ exit' = [exit EXCEPT ![t] = NoOrder]
        /\ Credited(t, (msg.bid - Fee) * pos[t].size)

ExitingUnpriced ==  \* mutant: sold without a bid
    /\ pc = "decide" /\ pos[msg.token].kind = "maker"
Exiting ==
    /\ pc = "decide"
    /\ pos[msg.token].kind = "maker" /\ msg.bid # NoPrice
Stopped == msg.bid <= pos[msg.token].price - StopLoss
MustLeaveStop == Stopped  \* mutant: no longest hold
MustLeave == Stopped \/ pos[msg.token].old

\* The stop, the longest hold, or the end of the match.
Leave ==
    /\ Exiting
    /\ TakerOut /\ Decided
    /\ UNCHANGED <<market, entry, halted, entries>>

\* In profit and past maker_exit_timeout, the exit still resting.
LeaveInProfit ==
    /\ Exiting /\ ~ MustLeave /\ exit[msg.token] # NoOrder
    /\ msg.bid >= pos[msg.token].price + Tick
    /\ TakerOut /\ Decided
    /\ UNCHANGED <<market, entry, halted, entries>>

RestoreExit ==
    LET t == msg.token
    IN  /\ Exiting /\ ~ MustLeave /\ exit[t] = NoOrder
        /\ exit' = [exit EXCEPT ![t] = [price |-> pos[t].tp, size |-> pos[t].size]]
        /\ Decided
        /\ UNCHANGED <<market, accounts, entry, halted, entries>>

\* Nothing to do: no bid, an arb leg, an exit at work, no signal, halted.
Wait ==
    /\ pc = "decide"
    /\ Exiting => ~ MustLeave /\ exit[msg.token] # NoOrder
    /\ Decided
    /\ UNCHANGED <<market, accounts, orders, halted, entries>>

Exposed(t) == t \in Held \/ Complement[t] \in Held
Notional == Min2(Cap, cash \div RiskDiv)

Entering ==
    LET t == msg.token
    IN  /\ pc = "decide" /\ pos[t] = Flat /\ ~ halted /\ entries < MaxEntries
        /\ msg.bid # NoPrice /\ msg.ask # NoPrice /\ msg.bid < msg.ask
        /\ ~ Exposed(t) /\ entry[t] = NoOrder
        /\ Cardinality(Held) < MaxOpen

\* try_scalp and try_fade: a bid at the best bid, or a tick inside the spread.
QuotePrices == {msg.bid} \union {p \in Prices : p = msg.bid + Tick /\ p < msg.ask - Tick}

RestBuy(p) ==
    /\ Entering /\ Notional \div p > 0
    /\ p \in QuotePrices
    /\ entry' = [entry EXCEPT ![msg.token] = [price |-> p, size |-> Notional \div p]]
    /\ entries' = entries + 1
    /\ Decided
    /\ UNCHANGED <<market, accounts, exit, halted>>

\* try_complement_arb: both asks are taken, the complement's as last seen.
\* The complement's leg is opened only if it is registered.
ArbLeg(p, n, locked) ==
    [Flat EXCEPT !.kind = "arb", !.price = p, !.size = n, !.fee = Fee * n,
                 !.locked = locked]
LegLocked(a, n) == (n * (Unit - msg.ask - a - 2 * Fee)) \div 2

Arb(a, n) ==
    LET t == msg.token
        c == Complement[t]
        near == ArbLeg(msg.ask, n, LegLocked(a, n))
        far == ArbLeg(a, n, LegLocked(a, n))
        opensNear == CanOpen(near)
        opensFar == c \in registry
                    /\ Cost(far) <= cash - (IF opensNear THEN Cost(near) ELSE 0)
    IN  /\ Entering /\ c \in books
        /\ Unit - msg.ask - a - 2 * Fee >= MinEdge
        /\ n <= Notional \div (msg.ask + a)
        /\ pos' = [pos EXCEPT ![t] = IF opensNear THEN near ELSE @,
                              ![c] = IF opensFar THEN far ELSE @]
        /\ cash' = cash - (IF opensNear THEN Cost(near) ELSE 0)
                        - (IF opensFar THEN Cost(far) ELSE 0)
        /\ entries' = entries + 1
        /\ Decided
        /\ UNCHANGED <<market, realized, lost, orders, halted>>

-----------------------------------------------------------------------------
(* on_resolved, the halt, time and the end of the session. *)

\* The message names every token of the market.  An arb leg closes at its
\* locked profit, any other at the last bid or at its entry price.  Resting
\* orders stay in the dictionary.
Payback(t, b) ==
    LET p == pos[t]
    IN  IF p.kind = "arb" THEN p.price * p.size + p.locked
        ELSE (IF b = NoPrice THEN p.price ELSE b) * p.size

MarketOf(t) == {t, Complement[t]} \intersect Tokens
\* What f gives for the tokens of t's market that are held.
OfMarket(t, f) ==
    (IF t \in Held THEN f[t] ELSE 0)
    + (IF Complement[t] \in Held THEN f[Complement[t]] ELSE 0)

Resolve(t) ==
    /\ Live(t)
    /\ resolved' = resolved \union MarketOf(t)
    /\ \E b \in [Tokens -> Quotes] :
         /\ cash' = cash + OfMarket(t, [u \in Tokens |-> Payback(u, b[u])])
         /\ realized' =
              realized + OfMarket(t, [u \in Tokens |-> Pnl(u, Payback(u, b[u]))])
    /\ pos' = [u \in Tokens |-> IF u \in MarketOf(t) THEN Flat ELSE pos[u]]
    /\ UNCHANGED <<registry, books, feed, lost, orders, halted, pc, msg, entries>>

\* The kill file, the drawdown or the profit lock: latched, entries cancelled.
HaltOnly ==  \* mutant: the entries keep resting
    /\ pc = "idle" /\ ~ halted
    /\ halted' = TRUE
    /\ UNCHANGED <<market, accounts, orders, pc, msg, entries>>
Halt ==
    /\ pc = "idle" /\ ~ halted
    /\ halted' = TRUE
    /\ entry' = [t \in Tokens |-> NoOrder]
    /\ UNCHANGED <<market, accounts, exit, pc, msg, entries>>

Age(t) ==
    /\ pc = "idle" /\ pos[t].kind = "maker" /\ ~ pos[t].old
    /\ pos' = [pos EXCEPT ![t].old = TRUE]
    /\ UNCHANGED <<market, cash, realized, lost, orders, halted, pc, msg, entries>>

Shutdown ==
    /\ pc = "idle"
    /\ pc' = "stopped"
    /\ entry' = [t \in Tokens |-> NoOrder] /\ exit' = [t \in Tokens |-> NoOrder]
    /\ UNCHANGED <<market, accounts, halted, msg, entries>>

Fills == FillExit \/ FillEntry \/ NoFill
Decide ==
    \/ Leave \/ LeaveInProfit \/ RestoreExit \/ Wait
    \/ \E p \in Prices : RestBuy(p)
    \/ \E a \in Prices, n \in 1 .. Cap : Arb(a, n)
Handler == Fills \/ Expire \/ Decide

Message(t) == \E b, a \in Quotes :
    Bbo(t, b, a) \/ \E last \in Prices : TradePrint(t, b, a, last)

Next ==
    \/ Handler
    \/ \E t \in Tokens : Message(t) \/ Resolve(t) \/ Age(t)
    \/ \E L \in Listings : Refresh(L)
    \/ Connect \/ Halt \/ Shutdown

Spec == Init /\ [][Next]_vars

\* A handler runs to its end, time passes, and a token that stays listed and
\* subscribed is quoted with a bid again and again.
Quoted(t) == \E b \in Prices, a \in Quotes : Bbo(t, b, a)
Fairness ==
    /\ WF_vars(Handler)
    /\ \A t \in Tokens : SF_vars(Age(t)) /\ SF_vars(Quoted(t))
FairSpec == Spec /\ Fairness

-----------------------------------------------------------------------------
(* Properties. *)

Order == [price : Nat, size : Nat]
TypeOK ==
    /\ registry \subseteq Tokens /\ books \subseteq Tokens
    /\ feed \subseteq Tokens /\ resolved \subseteq Tokens
    /\ cash \in Nat /\ realized \in Int /\ lost \in Nat
    /\ pos \in [Tokens -> [kind : {"none", "maker", "arb"}, price : Nat, size : Nat,
                           fee : Nat, tp : Nat, locked : Nat, old : BOOLEAN]]
    /\ entry \in [Tokens -> Order] /\ exit \in [Tokens -> Order]
    /\ halted \in BOOLEAN /\ entries \in 0 .. MaxEntries
    /\ pc \in {"idle", "fills", "expire", "decide", "stopped"}
    /\ msg \in [token : Tokens \union {NoToken}, bid : Quotes, ask : Quotes,
                last : Quotes]
    /\ pc \in {"fills", "expire", "decide"} => msg.token \in Tokens

\* Bankroll and open positions add up to the allocation and the realized pnl
\* through partial fills of a pair, taker exits and resolutions; only what an
\* overwritten position had cost is gone (trading_bot.py:469-509).
CashAccounted ==
    cash + SumFunctionOnSet([t \in Tokens |-> Cost(pos[t])], Held) + lost
        = Allocation + realized

\* Until its market resolves, a resting exit sells the position that is held,
\* all of it and no more (trading_bot.py:939-954, 1125-1146): never one that a
\* taker exit, a fill or a newer entry has replaced.
NoOrphanExit ==
    \A t \in Tokens \ resolved :
        exit[t] # NoOrder => pos[t].kind = "maker" /\ pos[t].size = exit[t].size

\* A halted bot opens nothing, neither by a new entry nor by one that rested
\* when it halted (trading_bot.py:880, 1177-1185).
HaltOpensNothing ==
    [][\A t \in Tokens : halted /\ pos[t] = Flat => pos'[t] = Flat]_vars

\* Of all positions only an arb leg is ever overwritten (trading_bot.py:485):
\* entries, exits and fills of one token never leave a bid behind that would
\* buy a second maker position over the first.
OnlyArbOverwritten ==
    [][lost' # lost => pos[msg.token].kind = "arb"]_vars

\* While its token stays listed and subscribed a maker position ends: by its
\* exit, its stop or the longest hold (trading_bot.py:1136-1147).
MakerEnds ==
    \A t \in Tokens :
        pos[t].kind = "maker" ~>
            pos[t].kind # "maker" \/ t \notin registry \intersect feed \/ pc = "stopped"

\* "arb pairs settle at resolution" (trading_bot.py:1118): the leg of an arb
\* stays as it was bought until its market resolves.
ArbSettlesAtResolution ==
    [][\A t \in Tokens :
          pos[t].kind = "arb" /\ pos'[t] # pos[t] => t \in resolved']_vars
=============================================================================
