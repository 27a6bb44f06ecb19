-------------------------- MODULE TradingBotProofs --------------------------
(* Theorems of TradingBot, for every value of its constants. *)
EXTENDS TradingBot, SumLemmas

(* The inductive invariant. *)

\* A position of no kind is the empty one.
NoneIsFlat == \A t \in Tokens : pos[t].kind = "none" => pos[t] = Flat
\* No bid rests on a token with a maker position.
BidsOffMakers == \A t \in Tokens : entry[t] # NoOrder => pos[t].kind # "maker"
\* No bid rests once the bot has halted.
HaltedQuiet == halted => \A t \in Tokens : entry[t] = NoOrder

IInv == TypeOK /\ NoneIsFlat /\ BidsOffMakers /\ HaltedQuiet /\ NoOrphanExit

Positions == [kind : {"none", "maker", "arb"}, price : Nat, size : Nat,
              fee : Nat, tp : Nat, locked : Nat, old : BOOLEAN]

-----------------------------------------------------------------------------
(* Lemmas. *)

LEMMA Product ==
    ASSUME NEW x \in Nat, NEW y \in Nat
    PROVE  x * y \in Nat
BY SMT

LEMMA QuoteRange ==
    /\ \A p \in Prices : p \in Nat /\ p > 0 /\ p >= Fee
    /\ Quotes \subseteq Nat
    /\ Fee \in Nat
BY SMT, BotAssumption DEF Quotes, NoPrice

LEMMA FlatTyped == Flat \in Positions /\ Cost(Flat) = 0 /\ NoOrder \in Order
BY SMT DEF Flat, Positions, Cost, NoOrder, Order

LEMMA CostNat ==
    ASSUME NEW p \in Positions
    PROVE  Cost(p) \in Nat
<1>1. p.price \in Nat /\ p.size \in Nat /\ p.fee \in Nat
  BY DEF Positions
<1>2. p.price * p.size \in Nat
  BY <1>1, Product
<1> QED BY SMT, <1>1, <1>2 DEF Cost

LEMMA NoneIsFree ==
    ASSUME IInv, NEW t \in Tokens, pos[t].kind = "none"
    PROVE  pos[t] = Flat /\ Cost(pos[t]) = 0
BY FlatTyped DEF IInv, NoneIsFlat

LEMMA KindOf ==
    ASSUME IInv, NEW t \in Tokens
    PROVE  /\ pos[t] \in Positions
           /\ pos[t].kind \in {"none", "maker", "arb"}
           /\ pos[t] # Flat => pos[t].kind \in {"maker", "arb"}
           /\ entry[t] \in Order /\ exit[t] \in Order
<1>1. pos[t] \in Positions
  BY DEF IInv, TypeOK, Positions
<1>2. pos[t].kind \in {"none", "maker", "arb"}
  BY <1>1 DEF Positions
<1>3. entry[t] \in Order /\ exit[t] \in Order
  BY DEF IInv, TypeOK
<1> QED BY <1>1, <1>2, <1>3 DEF IInv, NoneIsFlat

-----------------------------------------------------------------------------
(* The invariant is inductive. *)

LEMMA InitIInv == Init => IInv
<1> SUFFICES ASSUME Init PROVE IInv
  OBVIOUS
<1>1. pos \in [Tokens -> Positions] /\ entry \in [Tokens -> Order]
      /\ exit \in [Tokens -> Order]
  BY FlatTyped DEF Init
<1>2. cash \in Nat /\ realized \in Int /\ lost \in Nat /\ entries \in 0 .. MaxEntries
  BY SMT, BotAssumption DEF Init
<1>3. msg \in [token : Tokens \union {NoToken}, bid : Quotes, ask : Quotes, last : Quotes]
  BY DEF Init, NoMsg, Quotes
<1>4. TypeOK
  BY <1>1, <1>2, <1>3 DEF TypeOK, Positions, Init
<1>5. NoneIsFlat /\ BidsOffMakers /\ HaltedQuiet /\ NoOrphanExit
  BY DEF Init, NoneIsFlat, BidsOffMakers, HaltedQuiet, NoOrphanExit
<1> QED BY <1>4, <1>5 DEF IInv

\* Selling what token t holds.
LEMMA CreditedKeeps ==
    ASSUME IInv, NEW t \in Tokens, NEW g \in Nat, Credited(t, g)
    PROVE  /\ cash' \in Nat /\ realized' \in Int /\ lost' = lost
           /\ pos' \in [Tokens -> Positions] /\ pos'[t] = Flat
           /\ \A u \in Tokens : pos'[u] = pos[u] \/ pos'[u] = Flat
<1>1. Cost(pos[t]) \in Nat
  BY KindOf, CostNat
<1>2. cash' = cash + g /\ realized' = realized + (g - Cost(pos[t]))
  BY DEF Credited, Pnl
<1>3. cash \in Nat /\ realized \in Int
  BY DEF IInv, TypeOK
<1>4. cash' \in Nat /\ realized' \in Int
  BY SMT, <1>1, <1>2, <1>3
<1>5. pos \in [Tokens -> Positions]
  BY DEF IInv, TypeOK, Positions
<1>6. pos' = [pos EXCEPT ![t] = Flat] /\ lost' = lost
  BY DEF Credited
<1> QED BY <1>4, <1>5, <1>6, FlatTyped

\* Buying position p for token t.
LEMMA OpenedKeeps ==
    ASSUME IInv, NEW t \in Tokens, NEW p \in Positions, CanOpen(p), Opened(t, p)
    PROVE  /\ cash' \in Nat /\ realized' \in Int /\ lost' \in Nat
           /\ pos' \in [Tokens -> Positions] /\ pos' = [pos EXCEPT ![t] = p]
           /\ lost' = lost + Cost(pos[t])
<1>1. Cost(p) \in Nat /\ Cost(pos[t]) \in Nat
  BY KindOf, CostNat
<1>2. /\ cash' = cash - Cost(p) /\ lost' = lost + Cost(pos[t]) /\ realized' = realized
      /\ Cost(p) <= cash
  BY DEF Opened, CanOpen
<1>3. cash \in Nat /\ realized \in Int /\ lost \in Nat
  BY DEF IInv, TypeOK
<1>4. cash' \in Nat /\ realized' \in Int /\ lost' \in Nat
  BY SMT, <1>1, <1>2, <1>3
<1>5. pos' = [pos EXCEPT ![t] = p] /\ pos \in [Tokens -> Positions]
  BY DEF Opened, IInv, TypeOK, Positions
<1> QED BY <1>2, <1>4, <1>5

\* A step that leaves positions and orders alone keeps all but the types.
LEMMA SameOrders ==
    ASSUME IInv, TypeOK', UNCHANGED <<pos, orders, halted>>, resolved \subseteq resolved'
    PROVE  IInv'
BY DEF IInv, NoneIsFlat, BidsOffMakers, HaltedQuiet, NoOrphanExit, orders

LEMMA MarketSteps ==
    ASSUME IInv, (\E L \in Listings : Refresh(L)) \/ Connect
    PROVE  IInv'
<1>1. /\ registry' \subseteq Tokens /\ books' \subseteq Tokens /\ feed' \subseteq Tokens
      /\ resolved' = resolved
  BY BotAssumption DEF Refresh, Connect, IInv, TypeOK
<1>2. UNCHANGED <<accounts, orders, halted, pc, msg, entries>>
  BY DEF Refresh, Connect
<1>3. TypeOK'
  BY <1>1, <1>2 DEF IInv, TypeOK, accounts, orders
<1> QED BY <1>1, <1>2, <1>3, SameOrders DEF accounts

LEMMA MessageSteps ==
    ASSUME IInv, NEW t \in Tokens, Message(t)
    PROVE  IInv'
<1>1. PICK b \in Quotes, a \in Quotes, l \in Quotes : Receive(t, b, a, l)
  <2>1. NoPrice \in Quotes /\ Prices \subseteq Quotes
    BY DEF Quotes
  <2> QED BY <2>1 DEF Message, Bbo, TradePrint
<1>2. /\ msg' = [token |-> t, bid |-> b, ask |-> a, last |-> l] /\ pc' = "fills"
      /\ UNCHANGED <<market, accounts, orders, halted, entries>>
  BY <1>1 DEF Receive
<1>3. TypeOK'
  BY <1>2 DEF IInv, TypeOK, market, accounts, orders
<1> QED BY <1>2, <1>3, SameOrders DEF accounts, market

\* The fields of the order in hand, and of the message.
LEMMA InHand ==
    ASSUME IInv, pc \in {"fills", "expire", "decide"}
    PROVE  /\ msg.token \in Tokens /\ msg.bid \in Quotes /\ msg.ask \in Quotes
           /\ NoMsg \in [token : Tokens \union {NoToken}, bid : Quotes, ask : Quotes,
                        last : Quotes]
BY DEF IInv, TypeOK, NoMsg, Quotes

\* The message after the fills, or after the decision.
LEMMA MsgTyped ==
    ASSUME IInv, pc \in {"fills", "expire", "decide"}, AfterFills \/ Decided
    PROVE  /\ pc' \in {"idle", "expire"}
           /\ msg' \in [token : Tokens \union {NoToken}, bid : Quotes, ask : Quotes,
                       last : Quotes]
           /\ pc' = "expire" => msg'.token \in Tokens
BY InHand DEF AfterFills, Decided, IInv, TypeOK

LEMMA FillExitKeeps == ASSUME IInv, FillExit PROVE IInv'
<1> DEFINE t == msg.token
<1>1. /\ t \in Tokens /\ exit' = [exit EXCEPT ![t] = NoOrder]
      /\ UNCHANGED <<market, entry, halted, pc, msg, entries>>
  BY InHand DEF FillExit
<1>2. /\ cash' \in Nat /\ realized' \in Int /\ lost' \in Nat
      /\ pos' \in [Tokens -> Positions]
      /\ \A u \in Tokens \ {t} : pos'[u] = pos[u]
      /\ pos'[t] = pos[t] \/ pos'[t] = Flat
  <2>1. CASE Credited(t, exit[t].price * pos[t].size)
    <3>1. exit[t].price * pos[t].size \in Nat
      BY <1>1, KindOf, Product DEF Order, Positions
    <3>2. pos' = [pos EXCEPT ![t] = Flat] /\ lost \in Nat
      BY <2>1 DEF Credited, IInv, TypeOK
    <3>3. pos \in [Tokens -> Positions]
      BY DEF IInv, TypeOK, Positions
    <3> QED BY <1>1, <2>1, <3>1, <3>2, <3>3, CreditedKeeps
  <2>2. CASE UNCHANGED accounts
    BY <2>2 DEF accounts, IInv, TypeOK, Positions
  <2> QED BY <2>1, <2>2 DEF FillExit
<1> HIDE DEF t
<1>3. exit \in [Tokens -> Order] /\ exit' \in [Tokens -> Order]
  BY <1>1, FlatTyped DEF IInv, TypeOK
<1>4. TypeOK'
  BY <1>1, <1>2, <1>3 DEF IInv, TypeOK, market, Positions
<1>5. NoneIsFlat' /\ BidsOffMakers' /\ HaltedQuiet'
  <2>1. Flat.kind = "none"
    BY DEF Flat
  <2> QED BY <1>1, <1>2, <2>1 DEF IInv, NoneIsFlat, BidsOffMakers, HaltedQuiet
<1>6. NoOrphanExit'
  BY <1>1, <1>2, <1>3 DEF IInv, NoOrphanExit, market
<1> QED BY <1>4, <1>5, <1>6 DEF IInv

\* The position a filled bid opens.
LEMMA MakerTyped ==
    ASSUME NEW o \in Order, NEW k \in Nat
    PROVE  /\ MakerPosition(o, Target(o, k)) \in Positions
           /\ MakerPosition(o, Target(o, k)).kind = "maker"
           /\ MakerPosition(o, Target(o, k)).size = o.size
           /\ MakerPosition(o, Target(o, k)).tp \in Nat
<1>1. o.price \in Nat /\ o.size \in Nat /\ k * Tick \in Nat
  BY SMT, BotAssumption, Product DEF Order
<1>2. Target(o, k) \in Nat
  BY SMT, <1>1, BotAssumption DEF Target, Clamp, Min2
<1> QED BY <1>1, <1>2 DEF MakerPosition, Positions, Flat

LEMMA FillEntryKeeps == ASSUME IInv, FillEntry PROVE IInv'
<1> DEFINE t == msg.token
           o == entry[t]
<1>1. /\ t \in Tokens /\ entry' = [entry EXCEPT ![t] = NoOrder]
      /\ o # NoOrder /\ AfterFills /\ UNCHANGED <<market, halted, entries>>
  BY InHand DEF FillEntry, EntryHit
<1>2. PICK k \in 1 .. TpTicks :
        LET p == MakerPosition(o, Target(o, k))
        IN  IF t \in registry /\ CanOpen(p)
            THEN Opened(t, p) /\ exit' = [exit EXCEPT ![t] = [price |-> p.tp, size |-> p.size]]
            ELSE UNCHANGED <<accounts, exit>>
  BY DEF FillEntry
<1> DEFINE p == MakerPosition(o, Target(o, k))
<1>3. /\ p \in Positions /\ p.kind = "maker" /\ p.tp \in Nat /\ p.size \in Nat
  <2>1. o \in Order /\ o.size \in Nat /\ k \in Nat
    BY <1>1, KindOf, BotAssumption DEF Order
  <2> QED BY <2>1, MakerTyped
<1>4. \/ /\ CanOpen(p) /\ Opened(t, p)
         /\ exit' = [exit EXCEPT ![t] = [price |-> p.tp, size |-> p.size]]
      \/ UNCHANGED <<accounts, exit>>
  BY <1>2
<1>5. pos \in [Tokens -> Positions] /\ exit \in [Tokens -> Order]
      /\ entry \in [Tokens -> Order] /\ entry' \in [Tokens -> Order]
  BY <1>1, FlatTyped DEF IInv, TypeOK, Positions
<1> HIDE DEF t, p
<1>6. /\ cash' \in Nat /\ realized' \in Int /\ lost' \in Nat
      /\ pos' \in [Tokens -> Positions] /\ exit' \in [Tokens -> Order]
      /\ \A u \in Tokens \ {t} : pos'[u] = pos[u] /\ exit'[u] = exit[u]
      /\ \/ pos'[t] = pos[t] /\ exit'[t] = exit[t]
         \/ pos'[t] = p /\ exit'[t] = [price |-> p.tp, size |-> p.size]
  <2>1. CASE /\ CanOpen(p) /\ Opened(t, p)
             /\ exit' = [exit EXCEPT ![t] = [price |-> p.tp, size |-> p.size]]
    <3>1. [price |-> p.tp, size |-> p.size] \in Order
      BY <1>3 DEF Order
    <3>2. /\ cash' \in Nat /\ realized' \in Int /\ lost' \in Nat
          /\ pos' = [pos EXCEPT ![t] = p]
      BY <1>1, <1>3, <2>1, OpenedKeeps
    <3> QED BY <1>1, <1>3, <1>5, <2>1, <3>1, <3>2
  <2>2. CASE UNCHANGED <<accounts, exit>>
    BY <2>2, <1>5 DEF accounts, IInv, TypeOK
  <2> QED BY <1>4, <2>1, <2>2
<1>7. TypeOK'
  <2>1. /\ pc' \in {"idle", "expire"}
        /\ pc' = "expire" => msg'.token \in Tokens
        /\ msg' \in [token : Tokens \union {NoToken}, bid : Quotes, ask : Quotes,
                     last : Quotes]
    BY <1>1, MsgTyped DEF FillEntry
  <2>2. /\ pc' \in {"idle", "fills", "expire", "decide", "stopped"}
        /\ pc' \in {"fills", "expire", "decide"} => msg'.token \in Tokens
    BY <2>1
  <2>3. /\ registry' \subseteq Tokens /\ books' \subseteq Tokens
        /\ feed' \subseteq Tokens /\ resolved' \subseteq Tokens
        /\ halted' \in BOOLEAN /\ entries' \in 0 .. MaxEntries
    BY <1>1 DEF IInv, TypeOK, market
  <2> QED BY <1>5, <1>6, <2>1, <2>2, <2>3 DEF TypeOK, Positions
<1>8. NoneIsFlat' /\ BidsOffMakers' /\ HaltedQuiet'
  BY <1>1, <1>3, <1>5, <1>6 DEF IInv, NoneIsFlat, BidsOffMakers, HaltedQuiet
<1>9. NoOrphanExit'
  BY <1>1, <1>3, <1>6 DEF IInv, NoOrphanExit, market
<1> QED BY <1>7, <1>8, <1>9 DEF IInv

LEMMA QuietSteps ==
    ASSUME IInv, NoFill \/ Expire \/ Wait \/ Shutdown \/ Halt
    PROVE  IInv'
<1>1. /\ UNCHANGED <<market, accounts, entries>>
      /\ exit' = exit \/ exit' = [t \in Tokens |-> NoOrder]
      /\ entry' \in [Tokens -> Order]
      /\ \A t \in Tokens : entry'[t] \in {entry[t], NoOrder}
      /\ halted' = halted \/ \A t \in Tokens : entry'[t] = NoOrder
      /\ halted' \in BOOLEAN
  <2>1. entry \in [Tokens -> Order] /\ halted \in BOOLEAN
    BY DEF IInv, TypeOK
  <2>2. CASE NoFill \/ Wait
    BY <2>1, <2>2 DEF NoFill, Wait, orders
  <2>3. CASE Expire
    BY <2>1, <2>3, FlatTyped DEF Expire
  <2>4. CASE Shutdown
    BY <2>1, <2>4, FlatTyped DEF Shutdown
  <2>5. CASE Halt
    BY <2>1, <2>5, FlatTyped DEF Halt
  <2> QED BY <2>2, <2>3, <2>4, <2>5
<1>2. /\ pc' \in {"idle", "expire", "decide", "stopped"}
      /\ msg' \in [token : Tokens \union {NoToken}, bid : Quotes, ask : Quotes, last : Quotes]
      /\ pc' \in {"expire", "decide"} => msg'.token \in Tokens
  <2>1. CASE NoFill \/ Wait
    BY <2>1, MsgTyped DEF NoFill, Wait
  <2>2. CASE Expire \/ Shutdown \/ Halt
    BY <2>2 DEF Expire, Shutdown, Halt, IInv, TypeOK
  <2> QED BY <2>1, <2>2
<1>3. TypeOK'
  BY <1>1, <1>2, FlatTyped DEF IInv, TypeOK, market, accounts
<1>4. NoneIsFlat' /\ BidsOffMakers' /\ HaltedQuiet' /\ NoOrphanExit'
  BY <1>1 DEF IInv, NoneIsFlat, BidsOffMakers, HaltedQuiet, NoOrphanExit, market, accounts
<1> QED BY <1>3, <1>4 DEF IInv

-----------------------------------------------------------------------------
(* Decisions. *)

\* What every decision leaves alone.
LEMMA DecidedTyped ==
    ASSUME IInv, pc = "decide", Decided, UNCHANGED <<market, halted>>,
           entries' \in 0 .. MaxEntries, cash' \in Nat, realized' \in Int, lost' \in Nat,
           pos' \in [Tokens -> Positions], entry' \in [Tokens -> Order],
           exit' \in [Tokens -> Order]
    PROVE  TypeOK'
<1>1. /\ pc' = "idle"
      /\ msg' \in [token : Tokens \union {NoToken}, bid : Quotes, ask : Quotes,
                   last : Quotes]
  BY MsgTyped DEF Decided
<1>2. /\ registry' \subseteq Tokens /\ books' \subseteq Tokens
      /\ feed' \subseteq Tokens /\ resolved' \subseteq Tokens
      /\ halted' \in BOOLEAN
  BY DEF IInv, TypeOK, market
<1> QED BY <1>1, <1>2 DEF TypeOK, Positions

LEMMA ExitSteps ==
    ASSUME IInv, Leave \/ LeaveInProfit
    PROVE  IInv'
<1> DEFINE t == msg.token
           g == (msg.bid - Fee) * pos[t].size
<1>1. /\ Exiting /\ TakerOut /\ Decided /\ UNCHANGED <<market, entry, halted, entries>>
  BY DEF Leave, LeaveInProfit
<1>2. t \in Tokens /\ msg.bid \in Prices /\ pc = "decide"
  BY <1>1, InHand DEF Exiting, Quotes
<1>3. exit' = [exit EXCEPT ![t] = NoOrder] /\ Credited(t, g)
  BY <1>1 DEF TakerOut
<1>4. g \in Nat
  <2>1. msg.bid - Fee \in Nat
    BY SMT, <1>2, QuoteRange
  <2>2. pos[t].size \in Nat
    BY <1>2, KindOf DEF Positions
  <2> QED BY <2>1, <2>2, Product
<1> HIDE DEF g
<1>5. /\ cash' \in Nat /\ realized' \in Int /\ lost' = lost
      /\ pos' \in [Tokens -> Positions] /\ pos'[t] = Flat
      /\ \A u \in Tokens : pos'[u] = pos[u] \/ pos'[u] = Flat
  BY <1>2, <1>3, <1>4, CreditedKeeps
<1>6. \A u \in Tokens \ {t} : pos'[u] = pos[u]
  BY <1>3 DEF Credited, IInv, TypeOK
<1>7. /\ exit \in [Tokens -> Order] /\ exit' \in [Tokens -> Order]
      /\ entry' \in [Tokens -> Order] /\ lost \in Nat /\ entries' \in 0 .. MaxEntries
  BY <1>1, <1>2, <1>3, FlatTyped DEF IInv, TypeOK
<1>8. TypeOK'
  BY <1>1, <1>2, <1>5, <1>7, DecidedTyped
<1> HIDE DEF t
<1>9. NoneIsFlat' /\ BidsOffMakers' /\ HaltedQuiet'
  <2>1. Flat.kind = "none"
    BY DEF Flat
  <2> QED BY <1>1, <1>5, <2>1 DEF IInv, NoneIsFlat, BidsOffMakers, HaltedQuiet
<1>10. NoOrphanExit'
  BY <1>1, <1>2, <1>3, <1>6, <1>7 DEF IInv, NoOrphanExit, market
<1> QED BY <1>8, <1>9, <1>10 DEF IInv

LEMMA RestoreKeeps == ASSUME IInv, RestoreExit PROVE IInv'
<1> DEFINE t == msg.token
           e == [price |-> pos[t].tp, size |-> pos[t].size]
<1>1. /\ pos[t].kind = "maker" /\ pc = "decide" /\ exit' = [exit EXCEPT ![t] = e]
      /\ Decided /\ UNCHANGED <<market, accounts, entry, halted, entries>>
  BY DEF RestoreExit, Exiting
<1>2. t \in Tokens
  BY <1>1, InHand
<1>3. e \in Order /\ e.size = pos[t].size
  BY <1>2, KindOf DEF Positions, Order
<1> HIDE DEF t, e
<1>4. /\ exit \in [Tokens -> Order] /\ exit' \in [Tokens -> Order]
      /\ exit'[t] = e /\ \A u \in Tokens \ {t} : exit'[u] = exit[u]
  BY <1>1, <1>2, <1>3 DEF IInv, TypeOK
<1>5. /\ cash' \in Nat /\ realized' \in Int /\ lost' \in Nat /\ pos' = pos
      /\ pos' \in [Tokens -> Positions] /\ entry' \in [Tokens -> Order]
      /\ entries' \in 0 .. MaxEntries
  BY <1>1 DEF IInv, TypeOK, Positions, accounts
<1>6. TypeOK'
  BY <1>1, <1>4, <1>5, DecidedTyped
<1>7. NoneIsFlat' /\ BidsOffMakers' /\ HaltedQuiet'
  BY <1>1, <1>5 DEF IInv, NoneIsFlat, BidsOffMakers, HaltedQuiet
<1>8. NoOrphanExit'
  BY <1>1, <1>3, <1>4, <1>5 DEF IInv, NoOrphanExit, market
<1> QED BY <1>6, <1>7, <1>8 DEF IInv

LEMMA RestBuyKeeps ==
    ASSUME IInv, NEW p \in Prices, RestBuy(p)
    PROVE  IInv'
<1> DEFINE t == msg.token
           o == [price |-> p, size |-> Notional \div p]
<1>1. /\ pc = "decide" /\ pos[t] = Flat /\ ~ halted /\ entries < MaxEntries
      /\ entry' = [entry EXCEPT ![t] = o] /\ entries' = entries + 1
      /\ Decided /\ UNCHANGED <<market, accounts, exit, halted>>
  BY DEF RestBuy, Entering
<1>2. t \in Tokens
  BY <1>1, InHand
<1>3. o \in Order
  <2>1. cash \in Nat
    BY DEF IInv, TypeOK
  <2>2. cash \div RiskDiv \in Nat
    BY SMT, <2>1, BotAssumption
  <2>3. Notional \in Nat
    BY <2>2, BotAssumption DEF Notional, Min2
  <2>4. p \in Nat /\ p > 0
    BY QuoteRange
  <2>5. Notional \div p \in Nat
    BY SMT, <2>3, <2>4
  <2> QED BY <2>4, <2>5 DEF Order
<1> HIDE DEF t, o
<1>4. /\ entry' \in [Tokens -> Order] /\ \A u \in Tokens \ {t} : entry'[u] = entry[u]
      /\ exit' \in [Tokens -> Order]
  BY <1>1, <1>2, <1>3 DEF IInv, TypeOK
<1>5. /\ cash' \in Nat /\ realized' \in Int /\ lost' \in Nat /\ pos' = pos
      /\ pos' \in [Tokens -> Positions]
  BY <1>1 DEF IInv, TypeOK, Positions, accounts
<1>6. entries' \in 0 .. MaxEntries
  BY SMT, <1>1, BotAssumption DEF IInv, TypeOK
<1>7. TypeOK'
  BY <1>1, <1>4, <1>5, <1>6, DecidedTyped
<1>8. NoneIsFlat' /\ HaltedQuiet' /\ NoOrphanExit'
  BY <1>1, <1>5 DEF IInv, NoneIsFlat, HaltedQuiet, NoOrphanExit, market
<1>9. BidsOffMakers'
  BY <1>1, <1>2, <1>4, <1>5 DEF IInv, BidsOffMakers, Flat
<1> QED BY <1>7, <1>8, <1>9 DEF IInv

\* The legs of an arb with an edge are positions.
LEMMA LegsTyped ==
    ASSUME NEW a \in Prices, NEW n \in 1 .. Cap, msg.ask \in Prices,
           Unit - msg.ask - a - 2 * Fee >= MinEdge
    PROVE  \A p \in {msg.ask, a} :
             /\ ArbLeg(p, n, LegLocked(a, n)) \in Positions
             /\ ArbLeg(p, n, LegLocked(a, n)).kind = "arb"
<1>1. a \in Nat /\ msg.ask \in Nat /\ Fee \in Nat /\ n \in Nat /\ MinEdge \in Nat
      /\ Unit \in Nat
  <2>1. a \in Nat /\ msg.ask \in Nat /\ Fee \in Nat
    BY QuoteRange
  <2>2. n \in Nat /\ MinEdge \in Nat /\ Unit \in Nat
    BY SMT, BotAssumption
  <2> QED BY <2>1, <2>2
<1>2. LegLocked(a, n) \in Nat
  <2> DEFINE e == Unit - msg.ask - a - 2 * Fee
  <2>1. e \in Nat
    BY SMT, <1>1
  <2> HIDE DEF e
  <2>2. n * e \in Nat
    BY <1>1, <2>1, Product
  <2>3. (n * e) \div 2 \in Nat
    <3> DEFINE x == n * e
    <3> HIDE DEF x
    <3>1. x \in Nat => x \div 2 \in Nat
      BY SMT
    <3> QED BY <2>2, <3>1 DEF x
  <2> QED BY <2>3 DEF LegLocked, e
<1>3. Fee * n \in Nat
  BY <1>1, Product
<1> QED BY <1>1, <1>2, <1>3 DEF ArbLeg, Flat, Positions

LEMMA ArbKeeps ==
    ASSUME IInv, NEW a \in Prices, NEW n \in 1 .. Cap, Arb(a, n)
    PROVE  IInv'
<1> DEFINE t == msg.token
           c == Complement[t]
           near == ArbLeg(msg.ask, n, LegLocked(a, n))
           far == ArbLeg(a, n, LegLocked(a, n))
           nearCost == IF CanOpen(near) THEN Cost(near) ELSE 0
           opensFar == c \in registry /\ Cost(far) <= cash - nearCost
           farCost == IF opensFar THEN Cost(far) ELSE 0
<1>1. /\ pc = "decide" /\ pos[t] = Flat /\ ~ Exposed(t) /\ msg.ask # NoPrice
      /\ entries < MaxEntries /\ c \in books
      /\ Unit - msg.ask - a - 2 * Fee >= MinEdge
      /\ entries' = entries + 1 /\ Decided
      /\ UNCHANGED <<market, realized, lost, orders, halted>>
  BY DEF Arb, Entering
<1>2. /\ pos' = [pos EXCEPT ![t] = IF CanOpen(near) THEN near ELSE @,
                           ![c] = IF opensFar THEN far ELSE @]
      /\ cash' = cash - nearCost - farCost
  BY DEF Arb
<1>3. /\ t \in Tokens /\ c \in Tokens /\ c # t
      /\ msg.ask \in Prices
  <2>1. t \in Tokens /\ msg.ask \in Quotes
    BY <1>1, InHand
  <2>2. c \in Tokens
    BY <1>1 DEF IInv, TypeOK
  <2> QED BY <1>1, <2>1, <2>2, BotAssumption DEF Quotes
<1>4. pos[t] = Flat /\ pos[c] = Flat
  BY <1>1, <1>3 DEF Exposed, Held
<1>5. near \in Positions /\ far \in Positions /\ near.kind = "arb" /\ far.kind = "arb"
  BY <1>1, <1>3, LegsTyped
<1>6. cash' \in Nat
  <2>1. Cost(near) \in Nat /\ Cost(far) \in Nat /\ cash \in Nat
    BY <1>5, CostNat DEF IInv, TypeOK
  <2>2. nearCost \in Nat /\ cash - nearCost \in Nat
    BY SMT, <2>1 DEF CanOpen
  <2>3. farCost \in Nat /\ farCost <= cash - nearCost
    <3> HIDE DEF nearCost
    <3> QED BY SMT, <2>1, <2>2
  <2> HIDE DEF nearCost, farCost
  <2> QED BY SMT, <1>2, <2>1, <2>2, <2>3
<1> HIDE DEF near, far, opensFar, nearCost, farCost, c, t
<1>7. /\ pos' \in [Tokens -> Positions]
      /\ \A u \in Tokens \ {t, c} : pos'[u] = pos[u]
      /\ \A u \in {t, c} : pos'[u] \in {Flat, near, far}
  <2>1. pos \in [Tokens -> Positions]
    BY DEF IInv, TypeOK, Positions
  <2> QED BY <1>2, <1>3, <1>4, <1>5, <2>1
<1>8. entries' \in 0 .. MaxEntries /\ realized' \in Int /\ lost' \in Nat
      /\ entry' = entry /\ exit' = exit
  BY SMT, <1>1, BotAssumption DEF IInv, TypeOK, orders
<1>9. TypeOK'
  BY <1>1, <1>6, <1>7, <1>8, DecidedTyped DEF IInv, TypeOK
<1>10. Flat.kind = "none"
  BY DEF Flat
<1>11. NoneIsFlat' /\ BidsOffMakers' /\ HaltedQuiet'
  BY <1>1, <1>3, <1>5, <1>7, <1>8, <1>10 DEF IInv, NoneIsFlat, BidsOffMakers, HaltedQuiet
<1>12. NoOrphanExit'
  <2>1. \A u \in {t, c} \ resolved : exit[u] = NoOrder
    BY <1>3, <1>4, <1>10 DEF IInv, NoOrphanExit
  <2> QED BY <1>1, <1>7, <1>8, <2>1 DEF IInv, NoOrphanExit, market
<1> QED BY <1>9, <1>11, <1>12 DEF IInv

\* What a token pays back when its market resolves.
LEMMA PaybackTyped ==
    ASSUME IInv, NEW b \in [Tokens -> Quotes], NEW u \in Tokens
    PROVE  Payback(u, b[u]) \in Nat /\ Pnl(u, Payback(u, b[u])) \in Int
<1>1. /\ pos[u].price \in Nat /\ pos[u].size \in Nat /\ pos[u].locked \in Nat
      /\ Cost(pos[u]) \in Nat
  BY KindOf, CostNat DEF Positions
<1>2. b[u] \in Nat
  BY QuoteRange
<1>3. pos[u].price * pos[u].size \in Nat /\ b[u] * pos[u].size \in Nat
  BY <1>1, <1>2, Product
<1>4. Payback(u, b[u]) \in Nat
  <2>1. CASE pos[u].kind = "arb"
    <3>1. Payback(u, b[u]) = pos[u].price * pos[u].size + pos[u].locked
      BY <2>1 DEF Payback
    <3> QED BY SMT, <1>1, <1>3, <3>1
  <2>2. CASE pos[u].kind # "arb" /\ b[u] = NoPrice
    BY <1>3, <2>2 DEF Payback
  <2>3. CASE pos[u].kind # "arb" /\ b[u] # NoPrice
    BY <1>3, <2>3 DEF Payback
  <2> QED BY <2>1, <2>2, <2>3
<1>5. Pnl(u, Payback(u, b[u])) \in Int
  BY SMT, <1>1, <1>4 DEF Pnl
<1> QED BY <1>4, <1>5

LEMMA ResolveKeeps ==
    ASSUME IInv, NEW t \in Tokens, Resolve(t)
    PROVE  IInv'
<1>1. PICK b \in [Tokens -> Quotes] :
        /\ cash' = cash + OfMarket(t, [u \in Tokens |-> Payback(u, b[u])])
        /\ realized' = realized + OfMarket(t, [u \in Tokens |-> Pnl(u, Payback(u, b[u]))])
  BY DEF Resolve
<1>2. /\ pc = "idle" /\ resolved' = resolved \union MarketOf(t)
      /\ pos' = [u \in Tokens |-> IF u \in MarketOf(t) THEN Flat ELSE pos[u]]
      /\ UNCHANGED <<registry, books, feed, lost, orders, halted, pc, msg, entries>>
  BY DEF Resolve, Live
<1>3. \A u \in Tokens : /\ Payback(u, b[u]) \in Nat
                        /\ Pnl(u, Payback(u, b[u])) \in Int
  BY PaybackTyped
<1>4. cash' \in Nat /\ realized' \in Int
  <2> DEFINE f == [u \in Tokens |-> Payback(u, b[u])]
             g == [u \in Tokens |-> Pnl(u, Payback(u, b[u]))]
  <2>1. f \in [Tokens -> Nat] /\ g \in [Tokens -> Int]
    BY <1>3
  <2> HIDE DEF f, g
  <2>2. OfMarket(t, f) \in Nat /\ OfMarket(t, g) \in Int
    BY SMT, <2>1 DEF OfMarket, Held
  <2>3. cash \in Nat /\ realized \in Int
    BY DEF IInv, TypeOK
  <2>4. cash' = cash + OfMarket(t, f) /\ realized' = realized + OfMarket(t, g)
    BY <1>1 DEF f, g
  <2> QED BY SMT, <2>2, <2>3, <2>4
<1>5. pos' \in [Tokens -> Positions] /\ resolved' \subseteq Tokens
  BY <1>2, FlatTyped DEF IInv, TypeOK, Positions, MarketOf
<1>6. TypeOK'
  BY <1>2, <1>4, <1>5 DEF IInv, TypeOK, Positions, orders
<1>7. Flat.kind = "none"
  BY DEF Flat
<1>8. NoneIsFlat' /\ BidsOffMakers' /\ HaltedQuiet' /\ NoOrphanExit'
  BY <1>2, <1>7 DEF IInv, NoneIsFlat, BidsOffMakers, HaltedQuiet, NoOrphanExit, orders
<1> QED BY <1>6, <1>8 DEF IInv

LEMMA AgeKeeps ==
    ASSUME IInv, NEW t \in Tokens, Age(t)
    PROVE  IInv'
<1>1. /\ pos[t].kind = "maker" /\ pos' = [pos EXCEPT ![t].old = TRUE]
      /\ UNCHANGED <<market, cash, realized, lost, orders, halted, pc, msg, entries>>
  BY DEF Age
<1>2. pos \in [Tokens -> Positions]
  BY DEF IInv, TypeOK, Positions
<1>3. /\ pos' \in [Tokens -> Positions]
      /\ \A u \in Tokens : pos'[u].kind = pos[u].kind /\ pos'[u].size = pos[u].size
      /\ \A u \in Tokens : pos[u].kind = "none" => pos'[u] = pos[u]
  BY <1>1, <1>2 DEF Positions
<1>4. TypeOK'
  BY <1>1, <1>3 DEF IInv, TypeOK, Positions, market, orders
<1>5. NoneIsFlat' /\ BidsOffMakers' /\ HaltedQuiet' /\ NoOrphanExit'
  BY <1>1, <1>3 DEF IInv, NoneIsFlat, BidsOffMakers, HaltedQuiet, NoOrphanExit, orders, market
<1> QED BY <1>4, <1>5 DEF IInv

LEMMA NextIInv == IInv /\ [Next]_vars => IInv'
<1> SUFFICES ASSUME IInv, [Next]_vars PROVE IInv'
  OBVIOUS
<1>1. CASE UNCHANGED vars
  <2>1. TypeOK'
    BY <1>1 DEF IInv, TypeOK, vars, market, accounts, orders
  <2> QED BY <1>1, <2>1, SameOrders DEF vars, market, accounts
<1>2. CASE Handler
  <2>1. CASE Fills
    BY <2>1, FillExitKeeps, FillEntryKeeps, QuietSteps DEF Fills
  <2>2. CASE Expire
    BY <2>2, QuietSteps
  <2>3. CASE Decide
    BY <2>3, ExitSteps, RestoreKeeps, QuietSteps, RestBuyKeeps, ArbKeeps DEF Decide
  <2> QED BY <1>2, <2>1, <2>2, <2>3 DEF Handler
<1>3. CASE \E t \in Tokens : Message(t) \/ Resolve(t) \/ Age(t)
  BY <1>3, MessageSteps, ResolveKeeps, AgeKeeps
<1>4. CASE (\E L \in Listings : Refresh(L)) \/ Connect
  BY <1>4, MarketSteps
<1>5. CASE Halt \/ Shutdown
  BY <1>5, QuietSteps
<1> QED BY <1>1, <1>2, <1>3, <1>4, <1>5 DEF Next

-----------------------------------------------------------------------------
(* The theorems. *)

\* The inductive invariant holds in every reachable state.
THEOREM InvariantHolds == Spec => []IInv
BY InitIInv, NextIInv, PTL DEF Spec

\* Type correctness: the bankroll never goes below zero, whatever fills, exits
\* and resolutions follow each other (trading_bot.py:469-509).
THEOREM TypeCorrect == Spec => []TypeOK
<1>1. IInv => TypeOK
  BY DEF IInv
<1> QED BY <1>1, InvariantHolds, PTL

\* A resting exit always sells the position that is held, all of it
\* (trading_bot.py:939-954).
THEOREM ExitsMatch == Spec => []NoOrphanExit
<1>1. IInv => NoOrphanExit
  BY DEF IInv
<1> QED BY <1>1, InvariantHolds, PTL

\* No bid is left to fill, and an arb is an entry.
LEMMA HaltStep ==
    ASSUME IInv, [Next]_vars, NEW t \in Tokens, halted, pos[t] = Flat
    PROVE  pos'[t] = Flat
<1>1. CASE UNCHANGED vars
  BY <1>1 DEF vars, accounts
<1>2. CASE Fills
  <2>1. \A u \in Tokens : entry[u] = NoOrder
    BY DEF IInv, HaltedQuiet
  <2>2. ~ FillEntry
    <3>1. SUFFICES ASSUME FillEntry PROVE FALSE
      OBVIOUS
    <3>2. msg.token \in Tokens
      BY <3>1, InHand DEF FillEntry
    <3> QED BY <2>1, <3>1, <3>2 DEF FillEntry, EntryHit
  <2>3. CASE NoFill
    BY <2>3 DEF NoFill, accounts
  <2>4. CASE FillExit
    <3>1. (\E g : Credited(msg.token, g)) \/ UNCHANGED accounts
      BY <2>4 DEF FillExit
    <3> QED BY <3>1 DEF Credited, accounts, IInv, TypeOK
  <2> QED BY <1>2, <2>2, <2>3, <2>4 DEF Fills
<1>3. CASE Expire
  BY <1>3 DEF Expire, accounts
<1>4. CASE Decide
  <2>1. CASE Leave \/ LeaveInProfit
    BY <2>1 DEF Leave, LeaveInProfit, TakerOut, Credited, IInv, TypeOK
  <2>2. CASE RestoreExit \/ Wait
    BY <2>2 DEF RestoreExit, Wait, accounts
  <2>3. ASSUME Entering PROVE FALSE
    BY <2>3 DEF Entering
  <2> QED BY <1>4, <2>1, <2>2, <2>3 DEF Decide, RestBuy, Arb
<1>5. CASE \E u \in Tokens : Message(u)
  BY <1>5 DEF Message, Bbo, TradePrint, Receive, accounts
<1>6. CASE \E u \in Tokens : Resolve(u)
  BY <1>6 DEF Resolve
<1>7. CASE \E u \in Tokens : Age(u)
  <2>1. PICK u \in Tokens : pos[u].kind = "maker" /\ pos' = [pos EXCEPT ![u].old = TRUE]
    BY <1>7 DEF Age
  <2>2. u # t
    BY <2>1 DEF Flat
  <2>3. pos'[t] = pos[t]
    BY <2>1, <2>2 DEF IInv, TypeOK
  <2> QED BY <2>3
<1>8. CASE (\E L \in Listings : Refresh(L)) \/ Connect \/ Halt \/ Shutdown
  BY <1>8 DEF Refresh, Connect, Halt, Shutdown, accounts
<1> QED BY <1>1, <1>2, <1>3, <1>4, <1>5, <1>6, <1>7, <1>8 DEF Next, Handler

\* A halted bot opens nothing: no bid rests that could fill, and no entry is
\* made (trading_bot.py:880, 1177-1185).
THEOREM HaltHolds == Spec => HaltOpensNothing
<1>1. IInv /\ [Next]_vars => [\A t \in Tokens : halted /\ pos[t] = Flat => pos'[t] = Flat]_vars
  BY HaltStep
<1> QED BY <1>1, InvariantHolds, PTL DEF Spec, HaltOpensNothing

\* Only a filled bid opens over a position, and bids never rest on a maker's token.
LEMMA LostStep ==
    ASSUME IInv, [Next]_vars, lost' # lost
    PROVE  pos[msg.token].kind = "arb"
<1>1. FillEntry
  <2>1. CASE FillExit
    BY <2>1 DEF FillExit, Credited, accounts
  <2>2. CASE NoFill \/ Expire \/ RestoreExit \/ Wait
    BY <2>2 DEF NoFill, Expire, RestoreExit, Wait, accounts
  <2>3. CASE Leave \/ LeaveInProfit
    BY <2>3 DEF Leave, LeaveInProfit, TakerOut, Credited
  <2>4. CASE \/ \E p \in Prices : RestBuy(p)
             \/ \E a \in Prices, n \in 1 .. Cap : Arb(a, n)
    BY <2>4 DEF RestBuy, Arb, accounts
  <2>5. CASE \E t \in Tokens : Message(t) \/ Resolve(t) \/ Age(t)
    BY <2>5 DEF Message, Bbo, TradePrint, Receive, Resolve, Age, accounts
  <2>6. CASE (\E L \in Listings : Refresh(L)) \/ Connect \/ Halt \/ Shutdown \/ UNCHANGED vars
    BY <2>6 DEF Refresh, Connect, Halt, Shutdown, vars, accounts
  <2> QED BY <2>1, <2>2, <2>3, <2>4, <2>5, <2>6 DEF Next, Handler, Fills, Decide
<1>2. msg.token \in Tokens /\ entry[msg.token] # NoOrder
  BY <1>1, InHand DEF FillEntry, EntryHit
<1>3. pos[msg.token].kind # "maker"
  BY <1>2 DEF IInv, BidsOffMakers
<1>4. lost' = lost + Cost(pos[msg.token]) /\ lost \in Nat
  BY <1>1 DEF FillEntry, Opened, accounts, IInv, TypeOK
<1>5. pos[msg.token].kind # "none"
  BY SMT, <1>2, <1>4, NoneIsFree
<1> QED BY <1>2, <1>3, <1>5, KindOf

\* Of all positions only an arb leg is ever overwritten (trading_bot.py:485).
THEOREM OverwritesOnlyArbs == Spec => OnlyArbOverwritten
<1>1. IInv /\ [Next]_vars => [lost' # lost => pos[msg.token].kind = "arb"]_vars
  BY LostStep
<1> QED BY <1>1, InvariantHolds, PTL DEF Spec, OnlyArbOverwritten

-----------------------------------------------------------------------------
(* The money.  A token without a position costs nothing, so the sum over   *)
(* the tokens held is the sum over all of them, and a step that changes    *)
(* one or two positions changes it by what they cost.                      *)

Invested(q) == SumFunctionOnSet([t \in Tokens |-> Cost(q[t])], Tokens)
Balanced == cash + Invested(pos) + lost = Allocation + realized

LEMMA InvestedNat ==
    ASSUME NEW q \in [Tokens -> Positions]
    PROVE  Invested(q) \in Nat
<1> DEFINE f == [t \in Tokens |-> Cost(q[t])]
<1>1. \A t \in Tokens : f[t] \in Nat
  BY CostNat
<1> HIDE DEF f
<1>2. SumFunctionOnSet(f, Tokens) \in Nat
  BY <1>1, SumNat, BotAssumption
<1> QED BY <1>2 DEF Invested, f

\* One position changes.
LEMMA InvestedMoves ==
    ASSUME NEW q \in [Tokens -> Positions], NEW r \in [Tokens -> Positions],
           NEW t \in Tokens, \A u \in Tokens \ {t} : Cost(r[u]) = Cost(q[u])
    PROVE  Invested(r) = Invested(q) - Cost(q[t]) + Cost(r[t])
<1> DEFINE f == [u \in Tokens |-> Cost(q[u])]
           g == [u \in Tokens |-> Cost(r[u])]
<1>1. \A u \in Tokens : f[u] \in Int /\ g[u] \in Int
  BY CostNat
<1>2. \A u \in Tokens \ {t} : f[u] = g[u]
  OBVIOUS
<1>3. f[t] = Cost(q[t]) /\ g[t] = Cost(r[t])
  OBVIOUS
<1> HIDE DEF f, g
<1>4. SumFunctionOnSet(g, Tokens) = SumFunctionOnSet(f, Tokens) - f[t] + g[t]
  BY <1>1, <1>2, SumChange, BotAssumption
<1> QED BY <1>3, <1>4 DEF Invested, f, g

\* What is not held costs nothing.
LEMMA HeldIsInvested ==
    ASSUME IInv
    PROVE  SumFunctionOnSet([t \in Tokens |-> Cost(pos[t])], Held) = Invested(pos)
<1> DEFINE f == [t \in Tokens |-> Cost(pos[t])]
<1>1. \A t \in Tokens : f[t] \in Int
  BY KindOf, CostNat
<1>2. \A t \in Tokens \ Held : f[t] = 0
  BY FlatTyped DEF Held
<1>3. Held \in SUBSET Tokens
  BY DEF Held
<1> HIDE DEF f
<1>4. SumFunctionOnSet(f, Held) = SumFunctionOnSet(f, Tokens)
  BY <1>1, <1>2, <1>3, SumWithin, BotAssumption
<1> QED BY <1>4 DEF Invested, f

\* The types of the accounts.
LEMMA Accounts ==
    ASSUME IInv
    PROVE  /\ cash \in Nat /\ realized \in Int /\ lost \in Nat /\ Allocation \in Nat
           /\ pos \in [Tokens -> Positions] /\ Invested(pos) \in Nat
BY InvestedNat, BotAssumption DEF IInv, TypeOK, Positions

LEMMA CreditedBalanced ==
    ASSUME IInv, Balanced, NEW t \in Tokens, NEW g \in Nat, Credited(t, g)
    PROVE  Balanced'
<1>1. /\ cash' = cash + g /\ realized' = realized + (g - Cost(pos[t])) /\ lost' = lost
      /\ pos' = [pos EXCEPT ![t] = Flat]
  BY DEF Credited, Pnl
<1>2. pos' \in [Tokens -> Positions] /\ pos'[t] = Flat
      /\ \A u \in Tokens \ {t} : Cost(pos'[u]) = Cost(pos[u])
  BY <1>1, Accounts, FlatTyped
<1>3. Invested(pos') = Invested(pos) - Cost(pos[t]) + Cost(pos'[t])
  BY <1>2, Accounts, InvestedMoves
<1>4. Cost(pos[t]) \in Nat /\ Cost(pos'[t]) = 0
  BY <1>2, KindOf, CostNat, FlatTyped
<1>5. cash + Invested(pos) + lost = Allocation + realized
  BY DEF Balanced
<1>6. cash' + Invested(pos') + lost' = Allocation + realized'
  BY <1>1, <1>3, <1>4, <1>5, Accounts
<1> QED BY <1>6 DEF Balanced

LEMMA OpenedBalanced ==
    ASSUME IInv, Balanced, NEW t \in Tokens, NEW p \in Positions, CanOpen(p), Opened(t, p)
    PROVE  Balanced'
<1>1. /\ cash' = cash - Cost(p) /\ lost' = lost + Cost(pos[t]) /\ realized' = realized
      /\ pos' = [pos EXCEPT ![t] = p]
  BY DEF Opened
<1>2. pos' \in [Tokens -> Positions] /\ pos'[t] = p
      /\ \A u \in Tokens \ {t} : Cost(pos'[u]) = Cost(pos[u])
  BY <1>1, Accounts
<1>3. Invested(pos') = Invested(pos) - Cost(pos[t]) + Cost(p)
  BY <1>2, Accounts, InvestedMoves
<1>4. Cost(pos[t]) \in Nat /\ Cost(p) \in Nat
  BY KindOf, CostNat
<1>5. cash + Invested(pos) + lost = Allocation + realized
  BY DEF Balanced
<1>6. cash' + Invested(pos') + lost' = Allocation + realized'
  BY <1>1, <1>3, <1>4, <1>5, Accounts
<1> QED BY <1>6 DEF Balanced

LEMMA FillsBalanced == ASSUME IInv, Balanced, Fills PROVE Balanced'
<1> DEFINE t == msg.token
<1>1. t \in Tokens
  BY InHand DEF Fills, FillExit, FillEntry, NoFill
<1>2. CASE UNCHANGED accounts
  BY <1>2 DEF accounts, Balanced
<1>3. CASE FillExit
  <2>1. exit[t].price * pos[t].size \in Nat
    BY <1>1, KindOf, Product DEF Order, Positions
  <2> QED BY <1>1, <1>2, <1>3, <2>1, CreditedBalanced DEF FillExit
<1>4. CASE FillEntry
  <2> DEFINE o == entry[t]
  <2>1. PICK k \in 1 .. TpTicks :
          LET p == MakerPosition(o, Target(o, k))
          IN  (CanOpen(p) /\ Opened(t, p)) \/ UNCHANGED accounts
    BY <1>4 DEF FillEntry
  <2>2. MakerPosition(o, Target(o, k)) \in Positions
    BY <1>1, KindOf, MakerTyped, BotAssumption
  <2> QED BY <1>1, <1>2, <2>1, <2>2, OpenedBalanced
<1> QED BY <1>2, <1>3, <1>4 DEF Fills, NoFill

LEMMA ExitBalanced == ASSUME IInv, Balanced, Leave \/ LeaveInProfit PROVE Balanced'
<1> DEFINE t == msg.token
           g == (msg.bid - Fee) * pos[t].size
<1>1. t \in Tokens /\ msg.bid \in Prices
  BY InHand DEF Leave, LeaveInProfit, Exiting, Quotes
<1>2. Credited(t, g)
  BY DEF Leave, LeaveInProfit, TakerOut
<1>3. g \in Nat
  <2>1. msg.bid - Fee \in Nat
    BY SMT, <1>1, QuoteRange
  <2>2. pos[t].size \in Nat
    BY <1>1, KindOf DEF Positions
  <2> QED BY <2>1, <2>2, Product
<1> HIDE DEF t, g
<1> QED BY <1>1, <1>2, <1>3, CreditedBalanced

\* Both legs, one of them, or none.
LEMMA ArbBalanced ==
    ASSUME IInv, Balanced, NEW a \in Prices, NEW n \in 1 .. Cap, Arb(a, n)
    PROVE  Balanced'
<1> DEFINE t == msg.token
           c == Complement[t]
           near == ArbLeg(msg.ask, n, LegLocked(a, n))
           far == ArbLeg(a, n, LegLocked(a, n))
           opensFar == /\ c \in registry
                       /\ Cost(far) <= cash - (IF CanOpen(near) THEN Cost(near) ELSE 0)
           new == IF CanOpen(near) THEN near ELSE pos[t]
           newFar == IF opensFar THEN far ELSE pos[c]
           mid == [pos EXCEPT ![t] = new]
<1>1. /\ pc = "decide" /\ pos[t] = Flat /\ ~ Exposed(t) /\ msg.ask # NoPrice
      /\ c \in books /\ UNCHANGED <<realized, lost>>
      /\ Unit - msg.ask - a - 2 * Fee >= MinEdge
  BY DEF Arb, Entering
<1>2. /\ t \in Tokens /\ c \in Tokens /\ c # t /\ msg.ask \in Prices
  <2>1. t \in Tokens /\ msg.ask \in Quotes
    BY <1>1, InHand
  <2>2. c \in Tokens
    BY <1>1 DEF IInv, TypeOK
  <2> QED BY <1>1, <2>1, <2>2, BotAssumption DEF Quotes
<1>3. /\ pos' = [pos EXCEPT ![t] = IF CanOpen(near) THEN near ELSE @,
                           ![c] = IF opensFar THEN far ELSE @]
      /\ cash' = cash - (IF CanOpen(near) THEN Cost(near) ELSE 0)
                      - (IF opensFar THEN Cost(far) ELSE 0)
  BY DEF Arb
<1>4. near \in Positions /\ far \in Positions
  BY <1>1, <1>2, LegsTyped
<1>5. pos[t] = Flat /\ pos[c] = Flat
  BY <1>1, <1>2 DEF Exposed, Held
<1> HIDE DEF near, far, opensFar
<1>6. new \in Positions /\ newFar \in Positions
  BY <1>4, <1>5, FlatTyped
<1>7. Cost(new) = (IF CanOpen(near) THEN Cost(near) ELSE 0)
      /\ Cost(newFar) = (IF opensFar THEN Cost(far) ELSE 0)
  BY <1>5, FlatTyped
<1>8. pos' = [mid EXCEPT ![c] = newFar]
  BY <1>2, <1>3, Accounts
<1> HIDE DEF new, newFar, c, t
<1>9. Invested(mid) = Invested(pos) + Cost(new)
  <2>1. /\ mid \in [Tokens -> Positions] /\ mid[t] = new
        /\ \A u \in Tokens \ {t} : Cost(mid[u]) = Cost(pos[u])
    BY <1>2, <1>6, Accounts
  <2>2. Invested(mid) = Invested(pos) - Cost(pos[t]) + Cost(mid[t])
    BY <1>2, <2>1, Accounts, InvestedMoves
  <2> QED BY <1>5, <2>1, <2>2, Accounts, FlatTyped
<1>10. Invested(pos') = Invested(mid) + Cost(newFar)
  <2>1. /\ mid \in [Tokens -> Positions] /\ pos' \in [Tokens -> Positions]
        /\ pos'[c] = newFar /\ mid[c] = Flat
        /\ \A u \in Tokens \ {c} : Cost(pos'[u]) = Cost(mid[u])
    BY <1>2, <1>5, <1>6, <1>8, Accounts
  <2>2. Invested(pos') = Invested(mid) - Cost(mid[c]) + Cost(pos'[c])
    BY <1>2, <2>1, InvestedMoves
  <2>3. Invested(mid) \in Nat /\ Cost(mid[c]) = 0
    BY <2>1, InvestedNat, FlatTyped
  <2>4. Cost(pos'[c]) = Cost(newFar) /\ Cost(newFar) \in Nat
    BY <1>6, <2>1, CostNat
  <2> HIDE DEF mid
  <2> QED BY <2>2, <2>3, <2>4
<1>11. cash' = cash - Cost(new) - Cost(newFar)
  BY <1>3, <1>7
<1>12. Cost(new) \in Nat /\ Cost(newFar) \in Nat
  BY <1>6, CostNat
<1>13. cash + Invested(pos) + lost = Allocation + realized
  BY DEF Balanced
<1>14. cash' + Invested(pos') + lost' = Allocation + realized'
  BY <1>1, <1>9, <1>10, <1>11, <1>12, <1>13, Accounts
<1> QED BY <1>14 DEF Balanced

\* What the market's two tokens pay back, less the pnl it realizes, is their cost.
LEMMA ResolveBalanced ==
    ASSUME IInv, Balanced, NEW t \in Tokens, Resolve(t)
    PROVE  Balanced'
<1> DEFINE c == Complement[t]
           mid == [pos EXCEPT ![t] = Flat]
<1>1. PICK b \in [Tokens -> Quotes] :
        /\ cash' = cash + OfMarket(t, [u \in Tokens |-> Payback(u, b[u])])
        /\ realized' = realized + OfMarket(t, [u \in Tokens |-> Pnl(u, Payback(u, b[u]))])
  BY DEF Resolve
<1>2. /\ pos' = [u \in Tokens |-> IF u \in {t, c} THEN Flat ELSE pos[u]]
      /\ lost' = lost
  BY DEF Resolve, MarketOf
<1> DEFINE f == [u \in Tokens |-> Payback(u, b[u])]
           g == [u \in Tokens |-> Pnl(u, Payback(u, b[u]))]
           freed == IF c \in Tokens THEN Cost(pos[c]) ELSE 0
<1>3. \A u \in Tokens : f[u] \in Nat /\ g[u] = f[u] - Cost(pos[u]) /\ Cost(pos[u]) \in Nat
  BY PaybackTyped, KindOf, CostNat DEF Pnl
<1>4. \A u \in Tokens \ Held : Cost(pos[u]) = 0
  BY FlatTyped DEF Held
<1> HIDE DEF f, g
<1>5. OfMarket(t, f) - OfMarket(t, g) = Cost(pos[t]) + freed
      /\ OfMarket(t, f) \in Int /\ OfMarket(t, g) \in Int
  <2>1. Held \subseteq Tokens
    BY DEF Held
  <2>2. CASE c \in Tokens
    BY <1>3, <1>4, <2>1, <2>2 DEF OfMarket
  <2>3. CASE c \notin Tokens
    BY <1>3, <1>4, <2>1, <2>3 DEF OfMarket
  <2> QED BY <2>2, <2>3
<1>6. Invested(mid) = Invested(pos) - Cost(pos[t])
  <2>1. /\ mid \in [Tokens -> Positions] /\ mid[t] = Flat
        /\ \A u \in Tokens \ {t} : Cost(mid[u]) = Cost(pos[u])
    BY Accounts, FlatTyped
  <2>2. Invested(mid) = Invested(pos) - Cost(pos[t]) + Cost(mid[t])
    BY <2>1, Accounts, InvestedMoves
  <2> QED BY <1>3, <2>1, <2>2, Accounts, FlatTyped
<1>7. Invested(pos') = Invested(mid) - freed
  <2>1. mid \in [Tokens -> Positions] /\ pos' \in [Tokens -> Positions]
    BY <1>2, Accounts, FlatTyped
  <2>0. Invested(mid) \in Nat
    BY <2>1, InvestedNat
  <2>2. CASE c \notin Tokens
    <3>1. pos' = mid
      BY <1>2, <2>2, Accounts
    <3>2. freed = 0
      BY <2>2
    <3> HIDE DEF mid, freed
    <3> QED BY <2>0, <3>1, <3>2
  <2>3. CASE c \in Tokens
    <3>1. pos'[c] = Flat /\ \A u \in Tokens \ {c} : pos'[u] = mid[u]
      BY <1>2, <2>3, Accounts
    <3>2. mid[c] = pos[c]
      BY <2>3, Accounts, BotAssumption
    <3>3. Invested(pos') = Invested(mid) - Cost(mid[c]) + Cost(pos'[c])
      BY <2>1, <2>3, <3>1, InvestedMoves
    <3>4. Cost(mid[c]) = freed /\ freed \in Nat /\ Cost(pos'[c]) = 0
      BY <1>3, <2>3, <3>1, <3>2, FlatTyped
    <3> HIDE DEF mid, freed
    <3> QED BY <2>0, <3>3, <3>4
  <2> QED BY <2>2, <2>3
<1>8. cash' = cash + OfMarket(t, f) /\ realized' = realized + OfMarket(t, g)
  BY <1>1 DEF f, g
<1>9. freed \in Nat /\ Cost(pos[t]) \in Nat
  BY <1>3
<1>10. cash + Invested(pos) + lost = Allocation + realized
  BY DEF Balanced
<1>11. lost' = lost
  BY <1>2
<1>12. /\ cash \in Nat /\ realized \in Int /\ lost \in Nat /\ Allocation \in Nat
       /\ Invested(pos) \in Nat
  BY Accounts
<1> DEFINE paid == OfMarket(t, f)
           won == OfMarket(t, g)
<1>13. /\ paid - won = Cost(pos[t]) + freed /\ paid \in Int /\ won \in Int
       /\ cash' = cash + paid /\ realized' = realized + won
  BY <1>5, <1>8
<1> HIDE DEF mid, freed, paid, won
<1>14. cash' + Invested(pos') + lost' = Allocation + realized'
  BY <1>6, <1>7, <1>9, <1>10, <1>11, <1>12, <1>13
<1> QED BY <1>14 DEF Balanced

LEMMA AgeBalanced == ASSUME IInv, Balanced, NEW t \in Tokens, Age(t) PROVE Balanced'
<1>1. pos' = [pos EXCEPT ![t].old = TRUE] /\ UNCHANGED <<cash, realized, lost>>
  BY DEF Age
<1>2. pos' \in [Tokens -> Positions] /\ \A u \in Tokens : Cost(pos'[u]) = Cost(pos[u])
  BY <1>1, Accounts DEF Positions, Cost
<1>3. Invested(pos') = Invested(pos) - Cost(pos[t]) + Cost(pos'[t])
  BY <1>2, Accounts, InvestedMoves
<1>4. Cost(pos[t]) \in Nat
  BY KindOf, CostNat
<1>5. Invested(pos') = Invested(pos)
  BY <1>2, <1>3, <1>4, Accounts
<1> QED BY <1>1, <1>5 DEF Balanced

LEMMA InitBalanced == Init => Balanced
<1> SUFFICES ASSUME Init PROVE Balanced
  OBVIOUS
<1> DEFINE f == [t \in Tokens |-> Cost(pos[t])]
<1>1. \A t \in Tokens : f[t] = 0
  BY FlatTyped DEF Init
<1> HIDE DEF f
<1>2. SumFunctionOnSet(f, Tokens) = 0
  BY <1>1, SumZero, BotAssumption
<1> QED BY <1>2, BotAssumption DEF Init, Balanced, Invested, f

LEMMA NextBalanced == IInv /\ Balanced /\ [Next]_vars => Balanced'
<1> SUFFICES ASSUME IInv, Balanced, [Next]_vars PROVE Balanced'
  OBVIOUS
<1>1. CASE UNCHANGED accounts
  BY <1>1 DEF accounts, Balanced
<1>2. CASE Decide
  BY <1>1, <1>2, ExitBalanced, ArbBalanced DEF Decide, RestoreExit, Wait, RestBuy
<1>3. CASE Expire
  BY <1>1, <1>3 DEF Expire
<1>4. CASE \E t \in Tokens : Message(t) \/ Resolve(t) \/ Age(t)
  BY <1>1, <1>4, ResolveBalanced, AgeBalanced DEF Message, Bbo, TradePrint, Receive
<1>5. CASE (\E L \in Listings : Refresh(L)) \/ Connect \/ Halt \/ Shutdown \/ UNCHANGED vars
  BY <1>1, <1>5 DEF Refresh, Connect, Halt, Shutdown, vars
<1> QED BY <1>2, <1>3, <1>4, <1>5, FillsBalanced DEF Next, Handler

\* Bankroll, cost of the open positions and what was overwritten always add up
\* to the allocation and the realized pnl (trading_bot.py:469-509), whatever
\* mixture of fills, taker exits, half-opened pairs and resolutions came before.
THEOREM MoneyAddsUp == Spec => []CashAccounted
<1>1. Init => IInv /\ Balanced
  BY InitIInv, InitBalanced
<1>2. IInv /\ Balanced /\ [Next]_vars => IInv' /\ Balanced'
  BY NextIInv, NextBalanced
<1>3. IInv /\ Balanced => CashAccounted
  BY HeldIsInvested DEF Balanced, CashAccounted
<1> QED BY <1>1, <1>2, <1>3, PTL DEF Spec
=============================================================================
