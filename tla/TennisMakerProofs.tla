------------------------- MODULE TennisMakerProofs -------------------------
(***************************************************************************)
(* Theorems about TennisMaker, for every set of tokens and prices, every   *)
(* quote size, queue and print.                                            *)
(*                                                                         *)
(* The entry quote, the take-profit and the position of one token hold     *)
(* each other in check.  Sound says how, for the three records alone, so   *)
(* that what a fill, a sale and a new quote do to them are lemmas about    *)
(* records; the steps of the specification only apply those lemmas.        *)
(***************************************************************************)
EXTENDS TennisMaker, SumLemmas

PosType == [price : Nat, size : 0 .. Size]

\* An entry quote e, a take-profit o and a position p that fit together.
Sound(e, o, p) ==
    /\ e \in OrderType /\ o \in OrderType /\ p \in PosType
    /\ e = NoOrder \/ Left(e) > 0
    /\ o = NoOrder \/ Left(o) > 0
    /\ Left(o) <= p.size
    /\ p.size + Left(e) <= Size
    /\ p.size > 0 /\ Resting(e) => p.price = e.price

IInv ==
    /\ TypeOK
    /\ \A t \in Tokens : Sound(entry[t], tp[t], pos[t])
-----------------------------------------------------------------------------
(* Arithmetic. *)

LEMMA ProductIsNat == ASSUME NEW a \in Nat, NEW b \in Nat PROVE a * b \in Nat
  OBVIOUS

\* The average of equal prices is that price.
LEMMA AverageOfEqual ==
    ASSUME NEW price \in Nat, NEW a \in Nat \ {0}, NEW b \in Nat
    PROVE  (price * a + price * b) \div (a + b) = price
<1>1. price * a + price * b = price * (a + b)
  OBVIOUS
<1>2. (price * (a + b)) \div (a + b) = price
  OBVIOUS
<1> QED
  BY <1>1, <1>2
-----------------------------------------------------------------------------
(* The records. *)

\* A print fills at most what is left of an order.
LEMMA FillFits ==
    ASSUME NEW o \in OrderType, Left(o) > 0, NEW n \in Nat, NEW through \in BOOLEAN
    PROVE  FilledBy(o, through, n) \in 0 .. Left(o)
  BY MakerAssumption DEF FilledBy, Left, OrderType, Lesser

\* After a print the order is as before, less what filled, or it is dropped.
LEMMA PrintLeaves ==
    ASSUME NEW o \in OrderType, Left(o) > 0, NEW n \in Nat, NEW through \in BOOLEAN,
           NEW r, r = Remains(AfterPrint(o, through, n))
    PROVE  /\ r \in OrderType
           /\ r = NoOrder \/ (Left(r) > 0 /\ r.price = o.price)
           /\ Left(r) = Left(o) - FilledBy(o, through, n)
<1> DEFINE f == FilledBy(o, through, n)
           a == AfterPrint(o, through, n)
<1>1. f \in 0 .. Left(o)
  BY FillFits
<1>2. /\ a \in OrderType
      /\ a.price = o.price /\ a.size = o.size /\ a.filled = o.filled + f
  <2>1. o.filled + f \in 0 .. Size
    BY <1>1, MakerAssumption DEF OrderType, Left
  <2>2. (IF through THEN o.queue ELSE o.queue - Lesser(o.queue, n)) \in 0 .. MaxQueue
    BY MakerAssumption DEF OrderType, Lesser
  <2> HIDE DEF f
  <2> QED
    BY <2>1, <2>2 DEF AfterPrint, OrderType, f
<1>3. Left(a) = Left(o) - f
  BY <1>1, <1>2, MakerAssumption DEF Left, OrderType
<1>4. NoOrder \in OrderType /\ Left(NoOrder) = 0
  BY MakerAssumption DEF NoOrder, OrderType, Left
<1> HIDE DEF f, a
<1>5. CASE Left(a) > 0
  BY <1>2, <1>3, <1>5 DEF Remains, f, a
<1>6. CASE ~(Left(a) > 0)
  <2>1. Left(a) = 0
    BY <1>1, <1>3, <1>6, MakerAssumption DEF Left, OrderType
  <2> QED
    BY <1>3, <1>4, <1>6, <2>1 DEF Remains, f, a
<1> QED
  BY <1>5, <1>6

\* An entry fill enlarges the position at the price of its quote.
LEMMA FillEnlarges ==
    ASSUME NEW p \in PosType, NEW price \in Nat, NEW f \in Nat \ {0},
           p.size + f <= Size, p.size > 0 => p.price = price
    PROVE  /\ Enlarged(p, price, f) \in PosType
           /\ Enlarged(p, price, f).size = p.size + f
           /\ Enlarged(p, price, f).price = price
<1>2. CASE p.size = 0
  BY <1>2, MakerAssumption DEF Enlarged, PosType
<1>3. CASE p.size > 0
  <2>1. (p.price * p.size + price * f) \div (p.size + f) = price
    <3>1. p.price = price /\ p.size \in Nat \ {0}
      BY <1>3 DEF PosType
    <3>2. (price * p.size + price * f) \div (p.size + f) = price
      BY <3>1, AverageOfEqual
    <3> QED
      BY <3>1, <3>2, Zenon
  <2> DEFINE avg == (p.price * p.size + price * f) \div (p.size + f)
  <2>3. Enlarged(p, price, f) = [p EXCEPT !.price = avg, !.size = p.size + f]
    BY <1>3 DEF Enlarged, PosType
  <2>4. p.size + f \in 0 .. Size
    BY MakerAssumption DEF PosType
  <2> HIDE DEF avg
  <2> QED
    BY <2>1, <2>3, <2>4 DEF PosType, avg
<1> QED
  BY <1>2, <1>3 DEF PosType

\* A sale takes what it sells off the position and leaves its price alone.
LEMMA SaleReduces ==
    ASSUME NEW p \in PosType, NEW f \in Nat, f <= p.size
    PROVE  /\ Reduced(p, f) \in PosType
           /\ Reduced(p, f).size = p.size - f
           /\ f < p.size => Reduced(p, f).price = p.price
<1> DEFINE left == p.size - f
           cost == IF f = p.size THEN 0 ELSE p.price
<1>1. left \in 0 .. Size /\ cost \in Nat
  BY MakerAssumption DEF PosType
<1>2. f < p.size => cost = p.price
  BY DEF PosType
<1>3. Reduced(p, f) = [p EXCEPT !.size = left, !.price = cost]
  BY Zenon DEF Reduced
<1> HIDE DEF left, cost
<1>4. /\ Reduced(p, f) \in PosType
      /\ Reduced(p, f).size = left
      /\ Reduced(p, f).price = cost
  BY <1>1, <1>3 DEF PosType
<1> QED
  BY <1>2, <1>4 DEF left

\* A take-profit for all of a position.
LEMMA TpFits ==
    ASSUME NEW p \in PosType, p.size > 0, NEW q \in 0 .. MaxQueue
    PROVE  /\ PlaceTp(p, q) \in OrderType
           /\ Left(PlaceTp(p, q)) = p.size
  BY MakerAssumption DEF PlaceTp, PosType, OrderType, Left

\* Closing part of the inventory leaves a natural number.
LEMMA InvStaysNat ==
    ASSUME NEW p \in PosType, NEW n \in Nat, inv \in Nat
    PROVE  InvAfter(p, n) \in Nat
<1>1. p.price * n \in Nat
  BY ProductIsNat DEF PosType
<1> QED
  BY <1>1 DEF InvAfter
-----------------------------------------------------------------------------
(* The steps. *)

\* A step that changes the records of one token keeps the invariant if it
\* leaves that token sound.
LEMMA OneToken ==
    ASSUME IInv, NEW t \in Tokens, NEW e, NEW o, NEW p, Sound(e, o, p),
           entry' = [entry EXCEPT ![t] = e],
           tp' = [tp EXCEPT ![t] = o],
           pos' = [pos EXCEPT ![t] = p],
           inv' \in Nat,
           aged' \subseteq aged \union {t}, t \in aged' => p.size > 0,
           todo' \subseteq Tokens
    PROVE  IInv'
<1>1. /\ entry' \in [Tokens -> OrderType]
      /\ tp' \in [Tokens -> OrderType]
      /\ pos' \in [Tokens -> PosType]
  BY Zenon DEF IInv, TypeOK, Sound, PosType
<1>2. ASSUME NEW s \in Tokens PROVE Sound(entry'[s], tp'[s], pos'[s])
  <2>1. CASE s = t
    <3>1. entry'[s] = e /\ tp'[s] = o /\ pos'[s] = p
      BY <2>1, Zenon DEF IInv, TypeOK
    <3> QED
      BY <3>1, Zenon
  <2>2. CASE s # t
    <3>1. entry'[s] = entry[s] /\ tp'[s] = tp[s] /\ pos'[s] = pos[s]
      BY <2>2, Zenon DEF IInv, TypeOK
    <3> QED
      BY <3>1, Zenon DEF IInv
  <2> QED
    BY <2>1, <2>2
<1>3. aged' \subseteq {s \in Tokens : pos'[s].size > 0}
  BY DEF IInv, TypeOK, Long
<1> QED
  BY <1>1, <1>2, <1>3, Zenon DEF IInv, TypeOK, PosType, Long

LEMMA InitSound == Init => IInv
<1>1. NoOrder \in OrderType /\ Left(NoOrder) = 0 /\ ~Resting(NoOrder)
  BY MakerAssumption DEF NoOrder, OrderType, Left, Resting
<1>2. Flat \in PosType /\ Flat.size = 0
  BY MakerAssumption DEF Flat, PosType
<1> QED
  BY <1>1, <1>2, MakerAssumption DEF Init, IInv, TypeOK, Sound, PosType

\* What a print on the bid fills, and the position it leaves.
LEMMA BidFills ==
    ASSUME IInv, NEW t \in Tokens, NEW price \in Prices, NEW n \in 1 .. MaxPrint,
           PrintSell(t, price, n),
           NEW f, f = FilledBy(entry[t], price < entry[t].price, n),
           NEW p, p = Enlarged(pos[t], entry[t].price, f)
    PROVE  /\ f \in 0 .. Left(entry[t])
           /\ f = 0 => pos' = pos /\ inv' = inv
           /\ f # 0 => /\ pos' = [pos EXCEPT ![t] = p]
                       /\ inv' = inv + entry[t].price * f
                       /\ p \in PosType
                       /\ p.size = pos[t].size + f /\ p.price = entry[t].price
                       /\ pos[t].size > 0 => pos[t].price = entry[t].price
<1> DEFINE o == entry[t]
           through == price < o.price
<1>1. o \in OrderType /\ Left(o) > 0 /\ n \in Nat /\ through \in BOOLEAN /\ Resting(o)
  BY MakerAssumption DEF PrintSell, IInv, TypeOK, Sound, Resting, NoOrder
<1>2. f \in 0 .. Left(o)
  BY <1>1, FillFits
<1>3. Sound(o, tp[t], pos[t])
  BY DEF IInv
<1>4. /\ f = 0 => pos' = pos /\ inv' = inv
      /\ f # 0 => pos' = [pos EXCEPT ![t] = p] /\ inv' = inv + o.price * f
  BY Zenon DEF PrintSell
<1>5. ASSUME f # 0
      PROVE  /\ pos[t] \in PosType /\ o.price \in Nat /\ f \in Nat \ {0}
             /\ pos[t].size + f <= Size
             /\ pos[t].size > 0 => pos[t].price = o.price
  BY <1>1, <1>2, <1>3, <1>5, MakerAssumption DEF Sound, PosType, OrderType, Left
<1> HIDE DEF o
<1>6. ASSUME f # 0
      PROVE  p \in PosType /\ p.size = pos[t].size + f /\ p.price = o.price
  BY <1>5, <1>6, FillEnlarges DEF o
<1> QED
  BY <1>2, <1>4, <1>5, <1>6 DEF o

\* What a print on the bid does.
LEMMA PrintSellKeeps ==
    ASSUME IInv, NEW t \in Tokens, NEW price \in Prices, NEW n \in 1 .. MaxPrint,
           PrintSell(t, price, n)
    PROVE  IInv'
<1> DEFINE o == entry[t]
           through == price < o.price
           f == FilledBy(o, through, n)
           r == Remains(AfterPrint(o, through, n))
<1>1. o \in OrderType /\ Left(o) > 0 /\ n \in Nat /\ through \in BOOLEAN
  BY MakerAssumption DEF PrintSell, IInv, TypeOK, Sound, Resting, NoOrder
<1>2. f \in 0 .. Left(o)
  BY <1>1, FillFits
<1>3. /\ r \in OrderType
      /\ r = NoOrder \/ (Left(r) > 0 /\ r.price = o.price)
      /\ Left(r) = Left(o) - f
  <2> HIDE DEF o, through
  <2> QED
    BY <1>1, PrintLeaves, Zenon
<1>4. Sound(o, tp[t], pos[t])
  BY DEF IInv
<1>5. /\ entry' = [entry EXCEPT ![t] = r]
      /\ aged' = aged /\ todo' = todo /\ todo \subseteq Tokens
      /\ Resting(o)
  BY Zenon DEF PrintSell, IInv, TypeOK
<1>6. ~Resting(NoOrder)
  BY DEF Resting, NoOrder
<1>7. CASE f = 0
  <2>1. pos' = pos /\ tp' = tp /\ inv' = inv
    BY <1>7 DEF PrintSell
  <2>2. Sound(r, tp[t], pos[t])
    <3>1. Left(r) = Left(o)
      BY <1>1, <1>3, <1>7 DEF OrderType, Left
    <3> HIDE DEF r, f
    <3> QED
      BY <1>3, <1>4, <1>5, <1>6, <3>1 DEF Sound
  <2>3. /\ tp' = [tp EXCEPT ![t] = tp[t]] /\ pos' = [pos EXCEPT ![t] = pos[t]]
        /\ inv' \in Nat /\ (t \in aged' => pos[t].size > 0)
    BY <1>5, <2>1 DEF IInv, TypeOK, Long
  <2> HIDE DEF r
  <2> QED
    BY <1>5, <2>2, <2>3, OneToken
<1>8. CASE f # 0
  <2> DEFINE p == Enlarged(pos[t], o.price, f)
  <2>1. /\ p \in PosType
        /\ p.size = pos[t].size + f
        /\ p.price = o.price
    BY <1>8, BidFills
  <2>2. /\ pos' = [pos EXCEPT ![t] = p]
        /\ inv' = inv + o.price * f
        /\ \E q \in 0 .. MaxQueue : tp' = [tp EXCEPT ![t] = Placed(t, pos'[t], q)]
    BY <1>8, Zenon DEF PrintSell
  <2>3. pos'[t] = p
    BY <2>2, Zenon DEF IInv, TypeOK
  <2>4. PICK q \in 0 .. MaxQueue : tp' = [tp EXCEPT ![t] = Placed(t, p, q)]
    BY <2>2, <2>3
  <2> DEFINE k == Placed(t, p, q)
  <2>5. k \in OrderType /\ (k = NoOrder \/ Left(k) > 0) /\ Left(k) <= p.size
    <3>1. p.size > 0
      BY <1>2, <1>4, <1>8, <2>1 DEF Sound, PosType
    <3>2. CASE Resting(tp[t])
      BY <1>2, <1>4, <2>1, <3>2 DEF Placed, Sound, PosType, OrderType, Left
    <3>3. CASE ~Resting(tp[t])
      <4>1. k = PlaceTp(p, q)
        BY <3>3 DEF Placed
      <4>2. PlaceTp(p, q) \in OrderType /\ Left(PlaceTp(p, q)) = p.size
        BY <2>1, <3>1, TpFits
      <4> QED
        BY <2>1, <3>1, <4>1, <4>2 DEF PosType
    <3> QED
      BY <3>2, <3>3
  <2>6. Sound(r, k, p)
    <3>1. p.size + Left(r) <= Size
      BY <1>1, <1>2, <1>3, <1>4, <2>1, MakerAssumption DEF Sound, PosType, OrderType, Left
    <3> HIDE DEF r, k, p
    <3> QED
      BY <1>3, <1>6, <2>1, <2>5, <3>1 DEF Sound
  <2>7. inv' \in Nat
    <3>1. o.price \in Nat /\ f \in Nat /\ inv \in Nat
      BY <1>1, <1>2 DEF IInv, TypeOK, OrderType, Left
    <3>2. o.price * f \in Nat
      BY <3>1, ProductIsNat
    <3> QED
      BY <2>2, <3>1, <3>2
  <2>8. p.size > 0
    BY <1>2, <1>4, <1>8, <2>1 DEF Sound, PosType
  <2> HIDE DEF r, k, p
  <2> QED
    BY <1>5, <2>2, <2>4, <2>6, <2>7, <2>8, OneToken DEF k
<1> QED
  BY <1>7, <1>8

\* What a print on the take-profit sells, never more than is held.
LEMMA TpSells ==
    ASSUME IInv, NEW t \in Tokens, NEW price \in Prices, NEW n \in 1 .. MaxPrint,
           PrintBuy(t, price, n),
           NEW f, f = FilledBy(tp[t], price > tp[t].price, n)
    PROVE  /\ f \in Nat /\ f <= pos[t].size /\ pos[t] \in PosType
           /\ f = 0 => pos' = pos /\ inv' = inv
           /\ f # 0 => /\ pos' = [pos EXCEPT ![t] = Reduced(pos[t], f)]
                       /\ inv' = InvAfter(pos[t], f)
<1> DEFINE o == tp[t]
           through == price > o.price
<1>1. o \in OrderType /\ Left(o) > 0 /\ n \in Nat /\ through \in BOOLEAN
  BY MakerAssumption DEF PrintBuy, IInv, TypeOK, Sound, Resting, NoOrder
<1>2. f \in 0 .. Left(o)
  BY <1>1, FillFits
<1>3. Sound(entry[t], o, pos[t])
  BY DEF IInv
<1>4. f \in Nat /\ f <= pos[t].size /\ pos[t] \in PosType
  BY <1>1, <1>2, <1>3 DEF Sound, PosType, OrderType, Left
<1>5. /\ f = 0 => pos' = pos /\ inv' = inv
      /\ f # 0 => /\ pos' = [pos EXCEPT ![t] = Reduced(pos[t], f)]
                  /\ inv' = InvAfter(pos[t], f)
  BY Zenon DEF PrintBuy
<1> QED
  BY <1>4, <1>5

\* What a print on the take-profit does.
LEMMA PrintBuyKeeps ==
    ASSUME IInv, NEW t \in Tokens, NEW price \in Prices, NEW n \in 1 .. MaxPrint,
           PrintBuy(t, price, n)
    PROVE  IInv'
<1> DEFINE o == tp[t]
           through == price > o.price
           f == FilledBy(o, through, n)
           r == Remains(AfterPrint(o, through, n))
<1>1. o \in OrderType /\ Left(o) > 0 /\ n \in Nat /\ through \in BOOLEAN
  BY MakerAssumption DEF PrintBuy, IInv, TypeOK, Sound, Resting, NoOrder
<1>2. f \in 0 .. Left(o)
  BY <1>1, FillFits
<1>3. /\ r \in OrderType
      /\ r = NoOrder \/ (Left(r) > 0 /\ r.price = o.price)
      /\ Left(r) = Left(o) - f
  <2> HIDE DEF o, through
  <2> QED
    BY <1>1, PrintLeaves, Zenon
<1>4. Sound(entry[t], o, pos[t])
  BY DEF IInv
<1>5. /\ tp' = [tp EXCEPT ![t] = r]
      /\ entry' = [entry EXCEPT ![t] = entry[t]]
      /\ todo' \subseteq Tokens
  BY Zenon DEF PrintBuy, IInv, TypeOK
<1>6. CASE f = 0
  <2>1. Sound(entry[t], r, pos[t])
    <3>1. Left(r) = Left(o)
      BY <1>1, <1>3, <1>6 DEF OrderType, Left
    <3> HIDE DEF r, f
    <3> QED
      BY <1>3, <1>4, <3>1 DEF Sound
  <2>2. /\ pos' = [pos EXCEPT ![t] = pos[t]]
        /\ inv' \in Nat /\ aged' = aged /\ (t \in aged' => pos[t].size > 0)
    BY <1>6 DEF PrintBuy, IInv, TypeOK, Long
  <2> HIDE DEF r
  <2> QED
    BY <1>5, <2>1, <2>2, OneToken
<1>7. CASE f # 0
  <2> DEFINE p == Reduced(pos[t], f)
  <2>1. /\ pos[t] \in PosType /\ f \in Nat /\ f <= pos[t].size
        /\ pos[t].size \in Nat \ {0}
    BY <1>1, <1>2, <1>4, <1>7 DEF Sound, PosType, OrderType, Left
  <2>3. /\ p \in PosType
        /\ p.size = pos[t].size - f
        /\ f < pos[t].size => p.price = pos[t].price
    <3> HIDE DEF f
    <3> QED
      BY <2>1, SaleReduces
  <2>4. /\ pos' = [pos EXCEPT ![t] = p]
        /\ inv' = InvAfter(pos[t], f)
        /\ aged' = IF f = pos[t].size THEN aged \ {t} ELSE aged
    BY <1>7, Zenon DEF PrintBuy
  <2>5. inv' \in Nat
    BY <2>1, <2>4, InvStaysNat DEF IInv, TypeOK
  <2>6. aged' \subseteq aged \union {t} /\ (t \in aged' => p.size > 0)
    BY <2>1, <2>3, <2>4 DEF PosType
  <2>7. Sound(entry[t], r, p)
    <3>1. Left(r) <= p.size /\ p.size + Left(entry[t]) <= Size
      BY <1>1, <1>2, <1>3, <1>4, <2>1, <2>3, MakerAssumption
      DEF Sound, PosType, OrderType, Left
    <3>2. p.size > 0 => p.price = pos[t].price /\ pos[t].size > 0
      BY <2>1, <2>3 DEF PosType
    <3> HIDE DEF r, p, f
    <3> QED
      BY <1>3, <1>4, <2>3, <3>1, <3>2 DEF Sound
  <2> HIDE DEF r, p
  <2> QED
    BY <1>5, <2>4, <2>5, <2>6, <2>7, OneToken
<1> QED
  BY <1>6, <1>7

\* What a visit of the risk loop does: it may close the position, drop the
\* quote, and place a new one if neither is left.
LEMMA RiskTokenKeeps ==
    ASSUME IInv, NEW t \in Tokens, NEW bid \in Nat, NEW ask \in Nat, NEW stale \in BOOLEAN,
           RiskToken(t, bid, ask, stale)
    PROVE  IInv'
<1> DEFINE kept == IF Withdrawn(t, bid, stale) THEN NoOrder ELSE entry[t]
<1>1. /\ NoOrder \in OrderType /\ Left(NoOrder) = 0 /\ ~Resting(NoOrder)
  BY MakerAssumption DEF NoOrder, OrderType, Left, Resting
<1>2. Sound(entry[t], tp[t], pos[t])
  BY DEF IInv
<1>3. /\ CheckRisk(t, bid, stale) /\ MaybeQuote(t, kept, bid, ask)
      /\ todo' \subseteq Tokens
  BY DEF RiskToken, IInv, TypeOK
\* check_risk: what is left of the position and its take-profit.
<1>4. /\ tp' = [tp EXCEPT ![t] = tp'[t]] /\ pos' = [pos EXCEPT ![t] = pos'[t]]
      /\ inv' \in Nat
      /\ aged' \subseteq aged \union {t} /\ (t \in aged' => pos'[t].size > 0)
      /\ Sound(entry[t], tp'[t], pos'[t])
  <2>1. CASE MustExit(t, bid)
    <3> DEFINE p == Reduced(pos[t], pos[t].size)
    <3>1. /\ pos' = [pos EXCEPT ![t] = p]
          /\ tp' = [tp EXCEPT ![t] = NoOrder]
          /\ inv' = InvAfter(pos[t], pos[t].size)
          /\ aged' = aged \ {t}
      BY <1>3, <2>1, Zenon DEF CheckRisk
    <3>2. pos[t] \in PosType /\ pos[t].size \in Nat
      BY <1>2, MakerAssumption DEF Sound, PosType
    <3>3. p \in PosType /\ p.size = pos[t].size - pos[t].size
      BY <3>2, SaleReduces
    <3>4. pos'[t] = p /\ tp'[t] = NoOrder
      BY <3>1, Zenon DEF IInv, TypeOK
    <3>5. inv' \in Nat
      BY <3>1, <3>2, InvStaysNat DEF IInv, TypeOK
    <3>6. p.size = 0
      BY <3>2, <3>3
    <3>7. Left(entry[t]) \in Nat /\ Left(entry[t]) <= Size
      BY <1>1, <1>2, MakerAssumption DEF Sound, OrderType, PosType, Left
    <3>8. Sound(entry[t], NoOrder, p)
      <4> HIDE DEF p
      <4> QED
        BY <1>1, <1>2, <3>3, <3>6, <3>7 DEF Sound
    <3> QED
      BY <3>1, <3>4, <3>5, <3>8, Zenon
  <2>2. CASE ~MustExit(t, bid)
    <3>1. pos' = pos /\ tp' = tp /\ inv' = inv /\ aged' = aged
      BY <1>3, <2>2, Zenon DEF CheckRisk
    <3> QED
      BY <1>2, <3>1 DEF IInv, TypeOK, Long
  <2> QED
    BY <2>1, <2>2
\* The old quote, if it is kept.
<1>5. Sound(kept, tp'[t], pos'[t])
  <2>1. pos'[t].size + 0 <= Size
    BY <1>1, <1>4, MakerAssumption DEF Sound, PosType
  <2> QED
    BY <1>1, <1>4, <2>1 DEF Sound
\* maybe_quote.
<1>6. PICK e : entry' = [entry EXCEPT ![t] = e] /\ Sound(e, tp'[t], pos'[t])
  <2>1. CASE MayQuote(t, kept) /\ Quotable(bid, ask) /\ inv' < MaxInv
    <3> DEFINE price == QuotePrice(bid, ask)
    <3>1. PICK q \in QueueAt(price, bid) : entry' = [entry EXCEPT ![t] =
              [price |-> price, size |-> Size, filled |-> 0, queue |-> q]]
      BY <1>3, <2>1 DEF MaybeQuote
    <3> DEFINE e == [price |-> price, size |-> Size, filled |-> 0, queue |-> q]
    <3>2. price \in Nat /\ q \in 0 .. MaxQueue
      BY MakerAssumption DEF QuotePrice, QueueAt
    <3>3. e \in OrderType /\ Left(e) = Size /\ Left(e) > 0
      BY <3>2, MakerAssumption DEF OrderType, Left
    <3>4. pos'[t].size = 0
      BY <2>1 DEF MayQuote
    <3>5. Sound(e, tp'[t], pos'[t])
      <4>1. pos'[t].size + Left(e) <= Size
        BY <3>3, <3>4, MakerAssumption
      <4> HIDE DEF e
      <4> QED
        BY <1>4, <3>3, <3>4, <4>1 DEF Sound
    <3> QED
      BY <3>1, <3>5
  <2>2. CASE ~(MayQuote(t, kept) /\ Quotable(bid, ask) /\ inv' < MaxInv)
    <3>1. entry' = [entry EXCEPT ![t] = kept]
      BY <1>3, <2>2 DEF MaybeQuote
    <3> QED
      BY <1>5, <3>1
  <2> QED
    BY <2>1, <2>2
<1> QED
  BY <1>3, <1>4, <1>6, OneToken
-----------------------------------------------------------------------------
\* The quote, the take-profit and the position of every token fit together.
THEOREM InvariantHolds == Spec => []IInv
<1>1. IInv /\ [Next]_vars => IInv'
  <2> SUFFICES ASSUME IInv, [Next]_vars PROVE IInv'
    OBVIOUS
  <2>1. CASE Prints
    BY <2>1, PrintSellKeeps, PrintBuyKeeps DEF Prints
  <2>2. CASE RiskPass
    BY <2>2, Zenon DEF RiskPass, IInv, TypeOK, Long
  <2>3. CASE Visits
    <3>1. PICK t \in Tokens, b \in Books, stale \in BOOLEAN : RiskToken(t, b[1], b[2], stale)
      BY <2>3 DEF Visits, VisitOn
    <3>2. b[1] \in Nat /\ b[2] \in Nat
      <4>1. b \in (Prices \union {0}) \X (Prices \union {0})
        BY DEF Books
      <4>2. b[1] \in Prices \union {0} /\ b[2] \in Prices \union {0}
        BY <4>1
      <4>3. Prices \union {0} \subseteq Nat
        BY MakerAssumption
      <4> QED
        BY <4>2, <4>3, Zenon
    <3> QED
      BY <3>1, <3>2, RiskTokenKeeps
  <2>4. ASSUME NEW t \in Tokens, Age(t) PROVE IInv'
    BY <2>4 DEF Age, IInv, TypeOK, Long
  <2>5. CASE UNCHANGED vars
    BY <2>5, Zenon DEF vars, IInv, TypeOK, Long
  <2> QED
    BY <2>1, <2>2, <2>3, <2>4, <2>5 DEF Next
<1> QED
  BY InitSound, <1>1, PTL DEF Spec

\* Type correctness of the maker: no fill and no sale leaves its range, and
\* the averaged price and the inventory stay natural numbers.
THEOREM TypeCorrect == Spec => []TypeOK
<1>1. IInv => TypeOK
  BY DEF IInv
<1> QED
  BY <1>1, InvariantHolds, PTL

\* The take-profit never offers more than is held.
THEOREM TpWithinPosition == Spec => []TpNeverOversells
<1>1. IInv => TpNeverOversells
  BY DEF IInv, Sound, TpNeverOversells
<1> QED
  BY <1>1, InvariantHolds, PTL

\* A position is never built from two prices: the average over its fills is
\* the price of the quote that opened it.
THEOREM AverageIsEntryPrice == Spec => []OneEntryPrice
<1>1. IInv => OneEntryPrice
  BY DEF IInv, Sound, OneEntryPrice, Long
<1> QED
  BY <1>1, InvariantHolds, PTL

\* The position and the rest of the quote never add up to more than a quote.
THEOREM TokenWithinQuote == Spec => []OneQuotePerToken
<1>1. IInv => OneQuotePerToken
  BY DEF IInv, Sound, OneQuotePerToken
<1> QED
  BY <1>1, InvariantHolds, PTL
-----------------------------------------------------------------------------
(* The inventory.  A fill adds its cost, a sale takes off what the shares  *)
(* had cost; both change one term of the sum.                              *)

CostOf(q) == SumFunctionOnSet([t \in Tokens |-> q[t].price * q[t].size], Tokens)

\* The cost of the tokens when the position of one of them changes.
LEMMA CostMoves ==
    ASSUME pos \in [Tokens -> PosType], NEW t \in Tokens, NEW p \in PosType,
           pos' = [pos EXCEPT ![t] = p]
    PROVE  /\ CostOf(pos) \in Nat /\ pos[t].price * pos[t].size \in Nat
           /\ p.price * p.size \in Nat
           /\ pos[t].price * pos[t].size <= CostOf(pos)
           /\ CostOf(pos') = CostOf(pos) - pos[t].price * pos[t].size + p.price * p.size
<1> DEFINE f == [u \in Tokens |-> pos[u].price * pos[u].size]
           g == [u \in Tokens |-> pos'[u].price * pos'[u].size]
<1>1. \A u \in Tokens : f[u] \in Nat
  <2> SUFFICES ASSUME NEW u \in Tokens PROVE f[u] \in Nat
    OBVIOUS
  <2>1. pos[u].price \in Nat /\ pos[u].size \in Nat
    BY MakerAssumption DEF PosType
  <2> QED
    BY <2>1, ProductIsNat
<1>2. p.price * p.size \in Nat
  <2>1. p.price \in Nat /\ p.size \in Nat
    BY MakerAssumption DEF PosType
  <2> QED
    BY <2>1, ProductIsNat
<1>3. f[t] = pos[t].price * pos[t].size /\ g[t] = p.price * p.size
  BY Zenon
<1>4. \A u \in Tokens \ {t} : f[u] = g[u]
  BY Zenon
<1> HIDE DEF f, g
<1>5. \A u \in Tokens : f[u] \in Int /\ g[u] \in Int
  BY <1>1, <1>2, <1>3, <1>4
<1>6. SumFunctionOnSet(g, Tokens) = SumFunctionOnSet(f, Tokens) - f[t] + g[t]
  BY <1>4, <1>5, SumChange, MakerAssumption
<1>7. SumFunctionOnSet(f, Tokens) \in Nat /\ f[t] <= SumFunctionOnSet(f, Tokens)
  BY <1>1, SumNat, SumTerm, MakerAssumption
<1>8. CostOf(pos) = SumFunctionOnSet(f, Tokens) /\ CostOf(pos') = SumFunctionOnSet(g, Tokens)
  BY DEF CostOf, f, g
<1>9. f[t] \in Nat
  BY <1>1
<1> QED
  BY <1>2, <1>3, <1>6, <1>7, <1>8, <1>9

LEMMA Distributes ==
    ASSUME NEW a \in Int, NEW b \in Int, NEW c \in Int
    PROVE  a * (b + c) = a * b + a * c /\ a * (b - c) = a * b - a * c
  OBVIOUS

LEMMA BidCosts ==
    ASSUME IInv, InventoryIsCost, NEW t \in Tokens, NEW price \in Prices,
           NEW n \in 1 .. MaxPrint, PrintSell(t, price, n)
    PROVE  InventoryIsCost'
<1> DEFINE f == FilledBy(entry[t], price < entry[t].price, n)
           p == Enlarged(pos[t], entry[t].price, f)
           paid == entry[t].price
           old == pos[t].size
<1>1. paid \in Nat /\ old \in Nat /\ pos \in [Tokens -> PosType] /\ inv \in Nat
      /\ Left(entry[t]) \in Int
  BY MakerAssumption DEF IInv, TypeOK, OrderType, PosType, Left
<1>2. /\ f \in 0 .. Left(entry[t])
      /\ f = 0 => pos' = pos /\ inv' = inv
      /\ f # 0 => /\ pos' = [pos EXCEPT ![t] = p] /\ inv' = inv + paid * f
                  /\ p \in PosType /\ p.size = old + f /\ p.price = paid
                  /\ old > 0 => pos[t].price = paid
  BY BidFills
<1> HIDE DEF f, p
<1>3. CASE f = 0
  BY <1>2, <1>3 DEF InventoryIsCost
<1>4. CASE f # 0
  <2>1. f \in Nat
    BY <1>1, <1>2
  <2>2. /\ CostOf(pos) \in Nat
        /\ CostOf(pos') = CostOf(pos) - pos[t].price * old + p.price * p.size
    BY <1>1, <1>2, <1>4, CostMoves
  <2>3. p.price * p.size = paid * old + paid * f
    BY <1>1, <1>2, <1>4, <2>1, Distributes
  <2>4. pos[t].price * old = paid * old
    <3>1. CASE old = 0
      <4>1. pos[t].price \in Nat
        BY <1>1 DEF PosType
      <4> HIDE DEF old, paid
      <4>2. pos[t].price * old = 0 /\ paid * old = 0
        BY <1>1, <3>1, <4>1
      <4> QED
        BY <4>2
    <3>2. CASE old > 0
      BY <1>2, <1>4, <3>2
    <3> QED
      BY <1>1, <3>1, <3>2
  <2>5. inv = CostOf(pos)
    BY DEF InventoryIsCost, CostOf
  <2>6. paid * old \in Nat /\ paid * f \in Nat
    BY <1>1, <2>1, ProductIsNat
  <2>7. inv' = inv + paid * f
    BY <1>2, <1>4
  <2> HIDE DEF paid, old
  <2>8. inv' = CostOf(pos')
    BY <2>2, <2>3, <2>4, <2>5, <2>6, <2>7
  <2> QED
    BY <2>8 DEF InventoryIsCost, CostOf
<1> QED
  BY <1>3, <1>4

\* The floor at zero is never reached: the sum holds at least what is sold.
LEMMA SaleCosts ==
    ASSUME IInv, InventoryIsCost, NEW t \in Tokens, NEW n \in Nat, n <= pos[t].size,
           pos' = [pos EXCEPT ![t] = Reduced(pos[t], n)], inv' = InvAfter(pos[t], n)
    PROVE  InventoryIsCost'
<1> DEFINE p == Reduced(pos[t], n)
           cost == pos[t].price
           old == pos[t].size
<1>1. cost \in Nat /\ old \in Nat /\ pos \in [Tokens -> PosType] /\ inv \in Nat
      /\ pos[t] \in PosType
  BY MakerAssumption DEF IInv, TypeOK, PosType
<1>2. p \in PosType /\ p.size = old - n /\ (n < old => p.price = cost)
  BY <1>1, SaleReduces
<1> HIDE DEF p
<1>3. /\ CostOf(pos) \in Nat /\ cost * old <= CostOf(pos)
      /\ CostOf(pos') = CostOf(pos) - cost * old + p.price * p.size
  BY <1>1, <1>2, CostMoves DEF p
<1>4. p.price * p.size = cost * old - cost * n
  <2>1. cost * (old - n) = cost * old - cost * n
    BY <1>1, Distributes
  <2>2. CASE n < old
    BY <1>2, <2>1, <2>2
  <2>3. CASE n = old
    <3>1. p.size = 0 /\ old - n = 0 /\ p.price \in Nat
      BY <1>1, <1>2, <2>3 DEF PosType
    <3> HIDE DEF cost, old
    <3>2. p.price * p.size = 0 /\ cost * (old - n) = 0
      BY <1>1, <3>1
    <3> QED
      BY <2>1, <3>2
  <2> QED
    BY <1>1, <2>2, <2>3
<1>5. inv = CostOf(pos)
  BY DEF InventoryIsCost, CostOf
<1>6. cost * old \in Nat /\ cost * n \in Nat /\ p.price * p.size \in Nat
  <2>1. p.price \in Nat /\ p.size \in Nat
    BY <1>2, MakerAssumption DEF PosType
  <2> QED
    BY <1>1, <2>1, ProductIsNat
<1>7. inv' = IF inv >= cost * n THEN inv - cost * n ELSE 0
  BY DEF InvAfter
<1> HIDE DEF cost, old
<1>8. inv' = CostOf(pos')
  BY <1>3, <1>4, <1>5, <1>6, <1>7
<1> QED
  BY <1>8 DEF InventoryIsCost, CostOf

LEMMA NextCosts == IInv /\ InventoryIsCost /\ [Next]_vars => InventoryIsCost'
<1> SUFFICES ASSUME IInv, InventoryIsCost, [Next]_vars PROVE InventoryIsCost'
  OBVIOUS
<1>1. CASE UNCHANGED <<pos, inv>>
  BY <1>1 DEF InventoryIsCost
<1>2. ASSUME NEW t \in Tokens, NEW price \in Prices, NEW n \in 1 .. MaxPrint,
             PrintBuy(t, price, n)
      PROVE  InventoryIsCost'
  <2> DEFINE f == FilledBy(tp[t], price > tp[t].price, n)
  <2>1. /\ f \in Nat /\ f <= pos[t].size
        /\ f = 0 => pos' = pos /\ inv' = inv
        /\ f # 0 => /\ pos' = [pos EXCEPT ![t] = Reduced(pos[t], f)]
                    /\ inv' = InvAfter(pos[t], f)
    BY <1>2, TpSells
  <2> HIDE DEF f
  <2> QED
    BY <1>1, <2>1, SaleCosts
<1>3. ASSUME NEW t \in Tokens, NEW bid, NEW ask, NEW stale, RiskToken(t, bid, ask, stale)
      PROVE  InventoryIsCost'
  <2>1. \/ UNCHANGED <<pos, inv>>
        \/ /\ pos' = [pos EXCEPT ![t] = Reduced(pos[t], pos[t].size)]
           /\ inv' = InvAfter(pos[t], pos[t].size)
    BY <1>3, Zenon DEF RiskToken, CheckRisk
  <2>2. pos[t].size \in Nat /\ pos[t].size <= pos[t].size
    BY MakerAssumption DEF IInv, TypeOK
  <2> QED
    BY <1>1, <2>1, <2>2, SaleCosts
<1>4. CASE RiskPass \/ (\E t \in Tokens : Age(t)) \/ UNCHANGED vars
  BY <1>1, <1>4 DEF RiskPass, Age, vars
<1> QED
  BY <1>2, <1>3, <1>4, BidCosts DEF Next, Prints, Visits, VisitOn

\* Nothing is held at the start.
LEMMA InitCosts == Init => InventoryIsCost
<1> SUFFICES ASSUME Init PROVE InventoryIsCost
  OBVIOUS
<1> DEFINE f == [t \in Tokens |-> pos[t].price * pos[t].size]
<1>1. \A t \in Tokens : f[t] = 0
  BY DEF Init, Flat
<1> HIDE DEF f
<1>2. SumFunctionOnSet(f, Tokens) = 0
  BY <1>1, SumZero, MakerAssumption
<1> QED
  BY <1>2 DEF Init, InventoryIsCost, f

\* The running total that bounds new quotes is the cost of what is held, over
\* all tokens and however it was bought and sold, and its floor hides nothing.
THEOREM InventoryAddsUp == Spec => []InventoryIsCost
<1>1. IInv /\ InventoryIsCost /\ [Next]_vars => InventoryIsCost'
  BY NextCosts
<1> QED
  BY InitCosts, <1>1, InvariantHolds, PTL DEF Spec
=============================================================================
