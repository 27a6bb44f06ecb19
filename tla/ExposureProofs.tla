--------------------------- MODULE ExposureProofs ---------------------------
(* Theorems of Exposure, for every value of its constants. *)
EXTENDS Exposure, SumLemmas

(* The inductive invariant. *)

\* While a scan runs, its copy never shows less than the market holds.
CopyCoversBook == pc = "scan" => \A m \in Markets : open[m] <= exposure[m]
\* The model arm looks only at markets it runs.
TurnIsModel == turn # None => Runs(turn, "model")
\* Where only the touch arm runs, nothing rests in a model slot.
NoModelOrders ==
    \A m \in Markets, side \in Sides, p \in Slots :
        TouchOnly(m) => rest[<<m, side, p>>] = 0

IInv == TypeOK /\ CopyCoversBook /\ TurnIsModel /\ NoModelOrders
        /\ OvershootIsOneOrder

-----------------------------------------------------------------------------
(* Lemmas. *)

\* An order is a market, a side and a place; the touch arm's place is no slot.
LEMMA OrderShape ==
    /\ \A m \in Markets, side \in Sides : <<m, side, 0>> \in Orders
    /\ \A m \in Markets, side \in Sides, p \in Slots : <<m, side, p>> \in Orders /\ p # 0
    /\ \A o \in Orders : /\ o[1] \in Markets /\ o[2] \in Sides
                         /\ o[3] = 0 \/ o[3] \in Slots
                         /\ o = <<o[1], o[2], o[3]>>
BY SMT, ExposureAssumption DEF Orders

\* What an accepted order does to the book: the bets of its market and the
\* order itself share the new stake.
LEMMA SubmitEffect ==
    ASSUME TypeOK, NEW o \in Orders, NEW stake \in Nat, Submit(o, stake)
    PROVE  /\ open' \in [Markets -> Nat] /\ rest' \in [Orders -> Nat]
           /\ \A m \in Markets \ {o[1]} : open'[m] = open[m]
           /\ \A q \in Orders \ {o} : rest'[q] = rest[q]
           /\ open'[o[1]] + rest'[o] <= open[o[1]] + rest[o] + stake
           /\ rest'[o] <= rest[o] + stake
<1> PICK filled \in 0 .. stake :
        /\ open' = [open EXCEPT ![o[1]] = @ + filled]
        /\ \E left \in {0, stake - filled} : rest' = [rest EXCEPT ![o] = @ + left]
  BY DEF Submit
<1> PICK left \in {0, stake - filled} : rest' = [rest EXCEPT ![o] = @ + left]
  OBVIOUS
<1>1. filled \in Nat /\ left \in Nat /\ left + filled <= stake /\ o[1] \in Markets
  BY SMT, OrderShape
<1>2. open[o[1]] \in Nat /\ rest[o] \in Nat
  BY <1>1 DEF TypeOK
<1>3. open[o[1]] + filled \in Nat /\ rest[o] + left \in Nat
  BY SMT, <1>1, <1>2
<1>4. open'[o[1]] = open[o[1]] + filled /\ rest'[o] = rest[o] + left
  BY <1>1 DEF TypeOK
<1>5. open' \in [Markets -> Nat] /\ rest' \in [Orders -> Nat]
  BY <1>3 DEF TypeOK
<1>6. /\ \A m \in Markets \ {o[1]} : open'[m] = open[m]
      /\ \A q \in Orders \ {o} : rest'[q] = rest[q]
  BY DEF TypeOK
<1>7. open'[o[1]] + rest'[o] <= open[o[1]] + rest[o] + stake /\ rest'[o] <= rest[o] + stake
  BY SMT, <1>1, <1>2, <1>4
<1> QED BY <1>5, <1>6, <1>7

\* A book that moves from orders to bets, or shrinks, keeps the invariant
\* parts that are about the book alone.
LEMMA BookKeeps ==
    ASSUME IInv,
           open' \in [Markets -> Nat], rest' \in [Orders -> Nat],
           \A q \in Orders : rest'[q] <= rest[q],
           \A m \in Markets : \/ open'[m] <= open[m]
                              \/ \E q \in Orders : /\ q[1] = m
                                                   /\ open'[m] + rest'[q] <= open[m] + rest[q]
    PROVE  /\ \A m \in Markets, side \in Sides : rest'[<<m, side, 0>>] <= TouchStake
           /\ NoModelOrders' /\ OvershootIsOneOrder'
<1>1. ASSUME NEW m \in Markets, NEW side \in Sides
      PROVE  rest'[<<m, side, 0>>] <= TouchStake
  <2>1. <<m, side, 0>> \in Orders
    BY OrderShape
  <2>2. rest[<<m, side, 0>>] <= TouchStake
    BY DEF IInv, TypeOK
  <2> QED BY SMT, <2>1, <2>2, ExposureAssumption DEF IInv, TypeOK
<1>2. NoModelOrders'
  <2> SUFFICES ASSUME NEW m \in Markets, NEW side \in Sides, NEW p \in Slots, TouchOnly(m)
               PROVE  rest'[<<m, side, p>>] = 0
    BY DEF NoModelOrders, TouchOnly, Runs
  <2>1. <<m, side, p>> \in Orders
    BY OrderShape
  <2>2. rest[<<m, side, p>>] = 0
    BY DEF IInv, NoModelOrders
  <2>3. rest'[<<m, side, p>>] \in Nat /\ rest'[<<m, side, p>>] <= 0
    BY <2>1, <2>2
  <2> QED BY SMT, <2>3
<1>3. OvershootIsOneOrder'
  <2> SUFFICES ASSUME NEW m \in Markets, TouchOnly(m)
               PROVE  open'[m] + rest'[<<m, "yes", 0>>] + rest'[<<m, "no", 0>>]
                        <= TouchCap + TouchStake
    BY DEF OvershootIsOneOrder, TouchOnly, Runs
  <2> DEFINE y == <<m, "yes", 0>>
             n == <<m, "no", 0>>
  <2>1. y \in Orders /\ n \in Orders
    BY OrderShape DEF Sides
  <2>2. open[m] + rest[y] + rest[n] <= TouchCap + TouchStake
    BY DEF IInv, OvershootIsOneOrder
  <2>3. /\ open[m] \in Nat /\ rest[y] \in Nat /\ rest[n] \in Nat
        /\ open'[m] \in Nat /\ rest'[y] \in Nat /\ rest'[n] \in Nat
        /\ rest'[y] <= rest[y] /\ rest'[n] <= rest[n]
        /\ TouchCap + TouchStake \in Nat
    <3>1. TouchCap + TouchStake \in Nat
      BY SMT, ExposureAssumption
    <3> HIDE DEF y, n
    <3> QED BY <2>1, <3>1 DEF IInv, TypeOK
  <2>4. CASE open'[m] <= open[m]
    <3> HIDE DEF y, n
    <3> QED BY SMT, <2>2, <2>3, <2>4 DEF y, n
  <2>5. ASSUME NEW q \in Orders, q[1] = m, open'[m] + rest'[q] <= open[m] + rest[q]
        PROVE  open'[m] + rest'[y] + rest'[n] <= TouchCap + TouchStake
    <3>1. q = y \/ q = n \/ q[3] \in Slots
      BY <2>5, OrderShape DEF Sides
    <3>2. CASE q = y
      <4> HIDE DEF y, n
      <4> QED BY SMT, <2>2, <2>3, <2>5, <3>2
    <3>3. CASE q = n
      <4> HIDE DEF y, n
      <4> QED BY SMT, <2>2, <2>3, <2>5, <3>3
    <3>4. CASE q[3] \in Slots
      <4>1. q = <<m, q[2], q[3]>> /\ q[2] \in Sides
        BY <2>5, OrderShape
      <4>2. rest[q] = 0
        BY <4>1, <3>4 DEF IInv, NoModelOrders
      <4>3. rest'[q] \in Nat /\ rest'[q] <= 0
        BY <2>5, <4>2
      <4>4. rest'[q] = 0
        BY SMT, <4>3
      <4> HIDE DEF y, n
      <4> QED BY SMT, <2>2, <2>3, <2>5, <4>2, <4>4
    <3> QED BY <3>1, <3>2, <3>3, <3>4
  <2> QED BY <2>4, <2>5
<1> QED BY <1>1, <1>2, <1>3

-----------------------------------------------------------------------------
(* The invariant holds at first, and every step keeps it. *)

LEMMA InitInvariant == Init => IInv
<1> SUFFICES ASSUME Init PROVE IInv
  OBVIOUS
<1>1. TypeOK
  <2>1. \A m \in Markets, side \in Sides : rest[<<m, side, 0>>] = 0
    BY OrderShape DEF Init
  <2>2. 0 <= TouchStake
    BY SMT, ExposureAssumption
  <2> QED BY <2>1, <2>2, SMT DEF Init, TypeOK, NoBets, NoBudget
<1>2. CopyCoversBook /\ TurnIsModel
  BY DEF Init, CopyCoversBook, TurnIsModel
<1>3. NoModelOrders
  BY OrderShape DEF Init, NoModelOrders
<1>4. OvershootIsOneOrder
  <2> SUFFICES ASSUME NEW m \in Markets
               PROVE  open[m] + rest[<<m, "yes", 0>>] + rest[<<m, "no", 0>>]
                        <= TouchCap + TouchStake
    BY DEF OvershootIsOneOrder
  <2>1. open[m] = 0 /\ rest[<<m, "yes", 0>>] = 0 /\ rest[<<m, "no", 0>>] = 0
    BY OrderShape DEF Init, NoBets, Sides
  <2> QED BY SMT, <2>1, ExposureAssumption
<1> QED BY <1>1, <1>2, <1>3, <1>4 DEF IInv

\* Reconcile moves an amount from an order to its bets, or drops the order.
LEMMA SyncKeeps == ASSUME IInv, NEW o \in Orders, Sync(o) PROVE IInv'
<1>0. PICK filled \in 0 .. rest[o] :
        /\ open' = [open EXCEPT ![o[1]] = @ + filled]
        /\ \E left \in {0, rest[o] - filled} : rest' = [rest EXCEPT ![o] = left]
  BY DEF Sync
<1>1. PICK left \in {0, rest[o] - filled} : rest' = [rest EXCEPT ![o] = left]
  BY <1>0
<1>2. open[o[1]] \in Nat /\ rest[o] \in Nat /\ o[1] \in Markets
  BY OrderShape DEF IInv, TypeOK
<1>3. /\ open[o[1]] + filled \in Nat /\ left \in Nat
      /\ left <= rest[o] /\ open[o[1]] + filled + left <= open[o[1]] + rest[o]
  BY SMT, <1>1, <1>2
<1>4. open' \in [Markets -> Nat] /\ rest' \in [Orders -> Nat]
  BY <1>0, <1>1, <1>3 DEF IInv, TypeOK
<1>5. open'[o[1]] = open[o[1]] + filled /\ rest'[o] = left
  BY <1>0, <1>1, <1>2 DEF IInv, TypeOK
<1>6. \A q \in Orders : rest'[q] <= rest[q]
  <2> SUFFICES ASSUME NEW q \in Orders PROVE rest'[q] <= rest[q]
    OBVIOUS
  <2>1. CASE q = o
    BY <1>3, <1>5, <2>1
  <2>2. CASE q # o
    <3>1. rest'[q] = rest[q] /\ rest[q] \in Nat
      BY <1>1, <2>2 DEF IInv, TypeOK
    <3> QED BY SMT, <3>1
  <2> QED BY <2>1, <2>2
<1>7. \A m \in Markets : \/ open'[m] <= open[m]
                         \/ \E q \in Orders : /\ q[1] = m
                                              /\ open'[m] + rest'[q] <= open[m] + rest[q]
  <2> SUFFICES ASSUME NEW m \in Markets
               PROVE  \/ open'[m] <= open[m]
                      \/ \E q \in Orders : /\ q[1] = m
                                           /\ open'[m] + rest'[q] <= open[m] + rest[q]
    OBVIOUS
  <2>1. CASE m = o[1]
    <3>1. open'[m] + rest'[o] <= open[m] + rest[o]
      BY <1>3, <1>5, <2>1
    <3> QED BY <3>1, <2>1
  <2>2. CASE m # o[1]
    <3>1. open'[m] = open[m] /\ open[m] \in Nat
      BY <1>0, <2>2 DEF IInv, TypeOK
    <3> QED BY SMT, <3>1
  <2> QED BY <2>1, <2>2
<1>8. /\ \A m \in Markets, side \in Sides : rest'[<<m, side, 0>>] <= TouchStake
      /\ NoModelOrders' /\ OvershootIsOneOrder'
  BY <1>4, <1>6, <1>7, BookKeeps
<1>9. UNCHANGED <<exposure, budget, todo, turn, pc>> /\ pc = "sync"
  BY DEF Sync, scan
<1>10. TypeOK'
  BY <1>4, <1>8, <1>9 DEF IInv, TypeOK
<1>11. CopyCoversBook' /\ TurnIsModel'
  BY <1>9 DEF IInv, CopyCoversBook, TurnIsModel, Runs
<1> QED BY <1>8, <1>10, <1>11 DEF IInv

\* Bets that end, and orders that are cancelled.
LEMMA ShrinkKeeps ==
    ASSUME IInv, pc # "scan", UNCHANGED <<scan, pc>>,
           open' \in [Markets -> Nat], rest' \in [Orders -> Nat],
           \A m \in Markets : open'[m] <= open[m],
           \A q \in Orders : rest'[q] <= rest[q]
    PROVE  IInv'
<1>1. /\ \A m \in Markets, side \in Sides : rest'[<<m, side, 0>>] <= TouchStake
      /\ NoModelOrders' /\ OvershootIsOneOrder'
  BY BookKeeps
<1>2. UNCHANGED <<exposure, budget, todo, turn, pc>>
  BY DEF scan
<1>3. TypeOK'
  BY <1>1, <1>2 DEF IInv, TypeOK
<1>4. CopyCoversBook' /\ TurnIsModel'
  BY <1>2 DEF IInv, CopyCoversBook, TurnIsModel, Runs
<1> QED BY <1>1, <1>3, <1>4 DEF IInv

\* A step that leaves the book alone keeps what is about the book.
LEMMA SameBook ==
    ASSUME IInv, UNCHANGED book
    PROVE  /\ open' \in [Markets -> Nat] /\ rest' \in [Orders -> Nat]
           /\ \A m \in Markets, side \in Sides : rest'[<<m, side, 0>>] <= TouchStake
           /\ NoModelOrders' /\ OvershootIsOneOrder'
BY DEF book, IInv, TypeOK, NoModelOrders, OvershootIsOneOrder, TouchOnly, Runs

LEMMA SettleKeeps == ASSUME IInv, NEW m \in Markets, Settle(m) PROVE IInv'
<1>1. open' \in [Markets -> Nat] /\ \A n \in Markets : open'[n] <= open[n]
  BY SMT DEF Settle, IInv, TypeOK
<1>2. rest' \in [Orders -> Nat] /\ \A q \in Orders : rest'[q] <= rest[q]
  BY SMT DEF Settle, IInv, TypeOK
<1>3. UNCHANGED <<scan, pc>> /\ pc # "scan"
  BY DEF Settle
<1> QED BY <1>1, <1>2, <1>3, ShrinkKeeps

LEMMA ExitKeeps == ASSUME IInv, NEW m \in Markets, Exit(m) PROVE IInv'
<1>1. open' \in [Markets -> Nat] /\ \A n \in Markets : open'[n] <= open[n]
  <2> PICK left \in 0 .. open[m] : open' = [open EXCEPT ![m] = left]
    BY DEF Exit
  <2> QED BY SMT DEF IInv, TypeOK
<1>2. rest' \in [Orders -> Nat] /\ \A q \in Orders : rest'[q] <= rest[q]
  BY SMT DEF Exit, IInv, TypeOK
<1>3. UNCHANGED <<scan, pc>> /\ pc # "scan"
  BY DEF Exit
<1> QED BY <1>1, <1>2, <1>3, ShrinkKeeps

LEMMA ExpireKeeps == ASSUME IInv, NEW o \in Orders, Expire(o) PROVE IInv'
<1>1. open' \in [Markets -> Nat] /\ \A n \in Markets : open'[n] <= open[n]
  BY SMT DEF Expire, IInv, TypeOK
<1>2. rest' \in [Orders -> Nat] /\ \A q \in Orders : rest'[q] <= rest[q]
  BY SMT DEF Expire, IInv, TypeOK
<1>3. UNCHANGED <<scan, pc>> /\ pc # "scan"
  BY DEF Expire
<1> QED BY <1>1, <1>2, <1>3, ShrinkKeeps

\* The scan starts on a copy of the book.
LEMMA StartKeeps == ASSUME IInv, StartScan PROVE IInv'
<1>1. UNCHANGED book /\ turn' = turn /\ exposure' = open /\ todo' \subseteq Markets
      /\ pc' = "scan"
  BY DEF StartScan
<1>2. budget' \in [Sports -> Nat]
  BY ExposureAssumption DEF StartScan
<1>3. open' = open
  BY <1>1 DEF book
<1>4. TypeOK'
  BY <1>1, <1>2, SameBook DEF IInv, TypeOK
<1>5. CopyCoversBook'
  <2>1. \A m \in Markets : open[m] <= open[m]
    BY SMT DEF IInv, TypeOK
  <2> QED BY <1>1, <1>3, <2>1 DEF CopyCoversBook
<1>6. TurnIsModel'
  BY <1>1 DEF IInv, TurnIsModel, Runs
<1> QED BY <1>1, <1>4, <1>5, <1>6, SameBook DEF IInv

\* Whose turn it is after the touch arm's.
LEMMA PassedTurn ==
    ASSUME NEW m \in Markets, Passed(m)
    PROVE  turn' \in Markets \union {None} /\ TurnIsModel'
BY DEF Passed, TurnIsModel, Runs

\* A touch order is small enough for the cap when the copy covers the book,
\* and whatever rests on the other side is one order.
LEMMA TouchPostKeeps == ASSUME IInv, NEW m \in Markets, TouchPost(m) PROVE IInv'
<1> PICK side \in Sides : TouchSide(m, side) /\ Submit(<<m, side, 0>>, TouchStake)
  BY DEF TouchPost
<1> DEFINE o == <<m, side, 0>>
<1>1. o \in Orders /\ o[1] = m /\ TouchStake \in Nat /\ TouchCap \in Nat
  BY OrderShape, ExposureAssumption
<1>2. rest[o] = 0
  <2>1. ~ (rest[<<m, side, 0>>] > 0) /\ rest[<<m, side, 0>>] \in Nat
    BY <1>1 DEF TouchSide, RestsOn, IInv, TypeOK
  <2> QED BY SMT, <2>1
<1>3. /\ open' \in [Markets -> Nat] /\ rest' \in [Orders -> Nat]
      /\ \A n \in Markets \ {m} : open'[n] = open[n]
      /\ \A q \in Orders \ {o} : rest'[q] = rest[q]
      /\ open'[m] + rest'[o] <= open[m] + rest[o] + TouchStake
      /\ rest'[o] <= rest[o] + TouchStake
  <2>1. TypeOK
    BY DEF IInv
  <2> QED BY <1>1, <2>1, SubmitEffect
<1>4. /\ exposure' = AllModes(open') /\ todo' \subseteq Markets
      /\ UNCHANGED <<budget, pc>> /\ pc = "scan" /\ Passed(m) /\ TouchFits(m)
  BY DEF TouchPost, IInv, TypeOK
<1>5. \A n \in Markets : exposure'[n] \in Nat /\ open'[n] <= exposure'[n]
  <2> SUFFICES ASSUME NEW n \in Markets
               PROVE  exposure'[n] \in Nat /\ open'[n] <= exposure'[n]
    OBVIOUS
  <2>1. exposure'[n] = open'[n] + OtherMode[n]
    BY <1>4 DEF AllModes
  <2>2. open'[n] \in Nat /\ OtherMode[n] \in Nat
    BY <1>3, ExposureAssumption
  <2> QED BY SMT, <2>1, <2>2
<1>6. exposure' \in [Markets -> Nat]
  <2>1. exposure' = [n \in Markets |-> open'[n] + OtherMode[n]]
    BY <1>4 DEF AllModes
  <2>2. \A n \in Markets : open'[n] + OtherMode[n] \in Nat
    BY <1>5, <2>1
  <2> QED BY <2>1, <2>2
<1>7. rest'[o] \in Nat /\ rest'[o] <= TouchStake
  <2>1. rest'[o] \in Nat
    BY <1>1, <1>3
  <2> HIDE DEF o
  <2> QED BY SMT, <1>1, <1>2, <1>3, <2>1
<1>8. \A n \in Markets, t \in Sides : rest'[<<n, t, 0>>] <= TouchStake
  <2> SUFFICES ASSUME NEW n \in Markets, NEW t \in Sides
               PROVE  rest'[<<n, t, 0>>] <= TouchStake
    OBVIOUS
  <2>1. <<n, t, 0>> \in Orders /\ rest[<<n, t, 0>>] <= TouchStake
    BY OrderShape DEF IInv, TypeOK
  <2>2. CASE <<n, t, 0>> = o
    BY <1>7, <2>2
  <2>3. CASE <<n, t, 0>> # o
    BY <1>3, <2>1, <2>3
  <2> QED BY <2>2, <2>3
<1>9. TypeOK'
  BY <1>3, <1>4, <1>6, <1>8, PassedTurn DEF IInv, TypeOK
<1>10. CopyCoversBook' /\ TurnIsModel'
  BY <1>4, <1>5, PassedTurn DEF CopyCoversBook
<1>11. NoModelOrders'
  <2> SUFFICES ASSUME NEW n \in Markets, NEW t \in Sides, NEW p \in Slots, TouchOnly(n)
               PROVE  rest'[<<n, t, p>>] = 0
    BY DEF NoModelOrders, TouchOnly, Runs
  <2>1. <<n, t, p>> \in Orders /\ p # 0 /\ rest[<<n, t, p>>] = 0
    BY OrderShape DEF IInv, NoModelOrders
  <2>2. <<n, t, p>> # o
    BY <2>1
  <2> QED BY <1>3, <2>1, <2>2
<1>12. OvershootIsOneOrder'
  <2> SUFFICES ASSUME NEW n \in Markets, TouchOnly(n)
               PROVE  open'[n] + rest'[<<n, "yes", 0>>] + rest'[<<n, "no", 0>>]
                        <= TouchCap + TouchStake
    BY DEF OvershootIsOneOrder, TouchOnly, Runs
  <2> DEFINE y == <<n, "yes", 0>>
             z == <<n, "no", 0>>
  <2>1. y \in Orders /\ z \in Orders /\ y # z
    BY OrderShape DEF Sides
  <2>2. CASE n # m
    <3>1. y # o /\ z # o
      BY <2>2
    <3>2. open'[n] = open[n] /\ rest'[y] = rest[y] /\ rest'[z] = rest[z]
      BY <1>3, <2>1, <2>2, <3>1
    <3>3. open[n] + rest[y] + rest[z] <= TouchCap + TouchStake
      BY DEF IInv, OvershootIsOneOrder
    <3> QED BY <3>2, <3>3
  <2>3. CASE n = m
    <3>1. open[m] <= exposure[m] /\ exposure[m] + TouchStake <= TouchCap
      BY <1>4 DEF IInv, CopyCoversBook, TouchFits
    <3>2. /\ open[m] \in Nat /\ exposure[m] \in Nat /\ open'[m] \in Nat
          /\ rest'[y] \in Nat /\ rest'[z] \in Nat
      <4> HIDE DEF y, z
      <4> QED BY <1>3, <2>1 DEF IInv, TypeOK
    <3>3. rest'[y] <= TouchStake /\ rest'[z] <= TouchStake
      BY <1>8, <2>3 DEF Sides
    <3>4. open'[m] + rest'[o] <= open[m] + TouchStake
      <4>1. open[m] \in Nat /\ open'[m] \in Nat /\ rest'[o] \in Nat
        BY <1>7, <3>2
      <4> HIDE DEF o
      <4> QED BY SMT, <1>1, <1>2, <1>3, <4>1
    <3>5. o = y \/ o = z
      BY <2>3 DEF Sides
    <3> HIDE DEF o, y, z
    <3>6. open'[m] + rest'[y] + rest'[z] <= TouchCap + TouchStake
      <4>1. CASE o = y
        BY SMT, <1>1, <3>1, <3>2, <3>3, <3>4, <4>1
      <4>2. CASE o = z
        BY SMT, <1>1, <3>1, <3>2, <3>3, <3>4, <4>2
      <4> QED BY <3>5, <4>1, <4>2
    <3> QED BY <3>6, <2>3 DEF y, z
  <2> QED BY <2>2, <2>3
<1> QED BY <1>9, <1>10, <1>11, <1>12 DEF IInv

\* A model order is on a market the model arm runs, in a slot.
LEMMA ModelBetKeeps == ASSUME IInv, ModelBet PROVE IInv'
<1> PICK target \in Targets, side \in Sides, p \in Slots :
        /\ rest[<<turn, side, p>>] = 0
        /\ \E stake \in Stakes(turn, target) : Submit(<<turn, side, p>>, stake)
  BY DEF ModelBet
<1> PICK stake \in Stakes(turn, target) : Submit(<<turn, side, p>>, stake)
  OBVIOUS
<1> DEFINE o == <<turn, side, p>>
<1>1. turn \in Markets /\ Runs(turn, "model")
  BY DEF ModelBet, IInv, TypeOK, TurnIsModel
<1>2. o \in Orders /\ o[1] = turn /\ p # 0
  BY <1>1, OrderShape
<1>3. stake \in Nat
  <2>1. MinStake \in Nat /\ target \in Nat /\ exposure[turn] \in Nat
    BY <1>1, ExposureAssumption DEF IInv, TypeOK
  <2>2. stake \in MinStake .. (target - exposure[turn])
    BY DEF Stakes
  <2> QED BY SMT, <2>1, <2>2
<1>4. /\ open' \in [Markets -> Nat] /\ rest' \in [Orders -> Nat]
      /\ \A n \in Markets \ {turn} : open'[n] = open[n]
      /\ \A q \in Orders \ {o} : rest'[q] = rest[q]
  <2>1. TypeOK
    BY DEF IInv
  <2> QED BY <1>2, <1>3, <2>1, SubmitEffect
<1>5. exposure' = open' /\ turn' = None /\ UNCHANGED <<budget, todo, pc>>
  BY DEF ModelBet
<1>6. \A n \in Markets, t \in Sides : rest'[<<n, t, 0>>] = rest[<<n, t, 0>>]
  <2> SUFFICES ASSUME NEW n \in Markets, NEW t \in Sides
               PROVE  rest'[<<n, t, 0>>] = rest[<<n, t, 0>>]
    OBVIOUS
  <2>1. <<n, t, 0>> \in Orders /\ <<n, t, 0>> # o
    BY <1>2, OrderShape
  <2> QED BY <1>4, <2>1
<1>7. TypeOK'
  BY <1>4, <1>5, <1>6 DEF IInv, TypeOK
<1>8. CopyCoversBook' /\ TurnIsModel'
  <2>1. \A n \in Markets : open'[n] <= open'[n]
    BY SMT, <1>4
  <2> QED BY <1>5, <2>1 DEF CopyCoversBook, TurnIsModel
<1>9. \A n \in Markets : TouchOnly(n) => n # turn
  BY <1>1 DEF TouchOnly
<1>10. NoModelOrders'
  <2> SUFFICES ASSUME NEW n \in Markets, NEW t \in Sides, NEW k \in Slots, TouchOnly(n)
               PROVE  rest'[<<n, t, k>>] = 0
    BY DEF NoModelOrders, TouchOnly, Runs
  <2>1. <<n, t, k>> \in Orders /\ rest[<<n, t, k>>] = 0
    BY OrderShape DEF IInv, NoModelOrders
  <2>2. <<n, t, k>> # o
    BY <1>9
  <2> QED BY <1>4, <2>1, <2>2
<1>11. OvershootIsOneOrder'
  <2> SUFFICES ASSUME NEW n \in Markets, TouchOnly(n)
               PROVE  open'[n] + rest'[<<n, "yes", 0>>] + rest'[<<n, "no", 0>>]
                        <= TouchCap + TouchStake
    BY DEF OvershootIsOneOrder, TouchOnly, Runs
  <2>1. open'[n] = open[n]
    BY <1>4, <1>9
  <2>2. /\ rest'[<<n, "yes", 0>>] = rest[<<n, "yes", 0>>]
        /\ rest'[<<n, "no", 0>>] = rest[<<n, "no", 0>>]
    BY <1>6 DEF Sides
  <2> QED BY <2>1, <2>2 DEF IInv, OvershootIsOneOrder
<1> QED BY <1>7, <1>8, <1>10, <1>11 DEF IInv

\* The scan's other steps leave the book and the copy alone, or end the scan.
LEMMA ScanKeeps ==
    ASSUME IInv,
           \/ \E m \in Markets : TouchSkip(m)
           \/ ModelSkip \/ ScanEnds \/ EndCycle \/ CycleRaises
           \/ UNCHANGED vars
    PROVE  IInv'
<1> USE SameBook DEF IInv
<1>1. ASSUME NEW m \in Markets, TouchSkip(m) PROVE IInv'
  <2>1. UNCHANGED book /\ UNCHANGED <<exposure, budget, pc>> /\ todo' \subseteq Markets
        /\ pc = "scan"
    BY <1>1 DEF TouchSkip, TypeOK
  <2>2. turn' \in Markets \union {None} /\ TurnIsModel'
    BY <1>1, PassedTurn DEF TouchSkip
  <2>3. TypeOK'
    BY <2>1, <2>2 DEF TypeOK
  <2>4. CopyCoversBook'
    BY <2>1 DEF CopyCoversBook, book
  <2> QED BY <2>1, <2>2, <2>3, <2>4
<1>2. CASE ModelSkip
  <2>1. UNCHANGED book /\ UNCHANGED <<exposure, budget, todo, pc>> /\ turn' = None
    BY <1>2 DEF ModelSkip
  <2>2. TypeOK'
    BY <2>1 DEF TypeOK
  <2>3. CopyCoversBook' /\ TurnIsModel'
    BY <2>1 DEF CopyCoversBook, TurnIsModel, book
  <2> QED BY <2>1, <2>2, <2>3
<1>3. CASE ScanEnds \/ CycleRaises
  <2>1. UNCHANGED book /\ Forget /\ pc' \in {"sync", "exits"}
    BY <1>3 DEF ScanEnds, CycleRaises
  <2>2. TypeOK'
    BY <2>1 DEF TypeOK, Forget, NoBets, NoBudget
  <2>3. CopyCoversBook' /\ TurnIsModel'
    BY <2>1 DEF CopyCoversBook, TurnIsModel, Forget
  <2> QED BY <2>1, <2>2, <2>3
<1>4. CASE EndCycle \/ UNCHANGED vars
  <2>1. UNCHANGED book /\ UNCHANGED <<exposure, budget, todo, turn>>
        /\ (pc' = pc \/ (pc = "exits" /\ pc' = "sync"))
    BY <1>4 DEF EndCycle, vars, book, scan
  <2>2. TypeOK'
    BY <2>1 DEF TypeOK
  <2>3. CopyCoversBook' /\ TurnIsModel'
    BY <2>1 DEF CopyCoversBook, TurnIsModel, Runs, book
  <2> QED BY <2>1, <2>2, <2>3
<1> QED BY <1>1, <1>2, <1>3, <1>4

LEMMA StepInvariant == IInv /\ [Next]_vars => IInv'
<1> SUFFICES ASSUME IInv, [Next]_vars PROVE IInv'
  OBVIOUS
<1>1. ASSUME NEW o \in Orders, Sync(o) \/ Expire(o) PROVE IInv'
  BY <1>1, SyncKeeps, ExpireKeeps
<1>2. ASSUME NEW m \in Markets, Settle(m) \/ Exit(m) \/ TouchPost(m) \/ TouchSkip(m)
      PROVE  IInv'
  BY <1>2, SettleKeeps, ExitKeeps, TouchPostKeeps, ScanKeeps
<1>3. CASE StartScan \/ ModelBet
  BY <1>3, StartKeeps, ModelBetKeeps
<1>4. CASE ModelSkip \/ ScanEnds \/ EndCycle \/ CycleRaises \/ UNCHANGED vars
  BY <1>4, ScanKeeps
<1> QED BY <1>1, <1>2, <1>3, <1>4 DEF Next

-----------------------------------------------------------------------------
(* Theorems. *)

\* The inductive invariant: the scan's copy covers the book and the touch
\* arm's orders fit their cap but for one (touch.py:142, runner.py:1096).
THEOREM InvariantHolds == Spec => []IInv
BY InitInvariant, StepInvariant, PTL DEF Spec

\* Type correctness: no touch order is larger than one stake (touch.py:195).
THEOREM TypeCorrect == Spec => []TypeOK
<1>1. IInv => TypeOK
  BY DEF IInv
<1> QED BY <1>1, InvariantHolds, PTL

\* However orders fill, rest, expire and settle, a market of a touch-only sport
\* is past its cap by at most one order (touch.py:142).
THEOREM TouchOvershoot == Spec => []OvershootIsOneOrder
<1>1. IInv => OvershootIsOneOrder
  BY DEF IInv
<1> QED BY <1>1, InvariantHolds, PTL

-----------------------------------------------------------------------------
(* The sport budget. *)

LEMMA OrdersFinite == IsFiniteSet(Orders) /\ IsFiniteSet(Markets)
<1>1. IsFiniteSet(Sides)
  <2>1. Sides = {"yes"} \union {"no"}
    BY DEF Sides
  <2> QED
    BY <2>1, FS_Singleton, FS_Union
<1>2. IsFiniteSet({0} \union Slots)
  BY ExposureAssumption, FS_Singleton, FS_Union
<1> QED
  BY <1>1, <1>2, ExposureAssumption, TriplesFinite DEF Orders

\* A sum over a sport changes by what one member changes.
LEMMA SportSum ==
    ASSUME NEW S, IsFiniteSet(S), NEW f, NEW g, NEW a \in S,
           \A x \in S : f[x] \in Nat /\ g[x] \in Nat,
           \A x \in S \ {a} : g[x] = f[x]
    PROVE  /\ SumFunctionOnSet(f, S) \in Nat
           /\ SumFunctionOnSet(g, S) = SumFunctionOnSet(f, S) - f[a] + g[a]
<1>1. \A x \in S : f[x] \in Int /\ g[x] \in Int
  OBVIOUS
<1> QED
  BY <1>1, SumNat, SumChange

\* The copy the budget was checked against covers the book, so bets and orders
\* grow by no more than the stake that was asked for.
LEMMA TouchFitsBudget ==
    ASSUME IInv, NEW m \in Markets, TouchPost(m)
    PROVE  Committed(SportOf[m])' <= budget[SportOf[m]]
<1> PICK side \in Sides : TouchSide(m, side) /\ Submit(<<m, side, 0>>, TouchStake)
  BY DEF TouchPost
<1> DEFINE o == <<m, side, 0>>
           s == SportOf[m]
           M == MarketsOf(s)
           Q == OrdersOf(s)
<1>1. o \in Orders /\ o[1] = m /\ TouchStake \in Nat
  BY OrderShape, ExposureAssumption
<1>2. /\ open' \in [Markets -> Nat] /\ rest' \in [Orders -> Nat]
      /\ \A n \in Markets \ {m} : open'[n] = open[n]
      /\ \A q \in Orders \ {o} : rest'[q] = rest[q]
      /\ open'[m] + rest'[o] <= open[m] + rest[o] + TouchStake
  <2>1. TypeOK
    BY DEF IInv
  <2> QED
    BY <1>1, <2>1, SubmitEffect
<1>3. /\ open \in [Markets -> Nat] /\ exposure \in [Markets -> Nat] /\ rest \in [Orders -> Nat]
      /\ budget[s] \in Nat
  BY ExposureAssumption DEF IInv, TypeOK
<1>4. /\ \A n \in Markets : open[n] <= exposure[n]
      /\ Held(exposure, M) + RestingStake(s) + TouchStake <= budget[s]
  BY DEF TouchPost, TouchFits, IInv, CopyCoversBook
<1>5. m \in M /\ o \in Q /\ M \subseteq Markets /\ Q \subseteq Orders
  BY <1>1 DEF MarketsOf, OrdersOf
<1>6. IsFiniteSet(M) /\ IsFiniteSet(Q)
  BY <1>5, OrdersFinite, FS_Subset
<1>7. Committed(s)' = SumFunctionOnSet(open', M) + SumFunctionOnSet(rest', Q)
  BY DEF Committed, Held, RestingStake, MarketsOf, OrdersOf
<1>8. RestingStake(s) = SumFunctionOnSet(rest, Q) /\ Held(exposure, M) = SumFunctionOnSet(exposure, M)
  BY DEF RestingStake, Held
<1> HIDE DEF o, M, Q
<1>9. /\ SumFunctionOnSet(open, M) \in Nat
      /\ SumFunctionOnSet(open', M) = SumFunctionOnSet(open, M) - open[m] + open'[m]
  <2>1. \A n \in M : open[n] \in Nat /\ open'[n] \in Nat
    BY <1>2, <1>3, <1>5
  <2>2. \A n \in M \ {m} : open'[n] = open[n]
    BY <1>2, <1>5
  <2> QED
    BY <1>5, <1>6, <2>1, <2>2, SportSum
<1>10. /\ SumFunctionOnSet(rest, Q) \in Nat
       /\ SumFunctionOnSet(rest', Q) = SumFunctionOnSet(rest, Q) - rest[o] + rest'[o]
  <2>1. \A q \in Q : rest[q] \in Nat /\ rest'[q] \in Nat
    BY <1>2, <1>3, <1>5
  <2>2. \A q \in Q \ {o} : rest'[q] = rest[q]
    BY <1>2, <1>5
  <2> QED
    BY <1>5, <1>6, <2>1, <2>2, SportSum
<1>11. SumFunctionOnSet(open, M) <= SumFunctionOnSet(exposure, M) /\ SumFunctionOnSet(exposure, M) \in Nat
  <2>1. \A n \in M : open[n] \in Int /\ exposure[n] \in Int /\ open[n] <= exposure[n]
    BY <1>3, <1>4, <1>5
  <2>2. \A n \in M : exposure[n] \in Nat
    BY <1>3, <1>5
  <2> QED
    BY <1>6, <2>1, <2>2, SumMonotone, SumNat
<1>12. open[m] \in Nat /\ open'[m] \in Nat /\ rest[o] \in Nat /\ rest'[o] \in Nat
  BY <1>1, <1>2, <1>3
<1> QED
  BY <1>1, <1>2, <1>3, <1>4, <1>7, <1>8, <1>9, <1>10, <1>11, <1>12

\* A touch order never takes a sport past its budget of this cycle, counting
\* every open bet and every order that may still fill, of either arm, though
\* the arm reads a copy of the exposure (executor.py:300, touch.py:147).
THEOREM TouchBudget == Spec => TouchWithinBudget
<1>1. IInv => [\A m \in Markets : TouchPost(m) => Committed(SportOf[m])' <= budget[SportOf[m]]]_vars
  BY TouchFitsBudget
<1> QED BY <1>1, InvariantHolds, PTL DEF TouchWithinBudget
=============================================================================
