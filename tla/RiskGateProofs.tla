--------------------------- MODULE RiskGateProofs ---------------------------
(* Theorems of RiskGate, for every value of its constants. *)
EXTENDS RiskGate, SumLemmas

(* The inductive invariant. *)

\* Entered bets are of today or earlier: a new day starts with none.
NoneFromTomorrow == \A b \in 1 .. entered : dayOf[b] <= today
\* The bankroll never outgrows the best balance so far.
BankrollBounded == cum <= peak /\ bankroll <= Start + peak
\* The switch is tripped only before the gate, and holds the cycle there.
LatchPhase == latch => pc = "settle"
\* What the day may still stake: the gate left room for one scan's orders.
Room(n) == (n - MaxEntries) * Stake * NewRiskDiv < Start + peak
QuotaFits == pc = "enter" => Room(Cardinality(DirectOn(today)) + quota)

IInv == TypeOK /\ NoneFromTomorrow /\ BankrollBounded /\ LatchPhase
        /\ QuotaFits /\ DailyRiskBounded

-----------------------------------------------------------------------------
(* Lemmas. *)

\* Stakes grow with the number of bets.
LEMMA StakeMonotone ==
    ASSUME NEW x \in Int, NEW y \in Int, x <= y
    PROVE  x * Stake * NewRiskDiv <= y * Stake * NewRiskDiv
<1> DEFINE K == Stake * NewRiskDiv
<1>1. K \in Nat
  BY SMT, RiskAssumption
<1>2. (y - x) * K >= 0
  <2> HIDE DEF K
  <2> QED BY SMT, <1>1
<1>3. (y - x) * K = y * Stake * NewRiskDiv - x * Stake * NewRiskDiv
  BY SMT, RiskAssumption
<1>4. x * Stake * NewRiskDiv \in Int /\ y * Stake * NewRiskDiv \in Int
  BY SMT, RiskAssumption
<1> HIDE DEF K
<1> QED BY SMT, <1>2, <1>3, <1>4

\* Fewer bets, and a higher peak, leave room.
LEMMA RoomMonotone ==
    ASSUME NEW x \in Int, NEW y \in Int, x <= y, NEW p \in Int, NEW q \in Int, p <= q,
           (y - MaxEntries) * Stake * NewRiskDiv < Start + p
    PROVE  (x - MaxEntries) * Stake * NewRiskDiv < Start + q
<1> DEFINE X == (x - MaxEntries) * Stake * NewRiskDiv
           Y == (y - MaxEntries) * Stake * NewRiskDiv
<1>1. X <= Y
  BY StakeMonotone, RiskAssumption
<1>2. X \in Int /\ Y \in Int /\ Start \in Int
  BY SMT, RiskAssumption
<1>3. Y < Start + p
  OBVIOUS
<1> HIDE DEF X, Y
<1>4. X < Start + q
  BY SMT, <1>1, <1>2, <1>3
<1> QED BY <1>4 DEF X

\* No bet at all always leaves room for one scan.
LEMMA RoomAtZero ==
    ASSUME NEW n \in Int, n <= MaxEntries, NEW p \in Nat
    PROVE  (n - MaxEntries) * Stake * NewRiskDiv < Start + p
<1>1. (n - MaxEntries) * Stake * NewRiskDiv <= 0 * Stake * NewRiskDiv
  BY StakeMonotone, RiskAssumption
<1>2. 0 * Stake * NewRiskDiv = 0
  BY SMT, RiskAssumption
<1>3. (n - MaxEntries) * Stake * NewRiskDiv \in Int
  BY SMT, RiskAssumption
<1> DEFINE X == (n - MaxEntries) * Stake * NewRiskDiv
<1> HIDE DEF X
<1>4. X <= 0 /\ X \in Int
  BY <1>1, <1>2, <1>3 DEF X
<1>5. X < Start + p
  BY SMT, <1>4, RiskAssumption
<1> QED BY <1>5 DEF X

\* The bets of a day are finitely many, and none more than the gate counts.
LEMMA DirectFinite ==
    ASSUME TypeOK, NEW d
    PROVE  /\ IsFiniteSet(DirectOn(d))
           /\ Cardinality(DirectOn(d)) \in Nat
           /\ IsFiniteSet(BetsToday) /\ Cardinality(BetsToday) \in Nat
           /\ Cardinality(DirectOn(today)) <= Cardinality(BetsToday)
<1>1. IsFiniteSet(1 .. entered)
  BY FS_Interval DEF TypeOK
<1>2. DirectOn(d) \subseteq 1 .. entered /\ BetsToday \subseteq 1 .. entered
      /\ DirectOn(today) \subseteq BetsToday
  BY DEF TypeOK, DirectOn, BetsToday
<1>3. IsFiniteSet(DirectOn(d)) /\ IsFiniteSet(BetsToday)
  BY <1>1, <1>2, FS_Subset
<1> QED BY <1>2, <1>3, FS_Subset, FS_CardinalityType

-----------------------------------------------------------------------------
(* The invariant is inductive. *)

LEMMA InitIInv == Init => IInv
<1> SUFFICES ASSUME Init PROVE IInv
  OBVIOUS
<1>1. TypeOK
  <2>1. latch \in BOOLEAN /\ inOrder \in BOOLEAN /\ carried \in BOOLEAN
    BY DEF Init
  <2>2. /\ entered \in 0 .. MaxBets /\ open \subseteq 1 .. entered
        /\ resting \in 0 .. (MaxBets - entered) /\ direct \subseteq 1 .. entered
        /\ resets \in 0 .. MaxResets /\ quota \in 0 .. MaxEntries
    BY SMT, RiskAssumption DEF Init
  <2>3. /\ pnl \in [Ids -> Int] /\ dayOf \in [Ids -> Days]
        /\ dayPnl \in Int /\ today \in Days
        /\ bankroll \in Nat \ {0} /\ cum \in Int /\ peak \in Nat /\ fall \in Nat
        /\ pc \in {"settle", "enter", "manage"}
    BY SMT, RiskAssumption DEF Init, Days
  <2> QED BY <2>1, <2>2, <2>3 DEF TypeOK
<1>2. NoneFromTomorrow /\ BankrollBounded /\ LatchPhase /\ QuotaFits
  BY SMT, RiskAssumption DEF Init, NoneFromTomorrow, BankrollBounded, LatchPhase, QuotaFits
<1>3. DailyRiskBounded
  <2> SUFFICES ASSUME NEW d \in Days PROVE Room(Cardinality(DirectOn(d)))
    BY DEF DailyRiskBounded, Room
  <2>1. DirectOn(d) = {}
    BY DEF Init, DirectOn
  <2>2. Cardinality(DirectOn(d)) = 0
    BY <2>1, FS_EmptySet
  <2> QED BY <2>2, RoomAtZero, RiskAssumption DEF Room, Init
<1> QED BY <1>1, <1>2, <1>3 DEF IInv

\* A step that adds no direct bet and lowers no peak keeps the days bounded.
LEMMA SameBets ==
    ASSUME TypeOK, TypeOK', DailyRiskBounded, NEW d \in Days,
           direct' = direct, \A b \in direct : dayOf'[b] = dayOf[b], peak <= peak'
    PROVE  /\ DirectOn(d)' = DirectOn(d)
           /\ Room(Cardinality(DirectOn(d)))'
<1>1. DirectOn(d)' = DirectOn(d)
  BY DEF DirectOn
<1>2. Room(Cardinality(DirectOn(d)))
  BY DEF DailyRiskBounded, Room
<1>3. Cardinality(DirectOn(d)) \in Nat
  BY DirectFinite
<1>4. peak \in Int /\ peak' \in Int
  BY DEF TypeOK
<1> QED BY <1>1, <1>2, <1>3, <1>4, RoomMonotone DEF Room

\* Booking a fill keeps the table well-typed and of today.
LEMMA BookedTyped ==
    ASSUME IInv, Booked, entered < MaxBets
    PROVE  /\ entered' \in 0 .. MaxBets /\ open' \subseteq 1 .. entered'
           /\ dayOf' \in [Ids -> Days]
           /\ \A b \in 1 .. entered' : dayOf'[b] <= today
           /\ \A b \in 1 .. entered : dayOf'[b] = dayOf[b]
           /\ dayOf'[entered + 1] = today
<1> USE DEF IInv
<1>1. entered' = entered + 1 /\ entered + 1 \in Ids /\ today \in Days
  BY SMT, RiskAssumption DEF Booked, TypeOK, Ids
<1>2. entered' \in 0 .. MaxBets /\ open' \subseteq 1 .. entered'
  BY SMT, <1>1 DEF Booked, TypeOK, Ids
<1>3. dayOf' = [dayOf EXCEPT ![entered + 1] = today] /\ dayOf \in [Ids -> Days]
  BY DEF Booked, TypeOK
<1>4. dayOf' \in [Ids -> Days] /\ dayOf'[entered + 1] = today
  BY <1>1, <1>3
<1>5. \A b \in 1 .. entered : b \in Ids /\ b # entered + 1
  BY SMT, RiskAssumption DEF TypeOK, Ids
<1>6. \A b \in 1 .. entered : dayOf'[b] = dayOf[b]
  BY <1>3, <1>5
<1>7. \A b \in 1 .. entered' : b \in 1 .. entered \/ b = entered + 1
  BY SMT, <1>1 DEF TypeOK
<1>8. today <= today
  BY SMT DEF TypeOK, Days
<1> QED BY <1>1, <1>2, <1>4, <1>6, <1>7, <1>8 DEF NoneFromTomorrow

LEMMA NextType == IInv /\ [Next]_vars => TypeOK'
<1> SUFFICES ASSUME IInv, [Next]_vars PROVE TypeOK'
  OBVIOUS
<1> USE DEF IInv
<1>1. CASE RestingFills
  <2>1. entered < MaxBets
    BY SMT, <1>1, RiskAssumption DEF RestingFills, TypeOK
  <2>2. resting' \in 0 .. (MaxBets - entered') /\ direct \subseteq 1 .. entered'
    BY SMT, <1>1, RiskAssumption DEF RestingFills, Booked, TypeOK
  <2> QED BY <1>1, <2>1, <2>2, BookedTyped DEF RestingFills, TypeOK, hist
<1>2. ASSUME NEW b \in open, End(b) PROVE TypeOK'
  <2>1. b \in Ids
    BY SMT, RiskAssumption DEF TypeOK, Ids
  <2> QED BY SMT, <1>2, <2>1, RiskAssumption DEF End, TypeOK, Larger
<1>3. CASE GateTrips
  BY SMT, <1>3 DEF GateTrips, TypeOK, table, hist
<1>4. CASE GatePasses
  BY SMT, <1>4, RiskAssumption DEF GatePasses, TypeOK, Rebased, table, hist
<1>5. CASE Place
  <2>1. entered < MaxBets /\ quota' \in 0 .. MaxEntries
    BY SMT, <1>5, RiskAssumption DEF Place, TypeOK
  <2>2. CASE Booked /\ direct' = direct \union {entered + 1} /\ UNCHANGED resting
    <3>1. direct' \subseteq 1 .. entered' /\ resting \in 0 .. (MaxBets - entered')
      BY SMT, <1>5, <2>2, RiskAssumption DEF TypeOK, Booked, Place
    <3> QED BY <1>5, <2>1, <2>2, <3>1, BookedTyped DEF Place, TypeOK
  <2>3. CASE resting' = resting + 1 /\ UNCHANGED <<entered, open, dayOf, direct>>
    <3>1. resting' \in 0 .. (MaxBets - entered)
      BY SMT, <1>5, <2>3, RiskAssumption DEF TypeOK, Place
    <3> QED BY <1>5, <2>1, <2>3, <3>1 DEF Place, TypeOK
  <2> QED BY <1>5, <2>2, <2>3 DEF Place
<1>6. CASE ExitPass
  BY SMT, <1>6, RiskAssumption DEF ExitPass, TypeOK, table, hist
<1>7. CASE EndCycle
  BY SMT, <1>7, RiskAssumption DEF EndCycle, TypeOK, table, hist
<1>8. CASE Midnight
  <2>1. carried' \in BOOLEAN /\ inOrder' \in BOOLEAN /\ latch' \in BOOLEAN
    BY <1>8 DEF Midnight, TypeOK
  <2>2. today' \in Days
    BY SMT, <1>8, RiskAssumption DEF Midnight, TypeOK, Days
  <2>3. dayPnl' \in Int
    BY SMT, <1>8 DEF Midnight
  <2>4. UNCHANGED <<table, bankroll, pc, quota, resting, resets, cum, peak, fall, direct>>
    BY <1>8 DEF Midnight
  <2> QED BY <2>1, <2>2, <2>3, <2>4 DEF TypeOK, table
<1>9. CASE Reset
  <2>1. resets' \in 0 .. MaxResets
    BY SMT, <1>9, RiskAssumption DEF Reset, TypeOK
  <2> QED BY <1>9, <2>1 DEF Reset, TypeOK, table, hist
<1>10. CASE Restart
  BY SMT, <1>10, RiskAssumption DEF Restart, TypeOK, table, hist
<1>11. CASE UNCHANGED vars
  BY <1>11 DEF TypeOK, vars, table, hist
<1> QED BY <1>1, <1>2, <1>3, <1>4, <1>5, <1>6, <1>7, <1>8, <1>9, <1>10, <1>11 DEF Next

\* Dates, bankroll and latch: the conjuncts that need no counting.
LEMMA NextSimple == IInv /\ [Next]_vars => (NoneFromTomorrow /\ BankrollBounded /\ LatchPhase)'
<1> SUFFICES ASSUME IInv, [Next]_vars PROVE (NoneFromTomorrow /\ BankrollBounded /\ LatchPhase)'
  OBVIOUS
<1> USE DEF IInv, NoneFromTomorrow, BankrollBounded, LatchPhase
<1>1. CASE RestingFills
  <2>1. entered < MaxBets
    BY SMT, <1>1, RiskAssumption DEF RestingFills, TypeOK
  <2> QED BY <1>1, <2>1, BookedTyped DEF RestingFills, hist
<1>2. ASSUME NEW b \in open, End(b)
      PROVE  (NoneFromTomorrow /\ BankrollBounded /\ LatchPhase)'
  BY SMT, <1>2, RiskAssumption DEF End, TypeOK, Larger
<1>3. CASE GateTrips
  BY <1>3 DEF GateTrips, table, hist
<1>4. CASE GatePasses
  <2>1. bankroll' <= Start + peak
    BY SMT, <1>4, RiskAssumption DEF GatePasses, Rebased, TypeOK
  <2> QED BY <1>4, <2>1 DEF GatePasses, Refuses, table, hist
<1>5. CASE Place
  <2>1. entered < MaxBets
    BY SMT, <1>5, RiskAssumption DEF Place, TypeOK
  <2>2. CASE Booked
    BY <1>5, <2>1, <2>2, BookedTyped DEF Place
  <2>3. CASE UNCHANGED <<entered, open, dayOf, direct>>
    BY <1>5, <2>3 DEF Place
  <2> QED BY <1>5, <2>2, <2>3 DEF Place
<1>6. CASE ExitPass
  BY <1>6 DEF ExitPass, table, hist
<1>7. CASE EndCycle
  BY <1>7 DEF EndCycle, table, hist
<1>8. CASE Midnight
  <2>1. \A n \in Days : n <= today => n <= today'
    BY SMT, <1>8, RiskAssumption DEF Midnight, TypeOK, Days
  <2>2. \A b \in 1 .. entered : dayOf[b] \in Days
    BY SMT, RiskAssumption DEF TypeOK, Ids
  <2> QED BY <1>8, <2>1, <2>2 DEF Midnight, table, hist
<1>9. CASE Reset
  BY <1>9 DEF Reset, table, hist
<1>10. CASE Restart
  BY SMT, <1>10, RiskAssumption DEF Restart, TypeOK, table, hist
<1>11. CASE UNCHANGED vars
  BY <1>11 DEF vars, table, hist
<1> QED BY <1>1, <1>2, <1>3, <1>4, <1>5, <1>6, <1>7, <1>8, <1>9, <1>10, <1>11 DEF Next

\* A direct bet of today takes one of the orders the gate left room for.
LEMMA PlaceDays ==
    ASSUME IInv, Place, TypeOK'
    PROVE  /\ QuotaFits'
           /\ \A d \in Days : Room(Cardinality(DirectOn(d)))'
<1> USE DEF IInv
<1>1. entered < MaxBets /\ pc = "enter" /\ quota \in 0 .. MaxEntries /\ quota > 0
      /\ quota' = quota - 1 /\ peak' = peak /\ today' = today /\ pc' = pc
  BY SMT, RiskAssumption DEF Place, TypeOK
<1>2. Room(Cardinality(DirectOn(today)) + quota)
  BY <1>1 DEF QuotaFits
<1>3. ASSUME NEW d
      PROVE  IsFiniteSet(DirectOn(d)) /\ Cardinality(DirectOn(d)) \in Nat
  BY DirectFinite
<1>4. peak \in Int
  BY DEF TypeOK
<1>5. CASE Booked /\ direct' = direct \union {entered + 1}
  <2>1. \A b \in direct : dayOf'[b] = dayOf[b]
    BY <1>1, <1>5, BookedTyped DEF TypeOK
  <2>2. entered + 1 \notin direct /\ dayOf'[entered + 1] = today
    BY SMT, <1>1, <1>5, BookedTyped, RiskAssumption DEF TypeOK
  <2>3. DirectOn(today)' = DirectOn(today) \union {entered + 1}
    BY <1>1, <1>5, <2>1, <2>2 DEF DirectOn
  <2>4. Cardinality(DirectOn(today)') = Cardinality(DirectOn(today)) + 1
    <3>1. entered + 1 \notin DirectOn(today)
      BY <2>2 DEF DirectOn
    <3> QED BY <1>3, <2>3, <3>1, FS_AddElement
  <2>5. Cardinality(DirectOn(today)') + quota' = Cardinality(DirectOn(today)) + quota
    BY SMT, <1>1, <1>3, <2>4
  <2>6. QuotaFits'
    BY <1>1, <1>2, <2>5 DEF QuotaFits, Room
  <2>7. Room(Cardinality(DirectOn(today)))'
    <3>1. Cardinality(DirectOn(today)') <= Cardinality(DirectOn(today)) + quota
      BY SMT, <1>1, <1>3, <2>4
    <3>2. Cardinality(DirectOn(today)') \in Int /\ Cardinality(DirectOn(today)) + quota \in Int
      BY SMT, <1>1, <1>3, <2>4
    <3>3. peak' <= peak' /\ peak' \in Int
      BY SMT, <1>1, <1>4
    <3> QED BY <1>1, <1>2, <3>1, <3>2, <3>3, RoomMonotone DEF Room
  <2>8. ASSUME NEW d \in Days, d # today PROVE Room(Cardinality(DirectOn(d)))'
    <3>1. DirectOn(d)' = DirectOn(d)
      BY <1>1, <1>5, <2>1, <2>2, <2>8 DEF DirectOn
    <3> QED BY <1>1, <3>1 DEF DailyRiskBounded, Room
  <2> QED BY <1>1, <2>6, <2>7, <2>8
<1>6. CASE UNCHANGED <<entered, open, dayOf, direct>>
  <2>1. \A d : DirectOn(d)' = DirectOn(d)
    BY <1>6 DEF DirectOn
  <2>2. \A d \in Days : Room(Cardinality(DirectOn(d)))'
    BY <1>1, <2>1 DEF DailyRiskBounded, Room
  <2>3. Room(Cardinality(DirectOn(today)) + quota')
    <3>1. /\ Cardinality(DirectOn(today)) + quota' <= Cardinality(DirectOn(today)) + quota
          /\ Cardinality(DirectOn(today)) + quota' \in Int
          /\ Cardinality(DirectOn(today)) + quota \in Int
      BY SMT, <1>1, <1>3
    <3>2. peak <= peak
      BY SMT, <1>4
    <3> QED BY <1>2, <1>4, <3>1, <3>2, RoomMonotone DEF Room
  <2> QED BY <1>1, <2>1, <2>2, <2>3 DEF QuotaFits, Room
<1> QED BY <1>5, <1>6 DEF Place

\* Whatever else happens, no direct bet is added.
LEMMA NextDays == IInv /\ [Next]_vars /\ TypeOK' => (QuotaFits /\ DailyRiskBounded)'
<1> SUFFICES ASSUME IInv, [Next]_vars, TypeOK' PROVE (QuotaFits /\ DailyRiskBounded)'
  OBVIOUS
<1> USE DEF IInv
<1>1. CASE Place
  BY <1>1, PlaceDays DEF DailyRiskBounded, Room, Days
<1>2. CASE ~ Place
  <2>1. direct' = direct
    BY <1>2 DEF Next, RestingFills, End, GateTrips, GatePasses, ExitPass, EndCycle,
                Midnight, Reset, Restart, vars, hist
  <2>2. peak <= peak'
    BY SMT, <1>2, RiskAssumption DEF Next, RestingFills, End, GateTrips, GatePasses,
       ExitPass, EndCycle, Midnight, Reset, Restart, vars, hist, TypeOK, Larger
  <2>3. \A b \in direct : dayOf'[b] = dayOf[b]
    <3>1. CASE RestingFills
      <4>1. entered < MaxBets
        BY SMT, <3>1, RiskAssumption DEF RestingFills, TypeOK
      <4> QED BY <3>1, <4>1, BookedTyped DEF RestingFills, TypeOK
    <3>2. CASE ~ RestingFills
      BY <1>2, <3>2 DEF Next, End, GateTrips, GatePasses, ExitPass, EndCycle,
                        Midnight, Reset, Restart, vars, table
    <3> QED BY <3>1, <3>2
  <2>4. \A d \in Days : DirectOn(d)' = DirectOn(d) /\ Room(Cardinality(DirectOn(d)))'
    BY <2>1, <2>2, <2>3, SameBets
  <2>5. DailyRiskBounded'
    BY <2>4 DEF DailyRiskBounded, Room, Days
  <2>6. QuotaFits'
    <3> SUFFICES ASSUME pc' = "enter" PROVE Room(Cardinality(DirectOn(today)) + quota)'
      BY DEF QuotaFits
    <3>1. today \in Days /\ today' \in Days /\ peak \in Nat /\ peak' \in Nat
      BY DEF TypeOK
    <3>2. Cardinality(DirectOn(today)) \in Nat
      BY DirectFinite
    <3>3. CASE GatePasses
      <4>1. today' = today /\ quota' = MaxEntries /\ peak' = peak
        BY <3>3 DEF GatePasses, hist
      <4>2. Stake * Cardinality(BetsToday) * NewRiskDiv < bankroll
        <5>1. ~ (Stake * Cardinality(BetsToday) * NewRiskDiv >= bankroll)
          BY <3>3 DEF GatePasses, Refuses, NewRiskSpent, StakedToday
        <5>2. Cardinality(BetsToday) \in Nat /\ bankroll \in Int
          BY DirectFinite DEF TypeOK
        <5> DEFINE X == Stake * Cardinality(BetsToday) * NewRiskDiv
        <5>3. X \in Int
          BY SMT, <5>2, RiskAssumption
        <5> HIDE DEF X
        <5>4. ~ (X >= bankroll) => X < bankroll
          BY SMT, <5>2, <5>3
        <5> QED BY <5>1, <5>4 DEF X
      <4>3. Cardinality(DirectOn(today)) * Stake * NewRiskDiv
              <= Cardinality(BetsToday) * Stake * NewRiskDiv
        <5>1. Cardinality(DirectOn(today)) \in Int /\ Cardinality(BetsToday) \in Int
              /\ Cardinality(DirectOn(today)) <= Cardinality(BetsToday)
          BY DirectFinite
        <5> QED BY <5>1, StakeMonotone
      <4> DEFINE y == Cardinality(DirectOn(today)) + MaxEntries
      <4>4. y \in Int /\ y - MaxEntries = Cardinality(DirectOn(today))
        BY SMT, <3>2, RiskAssumption
      <4>5. Cardinality(DirectOn(today)) + quota' \in Int
            /\ Cardinality(DirectOn(today)) + quota' <= y
        BY SMT, <3>2, <4>1, RiskAssumption
      <4> HIDE DEF y
      <4>6. Room(y)
        <5> DEFINE c == Cardinality(DirectOn(today))
                   a == Cardinality(BetsToday)
        <5>1. c \in Nat /\ a \in Nat
          BY DirectFinite
        <5>2. c * Stake * NewRiskDiv <= a * Stake * NewRiskDiv
              /\ Stake * a * NewRiskDiv < bankroll
          BY <4>2, <4>3
        <5>3. bankroll <= Start + peak /\ bankroll \in Int
          BY DEF BankrollBounded, TypeOK
        <5> HIDE DEF c, a
        <5>4. Stake * a = a * Stake
          BY SMT, <5>1, RiskAssumption
        <5>5. c * Stake * NewRiskDiv \in Int /\ a * Stake * NewRiskDiv \in Int
          BY SMT, <5>1, RiskAssumption
        <5> DEFINE C == c * Stake * NewRiskDiv
                   A == a * Stake * NewRiskDiv
        <5>6. C \in Int /\ A \in Int /\ C <= A /\ A < bankroll
          BY <5>2, <5>4, <5>5
        <5> HIDE DEF C, A
        <5>7. C < Start + peak
          BY SMT, <3>1, <5>3, <5>6, RiskAssumption
        <5>8. (y - MaxEntries) * Stake * NewRiskDiv = c * Stake * NewRiskDiv
          BY <4>4 DEF c
        <5> QED BY <5>7, <5>8 DEF C, Room
      <4>7. DirectOn(today)' = DirectOn(today)
        BY <2>4, <3>1, <4>1
      <4> QED BY <2>2, <3>1, <4>1, <4>4, <4>5, <4>6, <4>7, RoomMonotone DEF Room
    <3>4. CASE Midnight
      <4>1. today' = today + 1 /\ quota' = quota
        BY <3>4 DEF Midnight
      <4>2. DirectOn(today') = {}
        <5>1. ASSUME NEW b \in direct PROVE dayOf[b] # today'
          <6>1. b \in 1 .. entered
            BY DEF TypeOK
          <6>2. dayOf[b] <= today /\ dayOf[b] \in Days
            BY SMT, <6>1, RiskAssumption DEF NoneFromTomorrow, TypeOK, Ids
          <6> QED BY SMT, <3>1, <4>1, <6>2, RiskAssumption DEF Days
        <5> QED BY <5>1 DEF DirectOn
      <4>3. DirectOn(today)' = DirectOn(today')
        BY <2>1, <2>3 DEF DirectOn
      <4>4. Cardinality(DirectOn(today)') = 0
        BY <4>2, <4>3, FS_EmptySet
      <4>5. 0 + quota \in Int /\ 0 + quota <= MaxEntries /\ 0 + quota' = 0 + quota
        BY SMT, <4>1, RiskAssumption DEF TypeOK
      <4> QED BY <3>1, <4>4, <4>5, RoomAtZero DEF Room
    <3>5. CASE ~ GatePasses /\ ~ Midnight
      <4>1. pc = "enter" /\ quota' = quota /\ today' = today
        <5>1. ~ ExitPass /\ ~ EndCycle /\ ~ Restart
          BY DEF ExitPass, EndCycle, Restart
        <5> QED BY <1>2, <3>5, <5>1 DEF Next, RestingFills, End, GateTrips, Reset, vars
      <4>2. Room(Cardinality(DirectOn(today)) + quota)
        BY <4>1 DEF QuotaFits
      <4>3. DirectOn(today)' = DirectOn(today)
        BY <2>4, <3>1, <4>1
      <4>4. Cardinality(DirectOn(today)) + quota \in Int
        BY SMT, <3>2, RiskAssumption DEF TypeOK
      <4>5. Cardinality(DirectOn(today)) + quota <= Cardinality(DirectOn(today)) + quota
        BY SMT, <4>4
      <4> QED BY <2>2, <3>1, <4>1, <4>2, <4>3, <4>4, <4>5, RoomMonotone DEF Room
    <3> QED BY <3>3, <3>4, <3>5
  <2> QED BY <2>5, <2>6
<1> QED BY <1>1, <1>2

-----------------------------------------------------------------------------
(* The theorems. *)

\* The inductive invariant holds in every reachable state of the gate and its
\* cycle, whatever resets, restarts and midnights fall between.
THEOREM InvariantHolds == Spec => []IInv
<1>1. Init => IInv
  BY InitIInv
<1>2. IInv /\ [Next]_vars => IInv'
  BY NextType, NextSimple, NextDays DEF IInv
<1> QED BY <1>1, <1>2, PTL DEF Spec

\* Every variable of the gate keeps its type.
THEOREM TypeCorrect == Spec => []TypeOK
<1>1. IInv => TypeOK
  BY DEF IInv
<1> QED BY <1>1, InvariantHolds, PTL

\* The bets that fill when placed never stake more in a day than the daily
\* share of the best bankroll so far and one scan's orders.
THEOREM DailyRisk == Spec => []DailyRiskBounded
<1>1. IInv => DailyRiskBounded
  BY DEF IInv
<1> QED BY <1>1, InvariantHolds, PTL

\* From the trip of the kill switch to its reset no order is placed.
THEOREM LatchHolds == Spec => LatchStopsOrders
<1>1. IInv => (Place => ~ latch)
  BY DEF IInv, LatchPhase, Place
<1>2. IInv => [Place => ~ latch]_vars
  BY <1>1
<1> QED BY <1>2, InvariantHolds, PTL DEF LatchStopsOrders

-----------------------------------------------------------------------------
(* Losses: what went by in time is in the table the gate reads. *)

PnlFrom(m) == SumFunctionOnSet(pnl, {x \in Settled : x >= m})
\* The pnl is at its peak, or below it by what the last bets of the table lost.
TailLoss == peak = cum \/ \E m \in Settled : peak - cum = -PnlFrom(m)
\* The largest fall is the loss of some run of bets in the table.
FallSeen == fall = 0 \/ \E m, n \in Settled : fall = -PnlOver(m, n)
FallInTable == inOrder => TailLoss /\ FallSeen
ZeroUntilEnded == \A b \in Ids : b \notin Settled => pnl[b] = 0
DayInTable == ~ carried => dayPnl = RealizedToday
\* What the gate has let through, it let through within the limits.
GateKept ==
    pc = "enter" => /\ inOrder => fall < MaxDrawdown
                    /\ ~ carried => dayPnl > -DailyLoss

LossInv == IInv /\ ZeroUntilEnded /\ FallInTable /\ DayInTable /\ GateKept

\* Settled bets and the bets of the day are finite sets of ids.
LEMMA TableFinite ==
    ASSUME IInv
    PROVE  /\ Settled \subseteq Ids /\ IsFiniteSet(Settled) /\ Settled \subseteq 1 .. entered
           /\ BetsToday \subseteq Ids /\ IsFiniteSet(BetsToday)
           /\ \A b \in Ids : pnl[b] \in Int /\ b \in Int
           /\ \A m, n : PnlOver(m, n) \in Int
           /\ \A m : PnlFrom(m) \in Int
           /\ RealizedToday \in Int
<1>1. 1 .. entered \subseteq Ids
  BY RiskAssumption DEF IInv, TypeOK, Ids
<1>2. Settled \subseteq 1 .. entered /\ BetsToday \subseteq 1 .. entered
  BY DEF Settled, BetsToday
<1>3. IsFiniteSet(Ids)
  BY RiskAssumption, FS_Interval DEF Ids
<1>4. \A b \in Ids : pnl[b] \in Int /\ b \in Int
  BY RiskAssumption DEF IInv, TypeOK, Ids
<1>5. ASSUME NEW T \in SUBSET Ids PROVE SumFunctionOnSet(pnl, T) \in Int
  <2>1. IsFiniteSet(T) /\ \A b \in T : pnl[b] \in Int
    BY <1>3, <1>4, FS_Subset
  <2> QED
    BY <2>1, SumInt
<1>6. /\ Settled \in SUBSET Ids /\ BetsToday \in SUBSET Ids
      /\ \A m, n : Settled \intersect (m .. n) \in SUBSET Ids
      /\ \A m : {x \in Settled : x >= m} \in SUBSET Ids
  BY <1>1, <1>2
<1> QED
  BY <1>1, <1>2, <1>3, <1>4, <1>5, <1>6, FS_Subset DEF PnlOver, PnlFrom, RealizedToday

LEMMA InitLosses == Init => LossInv
<1> SUFFICES ASSUME Init PROVE LossInv
  OBVIOUS
<1>1. IInv
  BY InitIInv
<1>2. ZeroUntilEnded /\ FallInTable
  BY DEF Init, ZeroUntilEnded, FallInTable, TailLoss, FallSeen
<1>3. BetsToday = {}
  BY DEF Init, BetsToday
<1>4. DayInTable
  BY <1>3, SumEmpty DEF Init, DayInTable, RealizedToday
<1> QED
  BY <1>1, <1>2, <1>4 DEF LossInv, GateKept, Init

\* A new bet is open, and the table of ended bets is what it was.
LEMMA BookedSettled ==
    ASSUME IInv, Booked, entered < MaxBets, today' = today
    PROVE  /\ Settled' = Settled /\ entered + 1 \in Ids \ Settled
           /\ BetsToday' = BetsToday \union {entered + 1}
           /\ entered + 1 \notin BetsToday
<1>1. /\ entered' = entered + 1 /\ open' = open \union {entered + 1} /\ entered \in Nat
      /\ entered + 1 \in Ids
  BY RiskAssumption DEF Booked, IInv, TypeOK, Ids
<1>2. 1 .. entered' = (1 .. entered) \union {entered + 1} /\ entered + 1 \notin 1 .. entered
  BY <1>1
<1>3. Settled' = Settled /\ entered + 1 \notin Settled
  BY <1>1, <1>2 DEF Settled
<1>4. /\ \A b \in 1 .. entered : dayOf'[b] = dayOf[b]
      /\ dayOf'[entered + 1] = today
  BY BookedTyped
<1>5. BetsToday' = BetsToday \union {entered + 1} /\ entered + 1 \notin BetsToday
  BY <1>2, <1>4 DEF BetsToday
<1> QED
  BY <1>1, <1>3, <1>5

\* Steps that end no bet leave the falls in the table.
LEMMA SameFalls ==
    ASSUME LossInv, Settled' = Settled, pnl' = pnl, UNCHANGED <<cum, peak, fall, inOrder>>
    PROVE  ZeroUntilEnded' /\ FallInTable'
<1>1. TailLoss' <=> TailLoss
  BY DEF TailLoss, PnlFrom
<1>2. FallSeen' <=> FallSeen
  BY DEF FallSeen, PnlOver
<1> QED
  BY <1>1, <1>2 DEF LossInv, ZeroUntilEnded, FallInTable

\* A bet ends: the table gains what time has gained.
LEMMA EndFalls ==
    ASSUME LossInv, NEW b \in open, End(b)
    PROVE  ZeroUntilEnded' /\ FallInTable'
<1> PICK o \in Outcomes :
        /\ pnl' = [pnl EXCEPT ![b] = o] /\ cum' = cum + o
        /\ peak' = Larger(peak, cum + o) /\ fall' = Larger(fall, peak' - cum')
  BY DEF End
<1>1. /\ b \in 1 .. entered /\ b \in Ids /\ b \in Int /\ b \notin Settled /\ o \in Int
      /\ cum \in Int /\ peak \in Int /\ fall \in Nat /\ cum <= peak
  BY RiskAssumption DEF LossInv, IInv, TypeOK, Ids, Settled, BankrollBounded
<1>2. Settled' = Settled \union {b}
  BY <1>1 DEF End, Settled
<1>3. /\ pnl'[b] = o /\ \A x \in Ids \ {b} : pnl'[x] = pnl[x]
      /\ \A x \in Ids : pnl'[x] \in Int
  BY <1>1 DEF LossInv, IInv, TypeOK
<1>4. /\ Settled \subseteq Ids /\ IsFiniteSet(Settled)
      /\ \A x \in Ids : pnl[x] \in Int /\ x \in Int
      /\ \A m, n : PnlOver(m, n) \in Int
      /\ \A m : PnlFrom(m) \in Int
  BY TableFinite DEF LossInv
<1>5. ZeroUntilEnded'
  BY <1>2, <1>3 DEF LossInv, ZeroUntilEnded
<1>6. ASSUME inOrder' PROVE TailLoss' /\ FallSeen'
  <2>1. inOrder /\ \A a \in Settled : a < b
    BY <1>6 DEF End
  <2>2. TailLoss /\ FallSeen
    BY <2>1 DEF LossInv, FallInTable
  <2>3. ASSUME NEW m \in Settled PROVE PnlFrom(m)' = PnlFrom(m) + o
    <3> DEFINE V == {x \in Settled : x >= m}
               W == {x \in Settled' : x >= m}
    <3>0. b >= m
      BY <1>1, <1>4, <2>1
    <3>1. W = V \union {b} /\ b \notin V /\ V \subseteq Ids
      BY <1>1, <1>2, <1>4, <3>0
    <3>2. PnlFrom(m) = SumFunctionOnSet(pnl, V) /\ PnlFrom(m)' = SumFunctionOnSet(pnl', W)
      BY DEF PnlFrom
    <3>3. IsFiniteSet(V)
      BY <1>4, FS_Subset
    <3> HIDE DEF V, W
    <3>4. SumFunctionOnSet(pnl', V) = SumFunctionOnSet(pnl, V)
      <4>1. \A x \in V : pnl[x] = pnl'[x]
        BY <1>3, <3>1
      <4> QED
        BY <3>3, <4>1, SumSame
    <3>5. SumFunctionOnSet(pnl', V \union {b}) = pnl'[b] + SumFunctionOnSet(pnl', V)
      <4>1. \A x \in V \union {b} : pnl'[x] \in Int
        BY <1>1, <1>3, <3>1
      <4> QED
        BY <3>1, <3>3, <4>1, SumAdd
    <3> QED
      BY <1>1, <1>3, <1>4, <3>1, <3>2, <3>4, <3>5
  <2>4. PnlFrom(b)' = o
    <3>0. b >= b /\ \A x \in Settled : ~ (x >= b)
      BY <1>1, <1>4, <2>1
    <3>1. {x \in Settled' : x >= b} = {} \union {b}
      BY <1>2, <3>0
    <3>2. IsFiniteSet({}) /\ SumFunctionOnSet(pnl', {}) = 0
      BY FS_EmptySet, SumEmpty
    <3>3. \A x \in {} \union {b} : pnl'[x] \in Int
      BY <1>1, <1>3
    <3>4. SumFunctionOnSet(pnl', {} \union {b}) = pnl'[b] + SumFunctionOnSet(pnl', {})
      BY <3>2, <3>3, SumAdd
    <3>5. PnlFrom(b)' = SumFunctionOnSet(pnl', {} \union {b})
      BY <3>1 DEF PnlFrom
    <3> QED
      BY <1>1, <1>3, <3>2, <3>4, <3>5
  <2>5. ASSUME NEW m \in Settled, NEW n \in Settled PROVE PnlOver(m, n)' = PnlOver(m, n)
    <3> DEFINE V == Settled \intersect (m .. n)
    <3>1. Settled' \intersect (m .. n) = V /\ V \subseteq Ids /\ b \notin V
      BY <1>1, <1>2, <1>4, <2>1
    <3>2. IsFiniteSet(V)
      BY <1>4, FS_Subset
    <3>3. PnlOver(m, n) = SumFunctionOnSet(pnl, V) /\ PnlOver(m, n)' = SumFunctionOnSet(pnl', V)
      BY <3>1 DEF PnlOver
    <3> HIDE DEF V
    <3>4. \A x \in V : pnl[x] = pnl'[x]
      BY <1>3, <3>1
    <3> QED
      BY <3>2, <3>3, <3>4, SumSame
  <2>6. ASSUME NEW m \in Settled' PROVE PnlOver(m, b)' = PnlFrom(m)'
    <3>1. Settled' \intersect (m .. b) = {x \in Settled' : x >= m}
      <4>1. \A x \in Settled' : x \in Int /\ x <= b
        BY <1>1, <1>2, <1>4, <2>1
      <4> QED
        BY <1>1, <4>1
    <3> QED
      BY <3>1 DEF PnlOver, PnlFrom
  <2>7. TailLoss'
    <3>1. CASE peak > cum + o
      <4>1. peak' = peak /\ peak' - cum' = (peak - cum) - o
        BY <1>1, <3>1 DEF Larger
      <4>2. CASE peak = cum
        <5>1. peak' - cum' = -PnlFrom(b)'
          BY <1>1, <2>4, <4>1, <4>2
        <5> QED
          BY <1>2, <5>1 DEF TailLoss
      <4>3. CASE peak # cum
        <5>1. PICK m \in Settled : peak - cum = -PnlFrom(m)
          BY <2>2, <4>3 DEF TailLoss
        <5>2. peak' - cum' = -PnlFrom(m)'
          BY <1>1, <1>4, <2>3, <4>1, <5>1
        <5> QED
          BY <1>2, <5>2 DEF TailLoss
      <4> QED
        BY <4>2, <4>3
    <3>2. CASE ~ (peak > cum + o)
      BY <3>2 DEF Larger, TailLoss
    <3> QED
      BY <3>1, <3>2
  <2>8. FallSeen'
    <3>1. CASE fall' = fall
      <4>1. CASE fall = 0
        BY <3>1, <4>1 DEF FallSeen
      <4>2. CASE fall # 0
        <5>1. PICK m \in Settled, n \in Settled : fall = -PnlOver(m, n)
          BY <2>2, <4>2 DEF FallSeen
        <5>2. fall' = -PnlOver(m, n)'
          BY <2>5, <3>1, <5>1
        <5> QED
          BY <1>2, <5>2 DEF FallSeen
      <4> QED
        BY <4>1, <4>2
    <3>2. CASE fall' = peak' - cum'
      <4>1. CASE peak' = cum'
        <5>1. cum' \in Int
          BY <1>1
        <5> QED
          BY <3>2, <4>1, <5>1 DEF FallSeen
      <4>2. CASE peak' # cum'
        <5>1. PICK m \in Settled' : peak' - cum' = -PnlFrom(m)'
          BY <2>7, <4>2 DEF TailLoss
        <5>2. fall' = -PnlOver(m, b)'
          BY <2>6, <3>2, <5>1
        <5> QED
          BY <1>2, <5>2 DEF FallSeen
      <4> QED
        BY <4>1, <4>2
    <3> QED
      BY <3>1, <3>2 DEF Larger
  <2> QED
    BY <2>7, <2>8
<1> QED
  BY <1>5, <1>6 DEF FallInTable

\* A step that books a fill or none, on one day, leaves the day in the table.
LEMMA SameDay ==
    ASSUME LossInv, pnl' = pnl, today' = today, dayPnl' = dayPnl, carried' = carried,
           \/ Booked /\ entered < MaxBets
           \/ UNCHANGED <<entered, open, dayOf>>
    PROVE  Settled' = Settled /\ DayInTable'
<1>1. CASE UNCHANGED <<entered, open, dayOf>>
  <2>1. Settled' = Settled /\ BetsToday' = BetsToday
    BY <1>1 DEF Settled, BetsToday
  <2> QED
    BY <2>1 DEF LossInv, DayInTable, RealizedToday
<1>2. CASE Booked /\ entered < MaxBets
  <2>1. /\ Settled' = Settled /\ entered + 1 \in Ids \ Settled
        /\ BetsToday' = BetsToday \union {entered + 1} /\ entered + 1 \notin BetsToday
    BY <1>2, BookedSettled DEF LossInv
  <2>2. pnl[entered + 1] = 0
    BY <2>1 DEF LossInv, ZeroUntilEnded
  <2>3. /\ IsFiniteSet(BetsToday) /\ BetsToday \subseteq Ids /\ \A b \in Ids : pnl[b] \in Int
        /\ RealizedToday \in Int
    BY TableFinite DEF LossInv
  <2>4. SumFunctionOnSet(pnl, BetsToday \union {entered + 1})
          = pnl[entered + 1] + SumFunctionOnSet(pnl, BetsToday)
    <3>1. \A b \in BetsToday \union {entered + 1} : pnl[b] \in Int
      BY <2>1, <2>3
    <3> QED
      BY <2>1, <2>3, <3>1, SumAdd
  <2>5. RealizedToday' = RealizedToday
    BY <2>1, <2>2, <2>3, <2>4 DEF RealizedToday
  <2> QED
    BY <2>1, <2>5 DEF LossInv, DayInTable
<1> QED
  BY <1>1, <1>2

\* What a bet of today ends with is in the day's sum.
LEMMA EndDay ==
    ASSUME LossInv, NEW b \in open, End(b)
    PROVE  DayInTable'
<1> PICK o \in Outcomes : pnl' = [pnl EXCEPT ![b] = o] /\ dayPnl' = dayPnl + o
  BY DEF End
<1> SUFFICES ASSUME ~ carried' PROVE dayPnl' = RealizedToday'
  BY DEF DayInTable
<1>1. ~ carried /\ dayOf[b] = today /\ UNCHANGED <<entered, dayOf, today>>
  BY DEF End
<1>2. /\ b \in 1 .. entered /\ b \in Ids /\ b \notin Settled /\ o \in Int /\ dayPnl \in Int
      /\ b \in BetsToday
  BY <1>1, RiskAssumption DEF LossInv, IInv, TypeOK, Ids, Settled, BetsToday
<1>3. pnl[b] = 0 /\ dayPnl = RealizedToday
  BY <1>1, <1>2 DEF LossInv, ZeroUntilEnded, DayInTable
<1>4. /\ pnl'[b] = o /\ \A x \in Ids \ {b} : pnl'[x] = pnl[x]
      /\ \A x \in Ids : pnl'[x] \in Int
  BY <1>2 DEF LossInv, IInv, TypeOK
<1>5. /\ IsFiniteSet(BetsToday) /\ BetsToday \subseteq Ids /\ \A x \in Ids : pnl[x] \in Int
      /\ RealizedToday \in Int
  BY TableFinite DEF LossInv
<1>6. BetsToday' = BetsToday
  BY <1>1 DEF BetsToday
<1>7. SumFunctionOnSet(pnl', BetsToday) = SumFunctionOnSet(pnl, BetsToday) - pnl[b] + pnl'[b]
  <2> DEFINE T == BetsToday
             g == pnl'
  <2>1. \A x \in T : pnl[x] \in Int /\ g[x] \in Int
    BY <1>4, <1>5
  <2>2. \A x \in T \ {b} : pnl[x] = g[x]
    BY <1>4, <1>5
  <2>3. IsFiniteSet(T) /\ b \in T
    BY <1>2, <1>5
  <2> HIDE DEF T, g
  <2>4. SumFunctionOnSet(g, T) = SumFunctionOnSet(pnl, T) - pnl[b] + g[b]
    BY <2>1, <2>2, <2>3, SumChange
  <2> QED
    BY <2>4 DEF T, g
<1> QED
  BY <1>2, <1>3, <1>4, <1>5, <1>6, <1>7 DEF RealizedToday

\* A new day has no bets and no loss.
LEMMA MidnightDay ==
    ASSUME LossInv, Midnight
    PROVE  DayInTable'
<1>1. today' = today + 1 /\ entered' = entered /\ dayOf' = dayOf /\ dayPnl' = 0
  BY DEF Midnight, table
<1>2. \A b \in 1 .. entered : dayOf[b] \in Int /\ dayOf[b] <= today
  BY RiskAssumption DEF LossInv, IInv, NoneFromTomorrow, TypeOK, Ids, Days
<1>3. today \in Int
  BY DEF LossInv, IInv, TypeOK, Days
<1>4. BetsToday' = {}
  BY <1>1, <1>2, <1>3 DEF BetsToday
<1> QED
  BY <1>1, <1>4, SumEmpty DEF DayInTable, RealizedToday

\* The largest loss of a run of bets is among the losses the gate compares.
LEMMA DrawdownIsMax ==
    ASSUME LossInv
    PROVE  /\ Drawdown \in Int
           /\ inOrder => fall <= Drawdown
<1> DEFINE f == [x \in Settled \X Settled |-> -PnlOver(x[1], x[2])]
           D == {0} \union {-PnlOver(m, n) : m, n \in Settled}
           E == {0} \union {f[x] : x \in Settled \X Settled}
<1>1. IsFiniteSet(Settled) /\ \A m, n : PnlOver(m, n) \in Int
  BY TableFinite DEF LossInv
<1>2. \A m \in Settled, n \in Settled :
        <<m, n>> \in Settled \X Settled /\ f[<<m, n>>] = -PnlOver(m, n)
  OBVIOUS
<1>3. D \subseteq E
  <2>1. 0 \in E
    OBVIOUS
  <2>2. ASSUME NEW m \in Settled, NEW n \in Settled PROVE -PnlOver(m, n) \in E
    <3>1. -PnlOver(m, n) = f[<<m, n>>] /\ <<m, n>> \in Settled \X Settled
      BY <1>2
    <3> HIDE DEF f
    <3> QED
      BY <3>1
  <2> HIDE DEF E, f
  <2>3. \A y \in D : y \in E
    BY <2>1, <2>2
  <2> HIDE DEF D
  <2> QED
    BY <2>3
<1>4. IsFiniteSet(E)
  <2>1. IsFiniteSet(Settled \X Settled)
    BY <1>1, FS_Product
  <2> HIDE DEF f
  <2>2. IsFiniteSet({f[x] : x \in Settled \X Settled})
    BY <2>1, ImageFinite
  <2> QED
    BY <2>2, FS_Singleton, FS_Union
<1>5. D \subseteq Int /\ D # {}
  <2>1. \A m, n : -PnlOver(m, n) \in Int
    BY <1>1
  <2> QED
    BY <2>1
<1>6. /\ 0 \in D
      /\ \A m \in Settled, n \in Settled : -PnlOver(m, n) \in D
  OBVIOUS
<1>7. Drawdown = Max(D)
  BY DEF Drawdown
<1> HIDE DEF D, E
<1>8. IsFiniteSet(D)
  BY <1>3, <1>4, FS_Subset
<1>9. \E t \in D : \A x \in D : x <= t
  BY <1>5, <1>8, GreatestOf
<1>10. \E t \in D : \A x \in D : t >= x
  BY <1>5, <1>9
<1>11. Max(D) \in D /\ \A x \in D : Max(D) >= x
  BY <1>10 DEF Max
<1>12. ASSUME inOrder PROVE fall \in D
  BY <1>6, <1>12 DEF LossInv, FallInTable, FallSeen
<1> QED
  BY <1>5, <1>7, <1>11, <1>12

LEMMA GateChecks ==
    ASSUME LossInv, GatePasses
    PROVE  /\ inOrder => fall < MaxDrawdown
           /\ ~ carried => dayPnl > -DailyLoss
<1>1. ~ (Drawdown >= MaxDrawdownNow) /\ ~ (RealizedToday <= -DailyLossNow)
  BY DEF GatePasses, Refuses
<1>2. /\ bankroll \div DrawdownDiv \in Int /\ bankroll \div DailyLossDiv \in Int
      /\ MaxDrawdown \in Int /\ DailyLoss \in Int
  BY DivNat, RiskAssumption DEF LossInv, IInv, TypeOK
<1>3. /\ MaxDrawdownNow \in Int /\ MaxDrawdownNow <= MaxDrawdown
      /\ DailyLossNow \in Int /\ DailyLossNow <= DailyLoss
  <2>1. ASSUME NEW x \in Int, NEW y \in Int PROVE Smaller(x, y) \in Int /\ Smaller(x, y) <= x
    BY DEF Smaller
  <2> QED
    BY <1>2, <2>1 DEF MaxDrawdownNow, DailyLossNow
<1>4. Drawdown \in Int /\ RealizedToday \in Int /\ (inOrder => fall <= Drawdown) /\ fall \in Int
  BY DrawdownIsMax, TableFinite DEF LossInv, IInv, TypeOK
<1>5. Drawdown < MaxDrawdown /\ RealizedToday > -DailyLoss
  BY <1>1, <1>2, <1>3, <1>4
<1>6. ~ carried => dayPnl = RealizedToday
  BY DEF LossInv, DayInTable
<1> QED
  BY <1>2, <1>4, <1>5, <1>6

LEMMA NextLosses ==
    ASSUME LossInv, [Next]_vars
    PROVE  LossInv'
<1>1. IInv'
  BY NextType, NextSimple, NextDays DEF LossInv, IInv
<1>2. ASSUME NEW b \in open, End(b) PROVE LossInv'
  <2>1. GateKept'
    BY <1>2 DEF End, GateKept
  <2> QED
    BY <1>1, <1>2, <2>1, EndFalls, EndDay DEF LossInv
<1>3. CASE Midnight
  <2>1. Settled' = Settled /\ pnl' = pnl /\ UNCHANGED <<cum, peak, fall, inOrder>>
        /\ pc' = pc /\ dayPnl' = 0
    BY <1>3 DEF Midnight, table, Settled
  <2>2. GateKept'
    BY <2>1, RiskAssumption DEF LossInv, GateKept
  <2> QED
    BY <1>1, <1>3, <2>1, <2>2, SameFalls, MidnightDay DEF LossInv
<1>4. CASE RestingFills \/ Place
  <2>1. entered < MaxBets
    BY <1>4, RiskAssumption DEF LossInv, IInv, TypeOK, RestingFills, Place
  <2>2. /\ pnl' = pnl /\ UNCHANGED <<today, dayPnl, carried, cum, peak, fall, inOrder, pc>>
        /\ Booked \/ UNCHANGED <<entered, open, dayOf>>
    BY <1>4 DEF RestingFills, Place, hist
  <2>3. Settled' = Settled /\ DayInTable'
    BY <2>1, <2>2, SameDay
  <2>4. GateKept'
    BY <2>2 DEF LossInv, GateKept
  <2> QED
    BY <1>1, <2>2, <2>3, <2>4, SameFalls DEF LossInv
<1>5. CASE GateTrips \/ GatePasses \/ ExitPass \/ EndCycle \/ Reset \/ Restart \/ UNCHANGED vars
  <2>1. /\ UNCHANGED <<table, today, hist>>
    BY <1>5 DEF GateTrips, GatePasses, ExitPass, EndCycle, Reset, Restart, vars
  <2>2. /\ pnl' = pnl /\ UNCHANGED <<today, dayPnl, carried, cum, peak, fall, inOrder>>
        /\ UNCHANGED <<entered, open, dayOf>>
    BY <2>1 DEF table, hist
  <2>3. Settled' = Settled /\ DayInTable'
    BY <2>2, SameDay
  <2>4. GateKept'
    <3>1. CASE GatePasses
      BY <2>2, <3>1, GateChecks DEF GateKept
    <3>2. CASE ~ GatePasses
      <4>1. pc' = pc \/ pc' # "enter"
        BY <1>5, <3>2 DEF GateTrips, ExitPass, EndCycle, Reset, Restart, vars
      <4> QED
        BY <2>2, <4>1 DEF LossInv, GateKept
    <3> QED
      BY <3>1, <3>2
  <2> QED
    BY <1>1, <2>2, <2>3, <2>4, SameFalls DEF LossInv
<1> QED
  BY <1>2, <1>3, <1>4, <1>5 DEF Next

\* What went by in time is in the table the gate reads: the falls while bets
\* end in the order of their ids, the day's loss while the bets that end are
\* of the day (risk.py:101-121).
THEOREM LossesInTable == Spec => []LossInv
BY InitLosses, NextLosses, PTL DEF Spec

\* While bets settle in the order they were entered, no order is placed after
\* a fall of the maximum drawdown from any peak (risk.py:105-113).
THEOREM DrawdownHolds == Spec => DrawdownStopsOrders
<1>1. LossInv => [Place /\ inOrder => fall < MaxDrawdown]_vars
  BY DEF LossInv, GateKept, Place
<1> QED BY <1>1, LossesInTable, PTL DEF DrawdownStopsOrders

\* What a day has lost stops the day, through midnights, restarts and resets,
\* unless a bet of an earlier day ended in it (risk.py:116-121).
THEOREM DailyLossHolds == Spec => DailyLossStopsOrders
<1>1. LossInv => [Place /\ ~ carried => dayPnl > -DailyLoss]_vars
  BY DEF LossInv, GateKept, Place
<1> QED BY <1>1, LossesInTable, PTL DEF DailyLossStopsOrders
=============================================================================
