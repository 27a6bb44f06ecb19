-------------------------- MODULE PaperVenueProofs --------------------------
(***************************************************************************)
(* The paper venue for every value of the constants: any number of orders, *)
(* prints, connections and drops, any window, fees and balance.            *)
(*                                                                         *)
(* A gap in the tape shows: a print that a subscribed session did not      *)
(* bring was made after that session was last heard.                       *)
(*                                                                         *)
(* An order holds what its window offered, no more and, once looked at     *)
(* after the window with all of its prints recorded, no less: prints made  *)
(* later fall outside a window that is over, and what a reconcile has read *)
(* stays the whole window until it is credited.                            *)
(*                                                                         *)
(* The venue implements FillLedger: the books are behind the venue only    *)
(* where a fill is in hand, and a crash tears exactly those.               *)
(***************************************************************************)
EXTENDS PaperVenue, SequenceTheorems, SumLemmas

PrintRecord == [ts : Times, price : Prices, size : Volumes]
SessionRecord == [since : Nat, seen : Times]
SessionIds == 1 .. Len(sessions)
Lost == Prints \ (recorded \union wire \union spilled)

Shapes ==
    /\ now \in Times
    /\ made \in Seq(PrintRecord)
    /\ recorded \subseteq Prints /\ wire \subseteq Prints /\ spilled \subseteq Prints
    /\ sessions \in Seq(SessionRecord)
    /\ conn \in 0 .. Len(sessions)

\* The clock is ahead of everything, and the session connected is at it.
InTime ==
    /\ \A i \in Prints : made[i].ts <= now
    /\ \A s \in SessionIds : sessions[s].seen <= now
    /\ conn # 0 => sessions[conn].seen = now
    /\ conn = 0 => wire = {}

\* What a session was subscribed for and did not bring came after it was gone.
LostAfter ==
    \A s \in SessionIds, i \in Lost :
        sessions[s].since <= made[i].ts => s # conn /\ sessions[s].seen <= made[i].ts

TapeInv == Shapes /\ InTime /\ LostAfter

-----------------------------------------------------------------------------
LEMMA InitTape == PaperInit => TapeInv
<1> SUFFICES ASSUME PaperInit PROVE TapeInv
  OBVIOUS
<1>1. /\ now = 0 /\ made = <<>> /\ recorded = {} /\ wire = {} /\ spilled = {}
      /\ sessions = <<[since |-> 0, seen |-> 0]>> /\ conn = 1
  BY DEF PaperInit, TapeInit
<1>2. Len(made) = 0 /\ Prints = {} /\ Len(sessions) = 1 /\ sessions[1] = [since |-> 0, seen |-> 0]
  BY <1>1 DEF Prints
<1>3. Shapes
  BY <1>1, <1>2, TapeAssumption DEF Shapes, Times, SessionRecord, PrintRecord
<1>4. InTime /\ LostAfter
  BY <1>1, <1>2 DEF InTime, LostAfter, Lost, SessionIds
<1> QED BY <1>3, <1>4 DEF TapeInv

LEMMA Types ==
    ASSUME Shapes
    PROVE  /\ now \in Nat /\ Len(made) \in Nat /\ Len(sessions) \in Nat
           /\ \A i \in Prints : made[i] \in PrintRecord /\ made[i].ts \in Nat
           /\ \A s \in SessionIds :
                /\ sessions[s] \in SessionRecord
                /\ sessions[s].since \in Nat /\ sessions[s].seen \in Nat
<1>1. Times \subseteq Nat /\ now \in Nat
  BY DEF Times, Shapes
<1>2. Len(made) \in Nat /\ Len(sessions) \in Nat
  BY LenProperties DEF Shapes
<1>3. \A i \in Prints : made[i] \in PrintRecord
  BY ElementOfSeq DEF Shapes, Prints
<1>4. \A s \in SessionIds : sessions[s] \in SessionRecord
  BY ElementOfSeq DEF Shapes, SessionIds
<1> QED BY <1>1, <1>2, <1>3, <1>4 DEF PrintRecord, SessionRecord

\* The connected session with one field written.
LEMMA Written ==
    ASSUME Shapes, conn # 0, NEW r \in SessionRecord,
           sessions' = [sessions EXCEPT ![conn] = r]
    PROVE  /\ sessions' \in Seq(SessionRecord) /\ Len(sessions') = Len(sessions)
           /\ \A s \in SessionIds : sessions'[s] = IF s = conn THEN r ELSE sessions[s]
<1>1. conn \in SessionIds
  BY Types DEF Shapes, SessionIds
<1> QED BY <1>1, ExceptSeq DEF Shapes, SessionIds

LEMMA TickKeeps ==
    ASSUME TapeInv, Tick
    PROVE  TapeInv'
<1>1. now' = now + 1 /\ now' \in Times /\ now \in Nat
      /\ UNCHANGED <<made, recorded, conn, wire, spilled>>
  BY TapeAssumption DEF Tick, TapeInv, Shapes, Times
<1>2. /\ sessions' \in Seq(SessionRecord) /\ Len(sessions') = Len(sessions)
      /\ \A s \in SessionIds :
           /\ sessions'[s].since = sessions[s].since
           /\ sessions'[s].seen = IF s = conn THEN now + 1 ELSE sessions[s].seen
  <2>1. CASE conn = 0
    <3>1. sessions' = sessions /\ \A s \in SessionIds : s # conn
      BY <2>1 DEF Tick, SessionIds
    <3> QED BY <3>1 DEF TapeInv, Shapes
  <2>2. CASE conn # 0
    <3> DEFINE r == [sessions[conn] EXCEPT !.seen = now + 1]
    <3>1. conn \in SessionIds
      BY <2>2, Types DEF TapeInv, Shapes, SessionIds
    <3>2. r \in SessionRecord /\ r.since = sessions[conn].since /\ r.seen = now + 1
      BY <1>1, <3>1, Types DEF TapeInv, SessionRecord
    <3>3. sessions' = [sessions EXCEPT ![conn] = r]
      BY <2>2 DEF Tick
    <3> HIDE DEF r
    <3>4. /\ sessions' \in Seq(SessionRecord) /\ Len(sessions') = Len(sessions)
          /\ \A s \in SessionIds : sessions'[s] = IF s = conn THEN r ELSE sessions[s]
      BY <2>2, <3>2, <3>3, Written DEF TapeInv
    <3> QED BY <3>2, <3>4
  <2> QED BY <2>1, <2>2
<1>4. Shapes'
  BY <1>1, <1>2 DEF TapeInv, Shapes, Prints
<1>7. InTime'
  <2>1. \A i \in Prints' : made'[i].ts <= now'
    <3>1. \A i \in Prints : made[i].ts \in Nat /\ made[i].ts <= now
      BY Types DEF TapeInv, InTime
    <3> QED BY <1>1, <3>1 DEF Prints
  <2>2. \A s \in SessionIds' : sessions'[s].seen <= now'
    <3>1. \A s \in SessionIds : sessions[s].seen \in Nat /\ sessions[s].seen <= now
      BY Types DEF TapeInv, InTime
    <3> QED BY <1>1, <1>2, <3>1 DEF SessionIds
  <2>3. conn' # 0 => sessions'[conn'].seen = now'
    <3>1. conn # 0 => conn \in SessionIds
      BY Types DEF TapeInv, Shapes, SessionIds
    <3> QED BY <1>1, <1>2, <3>1
  <2> QED BY <1>1, <2>1, <2>2, <2>3 DEF TapeInv, InTime
<1>8. LostAfter'
  BY <1>1, <1>2 DEF TapeInv, LostAfter, Lost, Prints, SessionIds
<1> QED BY <1>4, <1>7, <1>8 DEF TapeInv

LEMMA MakePrintKeeps ==
    ASSUME TapeInv, NEW p \in Prices, NEW v \in Volumes,
           MakePrint([ts |-> now, price |-> p, size |-> v])
    PROVE  TapeInv'
<1> DEFINE r == [ts |-> now, price |-> p, size |-> v]
           n == Len(made) + 1
<1>1. /\ made' = Append(made, r) /\ Sends(n, r) /\ r \in PrintRecord /\ r.ts = now
      /\ UNCHANGED <<now, recorded, sessions, conn, spilled>>
  BY DEF MakePrint, TapeInv, Shapes, PrintRecord
<1>2. /\ made' \in Seq(PrintRecord) /\ Len(made') = n
      /\ \A i \in Prints : made'[i] = made[i]
      /\ made'[n] = r /\ n \in Nat
  BY <1>1, Types, AppendProperties DEF TapeInv, Shapes, Prints
<1>3. Prints' = Prints \union {n}
  BY <1>2, Types DEF Prints, TapeInv
<1>4. wire \subseteq wire' /\ wire' \subseteq wire \union {n} /\ (conn = 0 => wire' = {})
  BY <1>1 DEF Sends, TapeInv, InTime
<1>5. \A s \in SessionIds : s = conn /\ sessions[s].since <= now => n \in wire'
  <2> SUFFICES ASSUME conn \in SessionIds, sessions[conn].since <= now
               PROVE  n \in wire'
    OBVIOUS
  <2>1. conn # 0 /\ sessions[conn].since # Never
    BY TapeAssumption DEF TapeInv, Shapes, Times, Never, SessionIds
  <2> QED BY <1>1, <2>1 DEF Sends
<1>6. Shapes'
  BY <1>1, <1>2, <1>3, <1>4 DEF TapeInv, Shapes
<1>7. InTime'
  <2>1. \A i \in Prints' : made'[i].ts <= now'
    <3>1. now \in Nat /\ now' = now /\ \A i \in Prints : made'[i].ts <= now
      BY <1>1, <1>2, Types DEF TapeInv, InTime
    <3>2. made'[n].ts = now
      BY <1>1, <1>2
    <3> HIDE DEF n, r
    <3> QED BY <1>3, <3>1, <3>2
  <2> QED BY <1>1, <1>4, <2>1 DEF TapeInv, InTime, SessionIds
<1>8. LostAfter'
  <2>1. \A i \in Lost' : i \in Lost \/ i = n
    BY <1>1, <1>3, <1>4 DEF Lost
  <2> SUFFICES ASSUME NEW s \in SessionIds, NEW i \in Lost',
                      sessions[s].since <= made'[i].ts
               PROVE  s # conn /\ sessions[s].seen <= made'[i].ts
    BY <1>1 DEF LostAfter, SessionIds
  <2>2. CASE i \in Lost
    BY <1>2, <2>2 DEF TapeInv, LostAfter, Lost
  <2>3. CASE i = n
    BY <1>1, <1>2, <1>5, <2>3 DEF TapeInv, InTime, Lost
  <2> QED BY <2>1, <2>2, <2>3
<1> QED BY <1>6, <1>7, <1>8 DEF TapeInv

LEMMA OpenSessionKeeps ==
    ASSUME TapeInv, OpenSession
    PROVE  TapeInv'
<1> DEFINE r == [since |-> Never, seen |-> now]
           n == Len(sessions) + 1
<1>1. /\ conn = 0 /\ conn' = n /\ sessions' = Append(sessions, r)
      /\ UNCHANGED <<now, made, recorded, wire, spilled>>
  BY DEF OpenSession
<1>2. r \in SessionRecord /\ r.since = Never /\ r.seen = now
  BY TapeAssumption DEF TapeInv, Shapes, SessionRecord, Never
<1>3. /\ sessions' \in Seq(SessionRecord) /\ Len(sessions') = n
      /\ \A s \in SessionIds : sessions'[s] = sessions[s]
      /\ sessions'[n] = r /\ n \in Nat \ {0}
  BY <1>1, <1>2, Types, AppendProperties DEF TapeInv, Shapes, SessionIds
<1>4. SessionIds' = SessionIds \union {n} /\ n \notin SessionIds
  BY <1>3, Types DEF SessionIds, TapeInv
<1>5. Shapes'
  BY <1>1, <1>3 DEF TapeInv, Shapes, Prints
<1>6. InTime'
  <2>1. \A s \in SessionIds' : sessions'[s].seen <= now'
    <3>1. now \in Nat /\ now' = now /\ \A s \in SessionIds : sessions'[s].seen <= now
      BY <1>1, <1>3, Types DEF TapeInv, InTime
    <3>2. sessions'[n].seen = now
      BY <1>2, <1>3
    <3> HIDE DEF n, r
    <3> QED BY <1>4, <3>1, <3>2
  <2>2. sessions'[conn'].seen = now' /\ conn' # 0
    BY <1>1, <1>2, <1>3
  <2> QED BY <1>1, <2>1, <2>2 DEF TapeInv, InTime, Prints
<1>7. \A i \in Prints : ~ (Never <= made[i].ts)
  <2>1. now <= MaxTime /\ \A i \in Prints : made[i].ts \in Nat /\ made[i].ts <= now
    BY Types DEF TapeInv, InTime, Shapes, Times
  <2> QED BY <2>1, Types, TapeAssumption DEF TapeInv, Never
<1>8. LostAfter'
  <2> SUFFICES ASSUME NEW s \in SessionIds', NEW i \in Lost',
                      sessions'[s].since <= made'[i].ts
               PROVE  s # conn' /\ sessions'[s].seen <= made'[i].ts
    BY DEF LostAfter
  <2>1. i \in Lost /\ i \in Prints /\ made' = made
    BY <1>1 DEF Lost, Prints
  <2>2. s # n
    BY <1>2, <1>3, <1>7, <2>1
  <2>3. s \in SessionIds /\ sessions'[s] = sessions[s]
    BY <1>3, <1>4, <2>2
  <2> QED BY <1>1, <2>1, <2>2, <2>3 DEF TapeInv, LostAfter
<1> QED BY <1>5, <1>6, <1>8 DEF TapeInv

LEMMA SubscribeKeeps ==
    ASSUME TapeInv, Subscribe
    PROVE  TapeInv'
<1>1. /\ conn # 0 /\ sessions' = [sessions EXCEPT ![conn].since = now + Lag]
      /\ now + Lag \in Nat /\ UNCHANGED <<now, made, recorded, conn, wire, spilled>>
  BY TapeAssumption DEF Subscribe, TapeInv, Shapes, Times
<1>2. conn \in SessionIds
  BY <1>1, Types DEF TapeInv, Shapes, SessionIds
<1>3. /\ sessions' \in Seq(SessionRecord) /\ Len(sessions') = Len(sessions)
      /\ \A s \in SessionIds :
           /\ sessions'[s].since = IF s = conn THEN now + Lag ELSE sessions[s].since
           /\ sessions'[s].seen = sessions[s].seen
  <2> DEFINE r == [sessions[conn] EXCEPT !.since = now + Lag]
  <2>1. r \in SessionRecord /\ r.since = now + Lag /\ r.seen = sessions[conn].seen
    BY <1>1, <1>2, Types DEF TapeInv, SessionRecord
  <2>2. sessions' = [sessions EXCEPT ![conn] = r]
    BY <1>1
  <2> HIDE DEF r
  <2> QED BY <1>1, <2>1, <2>2, Written DEF TapeInv
<1>4. Shapes'
  BY <1>1, <1>3 DEF TapeInv, Shapes, Prints
<1>6. InTime'
  BY <1>1, <1>2, <1>3 DEF TapeInv, InTime, Prints, SessionIds
<1>7. \A i \in Prints : ~ (now + Lag <= made[i].ts)
  <2>1. \A i \in Prints : made[i].ts \in Nat /\ made[i].ts <= now
    BY Types DEF TapeInv, InTime
  <2> QED BY <2>1, Types, TapeAssumption DEF TapeInv
<1>8. LostAfter'
  BY <1>1, <1>3, <1>7 DEF TapeInv, LostAfter, Lost, Prints, SessionIds
<1> QED BY <1>4, <1>6, <1>8 DEF TapeInv

LEMMA RecordPrintKeeps ==
    ASSUME TapeInv, RecordPrint
    PROVE  TapeInv'
<1>1. PICK i \in wire : recorded' = recorded \union {i} /\ wire' = wire \ {i}
  BY DEF RecordPrint
<1>2. /\ sessions' = [sessions EXCEPT ![conn].seen = now]
      /\ UNCHANGED <<now, made, conn, spilled>>
  BY DEF RecordPrint
<1>3. conn # 0 /\ conn \in SessionIds /\ sessions[conn].seen = now
  BY <1>1 DEF TapeInv, InTime, Shapes, SessionIds
<1>4. sessions' = sessions
  <2> DEFINE r == [sessions[conn] EXCEPT !.seen = now]
  <2>1. r = sessions[conn] /\ r \in SessionRecord
    BY <1>3, Types DEF TapeInv, SessionRecord
  <2>2. sessions' = [sessions EXCEPT ![conn] = r]
    BY <1>2
  <2> HIDE DEF r
  <2>3. \A s \in SessionIds : sessions'[s] = sessions[s]
    BY <1>3, <2>1, <2>2, Written DEF TapeInv
  <2> QED BY <1>3, <2>1, <2>2, <2>3, Written, SeqEqual DEF TapeInv, Shapes, SessionIds
<1>5. Shapes'
  BY <1>1, <1>2, <1>4 DEF TapeInv, Shapes, Prints
<1>6. InTime'
  BY <1>1, <1>2, <1>3, <1>4 DEF TapeInv, InTime, Prints, SessionIds
<1>7. LostAfter'
  BY <1>1, <1>2, <1>4 DEF TapeInv, LostAfter, Lost, Prints, SessionIds
<1> QED BY <1>5, <1>6, <1>7 DEF TapeInv

LEMMA DropSessionKeeps ==
    ASSUME TapeInv, DropSession
    PROVE  TapeInv'
<1>1. /\ conn' = 0 /\ wire' = {} /\ spilled' = spilled \union wire
      /\ UNCHANGED <<now, made, recorded, sessions>>
  BY DEF DropSession
<1>2. Shapes'
  BY <1>1 DEF TapeInv, Shapes, Prints
<1>3. InTime'
  BY <1>1 DEF TapeInv, InTime, Prints, SessionIds
<1>4. LostAfter'
  BY <1>1 DEF TapeInv, LostAfter, Lost, Prints, SessionIds
<1> QED BY <1>2, <1>3, <1>4 DEF TapeInv

\* A step of the bot leaves the tape alone.
LEMMA BotReadsOnly ==
    ASSUME Next \/ UNCHANGED vars
    PROVE  TapeNext \/ UNCHANGED <<now, tape>>
<1>1. ASSUME Reconcile PROVE UNCHANGED <<now, tape>>
  BY <1>1 DEF Reconcile, ReadTape, Gate, NothingRests, NothingNew, NoTape, Booked,
              Credit, TooPoor, BookFill
<1>2. ASSUME Trade \/ EndTrade \/ CycleRaises \/ Restart PROVE UNCHANGED <<now, tape>>
  BY <1>2 DEF Trade, Place, Reject, Paid, EndTrade, CycleRaises, Restart
<1> QED BY <1>1, <1>2 DEF Next, Market, Cycle, vars

LEMMA NextTape ==
    ASSUME TapeInv, [Next]_vars
    PROVE  TapeInv'
<1>1. CASE UNCHANGED <<now, tape>>
  <2>1. UNCHANGED <<now, made, recorded, sessions, conn, wire, spilled>>
    BY <1>1 DEF tape
  <2> QED BY <2>1 DEF TapeInv, Shapes, InTime, LostAfter, Lost, Prints, SessionIds
<1>2. CASE TapeNext
  <2>1. CASE Collector
    BY <2>1, OpenSessionKeeps, SubscribeKeeps, RecordPrintKeeps, DropSessionKeeps DEF Collector
  <2> QED BY <1>2, <2>1, TickKeeps, MakePrintKeeps DEF TapeNext
<1> QED BY <1>1, <1>2, BotReadsOnly

LEMMA GapFromInv == TapeInv => GapShows
<1> SUFFICES ASSUME TapeInv, NEW t \in Times, NEW i \in Prints,
                    Covered(t), made[i].ts >= t, i \notin recorded \union wire \union spilled
             PROVE  made[i].ts >= now - Grace
  BY DEF GapShows
<1>1. PICK s \in SessionIds : sessions[s].since <= t /\ sessions[s].seen >= now - Grace
  BY DEF Covered, SessionIds
<1>2. /\ made[i].ts \in Nat /\ t \in Nat /\ now \in Nat /\ Grace \in Nat
      /\ sessions[s].since \in Nat /\ sessions[s].seen \in Nat
  BY Types, TapeAssumption DEF TapeInv, Times
<1>3. sessions[s].seen <= made[i].ts
  BY <1>1, <1>2 DEF TapeInv, LostAfter, Lost
<1> QED BY <1>1, <1>2, <1>3

-----------------------------------------------------------------------------
\* A print that a subscribed session did not bring was made when that session
\* was no longer heard (polymarket_us_tape.py:131-168, 310-368).
THEOREM TapeHolds == Spec => []TapeInv
BY InitTape, NextTape, PTL DEF Spec

\* The tape vouches for a window it has lost a print of only within the grace
\* after that print, through any drops and reconnects
\* (polymarket_us_tape.py:22-25, 160-168).
THEOREM GapsShow == Spec => []GapShows
BY TapeHolds, GapFromInv, PTL

-----------------------------------------------------------------------------
(* The orders: what is filled, what is booked, what is yet to be looked at. *)

OrderRecord == [state : {"new", "resting", "filled", "expired", "dead", "rejected"},
                placed : Times, filled : 0 .. Size, taken : 0 .. Size]
\* What the venue traded through an order while it could have rested.
Offered(o) == Through(o, Prints, WindowEnd(o))
Full(o) == order[o].filled = Min2(Size, order[o].taken + Offered(o))

Typed ==
    /\ order \in [Orders -> OrderRecord]
    /\ balance \in Nat /\ bets \in [Orders -> Nat]
    /\ pc \in {"idle", "credit", "book", "trade", "placed"}
    /\ answer \subseteq Prints /\ todo \subseteq Resting /\ book \subseteq Orders
    /\ checked \subseteq Orders /\ torn \subseteq Orders

Phases ==
    /\ pc # "credit" => todo = {} /\ answer = {}
    /\ pc \in {"idle", "trade"} => book = {}
    /\ pc = "placed" => \A o, q \in book : o = q

\* The books are behind the venue only where a fill is in hand or was torn off.
Rows ==
    \A o \in Orders :
        /\ order[o].state = "new" => order[o].filled = 0
        /\ order[o].state \in {"new", "rejected"} => o \notin checked
        /\ o \in book => order[o].state \in {"resting", "filled"} /\ bets[o] < order[o].filled
        /\ o \in torn => order[o].state \in {"dead", "filled"}
        /\ o \notin book \union torn => bets[o] = order[o].filled

\* What the reconcile in hand has still to credit.
ToLook ==
    \A o \in todo :
        /\ Increment(o, answer) > 0 /\ o \notin book
        /\ o \in checked => \A i \in Prints : Within(o, i, WindowEnd(o)) => i \in answer

\* An order looked at after its window has all it was offered.
LookedFull ==
    \A o \in checked :
        order[o].state \in {"resting", "expired"} =>
            now >= WindowEnd(o) /\ (o \in todo \/ Full(o))

BotInv == Typed /\ Phases /\ Rows /\ ToLook /\ LookedFull /\ FillsWithinWindow
PaperInv == TapeInv /\ BotInv

LEMMA OrderTypes ==
    ASSUME PaperInv
    PROVE  /\ now \in Nat /\ Size \in Nat \ {0} /\ balance \in Nat
           /\ \A o \in Orders :
                /\ order[o] \in OrderRecord /\ bets[o] \in Nat
                /\ order[o].placed \in Nat /\ order[o].filled \in 0 .. Size
                /\ order[o].taken \in 0 .. Size /\ WindowEnd(o) \in Nat
                /\ Window(o) \in Nat /\ Window(o) <= WindowEnd(o)
                /\ now >= WindowEnd(o) => Window(o) = WindowEnd(o)
<1>1. now \in Nat /\ Size \in Nat \ {0} /\ balance \in Nat
  BY Types, PaperAssumption DEF PaperInv, TapeInv, BotInv, Typed
<1>2. ASSUME NEW o \in Orders
      PROVE  /\ order[o] \in OrderRecord /\ bets[o] \in Nat
             /\ order[o].placed \in Nat /\ order[o].filled \in 0 .. Size
             /\ order[o].taken \in 0 .. Size
  BY DEF PaperInv, BotInv, Typed, OrderRecord, Times
<1>3. ASSUME NEW o \in Orders
      PROVE  WindowEnd(o) \in Nat
  BY <1>2, PaperAssumption DEF WindowEnd, Min2
<1>4. ASSUME NEW o \in Orders
      PROVE  /\ Window(o) \in Nat /\ Window(o) <= WindowEnd(o)
             /\ now >= WindowEnd(o) => Window(o) = WindowEnd(o)
  BY <1>1, <1>3 DEF Window, Min2
<1> QED
  BY <1>1, <1>2, <1>3, <1>4

Sizes == [i \in Prints |-> made[i].size]

LEMMA SizeTypes ==
    ASSUME Shapes
    PROVE  IsFiniteSet(Prints) /\ \A i \in Prints : Sizes[i] \in Nat
<1>1. IsFiniteSet(Prints)
  BY Types, FS_Interval DEF Prints
<1>2. ASSUME NEW i \in Prints PROVE Sizes[i] \in Nat
  BY Types, TapeAssumption DEF Sizes, PrintRecord
<1> QED
  BY <1>1, <1>2

\* A wider window over more prints offers as much or more.
LEMMA ThroughMore ==
    ASSUME Shapes, NEW o \in Orders, NEW T \in SUBSET Prints, NEW S \in SUBSET T,
           NEW b \in Nat, NEW c \in Nat, b <= c
    PROVE  /\ Through(o, S, b) \in Nat /\ Through(o, T, c) \in Nat
           /\ Through(o, S, b) <= Through(o, T, c)
<1> DEFINE V == {i \in S : Within(o, i, b)}
           W == {i \in T : Within(o, i, c)}
<1>1. V \in SUBSET W /\ W \in SUBSET Prints
  <2>1. ASSUME NEW i \in V PROVE i \in W
    <3>1. i \in T /\ made[i].ts \in Nat
      BY Types
    <3> QED
      BY <3>1 DEF Within
  <2> QED
    BY <2>1
<1>2. Through(o, S, b) = SumFunctionOnSet(Sizes, V) /\ Through(o, T, c) = SumFunctionOnSet(Sizes, W)
  BY DEF Through, Sizes
<1> HIDE DEF V, W
<1>3. IsFiniteSet(W) /\ IsFiniteSet(V) /\ \A i \in W : Sizes[i] \in Nat
  BY <1>1, SizeTypes, FS_Subset
<1>4. SumFunctionOnSet(Sizes, V) \in Nat /\ SumFunctionOnSet(Sizes, W) \in Nat
  BY <1>1, <1>3, SumNat
<1>5. SumFunctionOnSet(Sizes, V) <= SumFunctionOnSet(Sizes, W)
  BY <1>1, <1>3, SumSubset
<1> QED
  BY <1>2, <1>4, <1>5

LEMMA OfferedNat ==
    ASSUME PaperInv, NEW o \in Orders
    PROVE  Offered(o) \in Nat
BY OrderTypes, ThroughMore DEF PaperInv, TapeInv, Offered

\* Prints that hold all of a window offer what all prints do.
LEMMA ThroughAll ==
    ASSUME NEW o \in Orders, NEW S \in SUBSET Prints, NEW b,
           \A i \in Prints : Within(o, i, b) => i \in S
    PROVE  Through(o, S, b) = Through(o, Prints, b)
<1>1. {i \in S : Within(o, i, b)} = {i \in Prints : Within(o, i, b)}
  OBVIOUS
<1> QED
  BY <1>1 DEF Through

\* While no print is made, an order placed once is offered what it was.
LEMMA OfferedSame ==
    ASSUME NEW o \in Orders, made' = made, order'[o].placed = order[o].placed
    PROVE  Offered(o)' = Offered(o) /\ WindowEnd(o)' = WindowEnd(o)
<1>1. WindowEnd(o)' = WindowEnd(o) /\ Prints' = Prints
  BY DEF WindowEnd, Prints, Min2
<1>2. ASSUME NEW i \in Prints
      PROVE  Within(o, i, WindowEnd(o))' <=> Within(o, i, WindowEnd(o))
  BY <1>1 DEF Within, Crosses
<1>3. {i \in Prints : Within(o, i, WindowEnd(o))}' = {i \in Prints : Within(o, i, WindowEnd(o))}
  BY <1>1, <1>2
<1> QED
  BY <1>1, <1>3 DEF Offered, Through

-----------------------------------------------------------------------------
(* Time, the venue and the collector move. *)

LEMMA ShapesAtStart ==
    ASSUME PaperInit
    PROVE  BotInv
<1>1. /\ order = [o \in Orders |-> NewOrder] /\ balance = Balance /\ bets = [o \in Orders |-> 0]
      /\ pc = "idle" /\ answer = {} /\ todo = {} /\ book = {} /\ checked = {} /\ torn = {}
  BY DEF PaperInit
<1>2. NewOrder \in OrderRecord
  BY TapeAssumption, PaperAssumption DEF NewOrder, OrderRecord, Times
<1>3. \A o \in Orders : order[o] = NewOrder /\ order[o].filled = 0 /\ order[o].taken = 0
  BY <1>1 DEF NewOrder
<1>4. Typed
  BY <1>1, <1>2, PaperAssumption DEF Typed
<1>5. Phases /\ Rows /\ ToLook /\ LookedFull
  BY <1>1, <1>3 DEF Phases, Rows, ToLook, LookedFull
<1>6. FillsWithinWindow
  <2> SUFFICES ASSUME NEW o \in Orders
               PROVE  order[o].filled <= order[o].taken + Through(o, Prints, WindowEnd(o))
    BY DEF FillsWithinWindow
  <2>1. TapeInv
    BY InitTape
  <2>2. WindowEnd(o) \in Nat
    BY <1>3, PaperAssumption DEF WindowEnd, Min2, NewOrder
  <2>3. Through(o, Prints, WindowEnd(o)) \in Nat
    BY <2>1, <2>2, ThroughMore DEF TapeInv
  <2> QED
    BY <1>3, <2>3
<1> QED
  BY <1>4, <1>5, <1>6 DEF BotInv

\* A print made now is offered to the orders whose window is open.
LEMMA OfferedGrows ==
    ASSUME PaperInv, NEW o \in Orders, NEW p \in Prices, NEW v \in Volumes,
           MakePrint([ts |-> now, price |-> p, size |-> v]), order' = order
    PROVE  /\ Offered(o) <= Offered(o)' /\ Offered(o)' \in Nat
           /\ now >= WindowEnd(o) => Offered(o)' = Offered(o)
<1> DEFINE r == [ts |-> now, price |-> p, size |-> v]
           n == Len(made) + 1
           V == {i \in Prints : Within(o, i, WindowEnd(o))}
           W == {i \in Prints : Within(o, i, WindowEnd(o))}'
<1>1. r \in PrintRecord /\ r.ts = now /\ made' = Append(made, r) /\ n \in Nat
  BY Types DEF MakePrint, PaperInv, TapeInv, Shapes, PrintRecord
<1>2. /\ Len(made') = n /\ made'[n] = r
      /\ \A i \in Prints : made'[i] = made[i]
  BY <1>1, Types, AppendProperties DEF PaperInv, TapeInv, Shapes, Prints
<1>3. Prints' = Prints \union {n} /\ n \notin Prints
  BY <1>2, Types DEF Prints, PaperInv, TapeInv
<1>4. WindowEnd(o)' = WindowEnd(o) /\ WindowEnd(o) \in Nat
  BY OrderTypes DEF WindowEnd, Min2
<1>5. ASSUME NEW i \in Prints
      PROVE  Within(o, i, WindowEnd(o))' <=> Within(o, i, WindowEnd(o))
  BY <1>2, <1>4 DEF Within, Crosses
<1>6. V \subseteq W
  BY <1>3, <1>5
<1>7. now >= WindowEnd(o) => W = V
  <2>1. ASSUME now >= WindowEnd(o), NEW i \in W PROVE i \in V
    <3>1. now \in Nat /\ i # n
      BY <1>1, <1>2, <1>4, <2>1, OrderTypes DEF Within
    <3> QED
      BY <1>3, <1>5, <2>1, <3>1
  <2> QED
    BY <1>6, <2>1
<1>8. made'[n].size \in Nat
  BY <1>1, <1>2, TapeAssumption DEF PrintRecord
<1>9. W \in SUBSET Prints' /\ V \in SUBSET Prints
  OBVIOUS
<1>10. Offered(o) = SumFunctionOnSet(Sizes, V) /\ Offered(o)' = SumFunctionOnSet(Sizes', W)
  BY DEF Offered, Through, Sizes
<1> HIDE DEF V, W, n, r
<1>11. IsFiniteSet(Prints') /\ \A i \in Prints' : Sizes'[i] \in Nat
  <2>1. IsFiniteSet(Prints) /\ \A i \in Prints : Sizes[i] \in Nat
    BY SizeTypes DEF PaperInv, TapeInv
  <2>2. \A i \in Prints' : Sizes'[i] = IF i = n THEN made'[n].size ELSE Sizes[i]
    BY <1>2, <1>3 DEF Sizes
  <2>3. IsFiniteSet(Prints')
    BY <1>3, <2>1, FS_AddElement
  <2> QED
    BY <1>3, <1>8, <2>1, <2>2, <2>3
<1>12. \A i \in V : Sizes[i] = Sizes'[i]
  BY <1>2, <1>3, <1>9 DEF Sizes
<1>13. IsFiniteSet(V) /\ IsFiniteSet(W) /\ \A i \in W : Sizes'[i] \in Nat
  BY <1>6, <1>9, <1>11, FS_Subset
<1>14. SumFunctionOnSet(Sizes, V) = SumFunctionOnSet(Sizes', V)
  BY <1>12, <1>13, SumSame
<1>15. SumFunctionOnSet(Sizes', V) <= SumFunctionOnSet(Sizes', W)
  BY <1>6, <1>13, SumSubset
<1>16. SumFunctionOnSet(Sizes', W) \in Nat
  BY <1>13, SumNat
<1> QED
  BY <1>7, <1>10, <1>14, <1>15, <1>16

LEMMA MarketOffers ==
    ASSUME PaperInv, Market, NEW o \in Orders
    PROVE  /\ Offered(o) <= Offered(o)' /\ Offered(o)' \in Nat
           /\ now >= WindowEnd(o) => Offered(o)' = Offered(o)
<1>1. order' = order
  BY DEF Market, bot
<1>2. CASE \E p \in Prices, v \in Volumes : MakePrint([ts |-> now, price |-> p, size |-> v])
  BY <1>1, <1>2, OfferedGrows
<1>3. CASE made' = made
  BY <1>1, <1>3, OfferedSame, OfferedNat
<1>4. Tick \/ Collector => made' = made
  BY DEF Tick, Collector, OpenSession, Subscribe, RecordPrint, DropSession
<1> QED
  BY <1>2, <1>3, <1>4 DEF Market, TapeNext

LEMMA MarketKeeps ==
    ASSUME PaperInv, Market
    PROVE  BotInv'
<1>1. /\ order' = order /\ balance' = balance /\ bets' = bets /\ pc' = pc /\ answer' = answer
      /\ todo' = todo /\ book' = book /\ checked' = checked /\ torn' = torn
      /\ pc \in {"idle", "trade"}
  BY DEF Market, bot, Open
<1>2. todo = {} /\ answer = {} /\ book = {}
  BY <1>1 DEF PaperInv, BotInv, Phases
<1>3. now' \in Nat /\ now <= now' /\ now \in Nat
  <2>1. Tick => now' = now + 1
    BY DEF Tick
  <2>2. TapeNext /\ ~Tick => now' = now
    BY DEF TapeNext, Collector, OpenSession, Subscribe, RecordPrint, DropSession, MakePrint
  <2> QED
    BY <2>1, <2>2, OrderTypes DEF Market
<1>4. \A o \in Orders : WindowEnd(o)' = WindowEnd(o) /\ WindowEnd(o) \in Nat
  BY <1>1, OrderTypes DEF WindowEnd, Min2
<1>5. Typed'
  BY <1>1, <1>2 DEF PaperInv, BotInv, Typed, Resting
<1>6. Phases' /\ ToLook'
  BY <1>1, <1>2 DEF PaperInv, BotInv, Phases, ToLook
<1>7. Rows'
  BY <1>1 DEF PaperInv, BotInv, Rows
<1>8. LookedFull'
  <2> SUFFICES ASSUME NEW o \in checked, order[o].state \in {"resting", "expired"}
               PROVE  now' >= WindowEnd(o)' /\ Full(o)'
    BY <1>1 DEF LookedFull
  <2>1. o \in Orders
    BY DEF PaperInv, BotInv, Typed
  <2>2. now >= WindowEnd(o) /\ Full(o)
    BY <1>2 DEF PaperInv, BotInv, LookedFull
  <2>3. Offered(o)' = Offered(o)
    BY <2>1, <2>2, MarketOffers
  <2> QED
    BY <1>1, <1>3, <1>4, <2>1, <2>2, <2>3 DEF Full
<1>9. FillsWithinWindow'
  <2> SUFFICES ASSUME NEW o \in Orders, order[o].state # "dead"
               PROVE  order[o].filled <= order[o].taken + Offered(o)'
    BY <1>1 DEF FillsWithinWindow, Offered
  <2>1. order[o].filled <= order[o].taken + Offered(o)
    BY DEF PaperInv, BotInv, FillsWithinWindow, Offered
  <2>2. Offered(o) <= Offered(o)' /\ Offered(o)' \in Nat /\ Offered(o) \in Nat
    BY MarketOffers, OfferedNat
  <2>3. order[o].filled \in Nat /\ order[o].taken \in Nat
    BY OrderTypes
  <2> QED
    BY <2>1, <2>2, <2>3
<1> QED
  BY <1>5, <1>6, <1>7, <1>8, <1>9 DEF BotInv

-----------------------------------------------------------------------------
(* A reconcile reads the tape. *)

\* FirstPlaced is there: a finite set of times has a least one.
LEMMA FirstPlacedIsFirst ==
    ASSUME PaperInv, NEW o \in Resting
    PROVE  FirstPlaced \in Nat /\ FirstPlaced <= order[o].placed
<1> DEFINE P == {order[q].placed : q \in Resting}
<1>1. IsFiniteSet(P) /\ P \subseteq Nat
  <2>1. P \subseteq Times
    BY OrderTypes DEF OrderRecord, Resting
  <2>2. IsFiniteSet(Times) /\ Times \subseteq Nat
    BY TapeAssumption, FS_Interval DEF Times
  <2> HIDE DEF P
  <2> QED
    BY <2>1, <2>2, FS_Subset
<1>2. P # {} /\ P \subseteq Int
  BY <1>1
<1>3. \E t \in P : \A x \in P : t <= x
  <2> HIDE DEF P
  <2> QED
    BY <1>1, <1>2, LeastOf
<1>4. FirstPlaced \in P /\ \A q \in Resting : FirstPlaced <= order[q].placed
  BY <1>3 DEF FirstPlaced, P
<1> QED
  BY <1>1, <1>4

\* The answer holds the whole window of an order that AllRecorded names.
LEMMA AnswerIsWhole ==
    ASSUME PaperInv, NEW o \in Resting, AllRecorded(o)
    PROVE  \A i \in Prints : Within(o, i, WindowEnd(o)) => i \in Since(FirstPlaced)
<1> SUFFICES ASSUME NEW i \in Prints, Within(o, i, WindowEnd(o))
             PROVE  i \in recorded /\ made[i].ts >= FirstPlaced
  BY DEF Since
<1>1. i \in recorded
  BY DEF AllRecorded
<1>2. order[o].placed \in Nat /\ order[o].placed < made[i].ts /\ made[i].ts \in Nat
  BY OrderTypes, Types DEF Within, Resting, PaperInv, TapeInv
<1> QED
  BY <1>1, <1>2, FirstPlacedIsFirst

LEMMA NoLess ==
    ASSUME NEW s \in Nat, NEW t \in Nat, NEW x \in Nat, NEW f \in 0 .. s,
           Min2(s, t + x) - f <= 0, f <= t + x
    PROVE  f = Min2(s, t + x)
BY DEF Min2

\* What is left to fill when nothing is new: nothing.
LEMMA NothingMissed ==
    ASSUME PaperInv, NEW o \in Resting, AllRecorded(o),
           Increment(o, Since(FirstPlaced)) <= 0
    PROVE  Full(o)
<1> DEFINE S == Since(FirstPlaced)
           n == Min2(Size, order[o].taken + Offered(o))
<1>1. o \in Orders /\ order[o].state = "resting" /\ S \in SUBSET Prints
  BY DEF Resting, Since, PaperInv, TapeInv, Shapes
<1>2. Window(o) = WindowEnd(o)
  BY <1>1, OrderTypes DEF AllRecorded
<1>3. \A i \in Prints : Within(o, i, WindowEnd(o)) => i \in S
  BY AnswerIsWhole
<1> HIDE DEF S
<1>4. Through(o, S, WindowEnd(o)) = Offered(o)
  BY <1>1, <1>3, ThroughAll DEF Offered
<1>5. n - order[o].filled <= 0
  BY <1>2, <1>4 DEF Increment, Target, S
<1>6. order[o].filled <= order[o].taken + Offered(o)
  BY <1>1 DEF PaperInv, BotInv, FillsWithinWindow, Offered
<1>7. /\ order[o].filled \in 0 .. Size /\ order[o].taken \in 0 .. Size
      /\ Offered(o) \in Nat /\ Size \in Nat
  BY <1>1, OrderTypes, OfferedNat
<1> QED
  BY <1>5, <1>6, <1>7, NoLess DEF Full

\* Steps that leave the orders and the tape alone.
LEMMA SameOrders ==
    ASSUME PaperInv, UNCHANGED <<now, tape>>, order' = order
    PROVE  /\ FillsWithinWindow' /\ Resting' = Resting /\ Prints' = Prints
           /\ \A o \in Orders :
                /\ WindowEnd(o)' = WindowEnd(o) /\ (Full(o)' <=> Full(o))
                /\ \A i \in Prints, b \in Nat : Within(o, i, b)' <=> Within(o, i, b)
<1>1. made' = made /\ Prints' = Prints /\ Resting' = Resting
  BY DEF tape, Prints, Resting
<1>2. ASSUME NEW o \in Orders
      PROVE  WindowEnd(o)' = WindowEnd(o) /\ Offered(o)' = Offered(o)
  BY <1>1, OfferedSame
<1>3. FillsWithinWindow'
  <2> SUFFICES ASSUME NEW o \in Orders, order[o].state # "dead"
               PROVE  order[o].filled <= order[o].taken + Offered(o)'
    BY DEF FillsWithinWindow, Offered
  <2> QED
    BY <1>2 DEF PaperInv, BotInv, FillsWithinWindow, Offered
<1>4. \A o \in Orders : Full(o)' <=> Full(o)
  BY <1>2 DEF Full
<1>5. \A o \in Orders, i \in Prints, b \in Nat : Within(o, i, b)' <=> Within(o, i, b)
  BY <1>1 DEF Within, Crosses
<1> QED
  BY <1>1, <1>2, <1>3, <1>4, <1>5

LEMMA ReadKeeps ==
    ASSUME PaperInv,
           \/ ReadTape
           \/ \E passes \in BOOLEAN : NothingNew(passes)
    PROVE  BotInv'
<1> DEFINE S == Since(FirstPlaced)
           new == {o \in Resting : Increment(o, S) > 0}
<1>1. /\ pc = "idle" /\ Answered /\ UNCHANGED <<now, tape>>
      /\ order' = order /\ balance' = balance /\ bets' = bets /\ book' = book /\ torn' = torn
      /\ \/ pc' = "credit" /\ answer' = S /\ todo' = new
         \/ /\ pc' \in {"idle", "trade"} /\ answer' = answer /\ todo' = todo
            /\ \A o \in Resting : Increment(o, S) <= 0
  BY DEF ReadTape, NothingNew, Gated
<1>2. book = {} /\ answer = {} /\ todo = {}
  BY <1>1 DEF PaperInv, BotInv, Phases
<1>3. S \subseteq Prints
  BY DEF Since, PaperInv, TapeInv, Shapes
<1>4. checked' = (checked \ Resting) \union {o \in Resting : AllRecorded(o)}
  BY <1>1 DEF Answered
<1>5. /\ FillsWithinWindow' /\ Resting' = Resting /\ Prints' = Prints
      /\ \A o \in Orders :
           /\ WindowEnd(o)' = WindowEnd(o) /\ (Full(o)' <=> Full(o))
           /\ \A i \in Prints, b \in Nat : Within(o, i, b)' <=> Within(o, i, b)
  BY <1>1, SameOrders
<1>6. Resting \subseteq Orders /\ \A o \in Resting : order[o].state = "resting"
  BY DEF Resting
<1>7. Typed'
  BY <1>1, <1>2, <1>3, <1>4, <1>5, <1>6 DEF PaperInv, BotInv, Typed
<1>8. Phases' /\ Rows'
  BY <1>1, <1>2, <1>4, <1>6 DEF PaperInv, BotInv, Phases, Rows
<1>9. ToLook'
  <2> SUFFICES ASSUME NEW o \in todo'
               PROVE  /\ Increment(o, answer)' > 0 /\ o \notin book'
                      /\ o \in checked' => \A i \in Prints' :
                           Within(o, i, WindowEnd(o))' => i \in answer'
    BY DEF ToLook
  <2>1. o \in Resting /\ Increment(o, S) > 0 /\ answer' = S /\ o \in Orders
    BY <1>1, <1>2, <1>6
  <2>2. Increment(o, answer)' > 0
    <3>1. Window(o)' = Window(o) /\ Window(o) \in Nat
      BY <1>1, <1>5, <2>1, OrderTypes DEF Window, tape
    <3>2. {i \in answer : Within(o, i, Window(o))}' = {i \in S : Within(o, i, Window(o))}
      BY <1>3, <1>5, <2>1, <3>1
    <3>3. [i \in Prints |-> made[i].size]' = [i \in Prints |-> made[i].size]
      BY <1>1, <1>5 DEF tape
    <3>4. Through(o, answer, Window(o))' = Through(o, S, Window(o))
      BY <3>2, <3>3 DEF Through
    <3> QED
      BY <1>1, <2>1, <3>4 DEF Increment, Target
  <2>3. o \in checked' => AllRecorded(o)
    BY <1>4, <2>1
  <2>4. ASSUME AllRecorded(o), NEW i \in Prints, Within(o, i, WindowEnd(o))'
        PROVE  i \in S
    BY <1>5, <2>1, <2>4, OrderTypes, AnswerIsWhole
  <2> QED
    BY <1>1, <1>2, <1>5, <2>1, <2>2, <2>3, <2>4
<1>10. LookedFull'
  <2> SUFFICES ASSUME NEW o \in checked', order[o].state \in {"resting", "expired"}
               PROVE  now >= WindowEnd(o)' /\ (o \in todo' \/ Full(o)')
    BY <1>1 DEF LookedFull, tape
  <2>0. o \in Orders
    BY <1>7 DEF Typed
  <2>1. CASE o \in Resting
    <3>1. AllRecorded(o)
      BY <1>4, <2>1
    <3>2. now >= WindowEnd(o)
      BY <3>1 DEF AllRecorded
    <3>3. CASE o \in todo'
      BY <1>5, <2>0, <3>2, <3>3
    <3>4. CASE o \notin todo'
      <4>1. Increment(o, S) \in Int
        <5>1. Through(o, S, Window(o)) \in Nat
          BY <1>3, <2>0, OrderTypes, ThroughMore DEF PaperInv, TapeInv
        <5> QED
          BY <2>0, <5>1, OrderTypes DEF Increment, Target, Min2
      <4>2. Increment(o, S) <= 0
        BY <1>1, <1>2, <2>1, <3>4, <4>1
      <4>3. Full(o)
        BY <2>1, <3>1, <4>2, NothingMissed
      <4> QED
        BY <1>5, <2>0, <3>2, <4>3
    <3> QED
      BY <3>3, <3>4
  <2>2. CASE o \notin Resting
    <3>1. o \in checked
      BY <1>4, <2>2
    <3>2. now >= WindowEnd(o) /\ Full(o)
      BY <1>2, <3>1 DEF PaperInv, BotInv, LookedFull
    <3> QED
      BY <1>5, <2>0, <3>2
  <2> QED
    BY <2>1, <2>2
<1> QED
  BY <1>5, <1>7, <1>8, <1>9, <1>10 DEF BotInv

\* Steps that change no order and read nothing.
LEMMA QuietKeeps ==
    ASSUME PaperInv,
           \/ \E passes \in BOOLEAN : NothingRests(passes) \/ NoTape(passes) \/ Booked(passes)
           \/ \E n \in Proceeds : Paid(n)
           \/ CycleRaises
    PROVE  BotInv'
<1>1. /\ UNCHANGED <<now, tape>> /\ order' = order /\ bets' = bets /\ book' = book
      /\ torn' = torn /\ answer' = answer /\ todo' = todo /\ checked' \subseteq checked
      /\ pc \in {"idle", "book", "trade"} /\ pc' \in {"idle", "trade"}
      /\ (pc = "book" => book = {})
  BY DEF NothingRests, NoTape, Booked, Paid, CycleRaises, Gated
<1>2. balance' \in Nat
  BY OrderTypes, PaperAssumption DEF NothingRests, NoTape, Booked, Paid, CycleRaises
<1>3. book = {} /\ answer = {} /\ todo = {}
  BY <1>1 DEF PaperInv, BotInv, Phases
<1>4. /\ FillsWithinWindow' /\ Resting' = Resting /\ Prints' = Prints
      /\ \A o \in Orders : WindowEnd(o)' = WindowEnd(o) /\ (Full(o)' <=> Full(o))
  BY <1>1, SameOrders
<1>5. Typed' /\ Phases' /\ ToLook'
  BY <1>1, <1>2, <1>3, <1>4 DEF PaperInv, BotInv, Typed, Phases, ToLook
<1>6. Rows'
  BY <1>1 DEF PaperInv, BotInv, Rows
<1>7. LookedFull'
  <2> SUFFICES ASSUME NEW o \in checked', order[o].state \in {"resting", "expired"}
               PROVE  now >= WindowEnd(o)' /\ Full(o)'
    BY <1>1 DEF LookedFull, tape
  <2>1. o \in Orders /\ o \in checked
    BY <1>1 DEF PaperInv, BotInv, Typed
  <2>2. now >= WindowEnd(o) /\ Full(o)
    BY <1>3, <2>1 DEF PaperInv, BotInv, LookedFull
  <2> QED
    BY <1>4, <2>1, <2>2
<1> QED
  BY <1>4, <1>5, <1>6, <1>7 DEF BotInv

-----------------------------------------------------------------------------
(* It credits and books what it has read. *)

\* An order no step touches while the tape stands still.
LEMMA Untouched ==
    ASSUME PaperInv, UNCHANGED <<now, tape>>, NEW o \in Orders, order'[o] = order[o]
    PROVE  /\ WindowEnd(o)' = WindowEnd(o) /\ Offered(o)' = Offered(o) /\ (Full(o)' <=> Full(o))
           /\ answer' = answer => Increment(o, answer)' = Increment(o, answer)
           /\ Prints' = Prints
           /\ \A i \in Prints : Within(o, i, WindowEnd(o))' <=> Within(o, i, WindowEnd(o))
<1>1. made' = made /\ now' = now /\ Prints' = Prints
  BY DEF tape, Prints
<1>2. WindowEnd(o)' = WindowEnd(o) /\ Offered(o)' = Offered(o)
  BY <1>1, OfferedSame
<1>3. Full(o)' <=> Full(o)
  BY <1>2 DEF Full
<1>4. \A i \in Prints, b \in Nat : Within(o, i, b)' <=> Within(o, i, b)
  BY <1>1 DEF Within, Crosses
<1>5. Window(o)' = Window(o) /\ Window(o) \in Nat /\ WindowEnd(o) \in Nat
  BY <1>1, <1>2, OrderTypes DEF Window
<1>6. ASSUME answer' = answer PROVE Increment(o, answer)' = Increment(o, answer)
  <2>1. answer \subseteq Prints
    BY DEF PaperInv, BotInv, Typed
  <2>2. {i \in answer : Within(o, i, Window(o))}' = {i \in answer : Within(o, i, Window(o))}
    BY <1>4, <1>5, <1>6, <2>1
  <2>3. [i \in Prints |-> made[i].size]' = [i \in Prints |-> made[i].size]
    BY <1>1
  <2>4. Through(o, answer, Window(o))' = Through(o, answer, Window(o))
    BY <2>2, <2>3 DEF Through
  <2> QED
    BY <2>4 DEF Increment, Target
<1>7. \A i \in Prints : Within(o, i, WindowEnd(o))' <=> Within(o, i, WindowEnd(o))
  BY <1>2, <1>4, <1>5
<1> QED
  BY <1>1, <1>2, <1>3, <1>6, <1>7

\* An order in hand has something new, all of it offered in its window.
LEMMA InHand ==
    ASSUME PaperInv, NEW o \in todo
    PROVE  /\ o \in Orders /\ order[o].state = "resting" /\ pc = "credit"
           /\ o \notin book \union torn /\ bets[o] = order[o].filled
           /\ Target(o, answer) \in 0 .. Size /\ order[o].filled < Target(o, answer)
           /\ Target(o, answer) <= order[o].taken + Offered(o)
           /\ o \in checked => /\ now >= WindowEnd(o)
                               /\ Target(o, answer) = Min2(Size, order[o].taken + Offered(o))
           /\ Increment(o, answer) \in Nat
<1>1. /\ o \in Orders /\ order[o].state = "resting" /\ pc = "credit" /\ answer \in SUBSET Prints
      /\ o \notin book /\ Increment(o, answer) > 0
  BY DEF PaperInv, BotInv, Typed, Phases, ToLook, Resting
<1>2. o \notin torn /\ bets[o] = order[o].filled
  BY <1>1 DEF PaperInv, BotInv, Rows
<1>3. /\ Window(o) \in Nat /\ WindowEnd(o) \in Nat /\ Window(o) <= WindowEnd(o)
      /\ order[o].taken \in 0 .. Size /\ order[o].filled \in 0 .. Size /\ Size \in Nat
  BY <1>1, OrderTypes
<1>4. /\ Through(o, answer, Window(o)) \in Nat /\ Offered(o) \in Nat
      /\ Through(o, answer, Window(o)) <= Offered(o)
  BY <1>1, <1>3, ThroughMore DEF Offered, PaperInv, TapeInv
<1>5. /\ Target(o, answer) \in 0 .. Size
      /\ Target(o, answer) <= order[o].taken + Offered(o)
  <2>1. Target(o, answer) = Min2(Size, order[o].taken + Through(o, answer, Window(o)))
    BY DEF Target
  <2> QED
    BY <1>3, <1>4, <2>1 DEF Min2
<1>6. order[o].filled < Target(o, answer) /\ Increment(o, answer) \in Nat
  <2>1. Increment(o, answer) = Target(o, answer) - order[o].filled
    BY DEF Increment
  <2> QED
    BY <1>1, <1>3, <1>5, <2>1
<1>7. ASSUME o \in checked
      PROVE  /\ now >= WindowEnd(o)
             /\ Target(o, answer) = Min2(Size, order[o].taken + Offered(o))
  <2>1. now >= WindowEnd(o)
    BY <1>1, <1>7 DEF PaperInv, BotInv, LookedFull
  <2>2. \A i \in Prints : Within(o, i, WindowEnd(o)) => i \in answer
    BY <1>7 DEF PaperInv, BotInv, ToLook
  <2>3. Window(o) = WindowEnd(o)
    BY <1>1, <2>1, OrderTypes
  <2>4. Through(o, answer, Window(o)) = Offered(o)
    BY <1>1, <2>2, <2>3, ThroughAll DEF Offered
  <2> QED
    BY <2>1, <2>4 DEF Target
<1> QED
  BY <1>1, <1>2, <1>5, <1>6, <1>7

LEMMA TooPoorKeeps ==
    ASSUME PaperInv, NEW o \in Orders, TooPoor(o)
    PROVE  BotInv'
<1>1. /\ o \in todo /\ todo' = todo \ {o} /\ checked' = checked \ {o} /\ UNCHANGED <<now, tape>>
      /\ order' = order /\ balance' = balance /\ bets' = bets /\ book' = book /\ torn' = torn
      /\ pc = "credit"
      /\ \/ todo' = {} /\ pc' = "book" /\ answer' = {}
         \/ pc' = pc /\ answer' = answer
  BY DEF TooPoor, Looked
<1>2. /\ FillsWithinWindow' /\ Resting' = Resting /\ Prints' = Prints
  BY <1>1, SameOrders
<1>3. Typed' /\ Phases'
  BY <1>1, <1>2 DEF PaperInv, BotInv, Typed, Phases
<1>4. Rows'
  BY <1>1 DEF PaperInv, BotInv, Rows
<1>5. ToLook'
  <2> SUFFICES ASSUME NEW q \in todo'
               PROVE  /\ Increment(q, answer)' > 0 /\ q \notin book'
                      /\ q \in checked' => \A i \in Prints' :
                           Within(q, i, WindowEnd(q))' => i \in answer'
    BY DEF ToLook
  <2>1. q \in todo /\ answer' = answer /\ q \in Orders
    BY <1>1 DEF PaperInv, BotInv, Typed, Resting
  <2>2. /\ Increment(q, answer) > 0 /\ q \notin book
        /\ q \in checked => \A i \in Prints : Within(q, i, WindowEnd(q)) => i \in answer
    BY <2>1 DEF PaperInv, BotInv, ToLook
  <2>3. /\ Increment(q, answer)' = Increment(q, answer)
        /\ Prints' = Prints
        /\ \A i \in Prints : Within(q, i, WindowEnd(q))' <=> Within(q, i, WindowEnd(q))
    BY <1>1, <2>1, Untouched
  <2> QED
    BY <1>1, <2>1, <2>2, <2>3
<1>6. LookedFull'
  <2> SUFFICES ASSUME NEW q \in checked', order[q].state \in {"resting", "expired"}
               PROVE  now >= WindowEnd(q)' /\ (q \in todo' \/ Full(q)')
    BY <1>1 DEF LookedFull, tape
  <2>1. q \in Orders /\ q \in checked /\ q # o
    BY <1>1 DEF PaperInv, BotInv, Typed
  <2>2. now >= WindowEnd(q) /\ (q \in todo \/ Full(q))
    BY <2>1 DEF PaperInv, BotInv, LookedFull
  <2>3. WindowEnd(q)' = WindowEnd(q) /\ (Full(q)' <=> Full(q))
    BY <1>1, <2>1, Untouched
  <2> QED
    BY <1>1, <2>1, <2>2, <2>3
<1> QED
  BY <1>2, <1>3, <1>4, <1>5, <1>6 DEF BotInv

LEMMA CreditKeeps ==
    ASSUME PaperInv, NEW o \in Orders, Credit(o)
    PROVE  BotInv'
<1> DEFINE n == Target(o, answer)
           r == [order[o] EXCEPT !.filled = n, !.state = IF n = Size THEN "filled" ELSE @]
<1>1. /\ o \in todo /\ todo' = todo \ {o} /\ checked' = checked /\ UNCHANGED <<now, tape>>
      /\ bets' = bets /\ book' = book \union {o} /\ torn' = torn
      /\ pc = "credit" /\ Cost(o) <= balance /\ balance' = balance - Cost(o)
      /\ \/ todo' = {} /\ pc' = "book" /\ answer' = {}
         \/ pc' = pc /\ answer' = answer
  BY DEF Credit, Looked, Filled
<1>2. order' = [order EXCEPT ![o] = r]
  BY OrderTypes DEF Credit, Filled, PaperInv, BotInv, Typed
<1>3. /\ order[o].state = "resting"
      /\ o \notin book \union torn /\ bets[o] = order[o].filled
      /\ n \in 0 .. Size /\ order[o].filled < n
      /\ n <= order[o].taken + Offered(o)
      /\ o \in checked => /\ now >= WindowEnd(o)
                          /\ n = Min2(Size, order[o].taken + Offered(o))
      /\ Increment(o, answer) \in Nat
  BY <1>1, InHand
<1>4. order[o] \in OrderRecord
  BY OrderTypes
<1> HIDE DEF n
<1>5. /\ r \in OrderRecord /\ r.filled = n /\ r.placed = order[o].placed
      /\ r.taken = order[o].taken /\ r.state \in {"resting", "filled"}
  BY <1>3, <1>4 DEF OrderRecord
<1> HIDE DEF r
<1>6. /\ order' \in [Orders -> OrderRecord] /\ order'[o] = r
      /\ \A q \in Orders \ {o} : order'[q] = order[q]
  BY <1>2, <1>5 DEF PaperInv, BotInv, Typed
<1>7. balance' \in Nat
  <2>1. Limit[o] + MakerFee \in Nat
    BY PaperAssumption
  <2>2. Cost(o) \in Int
    BY <1>3, <2>1 DEF Cost
  <2> QED
    BY <1>1, <2>2, OrderTypes
<1>8. /\ WindowEnd(o)' = WindowEnd(o) /\ Offered(o)' = Offered(o) /\ Prints' = Prints
  BY <1>1, <1>5, <1>6, OfferedSame DEF tape, Prints
<1>9. \A q \in Orders \ {o} :
        /\ WindowEnd(q)' = WindowEnd(q) /\ Offered(q)' = Offered(q) /\ (Full(q)' <=> Full(q))
        /\ answer' = answer => Increment(q, answer)' = Increment(q, answer)
        /\ \A i \in Prints : Within(q, i, WindowEnd(q))' <=> Within(q, i, WindowEnd(q))
  BY <1>1, <1>6, Untouched
<1>10. Resting \ {o} \subseteq Resting'
  BY <1>6 DEF Resting
<1>11. Typed'
  BY <1>1, <1>6, <1>7, <1>8, <1>10 DEF PaperInv, BotInv, Typed
<1>12. Phases'
  BY <1>1 DEF PaperInv, BotInv, Phases
<1>13. Rows'
  <2> SUFFICES ASSUME NEW q \in Orders
               PROVE  /\ order'[q].state = "new" => order'[q].filled = 0
                      /\ order'[q].state \in {"new", "rejected"} => q \notin checked
                      /\ q \in book' => /\ order'[q].state \in {"resting", "filled"}
                                        /\ bets[q] < order'[q].filled
                      /\ q \in torn => order'[q].state \in {"dead", "filled"}
                      /\ q \notin book' \union torn => bets[q] = order'[q].filled
    BY <1>1 DEF Rows
  <2>1. CASE q = o
    BY <1>1, <1>3, <1>5, <1>6, <2>1
  <2>2. CASE q # o
    BY <1>1, <1>6, <2>2 DEF PaperInv, BotInv, Rows
  <2> QED
    BY <2>1, <2>2
<1>14. ToLook'
  <2> SUFFICES ASSUME NEW q \in todo'
               PROVE  /\ Increment(q, answer)' > 0 /\ q \notin book'
                      /\ q \in checked' => \A i \in Prints' :
                           Within(q, i, WindowEnd(q))' => i \in answer'
    BY DEF ToLook
  <2>1. q \in todo /\ q # o /\ answer' = answer /\ q \in Orders
    BY <1>1 DEF PaperInv, BotInv, Typed, Resting
  <2>2. /\ Increment(q, answer) > 0 /\ q \notin book
        /\ q \in checked => \A i \in Prints : Within(q, i, WindowEnd(q)) => i \in answer
    BY <2>1 DEF PaperInv, BotInv, ToLook
  <2> QED
    BY <1>1, <1>8, <1>9, <2>1, <2>2
<1>15. LookedFull'
  <2> SUFFICES ASSUME NEW q \in checked, order'[q].state \in {"resting", "expired"}
               PROVE  now >= WindowEnd(q)' /\ (q \in todo' \/ Full(q)')
    BY <1>1 DEF LookedFull, tape
  <2>1. q \in Orders
    BY DEF PaperInv, BotInv, Typed
  <2>2. CASE q = o
    BY <1>3, <1>5, <1>6, <1>8, <2>2 DEF Full
  <2>3. CASE q # o
    <3>1. now >= WindowEnd(q) /\ (q \in todo \/ Full(q))
      BY <1>6, <2>1, <2>3 DEF PaperInv, BotInv, LookedFull
    <3> QED
      BY <1>1, <1>9, <2>1, <2>3, <3>1
  <2> QED
    BY <2>2, <2>3
<1>16. FillsWithinWindow'
  <2> SUFFICES ASSUME NEW q \in Orders, order'[q].state # "dead"
               PROVE  order'[q].filled <= order'[q].taken + Offered(q)'
    BY DEF FillsWithinWindow, Offered
  <2>1. CASE q = o
    BY <1>3, <1>5, <1>6, <1>8, <2>1
  <2>2. CASE q # o
    BY <1>6, <1>9, <2>2 DEF PaperInv, BotInv, FillsWithinWindow, Offered
  <2> QED
    BY <2>1, <2>2
<1> QED
  BY <1>11, <1>12, <1>13, <1>14, <1>15, <1>16 DEF BotInv

LEMMA BookFillKeeps ==
    ASSUME PaperInv, NEW o \in Orders, BookFill(o)
    PROVE  BotInv'
<1>1. /\ UNCHANGED <<now, tape>> /\ order' = order /\ balance' = balance /\ answer' = answer
      /\ todo' = todo /\ checked' = checked /\ torn' = torn
      /\ bets' = [bets EXCEPT ![o] = order[o].filled] /\ book' = book \ {o} /\ o \in book
      /\ pc' = IF pc = "placed" THEN "trade" ELSE pc
      /\ pc \in {"book", "placed"}
  BY DEF BookFill
<1>2. todo = {} /\ answer = {} /\ (pc = "placed" => book' = {})
  BY <1>1 DEF PaperInv, BotInv, Phases
<1>3. /\ FillsWithinWindow' /\ Resting' = Resting /\ Prints' = Prints
      /\ \A q \in Orders : WindowEnd(q)' = WindowEnd(q) /\ (Full(q)' <=> Full(q))
  BY <1>1, SameOrders
<1>4. order[o].filled \in Nat
  BY OrderTypes
<1>5. Typed' /\ Phases' /\ ToLook'
  BY <1>1, <1>2, <1>3, <1>4 DEF PaperInv, BotInv, Typed, Phases, ToLook
<1>6. Rows'
  BY <1>1 DEF PaperInv, BotInv, Typed, Rows
<1>7. LookedFull'
  <2> SUFFICES ASSUME NEW q \in checked, order[q].state \in {"resting", "expired"}
               PROVE  now >= WindowEnd(q)' /\ Full(q)'
    BY <1>1 DEF LookedFull, tape
  <2>1. q \in Orders
    BY DEF PaperInv, BotInv, Typed
  <2>2. now >= WindowEnd(q) /\ Full(q)
    BY <1>2 DEF PaperInv, BotInv, LookedFull
  <2> QED
    BY <1>3, <2>1, <2>2
<1> QED
  BY <1>3, <1>5, <1>6, <1>7 DEF BotInv

-----------------------------------------------------------------------------
(* Orders are placed, expire and are forgotten. *)

\* One order is new and gets its first row.
LEMMA NewRowKeeps ==
    ASSUME PaperInv, pc = "trade", NEW o \in Orders, order[o].state = "new", NEW r \in OrderRecord,
           r.state # "new", r.filled <= r.taken,
           UNCHANGED <<now, tape, bets, answer, todo, checked, torn>>,
           order' = [order EXCEPT ![o] = r], balance' \in Nat,
           \/ r.filled > 0 /\ r.state \in {"resting", "filled"} /\ pc' = "placed" /\ book' = {o}
           \/ r.filled = 0 /\ r.state \in {"resting", "filled", "rejected"}
              /\ pc' = "trade" /\ book' = {}
    PROVE  BotInv'
<1>1. todo = {} /\ answer = {} /\ book = {}
  BY DEF PaperInv, BotInv, Phases
<1>2. /\ order[o].filled = 0 /\ o \notin checked /\ o \notin torn /\ bets[o] = 0
  BY <1>1 DEF PaperInv, BotInv, Rows
<1>3. /\ order' \in [Orders -> OrderRecord] /\ order'[o] = r
      /\ \A q \in Orders \ {o} : order'[q] = order[q]
  BY DEF PaperInv, BotInv, Typed
<1>4. /\ Prints' = Prints
      /\ \A q \in Orders \ {o} :
           /\ WindowEnd(q)' = WindowEnd(q) /\ Offered(q)' = Offered(q) /\ (Full(q)' <=> Full(q))
  BY <1>3, Untouched DEF tape, Prints
<1>5. Typed' /\ Phases' /\ ToLook'
  BY <1>1, <1>3, <1>4 DEF PaperInv, BotInv, Typed, Phases, ToLook
<1>6. Rows'
  <2> SUFFICES ASSUME NEW q \in Orders
               PROVE  /\ order'[q].state = "new" => order'[q].filled = 0
                      /\ order'[q].state \in {"new", "rejected"} => q \notin checked
                      /\ q \in book' => /\ order'[q].state \in {"resting", "filled"}
                                        /\ bets[q] < order'[q].filled
                      /\ q \in torn => order'[q].state \in {"dead", "filled"}
                      /\ q \notin book' \union torn => bets[q] = order'[q].filled
    BY DEF Rows
  <2>1. CASE q = o
    BY <1>2, <1>3, <2>1
  <2>2. CASE q # o
    BY <1>1, <1>3, <2>2 DEF PaperInv, BotInv, Rows
  <2> QED
    BY <2>1, <2>2
<1>7. LookedFull'
  <2> SUFFICES ASSUME NEW q \in checked, order'[q].state \in {"resting", "expired"}
               PROVE  now >= WindowEnd(q)' /\ Full(q)'
    BY DEF LookedFull, tape
  <2>1. q \in Orders /\ q # o
    BY <1>2 DEF PaperInv, BotInv, Typed
  <2>2. now >= WindowEnd(q) /\ Full(q)
    BY <1>1, <1>3, <2>1 DEF PaperInv, BotInv, LookedFull
  <2> QED
    BY <1>4, <2>1, <2>2
<1>8. FillsWithinWindow'
  <2> SUFFICES ASSUME NEW q \in Orders, order'[q].state # "dead"
               PROVE  order'[q].filled <= order'[q].taken + Offered(q)'
    BY DEF FillsWithinWindow, Offered
  <2>1. CASE q = o
    <3>1. order'[o].placed \in Nat
      BY <1>3 DEF OrderRecord, Times
    <3>2. WindowEnd(o)' \in Nat /\ (Shapes)'
      <4>1. WindowEnd(o)' = Min2(order'[o].placed + Ttl, Start)
        BY DEF WindowEnd, Min2
      <4>2. Min2(order'[o].placed + Ttl, Start) \in Nat
        BY <3>1, PaperAssumption DEF Min2
      <4>3. Shapes'
        BY <1>4 DEF PaperInv, TapeInv, Shapes, tape
      <4> QED
        BY <4>1, <4>2, <4>3
    <3> DEFINE V == {i \in Prints : Within(o, i, WindowEnd(o))}'
    <3>3. V \subseteq Prints
      BY <1>4
    <3>4. Offered(o)' = SumFunctionOnSet(Sizes, V)
      BY <1>4 DEF Offered, Through, Sizes, tape
    <3> HIDE DEF V
    <3>5. IsFiniteSet(V) /\ \A i \in V : Sizes[i] \in Nat
      BY <3>3, SizeTypes, FS_Subset DEF PaperInv, TapeInv
    <3>6. Offered(o)' \in Nat
      BY <3>4, <3>5, SumNat
    <3>7. r.filled \in Nat /\ r.taken \in Nat
      BY PaperAssumption DEF OrderRecord
    <3> QED
      BY <1>3, <2>1, <3>6, <3>7
  <2>2. CASE q # o
    BY <1>3, <1>4, <2>2 DEF PaperInv, BotInv, FillsWithinWindow, Offered
  <2> QED
    BY <2>1, <2>2
<1> QED
  BY <1>5, <1>6, <1>7, <1>8 DEF BotInv

LEMMA PlaceKeeps ==
    ASSUME PaperInv, NEW o \in Orders, NEW f \in 0 .. Size, NEW p \in Prices, Place(o, f, p)
    PROVE  BotInv'
<1> DEFINE r == [state |-> IF f = Size THEN "filled" ELSE "resting",
                 placed |-> now, filled |-> f, taken |-> f]
<1>1. now \in Times
  BY DEF PaperInv, TapeInv, Shapes
<1>2. r \in OrderRecord /\ r.filled = f /\ r.taken = f /\ r.state \in {"filled", "resting"}
      /\ f \in Nat
  BY <1>1, PaperAssumption DEF OrderRecord
<1>3. order' = [order EXCEPT ![o] = r]
  BY DEF Place
<1> HIDE DEF r
<1>4. balance' \in Nat
  <2>1. p + TakerFee \in Nat /\ f \in Nat
    BY PaperAssumption, TapeAssumption
  <2>2. f * (p + TakerFee) \in Nat
    BY <2>1
  <2> QED
    BY <2>2, OrderTypes DEF Place
<1>5. /\ pc = "trade" /\ order[o].state = "new"
      /\ UNCHANGED <<now, tape, bets, answer, todo, checked, torn>>
      /\ \/ f > 0 /\ pc' = "placed" /\ book' = {o}
         \/ f = 0 /\ pc' = "trade" /\ book' = {}
  BY <1>2 DEF Place
<1>6. r.state # "new" /\ r.filled <= r.taken
  BY <1>2
<1>7. \/ r.filled > 0 /\ r.state \in {"resting", "filled"} /\ pc' = "placed" /\ book' = {o}
      \/ r.filled = 0 /\ r.state \in {"resting", "filled", "rejected"}
         /\ pc' = "trade" /\ book' = {}
  BY <1>2, <1>5
<1> QED
  BY <1>2, <1>3, <1>4, <1>5, <1>6, <1>7, NewRowKeeps

LEMMA RejectKeeps ==
    ASSUME PaperInv, NEW o \in Orders, NEW f, NEW p, Reject(o, f, p)
    PROVE  BotInv'
<1> DEFINE r == [order[o] EXCEPT !.state = "rejected"]
<1>1. order[o] \in OrderRecord /\ order[o].state = "new"
  BY OrderTypes DEF Reject
<1>2. book = {} /\ order[o].filled = 0
  BY <1>1 DEF Reject, PaperInv, BotInv, Phases, Rows
<1>3. order[o].taken \in Nat
  BY <1>1, PaperAssumption DEF OrderRecord
<1>4. r \in OrderRecord /\ r.filled = 0 /\ r.filled <= r.taken /\ r.state = "rejected"
  BY <1>1, <1>2, <1>3 DEF OrderRecord
<1>5. order' = [order EXCEPT ![o] = r]
  BY DEF Reject
<1> HIDE DEF r
<1>6. balance' \in Nat
  BY OrderTypes DEF Reject
<1>7. /\ pc = "trade" /\ UNCHANGED <<now, tape, bets, answer, todo, checked, torn>>
      /\ pc' = "trade" /\ book' = {}
  BY <1>2 DEF Reject
<1> QED
  BY <1>1, <1>4, <1>5, <1>6, <1>7, NewRowKeeps

LEMMA EndTradeKeeps ==
    ASSUME PaperInv, EndTrade
    PROVE  BotInv'
<1>1. /\ pc = "trade" /\ pc' = "idle" /\ UNCHANGED <<now, tape>>
      /\ balance' = balance /\ bets' = bets /\ answer' = answer /\ todo' = todo
      /\ book' = book /\ checked' = checked /\ torn' = torn
  BY DEF EndTrade
<1>2. todo = {} /\ answer = {} /\ book = {}
  BY <1>1 DEF PaperInv, BotInv, Phases
<1>3. ASSUME NEW o \in Orders
      PROVE  /\ order'[o] \in OrderRecord
             /\ order'[o].placed = order[o].placed /\ order'[o].filled = order[o].filled
             /\ order'[o].taken = order[o].taken
             /\ \/ order'[o].state = order[o].state
                \/ order[o].state = "resting" /\ order'[o].state = "expired"
  <2>1. order'[o] = IF o \in PastTtl THEN [order[o] EXCEPT !.state = "expired"] ELSE order[o]
    BY DEF EndTrade
  <2>2. order[o] \in OrderRecord
    BY OrderTypes
  <2> QED
    BY <2>1, <2>2 DEF OrderRecord, PastTtl, Resting
<1>4. order' \in [Orders -> OrderRecord]
  BY <1>3 DEF EndTrade
<1>5. Prints' = Prints /\ \A o \in Orders : WindowEnd(o)' = WindowEnd(o) /\ Offered(o)' = Offered(o)
  BY <1>1, <1>3, OfferedSame DEF tape, Prints
<1>6. Typed' /\ Phases' /\ ToLook'
  BY <1>1, <1>2, <1>4, <1>5 DEF PaperInv, BotInv, Typed, Phases, ToLook
<1>7. Rows'
  BY <1>1, <1>2, <1>3 DEF PaperInv, BotInv, Rows
<1>8. LookedFull'
  <2> SUFFICES ASSUME NEW q \in checked, order'[q].state \in {"resting", "expired"}
               PROVE  now >= WindowEnd(q)' /\ Full(q)'
    BY <1>1 DEF LookedFull, tape
  <2>1. q \in Orders
    BY DEF PaperInv, BotInv, Typed
  <2>2. now >= WindowEnd(q) /\ Full(q)
    BY <1>2, <1>3, <2>1 DEF PaperInv, BotInv, LookedFull
  <2> QED
    BY <1>3, <1>5, <2>1, <2>2 DEF Full
<1>9. FillsWithinWindow'
  <2> SUFFICES ASSUME NEW q \in Orders, order'[q].state # "dead"
               PROVE  order'[q].filled <= order'[q].taken + Offered(q)'
    BY DEF FillsWithinWindow, Offered
  <2> QED
    BY <1>3, <1>5 DEF PaperInv, BotInv, FillsWithinWindow, Offered
<1> QED
  BY <1>6, <1>7, <1>8, <1>9 DEF BotInv

LEMMA RestartKeeps ==
    ASSUME PaperInv, Restart
    PROVE  BotInv'
<1>1. /\ UNCHANGED <<now, tape>> /\ bets' = bets /\ checked' = checked /\ balance' = Balance
      /\ pc' = "idle" /\ answer' = {} /\ todo' = {} /\ book' = {} /\ torn' = torn \union book
  BY DEF Restart
<1>2. ASSUME NEW o \in Orders
      PROVE  /\ order'[o] \in OrderRecord /\ order'[o].filled = order[o].filled
             /\ \/ order[o].state = "resting" /\ order'[o].state = "dead"
                \/ order[o].state # "resting" /\ order'[o] = order[o]
  <2>1. order'[o] = IF o \notin Resting THEN order[o]
                    ELSE [NewOrder EXCEPT !.state = "dead", !.filled = order[o].filled]
    BY DEF Restart
  <2>2. order[o] \in OrderRecord /\ NewOrder \in OrderRecord
    BY OrderTypes, TapeAssumption DEF NewOrder, OrderRecord, Times
  <2> QED
    BY <2>1, <2>2 DEF OrderRecord, NewOrder, Resting
<1>3. order' \in [Orders -> OrderRecord]
  BY <1>2 DEF Restart
<1>4. Prints' = Prints
  BY <1>1 DEF Prints, tape
<1>5. Typed' /\ Phases' /\ ToLook'
  BY <1>1, <1>3, <1>4, PaperAssumption DEF PaperInv, BotInv, Typed, Phases, ToLook
<1>6. Rows'
  BY <1>1, <1>2 DEF PaperInv, BotInv, Rows
<1>7. \A o \in Orders : order'[o].state # "dead" =>
        /\ order'[o] = order[o] /\ WindowEnd(o)' = WindowEnd(o) /\ Offered(o)' = Offered(o)
        /\ (Full(o)' <=> Full(o))
  BY <1>1, <1>2, Untouched
<1>8. LookedFull'
  <2> SUFFICES ASSUME NEW q \in checked, order'[q].state \in {"resting", "expired"}
               PROVE  now >= WindowEnd(q)' /\ Full(q)'
    BY <1>1 DEF LookedFull, tape
  <2>1. q \in Orders /\ q \notin todo
    BY <1>2 DEF PaperInv, BotInv, Typed, Resting
  <2> QED
    BY <1>7, <2>1 DEF PaperInv, BotInv, LookedFull
<1>9. FillsWithinWindow'
  <2> SUFFICES ASSUME NEW q \in Orders, order'[q].state # "dead"
               PROVE  order'[q].filled <= order'[q].taken + Offered(q)'
    BY DEF FillsWithinWindow, Offered
  <2> QED
    BY <1>7 DEF PaperInv, BotInv, FillsWithinWindow, Offered
<1> QED
  BY <1>5, <1>6, <1>8, <1>9 DEF BotInv

LEMMA NextBot ==
    ASSUME PaperInv, [Next]_vars
    PROVE  BotInv'
<1>1. CASE UNCHANGED vars
  <2>1. UNCHANGED <<now, tape>> /\ order' = order
    BY <1>1 DEF vars, bot
  <2>2. FillsWithinWindow' /\ Resting' = Resting /\ Prints' = Prints
    BY <2>1, SameOrders
  <2>3. \A o \in Orders :
          /\ WindowEnd(o)' = WindowEnd(o) /\ (Full(o)' <=> Full(o))
          /\ answer' = answer => Increment(o, answer)' = Increment(o, answer)
          /\ \A i \in Prints : Within(o, i, WindowEnd(o))' <=> Within(o, i, WindowEnd(o))
    BY <2>1, Untouched
  <2>4. /\ UNCHANGED <<balance, bets, pc, answer, todo, book, checked, torn>>
        /\ now' = now
    BY <1>1 DEF vars, bot
  <2>5. Typed' /\ Phases' /\ Rows'
    BY <2>1, <2>2, <2>4 DEF PaperInv, BotInv, Typed, Phases, Rows
  <2>6. todo \subseteq Orders /\ checked \subseteq Orders
    BY DEF PaperInv, BotInv, Typed, Resting
  <2>7. ToLook'
    BY <2>2, <2>3, <2>4, <2>6 DEF PaperInv, BotInv, ToLook
  <2>8. LookedFull'
    BY <2>1, <2>3, <2>4, <2>6 DEF PaperInv, BotInv, LookedFull
  <2> QED
    BY <2>2, <2>5, <2>7, <2>8 DEF BotInv
<1>2. CASE Reconcile
  BY <1>2, ReadKeeps, QuietKeeps, CreditKeeps, TooPoorKeeps, BookFillKeeps DEF Reconcile, Gate
<1>3. CASE Trade
  BY <1>3, PlaceKeeps, RejectKeeps, QuietKeeps DEF Trade
<1> QED
  BY <1>1, <1>2, <1>3, MarketKeeps, EndTradeKeeps, QuietKeeps, RestartKeeps DEF Next, Cycle

LEMMA InitPaper == PaperInit => PaperInv
BY InitTape, ShapesAtStart DEF PaperInv

LEMMA NextPaper ==
    ASSUME PaperInv, [Next]_vars
    PROVE  PaperInv'
BY NextTape, NextBot DEF PaperInv

LEMMA TypeFromInv == PaperInv => TypeOK
BY DEF PaperInv, TapeInv, Shapes, BotInv, Typed, TypeOK, TapeTypeOK, OrderRecord, PrintRecord,
       SessionRecord

\* An order that expired after its whole window was looked at has no fill in hand.
LEMMA BookedFromInv == PaperInv => EveryPrintBooked
<1> SUFFICES ASSUME PaperInv, NEW o \in Orders, order[o].state = "expired", o \in checked
             PROVE  bets[o] = Min2(Size, order[o].taken + Through(o, Prints, WindowEnd(o)))
  BY DEF EveryPrintBooked
<1>1. o \notin todo
  BY DEF PaperInv, BotInv, Typed, Resting
<1>2. Full(o)
  BY <1>1 DEF PaperInv, BotInv, LookedFull
<1>3. o \notin book \union torn
  BY DEF PaperInv, BotInv, Rows
<1>4. bets[o] = order[o].filled
  BY <1>3 DEF PaperInv, BotInv, Rows
<1> QED
  BY <1>2, <1>4 DEF Full, Offered

\* The strengthening: the prints a fill was counted from are those of its
\* window, and the books are behind the venue only where a fill is in hand or
\* a crash tore it off (paper.py:163-212, executor.py:325-338).
THEOREM PaperHolds == Spec => []PaperInv
BY InitPaper, NextPaper, PTL DEF Spec

\* Every variable keeps its type; the balance of the paper account is never
\* below zero (paper.py:105-115, 195-201).
THEOREM TypeCorrect == Spec => []TypeOK
BY PaperHolds, TypeFromInv, PTL

\* An order never fills beyond what the venue traded through its limit while
\* it could have rested, however late the tape is read (paper.py:152-157).
THEOREM NoFillBeyondWindow == Spec => []FillsWithinWindow
<1>1. PaperInv => FillsWithinWindow
  BY DEF PaperInv, BotInv
<1> QED
  BY <1>1, PaperHolds, PTL

\* No print is left out: an order that expired after a look at its whole window
\* holds as bets what was traded through it, over any number of reads, gaps and
\* short balances before (paper.py:163-212, executor.py:325-338).
THEOREM NoPrintLeftOut == Spec => []EveryPrintBooked
BY PaperHolds, BookedFromInv, PTL

-----------------------------------------------------------------------------
(* The paper venue implements the ledger. *)

LedgerFilled == [o \in Orders |-> order[o].filled]
LedgerClosed == {o \in Orders : order[o].state \notin {"new", "resting"} /\ o \notin book}

LEMMA LedgerInit == PaperInit => Ledger!Init
<1> SUFFICES ASSUME PaperInit PROVE Ledger!Init
  OBVIOUS
<1>1. \A o \in Orders : order[o].state = "new" /\ order[o].filled = 0
  BY DEF PaperInit, NewOrder
<1> QED
  BY <1>1 DEF PaperInit, Ledger!Init

\* Nothing is filled, booked, closed or torn.
LEMMA LedgerStill ==
    ASSUME PaperInv,
           \/ Market \/ ReadTape \/ CycleRaises \/ UNCHANGED vars
           \/ \E passes \in BOOLEAN : Gate(passes)
           \/ \E o \in Orders : TooPoor(o)
           \/ \E n \in Proceeds : Paid(n)
    PROVE  UNCHANGED Ledger!ledger
<1>1. order' = order /\ bets' = bets /\ book' = book /\ torn' = torn
  BY DEF Market, bot, ReadTape, CycleRaises, vars, Gate, NothingRests, NothingNew, NoTape,
         Booked, TooPoor, Paid
<1> QED
  BY <1>1 DEF Ledger!ledger

\* The venue fills more of one order, which stays open until it is booked.
LEMMA FillIsLedgerStep ==
    ASSUME PaperInv, NEW o \in Orders, NEW n \in 0 .. Size, order[o].filled < n,
           o \notin LedgerClosed, o \in book', bets' = bets, torn' = torn,
           order' \in [Orders -> OrderRecord], order'[o].filled = n,
           book' = book \union {o},
           \A q \in Orders \ {o} : order'[q] = order[q]
    PROVE  Ledger!Next
<1>1. LedgerFilled' = [LedgerFilled EXCEPT ![o] = n]
  BY DEF LedgerFilled
<1>2. LedgerClosed' = LedgerClosed
  BY DEF LedgerClosed
<1>3. LedgerFilled[o] < n
  BY DEF LedgerFilled
<1>4. Ledger!Fill(o)
  BY <1>1, <1>2, <1>3 DEF Ledger!Fill, LedgerFilled, LedgerClosed
<1> QED
  BY <1>4 DEF Ledger!Next

LEMMA LedgerCredit ==
    ASSUME PaperInv, NEW o \in Orders, Credit(o)
    PROVE  Ledger!Next
<1>1. /\ o \in todo /\ bets' = bets /\ torn' = torn /\ book' = book \union {o}
      /\ order' = [order EXCEPT ![o].filled = Target(o, answer),
                                ![o].state = IF Target(o, answer) = Size THEN "filled" ELSE @]
  BY DEF Credit, Looked, Filled
<1>2. /\ Target(o, answer) \in 0 .. Size /\ order[o].filled < Target(o, answer)
      /\ order[o].state = "resting"
  BY <1>1, InHand
<1>3. order[o] \in OrderRecord
  BY OrderTypes
<1>4. order' \in [Orders -> OrderRecord]
  BY CreditKeeps DEF BotInv, Typed
<1>5. /\ order'[o].filled = Target(o, answer)
      /\ \A q \in Orders \ {o} : order'[q] = order[q]
  BY <1>1, <1>3 DEF OrderRecord, PaperInv, BotInv, Typed
<1>6. o \notin LedgerClosed
  BY <1>2 DEF LedgerClosed
<1> QED
  BY <1>1, <1>2, <1>4, <1>5, <1>6, FillIsLedgerStep

LEMMA LedgerPlace ==
    ASSUME PaperInv, NEW o \in Orders, NEW f \in 0 .. Size, NEW p \in Prices, Place(o, f, p)
    PROVE  Ledger!Next \/ UNCHANGED Ledger!ledger
<1>1. /\ pc = "trade" /\ order[o].state = "new" /\ bets' = bets /\ torn' = torn
      /\ order' = [order EXCEPT ![o] =
                     [state |-> IF f = Size THEN "filled" ELSE "resting",
                      placed |-> now, filled |-> f, taken |-> f]]
      /\ book' = IF f > 0 THEN {o} ELSE {}
  BY DEF Place
<1>2. book = {} /\ order[o].filled = 0 /\ Size > 0
  BY <1>1, PaperAssumption DEF PaperInv, BotInv, Phases, Rows
<1>3. order' \in [Orders -> OrderRecord]
  BY PlaceKeeps DEF BotInv, Typed
<1>4. /\ order'[o].filled = f /\ \A q \in Orders \ {o} : order'[q] = order[q]
      /\ f = 0 => order'[o].state = "resting"
  BY <1>1, <1>2 DEF PaperInv, BotInv, Typed
<1>5. o \notin LedgerClosed
  BY <1>1 DEF LedgerClosed
<1>6. CASE f > 0
  BY <1>1, <1>2, <1>3, <1>4, <1>5, <1>6, FillIsLedgerStep
<1>7. CASE f = 0
  <2>1. LedgerFilled' = LedgerFilled
    BY <1>2, <1>4, <1>7 DEF LedgerFilled
  <2>2. LedgerClosed' = LedgerClosed
    BY <1>1, <1>2, <1>4, <1>7 DEF LedgerClosed
  <2> QED
    BY <1>1, <2>1, <2>2 DEF Ledger!ledger, LedgerFilled, LedgerClosed
<1> QED
  BY <1>6, <1>7

LEMMA LedgerBook ==
    ASSUME PaperInv, NEW o \in Orders, BookFill(o)
    PROVE  Ledger!Next
<1>1. /\ o \in book /\ bets' = [bets EXCEPT ![o] = order[o].filled] /\ book' = book \ {o}
      /\ order' = order /\ torn' = torn
  BY DEF BookFill
<1>2. bets[o] < order[o].filled /\ bets \in [Orders -> Nat]
  BY <1>1 DEF PaperInv, BotInv, Typed, Rows
<1>3. bets'[o] = order[o].filled /\ bets' = [bets EXCEPT ![o] = bets'[o]]
  BY <1>1, <1>2
<1>4. o \notin LedgerClosed /\ LedgerClosed' \in {LedgerClosed, LedgerClosed \union {o}}
  BY <1>1 DEF LedgerClosed
<1>5. LedgerFilled' = LedgerFilled /\ LedgerFilled[o] = order[o].filled
  BY <1>1 DEF LedgerFilled
<1>6. order[o].filled \in Int /\ bets[o] \in Int
  BY OrderTypes
<1>7. Ledger!Book(o)
  BY <1>1, <1>2, <1>3, <1>4, <1>5, <1>6 DEF Ledger!Book, LedgerFilled, LedgerClosed
<1> QED
  BY <1>7 DEF Ledger!Next

LEMMA LedgerClose ==
    ASSUME PaperInv,
           EndTrade \/ \E o \in Orders, f \in 0 .. Size, p \in Prices : Reject(o, f, p)
    PROVE  Ledger!Next
<1>1. bets' = bets /\ torn' = torn /\ book' = book
  BY DEF EndTrade, Reject
<1>2. \A o \in Orders :
        /\ order'[o].filled = order[o].filled
        /\ order[o].state \notin {"new", "resting"} => order'[o] = order[o]
  <2> SUFFICES ASSUME NEW o \in Orders
               PROVE  /\ order'[o].filled = order[o].filled
                      /\ order[o].state \notin {"new", "resting"} => order'[o] = order[o]
    OBVIOUS
  <2>1. order[o] \in OrderRecord /\ order \in [Orders -> OrderRecord]
    BY OrderTypes DEF PaperInv, BotInv, Typed
  <2>2. CASE EndTrade
    <3>1. order'[o] = IF o \in PastTtl THEN [order[o] EXCEPT !.state = "expired"] ELSE order[o]
      BY <2>2 DEF EndTrade
    <3> QED
      BY <2>1, <3>1 DEF OrderRecord, PastTtl, Resting
  <2>3. CASE \E q \in Orders, f \in 0 .. Size, p \in Prices : Reject(q, f, p)
    <3>1. PICK q \in Orders : /\ order[q].state = "new"
                              /\ order' = [order EXCEPT ![q].state = "rejected"]
      BY <2>3 DEF Reject
    <3> QED
      BY <2>1, <3>1 DEF OrderRecord
  <2> QED
    BY <2>2, <2>3
<1>3. LedgerFilled' = LedgerFilled
  BY <1>2 DEF LedgerFilled
<1>4. LedgerClosed \subseteq LedgerClosed' /\ LedgerClosed' \subseteq Orders
  BY <1>1, <1>2 DEF LedgerClosed
<1>5. Ledger!Close
  BY <1>1, <1>3, <1>4 DEF Ledger!Close, LedgerFilled, LedgerClosed
<1> QED
  BY <1>5 DEF Ledger!Next

LEMMA LedgerTear ==
    ASSUME PaperInv, Restart
    PROVE  Ledger!Next
<1>1. bets' = bets /\ torn' = torn \union book /\ book' = {}
  BY DEF Restart
<1>2. \A o \in Orders :
        /\ order'[o].filled = order[o].filled
        /\ order[o].state \notin {"new", "resting"} => order'[o] = order[o]
  BY DEF Restart, Resting, NewOrder
<1>3. LedgerFilled' = LedgerFilled
  BY <1>2 DEF LedgerFilled
<1>4. LedgerClosed \subseteq LedgerClosed' /\ LedgerClosed' \subseteq Orders
  BY <1>1, <1>2 DEF LedgerClosed
<1>5. torn \subseteq torn' /\ torn' \subseteq Orders
  BY <1>1 DEF PaperInv, BotInv, Typed
<1>6. Ledger!Tear
  BY <1>1, <1>3, <1>4, <1>5 DEF Ledger!Tear, LedgerFilled, LedgerClosed
<1> QED
  BY <1>6 DEF Ledger!Next

LEMMA LedgerNext ==
    ASSUME PaperInv, [Next]_vars
    PROVE  [Ledger!Next]_(Ledger!ledger)
<1>1. CASE Reconcile
  BY <1>1, LedgerStill, LedgerCredit, LedgerBook DEF Reconcile
<1>2. CASE Trade
  BY <1>2, LedgerStill, LedgerPlace, LedgerClose DEF Trade
<1> QED
  BY <1>1, <1>2, LedgerStill, LedgerClose, LedgerTear DEF Next, Cycle

\* Paper trading keeps the promise of live trading about money: contracts
\* become bets after the venue filled them, each once, through every read of
\* the tape, every short balance and every crash (paper.py:163-212,
\* executor.py:325-338).
THEOREM LedgerImplemented == Spec => ImplementsLedger
BY PaperHolds, LedgerInit, LedgerNext, PTL DEF Spec, ImplementsLedger, Ledger!Spec
=============================================================================
