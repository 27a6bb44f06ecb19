------------------------------- MODULE UsTape -------------------------------
(***************************************************************************)
(* The recorded trade tape of one Polymarket US market: TapeCollector      *)
(* writes it from a websocket that drops, TapeStore vouches for windows of *)
(* it, PolymarketUSClient.recent_trades reads it.                          *)
(*                                                                         *)
(* The collector is a process of its own.  A message and the touch of its  *)
(* session are one commit.  A print travels: it is made, it is on the      *)
(* wire of the connection, it is recorded.                                 *)
(***************************************************************************)
EXTENDS Integers, Sequences, FiniteSets

CONSTANTS
    MaxTime,      \* the clock stops here (bound)
    MaxEvents,    \* prints made and connections opened, together (bound)
    Grace,        \* COVERAGE_GRACE_S
    Lag,          \* SUB_LAG_S: the venue honours a subscription within it
    Prices,       \* prices of prints, in the YES frame
    Volumes       \* sizes of prints

ASSUME TapeAssumption ==
    /\ MaxTime \in Nat /\ MaxEvents \in Nat
    /\ Grace \in Nat /\ Lag \in Nat \ {0}
    /\ Prices \subseteq Nat \ {0} /\ Volumes \subseteq Nat \ {0}

VARIABLES
    now,
    made,       \* the venue's prints: ts, price, size
    recorded,   \* prints in the prints table
    sessions,   \* sessions with the market's subs row: since, seen
    conn,       \* the session that is connected, or 0
    wire,       \* prints sent on conn and not yet received
    \* History, read by no action.
    spilled     \* prints on the wire when their connection dropped

tape == <<made, recorded, sessions, conn, wire, spilled>>

Times == 0 .. MaxTime
Never == MaxTime + Lag + 1
Prints == 1 .. Len(made)
MoreEvents == Len(made) + Len(sessions) < MaxEvents

\* The collector has been at work for a while.
TapeInit ==
    /\ now = 0
    /\ made = <<>> /\ recorded = {}
    /\ sessions = <<[since |-> 0, seen |-> 0]>> /\ conn = 1
    /\ wire = {} /\ spilled = {}

\* Time passes.  The venue's heartbeats and the trades of other markets keep
\* touching the session that is connected.
Tick ==
    /\ now < MaxTime /\ now' = now + 1
    /\ sessions' = IF conn = 0 THEN sessions ELSE [sessions EXCEPT ![conn].seen = now + 1]
    /\ UNCHANGED <<made, recorded, conn, wire, spilled>>

\* The venue trades.  From `since` on it sends prints on the connection;
\* between the request and `since` it may.
Sends(i, print) ==
    wire' \in IF conn = 0 \/ sessions[conn].since = Never THEN {wire}
              ELSE IF sessions[conn].since <= print.ts THEN {wire \union {i}}
              ELSE {wire, wire \union {i}}
MakePrint(print) ==
    /\ MoreEvents /\ print.ts = now
    /\ made' = Append(made, print)
    /\ Sends(Len(made) + 1, print)
    /\ UNCHANGED <<now, recorded, sessions, conn, spilled>>

\* open_session; the subscription follows at once or with a later refresh
\* that discovers the market.
OpenSession ==
    /\ conn = 0 /\ MoreEvents
    /\ sessions' = Append(sessions, [since |-> Never, seen |-> now])
    /\ conn' = Len(sessions) + 1
    /\ UNCHANGED <<now, made, recorded, wire, spilled>>
Subscribe ==
    /\ conn # 0 /\ sessions[conn].since = Never
    /\ sessions' = [sessions EXCEPT ![conn].since = now + Lag]
    /\ UNCHANGED <<now, made, recorded, conn, wire, spilled>>

\* The oldest print on the wire is received.
RecordPrint ==
    /\ \E i \in wire :
         /\ \A j \in wire : i <= j
         /\ recorded' = recorded \union {i}
         /\ wire' = wire \ {i}
    /\ sessions' = [sessions EXCEPT ![conn].seen = now]
    /\ UNCHANGED <<now, made, conn, spilled>>

\* The connection drops, idles out or its process ends.
DropSession ==
    /\ conn # 0
    /\ conn' = 0 /\ wire' = {} /\ spilled' = spilled \union wire
    /\ UNCHANGED <<now, made, recorded, sessions>>

\* covered: one session, subscribed by t and heard within the grace.
AliveSession(t) ==  \* mutant: a session opened later vouches for the past
    \E s \in 1 .. Len(sessions) : sessions[s].since # Never /\ sessions[s].seen >= now - Grace
Covered(t) ==
    \E s \in 1 .. Len(sessions) :
        sessions[s].since <= t /\ sessions[s].seen >= now - Grace
\* recent_trades, when it does not raise TapeGap.
Since(t) == {i \in recorded : made[i].ts >= t}

Collector == OpenSession \/ Subscribe \/ RecordPrint \/ DropSession
TapeNext ==
    \/ Tick \/ Collector
    \/ \E p \in Prices, v \in Volumes : MakePrint([ts |-> now, price |-> p, size |-> v])

-----------------------------------------------------------------------------
TapeTypeOK ==
    /\ now \in Times
    /\ made \in Seq([ts : Times, price : Prices, size : Volumes])
    /\ recorded \subseteq Prints /\ wire \subseteq Prints /\ spilled \subseteq Prints
    /\ sessions \in Seq([since : Nat, seen : Times])
    /\ conn \in 0 .. Len(sessions)

\* A gap shows: the tape vouches for a window it has lost a print of only
\* within the grace after that print was made, through any drops and
\* reconnects (polymarket_us_tape.py:22-25, 160-168).  A print that was on
\* the wire when its connection dropped is the one exception.
GapShows ==
    \A t \in Times, i \in Prints :
        Covered(t) /\ made[i].ts >= t /\ i \notin recorded \union wire \union spilled
            => made[i].ts >= now - Grace
=============================================================================
