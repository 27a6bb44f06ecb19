---------------------------- MODULE MCSettlement ----------------------------
(* A small instance of Settlement for TLC. *)
EXTENDS Settlement, TLC

\* Two live bets and a paper bet on one side: a sale may be partial, a fill may
\* come late, and both processes bank on one key.
MCMode == "l1" :> "live" @@ "l2" :> "live" @@ "p1" :> "paper"
MCSide == "l1" :> "yes" @@ "l2" :> "yes" @@ "p1" :> "yes"
MCSize == "l1" :> 1 @@ "l2" :> 1 @@ "p1" :> 1
MCStake == "l1" :> 1 @@ "l2" :> 3 @@ "p1" :> 2
MCBets == DOMAIN MCMode
=============================================================================
