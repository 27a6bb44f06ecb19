---------------------------- MODULE MCTradingBot ----------------------------
(* A small instance of TradingBot for TLC. *)
EXTENDS TradingBot, TLC

\* The two tokens of one market; discovery may miss one or both.
MCComplement == "yes" :> "no" @@ "no" :> "yes"
MCListings == {{"yes", "no"}, {"yes"}, {}}
=============================================================================
