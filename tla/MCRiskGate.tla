----------------------------- MODULE MCRiskGate -----------------------------
(* A small instance of RiskGate for TLC. *)
EXTENDS RiskGate, TLC

\* A bet wins or loses its stake.
MCOutcomes == {-Stake, Stake}
=============================================================================
