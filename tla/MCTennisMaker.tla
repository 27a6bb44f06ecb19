--------------------------- MODULE MCTennisMaker ---------------------------
(* A small instance of TennisMaker for TLC. *)
EXTENDS TennisMaker

\* Room for a stop and for a take-profit two ticks from an entry.
MCPrices == 1 .. 4
=============================================================================
