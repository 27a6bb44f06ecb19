----------------------------- MODULE MCExposure -----------------------------
(* A small instance of Exposure for TLC. *)
EXTENDS Exposure, TLC

CONSTANTS a, b, c, touchOnly, mixed

\* Two markets of a sport only the touch arm runs, one of a sport with both.
MCSportOf == a :> touchOnly @@ b :> touchOnly @@ c :> mixed
MCArms == touchOnly :> {"touch"} @@ mixed :> {"touch", "model"}
\* The other mode holds bets on the third market.
MCOtherMode == a :> 0 @@ b :> 0 @@ c :> 1
\* The first two markets are interchangeable.
Symmetry == Permutations({a, b})
=============================================================================
