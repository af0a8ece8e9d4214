----------------------------- MODULE MCJwtClock -----------------------------
(***************************************************************************)
(* JwtClock in steps of five seconds, with the longest timeout of that     *)
(* grain that the margins allow.                                           *)
(***************************************************************************)
EXTENDS JwtClock

MCTicks == {5}
MCSkews == {-60, -30, 0, 30, 60}
=============================================================================
