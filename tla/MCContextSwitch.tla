--------------------------- MODULE MCContextSwitch ---------------------------
(* ContextSwitch for TLC.  Characters are only passed on and compared, so   *)
(* states that differ by exchanging them behave alike.                      *)
EXTENDS ContextSwitch

CharacterSymmetry == Permutations(Characters)
=============================================================================
