----------------------- MODULE MCMovementInterpolator -----------------------
(* A small instance of MovementInterpolator for TLC. *)
EXTENDS MovementInterpolator

===============================================================================
