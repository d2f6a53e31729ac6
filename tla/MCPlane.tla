------------------------------ MODULE MCPlane -------------------------------
(***************************************************************************)
(* A small instance of Plane: a 16 by 9 mode and sources of its own shape, *)
(* narrower and wider ones, two that round on a tie, two that would shrink *)
(* to nothing, and one larger than the mode.                               *)
(***************************************************************************)
EXTENDS Plane

MCSizes == {<<16, 9>>, <<8, 6>>, <<5, 7>>, <<6, 4>>, <<32, 3>>, <<40, 1>>, <<1, 40>>, <<20, 18>>}
=============================================================================
