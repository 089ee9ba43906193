----------------------------- MODULE MCUserCopy -----------------------------
(***************************************************************************)
(* Pages of eight bytes.  An open caller makes two calls with pointers in  *)
(* the middle of a page, before a present page, before an absent page and  *)
(* into one, so that copies overlap, cross pages and fault at either end.  *)
(***************************************************************************)
EXTENDS UserCopy

MCPointers ==
  [f \in DOMAIN Suite |-> IF f \in Ranged THEN {At(0, 0), At(0, 1), At(1, 0) - 2, At(5, 0) - 2, At(11, 0) - 1, At(5, 1)}
                      ELSE {At(0, 0), At(0, 1), At(1, 0) - 1, At(1, 0)}]
=============================================================================
