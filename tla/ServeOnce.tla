------------------------------ MODULE ServeOnce ------------------------------
(***************************************************************************)
(* What an order-preserving transformation of a launch promises            *)
(* (THEORY.md, class E1): launches of the stream run one after the other,  *)
(* and each of them serves every one of its tiles exactly once, in any     *)
(* order whatever.                                                         *)
(***************************************************************************)
EXTENDS Integers

VARIABLES
  grid,   (* tiles of the launch being executed, 0 when there is none *)
  todo    (* its tiles that no CTA has served yet                     *)

vars == <<grid, todo>>

Init == grid = 0 /\ todo = {}

(* The next launch of the stream starts. *)
Launch ==
  /\ grid = 0
  /\ grid' \in Nat \ {0}
  /\ todo' = 0 .. (grid' - 1)

(* One tile that was still to do is served. *)
Serve ==
  /\ \E t \in todo : todo' = todo \ {t}
  /\ UNCHANGED grid

(* The launch completes, with nothing left undone. *)
Complete ==
  /\ grid # 0 /\ todo = {}
  /\ grid' = 0
  /\ UNCHANGED todo

Next == Launch \/ Serve \/ Complete

Spec == Init /\ [][Next]_vars
=============================================================================
