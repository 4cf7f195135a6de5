-------------------------------- MODULE Remap --------------------------------
(***************************************************************************)
(* The data side of the pi lever: an order table, the tile count it is     *)
(* stamped with, and the two guards a woven CTA applies to the entry it    *)
(* loaded.  SchedWeave.cpp (emitRemap) and SchedWorkQueue.cpp              *)
(* (emitOrderRemap) build the same decision; they differ in the bound they *)
(* hand it (nctaid of the launch, or ctrl->num_tasks).                     *)
(*                                                                         *)
(* Tiles, tasks and CTAs are numbered from 0 as in the kernels.  The       *)
(* comparisons are unsigned in the code; every value here is a natural.    *)
(***************************************************************************)
EXTENDS Integers

(* The tiles of a launch of n CTAs along the slot axis. *)
Tiles(n) == 0 .. (n - 1)

Identity(n) == [i \in Tiles(n) |-> i]

InjectiveOn(f, S) == \A i, j \in S : f[i] = f[j] => i = j

(* The first n entries of a table are a permutation of the n tiles. *)
PermutesPrefix(f, n) ==
  /\ \A i \in Tiles(n) : f[i] \in Tiles(n)
  /\ InjectiveOn(f, Tiles(n))

(* What region_order and _grouped_lpt can return for n tiles, laid out in a  *)
(* table of `size` entries: an arrangement of 0 .. n-1 followed by padding   *)
(* that no install ever copies.                                              *)
Orders(size, n) ==
  {f \in [Tiles(size) -> Tiles(size)] :
     PermutesPrefix(f, n) /\ \A i \in Tiles(size) \ Tiles(n) : f[i] = i}

(* Mutant of Overwrite: the copy stops one entry short. *)
OverwriteShort(table, f, n) ==
  [i \in DOMAIN table |-> IF i + 1 < n THEN f[i] ELSE table[i]]

(* set_order overwrites the first n entries only. *)
Overwrite(table, f, n) ==
  [i \in DOMAIN table |-> IF i < n THEN f[i] ELSE table[i]]

(* Mutant of SizeOK: the stamp is not consulted. *)
SizeIgnored(stamp, bound) == TRUE

(* The whole-launch validity test: 0 means "unchecked". *)
SizeOK(stamp, bound) == stamp = 0 \/ stamp = bound

(* Mutant of Guarded: the stamp alone protects the launch. *)
GuardedUnclamped(entry, pid, stamp, bound) ==
  IF SizeOK(stamp, bound) THEN entry ELSE pid

(* Layer 1 (the clamp) and layer 2 (the stamp) on a loaded entry. *)
Guarded(entry, pid, stamp, bound) ==
  IF entry < bound /\ SizeOK(stamp, bound) THEN entry ELSE pid

(* The task a CTA serves when it finds the table and the stamp in one        *)
(* consistent state: CTAs past the table take identity.                      *)
Target(table, stamp, pid, bound) ==
  IF pid \in DOMAIN table THEN Guarded(table[pid], pid, stamp, bound) ELSE pid

(* A table that matches its stamp: the permutation of the stamped count, or  *)
(* the identity when nothing is stamped.                                     *)
Coherent(table, stamp) ==
  IF stamp = 0 THEN \A i \in DOMAIN table : table[i] = i
               ELSE PermutesPrefix(table, stamp)
=============================================================================
