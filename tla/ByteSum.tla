------------------------------ MODULE ByteSum ------------------------------
(***************************************************************************)
(* Byte totals.  The MMU keeps running totals (totalUsed, xoffTotalUsed,   *)
(* ...) next to per-queue counters; what ties the two together is a sum    *)
(* over a finite set.  The sum is the number of cells <<x, k>>, one for    *)
(* each byte k that x contributes, so it needs no recursion.               *)
(***************************************************************************)
EXTENDS Integers, FiniteSets

Cells(S, f) == UNION {{x} \X (1..f[x]) : x \in S}

(* \sum_{x \in S} f[x], for a finite S and f[x] \in Nat *)
Total(S, f) == Cardinality(Cells(S, f))
=============================================================================
