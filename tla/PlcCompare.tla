----------------------------- MODULE PlcCompare -----------------------------
(***************************************************************************)
(* The byte comparisons of the PLC instruction set, as pure operators.     *)
(*                                                                         *)
(* A multi-byte operand is a sequence of bytes, least significant first:   *)
(* rv[i] is get_byte_val(base + i - 1) and ks[i] the i-th constant stored  *)
(* in the instruction.  The loops of handle_plc_bacmp and                  *)
(* handle_plc_bazcp run from the last byte down and break at the first     *)
(* difference; here the byte they break at is named by a quantifier.       *)
(* A zone is 0, 1 or 2: which of the three result relays gets the one.     *)
(***************************************************************************)
EXTENDS Naturals, Sequences

Zone == 0 .. 2

\* i is the byte at which the descending loop breaks.
BreaksAt(rv, ks, i) ==
    /\ rv[i] # ks[i]
    /\ \A j \in DOMAIN ks : j > i => rv[j] = ks[j]

\* A comparison that breaks at the least significant difference instead.
BacmpLessFromLow(rv, ks) ==
    \E i \in DOMAIN ks : /\ rv[i] < ks[i]
                         /\ \A j \in DOMAIN ks : j < i => rv[j] = ks[j]

BacmpLess(rv, ks)  == \E i \in DOMAIN ks : BreaksAt(rv, ks, i) /\ rv[i] < ks[i]
BacmpAbove(rv, ks) == \E i \in DOMAIN ks : BreaksAt(rv, ks, i) /\ rv[i] > ks[i]
BacmpEqual(rv, ks) == \A i \in DOMAIN ks : rv[i] = ks[i]

\* BCMP: one register against one constant.
BcmpZone(r, k) ==
    CASE r < k -> 0
      [] r = k -> 1
      [] r > k -> 2

\* BZCP: one register against an interval that contains both its ends.
BzcpZone(r, klow, khig) ==
    CASE r < klow                -> 0
      [] r >= klow /\ r <= khig  -> 1
      [] r >= klow /\ r > khig   -> 2

\* BAZCP: "result" starts as 0 and leaves it only when the operand is found
\* strictly above the lower bound; it then becomes 2 if it is found strictly
\* above the upper one.
BazcpZone(rv, kl, kr) ==
    IF BacmpAbove(rv, kl) THEN IF BacmpAbove(rv, kr) THEN 2 ELSE 1 ELSE 0

=============================================================================
