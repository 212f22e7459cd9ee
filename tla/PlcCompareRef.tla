--------------------------- MODULE PlcCompareRef ----------------------------
(***************************************************************************)
(* What the byte comparisons should compute: the operands read as numbers, *)
(* least significant byte first, and compared as numbers.  The state is    *)
(* three operands, and a step lets one byte of one of them change, as the  *)
(* clock registers do between two comparisons.                             *)
(***************************************************************************)
EXTENDS PlcCompare

CONSTANTS
    ByteSpan,     \* 2^8
    Size          \* how many bytes an operand has

ASSUME CompareAssumption == ByteSpan \in Nat \ {0} /\ Size \in Nat

VARIABLES reg, kl, kr      \* the register bytes and the two constants

compareVars == <<reg, kl, kr>>

Byte    == 0 .. ByteSpan - 1
Operands == [1 .. Size -> Byte]

ByteValue(s) ==
    LET top[n \in 0 .. Size] ==          \* of the n most significant bytes
            IF n = 0 THEN 0 ELSE top[n - 1] * ByteSpan + s[Size + 1 - n]
    IN  top[Size]

CompareInit == reg \in Operands /\ kl \in Operands /\ kr \in Operands

RegisterChanges == \E i \in 1 .. Size, v \in Byte : reg' = [reg EXCEPT ![i] = v]
CompareNext == RegisterChanges /\ UNCHANGED <<kl, kr>>

CompareSpec == CompareInit /\ [][CompareNext]_compareVars

\* BACMPL, BACMPE and BACMPB compare numbers, whatever the bytes: the loops of
\* handle_plc_bacmp run from the most significant byte and break in time.  BAZCP
\* puts the register in the half-open interval above kl and up to kr, and when
\* kl is not below kr nothing is in between.
ComparesNumbers ==
    /\ BacmpLess(reg, kl)  <=> ByteValue(reg) < ByteValue(kl)
    /\ BacmpEqual(reg, kl) <=> ByteValue(reg) = ByteValue(kl)
    /\ BacmpAbove(reg, kl) <=> ByteValue(reg) > ByteValue(kl)
    /\ BazcpZone(reg, kl, kr) =
        CASE ByteValue(reg) <= ByteValue(kl) -> 0
          [] ByteValue(reg) >  ByteValue(kl) /\ ByteValue(reg) <= ByteValue(kr) -> 1
          [] OTHER -> 2

=============================================================================
