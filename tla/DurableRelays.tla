--------------------------- MODULE DurableRelays ----------------------------
(***************************************************************************)
(* What the holding relays promise, whatever the instruction set: an image *)
(* in memory and a copy that survives a power failure.  The program        *)
(* changes the image, which is then owed to the copy; a commit sends the   *)
(* image byte by byte, in order, while nothing changes the image; power    *)
(* may fail at any time and the image is then read back from the copy.     *)
(* Something else may overwrite the copy, but not during a commit.         *)
(***************************************************************************)
EXTENDS Naturals

CONSTANTS
    Relays,
    Bytes,     \* how many bytes the store has
    ByteOf,    \* the byte, of 0 .. Bytes - 1, each relay lies in
    Value

VARIABLES
    image,     \* the relays in memory
    copy,      \* the relays in the store that survives
    owed,      \* the image was written since the last commit began
    committing,
    sent,      \* the bytes the running commit has sent
    up         \* power is on and the image was read

vars == <<image, copy, owed, committing, sent, up>>

Init ==
    /\ image \in [Relays -> Value]
    /\ copy \in [Relays -> Value]
    /\ owed = FALSE
    /\ committing = FALSE
    /\ sent = 0
    /\ up = FALSE

\* The image is written; whoever writes owes a commit.
Modify ==
    /\ up /\ ~committing
    /\ image' \in [Relays -> Value]
    /\ owed' = TRUE
    /\ UNCHANGED <<copy, committing, sent, up>>

Begin ==
    /\ up /\ owed /\ ~committing
    /\ owed' = FALSE
    /\ committing' = TRUE
    /\ UNCHANGED <<image, copy, sent, up>>

SendByte ==
    /\ committing /\ sent < Bytes
    /\ copy' = [r \in Relays |-> IF ByteOf[r] = sent THEN image[r] ELSE copy[r]]
    /\ sent' = sent + 1
    /\ UNCHANGED <<image, owed, committing, up>>

\* A commit ends only when every byte was sent.
End ==
    /\ committing /\ sent = Bytes
    /\ committing' = FALSE
    /\ sent' = 0
    /\ UNCHANGED <<image, copy, owed, up>>

Overwrite ==
    /\ up /\ ~committing
    /\ copy' \in [Relays -> Value]
    /\ UNCHANGED <<image, owed, committing, sent, up>>

Restart ==
    /\ image' = copy
    /\ owed' = FALSE
    /\ committing' = FALSE
    /\ sent' = 0
    /\ up' = TRUE
    /\ UNCHANGED copy

Next == Modify \/ Begin \/ SendByte \/ End \/ Overwrite \/ Restart

Spec == Init /\ [][Next]_vars
=============================================================================
