----------------------------- MODULE MCPlcScan ------------------------------
(* Small PLCs for TLC: one or two relays of each kind and short programs.    *)
EXTENDS PlcScan

Nop  == [op |-> "NONE", a |-> 0, b |-> 0, k |-> 0, ks |-> <<>>, kr |-> <<>>]
End  == [Nop EXCEPT !.op = "END"]
I(op, a)           == [Nop EXCEPT !.op = op, !.a = a]
IK(op, a, k)       == [Nop EXCEPT !.op = op, !.a = a, !.k = k]
Move(a, b, k)      == [Nop EXCEPT !.op = "BMOV", !.a = a, !.b = b, !.k = k]
Cmp(op, r, out, ks, kr) ==
    [Nop EXCEPT !.op = op, !.a = r, !.b = out, !.ks = ks, !.kr = kr]

\* Relay addresses.
X == 0   Y == 1   M == 2   H0 == 3   H1 == 4   S == 5   T == 6   T1 == 7   C == 8   S1 == 9

MCIO_INPUT       == {X}
MCIO_OUTPUT      == {Y}
MCAUXI_RELAY     == {M}
MCAUXI_HOLDRELAY == {H0, H1}
MCSPECIAL_RELAY  == {S, S1}
MCTIMING100MS    == {T}
MCTIMING1S       == {T1}
MCCOUNTER        == {C}
MCHoldByte       == [h \in {H0, H1} |-> h - H0]

\* Two registers, R0 and R1.
MCRegFiles == {[r \in {10, 11} |-> IF r = 10 THEN u ELSE 1] : u \in {1, 2}}
OneRegFile == {[r \in {10, 11} |-> 1]}

Pad(s, ins) == [i \in 0 .. RomSize - 1 |-> IF i < Len(s) THEN s[i + 1] ELSE ins]
Ended(s) == Pad(s, End)

\* Programs, most of them with the mistakes a user makes.
Latch   == Ended(<<I("LDP", X), I("SEI", H0), I("LDF", X), I("SEI", H1), I("OUT", Y)>>)
Edges   == Ended(<<I("LDKL", 0), I("ORP", X), I("ORF", X), I("LDKH", 0), I("ANDP", M),
                   I("ANDF", S)>>)
Bulk    == Pad(<<I("NETRB", 0), Move(H0, X, 2), IK("ZRST", Y, M), I("INV", 0),
                 I("RST", H0)>>, I("UNKNOWN", 0))
Select  == Ended(<<Cmp("BCMP", 10, M, <<2>>, <<>>), I("LD", H0), IK("JMPS", 0, 1),
                   I("SET", Y), Cmp("BACMPL", 10, M, <<1, 2>>, <<>>)>>)
Zones   == Ended(<<Cmp("BAZCP", 10, M, <<1, 1>>, <<2, 1>>), Cmp("BZCP", 10, Y, <<1>>, <<1>>),
                   Cmp("BZCPS", 10, Y, <<2>>, <<3>>), I("OUT", H1), IK("JMP", 0, 1)>>)
Gates   == Ended(<<I("LDI", X), I("AND", M), I("ANI", Y), I("OR", S), I("ORI", H0), I("OUT", M)>>)
OpenEnd == Pad(<<I("LDP", X), I("SEI", H1)>>, Nop)
Stack   == Ended(<<I("LD", X), I("MPS", 0), I("MRD", 0), I("MPP", 0), I("MPP", 0), I("OUT", Y)>>)
Deep    == Ended(<<I("LD", X), I("MPS", 0), I("MPS", 0), I("MPS", 0), I("OUT", Y)>>)
Timers  == Ended(<<I("LD", X), IK("OUTT", T, 2), IK("OUTT", T1, 1), I("LD", T), I("OUT", Y)>>)
CountUp  == Ended(<<I("LD", X), IK("OUTC", C, 2), I("LDP", C), I("OUT", M)>>)
Recount == Ended(<<I("LD", X), IK("OUTC", C, 2), I("LDF", X), I("RST", C)>>)
NoCell  == Ended(<<I("LD", X), IK("OUTT", M, 2), IK("OUTC", T, 2)>>)
NoCount == Ended(<<IK("OUTC", T, 2)>>)

Skip    == Ended(<<I("LD", X), IK("JMPS", 0, 0), I("SET", H0), IK("JMP", 0, 0)>>)

RelayPrograms == {Latch, Edges, Bulk, Select, Zones, Gates, OpenEnd}
CellPrograms  == {Timers, CountUp, Recount, NoCell, NoCount, Stack, Deep, Bulk, Skip}

\* The host rewrites one cell of whatever program there is.
RelayDownloads == {<<2, I("SET", H1)>>}
CellDownloads == {<<1, IK("OUTC", C, 1)>>}
NoImages == {}
RelayRanges == {{H0}, {M}, {X, Y}}
CellRanges == {{C}, {T}, {H1}}
SomeImages == {[h \in {H0, H1} |-> 1]}
=============================================================================
