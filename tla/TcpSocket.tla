------------------------------ MODULE TcpSocket ------------------------------
(***************************************************************************)
(* One server socket of the TCP stack (TCP.c), from LISTEN through one     *)
(* connection and back: the two ring buffers, sequence numbers, the hole   *)
(* for data that comes out of order, retransmission, keep-alives and the   *)
(* ways to close.                                                          *)
(*                                                                         *)
(* The peer is a correct TCP.  The network loses, delays, duplicates and   *)
(* reorders what it sends; what the board sends is heard or lost.  Both    *)
(* initial sequence numbers are 0, so byte k of either stream has the      *)
(* sequence number k + 1 and is represented by k.  A timer that runs may   *)
(* expire at any tick.                                                     *)
(***************************************************************************)
EXTENDS Integers, Sequences, FiniteSets

CONSTANTS
    Streams,             \* pairs: bytes the application and the peer may send
    T,                   \* bufferRxStart - bufferTxStart; holds T - 1 bytes
    R,                   \* bufferEnd - bufferRxStart; holds R bytes
    W,                   \* the largest window of the peer
    MSS,                 \* TCP_MAX_SEG_SIZE
    MAX_RETRIES, MAX_SYN_RETRIES, MAX_UNACKED_KEEP_ALIVES

ASSUME SocketAssumption ==
    /\ {T, R, W, MSS} \subseteq Nat \ {0}
    /\ {MAX_RETRIES, MAX_SYN_RETRIES, MAX_UNACKED_KEEP_ALIVES} \subseteq Nat
    /\ Streams \subseteq Nat \X Nat

VARIABLES
    tcb,                 \* MyTCBStub and MyTCB
    peer,                \* see Heard
    app,                 \* [limit, written, read]: bytes put and bytes got
    gone                 \* the peer is off

vars == <<tcb, peer, app, gone>>

Word(n) == n % 65536
RESET == {"RESET_TIMERS"}
KEEP_ALIVE == {"KEEP_ALIVE"}
Least(a, b) == IF a < b THEN a ELSE b

\* Positions count from bufferTxStart and from bufferRxStart.
Outstanding(s) == (s.txUnackedTail - s.txTail) % T
Unsent(s)      == (s.txHead - s.txUnackedTail) % T
GetReady(s)    == (s.rxHead - s.rxTail) % (R + 1)
FreeSpace(s)   == R - GetReady(s)

PutReady(s) ==
    IF s.smState \in {"ESTABLISHED", "CLOSE_WAIT"}
    THEN T - 1 - ((s.txHead - s.txTail) % T) ELSE 0

-----------------------------------------------------------------------------
(* SendTCP and CloseSocket *)

\* bAckDue stands for bTXASAP and for the timers that only make TCPTick send
\* an ACK (bTimer2Enabled, bDelayedACKTimerEnabled): they are cleared together.
Closed ==
    [smState |-> "LISTEN",
     txHead |-> 0, txTail |-> 0, txUnackedTail |-> 0, rxHead |-> 0, rxTail |-> 0,
     tx |-> [p \in 0 .. T - 1 |-> -1], rx |-> [p \in 0 .. R |-> -1],
     MySEQ |-> 0, RemoteSEQ |-> 0, remoteWindow |-> 1,
     sHoleSize |-> -1, wFutureDataSize |-> 0, retryCount |-> 0, vUnackedKeepalives |-> 0,
     bTimerEnabled |-> FALSE, bAckDue |-> FALSE, bOneSegmentReceived |-> FALSE,
     bHalfFullFlush |-> FALSE, bTXASAPWithoutTimerReset |-> FALSE, bTXFIN |-> FALSE,
     bFINSent |-> FALSE, bSYNSent |-> FALSE, bRXNoneACKed1 |-> FALSE, bRXNoneACKed2 |-> FALSE,
     bSocketReset |-> TRUE,
     out |-> <<>>,       \* the segments this step has sent
     resent |-> 0]       \* history: how often the data now in flight went out again

CloseSocket(s) == [Closed EXCEPT !.out = s.out, !.retryCount = s.retryCount]

\* The bytes from txUnackedTail on.
Bytes(s, len) == [k \in 1 .. len |-> s.tx[(s.txUnackedTail + k - 1) % T]]

Control(flags)     == flags \cap {"SYN", "RST"} # {}
FinDue(s, flags)   == s.bTXFIN \/ "FIN" \in flags
Pending(s, flags)  == IF Control(flags) THEN 0 ELSE Unsent(s)
EffectiveWindow(s) == Word(s.remoteWindow - Outstanding(s))
Fitting(s, flags)  == Least(Pending(s, flags), EffectiveWindow(s))
DataLen(s, flags)  == Least(Fitting(s, flags), MSS)

SendsFin(s, flags) ==
    /\ FinDue(s, flags) /\ ~Control(flags)
    /\ IF Pending(s, flags) = 0 THEN s.remoteWindow # 0
       ELSE DataLen(s, flags) \notin {EffectiveWindow(s), MSS}

HeaderFlags(s, flags) == (flags \ {"FIN"}) \cup (IF SendsFin(s, flags) THEN {"FIN"} ELSE {})

\* What the other end has to acknowledge; else a keep-alive, or an ACK that
\* finds its timer running.
Counts(s, flags) == DataLen(s, flags) > 0 \/ HeaderFlags(s, flags) \cap {"SYN", "FIN"} # {}
Probes(s, flags, how)  == ~Counts(s, flags) /\ how = KEEP_ALIVE
Stalled(s, flags, how) ==
    ~Counts(s, flags) /\ ~Probes(s, flags, how) /\ s.bTimerEnabled /\ how # RESET

\* A SYN or a FIN is counted when it goes out first, and numbered back later.
Turns(s, flags) ==
    (~s.bSYNSent /\ "SYN" \in flags) \/ (~s.bFINSent /\ SendsFin(s, flags))
Repeats(s, flags) ==
    (s.bSYNSent /\ "SYN" \in flags) \/ (s.bFINSent /\ SendsFin(s, flags))

Segment(s, flags, how) ==
    [flags |-> HeaderFlags(s, flags),
     seq   |-> s.MySEQ - (IF Probes(s, flags, how) THEN 1 ELSE 0)
                       - (IF Repeats(s, flags) THEN 1 ELSE 0),
     data  |-> IF Probes(s, flags, how) THEN <<-1>> ELSE Bytes(s, DataLen(s, flags)),
     edge  |-> s.RemoteSEQ + FreeSpace(s)]

SendTCP(s, flags, how) ==
    LET afresh == Counts(s, flags) /\ how = RESET
    IN [s EXCEPT
          !.bTXFIN = FinDue(s, flags),
          !.bAckDue = FALSE, !.bOneSegmentReceived = FALSE, !.bHalfFullFlush = FALSE,
          !.bTXASAPWithoutTimerReset = Fitting(s, flags) > MSS,
          !.txUnackedTail = (@ + DataLen(s, flags)) % T,
          !.retryCount = IF afresh THEN 0
                         ELSE IF Stalled(s, flags, how) THEN (@ - 1) % 256 ELSE @,
          !.resent = IF afresh THEN 0 ELSE @,
          !.bTimerEnabled = @ \/ Counts(s, flags),
          !.vUnackedKeepalives = IF Probes(s, flags, how) THEN @ + 1 ELSE @,
          !.MySEQ = @ + DataLen(s, flags) + (IF Turns(s, flags) THEN 1 ELSE 0),
          !.bSYNSent = @ \/ "SYN" \in flags,
          !.bFINSent = @ \/ SendsFin(s, flags),
          !.out = Append(@, Segment(s, flags, how))]

Disconnect(s) ==
    LET r == [s EXCEPT !.rxTail = s.rxHead]
    IN CASE s.smState \in {"SYN_RECEIVED", "ESTABLISHED"} ->
               [SendTCP(r, {"FIN", "ACK"}, RESET) EXCEPT !.smState = "FIN_WAIT_1"]
         [] s.smState = "CLOSE_WAIT" ->
               [SendTCP(r, {"FIN", "ACK"}, RESET) EXCEPT !.smState = "LAST_ACK"]
         [] OTHER -> CloseSocket(SendTCP(r, {"RST", "ACK"}, {}))

\* A slip: the sequence number is not rolled back.
RollBackTail(s) == [s EXCEPT !.txUnackedTail = s.txTail]

\* Everything that is not acknowledged is to be sent once more.
RollBack(s) == [s EXCEPT !.MySEQ = @ - Outstanding(s), !.txUnackedTail = s.txTail]

-----------------------------------------------------------------------------
(* HandleTCPSeg: a segment m for this socket *)

SegLen(m) == Len(m.data) + Cardinality(m.flags \cap {"SYN", "FIN"})
Missing(s, m) == m.seq - s.RemoteSEQ          \* lMissingBytes

Listening(s, m) ==
    CASE "RST" \in m.flags -> CloseSocket(s)
      [] "RST" \notin m.flags /\ "ACK" \in m.flags ->
            CloseSocket(SendTCP([s EXCEPT !.MySEQ = m.ack], {"RST"}, {}))
      [] m.flags \cap {"RST", "ACK"} = {} /\ "SYN" \in m.flags ->
            [SendTCP([s EXCEPT !.RemoteSEQ = m.seq + 1], {"SYN", "ACK"}, RESET)
                EXCEPT !.smState = "SYN_RECEIVED"]
      [] OTHER -> CloseSocket(s)

\* The three tests for a segment with content come down to one.
Acceptable(s, m) ==
    LET missing == Missing(s, m)
        inside  == missing < FreeSpace(s)
    IN IF SegLen(m) > 0 THEN FreeSpace(s) > 0 /\ inside /\ missing + SegLen(m) > 0
       ELSE missing = 0 \/ (missing > 0 /\ inside)

\* What ack acknowledges anew leaves the ring, and may overtake a roll-back.
Advance(s, acked) ==
    LET beyond == acked - Outstanding(s)
    IN [s EXCEPT !.txTail = (@ + acked) % T,
                 !.txUnackedTail = IF beyond > 0 THEN (s.txTail + acked) % T ELSE @,
                 !.MySEQ = IF beyond > 0 THEN @ + beyond ELSE @,
                 !.bRXNoneACKed1 = FALSE, !.bRXNoneACKed2 = FALSE, !.bHalfFullFlush = FALSE]

\* An ack that acknowledges nothing while something is on its way.
Duplicate(s) ==
    LET third == s.bRXNoneACKed1 /\ s.bRXNoneACKed2
        r == IF third THEN [RollBack(s) EXCEPT !.bTXASAPWithoutTimerReset = TRUE] ELSE s
    IN IF s.txTail = s.txUnackedTail THEN s
       ELSE [r EXCEPT !.bRXNoneACKed2 = @ \/ s.bRXNoneACKed1, !.bRXNoneACKed1 = TRUE]

AllAcknowledged(s, ack) ==
    CASE s.txTail # s.txHead -> s
      [] s.txTail = s.txHead /\ ~s.bTXFIN -> [s EXCEPT !.bTimerEnabled = FALSE]
      [] s.txTail = s.txHead /\ s.bTXFIN /\ s.MySEQ = ack ->
            [s EXCEPT !.bTimerEnabled = FALSE, !.bTXFIN = FALSE, !.bFINSent = FALSE]
      [] OTHER -> s

Window(s, m) ==
    [s EXCEPT !.bAckDue = @ \/ (s.remoteWindow = 0 /\ m.wnd # 0), !.remoteWindow = m.wnd]

TxAcknowledged(s, m) ==
    LET acked == m.ack - (s.MySEQ - Outstanding(s))
        r     == IF 0 < acked /\ acked <= T THEN Advance(s, acked) ELSE Duplicate(s)
    IN Window(AllAcknowledged(r, m.ack), m)

\* Data from sequence number RemoteSEQ + skip on, at most len bytes of it.
Stored(s, m, skip, len) ==
    [p \in DOMAIN s.rx |->
        LET k == ((p - s.rxHead) % (R + 1)) - skip
        IN IF 0 <= k /\ k < len THEN m.data[k + skip - Missing(s, m) + 1] ELSE s.rx[p]]

\* A slip: the stored data joins whenever the hole is closed, its overlap uncut.
InOrderUncut(s, m) ==
    LET len  == Least(Len(m.data) + Missing(s, m), FreeSpace(s))
        hole == s.sHoleSize - len
        join == IF s.sHoleSize # -1 /\ hole <= 0 THEN s.wFutureDataSize ELSE 0
    IN [s EXCEPT !.rx = Stored(s, m, 0, len), !.RemoteSEQ = @ + len + join,
                 !.rxHead = (@ + len + join) % (R + 1),
                 !.sHoleSize = IF hole <= 0 THEN -1 ELSE hole]

\* A slip: data joined from behind the hole is acknowledged but not given out.
InOrderUnread(s, m) ==
    LET len  == Least(Len(m.data) + Missing(s, m), FreeSpace(s))
        hole == s.sHoleSize - len
        rest == s.wFutureDataSize + hole
        join == IF s.sHoleSize # -1 /\ hole <= 0 /\ rest >= 0 THEN rest ELSE 0
    IN [s EXCEPT !.rx = Stored(s, m, 0, len), !.RemoteSEQ = @ + len + join,
                 !.rxHead = (@ + len) % (R + 1),
                 !.sHoleSize = IF hole <= 0 THEN -1 ELSE hole]

\* In order; data stored behind a hole joins when the hole is closed.
InOrder(s, m) ==
    LET len  == Least(Len(m.data) + Missing(s, m), FreeSpace(s))
        hole == s.sHoleSize - len
        rest == s.wFutureDataSize + hole
        join == IF s.sHoleSize # -1 /\ hole <= 0 /\ rest >= 0 THEN rest ELSE 0
    IN [s EXCEPT !.rx = Stored(s, m, 0, len),
                 !.RemoteSEQ = @ + len + join,
                 !.rxHead = (@ + len + join) % (R + 1),
                 !.sHoleSize = IF s.sHoleSize = -1 \/ hole <= 0 \/ rest < 0 THEN -1 ELSE hole]

OutOfOrder(s, m) ==
    LET missing == Missing(s, m)
        len  == Least(Len(m.data), FreeSpace(s) - missing)
        hole == s.sHoleSize
        end  == hole + s.wFutureDataSize
        before == hole = -1 \/ missing < hole
        future ==
            CASE hole = -1 -> len
              [] hole # -1 /\ missing < hole ->
                    IF missing + len > end \/ missing + len < hole THEN len ELSE end - missing
              [] OTHER ->
                    IF missing + len > end /\ missing <= end THEN missing + len - hole
                    ELSE s.wFutureDataSize
    IN [s EXCEPT !.rx = Stored(s, m, missing, len),
                 !.sHoleSize = IF before THEN missing ELSE @,
                 !.wFutureDataSize = future]

\* At once for a second segment, else with the delayed-ACK timer.
Answer(s, m) ==
    LET r == IF s.smState = "ESTABLISHED" THEN s ELSE [s EXCEPT !.rxTail = s.rxHead]
    IN CASE SegLen(m) = 0 -> s
         [] SegLen(m) > 0 /\ s.bOneSegmentReceived -> SendTCP(r, {"ACK"}, RESET)
         [] OTHER -> [r EXCEPT !.bOneSegmentReceived = TRUE, !.bAckDue = TRUE]

Final(s, m) ==
    LET r == [s EXCEPT !.RemoteSEQ = @ + 1]
    IN IF ~("FIN" \in m.flags /\ s.RemoteSEQ + 1 = m.seq + SegLen(m)) THEN s
       ELSE CASE s.smState = "ESTABLISHED" ->
                    SendTCP([r EXCEPT !.smState = "CLOSE_WAIT"], {"ACK"}, RESET)
              [] s.smState = "FIN_WAIT_1" ->
                    SendTCP([r EXCEPT !.smState = "CLOSING"], {"ACK"}, RESET)
              [] s.smState = "FIN_WAIT_2" -> CloseSocket(SendTCP(r, {"ACK"}, {}))

Content(s, m) ==
    LET r == CASE m.data = <<>> -> s
               [] m.data # <<>> /\ Missing(s, m) <= 0 -> InOrder(s, m)
               [] OTHER -> OutOfOrder(s, m)
    IN IF s.smState \in {"CLOSE_WAIT", "CLOSING"} THEN s ELSE Final(Answer(r, m), m)

\* bFINSent is down once the FIN is acknowledged: the state follows MySEQ.
StateAfterAck(s, m) ==
    CASE s.smState = "FIN_WAIT_1" /\ s.MySEQ = m.ack ->
            Content([s EXCEPT !.bTimerEnabled = TRUE, !.smState = "FIN_WAIT_2"], m)
      [] s.smState = "FIN_WAIT_2" /\ "FIN" \notin m.flags ->
            CloseSocket(SendTCP([s EXCEPT !.MySEQ = m.ack], {"RST", "ACK"}, {}))
      [] s.smState = "CLOSING" -> IF s.MySEQ = m.ack THEN CloseSocket(s) ELSE s
      [] OTHER -> Content(s, m)

WrongAck(s, m) ==
    [SendTCP([s EXCEPT !.MySEQ = m.ack], {"RST"}, RESET) EXCEPT !.MySEQ = s.MySEQ]

Acknowledge(s, m) ==
    CASE s.smState = "LAST_ACK" -> IF s.MySEQ = m.ack THEN CloseSocket(s) ELSE s
      [] s.smState = "SYN_RECEIVED" /\ m.ack # s.MySEQ -> WrongAck(s, m)
      [] /\ s.smState \notin {"LAST_ACK", "SYN_RECEIVED"}
         /\ s.MySEQ + Unsent(s) < m.ack -> SendTCP(s, {"ACK"}, {})
      [] OTHER ->
            LET e == IF s.smState = "SYN_RECEIVED" THEN [s EXCEPT !.smState = "ESTABLISHED"]
                     ELSE s
            IN StateAfterAck(TxAcknowledged(e, m), m)

HandleTCPSeg(s, m) ==
    CASE s.smState = "LISTEN" -> Listening(s, m)
      [] s.smState # "LISTEN" /\ ~Acceptable(s, m) ->
            IF "RST" \in m.flags THEN s ELSE SendTCP(s, {"ACK"}, RESET)
      [] s.smState # "LISTEN" /\ Acceptable(s, m) /\ m.flags \cap {"RST", "SYN"} # {} ->
            CloseSocket(s)
      [] OTHER -> IF "ACK" \in m.flags THEN Acknowledge(s, m) ELSE s

-----------------------------------------------------------------------------
(* The peer and the network *)

\* peer: [rcv, edge: next byte expected and right edge of the window,
\*        ads: the pairs [ack, wnd] that may be on their way to the board,
\*        fin: it has closed, done: it has received a FIN]
Offer(p) == [p EXCEPT !.ads = @ \cup {[ack |-> p.rcv, wnd |-> p.edge - p.rcv]}]

Hear(p, m) ==
    LET end  == m.seq + Len(m.data)
        next == IF m.seq <= p.rcv /\ p.rcv < end THEN Least(end, p.edge) ELSE p.rcv
        fin  == "FIN" \in m.flags /\ next = end
    IN IF "SYN" \in m.flags THEN Offer(p)
       ELSE IF p.done \/ "RST" \in m.flags THEN p
       ELSE Offer([p EXCEPT !.rcv = IF fin THEN next + 1 ELSE next,
                            !.edge = IF fin THEN @ + 1 ELSE @, !.done = fin])

\* After a step that sends out, of which the network loses any part.
Heard(p, out) ==
    LET after[n \in 0 .. Len(out)] ==
            IF n = 0 THEN {p}
            ELSE after[n - 1] \cup {Hear(q, out[n]) : q \in after[n - 1]}
    IN after[Len(out)]

\* A segment the peer could accept holds a byte that is not the one the
\* application put at its place in the stream.
Misplaced(p, m) ==
    \E k \in DOMAIN m.data : m.seq + k - 1 >= p.rcv /\ m.data[k] # m.seq + k - 2

\* The step to t, in which the application has put so many bytes.
Step(t, put) ==
    \E s \in {t} :
        /\ tcb' = [s EXCEPT !.out = <<>>]
        /\ peer' \in IF gone THEN {peer} ELSE Heard(peer, s.out)
        /\ app' = [app EXCEPT
                     !.written = @ + put,
                     !.over = @ \/ (s.smState = "LISTEN" /\ tcb.smState # "LISTEN"),
                     !.wrong = IF \E k \in DOMAIN s.out : Misplaced(peer, s.out[k])
                               THEN @ \cup {tcb.bFINSent} ELSE @]
        /\ UNCHANGED gone

Becomes(t) == Step(t, 0)

PeerRead ==
    /\ ~gone /\ peer.edge < peer.rcv + W
    /\ peer' = Offer([peer EXCEPT !.edge = @ + 1])
    /\ UNCHANGED <<tcb, app, gone>>

PeerClose ==
    /\ ~gone /\ ~peer.fin
    /\ peer' = [peer EXCEPT !.fin = TRUE]
    /\ UNCHANGED <<tcb, app, gone>>

PeerGone == ~gone /\ gone' = TRUE /\ UNCHANGED <<tcb, peer, app>>

\* Every segment that may arrive: SYN, RST, and data from any byte on with any
\* acknowledgement that was ever due, with a FIN behind the last byte.
Arriving ==
    LET last == Least(app.limit[2], tcb.RemoteSEQ + FreeSpace(tcb) - 1)
        Carries(b, e, a, f) ==
            [flags |-> f, seq |-> b + 1, ack |-> a.ack, wnd |-> a.wnd,
             data |-> [k \in 1 .. e - b |-> b + k - 1]]
    IN {[flags |-> {"SYN"}, seq |-> 0, ack |-> 0, wnd |-> W, data |-> <<>>]}
       \cup {Carries(b, e, a, {"ACK"}) : b \in 0 .. last, e \in 0 .. last, a \in peer.ads}
       \cup {Carries(b, b, a, {"RST", "ACK"}) : b \in 0 .. last, a \in peer.ads}
       \cup IF ~peer.fin THEN {}
            ELSE {Carries(b, app.limit[2], a, {"FIN", "ACK"}) :
                     b \in 0 .. app.limit[2], a \in peer.ads}
                 \cup {Carries(app.limit[2] + 1, 0, a, {"ACK"}) : a \in peer.ads}

TCPProcess ==
    /\ ~gone /\ ~app.over
    /\ \E m \in Arriving : Becomes(HandleTCPSeg([tcb EXCEPT !.vUnackedKeepalives = 0], m))

-----------------------------------------------------------------------------
(* TCPTick, for what it finds due.  retryInterval is left out: a timer may expire
   at any tick.  A tick that has sent something has also set eventTime anew, so
   its timer does not expire in the same tick, unless retryCount had been rolled
   back so often that retryInterval is zero; that tick is left out. *)

TickTransmit ==
    /\ tcb.bAckDue \/ tcb.bTXASAPWithoutTimerReset
    /\ Becomes(SendTCP(tcb, {"ACK"}, IF tcb.bTXASAPWithoutTimerReset THEN {} ELSE RESET))

TickCloseWait ==
    /\ tcb.smState = "CLOSE_WAIT"
    /\ Becomes(SendTCP([tcb EXCEPT !.smState = "LAST_ACK"], {"FIN", "ACK"},
                       IF tcb.bTXASAPWithoutTimerReset THEN {} ELSE RESET))

\* The connection is idle.
TickKeepAlive ==
    /\ ~tcb.bTimerEnabled /\ tcb.smState = "ESTABLISHED"
    /\ \E once \in {Disconnect(tcb)} :
          Becomes(IF tcb.vUnackedKeepalives = MAX_UNACKED_KEEP_ALIVES
                  THEN Disconnect(once) ELSE SendTCP(tcb, {"ACK"}, KEEP_ALIVE))

\* A slip: a retransmission is not counted.
ResendUncounted(s, flags) == SendTCP(RollBack(s), flags, {})

Resend(s, flags) ==
    LET r == SendTCP([RollBack(s) EXCEPT !.retryCount = (@ + 1) % 256], flags, {})
    IN [r EXCEPT !.resent = IF r.MySEQ # s.MySEQ - Outstanding(s) THEN Least(@ + 1, MAX_RETRIES)
                            ELSE @]

GiveUp(s) == CloseSocket(SendTCP(s, {"RST", "ACK"}, RESET))

Retries == [SYN_RECEIVED |-> MAX_SYN_RETRIES, ESTABLISHED |-> MAX_RETRIES,
            CLOSE_WAIT |-> MAX_RETRIES, FIN_WAIT_1 |-> MAX_RETRIES, CLOSING |-> MAX_RETRIES,
            LAST_ACK |-> MAX_RETRIES, FIN_WAIT_2 |-> 0]

Flags == [SYN_RECEIVED |-> {"SYN", "ACK"}, ESTABLISHED |-> {"ACK"}, CLOSE_WAIT |-> {"ACK"},
          FIN_WAIT_1 |-> {"FIN", "ACK"}, CLOSING |-> {"ACK"}, LAST_ACK |-> {"FIN", "ACK"}]

\* The timer has expired.
TickTimer ==
    /\ tcb.bTimerEnabled
    /\ Becomes(CASE /\ tcb.retryCount < Retries[tcb.smState] /\ tcb.smState # "FIN_WAIT_2"
                      -> Resend(tcb, Flags[tcb.smState])
                 [] tcb.retryCount >= Retries[tcb.smState]
                    /\ tcb.smState \in {"ESTABLISHED", "CLOSE_WAIT"}
                      -> SendTCP([tcb EXCEPT !.smState = "FIN_WAIT_1"], {"FIN", "ACK"}, RESET)
                 [] OTHER -> GiveUp(tcb))

TCPTick == TickTransmit \/ TickCloseWait \/ TickKeepAlive \/ TickTimer

-----------------------------------------------------------------------------
(* The application *)

TCPFlush(s) == IF s.txHead # s.txUnackedTail THEN SendTCP(s, {"ACK"}, RESET) ELSE s

\* A buffer that is getting full is sent first, once.
HalfFull(s, free) ==
    IF ~s.bHalfFullFlush /\ free <= T \div 2
    THEN [TCPFlush(s) EXCEPT !.bHalfFullFlush = TRUE] ELSE s

PutBytes(s, len) ==
    [s EXCEPT !.tx = [p \in DOMAIN s.tx |->
                        IF (p - s.txHead) % T < len THEN app.written + ((p - s.txHead) % T)
                        ELSE s.tx[p]],
              !.txHead = (@ + len) % T]

TCPPutArray(s, len) ==
    LET free == PutReady(s)
        r    == PutBytes(HalfFull(s, free), Least(free, len))
    IN CASE free = 0 -> TCPFlush(s)
         [] free # 0 /\ free <= len -> TCPFlush(r)
         [] OTHER -> [r EXCEPT !.bAckDue = TRUE]

\* The tasks flush, if at all, in the turn in which they put.  On a socket that
\* is not connected no byte is taken, and what waits is flushed.
Put(len, flush) ==
    LET r == TCPPutArray(tcb, len)
    IN /\ tcb.smState # "LISTEN"
       /\ app.written + len <= app.limit[1]
       /\ Step(IF flush THEN TCPFlush(r) ELSE r, Least(PutReady(tcb), len))

\* bTXASAPWithoutTimerReset when half or more of the data is taken.
TCPGetArray(len) ==
    LET ready == GetReady(tcb)
        n     == Least(len, ready)
    IN /\ ready > 0
       /\ tcb' = [tcb EXCEPT !.rxTail = (@ + n) % (R + 1),
                             !.bTXASAPWithoutTimerReset = @ \/ ready - n <= n,
                             !.bAckDue = @ \/ ready - n > n]
       /\ app' = [app EXCEPT !.read = @ \o [k \in 1 .. n |-> tcb.rx[(tcb.rxTail + k - 1) % (R + 1)]]]
       /\ UNCHANGED <<peer, gone>>

TCPDisconnect ==
    /\ tcb.smState # "LISTEN"
    /\ Becomes(Disconnect(tcb))

Application ==
    \/ \E len \in 1 .. 2 : (\E flush \in BOOLEAN : Put(len, flush)) \/ TCPGetArray(len)
    \/ TCPDisconnect

Init ==
    /\ tcb = Closed
    /\ peer = [rcv |-> 1, edge |-> 1 + W, ads |-> {}, fin |-> FALSE, done |-> FALSE]
    /\ \E limit \in Streams :
          app = [limit |-> limit, written |-> 0, read |-> <<>>, wrong |-> {}, over |-> FALSE]
    /\ gone = FALSE

Next == TCPProcess \/ TCPTick \/ Application \/ PeerRead \/ PeerClose \/ PeerGone

Spec == Init /\ [][Next]_vars

\* The main loop calls TCPTick for ever.  Only what happens without the peer
\* depends on it.
FairSpec == Spec /\ WF_vars(gone /\ TCPTick)

-----------------------------------------------------------------------------
\* The application reads the bytes of the peer's stream in order, each once,
\* whatever is lost, duplicated or comes out of order.
ReadsStream == \A k \in DOMAIN app.read : app.read[k] = k - 1

\* Until a FIN is sent, what the peer can accept are the bytes of the
\* application at their places.
SendsStream == FALSE \notin app.wrong

\* A retransmission that also has to repeat the FIN keeps the bytes at their
\* places as well (SendTCP).
ResendsStream == app.wrong = {}

\* What the board acknowledges it has kept for the application.
AcksWhatItHolds ==
    tcb.smState \in {"SYN_RECEIVED", "ESTABLISHED"} =>
        tcb.RemoteSEQ = 1 + Len(app.read) + GetReady(tcb)

\* A connection is not given up for lack of an answer before the data has been
\* sent once more (TCP_MAX_RETRIES).
GivesUpLast ==
    [][TickTimer /\ tcb.smState = "ESTABLISHED" /\ tcb'.smState = "FIN_WAIT_1"
         => tcb.resent > 0]_vars

\* What keeps a socket whose peer is gone: a window that was closed last, as
\* long as something waits for it, and FIN_WAIT_2 without its timer, which an
\* early FIN has stopped.
Silent ==
    \/ tcb.remoteWindow = 0 /\ (tcb.bTimerEnabled \/ tcb.smState # "ESTABLISHED")
    \/ tcb.smState = "FIN_WAIT_2" /\ ~tcb.bTimerEnabled

\* When the peer has gone the socket comes back to LISTEN for the next one,
\* through the retransmissions, the keep-alives or the closing timers (TCPTick),
\* unless it falls silent.
Freed == gone ~> (tcb.smState = "LISTEN" \/ Silent)
=============================================================================
