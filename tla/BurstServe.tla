----------------------------- MODULE BurstServe -----------------------------
(***************************************************************************)
(* The serve loops of tcp_server.rs and cdc_burst.rs (crates/ccid-service/ *)
(* src): a read returns a burst of queued bytes, all of them judged from   *)
(* the arrival floor, which advances only when the read was short, so that *)
(* nothing older can still be queued.  First what the loops share, then    *)
(* the loop of each.                                                       *)
(***************************************************************************)
EXTENDS SerialServer

CONSTANTS IdleClose     \* idle_close_ticks

ASSUME TcpAssumption == IdleClose \in Nat \ {0}

VARIABLES
    floor,      \* age of arrival_floor
    read_end,   \* age of the last read's return
    taken,      \* commands at the head of rx that the last read returned
    full,       \* that read filled the buffer
    waited,     \* ticks spent in the blocking read
    anchored    \* history: the floor the current command was judged from

VARIABLES       \* of the TCP loop alone
    session,    \* a client is being served
    idle_ticks,
    broken      \* a write to the client failed

burstVars == <<floor, read_end, taken, full, waited, anchored>>

tcpOwn == <<session, idle_ticks, broken>>

BurstInit ==
    /\ floor = 0 /\ read_end = 0 /\ taken = 0 /\ full = FALSE /\ waited = 0
    /\ anchored = 0

ReadBurst ==
    /\ phase = "read" /\ rx # <<>>
    /\ taken' \in 1..Len(rx)
    /\ full' \in BOOLEAN /\ (taken' < Len(rx) => full')
    /\ read_end' = 0 /\ waited' = 0 /\ phase' = "post"
    /\ UNCHANGED <<transport, srv, te, card, rx, cur, worked, wire, floor, anchored>>

FeedNext ==
    /\ phase = "post" /\ taken > 0
    /\ StartCommand(Head(rx))
    /\ rx' = Tail(rx) /\ taken' = taken - 1
    /\ UNCHANGED <<card, floor, read_end, full, waited, anchored>>

\* The floor after a burst.
AdvanceFloor == floor' = IF full THEN floor ELSE read_end

\* The response as the write site judges it.
Judged == RefreshHostDeadline(srv, floor)

DropLateBurst ==
    /\ phase = "flush" /\ ResponseExpired(Judged)
    /\ srv' = RecordLateResponse(Judged)
    /\ phase' = "post" /\ anchored' = floor
    /\ UNCHANGED <<transport, te, card, rx, cur, worked, wire, floor, read_end, taken, full, waited>>

\* Bound: the floor, and the read_end that may become it, are never older than
\* the tick counter takes to wrap.
BurstTick ==
    /\ Tick
    /\ phase = "read" => rx = <<>> /\ waited < ReadTimeout
    /\ floor < Modulus - 1
    /\ phase = "work" /\ ~full => read_end < Modulus - 1
    /\ waited' = IF phase = "read" THEN waited + 1 ELSE waited
    /\ floor' = Older(floor) /\ read_end' = Older(read_end)
    /\ UNCHANGED <<taken, full, anchored>>

BurstSurroundings ==
    /\ HostSends \/ CardMoves \/ StallHook \/ FinishCommand
    /\ UNCHANGED burstVars

-----------------------------------------------------------------------------
(* CdcBurstServe::serve_once of cdc_burst.rs, run forever by firmware/     *)
(* esp32-ccid/src/pn7160_ccid.rs: the USB-CDC reader.                      *)

CdcBurstEnds ==
    /\ phase = "post" /\ taken = 0
    /\ AdvanceFloor /\ phase' = "read"
    /\ UNCHANGED <<transport, srv, te, card, rx, cur, worked, wire, read_end, taken, full, waited,
                   anchored>>

\* A read without data proves that the ring drained.
CdcIdle ==
    /\ phase = "read" /\ rx = <<>> /\ waited = ReadTimeout
    /\ waited' = 0 /\ floor' = 0
    /\ srv' = PollIfDue(srv)
    /\ UNCHANGED <<transport, te, card, rx, cur, phase, worked, wire, read_end, taken, full,
                   anchored>>

\* Frames are written until one fails; a snapshot request stops the burst
\* and makes the caller panic.
CdcFlush ==
    /\ phase = "flush" /\ ~ResponseExpired(Judged)
    /\ \E n \in 0..Len(Output(Judged)) :
          wire' = wire \o SubSeq(Output(Judged), 1, n)
    /\ srv' = [Judged EXCEPT !.snapshot = FALSE]
    /\ phase' = IF srv.snapshot THEN "down" ELSE "post"
    /\ anchored' = floor
    /\ UNCHANGED <<transport, te, card, rx, cur, worked, floor, read_end, taken, full, waited>>

CdcNext ==
    \/ ReadBurst \/ FeedNext \/ CdcBurstEnds \/ CdcIdle \/ DropLateBurst \/ CdcFlush
    \/ BurstTick \/ BurstSurroundings
-----------------------------------------------------------------------------
(* serve_session of tcp_server.rs and the accept loop around it in         *)
(* firmware/esp32-ccid/src/wifi_ccid.rs: one client at a time, dropped     *)
(* when it closes, fails or is silent for IdleClose read timeouts.  The    *)
(* server outlives its sessions.                                           *)

TcpInit ==
    /\ session = FALSE /\ idle_ticks = 0 /\ broken = FALSE

\* The accept loop takes the next client; its session starts with a floor of
\* its own and nothing read.
Accept ==
    /\ ~session /\ phase = "read"
    /\ session' = TRUE /\ idle_ticks' = 0 /\ broken' = FALSE
    /\ floor' = 0 /\ read_end' = 0 /\ taken' = 0 /\ full' = FALSE /\ waited' = 0
    /\ rx' = <<>> /\ cur' = NoCmd /\ wire' = <<>>
    /\ UNCHANGED <<transport, srv, te, card, phase, worked, anchored>>

\* ClientClosed, ReadError: found by a read.
SessionLost ==
    /\ session /\ phase = "read"
    /\ session' = FALSE
    /\ rx' = <<>> /\ cur' = NoCmd /\ wire' = <<>> /\ waited' = 0
    /\ UNCHANGED <<transport, srv, te, card, phase, worked, floor, read_end, taken, full,
                   anchored, idle_ticks, broken>>

\* The tail of every iteration that goes on: the mute recovery hook (the
\* driver's) and the presence poll.
LoopTail == srv' = PollIfDue(srv) /\ phase' = "read"

TcpRead ==
    /\ session /\ ~broken /\ ReadBurst
    /\ idle_ticks' = 0 /\ UNCHANGED <<session, broken>>

TcpFeed == FeedNext /\ UNCHANGED <<session, idle_ticks, broken>>

TcpBurstEnds ==
    /\ phase = "post" /\ taken = 0
    /\ AdvanceFloor /\ LoopTail
    /\ UNCHANGED <<transport, te, card, rx, cur, worked, wire, read_end, taken, full, waited,
                   anchored, session, idle_ticks, broken>>

\* A read timeout proves that nothing is queued; the last one of a silent
\* client closes the session.
TcpIdle ==
    /\ session /\ phase = "read" /\ rx = <<>> /\ waited = ReadTimeout
    /\ idle_ticks' = idle_ticks + 1 /\ waited' = 0
    /\ IF idle_ticks' >= IdleClose
       THEN session' = FALSE /\ UNCHANGED <<srv, phase, floor>>
       ELSE LoopTail /\ floor' = 0 /\ UNCHANGED session
    /\ UNCHANGED <<transport, te, card, rx, cur, worked, wire, read_end, taken, full, anchored,
                   broken>>

TcpDropLate == DropLateBurst /\ UNCHANGED <<session, idle_ticks, broken>>

\* The echo and the response, then the panic of a snapshot.
TcpFlush ==
    /\ phase = "flush" /\ ~ResponseExpired(Judged)
    /\ wire' = wire \o Output(Judged)
    /\ srv' = [Judged EXCEPT !.snapshot = FALSE]
    /\ phase' = IF srv.snapshot THEN "down" ELSE "post"
    /\ anchored' = floor
    /\ UNCHANGED <<transport, te, card, rx, cur, worked, floor, read_end, taken, full, waited,
                   session, idle_ticks, broken>>

\* A write fails: the rest of the burst is abandoned, and the next read will
\* find the stream broken.
TcpFlushFails ==
    /\ phase = "flush" /\ ~ResponseExpired(Judged)
    /\ \E n \in 0..(Len(Output(Judged)) - 1) :
          wire' = wire \o SubSeq(Output(Judged), 1, n)
    /\ srv' = Judged /\ phase' = "post" /\ anchored' = floor
    /\ rx' = SubSeq(rx, taken + 1, Len(rx)) /\ taken' = 0
    /\ broken' = TRUE
    /\ UNCHANGED <<transport, te, card, cur, worked, floor, read_end, full, waited, session,
                   idle_ticks>>

TcpTick ==
    /\ BurstTick /\ session
    /\ UNCHANGED <<session, idle_ticks, broken>>

TcpSurroundings ==
    /\ session /\ BurstSurroundings /\ UNCHANGED <<session, idle_ticks, broken>>

TcpNext ==
    \/ Accept \/ SessionLost \/ TcpRead \/ TcpFeed \/ TcpBurstEnds \/ TcpIdle
    \/ TcpDropLate \/ TcpFlush \/ TcpFlushFails \/ TcpTick \/ TcpSurroundings

-----------------------------------------------------------------------------
(* Properties common to both loops *)

\* The server grows the window of an exchange by a window per interim frame,
\* so that the final response is not "self-dropped while the host still
\* waits" (time_extension::EXTENSIONS_WRITTEN).
InterimCount == LET interim(x) == x = "interim" IN Len(SelectSeq(wire, interim))

ExtendedWindowIsHonoured ==
    [][transport # "uart" /\ phase = "flush" /\ srv'.resp = None
         => anchored' > WindowOf[cur.class] * (1 + InterimCount)]_<<serverVars, burstVars>>
=============================================================================
