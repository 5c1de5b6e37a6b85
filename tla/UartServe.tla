------------------------------ MODULE UartServe ------------------------------
(***************************************************************************)
(* serve_uart and serve_byte of firmware/esp32-ccid/src/main.rs: the serve *)
(* loop of the UART readers.  A blocking read of one byte, then a drain of *)
(* what queued behind the handler, each byte judged from a floor below its *)
(* arrival.                                                                *)
(***************************************************************************)
EXTENDS SerialServer

ASSUME UartAssumption == PollInterval + ReadTimeout + 2 * MaxWork < Modulus

VARIABLES
    origin,     \* age of the floor of the byte being served (read_start)
    pre,        \* age of pre_dispatch
    switched,   \* toggles with every change of the line rate
    garbled     \* history: a malformed frame came since the last poll

uartOwn == <<origin, pre, switched, garbled>>

UartInit ==
    /\ origin = 0 /\ pre = 0
    /\ switched = FALSE /\ garbled = FALSE

Polled == srv'.poll_age = 0 /\ srv.poll_age # 0
NoteGarbage == garbled' = (garbled /\ ~Polled)

\* The blocking read returns the completing byte, or an earlier byte with
\* the completing one drained right after it.
ReadFirst ==
    /\ phase = "read" /\ rx # <<>>
    /\ StartCommand(Head(rx)) /\ rx' = Tail(rx)
    /\ origin' \in {origin, 0} /\ pre' = 0
    /\ NoteGarbage /\ UNCHANGED <<card, switched>>

\* Mutant: drained commands are judged from the drain.
LateDrain ==
    /\ phase = "post" /\ rx # <<>>
    /\ StartCommand(Head(rx)) /\ rx' = Tail(rx)
    /\ origin' = 0
    /\ NoteGarbage /\ UNCHANGED <<card, pre, switched>>

\* The drain: what queued behind this iteration's first dispatch.
Drain ==
    /\ phase = "post" /\ rx # <<>>
    /\ StartCommand(Head(rx)) /\ rx' = Tail(rx)
    /\ origin' = pre
    /\ NoteGarbage /\ UNCHANGED <<card, pre, switched>>

DrainEnds ==
    /\ phase = "post" /\ rx = <<>>
    /\ phase' = "read" /\ origin' = 0
    /\ UNCHANGED <<transport, srv, te, card, rx, cur, worked, wire, pre, garbled, switched>>

\* A malformed frame: record_nak and the NAK frame, nothing else; the read
\* starts over.
BadFrame ==
    /\ phase = "read"
    /\ origin' = 0 /\ garbled' = TRUE
    /\ UNCHANGED <<serverVars, pre, switched>>

\* serve_byte, a response past the host's window.
DropLate ==
    LET s == RefreshHostDeadline(srv, origin)
    IN /\ phase = "flush" /\ ResponseExpired(s)
       /\ srv' = PollAndStash(RecordLateResponse(s))
       /\ phase' = "post"
       /\ NoteGarbage
       /\ UNCHANGED <<transport, te, card, rx, cur, worked, wire, origin, pre, switched>>

\* Mutant: without the second poll.
UnpolledAfterWrite(s, sent) ==
    LET done == [s EXCEPT !.baud = FALSE]
    IN /\ switched' = (IF s.baud /\ sent THEN ~switched ELSE switched)
       /\ srv' = [done EXCEPT !.snapshot = FALSE]
       /\ phase' = IF s.snapshot THEN "down" ELSE "post"

\* Mutant: the rate changes although the acknowledgement may not be out.
EagerAfterWrite(s, sent) ==
    LET done == PollIfDue([s EXCEPT !.baud = FALSE])
    IN /\ switched' = (IF s.baud THEN ~switched ELSE switched)
       /\ srv' = PollAndStash([done EXCEPT !.snapshot = FALSE])
       /\ phase' = IF s.snapshot THEN "down" ELSE "post"

\* serve_byte after the writes: the latched rate is used up and takes
\* effect only if all went out; then the presence poll, the panic a
\* snapshot asked for, and the stashing poll.
AfterWrite(s, sent) ==
    LET done == PollIfDue([s EXCEPT !.baud = FALSE])
    IN /\ switched' = (IF s.baud /\ sent THEN ~switched ELSE switched)
       /\ srv' = PollAndStash([done EXCEPT !.snapshot = FALSE])
       /\ phase' = IF s.snapshot THEN "down" ELSE "post"

\* A piece whose write fails is lost; the ones after it are written all the
\* same, and the drain may fail too.
Pieces == {"echo", "notify", "response"}

Flush ==
    LET s == RefreshHostDeadline(srv, origin)
    IN /\ phase = "flush" /\ ~ResponseExpired(s)
       /\ \E lost \in SUBSET Pieces, drained \in BOOLEAN :
             /\ wire' = wire \o Written(s, lost)
             /\ AfterWrite(s, lost = {} /\ drained)
       /\ NoteGarbage
       /\ UNCHANGED <<transport, te, card, rx, cur, worked, origin, pre>>

\* The read timed out: on_read_idle.
ReadIdle ==
    /\ phase = "read" /\ rx = <<>> /\ origin = ReadTimeout
    /\ srv' = PollAndStash(srv) /\ origin' = 0
    /\ NoteGarbage
    /\ UNCHANGED <<transport, te, card, rx, cur, phase, worked, wire, pre, switched>>

\* The blocking read returns at the first byte or at its timeout.  Bound: no
\* drain lasts as long as the tick counter takes to wrap.
UartTick ==
    /\ Tick
    /\ phase = "read" => rx = <<>> /\ origin < ReadTimeout
    /\ phase = "work" => origin < Modulus - 1
    /\ origin' = Older(origin) /\ pre' = Older(pre)
    /\ UNCHANGED <<switched, garbled>>

\* No UART build registers a time-extension writer.
UartSurroundings ==
    /\ HostSends \/ CardMoves \/ FinishCommand
    /\ UNCHANGED uartOwn

UartNext ==
    \/ ReadFirst \/ Drain \/ DrainEnds \/ BadFrame \/ DropLate \/ Flush \/ ReadIdle
    \/ UartTick \/ UartSurroundings

-----------------------------------------------------------------------------
(* Properties *)

\* The line rate changes only right after the acknowledgement of the command
\* that asked for it went out whole, and a dropped or failed one never takes
\* effect later.
RateFollowsAck ==
    [][switched' # switched => cur.class = "Baud" /\ Answered']_<<serverVars, uartOwn>>

\* Presence is polled at the interval although the host keeps the line busy:
\* only a line of malformed frames holds the poll off.
PresenceIsPolled ==
    transport = "uart" /\ srv.poll_age > PollInterval + ReadTimeout + MaxWork => garbled

\* A notification announces what the handler now believes: the doc of
\* poll_if_due_after_response says that transitions ride the next command
\* window via pending_notify.
NotifyIsCurrent ==
    phase = "flush" /\ srv.notify # None
        => srv.notify = IF srv.known THEN "present" ELSE "absent"
=============================================================================
