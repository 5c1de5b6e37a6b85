---------------------------- MODULE SerialServer ----------------------------
(***************************************************************************)
(* CcidSerialServer<D> of crates/ccid-service/src/ccid_serial_server.rs:   *)
(* the answer-or-silence windows, the time-extension bridge, the presence  *)
(* polls and the notifications of the GemPC serial reader, with the host   *)
(* it answers.  The serve loops that drive it are in UartServe and         *)
(* BurstServe.                                                             *)
(*                                                                         *)
(* Ticks are u32 and wrap.  Only differences to the current tick are ever  *)
(* compared, so the server's stamps are kept as ages modulo Modulus; the   *)
(* host's own age of a command does not wrap (it stops at AgeCap).  A      *)
(* command is one unit that arrives with its completing byte (the bytes    *)
(* are FrameLine's).  Writing takes no time; working takes up to MaxWork.  *)
(***************************************************************************)
EXTENDS Naturals, Sequences

CONSTANTS
    Modulus,            \* 2^32
    WindowOf,           \* ResponseWindows: ticks per class of command
    HostWindow,         \* how long the host really waits, per class
    PollInterval,       \* poll_interval_ticks
    ReadTimeout,        \* ticks of one blocking read
    HostClasses,        \* the classes of command the host sends
    MaxWork,            \* bound: ticks process_command takes
    MaxStalls,          \* bound: interim frames of one exchange
    MaxRx,              \* bound: commands in the receive buffer
    AgeCap              \* where the host's ages stop: it has given up

Classes == {"GetSlotStatus", "XfrBlock", "IccPowerOn", "Snapshot", "Baud"}

ASSUME ServerAssumption ==
    /\ Modulus \in Nat \ {0} /\ HostClasses \subseteq Classes
    /\ WindowOf \in [Classes -> Nat \ {0}]
    /\ HostWindow \in [Classes -> Nat]
    /\ \A c \in Classes : WindowOf[c] < HostWindow[c]
    /\ \A c \in Classes : HostWindow[c] * 2^MaxStalls < AgeCap
    /\ AgeCap < Modulus
    /\ PollInterval \in Nat \ {0} /\ MaxWork \in Nat /\ MaxStalls \in Nat
    /\ MaxRx \in Nat /\ AgeCap \in Nat
    /\ ReadTimeout \in Nat \ {0}

VARIABLES
    transport,  \* which serve loop: "uart", "tcp" or "cdc"
    srv,        \* the CcidSerialServer
    te,         \* time_extension: armed, echo flushed, frames written
    card,       \* a card is in the field
    rx,         \* commands in the receive buffer, oldest first
    cur,        \* the command the server is at
    phase,      \* "read", "work", "flush", "post" or "down" (panicked)
    worked,     \* ticks spent in process_command
    wire        \* what this exchange has written

serverVars == <<transport, srv, te, card, rx, cur, phase, worked, wire>>

None == "none"
NoCmd == [class |-> None, age |-> 0, grown |-> 1]
Cmd(class) == [class |-> class, age |-> 0, grown |-> 1]

\* The profile of the loop: notifications without polls above a pending
\* response for the UART, the reverse elsewhere; only the loops whose driver
\* stalls register a writer for interim frames; only the UART mains enable
\* the baud escape, which is refused elsewhere.
NotifySlotChange == transport = "uart"
InlinePoll == transport # "uart"
HasWriter == transport # "uart"
BaudEscapeEnabled == transport = "uart"

\* The host's readTimeout doubles with each interim frame (bError = 2).
HostWaits(c) == c.class # None /\ c.age <= HostWindow[c.class] * c.grown

-----------------------------------------------------------------------------
(* The server's calls, as functions of its state *)

\* with_config: the stamps are the boot tick.
NewServer == [frame_age |-> 0, window |-> WindowOf["Baud"], poll_age |-> 0,
              echo |-> FALSE, notify |-> None, resp |-> None,
              pending_notify |-> None, late_drops |-> 0,
              known |-> FALSE, snapshot |-> FALSE, baud |-> FALSE]

Older(age) == (age + 1) % Modulus
Elapse(s) == [s EXCEPT !.frame_age = Older(@), !.poll_age = Older(@)]

\* poll_due, which also stamps the poll.
PollDue(s) == s.poll_age >= PollInterval

\* check_card_change of the handler: a transition is reported once.
CheckCardChange(s) == [s EXCEPT !.known = card]
Transition(s) == s.known # card
Presence == IF card THEN "present" ELSE "absent"

\* poll_if_due: the transition it may find is not kept.
PollIfDue(s) == IF PollDue(s) THEN [CheckCardChange(s) EXCEPT !.poll_age = 0] ELSE s

\* poll_and_stash, by on_read_idle and poll_if_due_after_response.
PollAndStash(s) ==
    IF ~PollDue(s) THEN s
    ELSE [CheckCardChange(s) EXCEPT
             !.poll_age = 0,
             !.pending_notify = IF Transition(s) THEN Presence ELSE @]

\* feed_byte up to process_command: the window, the echo and, for
\* GetSlotStatus, the notification that rides between echo and response.
Dispatch(s, class) ==
    LET t == [s EXCEPT !.frame_age = 0, !.window = WindowOf[class],
                       !.echo = TRUE, !.notify = None, !.resp = None]
        polls == InlinePoll /\ PollDue(s)
        told == IF polls /\ Transition(s) THEN Presence ELSE s.pending_notify
        u == [t EXCEPT !.pending_notify = None,
                       !.notify = IF NotifySlotChange THEN told ELSE None]
    IN IF class # "GetSlotStatus" THEN t
       ELSE IF polls THEN [CheckCardChange(u) EXCEPT !.poll_age = 0] ELSE u

\* Mutant: the server writes its own echo after the hook's.
DoubleEchoComplete(s, class, emitted) ==
    [s EXCEPT !.resp = class,
              !.snapshot = @ \/ class = "Snapshot",
              !.baud = @ \/ (class = "Baud" /\ BaudEscapeEnabled),
              !.frame_age = (@ + Modulus - ((s.window * emitted) % Modulus)) % Modulus]

\* feed_byte after process_command (which may have latched a snapshot or a
\* baud change): interim frames suppress the echo and push frame_done_tick
\* forward by a window each (extend_response_deadline).
Complete(s, class, emitted) ==
    [s EXCEPT !.resp = class,
              !.snapshot = @ \/ class = "Snapshot",
              !.baud = @ \/ (class = "Baud" /\ BaudEscapeEnabled),
              !.echo = @ /\ emitted = 0,
              !.frame_age = (@ + Modulus - ((s.window * emitted) % Modulus)) % Modulus]

\* refresh_host_deadline: re-anchor at a tick that lies floor ticks back.
RefreshHostDeadline(s, floor) == [s EXCEPT !.frame_age = floor]

ResponseExpired(s) == s.frame_age > s.window

\* Mutant: the latches survive the response they belong to.
BadRecordLateResponse(s) ==
    [s EXCEPT !.echo = FALSE, !.notify = None, !.resp = None,
              !.late_drops = IF @ < 1 THEN @ + 1 ELSE @]

\* record_late_response: everything that hung on the response goes with it.
RecordLateResponse(s) ==
    [s EXCEPT !.echo = FALSE, !.notify = None, !.resp = None,
              !.late_drops = IF @ < 1 THEN @ + 1 ELSE @,
              !.snapshot = FALSE, !.baud = FALSE]

-----------------------------------------------------------------------------
(* time_extension *)

Disarmed == [armed |-> FALSE, flushed |-> FALSE, written |-> 0]

Arm(class) ==
    IF HasWriter /\ class = "XfrBlock"
    THEN [armed |-> TRUE, flushed |-> FALSE, written |-> 0] ELSE te

\* stall_hook, run by the driver inside the exchange: the echo first, once,
\* then the interim frame, which makes the host wait longer.
StallHook ==
    /\ phase = "work" /\ te.armed /\ te.written < MaxStalls
    /\ te' = [te EXCEPT !.flushed = TRUE, !.written = @ + 1]
    /\ wire' = wire \o (IF te.flushed THEN <<>> ELSE <<"echo">>) \o <<"interim">>
    /\ cur' = IF HostWaits(cur) THEN [cur EXCEPT !.grown = 2 * @] ELSE cur
    /\ UNCHANGED <<transport, srv, card, rx, phase, worked>>

-----------------------------------------------------------------------------
(* The serve loop takes a command from the receive buffer (feed_byte up to *)
(* the exchange), and the exchange ends.                                   *)

StartCommand(c) ==
    /\ UNCHANGED transport
    /\ cur' = c /\ phase' = "work" /\ worked' = 0 /\ wire' = <<>>
    /\ srv' = Dispatch(srv, c.class)
    /\ te' = Arm(c.class)

FinishCommand ==
    /\ phase = "work" /\ phase' = "flush"
    /\ srv' = Complete(srv, cur.class, IF te.armed THEN te.written ELSE 0)
    /\ te' = IF te.armed THEN Disarmed ELSE te
    /\ UNCHANGED <<transport, card, rx, cur, worked, wire>>

\* What a write site puts on the wire, in this order; the pieces in lost are
\* the ones whose write fails.
Piece(p, lost) == IF p \in lost THEN <<>> ELSE <<p>>
Written(s, lost) == (IF s.echo THEN Piece("echo", lost) ELSE <<>>)
                    \o (IF s.notify # None THEN Piece("notify", lost) ELSE <<>>)
                    \o Piece("response", lost)
Output(s) == Written(s, {})

-----------------------------------------------------------------------------
(* The surroundings.  A host has one command at a time: it sends the next  *)
(* when it got an answer or gave up waiting for one.                       *)

Answered == wire # <<>> /\ wire[Len(wire)] = "response"

HostIsFree ==
    /\ \A i \in DOMAIN rx : ~HostWaits(rx[i])
    /\ Answered \/ ~HostWaits(cur)

\* Where the baud escape is refused it is an escape like any other.
HostSends ==
    /\ phase # "down" /\ HostIsFree /\ Len(rx) < MaxRx
    /\ \E class \in HostClasses :
          /\ class = "Baud" => BaudEscapeEnabled
          /\ rx' = Append(rx, Cmd(class))
    /\ UNCHANGED <<transport, srv, te, card, cur, phase, worked, wire>>

CardMoves ==
    /\ phase # "down" /\ card' = ~card
    /\ UNCHANGED <<transport, srv, te, rx, cur, phase, worked, wire>>

Age(c) == IF c.class = None \/ c.age = AgeCap THEN c ELSE [c EXCEPT !.age = @ + 1]

\* One tick, in the blocking read or in the handler.
Tick ==
    /\ phase = "read" \/ (phase = "work" /\ worked < MaxWork)
    /\ worked' = IF phase = "work" THEN worked + 1 ELSE worked
    /\ srv' = Elapse(srv)
    /\ rx' = [i \in DOMAIN rx |-> Age(rx[i])]
    /\ cur' = Age(cur)
    /\ UNCHANGED <<transport, te, card, phase, wire>>

ServerInit ==
    /\ transport \in {"uart", "tcp", "cdc"}
    /\ srv = NewServer /\ te = Disarmed /\ card = FALSE
    /\ rx = <<>> /\ cur = NoCmd /\ phase = "read" /\ worked = 0 /\ wire = <<>>

ServerTypeOK ==
    /\ srv.frame_age \in 0..(Modulus - 1) /\ srv.poll_age \in 0..(Modulus - 1)
    /\ srv.window \in {WindowOf[c] : c \in Classes}
    /\ {srv.echo, srv.known, srv.snapshot, srv.baud, card} \subseteq BOOLEAN
    /\ {srv.notify, srv.pending_notify} \subseteq {None, "present", "absent"}
    /\ srv.resp \in Classes \cup {None}
    /\ te \in [armed : BOOLEAN, flushed : BOOLEAN, written : 0..MaxStalls]
    /\ Len(rx) <= MaxRx
    /\ phase \in {"read", "work", "flush", "post", "down"}

-----------------------------------------------------------------------------
(* Properties common to the serve loops *)

\* A response leaves only while the host still waits for that command: a
\* command that queued behind a slow handler is not answered as if it had
\* just arrived.
AnswersAreAwaited == [][Answered' /\ ~Answered => HostWaits(cur)]_serverVars

\* The host parser takes one frame as the echo and has no resynchronisation
\* mid-stream: whatever reaches the wire in an exchange begins with exactly
\* one echo, and the response is the last thing written.  (The UART loop goes
\* on after a failed write, so that there the echo alone may be missing.)
WireOrder ==
    /\ wire # <<>> => wire[1] = "echo" \/ transport = "uart"
    /\ \A i \in DOMAIN wire :
          /\ wire[i] = "echo" => i = 1
          /\ wire[i] = "notify" => i = 1 \/ wire[i - 1] = "echo"
          /\ wire[i] = "response" => i = Len(wire)
=============================================================================
