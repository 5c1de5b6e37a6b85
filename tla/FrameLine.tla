------------------------------ MODULE FrameLine ------------------------------
(***************************************************************************)
(* The serial line of the reader.  First FrameParser of                    *)
(* crates/ccid-transport-serial/src/lib.rs: the byte by byte parser of the *)
(* GemPC serial framing SYNC CTRL header payload LRC, and the frames the   *)
(* reader builds.  The parser is a record and feed a function of it,       *)
(* because the server resets and feeds in one call.  The header keeps its  *)
(* shape (a type, a payload length, a rest) in HeaderLen bytes; the four   *)
(* bytes of dwLength are one.                                              *)
(*                                                                         *)
(* Then the parser behind CcidSerialServer::feed_byte and poll_if_due      *)
(* (crates/ccid-service/src/ccid_serial_server.rs), fed by a host over a   *)
(* line that damages, loses and invents bytes.  quiet stands for a gap of  *)
(* more than INTER_BYTE_STALL_TICKS since the last byte.                   *)
(***************************************************************************)
EXTENDS Naturals, Sequences

CONSTANTS
    Byte,               \* the bytes of the line, naturals
    SYNC, CTRL_ACK, CTRL_NAK,
    NOTIFY,             \* RDR_TO_PC_NOTIFY_SLOT_CHANGE
    HeaderLen,          \* MAX_CCID_HEADER_LEN
    LengthAt,           \* where the header holds the payload length
    MaxPayload,         \* MAX_CCID_PAYLOAD
    Xor(_, _)           \* exclusive or of two bytes

ASSUME FrameAssumption ==
    /\ Byte \subseteq Nat
    /\ {SYNC, CTRL_ACK, CTRL_NAK, NOTIFY, 0} \subseteq Byte
    /\ SYNC \notin {CTRL_ACK, CTRL_NAK, NOTIFY} /\ CTRL_ACK # CTRL_NAK
    /\ HeaderLen \in Nat /\ LengthAt \in 1..HeaderLen
    /\ MaxPayload \in Nat
    /\ \A a, b \in Byte : Xor(a, b) \in Byte

MaxCcid == HeaderLen + MaxPayload
MaxFrame == 2 + MaxCcid + 1

-----------------------------------------------------------------------------

\* calculate_lrc: the exclusive or of all bytes of the frame so far.
Lrc(frame) ==
    LET upTo[n \in 0..Len(frame)] ==
            IF n = 0 THEN 0 ELSE Xor(upTo[n - 1], frame[n])
    IN upTo[Len(frame)]

WithLrc(bytes) == Append(bytes, Lrc(bytes))

\* build_response_frame: the framing of a CCID message in either direction.
Framed(ccid) == WithLrc(<<SYNC, CTRL_ACK>> \o ccid)

-----------------------------------------------------------------------------
(* The parser.  todo counts down the bytes of the part being read:         *)
(* ReadHeader(HeaderLen - todo), ReadPayload(todo).                        *)

States == {"WaitSync", "WaitCtrl", "ReadHeader", "ReadPayload", "CheckLrc"}

Parser == [state : States, todo : Nat, frame : Seq(Byte), received : Seq(Byte),
           ccid : Seq(Byte)]

NewParser == [state |-> "WaitSync", todo |-> 0, frame |-> <<>>,
              received |-> <<>>, ccid |-> <<>>]

MidFrame(p) == p.state # "WaitSync"

\* reset: the snapshot of the last frame goes too.
ResetParser(p) == NewParser

\* A push into a full buffer is lost without a word.
Push(s, byte, capacity) == IF Len(s) < capacity THEN Append(s, byte) ELSE s
PushFrame(p, byte) == [p EXCEPT !.frame = Push(@, byte, MaxFrame)]
PushBoth(p, byte) == [PushFrame(p, byte) EXCEPT !.ccid = Push(@, byte, MaxCcid)]

StartFrame(byte) == [NewParser EXCEPT !.state = "WaitCtrl", !.frame = <<byte>>]

NoEvent == [kind |-> "None"]
Command(ccid) == [kind |-> "Command", ccid |-> ccid]
Error(e) == [kind |-> "Error", error |-> e]

\* finish_with_command and finish_with_error: the frame is kept for the echo
\* while the parser starts over (reset_state).
Finish(p, event) ==
    [parser |-> [NewParser EXCEPT !.received = p.frame], event |-> event]

Continue(p) == [parser |-> p, event |-> NoEvent]

FeedWaitSync(p, byte) ==
    Continue(IF byte = NOTIFY THEN ResetParser(p)
             ELSE IF byte = SYNC THEN StartFrame(byte) ELSE p)

\* Mutant: a stray SYNC is taken for a bad CTRL byte.
BadFeedWaitCtrl(p, byte) ==
    CASE byte = CTRL_ACK -> Continue([PushFrame(p, byte) EXCEPT
                                !.state = "ReadHeader", !.todo = HeaderLen])
      [] byte = CTRL_NAK -> Finish(PushFrame(p, byte), Error("NakReceived"))
      [] OTHER -> Finish(PushFrame(p, byte), Error("InvalidCtrl"))

\* A second SYNC means that the first one was garbage.
FeedWaitCtrl(p, byte) ==
    CASE byte = SYNC -> Continue(StartFrame(byte))
      [] byte = CTRL_ACK -> Continue([PushFrame(p, byte) EXCEPT
                                !.state = "ReadHeader", !.todo = HeaderLen])
      [] byte = CTRL_NAK -> Finish(PushFrame(p, byte), Error("NakReceived"))
      [] OTHER -> Finish(PushFrame(p, byte), Error("InvalidCtrl"))

\* Mutant: the announced length is not checked.
UncheckedFeedHeader(p, byte) ==
    LET q == PushBoth(p, byte)
    IN IF p.todo # 1 THEN Continue([q EXCEPT !.todo = @ - 1])
       ELSE Continue([q EXCEPT !.state = IF q.ccid[LengthAt] = 0 THEN "CheckLrc"
                                         ELSE "ReadPayload",
                               !.todo = q.ccid[LengthAt]])

\* The whole header is needed before the length is looked at; too long a
\* claim is refused there, so that nothing is collected for it.
FeedHeader(p, byte) ==
    LET q == PushBoth(p, byte)
        length == q.ccid[LengthAt]
    IN IF p.todo # 1 THEN Continue([q EXCEPT !.todo = @ - 1])
       ELSE IF length > MaxPayload THEN Finish(q, Error("Overflow"))
       ELSE Continue([q EXCEPT !.state = IF length = 0 THEN "CheckLrc"
                                         ELSE "ReadPayload",
                               !.todo = length])

FeedPayload(p, byte) ==
    LET q == PushBoth(p, byte)
    IN Continue([q EXCEPT !.todo = @ - 1,
                          !.state = IF p.todo = 1 THEN "CheckLrc" ELSE @])

\* The LRC is that of the frame before this byte.
FeedLrc(p, byte) ==
    LET q == PushFrame(p, byte)
    IN IF byte = Lrc(SubSeq(q.frame, 1, Len(q.frame) - 1))
       THEN Finish(q, Command(p.ccid))
       ELSE Finish(q, Error("InvalidLrc"))

Feed(p, byte) ==
    CASE p.state = "WaitSync"    -> FeedWaitSync(p, byte)
      [] p.state = "WaitCtrl"    -> FeedWaitCtrl(p, byte)
      [] p.state = "ReadHeader"  -> FeedHeader(p, byte)
      [] p.state = "ReadPayload" -> FeedPayload(p, byte)
      [] p.state = "CheckLrc"    -> FeedLrc(p, byte)

\* received_frame_bytes: what the server echoes.
ReceivedFrame(p) == IF p.received = <<>> THEN p.frame ELSE p.received

-----------------------------------------------------------------------------
(* The line *)

CONSTANTS
    HostCommands    \* the CCID messages the host sends

ASSUME LineAssumption ==
    \A c \in HostCommands :
        c \in Seq(Byte) /\ Len(c) >= HeaderLen /\ Len(c) = HeaderLen + c[LengthAt]

VARIABLES
    parser,
    event,      \* what the last byte gave
    quiet,
    cur, rest,  \* the host's frame and what of it is still to come
    whole,      \* history: nothing has happened to cur, and the parser was
                \* not inside another frame's header or payload when it began
    tape        \* history: the last MaxFrame bytes that arrived

lineVars == <<parser, event, quiet, cur, rest, whole, tape>>

LineInit ==
    /\ parser = NewParser /\ event = NoEvent /\ quiet = FALSE
    /\ cur = <<>> /\ rest = <<>> /\ whole = FALSE /\ tape = <<>>

Last(s, n) == IF Len(s) <= n THEN s ELSE SubSeq(s, Len(s) - n + 1, Len(s))

\* feed_byte up to the parser's verdict: a byte after a gap begins anew.
FeedByte(byte) ==
    /\ LET fed == Feed(IF quiet THEN ResetParser(parser) ELSE parser, byte)
       IN parser' = fed.parser /\ event' = fed.event
    /\ quiet' = FALSE
    /\ tape' = Last(Append(tape, byte), MaxFrame)

\* Mutant: the idle tick leaves the partial frame.
BadStallReset == parser' = parser

\* The head of poll_if_due, run on every idle tick of a serve loop.
StallReset == parser' = IF MidFrame(parser) THEN ResetParser(parser) ELSE parser

IdleTick ==
    /\ quiet
    /\ StallReset
    /\ event' = NoEvent
    /\ UNCHANGED <<quiet, cur, rest, whole, tape>>

-----------------------------------------------------------------------------
(* The host and the line *)

HostStart ==
    /\ rest = <<>>
    /\ \E c \in HostCommands : cur' = Framed(c) /\ rest' = Framed(c)
    /\ whole' = (quiet \/ parser.state \in {"WaitSync", "WaitCtrl"})
    /\ event' = NoEvent
    /\ UNCHANGED <<parser, quiet, tape>>

Deliver ==
    /\ rest # <<>> /\ FeedByte(Head(rest))
    /\ rest' = Tail(rest) /\ UNCHANGED <<cur, whole>>

Damage ==
    /\ rest # <<>>
    /\ \E byte \in Byte \ {Head(rest)} : FeedByte(byte)
    /\ rest' = Tail(rest) /\ whole' = FALSE /\ UNCHANGED cur

Lose ==
    /\ rest # <<>>
    /\ rest' = Tail(rest) /\ whole' = FALSE
    /\ event' = NoEvent /\ UNCHANGED <<parser, quiet, cur, tape>>

Noise ==
    /\ rest = <<>>
    /\ \E byte \in Byte : FeedByte(byte)
    /\ cur' = <<>> /\ whole' = FALSE /\ UNCHANGED rest

\* No byte for a while: a frame that had begun is given up.
LineQuiet ==
    /\ ~quiet /\ quiet' = TRUE
    /\ event' = NoEvent
    /\ IF rest = cur THEN UNCHANGED <<cur, rest, whole>>
       ELSE cur' = <<>> /\ rest' = <<>> /\ whole' = FALSE
    /\ UNCHANGED <<parser, tape>>

LineNext ==
    \/ HostStart \/ Deliver \/ Damage \/ Lose \/ Noise \/ LineQuiet \/ IdleTick

LineSpec == LineInit /\ [][LineNext]_lineVars /\ WF_lineVars(IdleTick)

-----------------------------------------------------------------------------
(* Properties *)

LineTypeOK ==
    /\ parser \in Parser
    /\ event.kind \in {"None", "Command", "Error"}
    /\ quiet \in BOOLEAN /\ whole \in BOOLEAN
    /\ cur \in Seq(Byte) /\ rest \in Seq(Byte) /\ tape \in Seq(Byte)

\* What the parser holds in each state: the frame and the message it
\* collects in two buffers never drift apart, and the bytes still to come
\* are those the header announced.
Sound(p) ==
    /\ p.state = "WaitSync" => p.frame = <<>> /\ p.ccid = <<>>
    /\ p.state = "WaitCtrl" => p.frame = <<SYNC>> /\ p.ccid = <<>>
    /\ p.state \in {"ReadHeader", "ReadPayload", "CheckLrc"}
         => p.frame = <<SYNC, CTRL_ACK>> \o p.ccid
    /\ p.state = "ReadHeader"
         => p.todo \in 1..HeaderLen /\ Len(p.ccid) = HeaderLen - p.todo
    /\ p.state \in {"ReadPayload", "CheckLrc"}
         => /\ Len(p.ccid) + p.todo = HeaderLen + p.ccid[LengthAt]
            /\ p.ccid[LengthAt] \in 0..MaxPayload
    /\ p.state = "ReadPayload" => p.todo \in 1..p.ccid[LengthAt]
    /\ p.state = "CheckLrc" => p.todo = 0

\* A command is exactly what its frame says: the message has the announced
\* length, and the frame kept for the echo is the framing of that message,
\* although every push into the buffers may drop a byte silently; and those
\* bytes just arrived in that order: resets and stray SYNC bytes never splice
\* two pieces of the line together.
EchoIsTheFrame ==
    event.kind = "Command" =>
        /\ Len(event.ccid) = HeaderLen + event.ccid[LengthAt]
        /\ Len(event.ccid) <= MaxCcid
        /\ ReceivedFrame(parser) = Framed(event.ccid)
        /\ Last(tape, Len(parser.received)) = parser.received

\* A frame that arrives whole is heard, whatever garbage came before it, as
\* long as a gap or the parser's own verdict ended that garbage or it was a
\* stray SYNC ("fuzz-proven desync", "fuzz-proven" stall).
WholeFrameIsHeard ==
    whole /\ cur # <<>> /\ rest = <<>> /\ cur[2 + LengthAt] <= MaxPayload
        => event.kind = "Command" /\ parser.received = cur

\* On a silent line a partial frame is dropped: a lone SYNC does not hold
\* the parser until the host's next command.
StalledFrameIsDropped ==
    (quiet /\ MidFrame(parser)) ~> (~MidFrame(parser) \/ ~quiet)
=============================================================================
