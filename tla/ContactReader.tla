---------------------------- MODULE ContactReader ----------------------------
(***************************************************************************)
(* The STM32 USB reader of firmware/ccid-firmware/src: the bulk transport  *)
(* (CcidClass, ccid.rs), the message reassembly and busy gate around the   *)
(* shared handler (CcidMessageHandler, ccid_core.rs), and the main loop    *)
(* with its PIN entry mode and application enumeration (main.rs,           *)
(* app_enum.rs), between a USB host and a card slot.                       *)
(*                                                                         *)
(* Bytes are counted in packets: a command is one packet, an XfrBlock two; *)
(* a response is one or three packets, the last one short or full. The      *)
(* second packet of an XfrBlock is payload; read as a header, when the     *)
(* reader has lost its place, it is one of Junk.  The command handler is   *)
(* CcidCore's, reduced to what the transport depends on: the slot, the     *)
(* armed PIN session and the length of its answers.                        *)
(***************************************************************************)
EXTENDS Naturals, Sequences

CONSTANTS
    Cards, NoCard,
    PinPads,        \* whether the vendor id may be the PIN pad's
    SeqMod,         \* bSeq counts modulo this
    RxPackets,      \* packets that fit in rx_buffer
    MaxFaults       \* bound: host time-outs and bus resets

ASSUME ContactAssumption ==
    /\ NoCard \notin Cards /\ PinPads \subseteq BOOLEAN
    /\ SeqMod \in Nat \ {0} /\ RxPackets \in Nat \ {0, 1}
    /\ MaxFaults \in Nat

VARIABLES
    dev,        \* CcidClass and CcidMessageHandler
    app,        \* the main loop: mode, last_card_present, enumerated
    card,       \* the card in the slot
    ep_out,     \* the bulk OUT endpoint: at most one packet
    ep_in,      \* the bulk IN endpoint: at most one packet
    link,       \* the endpoints are configured
    host,       \* the host: its command, packets to send, packets received, and whether the
                \* last answer was torn
    faults,     \* time-outs and resets so far
    spilt       \* history: a PIN went to a card other than its own

contactVars ==
    <<dev, app, card, ep_out, ep_in, link, host, faults, spilt>>

None == [none |-> TRUE]
Seqs == 0..(SeqMod - 1)
\* "Status" stands for every one-packet command with a short answer.
Kinds == {"Status", "PowerOn", "PowerOff", "Xfr", "Verify", "Modify"}

\* What payload bytes amount to when they are read as a header: a message
\* for another slot, an unknown command, one that declares a packet more,
\* one that declares more than rx_buffer can hold.
Junk == {"foreign", "unknown", "more", "never"}
JunkSeq == SeqMod

\* Responses: packets, and whether the last one is full.
Response(seq, len, exact) == [seq |-> seq, len |-> len, exact |-> exact]
Short(seq) == Response(seq, 1, FALSE)
NoResponse == Response(JunkSeq, 0, TRUE)     \* tx_len = 0

-----------------------------------------------------------------------------
(* CcidMessageHandler *)

NewHandler(pin_pad) ==
    [pin_pad |-> pin_pad, rx |-> <<>>, tx |-> NoResponse, busy |-> FALSE, slot |-> "Absent",
     present |-> FALSE, session |-> NoCard, secure |-> None,
     tx_pending |-> FALSE, tx_offset |-> 0, needs_zlp |-> FALSE,
     panicked |-> FALSE]

\* Packets that the message at the head of rx_buffer declares; 0: too many.
Declared(packet) ==
    CASE packet.part = 1 -> (IF packet.kind = "Xfr" THEN 2 ELSE 1)
      [] packet.junk = "more" -> 2
      [] packet.junk = "never" -> 0
      [] OTHER -> 1

\* Mutant: a message that can never complete is kept.
WedgedFeed(d, packet) ==
    LET rx == IF Len(d.rx) < RxPackets THEN Append(d.rx, packet) ELSE d.rx
    IN [d EXCEPT !.rx = rx]

\* feed and drop_unassemblable: what does not fit is cut off, and a header
\* whose message cannot fit empties the buffer.
Feed(d, packet) ==
    LET rx == IF Len(d.rx) < RxPackets THEN Append(d.rx, packet) ELSE d.rx
    IN [d EXCEPT !.rx = IF Declared(rx[1]) = 0 THEN <<>> ELSE rx]

MessageReady(d) ==
    /\ d.rx # <<>>
    /\ Declared(d.rx[1]) # 0 /\ Len(d.rx) >= Declared(d.rx[1])

TakeResponse(d) == [d EXCEPT !.rx = <<>>, !.tx = NoResponse, !.busy = FALSE]

\* check_card_presence, every poll: a removal drops the message being
\* received and the armed PIN session, not the response being sent.
CheckCardPresence(d) ==
    IF d.present = (card # NoCard) THEN d
    ELSE IF card # NoCard
         THEN [d EXCEPT !.present = TRUE, !.slot = "PresentInactive"]
         ELSE [d EXCEPT !.present = FALSE, !.slot = "Absent", !.session = NoCard,
                        !.secure = None, !.rx = <<>>, !.busy = FALSE]

\* process_command of the core, and the commands the wrapper answers itself.
Dispatch(d, kind, seq) ==
    CASE kind = "Xfr" /\ d.slot = "PresentActive" ->
            {[d EXCEPT !.tx = r] :
                r \in {Short(seq), Response(seq, 1, TRUE), Response(seq, 3, FALSE)}}
      [] kind = "PowerOn" /\ card # NoCard ->
            {[d EXCEPT !.tx = Short(seq), !.slot = "PresentActive", !.session = card],
             [d EXCEPT !.tx = Short(seq), !.slot = "PresentInactive", !.session = NoCard]}
      [] kind = "PowerOff" ->
            {[d EXCEPT !.tx = Short(seq), !.slot = "PresentInactive", !.session = NoCard]}
      [] kind \in {"Verify", "Modify"} /\ d.pin_pad /\ d.slot = "PresentActive" ->
            {[d EXCEPT !.tx = NoResponse,
                       !.secure = [kind |-> kind, seq |-> seq, card |-> card]]}
      [] OTHER -> {[d EXCEPT !.tx = Short(seq)]}

\* handle_message: another slot is refused before the busy gate, and the
\* refusal of the gate names the bSeq at the head of rx_buffer.
HandleMessage(d) ==
    LET head == d.rx[1]
        lost == head.part = 2
    IN IF lost /\ head.junk = "foreign" THEN {[d EXCEPT !.tx = Short(JunkSeq)]}
       ELSE IF d.busy
            THEN {[d EXCEPT !.tx = Short(IF lost THEN JunkSeq ELSE head.seq)]}
       ELSE IF lost THEN {[d EXCEPT !.busy = TRUE, !.tx = Short(JunkSeq)]}
       ELSE Dispatch([d EXCEPT !.busy = TRUE], head.kind, head.seq)

-----------------------------------------------------------------------------
(* CcidClass *)

Packet(r, i) == [seq |-> r.seq, first |-> i = 1,
                 full |-> i < r.len \/ (i = r.len /\ r.exact), of |-> r]
Zlp == [seq |-> JunkSeq, first |-> FALSE, full |-> FALSE, of |-> NoResponse]

Finished(d) ==
    [TakeResponse(d) EXCEPT !.tx_pending = FALSE, !.tx_offset = 0,
                            !.needs_zlp = d.tx.exact]

\* Mutant: a packet that has to wait is skipped.
SkippedPacket(d) ==
    [d EXCEPT !.tx_offset = IF @ + 1 < d.tx.len THEN @ + 1 ELSE @]

\* UsbError::WouldBlock: the packet is tried again in the next poll.
PacketWaits(d) == d

\* try_send on an endpoint that holds e: <<device, endpoint>>.  A write
\* blocks while the last packet waits and fails while the bus is down, which
\* drops the response.  An offset past the response panics (slice bounds).
TrySend(d, e) ==
    CASE d.needs_zlp ->
            IF ~link THEN <<[d EXCEPT !.needs_zlp = FALSE], e>>
            ELSE IF e # None THEN <<d, e>>
            ELSE <<[d EXCEPT !.needs_zlp = FALSE], Zlp>>
      [] ~d.needs_zlp /\ d.tx_pending ->
            IF d.tx_offset > d.tx.len THEN <<[d EXCEPT !.panicked = TRUE], e>>
            ELSE IF ~link
                 THEN <<[TakeResponse(d) EXCEPT !.tx_pending = FALSE, !.tx_offset = 0], e>>
            ELSE IF e # None THEN <<PacketWaits(d), e>>
            ELSE LET sent == IF d.tx.len = 0 \/ d.tx_offset = d.tx.len THEN Zlp
                             ELSE Packet(d.tx, d.tx_offset + 1)
                 IN IF d.tx_offset + 1 >= d.tx.len THEN <<Finished(d), sent>>
                    ELSE <<[d EXCEPT !.tx_offset = @ + 1], sent>>
      [] OTHER -> <<d, e>>

Respond(d) ==
    {[e EXCEPT !.tx_pending = TRUE, !.tx_offset = 0] : e \in HandleMessage(d)}

\* UsbClass::poll: presence, send, receive and handle, send.
Poll ==
    LET first == TrySend(CheckCardPresence(dev), ep_in)
        d == first[1]
        fed == IF ep_out = None THEN d ELSE Feed(d, ep_out)
        handled == IF ep_out # None /\ MessageReady(fed) THEN Respond(fed) ELSE {fed}
    IN /\ ~dev.panicked
       /\ \E h \in handled :
             LET last == TrySend(h, first[2])
             IN /\ dev' = last[1] /\ ep_in' = last[2]
       /\ ep_out' = None
       /\ app.turn = "usb" /\ app' = [app EXCEPT !.turn = "ui"]
       /\ UNCHANGED <<card, link, host, faults, spilt>>

-----------------------------------------------------------------------------
(* The main loop after each poll *)

Normal == [name |-> "Normal"]
PinEntry(s) == [name |-> "PinEntry", seq |-> s.seq, card |-> s.card]

\* AppMode::Normal: is_pin_entry_active is true for a modify session too,
\* and take_secure_params consumes it without a result.
EnterPinMode ==
    /\ app.mode = Normal /\ dev.secure # None
    /\ dev' = [dev EXCEPT !.secure = None]
    /\ app' = [app EXCEPT !.turn = "usb",
                          !.mode = IF dev.secure.kind = "Verify"
                                   THEN PinEntry(dev.secure) ELSE Normal]
    /\ UNCHANGED spilt

\* The idle screen: a change of presence redraws and forgets the found
\* applications on removal, an active card is enumerated once, with a SELECT
\* per known application.
IdleScreen ==
    LET live == card # NoCard
        redraw == live # app.last_card_present
        enumerate == ~redraw /\ dev.slot = "PresentActive" /\ ~app.enumerated
    IN /\ app.mode = Normal /\ dev.secure = None
       /\ app' = [app EXCEPT !.turn = "usb", !.last_card_present = live,
                             !.enumerated = IF redraw /\ ~live THEN FALSE
                                            ELSE @ \/ enumerate]
       /\ UNCHANGED <<dev, spilt>>

\* PinEntry goes on: digits, or nothing.  Card and slot are not looked at.
PinModeGoesOn ==
    /\ app.mode # Normal
    /\ app' = [app EXCEPT !.turn = "usb"]
    /\ UNCHANGED <<dev, spilt>>

\* The entry ended: set_pin_result, back to Normal, and process_pin_result
\* in the same pass.  On success the VERIFY is transmitted whatever the slot;
\* its answer goes to the transmit buffer, and the armed session ends.
PinModeEnds ==
    /\ app.mode # Normal
    /\ \E success \in BOOLEAN :
          /\ spilt' = (spilt \/ (success /\ dev.session = card
                                         /\ card \notin {NoCard, app.mode.card}))
    /\ dev' = [dev EXCEPT !.tx = Short(app.mode.seq), !.secure = None]
    /\ app' = [app EXCEPT !.turn = "usb", !.mode = Normal,
                          !.last_card_present = card # NoCard]

MainLoop ==
    /\ ~dev.panicked /\ app.turn = "ui"
    /\ EnterPinMode \/ IdleScreen \/ PinModeGoesOn \/ PinModeEnds
    /\ UNCHANGED <<card, ep_out, ep_in, link, host, faults>>

-----------------------------------------------------------------------------
(* The surroundings *)

\* The card switch.
MoveCard ==
    /\ card' \in (Cards \cup {NoCard}) \ {card}
    /\ card = NoCard \/ card' = NoCard
    /\ UNCHANGED <<dev, app, ep_out, ep_in, link, host, faults, spilt>>

\* The host has one command at a time, and numbers them.
NextCommand(kind) ==
    [host EXCEPT !.seq = (@ + 1) % SeqMod, !.waiting = TRUE, !.got = <<>>,
                 !.kind = kind, !.part = 1]

\* After a command without an answer it asks for the slot status until it
\* has one.
HostCommands ==
    /\ link /\ ~host.waiting
    /\ \E kind \in Kinds :
          /\ host.missed => kind = "Status"
          /\ host' = NextCommand(kind)
    /\ UNCHANGED <<dev, app, card, ep_out, ep_in, link, faults, spilt>>

HostSendsPacket ==
    /\ link /\ host.waiting /\ host.part > 0 /\ ep_out = None
    /\ \E junk \in Junk :
          /\ host.part = 1 => junk = "unknown"
          /\ ep_out' = [kind |-> host.kind, seq |-> host.seq, part |-> host.part, junk |-> junk]
    /\ host' = [host EXCEPT !.part = IF @ = 1 /\ host.kind = "Xfr" THEN 2 ELSE 0]
    /\ UNCHANGED <<dev, app, card, ep_in, link, faults, spilt>>

\* A transfer holds one response, from its first packet to its last.
Complete(got) ==
    /\ \A i \in DOMAIN got : got[i].of = got[1].of \/ (i > got[1].of.len /\ got[i] = Zlp)
    /\ Len(got) = got[1].of.len + (IF got[1].of.exact THEN 1 ELSE 0)

\* The host's transfer ends with a short packet.  It is the answer if its
\* header has the bSeq of the command; otherwise the host reads on.
HostReads ==
    LET got == Append(host.got, ep_in)
        mine == got[1].first /\ got[1].seq = host.seq
    IN /\ link /\ ep_in # None /\ host.waiting /\ host.part = 0
       /\ ep_in' = None
       /\ host' = IF ep_in.full THEN [host EXCEPT !.got = got]
                  ELSE IF mine
                       THEN [host EXCEPT !.got = <<>>, !.waiting = FALSE, !.torn = ~Complete(got),
                                         !.missed = FALSE]
                       ELSE [host EXCEPT !.got = <<>>]
       /\ UNCHANGED <<dev, app, card, ep_out, link, faults, spilt>>

GivenUp ==
    [host EXCEPT !.waiting = FALSE, !.got = <<>>, !.part = 0, !.missed = TRUE]

\* The host gives up early: what it had read of the answer is gone, and a
\* packet that the reader has not taken is withdrawn.
HostTimesOut ==
    /\ host.waiting /\ faults < MaxFaults
    /\ host' = GivenUp
    /\ ep_out' = None /\ faults' = faults + 1
    /\ UNCHANGED <<dev, app, card, ep_in, link, spilt>>

\* The host gives up when it is not being answered: no packet is on its way
\* and the reader has none to send.
HostGivesUp ==
    /\ host.waiting /\ link /\ host.part = 0
    /\ ep_in = None /\ ep_out = None /\ ~dev.tx_pending /\ ~dev.needs_zlp
    /\ host' = GivenUp
    /\ UNCHANGED <<dev, app, card, ep_out, ep_in, link, faults, spilt>>

\* A bus reset flushes the endpoints; CcidClass keeps its state across it.
BusReset ==
    /\ link /\ faults < MaxFaults
    /\ link' = FALSE /\ ep_in' = None /\ ep_out' = None
    /\ host' = GivenUp
    /\ faults' = faults + 1
    /\ UNCHANGED <<dev, app, card, spilt>>

Configured ==
    /\ ~link /\ link' = TRUE
    /\ UNCHANGED <<dev, app, card, ep_out, ep_in, host, faults, spilt>>

\* CcidMessageHandler::new reads the card switch without announcing it.
ContactInit ==
    /\ card \in Cards \cup {NoCard}
    /\ \E p \in PinPads : dev = CheckCardPresence(NewHandler(p))
    /\ app = [turn |-> "usb", mode |-> Normal, last_card_present |-> FALSE,
              enumerated |-> FALSE]
    /\ ep_out = None /\ ep_in = None /\ link = TRUE /\ faults = 0
    /\ host = [seq |-> 0, waiting |-> FALSE, got |-> <<>>, kind |-> "Status", part |-> 0,
               torn |-> FALSE, missed |-> FALSE]
    /\ spilt = FALSE

Device == Poll \/ MainLoop

ContactNext ==
    \/ Device \/ MoveCard \/ HostCommands \/ HostSendsPacket \/ HostReads
    \/ HostTimesOut \/ HostGivesUp \/ BusReset \/ Configured

ContactSpec ==
    /\ ContactInit /\ [][ContactNext]_contactVars
    /\ WF_contactVars(Poll) /\ WF_contactVars(MainLoop)
    /\ WF_contactVars(HostSendsPacket) /\ WF_contactVars(HostReads)
    /\ WF_contactVars(HostCommands) /\ WF_contactVars(HostGivesUp)
    /\ WF_contactVars(Configured)

-----------------------------------------------------------------------------
(* Properties *)

\* What the host takes for the answer to its command is one response, from
\* its first packet to its last, although time-outs, resets and removals
\* interrupt transfers and the busy gate overwrites the transmit buffer.
\* (A PIN pad's late answer may replace one on its way: PinAnswerIsSent.)
AnswersAreWhole == dev.pin_pad \/ ~host.torn

\* The reader never wedges: after a command that went unanswered (a fault,
\* or a removal that dropped half of it), a host that asks for the status is
\* answered again, whatever had been left in rx_buffer and at the endpoints.
\* (OffsetInResponse: the one way it can stop.)
HostIsAnswered == host.missed ~> (~host.missed \/ dev.panicked)

\* "complete_pin_entry() sends RDR_to_PC_DataBlock response" (docs/
\* MILESTONES-AUDIT.md): the answer to a PIN entry in the transmit buffer is
\* on its way.
PinAnswerIsSent == dev.tx # NoResponse => dev.tx_pending

\* try_send never reads past the response in the buffer.
OffsetInResponse == ~dev.panicked

\* "the USB main loop drops pin state on removal" (ccid_spec_paths.rs): a PIN
\* goes to the card it was asked for.
PinForItsCard == ~spilt
=============================================================================
