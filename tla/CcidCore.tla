------------------------------ MODULE CcidCore ------------------------------
(***************************************************************************)
(* The shared CCID command handler: CcidHandlerCore<D, P> of               *)
(* crates/ccid-core/src/handler.rs.  One action per command handler, plus  *)
(* the presence poll (check_card_change) and the slot driver it drives.    *)
(*                                                                         *)
(* The same generic code serves two readers.  Contact = TRUE is            *)
(* ContactProfile (the STM32 USB reader), Contact = FALSE is               *)
(* SerialNfcProfile (the ESP32 contactless readers).                       *)
(*                                                                         *)
(* Abstractions.  A parameter structure (abProtocolDataStructure) is a     *)
(* model value of HostSets; an ATR is the card that sent it; an APDU is    *)
(* its routing class.  The one-shot flags card_reset_event and             *)
(* parameters_accepted_event, and the Option<bool> that check_card_change  *)
(* returns, are taken by the wrappers right after every call, so they are  *)
(* the set `events` of what the last step raised.                          *)
(***************************************************************************)
EXTENDS Naturals

CONSTANTS
    Contact,       \* ReaderProfile::CONTACT
    PinPad,        \* the pin_pad capability given to with_profile
    Cards,         \* the cards that may be put in the slot or the field
    NoCard,        \* no card
    CardProtocol,  \* the protocol (0 or 1) each card's ATR announces
    Seqs,          \* bSeq values
    HostSets,      \* parameter structures a host may send
    Default,       \* the reader's own default parameter structure
    NoParams,      \* None in Option<(u8, [u8; 7])>
    Unsettled,     \* (history) no claim on the reported parameters
    MaxCount       \* where the saturating diagnostics counters stop

Sources == Cards \cup HostSets \cup {Default}

ASSUME ProfileAssumption ==
    /\ Contact \in BOOLEAN /\ PinPad \in BOOLEAN
    /\ PinPad => Contact    \* CcidHandlerCore::new gives the serial reader none
    /\ MaxCount \in Nat

ASSUME CardAssumption ==
    /\ NoCard \notin Cards
    /\ CardProtocol \in [Cards -> {0, 1}]

ASSUME ParameterAssumption ==
    /\ NoParams \notin [proto : {0, 1}, raw : HostSets]
    /\ Unsettled \notin Sources

VARIABLES
    slot_state,          \* SlotState
    present,             \* presence_state.present, the polled cache
    current_protocol,
    host_params,         \* the accepted SetParameters structure, or NoParams
    atr_params,          \* who supplied the line (TA1, guard) and T=1 fields
    secure_state,        \* the armed PC_to_RDR_Secure PIN session
    pad,                 \* the session the PIN-pad wrapper took and is running
    snapshot_requested,  \* diagnostic_snapshot_requested
    sync_notifications,
    apdu_tx, apdu_rx, error_count,   \* Diagnostics counters
    events,              \* raised by the last step
    response,            \* written by the last step, NoReply if none
    card,                \* driver/environment: the card really there
    session,             \* driver: the card it holds activated, or NoCard
    told,                \* history: the presence the host was last told
    expected             \* history: whose parameters should be in force

slotVars   == <<slot_state, present>>
paramVars  == <<current_protocol, host_params, atr_params>>
pinVars    == <<secure_state, pad>>
flagVars   == <<snapshot_requested, sync_notifications>>
apduCounts == <<apdu_tx, apdu_rx>>
driverVars == <<card, session>>
historyVars == <<told, expected>>
vars == <<slotVars, paramVars, pinVars, flagVars, apduCounts, error_count,
          events, response, driverVars, historyVars>>

-----------------------------------------------------------------------------
(* Messages from the reader. *)

Data(what, proto, line, t1) ==
    [what |-> what, proto |-> proto, line |-> line, t1 |-> t1]

Plain(what) == Data(what, 0, Default, Default)

Reply(type, seq, failed, err, icc, data) ==
    [type |-> type, seq |-> seq, failed |-> failed, err |-> err,
     icc |-> icc, data |-> data]

NoReply == [type |-> "none"]

SlotStatus(seq, failed, err, icc) ==
    Reply("SlotStatus", seq, failed, err, icc, Plain("empty"))

DataBlock(seq, icc, data) == Reply("DataBlock", seq, FALSE, "ok", icc, data)

DataBlockFailed(seq, err, icc) ==
    Reply("DataBlock", seq, TRUE, err, icc, Plain("empty"))

\* Mutant: a wrapping add in place of saturating_add.
BadSaturate(n) == n + 1

Saturate(n) == IF n < MaxCount THEN n + 1 ELSE n

\* Write the response of a command; a FAILED bStatus counts one error.
Answer(r) ==
    /\ response' = r
    /\ error_count' = IF r.failed THEN Saturate(error_count) ELSE error_count

\* A command that changes nothing else.
AnsweredLocally(r) ==
    /\ Answer(r)
    /\ events' = {}
    /\ UNCHANGED <<slotVars, paramVars, pinVars, flagVars, apduCounts,
                   driverVars, historyVars>>

Refused(seq, err, icc) == AnsweredLocally(SlotStatus(seq, TRUE, err, icc))

-----------------------------------------------------------------------------
(* The slot driver (CardBackend and SlotDriver).                           *)

\* The contact adapter's session_active() is always false.
SessionActive == ~Contact /\ session # NoCard

\* power_on succeeds only with a card there; a failure may or may not tear
\* down the session that the driver held before.
DriverPowerOn(ok) ==
    /\ ok => card # NoCard
    /\ session' \in IF ok THEN {card} ELSE {session, NoCard}
    /\ UNCHANGED card

DriverPowerOff == session' = NoCard /\ UNCHANGED card

\* transmit_apdu answers only if the activated card is still there.
DriverTransmit(ok) ==
    /\ ok => session # NoCard /\ session = card
    /\ session' \in IF ok THEN {session} ELSE {session, NoCard}
    /\ UNCHANGED card

\* The card-detect switch is exact; an RF poll may miss a coupled card.
PollResults == IF Contact THEN {card # NoCard} ELSE {FALSE, card # NoCard}

\* count_transmit: tx on every call, rx on every card answer.
CountTransmit(ok) ==
    /\ apdu_tx' = Saturate(apdu_tx)
    /\ apdu_rx' = IF ok THEN Saturate(apdu_rx) ELSE apdu_rx

-----------------------------------------------------------------------------
(* Parameters *)

\* parameter_payload: the host's set while it matches the protocol in force,
\* else the ATR's (contact) or the static defaults (serial).  A serial set is
\* only ever stored for T=1.
ParameterPayload ==
    IF host_params # NoParams /\ host_params.proto = current_protocol
    THEN Data("params", current_protocol, host_params.raw,
              IF current_protocol = 1 THEN host_params.raw ELSE Default)
    ELSE IF Contact
    THEN Data("params", current_protocol, atr_params.line,
              IF current_protocol = 1 THEN atr_params.t1 ELSE Default)
    ELSE Data("params", current_protocol, Default, Default)

\* write_parameters, after the handler's own assignments.
AnswerParameters(seq) ==
    Answer(Reply("Parameters", seq, FALSE, "ok", slot_state', ParameterPayload'))

GetParameters(seq) ==
    /\ UNCHANGED <<slotVars, paramVars>>
    /\ AnswerParameters(seq)
    /\ events' = {}
    /\ UNCHANGED <<pinVars, flagVars, apduCounts, driverVars, historyVars>>

\* Serial: bProtocolNum above 1 is refused; a T=1 set of full length is
\* stored, any other accepted set is not.
HandleSetParameters(seq, proto, full, raw) ==
    /\ ~Contact
    /\ \/ /\ proto > 1
          /\ Refused(seq, "CMD_NOT_SUPPORTED", slot_state)
       \/ /\ proto \in {0, 1}
          /\ current_protocol' = proto
          /\ host_params' = IF proto = 1 /\ full
                            THEN [proto |-> 1, raw |-> raw] ELSE host_params
          /\ expected' = CASE proto = 0 -> Default
                           [] proto = 1 /\ full -> raw
                           [] OTHER -> Unsettled
          /\ events' = {"parameters_accepted"}
          /\ UNCHANGED <<slotVars, atr_params>>
          /\ AnswerParameters(seq)
          /\ UNCHANGED <<pinVars, flagVars, apduCounts, driverVars, told>>

\* Contact: the length must imply the protocol and the fields must be legal
\* (`valid`); the accepted set also overrides the ATR-derived fields.
HandleSetParametersContact(seq, proto, full, valid, raw) ==
    /\ Contact
    /\ \/ /\ ~full
          /\ Refused(seq, "0x07", slot_state)
       \/ /\ full /\ (~valid \/ proto > 1)
          /\ AnsweredLocally(Reply("Parameters", seq, TRUE, "0x08", slot_state,
                                   Plain("empty")))
       \/ /\ full /\ valid /\ proto \in {0, 1}
          /\ current_protocol' = proto
          /\ host_params' = [proto |-> proto, raw |-> raw]
          /\ atr_params' = [line |-> raw,
                            t1 |-> IF proto = 1 THEN raw ELSE atr_params.t1]
          /\ expected' = raw
          /\ events' = {"parameters_accepted"}
          /\ UNCHANGED slotVars
          /\ AnswerParameters(seq)
          /\ UNCHANGED <<pinVars, flagVars, apduCounts, driverVars, told>>

\* Mutant: the contact branch forgets the host's set.
BadResetParameters(seq) ==
    /\ atr_params' = [line |-> Default, t1 |-> Default]
    /\ current_protocol' = 0
    /\ expected' = Default
    /\ events' = {"parameters_accepted"}
    /\ UNCHANGED <<slotVars, host_params>>
    /\ AnswerParameters(seq)
    /\ UNCHANGED <<pinVars, flagVars, apduCounts, driverVars, told>>

\* Contact drops the host's set and the ATR's; serial only restores T=1.
HandleResetParameters(seq) ==
    /\ IF Contact
       THEN /\ atr_params' = [line |-> Default, t1 |-> Default]
            /\ current_protocol' = 0
            /\ host_params' = NoParams
       ELSE /\ current_protocol' = 1
            /\ UNCHANGED <<atr_params, host_params>>
    /\ expected' = Default
    /\ events' = {"parameters_accepted"}
    /\ UNCHANGED slotVars
    /\ AnswerParameters(seq)
    /\ UNCHANGED <<pinVars, flagVars, apduCounts, driverVars, told>>

-----------------------------------------------------------------------------
(* Power *)

PowerOnFailed(seq, err) ==
    /\ DriverPowerOn(FALSE)
    /\ slot_state' = "PresentInactive"
    /\ Answer(SlotStatus(seq, TRUE, err, "PresentInactive"))
    /\ events' = {}
    /\ UNCHANGED <<present, paramVars, pinVars, flagVars, apduCounts,
                   historyVars>>

PowerOnSucceeded(seq) ==
    /\ DriverPowerOn(TRUE)
    /\ present' = TRUE
    /\ slot_state' = "PresentActive"
    /\ events' = {"card_reset"}
    /\ told' = TRUE
    /\ Answer(DataBlock(seq, "PresentActive", Data("atr", 0, card, Default)))
    /\ UNCHANGED <<pinVars, flagVars, apduCounts>>

\* Serial IccPowerOn trusts the polled presence cache.
HandlePowerOn(seq) ==
    /\ ~Contact
    /\ \/ ~present /\ Refused(seq, "CMD_NOT_SUPPORTED", "Absent")
       \/ present /\ PowerOnFailed(seq, "HW_ERROR")
       \/ /\ present
          /\ PowerOnSucceeded(seq)
          /\ expected' = Default
          /\ UNCHANGED paramVars

\* Contact IccPowerOn: no payload allowed, the card switch read live, 3 V and
\* 1.8 V refused; the ATR then gives protocol and parameters.
HandlePowerOnContact(seq, length0, voltageOk) ==
    /\ Contact
    /\ \/ ~length0 /\ Refused(seq, "CMD_NOT_SUPPORTED", slot_state)
       \/ /\ length0 /\ card = NoCard
          /\ Refused(seq, "ICC_MUTE", "Absent")
       \/ /\ length0 /\ card # NoCard /\ ~voltageOk
          /\ Refused(seq, "CMD_NOT_SUPPORTED", "PresentInactive")
       \/ /\ length0 /\ card # NoCard /\ voltageOk
          /\ PowerOnFailed(seq, "ICC_MUTE")
       \/ /\ length0 /\ card # NoCard /\ voltageOk
          /\ PowerOnSucceeded(seq)
          /\ atr_params' = [line |-> card, t1 |-> card]
          /\ current_protocol' = CardProtocol[card]
          /\ host_params' = NoParams
          /\ expected' = card

\* IccPowerOff does not poll: the slot is PresentInactive whatever was there.
HandlePowerOff(seq) ==
    /\ DriverPowerOff
    /\ slot_state' = "PresentInactive"
    /\ current_protocol' = IF Contact THEN 0 ELSE current_protocol
    /\ expected' = IF Contact THEN Unsettled ELSE expected
    /\ Answer(SlotStatus(seq, FALSE, "ok", "PresentInactive"))
    /\ events' = {}
    /\ UNCHANGED <<present, host_params, atr_params, pinVars, flagVars,
                   apduCounts, told>>

-----------------------------------------------------------------------------
(* Card exchanges.  An APDU's class says how the pipeline routes it.       *)

ApduClasses == {"pps", "getuid", "pseudo", "apdu", "oversize"}

\* apdu_pipeline without its reply: PPS and pseudo-APDUs are answered by the
\* reader itself, the rest goes to the card.  A failed exchange takes the
\* slot back to PresentInactive.
RunApdu(class, ok) ==
    /\ events' = {}
    /\ \/ /\ class \in {"pps", "getuid", "pseudo"} /\ ok
          /\ UNCHANGED <<slot_state, apduCounts, driverVars>>
       \/ /\ class \in {"apdu", "oversize"}
          /\ DriverTransmit(ok)
          /\ CountTransmit(ok)
          /\ slot_state' = IF ok THEN slot_state ELSE "PresentInactive"
    /\ UNCHANGED <<present, paramVars, pinVars, flagVars, historyVars>>

\* What comes back: a card UID is not always known.
PipelineData(class) ==
    CASE class = "pps"    -> {"pps"}
      [] class = "getuid" -> {"uid", "sw"}
      [] class = "pseudo" -> {"sw"}
      [] OTHER            -> {"rapdu"}

ApduPipeline(seq, class) ==
    \E ok \in BOOLEAN, what \in PipelineData(class) :
        /\ RunApdu(class, ok)
        /\ Answer(IF ok THEN DataBlock(seq, "PresentActive", Plain(what))
                  ELSE DataBlockFailed(seq, "CARD_TIMEOUT", "PresentInactive"))

HandleXfrBlock(seq, class) ==
    /\ ~Contact
    /\ \/ /\ slot_state # "PresentActive"
          /\ AnsweredLocally(DataBlockFailed(seq, "ICC_NOT_ACTIVE", slot_state))
       \/ slot_state = "PresentActive" /\ ApduPipeline(seq, class)

\* Contact: a failed exchange is reported (xfr_failure_b_error) and the slot
\* stays PresentActive.
HandleXfrBlockContact(seq, class) ==
    /\ Contact
    /\ \/ /\ slot_state # "PresentActive"
          /\ Refused(seq, "ICC_MUTE", slot_state)
       \/ /\ slot_state = "PresentActive" /\ class = "oversize"
          /\ Refused(seq, "0x07", "PresentActive")
       \/ /\ slot_state = "PresentActive" /\ class = "pps"
          /\ AnsweredLocally(DataBlock(seq, "PresentActive", Plain("pps")))
       \/ /\ slot_state = "PresentActive" /\ class \notin {"oversize", "pps"}
          /\ \E ok \in BOOLEAN :
                /\ DriverTransmit(ok)
                /\ CountTransmit(ok)
                /\ \E err \in {"XFR_PARITY", "XFR_OVERRUN", "CARD_TIMEOUT",
                               "ICC_MUTE", "HW_ERROR"} :
                      Answer(IF ok
                             THEN DataBlock(seq, "PresentActive", Plain("rapdu"))
                             ELSE DataBlockFailed(seq, err, "PresentActive"))
                /\ events' = {}
                /\ UNCHANGED <<slotVars, paramVars, pinVars, flagVars,
                               historyVars>>

-----------------------------------------------------------------------------
(* Secure: the PIN session, answered later (response deferred).            *)

Idle == [kind |-> "Idle"]
Armed(kind, seq) == [kind |-> kind, seq |-> seq]
PinEntryActive == secure_state.kind # "Idle"

SecureNotSupported(seq) ==
    IF Contact THEN DataBlockFailed(seq, "CMD_NOT_SUPPORTED", slot_state)
    ELSE SlotStatus(seq, TRUE, "CMD_NOT_SUPPORTED", slot_state)

\* op is Verify or Modify with a well-formed structure, or malformed.
HandleSecure(seq, op) ==
    \/ /\ ~PinPad
       /\ AnsweredLocally(SecureNotSupported(seq))
    \/ /\ PinPad /\ slot_state # "PresentActive"
       /\ AnsweredLocally(DataBlockFailed(seq, "CMD_SLOT_BUSY", slot_state))
    \/ /\ PinPad /\ slot_state = "PresentActive" /\ op = "malformed"
       /\ AnsweredLocally(SecureNotSupported(seq))
    \/ /\ PinPad /\ slot_state = "PresentActive" /\ op \in {"Verify", "Modify"}
       /\ secure_state' = Armed(op, seq)
       /\ response' = NoReply
       /\ events' = {}
       /\ UNCHANGED <<slotVars, paramVars, pad, flagVars, apduCounts, error_count,
                      driverVars, historyVars>>

PinQuiet == events' = {} /\ UNCHANGED <<slotVars, paramVars, flagVars,
                                        error_count, historyVars>>

\* take_secure_params and take_secure_modify_params: both consume whatever is
\* armed, and hand it over only if it is of their own kind.
TakeSecure(kind) ==
    /\ PinEntryActive /\ pad = Idle
    /\ secure_state' = Idle
    /\ pad' = IF secure_state.kind = kind THEN secure_state ELSE pad
    /\ response' = NoReply
    /\ PinQuiet
    /\ UNCHANGED <<apduCounts, driverVars>>

\* complete_pin_entry: answer the session's own bSeq and end it.
CompletePinEntry(err, data) ==
    /\ response' = Reply("DataBlock", pad.seq, err # "ok", err, slot_state, data)
    /\ pad' = Idle /\ secure_state' = Idle
    /\ PinQuiet

\* complete_pin_verify_exchange and complete_pin_modify_exchange: on success
\* the reader builds the APDU and sends it, whatever the slot's state.
PinExchange ==
    /\ pad # Idle
    /\ \/ /\ \E err \in {"PIN_CANCELLED", "PIN_TIMEOUT", "CMD_ABORTED"} :
                CompletePinEntry(err, Plain("empty"))
          /\ UNCHANGED <<apduCounts, driverVars>>
       \/ \E ok \in BOOLEAN :
             /\ DriverTransmit(ok)
             /\ CountTransmit(ok)
             /\ CompletePinEntry(IF ok THEN "ok" ELSE "PIN_CANCELLED",
                                 Plain(IF ok THEN "rapdu" ELSE "empty"))

-----------------------------------------------------------------------------
(* The remaining commands.                                                 *)

GetSlotStatus(seq) == AnsweredLocally(SlotStatus(seq, FALSE, "ok", slot_state))

\* Abort is a stub of the contact profile; every other command code, and a
\* frame shorter than its dwLength, is refused.
AbortOrUnknown(seq, abort) ==
    AnsweredLocally(IF abort /\ Contact
                    THEN SlotStatus(seq, FALSE, "ok", slot_state)
                    ELSE SlotStatus(seq, TRUE, "CMD_NOT_SUPPORTED", slot_state))

EscapeOps == {"D0", "D1", "02", "010101", "other"}

\* 0xD0 diagnostics on both profiles; snapshot, firmware identity and
\* synchronous notifications on the serial profile only.
HandleEscape(seq, op) ==
    LET known == op = "D0" \/ (~Contact /\ op # "other")
    IN  /\ snapshot_requested' = (snapshot_requested \/ (known /\ op = "D1"))
        /\ sync_notifications' = (sync_notifications \/ (known /\ op = "010101"))
        /\ Answer(Reply("Escape", seq, ~known,
                        IF known THEN "ok" ELSE "CMD_NOT_SUPPORTED",
                        slot_state, Plain(IF known THEN "escape" ELSE "empty")))
        /\ events' = {}
        /\ UNCHANGED <<slotVars, paramVars, pinVars, apduCounts, driverVars,
                       historyVars>>

\* take_snapshot_request, by the serve loop after the acknowledgement left.
TakeSnapshotRequest ==
    /\ snapshot_requested
    /\ snapshot_requested' = FALSE
    /\ events' = {} /\ response' = NoReply
    /\ UNCHANGED <<slotVars, paramVars, pinVars, sync_notifications,
                   apduCounts, error_count, driverVars, historyVars>>

-----------------------------------------------------------------------------
(* check_card_change *)

\* A driver with a live session is not polled: the slot is PresentActive.
SessionKeepsSlot ==
    /\ SessionActive
    /\ present' = TRUE
    /\ slot_state' = "PresentActive"
    /\ events' = {}
    /\ UNCHANGED <<secure_state, session>>

\* Mutant: a lost session under a present card is no change.
BadSessionLostUnderCard ==
    /\ ~SessionActive /\ ~Contact
    /\ slot_state = "PresentActive" /\ TRUE \in PollResults
    /\ events' = {}
    /\ UNCHANGED <<slotVars, secure_state, session>>

\* The session died but the card stayed: report a card reset, so that the
\* host reconnects (issue 444, session-aware drivers only).
SessionLostUnderCard ==
    /\ ~SessionActive /\ ~Contact
    /\ slot_state = "PresentActive" /\ TRUE \in PollResults
    /\ slot_state' = "PresentInactive"
    /\ present' = TRUE
    /\ events' = {"card_reset", "change_present"}
    /\ UNCHANGED <<secure_state, session>>

PresenceUnchanged ==
    /\ ~SessionActive
    /\ present \in PollResults
    /\ present => Contact \/ slot_state # "PresentActive"
    /\ events' = {}
    /\ UNCHANGED <<slotVars, secure_state, session>>

\* Mutant: the insertion is cached but not returned.
BadCardInserted ==
    /\ ~SessionActive
    /\ ~present /\ TRUE \in PollResults
    /\ present' = TRUE
    /\ slot_state' = "PresentInactive"
    /\ events' = {}
    /\ UNCHANGED <<secure_state, session>>

CardInserted ==
    /\ ~SessionActive
    /\ ~present /\ TRUE \in PollResults
    /\ Contact \/ slot_state # "PresentActive"
    /\ present' = TRUE
    /\ slot_state' = "PresentInactive"
    /\ events' = {"change_present"}
    /\ UNCHANGED <<secure_state, session>>

\* Mutant: a removal leaves slot_state and the PIN session as they are.
BadCardRemoved ==
    /\ ~SessionActive
    /\ present /\ FALSE \in PollResults
    /\ present' = FALSE
    /\ events' = {"change_absent"}
    /\ UNCHANGED <<slot_state, session, secure_state>>

\* Mutant: a slot that is not active has nothing to tell.
QuietCardRemoved ==
    /\ ~SessionActive
    /\ present /\ FALSE \in PollResults
    /\ slot_state # "PresentInactive"
    /\ present' = FALSE
    /\ slot_state' = "Absent"
    /\ session' = IF Contact THEN NoCard ELSE session
    /\ secure_state' = IF Contact THEN Idle ELSE secure_state
    /\ events' = {"change_absent"}

\* Removal: the contact profile also powers the driver off and drops an
\* armed PIN session.
CardRemoved ==
    /\ ~SessionActive
    /\ present /\ FALSE \in PollResults
    /\ present' = FALSE
    /\ slot_state' = "Absent"
    /\ session' = IF Contact THEN NoCard ELSE session
    /\ secure_state' = IF Contact THEN Idle ELSE secure_state
    /\ events' = {"change_absent"}

CheckCardChange ==
    /\ \/ SessionKeepsSlot
       \/ SessionLostUnderCard
       \/ PresenceUnchanged
       \/ CardInserted
       \/ CardRemoved
    /\ told' = ("change_present" \in events'
                \/ (told /\ "change_absent" \notin events'))
    /\ response' = NoReply
    /\ UNCHANGED <<pad, paramVars, flagVars, apduCounts, error_count, card,
                   expected>>

-----------------------------------------------------------------------------
(* The world outside the handler.                                          *)

Quiet ==
    /\ events' = {} /\ response' = NoReply
    /\ UNCHANGED <<slotVars, paramVars, pinVars, flagVars, apduCounts,
                   error_count, historyVars>>

MoveCard ==
    /\ card' \in (Cards \cup {NoCard}) \ {card}
    /\ card = NoCard \/ card' = NoCard
    /\ UNCHANGED session
    /\ Quiet

\* An RF driver tears its session down between commands (link loss noticed
\* by a drain or by poll_maintenance, a controller re-initialisation).
DriverDropsSession ==
    /\ SessionActive
    /\ DriverPowerOff
    /\ Quiet

-----------------------------------------------------------------------------

\* The contact wrapper samples the card switch at construction, without
\* announcing it.
Init ==
    /\ card \in Cards \cup {NoCard}
    /\ present = (Contact /\ card # NoCard)
    /\ slot_state = IF present THEN "PresentInactive" ELSE "Absent"
    /\ told = present
    /\ session = NoCard
    /\ current_protocol = IF Contact THEN 0 ELSE 1
    /\ host_params = NoParams
    /\ atr_params = [line |-> Default, t1 |-> Default]
    /\ expected = Default
    /\ secure_state = Idle /\ pad = Idle
    /\ snapshot_requested = FALSE /\ sync_notifications = FALSE
    /\ apdu_tx = 0 /\ apdu_rx = 0 /\ error_count = 0
    /\ events = {} /\ response = NoReply

XfrBlock(seq) ==
    \E class \in ApduClasses :
        HandleXfrBlock(seq, class) \/ HandleXfrBlockContact(seq, class)

OtherCommand(seq) ==
    \/ HandlePowerOn(seq)
    \/ \E length0, voltageOk \in BOOLEAN :
          HandlePowerOnContact(seq, length0, voltageOk)
    \/ HandlePowerOff(seq)
    \/ GetSlotStatus(seq)
    \/ GetParameters(seq)
    \/ \E proto \in 0..2, full \in BOOLEAN, raw \in HostSets :
          HandleSetParameters(seq, proto, full, raw)
    \/ \E proto \in 0..2, full, valid \in BOOLEAN, raw \in HostSets :
          HandleSetParametersContact(seq, proto, full, valid, raw)
    \/ HandleResetParameters(seq)
    \/ \E op \in EscapeOps : HandleEscape(seq, op)
    \/ \E op \in {"Verify", "Modify", "malformed"} : HandleSecure(seq, op)
    \/ \E abort \in BOOLEAN : AbortOrUnknown(seq, abort)

\* process_command: one command, dispatched and answered.
ProcessCommand(seq) == XfrBlock(seq) \/ OtherCommand(seq)

Next ==
    \/ \E seq \in Seqs : ProcessCommand(seq)
    \/ TakeSnapshotRequest
    \/ \E kind \in {"Verify", "Modify"} : TakeSecure(kind)
    \/ PinExchange
    \/ CheckCardChange
    \/ MoveCard
    \/ DriverDropsSession

\* The serve loops poll the slot for ever; nothing else is owed.
Spec == Init /\ [][Next]_vars /\ WF_vars(CheckCardChange)

-----------------------------------------------------------------------------
(* Properties *)

Sessions == {Idle} \cup [kind : {"Verify", "Modify"}, seq : Seqs]

IccStates == {"Absent", "PresentInactive", "PresentActive"}

Errors == {"ok", "CMD_NOT_SUPPORTED", "0x07", "0x08", "HW_ERROR", "ICC_MUTE",
           "ICC_NOT_ACTIVE", "CARD_TIMEOUT", "XFR_PARITY", "XFR_OVERRUN",
           "CMD_SLOT_BUSY", "PIN_CANCELLED", "PIN_TIMEOUT", "CMD_ABORTED"}

Contents == [what : {"empty", "params", "atr", "pps", "uid", "sw", "rapdu",
                     "escape"},
             proto : {0, 1}, line : Sources, t1 : Sources]

Replies ==
    {NoReply} \cup
    [type : {"SlotStatus", "DataBlock", "Parameters", "Escape"},
     seq : Seqs, failed : BOOLEAN, err : Errors, icc : IccStates,
     data : Contents]

\* Every variable keeps its type, and the counters stay under saturation.
TypeOK ==
    /\ slot_state \in IccStates
    /\ present \in BOOLEAN
    /\ current_protocol \in {0, 1}
    /\ host_params \in {NoParams} \cup [proto : {0, 1}, raw : HostSets]
    /\ atr_params \in [line : Sources, t1 : Sources]
    /\ secure_state \in Sessions /\ pad \in Sessions
    /\ snapshot_requested \in BOOLEAN /\ sync_notifications \in BOOLEAN
    /\ apdu_tx \in 0..MaxCount /\ apdu_rx \in 0..MaxCount
    /\ error_count \in 0..MaxCount
    /\ events \subseteq {"card_reset", "parameters_accepted",
                         "change_present", "change_absent"}
    /\ response \in Replies
    /\ card \in Cards \cup {NoCard} /\ session \in Cards \cup {NoCard}
    /\ told \in BOOLEAN
    /\ expected \in Sources \cup {Unsettled}

\* A slot never reports an active card while its presence cache says that
\* there is none: power-on, failed exchanges, session loss and removal keep
\* slot_state and presence_state in step.
ActiveImpliesPresent == slot_state = "PresentActive" => present

\* The host's view of presence is never behind the handler's: every flip of
\* presence_state that the host did not cause itself with a successful
\* IccPowerOn is returned by check_card_change exactly when it happens.
HostToldPresence == told = present

\* What GetParameters would report is what CCID says is in force: the host's
\* set after an accepted SetParameters, the defaults after ResetParameters,
\* the values of the card's own ATR after IccPowerOn.  handler.rs says of
\* host_params that it holds "until the next power-on or ResetParameters".
ParametersInForce ==
    expected # Unsettled => ParameterPayload.line = expected

\* An armed PIN session does not outlive its card: check_card_change drops
\* it with the removal.
ArmedPinHasCard == PinEntryActive => present

\* A card reset ends the negotiated parameters: take_card_reset says that
\* "parameters do not survive ATR reset".
ResetDropsHostParameters == "card_reset" \in events => host_params = NoParams

\* The diagnostics counters agree however far they have saturated: no more
\* card answers than APDUs sent.
AnswersNeverExceedApdus == apdu_rx <= apdu_tx

\* What the handler keeps of one slot in several places agrees at every step,
\* whatever commands, polls and card movements interleave: the slot's state
\* and the presence cache, the cache and what the host was told, the two
\* APDU counters.
HandlerIsConsistent ==
    ActiveImpliesPresent /\ HostToldPresence /\ AnswersNeverExceedApdus

\* What a contact reader would tell the host, and do with the PIN pad, is
\* about the card in the slot: the parameters reported are those in force,
\* and an armed PIN session has not outlived its card.
ContactIsConsistent == ParametersInForce /\ ArmedPinHasCard

\* A card that has left for good, and is not mistaken for a live session, is
\* reported as gone for good: neither the power-ons that fail on it, which
\* leave the slot PresentInactive and the presence cache alone, nor the
\* power-offs of the host bring it back or keep the poll from telling.
RemovalIsTold ==
    <>[](card = NoCard /\ ~SessionActive)
        => <>[](~told /\ slot_state # "PresentActive")

\* A session that the RF driver lost under a card that stayed is noticed:
\* the slot does not sit PresentActive with a dead session (issue 444).
StaleSessionNoticed ==
    (slot_state = "PresentActive" /\ ~SessionActive)
        ~> (slot_state # "PresentActive" \/ SessionActive)

\* Once the card is out of a contact slot for good, the slot stops being
\* active for good, whatever the host goes on sending.
RemovalIsFinal ==
    <>[](card = NoCard) => <>[](slot_state # "PresentActive")
=============================================================================
