--------------------------- MODULE CcidCore_proofs ---------------------------
(***************************************************************************)
(* Proofs about the shared CCID handler, for any set of cards, sequence    *)
(* numbers and parameter structures and both profiles.                     *)
(***************************************************************************)
EXTENDS CcidCore, TLAPS

\* A message built by Reply from typed fields is a legal reply.
LEMMA ReplyTyped ==
    ASSUME NEW type \in {"SlotStatus", "DataBlock", "Parameters", "Escape"},
           NEW seq \in Seqs, NEW failed \in BOOLEAN, NEW err \in Errors,
           NEW icc \in IccStates, NEW data \in Contents
    PROVE  Reply(type, seq, failed, err, icc, data) \in Replies
    BY DEF Reply, Replies

\* The empty payload is a legal payload.
LEMMA EmptyTyped == Plain("empty") \in Contents
    BY DEF Contents, Plain, Data, Sources

\* Every RDR_to_PC_SlotStatus the handler writes is a legal reply.
LEMMA SlotStatusTyped ==
    ASSUME NEW seq \in Seqs, NEW failed \in BOOLEAN, NEW err \in Errors,
           NEW icc \in IccStates
    PROVE  SlotStatus(seq, failed, err, icc) \in Replies
    BY EmptyTyped, ReplyTyped DEF SlotStatus

\* Every successful RDR_to_PC_DataBlock is a legal reply.
LEMMA DataBlockTyped ==
    ASSUME NEW seq \in Seqs, NEW icc \in IccStates, NEW data \in Contents
    PROVE  DataBlock(seq, icc, data) \in Replies
    <1>1. "ok" \in Errors /\ FALSE \in BOOLEAN  BY DEF Errors
    <1>2. QED  BY <1>1, ReplyTyped DEF DataBlock

\* Every failed RDR_to_PC_DataBlock is a legal reply.
LEMMA DataBlockFailedTyped ==
    ASSUME NEW seq \in Seqs, NEW err \in Errors, NEW icc \in IccStates
    PROVE  DataBlockFailed(seq, err, icc) \in Replies
    BY EmptyTyped, ReplyTyped DEF DataBlockFailed

\* A saturating increment stays below the cap and never decreases.
LEMMA SaturateTyped ==
    ASSUME NEW n \in 0..MaxCount
    PROVE  /\ Saturate(n) \in 0..MaxCount
           /\ n <= Saturate(n)
    BY ProfileAssumption DEF Saturate

\* Two saturating counters incremented together keep their order, also at
\* the cap.
LEMMA SaturateMonotone ==
    ASSUME NEW m \in 0..MaxCount, NEW n \in 0..MaxCount, m <= n
    PROVE  Saturate(m) <= Saturate(n)
    BY ProfileAssumption DEF Saturate

-----------------------------------------------------------------------------
(* The inductive invariant.  HostToldPresence needs the third conjunct: a  *)
(* poll that meets a live session sets `present` without announcing it, so *)
(* a live session must already be known as present.  ArmedPinHasCard needs *)
(* that only a PIN-pad reader (a contact one) arms a session.              *)

SlotInv ==
    /\ ActiveImpliesPresent
    /\ HostToldPresence
    /\ SessionActive => present
    /\ PinEntryActive => PinPad /\ present
    /\ pad # Idle => PinPad

CoreInv ==
    /\ TypeOK
    /\ SlotInv
    /\ AnswersNeverExceedApdus
    /\ Contact => ParametersInForce

\* What an operation must establish when it leaves the slot, the PIN session
\* and the driver alone: only its reply, its counters and its parameters.
LEMMA AnswerTyped ==
    ASSUME TypeOK, NEW r \in Replies, Answer(r)
    PROVE  response' \in Replies /\ error_count' \in 0..MaxCount
    BY SaturateTyped DEF TypeOK, Answer

\* A command that only writes its response keeps the invariant.
LEMMA AnsweredLocallyStep ==
    ASSUME CoreInv, NEW r \in Replies, AnsweredLocally(r)
    PROVE  CoreInv'
    <1>1. response' \in Replies /\ error_count' \in 0..MaxCount
      BY AnswerTyped DEF CoreInv, AnsweredLocally
    <1>2. UNCHANGED <<slotVars, paramVars, pinVars, flagVars, apduCounts,
                      driverVars, historyVars>> /\ events' = {}
      BY DEF AnsweredLocally
    <1>3. TypeOK'
      BY <1>1, <1>2 DEF CoreInv, TypeOK, slotVars, paramVars, pinVars, flagVars,
         apduCounts, driverVars, historyVars
    <1>4. SlotInv' /\ AnswersNeverExceedApdus'
      BY <1>2 DEF CoreInv, SlotInv, ActiveImpliesPresent, HostToldPresence,
         SessionActive, PinEntryActive, AnswersNeverExceedApdus, slotVars,
         pinVars, apduCounts, driverVars, historyVars
    <1>5. Contact => ParametersInForce'
      BY <1>2 DEF CoreInv, ParametersInForce, ParameterPayload, paramVars,
         historyVars
    <1>6. QED  BY <1>3, <1>4, <1>5 DEF CoreInv

\* A command refused with a failed SlotStatus keeps the invariant.
LEMMA RefusedStep ==
    ASSUME CoreInv, NEW seq \in Seqs, NEW err \in Errors, NEW icc \in IccStates,
           Refused(seq, err, icc)
    PROVE  CoreInv'
    BY SlotStatusTyped, AnsweredLocallyStep DEF Refused
\* The commands on the parameters: the reply carries the payload that the
\* command leaves in force.
LEMMA ParameterStep ==
    ASSUME CoreInv, NEW seq \in Seqs,
           current_protocol' \in {0, 1},
           host_params' \in {NoParams} \cup [proto : {0, 1}, raw : HostSets],
           atr_params' \in [line : Sources, t1 : Sources],
           expected' \in Sources \cup {Unsettled},
           Contact => ParametersInForce',
           events' \subseteq {"parameters_accepted"},
           AnswerParameters(seq),
           UNCHANGED <<slotVars, pinVars, flagVars, apduCounts, driverVars, told>>
    PROVE  CoreInv'
    <1>1. ParameterPayload' \in Contents
      BY DEF ParameterPayload, Data, Contents, Sources
    <1>2. slot_state' \in IccStates  BY DEF CoreInv, TypeOK, slotVars
    <1>3. Reply("Parameters", seq, FALSE, "ok", slot_state', ParameterPayload')
             \in Replies
      BY <1>1, <1>2, ReplyTyped DEF Errors
    <1>4. response' \in Replies /\ error_count' \in 0..MaxCount
      BY <1>3, AnswerTyped DEF CoreInv, AnswerParameters
    <1>5. TypeOK'
      BY <1>4 DEF CoreInv, TypeOK, slotVars, pinVars, flagVars, apduCounts,
         driverVars
    <1>6. SlotInv' /\ AnswersNeverExceedApdus'
      BY DEF CoreInv, SlotInv, ActiveImpliesPresent, HostToldPresence,
         SessionActive, PinEntryActive, AnswersNeverExceedApdus, slotVars,
         pinVars, apduCounts, driverVars
    <1>7. QED  BY <1>5, <1>6 DEF CoreInv

\* PC_to_RDR_GetParameters keeps the invariant.
LEMMA GetParametersStep ==
    ASSUME CoreInv, NEW seq \in Seqs, GetParameters(seq)
    PROVE  CoreInv'
    <1>1. Contact => ParametersInForce'
      BY DEF GetParameters, CoreInv, ParametersInForce, ParameterPayload,
         paramVars, historyVars
    <1>2. QED
      BY <1>1, ParameterStep DEF GetParameters, CoreInv, TypeOK, paramVars,
         historyVars

\* The serial PC_to_RDR_SetParameters keeps the invariant.
LEMMA SetParametersStep ==
    ASSUME CoreInv, NEW seq \in Seqs, NEW proto \in 0..2, NEW full \in BOOLEAN,
           NEW raw \in HostSets, HandleSetParameters(seq, proto, full, raw)
    PROVE  CoreInv'
    <1>1. CASE proto > 1
      <2>1. Refused(seq, "CMD_NOT_SUPPORTED", slot_state)
        BY <1>1 DEF HandleSetParameters
      <2>2. QED  BY <2>1, RefusedStep DEF CoreInv, TypeOK, Errors
    <1>2. CASE proto \in {0, 1}
      <2>1. ~Contact  BY DEF HandleSetParameters
      <2>2. /\ current_protocol' \in {0, 1}
            /\ host_params' \in {NoParams} \cup [proto : {0, 1}, raw : HostSets]
            /\ atr_params' \in [line : Sources, t1 : Sources]
            /\ expected' \in Sources \cup {Unsettled}
            /\ events' \subseteq {"parameters_accepted"}
        BY <1>2 DEF HandleSetParameters, CoreInv, TypeOK, Sources
      <2>3. /\ AnswerParameters(seq)
            /\ UNCHANGED <<slotVars, pinVars, flagVars, apduCounts, driverVars,
                           told>>
        BY <1>2 DEF HandleSetParameters
      <2>4. QED  BY <2>1, <2>2, <2>3, ParameterStep
    <1>3. QED  BY <1>1, <1>2

\* The contact PC_to_RDR_SetParameters keeps the invariant, and what
\* GetParameters will report is the set it accepted.
LEMMA SetParametersContactStep ==
    ASSUME CoreInv, NEW seq \in Seqs, NEW proto \in 0..2, NEW full \in BOOLEAN,
           NEW valid \in BOOLEAN, NEW raw \in HostSets,
           HandleSetParametersContact(seq, proto, full, valid, raw)
    PROVE  CoreInv'
    <1>1. CASE ~full
      <2>1. Refused(seq, "0x07", slot_state)
        BY <1>1 DEF HandleSetParametersContact
      <2>2. QED  BY <2>1, RefusedStep DEF CoreInv, TypeOK, Errors
    <1>2. CASE full /\ (~valid \/ proto > 1)
      <2>1. Reply("Parameters", seq, TRUE, "0x08", slot_state, Plain("empty"))
               \in Replies
        BY ReplyTyped, EmptyTyped DEF CoreInv, TypeOK, Errors
      <2>2. AnsweredLocally(Reply("Parameters", seq, TRUE, "0x08", slot_state,
                                  Plain("empty")))
        <3>1. ~(full /\ valid /\ proto \in {0, 1})  BY <1>2
        <3>2. QED  BY <1>2, <3>1, Zenon DEF HandleSetParametersContact
      <2>3. QED  BY <2>1, <2>2, AnsweredLocallyStep
    <1>3. CASE full /\ valid /\ proto \in {0, 1}
      <2>1. /\ current_protocol' = proto
            /\ host_params' = [proto |-> proto, raw |-> raw]
            /\ atr_params' = [line |-> raw,
                              t1 |-> IF proto = 1 THEN raw ELSE atr_params.t1]
            /\ expected' = raw
            /\ events' = {"parameters_accepted"}
            /\ AnswerParameters(seq)
            /\ UNCHANGED <<slotVars, pinVars, flagVars, apduCounts, driverVars,
                           told>>
        <3>1. ~(proto > 1)  BY <1>3
        <3>2. QED  BY <1>3, <3>1, Zenon DEF HandleSetParametersContact
      <2>2. ParametersInForce'
        BY <1>3, <2>1, ParameterAssumption
           DEF ParametersInForce, ParameterPayload, Data
      <2>3. /\ host_params' \in {NoParams} \cup [proto : {0, 1}, raw : HostSets]
            /\ atr_params' \in [line : Sources, t1 : Sources]
            /\ expected' \in Sources \cup {Unsettled}
        BY <1>3, <2>1 DEF CoreInv, TypeOK, Sources
      <2>4. events' \subseteq {"parameters_accepted"} /\ current_protocol' \in {0, 1}
        BY <1>3, <2>1
      <2>5. QED  BY <2>1, <2>2, <2>3, <2>4, ParameterStep
    <1>4. QED  BY <1>1, <1>2, <1>3

\* PC_to_RDR_ResetParameters keeps the invariant on both profiles.
LEMMA ResetParametersStep ==
    ASSUME CoreInv, NEW seq \in Seqs, HandleResetParameters(seq)
    PROVE  CoreInv'
    <1>1. /\ current_protocol' \in {0, 1}
          /\ host_params' \in {NoParams} \cup [proto : {0, 1}, raw : HostSets]
          /\ atr_params' \in [line : Sources, t1 : Sources]
          /\ expected' = Default
          /\ events' = {"parameters_accepted"}
      BY DEF HandleResetParameters, CoreInv, TypeOK, Sources
    <1>2. Contact => ParametersInForce'
      BY <1>1 DEF HandleResetParameters, ParametersInForce, ParameterPayload, Data
    <1>3. /\ AnswerParameters(seq)
          /\ UNCHANGED <<slotVars, pinVars, flagVars, apduCounts, driverVars, told>>
      BY DEF HandleResetParameters
    <1>4. events' \subseteq {"parameters_accepted"} /\ expected' \in Sources
      BY <1>1 DEF Sources
    <1>5. QED  BY <1>1, <1>2, <1>3, <1>4, ParameterStep
-----------------------------------------------------------------------------
(* Power *)

\* A power-on that the driver fails keeps the invariant: the slot is left
\* PresentInactive with the presence cache as it was.
LEMMA PowerOnFailedStep ==
    ASSUME CoreInv, NEW seq \in Seqs, NEW err \in Errors, PowerOnFailed(seq, err)
    PROVE  CoreInv'
    <1>1. response' \in Replies /\ error_count' \in 0..MaxCount
      BY SlotStatusTyped, AnswerTyped DEF CoreInv, PowerOnFailed, IccStates
    <1>2. session' \in {session, NoCard}
      BY DEF PowerOnFailed, DriverPowerOn
    <1>3. TypeOK'
      BY <1>1, <1>2 DEF CoreInv, TypeOK, PowerOnFailed, DriverPowerOn, IccStates,
         paramVars, pinVars, flagVars, apduCounts, historyVars
    <1>4. SlotInv' /\ AnswersNeverExceedApdus'
      BY <1>2 DEF CoreInv, SlotInv, ActiveImpliesPresent, HostToldPresence,
         SessionActive, PinEntryActive, AnswersNeverExceedApdus, PowerOnFailed,
         pinVars, apduCounts, historyVars
    <1>5. Contact => ParametersInForce'
      BY DEF CoreInv, PowerOnFailed, ParametersInForce, ParameterPayload,
         paramVars, historyVars
    <1>6. QED  BY <1>3, <1>4, <1>5 DEF CoreInv

\* A successful power-on keeps the slot invariant: the host learns of the
\* card from the answer itself.
LEMMA PowerOnSucceededStep ==
    ASSUME CoreInv, NEW seq \in Seqs, PowerOnSucceeded(seq),
           current_protocol' \in {0, 1},
           host_params' \in {NoParams} \cup [proto : {0, 1}, raw : HostSets],
           atr_params' \in [line : Sources, t1 : Sources],
           expected' \in Sources \cup {Unsettled},
           Contact => ParametersInForce'
    PROVE  CoreInv'
    <1>1. card \in Cards /\ card' = card /\ session' = card
      BY DEF PowerOnSucceeded, DriverPowerOn, CoreInv, TypeOK
    <1>2. Data("atr", 0, card, Default) \in Contents
      BY <1>1 DEF Data, Contents, Sources
    <1>3. response' \in Replies /\ error_count' \in 0..MaxCount
      BY <1>2, DataBlockTyped, AnswerTyped
         DEF CoreInv, PowerOnSucceeded, IccStates
    <1>4. TypeOK'
      BY <1>1, <1>3 DEF CoreInv, TypeOK, PowerOnSucceeded, IccStates, pinVars,
         flagVars, apduCounts
    <1>5. SlotInv' /\ AnswersNeverExceedApdus'
      BY DEF CoreInv, SlotInv, ActiveImpliesPresent, HostToldPresence,
         SessionActive, PinEntryActive, AnswersNeverExceedApdus,
         PowerOnSucceeded, pinVars, apduCounts
    <1>6. QED  BY <1>4, <1>5 DEF CoreInv

\* The serial PC_to_RDR_IccPowerOn keeps the invariant.
LEMMA PowerOnStep ==
    ASSUME CoreInv, NEW seq \in Seqs, HandlePowerOn(seq)
    PROVE  CoreInv'
    <1>1. CASE Refused(seq, "CMD_NOT_SUPPORTED", "Absent")
      BY <1>1, RefusedStep DEF Errors, IccStates
    <1>2. CASE PowerOnFailed(seq, "HW_ERROR")
      BY <1>2, PowerOnFailedStep DEF Errors
    <1>3. CASE PowerOnSucceeded(seq) /\ expected' = Default /\ UNCHANGED paramVars
      <2>1. ~Contact  BY DEF HandlePowerOn
      <2>2. /\ current_protocol' \in {0, 1}
            /\ host_params' \in {NoParams} \cup [proto : {0, 1}, raw : HostSets]
            /\ atr_params' \in [line : Sources, t1 : Sources]
            /\ expected' \in Sources \cup {Unsettled}
        BY <1>3 DEF CoreInv, TypeOK, paramVars, Sources
      <2>3. QED  BY <1>3, <2>1, <2>2, PowerOnSucceededStep
    <1>4. QED  BY <1>1, <1>2, <1>3 DEF HandlePowerOn

\* The contact PC_to_RDR_IccPowerOn keeps the invariant: the ATR replaces
\* the parameters of the host and of an earlier card.
LEMMA PowerOnContactStep ==
    ASSUME CoreInv, NEW seq \in Seqs, NEW length0 \in BOOLEAN,
           NEW voltageOk \in BOOLEAN,
           HandlePowerOnContact(seq, length0, voltageOk)
    PROVE  CoreInv'
    <1>1. ASSUME NEW err \in {"CMD_NOT_SUPPORTED", "ICC_MUTE"},
                 NEW icc \in IccStates, Refused(seq, err, icc)
          PROVE  CoreInv'
      BY <1>1, RefusedStep DEF Errors
    <1>2. CASE PowerOnFailed(seq, "ICC_MUTE")
      BY <1>2, PowerOnFailedStep DEF Errors
    <1>3. CASE /\ PowerOnSucceeded(seq)
               /\ atr_params' = [line |-> card, t1 |-> card]
               /\ current_protocol' = CardProtocol[card]
               /\ host_params' = NoParams
               /\ expected' = card
      <2>1. card \in Cards
        BY <1>3 DEF PowerOnSucceeded, DriverPowerOn, CoreInv, TypeOK
      <2>2. /\ current_protocol' \in {0, 1}
            /\ host_params' \in {NoParams} \cup [proto : {0, 1}, raw : HostSets]
            /\ atr_params' \in [line : Sources, t1 : Sources]
            /\ expected' \in Sources \cup {Unsettled}
        BY <1>3, <2>1, CardAssumption DEF Sources
      <2>3. Contact => ParametersInForce'
        BY <1>3 DEF ParametersInForce, ParameterPayload, Data
      <2>4. QED  BY <1>3, <2>2, <2>3, PowerOnSucceededStep
    <1>4. slot_state \in IccStates /\ "Absent" \in IccStates
             /\ "PresentInactive" \in IccStates
      BY DEF CoreInv, TypeOK, IccStates
    <1>5. QED  BY <1>1, <1>2, <1>3, <1>4, Zenon DEF HandlePowerOnContact

\* PC_to_RDR_IccPowerOff keeps the invariant.
LEMMA PowerOffStep ==
    ASSUME CoreInv, NEW seq \in Seqs, HandlePowerOff(seq)
    PROVE  CoreInv'
    <1>1. response' \in Replies /\ error_count' \in 0..MaxCount
      <2>1. SlotStatus(seq, FALSE, "ok", "PresentInactive") \in Replies
        BY SlotStatusTyped DEF IccStates, Errors
      <2>2. QED  BY <2>1, AnswerTyped DEF CoreInv, HandlePowerOff
    <1>2. TypeOK'
      BY <1>1 DEF CoreInv, TypeOK, HandlePowerOff, DriverPowerOff, IccStates,
         pinVars, flagVars, apduCounts
    <1>3. SlotInv' /\ AnswersNeverExceedApdus'
      BY DEF CoreInv, SlotInv, ActiveImpliesPresent, HostToldPresence,
         SessionActive, PinEntryActive, AnswersNeverExceedApdus, HandlePowerOff,
         DriverPowerOff, pinVars, apduCounts
    <1>4. Contact => ParametersInForce'
      BY DEF HandlePowerOff, ParametersInForce
    <1>5. QED  BY <1>2, <1>3, <1>4 DEF CoreInv
-----------------------------------------------------------------------------
(* Card exchanges *)

\* count_transmit keeps the counters typed and in order.
LEMMA CountTransmitStep ==
    ASSUME TypeOK, AnswersNeverExceedApdus, NEW ok \in BOOLEAN, CountTransmit(ok)
    PROVE  /\ apdu_tx' \in 0..MaxCount /\ apdu_rx' \in 0..MaxCount
           /\ apdu_rx' <= apdu_tx'
    <1>1. Saturate(apdu_rx) <= Saturate(apdu_tx)
      BY SaturateMonotone DEF TypeOK, AnswersNeverExceedApdus
    <1>2. /\ Saturate(apdu_tx) \in 0..MaxCount /\ Saturate(apdu_rx) \in 0..MaxCount
          /\ apdu_tx <= Saturate(apdu_tx)
      BY SaturateTyped DEF TypeOK
    <1>3. QED
      BY <1>1, <1>2, ProfileAssumption
         DEF CountTransmit, TypeOK, AnswersNeverExceedApdus

\* An exchange may lose the session and take the slot out of PresentActive,
\* never the reverse.
LEMMA ExchangeStep ==
    ASSUME CoreInv,
           response' \in Replies, error_count' \in 0..MaxCount,
           apdu_tx' \in 0..MaxCount, apdu_rx' \in 0..MaxCount,
           apdu_rx' <= apdu_tx',
           slot_state' \in {slot_state, "PresentInactive"},
           session' \in {session, NoCard},
           secure_state' \in {secure_state, Idle}, pad' \in {pad, Idle},
           events' = {},
           UNCHANGED <<present, paramVars, flagVars, card, historyVars>>
    PROVE  CoreInv'
    <1>1. TypeOK'
      BY DEF CoreInv, TypeOK, IccStates, Sessions, paramVars, flagVars, historyVars
    <1>2. SlotInv' /\ AnswersNeverExceedApdus'
      BY DEF CoreInv, SlotInv, ActiveImpliesPresent, HostToldPresence,
         SessionActive, PinEntryActive, Idle, AnswersNeverExceedApdus, historyVars
    <1>3. Contact => ParametersInForce'
      BY DEF CoreInv, ParametersInForce, ParameterPayload, paramVars, historyVars
    <1>4. QED  BY <1>1, <1>2, <1>3 DEF CoreInv

\* apdu_pipeline without its reply keeps all but the reply.
LEMMA RunApduStep ==
    ASSUME CoreInv, NEW ok \in BOOLEAN, NEW class, RunApdu(class, ok),
           response' \in Replies, error_count' \in 0..MaxCount
    PROVE  CoreInv'
    <1>1. CASE UNCHANGED <<slot_state, apduCounts, driverVars>>
      BY <1>1, ExchangeStep DEF RunApdu, CoreInv, TypeOK, pinVars, apduCounts,
         driverVars, AnswersNeverExceedApdus
    <1>2. CASE /\ DriverTransmit(ok)
               /\ CountTransmit(ok)
               /\ slot_state' = IF ok THEN slot_state ELSE "PresentInactive"
      <2>1. /\ apdu_tx' \in 0..MaxCount /\ apdu_rx' \in 0..MaxCount
            /\ apdu_rx' <= apdu_tx'
        BY <1>2, CountTransmitStep DEF CoreInv
      <2>2. session' \in {session, NoCard} /\ UNCHANGED card
        BY <1>2 DEF DriverTransmit
      <2>3. QED
        BY <1>2, <2>1, <2>2, ExchangeStep DEF RunApdu, pinVars
    <1>3. QED  BY <1>1, <1>2 DEF RunApdu

\* The serial PC_to_RDR_XfrBlock keeps the invariant.
LEMMA XfrBlockStep ==
    ASSUME CoreInv, NEW seq \in Seqs, NEW class \in ApduClasses,
           HandleXfrBlock(seq, class)
    PROVE  CoreInv'
    <1>1. CASE AnsweredLocally(DataBlockFailed(seq, "ICC_NOT_ACTIVE", slot_state))
      BY <1>1, DataBlockFailedTyped, AnsweredLocallyStep
         DEF CoreInv, TypeOK, Errors
    <1>2. CASE ApduPipeline(seq, class)
      <2>1. PICK ok \in BOOLEAN, what \in PipelineData(class) :
              /\ RunApdu(class, ok)
              /\ Answer(IF ok THEN DataBlock(seq, "PresentActive", Plain(what))
                        ELSE DataBlockFailed(seq, "CARD_TIMEOUT", "PresentInactive"))
        BY <1>2 DEF ApduPipeline
      <2>2. Plain(what) \in Contents
        BY DEF ApduClasses, PipelineData, Plain, Data, Contents, Sources
      <2>3. /\ DataBlock(seq, "PresentActive", Plain(what)) \in Replies
            /\ DataBlockFailed(seq, "CARD_TIMEOUT", "PresentInactive") \in Replies
        BY <2>2, DataBlockTyped, DataBlockFailedTyped DEF Errors, IccStates
      <2>4. response' \in Replies /\ error_count' \in 0..MaxCount
        BY <2>1, <2>3, AnswerTyped DEF CoreInv
      <2>5. QED  BY <2>1, <2>4, RunApduStep
    <1>3. QED  BY <1>1, <1>2 DEF HandleXfrBlock

\* The contact PC_to_RDR_XfrBlock keeps the invariant.
LEMMA XfrBlockContactStep ==
    ASSUME CoreInv, NEW seq \in Seqs, NEW class \in ApduClasses,
           HandleXfrBlockContact(seq, class)
    PROVE  CoreInv'
    <1> DEFINE XfrErrors == {"XFR_PARITY", "XFR_OVERRUN", "CARD_TIMEOUT",
                             "ICC_MUTE", "HW_ERROR"}
    <1>1. CASE Refused(seq, "ICC_MUTE", slot_state)
      BY <1>1, RefusedStep DEF CoreInv, TypeOK, Errors
    <1>2. CASE Refused(seq, "0x07", "PresentActive")
      BY <1>2, RefusedStep DEF Errors, IccStates
    <1>3. /\ Plain("pps") \in Contents /\ Plain("rapdu") \in Contents
      BY DEF Plain, Data, Contents, Sources
    <1>4. CASE AnsweredLocally(DataBlock(seq, "PresentActive", Plain("pps")))
      BY <1>3, <1>4, DataBlockTyped, AnsweredLocallyStep DEF IccStates
    <1>5. ASSUME NEW ok \in BOOLEAN, NEW err \in XfrErrors,
                 DriverTransmit(ok), CountTransmit(ok),
                 Answer(IF ok THEN DataBlock(seq, "PresentActive", Plain("rapdu"))
                        ELSE DataBlockFailed(seq, err, "PresentActive")),
                 events' = {},
                 UNCHANGED <<slotVars, paramVars, pinVars, flagVars, historyVars>>
          PROVE  CoreInv'
      <2>1. /\ DataBlock(seq, "PresentActive", Plain("rapdu")) \in Replies
            /\ DataBlockFailed(seq, err, "PresentActive") \in Replies
        BY <1>3, DataBlockTyped, DataBlockFailedTyped DEF Errors, IccStates
      <2>2. response' \in Replies /\ error_count' \in 0..MaxCount
        BY <1>5, <2>1, AnswerTyped DEF CoreInv
      <2>3. /\ apdu_tx' \in 0..MaxCount /\ apdu_rx' \in 0..MaxCount
            /\ apdu_rx' <= apdu_tx'
        BY <1>5, CountTransmitStep DEF CoreInv
      <2>4. session' \in {session, NoCard} /\ UNCHANGED card
        BY <1>5 DEF DriverTransmit
      <2>5. QED
        BY <1>5, <2>2, <2>3, <2>4, ExchangeStep DEF slotVars, pinVars
    <1>6. QED
      BY <1>1, <1>2, <1>4, <1>5, Zenon DEF HandleXfrBlockContact

-----------------------------------------------------------------------------
(* The PIN session *)

\* PC_to_RDR_Secure keeps the invariant: it arms a session only on an active
\* slot of a PIN-pad reader, so with a card.
LEMMA SecureStep ==
    ASSUME CoreInv, NEW seq \in Seqs, NEW op \in {"Verify", "Modify", "malformed"},
           HandleSecure(seq, op)
    PROVE  CoreInv'
    <1>1. CASE AnsweredLocally(SecureNotSupported(seq))
      <2>1. SecureNotSupported(seq) \in Replies
        BY SlotStatusTyped, DataBlockFailedTyped
           DEF SecureNotSupported, CoreInv, TypeOK, Errors
      <2>2. QED  BY <1>1, <2>1, AnsweredLocallyStep
    <1>2. CASE AnsweredLocally(DataBlockFailed(seq, "CMD_SLOT_BUSY", slot_state))
      BY <1>2, DataBlockFailedTyped, AnsweredLocallyStep
         DEF CoreInv, TypeOK, Errors
    <1>3. CASE /\ PinPad /\ slot_state = "PresentActive"
               /\ op \in {"Verify", "Modify"}
               /\ secure_state' = Armed(op, seq)
               /\ response' = NoReply
               /\ events' = {}
               /\ UNCHANGED <<slotVars, paramVars, pad, flagVars, apduCounts,
                              error_count, driverVars, historyVars>>
      <2>1. TypeOK'
        BY <1>3 DEF CoreInv, TypeOK, Sessions, Armed, Replies, slotVars, paramVars,
           flagVars, apduCounts, driverVars, historyVars
      <2>2. SlotInv' /\ AnswersNeverExceedApdus'
        BY <1>3 DEF CoreInv, SlotInv, ActiveImpliesPresent, HostToldPresence,
           SessionActive, AnswersNeverExceedApdus, slotVars, apduCounts,
           driverVars, historyVars
      <2>3. Contact => ParametersInForce'
        BY <1>3 DEF CoreInv, ParametersInForce, ParameterPayload, paramVars,
           historyVars
      <2>4. QED  BY <2>1, <2>2, <2>3 DEF CoreInv
    <1>4. QED  BY <1>1, <1>2, <1>3 DEF HandleSecure

\* Taking the armed PIN session over keeps the invariant.
LEMMA TakeSecureStep ==
    ASSUME CoreInv, NEW kind \in {"Verify", "Modify"}, TakeSecure(kind)
    PROVE  CoreInv'
    <1>1. TypeOK'
      BY DEF CoreInv, TypeOK, TakeSecure, PinQuiet, Sessions, Replies, slotVars,
         paramVars, flagVars, apduCounts, driverVars, historyVars
    <1>2. SlotInv' /\ AnswersNeverExceedApdus'
      BY DEF CoreInv, SlotInv, ActiveImpliesPresent, HostToldPresence,
         SessionActive, PinEntryActive, Idle, AnswersNeverExceedApdus, TakeSecure,
         PinQuiet, slotVars, apduCounts, driverVars, historyVars
    <1>3. Contact => ParametersInForce'
      BY DEF CoreInv, ParametersInForce, ParameterPayload, TakeSecure, PinQuiet,
         paramVars, historyVars
    <1>4. QED  BY <1>1, <1>2, <1>3 DEF CoreInv

\* Ending a PIN session, with or without its APDU, keeps the invariant.
LEMMA PinExchangeStep ==
    ASSUME CoreInv, PinExchange
    PROVE  CoreInv'
    <1>1. pad \in Sessions /\ pad # Idle  BY DEF PinExchange, CoreInv, TypeOK
    <1>2. pad.seq \in Seqs  BY <1>1 DEF Sessions
    <1>3. ASSUME NEW err \in {"ok", "PIN_CANCELLED", "PIN_TIMEOUT", "CMD_ABORTED"},
                 NEW data \in Contents, CompletePinEntry(err, data)
          PROVE  /\ response' \in Replies /\ error_count' \in 0..MaxCount
                 /\ secure_state' = Idle /\ pad' = Idle
                 /\ events' = {}
                 /\ UNCHANGED <<slotVars, paramVars, flagVars, historyVars>>
      <2>1. Reply("DataBlock", pad.seq, err # "ok", err, slot_state, data) \in Replies
        <3>1. (err # "ok") \in BOOLEAN  OBVIOUS
        <3>2. err \in Errors  BY DEF Errors
        <3>3. slot_state \in IccStates  BY DEF CoreInv, TypeOK
        <3>4. QED  BY <1>2, <3>1, <3>2, <3>3, ReplyTyped
      <2>2. QED  BY <1>3, <2>1 DEF CompletePinEntry, PinQuiet, CoreInv, TypeOK
    <1>4. Plain("empty") \in Contents /\ Plain("rapdu") \in Contents
      BY DEF Plain, Data, Contents, Sources
    <1>5. ASSUME NEW err \in {"PIN_CANCELLED", "PIN_TIMEOUT", "CMD_ABORTED"},
                 CompletePinEntry(err, Plain("empty")),
                 UNCHANGED <<apduCounts, driverVars>>
          PROVE  CoreInv'
      BY <1>3, <1>4, <1>5, ExchangeStep DEF CoreInv, TypeOK, slotVars, apduCounts,
         driverVars, AnswersNeverExceedApdus
    <1>6. ASSUME NEW ok \in BOOLEAN, DriverTransmit(ok), CountTransmit(ok),
                 CompletePinEntry(IF ok THEN "ok" ELSE "PIN_CANCELLED",
                                  Plain(IF ok THEN "rapdu" ELSE "empty"))
          PROVE  CoreInv'
      <2>1. /\ apdu_tx' \in 0..MaxCount /\ apdu_rx' \in 0..MaxCount
            /\ apdu_rx' <= apdu_tx'
        BY <1>6, CountTransmitStep DEF CoreInv
      <2>2. session' \in {session, NoCard} /\ UNCHANGED card
        BY <1>6 DEF DriverTransmit
      <2>3. /\ response' \in Replies /\ error_count' \in 0..MaxCount
            /\ secure_state' = Idle /\ pad' = Idle
            /\ events' = {}
            /\ UNCHANGED <<slotVars, paramVars, flagVars, historyVars>>
        <3>1. CASE ok
          <4>1. CompletePinEntry("ok", Plain("rapdu"))  BY <1>6, <3>1
          <4>2. QED  BY <1>3, <1>4, <4>1
        <3>2. CASE ~ok
          <4>1. CompletePinEntry("PIN_CANCELLED", Plain("empty"))  BY <1>6, <3>2
          <4>2. QED  BY <1>3, <1>4, <4>1
        <3>3. QED  BY <3>1, <3>2
      <2>4. QED  BY <2>1, <2>2, <2>3, ExchangeStep DEF slotVars
    <1>7. QED  BY <1>5, <1>6 DEF PinExchange
-----------------------------------------------------------------------------
(* The remaining commands, the poll and the world outside.                 *)

\* PC_to_RDR_Escape keeps the invariant.
LEMMA EscapeStep ==
    ASSUME CoreInv, NEW seq \in Seqs, NEW op \in EscapeOps, HandleEscape(seq, op)
    PROVE  CoreInv'
    <1> DEFINE known == op = "D0" \/ (~Contact /\ op # "other")
               r == Reply("Escape", seq, ~known,
                          IF known THEN "ok" ELSE "CMD_NOT_SUPPORTED",
                          slot_state, Plain(IF known THEN "escape" ELSE "empty"))
    <1>1. r \in Replies
      <2>1. (~known) \in BOOLEAN  OBVIOUS
      <2>2. (IF known THEN "ok" ELSE "CMD_NOT_SUPPORTED") \in Errors
        BY DEF Errors
      <2>3. Plain(IF known THEN "escape" ELSE "empty") \in Contents
        BY DEF Plain, Data, Contents, Sources
      <2>4. slot_state \in IccStates  BY DEF CoreInv, TypeOK
      <2> HIDE DEF known
      <2>5. QED  BY <2>1, <2>2, <2>3, <2>4, ReplyTyped
    <1>2. response' \in Replies /\ error_count' \in 0..MaxCount
      <2>1. Answer(r)  BY DEF HandleEscape
      <2> HIDE DEF r
      <2>2. QED  BY <1>1, <2>1, AnswerTyped DEF CoreInv
    <1>3. /\ snapshot_requested' \in BOOLEAN /\ sync_notifications' \in BOOLEAN
          /\ events' = {}
          /\ UNCHANGED <<slotVars, paramVars, pinVars, apduCounts, driverVars,
                         historyVars>>
      BY DEF HandleEscape, CoreInv, TypeOK
    <1>4. TypeOK'
      BY <1>2, <1>3 DEF CoreInv, TypeOK, slotVars, paramVars, pinVars, apduCounts,
         driverVars, historyVars
    <1>5. SlotInv' /\ AnswersNeverExceedApdus'
      BY <1>3 DEF CoreInv, SlotInv, ActiveImpliesPresent, HostToldPresence,
         SessionActive, PinEntryActive, AnswersNeverExceedApdus, slotVars,
         pinVars, apduCounts, driverVars, historyVars
    <1>6. Contact => ParametersInForce'
      BY <1>3 DEF CoreInv, ParametersInForce, ParameterPayload, paramVars,
         historyVars
    <1>7. QED  BY <1>4, <1>5, <1>6 DEF CoreInv

\* PC_to_RDR_Abort and unknown commands keep the invariant.
LEMMA AbortOrUnknownStep ==
    ASSUME CoreInv, NEW seq \in Seqs, NEW abort \in BOOLEAN,
           AbortOrUnknown(seq, abort)
    PROVE  CoreInv'
    <1>1. /\ SlotStatus(seq, FALSE, "ok", slot_state) \in Replies
          /\ SlotStatus(seq, TRUE, "CMD_NOT_SUPPORTED", slot_state) \in Replies
      BY SlotStatusTyped DEF CoreInv, TypeOK, Errors
    <1>2. QED  BY <1>1, AnsweredLocallyStep DEF AbortOrUnknown

\* PC_to_RDR_GetSlotStatus keeps the invariant.
LEMMA GetSlotStatusStep ==
    ASSUME CoreInv, NEW seq \in Seqs, GetSlotStatus(seq)
    PROVE  CoreInv'
    <1>1. SlotStatus(seq, FALSE, "ok", slot_state) \in Replies
      BY SlotStatusTyped DEF CoreInv, TypeOK, Errors
    <1>2. QED  BY <1>1, AnsweredLocallyStep DEF GetSlotStatus

\* Steps outside the handler: the card moves, the driver drops its session,
\* the serve loop takes a snapshot request.
LEMMA OutsideStep ==
    ASSUME CoreInv, TakeSnapshotRequest \/ MoveCard \/ DriverDropsSession
    PROVE  CoreInv'
    <1>1. /\ card' \in Cards \cup {NoCard} /\ session' \in {session, NoCard}
          /\ snapshot_requested' \in BOOLEAN
          /\ events' = {} /\ response' = NoReply
          /\ UNCHANGED <<slotVars, paramVars, pinVars, sync_notifications,
                         apduCounts, error_count, historyVars>>
      BY DEF CoreInv, TypeOK, TakeSnapshotRequest, MoveCard, DriverDropsSession,
         DriverPowerOff, Quiet, driverVars, flagVars
    <1>2. TypeOK'
      BY <1>1 DEF CoreInv, TypeOK, Replies, slotVars, paramVars, pinVars,
         apduCounts, historyVars
    <1>3. SlotInv' /\ AnswersNeverExceedApdus'
      BY <1>1 DEF CoreInv, SlotInv, ActiveImpliesPresent, HostToldPresence,
         SessionActive, PinEntryActive, AnswersNeverExceedApdus, slotVars,
         pinVars, apduCounts, historyVars
    <1>4. Contact => ParametersInForce'
      BY <1>1 DEF CoreInv, ParametersInForce, ParameterPayload, paramVars,
         historyVars
    <1>5. QED  BY <1>2, <1>3, <1>4 DEF CoreInv

\* check_card_change keeps the invariant on each of its five paths.
LEMMA CheckCardChangeStep ==
    ASSUME CoreInv, CheckCardChange
    PROVE  CoreInv'
    <1>1. /\ response' = NoReply
          /\ told' = ("change_present" \in events'
                      \/ (told /\ "change_absent" \notin events'))
          /\ UNCHANGED <<pad, paramVars, flagVars, apduCounts, error_count, card,
                         expected>>
      BY DEF CheckCardChange
    <1>2. /\ slot_state' \in IccStates /\ present' \in BOOLEAN
          /\ session' \in {session, NoCard} /\ secure_state' \in {secure_state, Idle}
          /\ events' \subseteq {"card_reset", "change_present", "change_absent"}
      BY DEF CheckCardChange, SessionKeepsSlot, SessionLostUnderCard,
         PresenceUnchanged, CardInserted, CardRemoved, IccStates, CoreInv, TypeOK,
         slotVars
    <1>3. told' \in BOOLEAN  BY <1>1
    <1>4. TypeOK'
      BY <1>1, <1>2, <1>3 DEF CoreInv, TypeOK, Replies, Sessions, paramVars,
         flagVars, apduCounts
    <1>5. SlotInv'
      <2>1. CASE SessionKeepsSlot
        BY <1>1, <2>1 DEF CoreInv, TypeOK, SlotInv, SessionKeepsSlot, SessionActive,
           ActiveImpliesPresent, HostToldPresence, PinEntryActive
      <2>2. CASE SessionLostUnderCard
        BY <1>1, <2>2 DEF CoreInv, TypeOK, SlotInv, SessionLostUnderCard,
           SessionActive, ActiveImpliesPresent, HostToldPresence, PinEntryActive
      <2>3. CASE PresenceUnchanged
        BY <1>1, <2>3 DEF CoreInv, TypeOK, SlotInv, PresenceUnchanged, slotVars,
           SessionActive, ActiveImpliesPresent, HostToldPresence, PinEntryActive
      <2>4. CASE CardInserted
        BY <1>1, <2>4 DEF CoreInv, TypeOK, SlotInv, CardInserted, SessionActive,
           ActiveImpliesPresent, HostToldPresence, PinEntryActive
      <2>5. CASE CardRemoved
        BY <1>1, <2>5, ProfileAssumption
           DEF CoreInv, TypeOK, SlotInv, CardRemoved, SessionActive, Idle,
           ActiveImpliesPresent, HostToldPresence, PinEntryActive
      <2>6. QED  BY <2>1, <2>2, <2>3, <2>4, <2>5 DEF CheckCardChange
    <1>6. AnswersNeverExceedApdus'
      BY <1>1 DEF CoreInv, AnswersNeverExceedApdus, apduCounts
    <1>7. Contact => ParametersInForce'
      BY <1>1 DEF CoreInv, ParametersInForce, ParameterPayload, paramVars
    <1>8. QED  BY <1>4, <1>5, <1>6, <1>7 DEF CoreInv

-----------------------------------------------------------------------------
(* The theorems *)

\* The handler starts in the invariant, with or without a card in the slot.
LEMMA InitEstablishes == Init => CoreInv
    <1> SUFFICES ASSUME Init PROVE CoreInv  OBVIOUS
    <1>1. TypeOK
      <2>1. present \in BOOLEAN  BY ProfileAssumption DEF Init
      <2>2. slot_state \in IccStates /\ told \in BOOLEAN
        BY <2>1 DEF Init, IccStates
      <2>3. current_protocol \in {0, 1}  BY DEF Init
      <2>4. apdu_tx \in 0..MaxCount /\ apdu_rx \in 0..MaxCount
               /\ error_count \in 0..MaxCount
        BY ProfileAssumption DEF Init
      <2>5. QED
        BY <2>1, <2>2, <2>3, <2>4 DEF Init, TypeOK, Sources, Sessions, Replies
    <1>2. SlotInv
      BY DEF Init, SlotInv, ActiveImpliesPresent, HostToldPresence, SessionActive,
         PinEntryActive, Idle
    <1>3. AnswersNeverExceedApdus  BY DEF Init, AnswersNeverExceedApdus
    <1>4. ParametersInForce
      BY DEF Init, ParametersInForce, ParameterPayload, Data
    <1>5. QED  BY <1>1, <1>2, <1>3, <1>4 DEF CoreInv

\* Every step keeps the invariant: one case per action.
LEMMA NextPreserves == CoreInv /\ [Next]_vars => CoreInv'
    <1> SUFFICES ASSUME CoreInv, [Next]_vars PROVE CoreInv'  OBVIOUS
    <1>1. ASSUME NEW seq \in Seqs, XfrBlock(seq)  PROVE CoreInv'
      BY <1>1, XfrBlockStep, XfrBlockContactStep DEF XfrBlock
    <1>2. ASSUME NEW seq \in Seqs, OtherCommand(seq)  PROVE CoreInv'
      BY <1>2, PowerOnStep, PowerOnContactStep, PowerOffStep, GetSlotStatusStep,
         GetParametersStep, SetParametersStep, SetParametersContactStep,
         ResetParametersStep, EscapeStep, SecureStep, AbortOrUnknownStep
         DEF OtherCommand
    <1>3. CASE TakeSnapshotRequest \/ MoveCard \/ DriverDropsSession
      BY <1>3, OutsideStep
    <1>4. ASSUME NEW kind \in {"Verify", "Modify"}, TakeSecure(kind)  PROVE CoreInv'
      BY <1>4, TakeSecureStep
    <1>5. CASE PinExchange  BY <1>5, PinExchangeStep
    <1>6. CASE CheckCardChange  BY <1>6, CheckCardChangeStep
    <1>7. CASE UNCHANGED vars
      <2>1. UNCHANGED <<slotVars, paramVars, pinVars, flagVars, apduCounts,
                        error_count, events, response, driverVars, historyVars>>
        BY <1>7 DEF vars, pinVars
      <2>2. TypeOK'
        BY <2>1 DEF CoreInv, TypeOK, slotVars, paramVars, pinVars, flagVars,
           apduCounts, driverVars, historyVars
      <2>3. SlotInv' /\ AnswersNeverExceedApdus'
        BY <2>1 DEF CoreInv, SlotInv, ActiveImpliesPresent, HostToldPresence,
           SessionActive, PinEntryActive, AnswersNeverExceedApdus, slotVars,
           pinVars, apduCounts, driverVars, historyVars
      <2>4. Contact => ParametersInForce'
        BY <2>1 DEF CoreInv, ParametersInForce, ParameterPayload, paramVars,
           historyVars
      <2>5. QED  BY <2>2, <2>3, <2>4 DEF CoreInv
    <1>8. QED
      BY <1>1, <1>2, <1>3, <1>4, <1>5, <1>6, <1>7 DEF Next, ProcessCommand

\* The inductive invariant holds in every reachable state of the handler.
THEOREM InvariantHolds == Spec => []CoreInv
    BY InitEstablishes, NextPreserves, PTL DEF Spec

\* The variables keep their types and the diagnostics counters never pass
\* the point where they saturate.
THEOREM TypeCorrect == Spec => []TypeOK
    <1>1. CoreInv => TypeOK  BY DEF CoreInv
    <1>2. QED  BY <1>1, InvariantHolds, PTL

\* A slot reported active has a card in the presence cache, in both profiles
\* and for any interleaving of commands, polls and card movements.
THEOREM ActiveHasCard == Spec => []ActiveImpliesPresent
    <1>1. CoreInv => ActiveImpliesPresent  BY DEF CoreInv, SlotInv
    <1>2. QED  BY <1>1, InvariantHolds, PTL

\* The host is told of every presence change, none lost and none repeated,
\* although a poll that meets a live session sets `present` silently.
THEOREM HostIsTold == Spec => []HostToldPresence
    <1>1. CoreInv => HostToldPresence  BY DEF CoreInv, SlotInv
    <1>2. QED  BY <1>1, InvariantHolds, PTL

\* An armed PIN session always has its card.
THEOREM PinHasCard == Spec => []ArmedPinHasCard
    <1>1. CoreInv => ArmedPinHasCard  BY DEF CoreInv, SlotInv, ArmedPinHasCard
    <1>2. QED  BY <1>1, InvariantHolds, PTL

\* The counters agree on every exchange path, saturated or not.
THEOREM CountersAgree == Spec => []AnswersNeverExceedApdus
    <1>1. CoreInv => AnswersNeverExceedApdus  BY DEF CoreInv
    <1>2. QED  BY <1>1, InvariantHolds, PTL

\* A contact reader always reports the parameters that are in force.
THEOREM ContactParameters == Contact => (Spec => []ParametersInForce)
    <1>1. ASSUME Contact PROVE Spec => []ParametersInForce
      <2>1. CoreInv => ParametersInForce  BY <1>1 DEF CoreInv
      <2>2. QED  BY <2>1, InvariantHolds, PTL
    <1>2. QED  BY <1>1

\* The handler's records of the slot agree, in both profiles and for any
\* interleaving of commands, polls and card movements.
THEOREM HandlerConsistent == Spec => []HandlerIsConsistent
    BY ActiveHasCard, HostIsTold, CountersAgree, PTL DEF HandlerIsConsistent

\* A contact reader reports the parameters in force and arms no PIN session
\* without its card.
THEOREM ContactConsistent == Contact => (Spec => []ContactIsConsistent)
    <1>1. ASSUME Contact PROVE Spec => []ContactIsConsistent
      <2>1. Spec => []ParametersInForce  BY <1>1, ContactParameters
      <2>2. QED  BY <2>1, PinHasCard, PTL DEF ContactIsConsistent
    <1>2. QED  BY <1>1
=============================================================================
