----------------------------- MODULE CardDriver -----------------------------
(***************************************************************************)
(* The contact card drivers of firmware/ccid-firmware/src (SmartcardUart   *)
(* in smartcard.rs, SmartcardBitbang in smartcard_bitbang.rs), the         *)
(* self-healing wrapper around the first (SmartcardWrapper in main.rs,     *)
(* selfhealing.rs) and what CcidMessageHandler::handle_message passes down *)
(* to them, against a card with its own idea of speed and protocol.        *)
(*                                                                         *)
(* Bytes and registers are abstracted to what both sides must agree on:    *)
(* the speed ("slow" is the ATR default, "fast" the one the card offers in *)
(* TA1, "other" one the host ordered), the protocol, guard time, NACK and  *)
(* the clock.  A card that cannot be talked to times out.                  *)
(***************************************************************************)
EXTENDS Naturals

CONSTANTS
    Boards,             \* subset of {"uart", "bitbang"}
    NegotiateSpeed,     \* PPS_APPLY_NEGOTIATED_BAUD
    ReinitThreshold

ASSUME DriverAssumption ==
    /\ Boards \subseteq {"uart", "bitbang"} /\ NegotiateSpeed \in BOOLEAN
    /\ ReinitThreshold \in Nat \ {0}

VARIABLES
    board,
    drv,        \* the driver: powered, protocol, baud, speedup, gt, nack, clock
    heal,       \* FailureTracker: streak, pending
    core,       \* the handler above: active, present, protocol, reinit word
    icc,        \* the card in the slot, or NoIcc
    healed,     \* history: re-initialised behind the host's back
    ordered     \* history: the host ordered a data rate of its own

driverVars == <<board, drv, heal, core, icc, healed, ordered>>

NoIcc == [kind |-> "none"]
Icc(proto, ta1) ==
    [kind |-> "card", proto |-> proto, ta1 |-> ta1, on |-> FALSE, speed |-> "slow"]
Uart == board = "uart"

\* The card hears the reader and answers.
Talks(d, c) == c # NoIcc /\ c.on /\ d.powered /\ d.clock /\ d.baud = c.speed

-----------------------------------------------------------------------------
(* The drivers *)

\* power_off.  The bit-bang driver stops the clock; the USART keeps CLKEN.
PowerOff(d) ==
    [d EXCEPT !.powered = FALSE, !.protocol = 0, !.speedup = FALSE, !.baud = "slow",
              !.gt = "T0", !.clock = Uart /\ d.clock]
Unpowered(c) == IF c = NoIcc THEN c ELSE [c EXCEPT !.on = FALSE, !.speed = "slow"]

\* What PPS may leave behind: none is tried without TA1, and the bit-bang
\* driver only confirms T=1.  A minimal request changes nothing.  An exact
\* echo makes the card switch; the reader follows if it received the echo and
\* its divider allows the speed.
NegotiatePps(d, c, suppress) ==
    LET asked == Uart /\ c.ta1 /\ NegotiateSpeed /\ ~suppress
        switched == [c EXCEPT !.speed = "fast"]
    IN {[d |-> d, c |-> c]} \cup
       (IF ~asked THEN {}
        ELSE {[d |-> [d EXCEPT !.speedup = TRUE, !.baud = "fast"], c |-> switched],
              [d |-> d, c |-> switched]})

\* do_ifs_negotiation_t1: answered if the two can talk, and not for certain.
IfsResults(r) == IF Talks(r.d, r.c) THEN BOOLEAN ELSE {FALSE}

\* One cold activation up to the protocol: ATR, its check byte, PPS, and the
\* framing.  NACK is set for T=0.
Activate(d, c, suppress) ==
    LET cold == [d EXCEPT !.powered = FALSE, !.speedup = FALSE, !.baud = "slow",
                          !.suppress = FALSE,
                          !.protocol = IF Uart THEN @ ELSE 0,
                          !.clock = IF Uart THEN @ ELSE TRUE]
        reset == [c EXCEPT !.on = TRUE, !.speed = "slow"]
        known == [cold EXCEPT !.powered = TRUE, !.protocol = c.proto]
        failed == {[d |-> cold, c |-> reset, ok |-> FALSE]}
                  \cup (IF Uart /\ c.proto = 1 /\ cold.clock
                        THEN {[d |-> [known EXCEPT !.powered = FALSE], c |-> reset, ok |-> FALSE]}
                        ELSE {})
        framed(r) == [d |-> IF ~Uart THEN r.d
                            ELSE IF c.proto = 0 THEN [r.d EXCEPT !.nack = TRUE]
                            ELSE [r.d EXCEPT !.gt = "atr"],
                      c |-> r.c, ok |-> TRUE]
    IN failed \cup (IF cold.clock
                    THEN {framed(r) : r \in NegotiatePps(known, reset, suppress)} ELSE {})

\* The fall-back ladder after a PPS that raised the speed of a T=1 card: IFS
\* again, IFS at the default speed, a cold activation without PPS1.  It ends
\* in Ok whatever the last one returns.
Ladder(r) ==
    LET slow == [r EXCEPT !.d.speedup = FALSE, !.d.baud = "slow"]
        again == UNION {IF ifs THEN {slow}
                        ELSE {[a EXCEPT !.ok = TRUE] :
                                 a \in Activate(PowerOff(slow.d), Unpowered(slow.c), TRUE)}
                        : ifs \in IfsResults(slow)}
    IN UNION {IF first \/ second THEN {r} ELSE again
              : first \in IfsResults(r), second \in IfsResults(r)}

\* power_on.
PowerOn(d, c) ==
    IF c = NoIcc THEN {[d |-> d, c |-> c, ok |-> FALSE]}
    ELSE UNION {IF r.ok /\ r.d.speedup /\ c.proto = 1 THEN Ladder(r) ELSE {r}
                : r \in Activate(d, c, d.suppress)}

\* Mutant: the host's speed is taken as it comes.
TrustingWireTiming(d, line) ==
    [d EXCEPT !.gt = line.gt, !.baud = IF line.speed = "keep" THEN @ ELSE line.speed]

\* set_wire_timing: guard time always; the speed only if the card is proven
\* to run it, which leaves only re-applying the one negotiated.
SetWireTiming(d, line) ==
    IF ~Uart THEN d
    ELSE LET wire == IF d.speedup THEN "fast" ELSE "slow"
             proven == d.speedup /\ line.speed = "fast"
         IN [d EXCEPT !.gt = line.gt,
                      !.baud = IF line.speed # wire /\ proven THEN line.speed ELSE @]

-----------------------------------------------------------------------------
(* The wrapper *)

\* Mutant: the streak is not restarted, so the threshold is met once.
OnceRecord(h, outcome) ==
    CASE outcome = "success" -> [h EXCEPT !.streak = 0]
      [] h.streak + 1 = ReinitThreshold /\ outcome # "success" ->
            [h EXCEPT !.streak = ReinitThreshold, !.pending = TRUE, !.fired = TRUE]
      [] OTHER -> [h EXCEPT !.streak = IF @ < ReinitThreshold THEN @ + 1 ELSE @]

\* FailureTracker::record.
Record(h, outcome) ==
    CASE outcome = "success" -> [h EXCEPT !.streak = 0]
      [] h.streak + 1 >= ReinitThreshold /\ outcome # "success" ->
            [h EXCEPT !.streak = 0, !.pending = TRUE, !.fired = TRUE]
      [] OTHER -> [h EXCEPT !.streak = @ + 1]

SessionStart(h) == [h EXCEPT !.streak = 0]

\* transmit_apdu and transmit_raw with track_transmit: the outcomes, and the
\* power cycle at the threshold.
TransmitOutcomes(d, c) ==
    IF Talks(d, c) THEN {"success", "failure", "mute"}
    ELSE IF d.powered THEN {"failure", "mute"} ELSE {"failure"}

Healing(h) ==
    IF h.fired THEN PowerOn(PowerOff(drv), Unpowered(icc))
    ELSE {[d |-> drv, c |-> icc, ok |-> TRUE]}

-----------------------------------------------------------------------------
(* The commands that reach the driver *)

\* The end of handle_message: the re-init latch is consumed.
Consumed(h) == [h EXCEPT !.pending = FALSE, !.fired = FALSE]
Idle(h) == [h EXCEPT !.fired = FALSE]

IccPowerOn ==
    /\ icc # NoIcc
    /\ \E r \in PowerOn(drv, icc) :
          /\ drv' = r.d /\ icc' = r.c
          /\ core' = IF r.ok THEN [core EXCEPT !.active = TRUE, !.present = TRUE,
                                               !.protocol = icc.proto]
                     ELSE [core EXCEPT !.active = FALSE]
    /\ heal' = Consumed(SessionStart(heal))
    /\ healed' = FALSE /\ ordered' = FALSE
    /\ UNCHANGED board

IccPowerOff ==
    /\ drv' = PowerOff(drv) /\ icc' = Unpowered(icc)
    /\ core' = [core EXCEPT !.active = FALSE, !.protocol = 0]
    /\ heal' = Consumed(SessionStart(heal))
    /\ healed' = FALSE /\ ordered' = FALSE
    /\ UNCHANGED board

\* XfrBlock, to an active card.  A re-init during it leaves the handler's
\* protocol and parameters as they were.
Xfr ==
    /\ core.active
    /\ \E outcome \in TransmitOutcomes(drv, icc) :
          LET h == IF Uart THEN Record(heal, outcome) ELSE heal
          IN /\ \E r \in Healing(h) : drv' = r.d /\ icc' = r.c
             /\ heal' = Consumed(h)
             /\ healed' = (healed \/ h.fired)
             /\ ordered' = (ordered /\ ~h.fired)
    /\ UNCHANGED <<board, core>>

\* take_parameters_accepted, after a SetParameters or ResetParameters.
ParametersAccepted(protocol, line) ==
    /\ core' = [core EXCEPT !.protocol = protocol]
    /\ drv' = SetWireTiming([drv EXCEPT !.protocol = protocol], line)
    /\ heal' = Consumed(heal)
    /\ UNCHANGED <<board, icc, healed, ordered>>

SetParameters ==
    \E protocol \in {0, 1}, speed \in {"slow", "fast"} :
        ParametersAccepted(protocol, [gt |-> "host", speed |-> speed])

\* Reset: T=0, guard time 0, the speed kept.
ResetParameters == ParametersAccepted(0, [gt |-> "zero", speed |-> "keep"])

\* SetDataRateAndClockFrequency, clamped to the negotiated speed.
SetDataRate ==
    /\ \E rate \in {"slow", "other"} :
          /\ drv' = IF Uart THEN [drv EXCEPT !.baud = IF drv.speedup /\ rate = "slow"
                                                      THEN "fast" ELSE rate]
                    ELSE drv
          /\ ordered' = (ordered \/ rate = "other")
    /\ heal' = Consumed(heal)
    /\ UNCHANGED <<board, core, icc, healed>>

\* IccClock, for an active card only.
IccClock ==
    /\ core.active
    /\ \E enable \in BOOLEAN : drv' = IF Uart THEN [drv EXCEPT !.clock = enable] ELSE drv
    /\ heal' = Consumed(heal)
    /\ UNCHANGED <<board, core, icc, healed, ordered>>

\* check_card_change: a removal powers the driver off.
PollPresence ==
    /\ core.present # (icc # NoIcc)
    /\ IF icc # NoIcc
       THEN core' = [core EXCEPT !.present = TRUE, !.active = FALSE] /\ UNCHANGED <<drv, heal>>
       ELSE /\ core' = [core EXCEPT !.present = FALSE, !.active = FALSE]
            /\ drv' = PowerOff(drv) /\ heal' = SessionStart(heal)
    /\ UNCHANGED <<board, icc, healed, ordered>>

SwapCard ==
    /\ \/ icc # NoIcc /\ icc' = NoIcc
       \/ /\ icc = NoIcc
          /\ \E proto \in {0, 1}, ta1 \in BOOLEAN : icc' = Icc(proto, ta1)
    /\ UNCHANGED <<board, drv, heal, core, healed, ordered>>

DriverInit ==
    /\ board \in Boards /\ icc = NoIcc
    /\ drv = [powered |-> FALSE, protocol |-> 0, baud |-> "slow", speedup |-> FALSE,
              suppress |-> FALSE, gt |-> "T0", nack |-> FALSE, clock |-> board = "uart"]
    /\ heal = [streak |-> 0, pending |-> FALSE, fired |-> FALSE]
    /\ core = [active |-> FALSE, present |-> FALSE, protocol |-> 0]
    /\ healed = FALSE /\ ordered = FALSE

DriverNext ==
    \/ IccPowerOn \/ IccPowerOff \/ Xfr \/ SetParameters \/ ResetParameters
    \/ SetDataRate \/ IccClock \/ PollPresence \/ SwapCard

\* The host goes on using an active card; a card that is activated again and
\* again answers at last.
Reactivated == Xfr /\ drv'.powered
DriverSpec ==
    /\ DriverInit /\ [][DriverNext]_driverVars
    /\ WF_driverVars(Xfr) /\ SF_driverVars(Reactivated)

-----------------------------------------------------------------------------
(* Properties *)

\* The speed of the wire is the one the card runs: the default, as long as
\* PPS does not apply a speed and the host orders none.  SetParameters with
\* the Fi/Di of the ATR must not move it.
SpeedsAgree ==
    drv.powered /\ icc # NoIcc /\ icc.on /\ ~NegotiateSpeed /\ ~ordered
        => drv.baud = icc.speed

\* The driver talks the protocol the host was told of, except behind a
\* self-healing power cycle, which resets the card to the ATR's.
ProtocolsAgree ==
    core.active /\ drv.powered /\ ~healed => drv.protocol = core.protocol

\* Self-healing heals: a card that was left unpowered by a failed power cycle
\* is powered again, if it stays in the slot, its host goes on and the clock
\* runs.
CardIsHealed ==
    <>[](drv.clock /\ ~ordered /\ icc # NoIcc)
        => ((Uart /\ core.active /\ ~drv.powered) ~> (drv.powered \/ ~core.active))

\* "CLK is already running (CLKEN=1 from init, TE=1)" (power_on).
ClockIsRunning == Uart /\ ~core.active => drv.clock

\* "NACK is enabled later for T=0 only (power_on)" (init_usart).
NackOnlyForT0 == drv.powered /\ drv.nack => drv.protocol = 0

\* "the session is never left desynchronized by PPS" (negotiate_pps_fsm).
PpsLeavesNoGap ==
    drv.powered /\ icc # NoIcc /\ icc.on /\ ~ordered => drv.baud = icc.speed
=============================================================================
