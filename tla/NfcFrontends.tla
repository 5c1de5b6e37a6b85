----------------------------- MODULE NfcFrontends -----------------------------
(***************************************************************************)
(* The MFRC522 and PN532 drivers (firmware/esp32-ccid/src/mfrc522_driver.rs, *)
(* pn532_driver.rs) behind the fault isolation of                          *)
(* crates/ccid-service/src/frontend.rs, with their controller and the card *)
(* on the coil.                                                            *)
(*                                                                         *)
(* The CCID layer polls while there is no session, the vpcd client also    *)
(* under one; both power and transmit.  The controller, its bus and the    *)
(* card are external.                                                      *)
(***************************************************************************)
EXTENDS Integers, FiniteSets

CONSTANTS
    Kinds,              \* subset of {"mfrc522", "pn532", "unavailable"}
    Coils,              \* the cards
    FrameWaits,         \* FWI of the cards
    ReinitThreshold, CardAbsentThreshold, InitAttempts,
    MaxClocks, HeldClocks,  \* SCL pulses of a bus recovery; pulses a stuck slave may need
    MaxMisses           \* bound: bus faults, answers lost on the coil, card moves

ASSUME FrontendsAssumption ==
    /\ Kinds \subseteq {"mfrc522", "pn532", "unavailable"} /\ FrameWaits \subseteq 0..14
    /\ {ReinitThreshold, CardAbsentThreshold, InitAttempts, MaxClocks} \subseteq Nat \ {0}
    /\ HeldClocks \subseteq Nat /\ MaxMisses \in Nat

NoCoilCard == "none"

VARIABLES
    kind,       \* the frontend
    fe,         \* the driver and its RetryFrontend
    bus,        \* "ok", "down", or "odd": registers wrong until the frontend is reset
    coil,       \* the card on the coil
    rf,         \* its state: "fresh", "reset", "active" (in a session) or "wedged"
    fwi,        \* its frame waiting time
    fe_told,       \* what the last presence poll returned
    misses      \* what is left of the bound

feVars == <<kind, fe, bus, coil, rf, fwi, fe_told, misses>>

\* new, healthy and degraded: `life` is the CardLifecycle, `of` the card of
\* the session, `uid` the card of the cached UID, `listed` the PN532's target.
NewFrontend ==
    [degraded |-> FALSE, up |-> FALSE, life |-> "none", of |-> NoCoilCard, uid |-> NoCoilCard, fails |-> 0,
     initFails |-> 0, crc |-> FALSE, wait |-> 0, listed |-> NoCoilCard]

\* A state of the frontend and its surroundings.
FeWorld == [f |-> fe, b |-> bus, rf |-> rf]
FeBecomes(w) == fe' = w.f /\ bus' = w.b /\ rf' = w.rf

SpendMiss == misses > 0 /\ misses' = misses - 1

-----------------------------------------------------------------------------
(* The receive timer of the MFRC522: the prescaler and the reload value    *)
(* that set_timeout_ms (crates/mfrc522-pcd/src/lib.rs) writes for a        *)
(* request in milliseconds.  Frequencies are in kHz, so that every product *)
(* is the code's divided by 1000.                                          *)

TimerInputKHz == 13560
MinDivisor == 2 * 169 + 1
MaxDivisor == 2 * 4095 + 1
MaxReload == 65535

CeilDiv(a, b) == (a + b - 1) \div b

\* The smallest odd divisor not below the historical one that keeps the
\* reload value in 16 bits (904 / 4369 is 13560 / 65535).
Divisor(ms) ==
    LET need == CeilDiv(ms * 904, 4369)
        div == IF need > MinDivisor THEN need ELSE MinDivisor
    IN IF div % 2 = 0 THEN div + 1 ELSE div

Accepted(ms) == Divisor(ms) <= MaxDivisor
Reload(ms) == CeilDiv(ms * TimerInputKHz, Divisor(ms))

-----------------------------------------------------------------------------
(* MFRC522 *)

MarkAbsent(f) == [f EXCEPT !.life = "none", !.of = NoCoilCard, !.uid = NoCoilCard, !.fails = 0]
MarkPresent(f) == [f EXCEPT !.life = IF @ = "none" THEN "inactive" ELSE @, !.fails = 0]
ClearSession(f) == [f EXCEPT !.of = NoCoilCard, !.life = IF @ = "none" THEN @ ELSE "inactive"]

\* reset_activation_frontend: the field goes off and on, which resets the
\* card, and the CRC hardware is off again.
ResetOk(w) == w.b # "down"
ResetFrontend(w) ==
    IF ~ResetOk(w) THEN w ELSE [w EXCEPT !.f.crc = FALSE, !.b = "ok", !.rf = "reset"]

\* The same, failing on the bus behind the field's cycle: before or after the
\* registers are back at their defaults.
HalfReset(w) == {[w EXCEPT !.rf = "reset"], [w EXCEPT !.f.crc = FALSE, !.rf = "reset"]}

\* init: the version register answers, the gain is set.
InitOk(w) == w.b = "ok"
Initialise(w) == [w EXCEPT !.f.up = @ \/ InitOk(w)]

FullReinit(w) ==
    LET down == [w EXCEPT !.f = [MarkAbsent(@) EXCEPT !.up = FALSE]]
    IN IF ResetOk(w) THEN Initialise(ResetFrontend(down)) ELSE down

\* init_with_recovery: the third failure in a row resets the frontend; the
\* answer is then that of the full re-initialisation.
InitWithRecovery(w) ==
    IF InitOk(w) THEN [w |-> [Initialise(w) EXCEPT !.f.initFails = 0], ok |-> TRUE]
    ELSE IF w.f.initFails + 1 < ReinitThreshold
         THEN [w |-> [w EXCEPT !.f.initFails = @ + 1], ok |-> FALSE]
         ELSE [w |-> FullReinit([w EXCEPT !.f.initFails = 0]), ok |-> ResetOk(w)]

\* UnavailableNfcDriver: nothing ever succeeds.
Unavailable(w) == [w |-> w, ok |-> FALSE]

\* init_recovering: the PN532's init is a hardware reset of the controller.
InitRecovering(w) ==
    CASE kind = "mfrc522" -> InitWithRecovery(w)
      [] kind = "pn532" ->
            [w |-> IF w.b = "down" THEN w ELSE [w EXCEPT !.f.up = TRUE, !.f.listed = NoCoilCard, !.b = "ok"],
             ok |-> w.b # "down"]
      [] OTHER -> Unavailable(w)

\* A poll that found nothing counts; the third one in a row is an absence.
Miss(w) ==
    IF w.f.fails + 1 >= CardAbsentThreshold
    THEN [w |-> [w EXCEPT !.f = MarkAbsent(@)], fe_told |-> FALSE]
    ELSE [w |-> [w EXCEPT !.f.fails = @ + 1], fe_told |-> w.f.life # "none"]

\* The card answers a wake-up in the field; the answer may be lost.
Answers(w) == coil # NoCoilCard /\ w.b = "ok" /\ w.rf # "active"

\* Mutant: the poll cycles the field whatever the session.
DisturbingPoll(w) ==
    IF ~w.f.up THEN {[w |-> w, fe_told |-> FALSE, cost |-> 0]}
    ELSE IF ~ResetOk(w) THEN {[w |-> Miss(w).w, fe_told |-> Miss(w).fe_told, cost |-> 0]}
    ELSE LET r == ResetFrontend(w)
         IN {[w |-> Miss(r).w, fe_told |-> Miss(r).fe_told, cost |-> IF Answers(r) THEN 1 ELSE 0]}
            \cup (IF Answers(r) THEN {[w |-> [r EXCEPT !.f = MarkPresent(@)], fe_told |-> TRUE, cost |-> 0]}
                  ELSE {})

\* poll_physical_card: nothing is done to the field under a session.
PollPhysical(w) ==
    IF ~w.f.up THEN {[w |-> w, fe_told |-> FALSE, cost |-> 0]}
    ELSE IF w.f.life = "session" THEN {[w |-> w, fe_told |-> TRUE, cost |-> 0]}
    ELSE IF ~ResetOk(w) THEN {[w |-> Miss(w).w, fe_told |-> Miss(w).fe_told, cost |-> 0]}
    ELSE LET r == ResetFrontend(w)
         IN {[w |-> Miss(r).w, fe_told |-> Miss(r).fe_told, cost |-> IF Answers(r) THEN 1 ELSE 0]}
            \cup {[w |-> Miss(h).w, fe_told |-> Miss(h).fe_told, cost |-> 1] : h \in HalfReset(w)}
            \cup (IF Answers(r) THEN {[w |-> [r EXCEPT !.f = MarkPresent(@)], fe_told |-> TRUE, cost |-> 0]}
                  ELSE {})

\* power_off: the session is deselected; the driver then believes in a card.
Deselected(w) ==
    [w EXCEPT !.f.of = NoCoilCard, !.f.life = IF w.f.up THEN "inactive" ELSE "none",
              !.rf = IF w.f.of # NoCoilCard /\ w.f.of = coil /\ @ = "active" THEN "reset" ELSE @]

\* FWT from the card's FWI.
FrameWaitMs(i) == IF i = 0 THEN 5 ELSE ((302 * 2^i) \div 1000) + 10

\* The last part of power_on: the session of the card that answered.
OpenSession(w) ==
    [w EXCEPT !.f.crc = TRUE, !.f.life = "session", !.f.of = coil, !.f.fails = 0,
              !.f.wait = FrameWaitMs(fwi), !.rf = "active"]

\* power_on, one outcome of its attempts: a stale session is deactivated, the
\* field cycled, the card woken and asked for its ATS; then the CRC hardware
\* is enabled and the timer armed for the card's frame waiting time, each of
\* which the bus may fail.
Activation(w) ==
    LET off == IF w.f.life = "session" \/ w.f.of # NoCoilCard THEN Deselected(w) ELSE w
        reset == ResetFrontend(off)
        known == [reset EXCEPT !.f.uid = coil]
        torn == {[w |-> h, ok |-> FALSE] : h \in HalfReset(off)}
        failed == torn \cup {[w |-> [reset EXCEPT !.f = ClearSession(@)], ok |-> FALSE]}
        noAts == {[w |-> [known EXCEPT !.f = ClearSession(@)], ok |-> FALSE]}
        done == [w |-> OpenSession(known), ok |-> TRUE]
    IN IF ~w.f.up THEN {[w |-> w, ok |-> FALSE]}
       ELSE IF ~ResetOk(off) THEN {[w |-> off, ok |-> FALSE]}
       ELSE IF ~Answers(reset) THEN failed
       ELSE failed \cup noAts \cup {[w |-> [known EXCEPT !.f.crc = TRUE], ok |-> FALSE], done}

\* A frame crosses the air: the radio is set up for the card of the session
\* and the card is in it (transceive; every other outcome is an error).
Reaches(w) == w.f.of # NoCoilCard /\ w.f.of = coil /\ w.rf = "active" /\ w.f.crc /\ w.b = "ok"

\* transmit_apdu: the exchange works, fails on the coil, or its answer is too
\* long for the buffer.
FeExchange(w) ==
    LET lost == [w EXCEPT !.f = [ClearSession(@) EXCEPT !.life = "inactive"]]
    IN IF ~w.f.up \/ w.f.of = NoCoilCard \/ w.f.life # "session" THEN {w}
       ELSE {lost} \cup (IF Reaches(w) THEN {w, [lost EXCEPT !.rf = "wedged"]} ELSE {})

-----------------------------------------------------------------------------
(* PN532 *)

\* detect_card: the controller lists a target.
Detect(w) ==
    {[w EXCEPT !.f.listed = NoCoilCard]}
    \cup (IF w.f.up /\ w.b = "ok" /\ coil # NoCoilCard THEN {[w EXCEPT !.f.listed = coil]} ELSE {})

Pn532Poll(w) ==
    {[w |-> [d EXCEPT !.f.life = IF d.f.listed = NoCoilCard THEN "none" ELSE @],
      fe_told |-> d.f.listed # NoCoilCard, cost |-> IF d.f.listed = coil THEN 0 ELSE 1] : d \in Detect(w)}

\* power_on: one more detection when no target is listed.
Pn532PowerOn(w) ==
    IF ~w.f.up THEN {[w |-> w, ok |-> FALSE]}
    ELSE {IF d.f.listed = NoCoilCard THEN [w |-> d, ok |-> FALSE]
          ELSE [w |-> [d EXCEPT !.f.life = "session", !.f.of = d.f.listed], ok |-> TRUE]
          : d \in IF w.f.listed # NoCoilCard THEN {w} ELSE Detect(w)}

Pn532PowerOff(w) == [w EXCEPT !.f.listed = NoCoilCard, !.f.life = "none", !.f.of = NoCoilCard]

-----------------------------------------------------------------------------
(* The frontend as the CCID layer uses it *)

FeSessionActive == ~fe.degraded /\ fe.life = "session"

\* RetryFrontend::poll_card_presence: a degraded frontend retries its init.
FePoll ==
    /\ LET i == IF fe.degraded THEN InitRecovering(FeWorld) ELSE [w |-> FeWorld, ok |-> TRUE]
           w == [i.w EXCEPT !.f.degraded = ~i.ok]
           polled == IF kind = "mfrc522" THEN PollPhysical(w) ELSE Pn532Poll(w)
       IN \/ /\ ~i.ok /\ FeBecomes(w) /\ fe_told' = FALSE /\ UNCHANGED misses
          \/ /\ i.ok
             /\ \E p \in polled :
                  /\ FeBecomes(p.w) /\ fe_told' = p.fe_told
                  /\ misses >= p.cost /\ misses' = misses - p.cost
    /\ UNCHANGED <<kind, coil, fwi>>

\* The CCID handler powers a card it was told of; the vpcd client, which has no
\* PN532, asks nobody.
FePowerOn ==
    /\ fe_told \/ kind # "pn532"
    /\ \E r \in IF kind = "mfrc522" THEN Activation(FeWorld)
                ELSE IF kind = "pn532" THEN Pn532PowerOn(FeWorld) ELSE {Unavailable(FeWorld)} :
         FeBecomes(r.w)
    /\ UNCHANGED <<kind, coil, fwi, fe_told, misses>>

FePowerOff ==
    /\ kind # "unavailable"
    /\ FeBecomes(IF kind = "pn532" THEN Pn532PowerOff(FeWorld)
               ELSE Deselected(FeWorld))
    /\ UNCHANGED <<kind, coil, fwi, fe_told, misses>>

\* The PN532 keeps its session when an exchange fails.
FeTransmitApdu ==
    /\ FeSessionActive
    /\ \E w \in IF kind = "mfrc522" THEN FeExchange(FeWorld) ELSE {FeWorld} : FeBecomes(w)
    /\ UNCHANGED <<kind, coil, fwi, fe_told, misses>>

-----------------------------------------------------------------------------
(* The coil and the bus (external) *)

PlaceCard(c) ==
    /\ coil = NoCoilCard /\ coil' = c /\ rf' = "fresh" /\ fwi' \in FrameWaits
    /\ UNCHANGED <<kind, fe, bus, fe_told, misses>>

TakeCard ==
    /\ coil # NoCoilCard /\ SpendMiss /\ coil' = NoCoilCard /\ rf' = "fresh"
    /\ UNCHANGED <<kind, fe, bus, fwi, fe_told>>

BusFault(b) ==
    /\ bus = "ok" /\ SpendMiss /\ bus' = b
    /\ UNCHANGED <<kind, fe, coil, rf, fwi, fe_told>>

BusMends ==
    /\ bus = "down" /\ bus' = "ok"
    /\ UNCHANGED <<kind, fe, coil, rf, fwi, fe_told, misses>>

\* recover_i2c_bus, before the bus has a driver: a slave that holds SDA needs
\* `held` clocks to let go.
RecoverI2cBus(held) == held <= MaxClocks

\* bring_up, the driver's part: up to InitAttempts initialisations.
BroughtUp(w) ==
    LET after[n \in 0..InitAttempts] ==
            IF n = 0 THEN [w |-> w, ok |-> FALSE]
            ELSE IF after[n - 1].ok THEN after[n - 1] ELSE InitRecovering(after[n - 1].w)
    IN after[InitAttempts]

\* The MFRC522 is constructed when its version register answers on a free
\* bus, else the stand-in is served; the bus may fail after that.
FrontendsInit ==
    /\ kind \in Kinds /\ coil = NoCoilCard /\ fwi \in FrameWaits /\ fe_told = FALSE /\ misses = MaxMisses
    /\ \E held \in HeldClocks, b \in {"ok", "odd", "down"} :
          LET up == BroughtUp([f |-> NewFrontend, b |-> b, rf |-> "fresh"])
          IN /\ kind = "mfrc522" => RecoverI2cBus(held)
             /\ kind = "unavailable" => ~RecoverI2cBus(held) \/ b # "ok"
             /\ fe = [up.w.f EXCEPT !.degraded = ~up.ok] /\ bus = up.w.b /\ rf = up.w.rf

FrontendsNext ==
    \/ FePoll \/ FePowerOn \/ FePowerOff \/ FeTransmitApdu
    \/ (\E c \in Coils : PlaceCard(c)) \/ TakeCard \/ (\E b \in {"odd", "down"} : BusFault(b)) \/ BusMends

FrontendsSpec == FrontendsInit /\ [][FrontendsNext]_feVars /\ WF_feVars(FePoll)

-----------------------------------------------------------------------------
(* Properties *)

\* A live MFRC522 session keeps its radio: the CRC hardware it was opened
\* with is on, and its card, while it stays, is neither reset by a field
\* cycle nor left for another one.  (power_on and poll_physical_card cycle
\* the field, clear_session and mark_card_absent end the session.)
SessionKeepsItsRadio ==
    (kind = "mfrc522" /\ fe.life = "session") =>
        /\ fe.of # NoCoilCard /\ fe.uid = fe.of /\ fe.crc
        /\ fe.of = coil => rf # "reset"

\* An accepted request fits its registers, and the armed period is never
\* shorter than the request: Reload ticks of Divisor input cycles.
PeriodCovers(ms) ==
    Accepted(ms) =>
        /\ Divisor(ms) % 2 = 1 /\ Reload(ms) <= MaxReload
        /\ Reload(ms) * Divisor(ms) >= ms * TimerInputKHz

\* The receive timer of a session is armed for the card's frame waiting time
\* and not shorter (set_timeout_ms).
FrameWaitIsCovered ==
    (kind = "mfrc522" /\ fe.life = "session") => Accepted(fe.wait) /\ PeriodCovers(fe.wait)

\* A frontend that came up degraded is served again once its controller
\* answers, whatever the controller needs for that (frontend.rs: "every
\* interval-gated presence poll retries init").
FrontendHeals ==
    (kind # "unavailable" /\ fe.degraded /\ bus # "down") ~> (~fe.degraded \/ bus = "down")
=============================================================================
