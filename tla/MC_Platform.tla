----------------------------- MODULE MC_Platform -----------------------------
(***************************************************************************)
(* The parts of the ESP32 reader around its CCID core, checked side by     *)
(* side: a behaviour runs one of them, chosen at the start, and the others *)
(* rest in an initial state.                                               *)
(***************************************************************************)
EXTENDS NfcFrontends, OtaUpdate, NciLink, ListenSession, NciTransport, I2cDispatch, IfdDriver,
        BleConsole, Boot

VARIABLE part   \* the part that runs

partVars == <<part, feVars, otaVars, nlVars, liVars, ntVars, i2Vars, ifVars, bleVars, bootVars>>

PlatformInit ==
    /\ part \in {"frontend", "ota", "link", "listen", "transport", "i2c", "ifd", "console", "boot"}
    /\ OtaInit /\ (part = "ota" \/ slot[0].img = "old")
    /\ NlInit /\ LiInit /\ NtInit /\ IfInit /\ BleInit
    /\ IF part = "frontend" THEN FrontendsInit
       ELSE /\ kind = "unavailable" /\ fe = NewFrontend /\ bus = "down" /\ coil = NoCoilCard
            /\ rf = "fresh" /\ fwi = 0 /\ fe_told = FALSE /\ misses = 0
    /\ IF part = "i2c" THEN I2Init ELSE ops = <<>> /\ cur = 1 /\ wire = <<>> /\ verdict = "called"
    /\ BootInit
    /\ part = "boot" \/ (build = "cdc" /\ \A f \in DOMAIN setting \ {"chip"} : setting[f] /\ setting.chip = "answers")

FeStep(A) == part = "frontend" /\ A
             /\ UNCHANGED <<part, otaVars, nlVars, liVars, ntVars, i2Vars, ifVars, bleVars, bootVars>>
OtaStep(A) == part = "ota" /\ A
              /\ UNCHANGED <<part, feVars, nlVars, liVars, ntVars, i2Vars, ifVars, bleVars, bootVars>>
NlStep(A) == part = "link" /\ A
             /\ UNCHANGED <<part, feVars, otaVars, liVars, ntVars, i2Vars, ifVars, bleVars, bootVars>>
LiStep(A) == part = "listen" /\ A
             /\ UNCHANGED <<part, feVars, otaVars, nlVars, ntVars, i2Vars, ifVars, bleVars, bootVars>>
NtStep(A) == part = "transport" /\ A
             /\ UNCHANGED <<part, feVars, otaVars, nlVars, liVars, i2Vars, ifVars, bleVars, bootVars>>
I2Step(A) == part = "i2c" /\ A
             /\ UNCHANGED <<part, feVars, otaVars, nlVars, liVars, ntVars, ifVars, bleVars, bootVars>>
IfStep(A) == part = "ifd" /\ A
             /\ UNCHANGED <<part, feVars, otaVars, nlVars, liVars, ntVars, i2Vars, bleVars, bootVars>>
BleStep(A) == part = "console" /\ A
              /\ UNCHANGED <<part, feVars, otaVars, nlVars, liVars, ntVars, i2Vars, ifVars,
                             bootVars>>
BootingStep(A) == part = "boot" /\ A
                  /\ UNCHANGED <<part, feVars, otaVars, nlVars, liVars, ntVars, i2Vars, ifVars,
                                 bleVars>>

PlatformNext ==
    \/ FeStep(FrontendsNext) \/ OtaStep(OtaNext) \/ NlStep(NlNext) \/ LiStep(LiNext)
    \/ NtStep(NtNext) \/ I2Step(I2Next) \/ IfStep(IfNext)
    \/ BleStep(BleNext) \/ BootingStep(BootNext)

\* The fairness of the frontends, the console and the boot: see FrontendsSpec,
\* BleSpec and BootSpec.
PlatformSpec ==
    /\ PlatformInit /\ [][PlatformNext]_partVars
    /\ WF_partVars(FeStep(FePoll)) /\ WF_partVars(BleStep(OnEvent))
    /\ WF_partVars(BootingStep(BootStep))

-----------------------------------------------------------------------------

(* The radio side.  A controller holds the session of the card its state   *)
(* names and waits as long as the card may take; an answer is made of the  *)
(* segments of its own exchange, in both roles; no packet goes out without *)
(* a credit.                                                               *)
RadioIsSound ==
    SessionKeepsItsRadio /\ FrameWaitIsCovered /\ AnswerIsWhole /\ CreditRespected /\ ListenIsSound

(* The ends of the reader.  The host's driver has each command executed    *)
(* once, the console's centrals see the log in order and only if they      *)
(* asked, the operations of an I2C transaction reach the wire once and in  *)
(* order, and a boot leaves the CCID wire clean and its serve loop ready.  *)
EndsAreSound == ExecutedOnce /\ ConsoleIsSound /\ WireShape /\ BootIsSound

(* What the firmware says heals does: a degraded frontend whose bus works  *)
(* again is brought up by the presence polls, a console without a central  *)
(* advertises again, and a board whose peripherals work boots into its     *)
(* service whatever its NFC controller does.                               *)
PartsRecover == FrontendHeals /\ ConsoleComesBack /\ (part = "boot" => BoardServes)
=============================================================================
