-------------------------------- MODULE Boot --------------------------------
(***************************************************************************)
(* The boot of an ESP32 reader: the `main` of each firmware build, from    *)
(* reset to its serve loop.  A main is a sequence of steps; each step is   *)
(* one action.  What the steps share is the order of three things: who may *)
(* write on the port that becomes the CCID wire, what a failed peripheral, *)
(* network or NFC controller does to the service, and what the serve loop  *)
(* relies on when it starts.                                               *)
(*                                                                         *)
(* A board that panics is reset by the panic handler and boots again.      *)
(***************************************************************************)
EXTENDS Naturals, Sequences

CONSTANT LadderAttempts   \* INIT_ATTEMPTS: initialisations of the controller at boot

ASSUME LadderAttemptsAssumption == LadderAttempts \in Nat \ {0}

\* The builds: UART with PN532 or MFRC522, with the BLE console, over Bluetooth
\* SPP, over USB-CDC without and with the BLE console, over TCP, over vpcd.
Builds == {"uart-pn532", "uart-mfrc522", "uart-ble", "spp", "cdc", "cdc-ble", "tcp",
           "vpcd-pn7160", "vpcd-mfrc522"}

VARIABLES
    build,   \* the firmware on the board
    setting, \* what the board and its surroundings allow: see Surroundings
    bpc,     \* the next step of the main, as an index
    mode,    \* "booting", "serving", "panicked", or "halted" in the endless wait
    sink,    \* the installed log sink: "none", "esp", "net" or "ble"
    level,   \* the max level of the log facade lets lines through
    cLogs,   \* ESP-IDF's own log lines reach the console
    claimed, \* the CCID wire is claimed
    spilt,   \* who wrote on the claimed wire unasked: "rust", "c", "bluetooth"
    nfc,     \* the frontend handed to the service
    tries,   \* initialisations made by the ladder
    otaGate, \* the OTA validity gate is armed
    hook,    \* the stall hook and its writer are installed
    stale    \* bytes from before the serve loop are in the receive ring

logVars == <<sink, level, cLogs, spilt>>
servedVars == <<nfc, tries, otaGate, hook, stale>>
bootVars == <<build, setting, bpc, mode, logVars, claimed, servedVars>>

\* "peripherals": the ESP-IDF drivers can be constructed; "station": the access
\* point answers; "ble": the Bluetooth stack comes up; "debug": the console is
\* enabled on the UART; "chip": the NFC controller answers, answers once it is
\* recovered, answers no initialisation, or cannot be constructed.
Surroundings == [peripherals: BOOLEAN, station: BOOLEAN, ble: BOOLEAN, debug: BOOLEAN,
                 chip: {"answers", "recovers", "mute", "absent"}]

-----------------------------------------------------------------------------
\* The mains.

MainPn532 == <<"arm", "esplog", "line", "take", "claim", "off", "take", "frontend", "purge", "serve">>
MainMfrc522 == <<"arm", "netlog", "take", "bench", "off", "claim", "line", "frontend", "light",
                 "purge", "serve">>
MainMfrc522Ble == <<"arm", "take", "blelog", "line", "claim", "line", "frontend", "light", "purge",
                    "serve">>
MainSpp == <<"arm", "take", "frontend", "light", "claim", "line", "serve">>
MainCdc == <<"arm", "cmute", "esplog", "take", "line", "off", "claim", "line", "frontend", "hook",
             "purge", "line", "serve">>
MainCdcBle == <<"arm", "take", "blelog", "line", "claim", "line", "frontend", "hook", "purge",
                "line", "serve">>
MainTcp == <<"arm", "netlog", "line", "take", "station", "line", "claim", "line", "frontend",
             "hook", "serve">>
MainVpcd == <<"arm", "netlog", "line", "take", "station", "line", "frontend", "spawn">>

Main == CASE build = "uart-pn532" -> MainPn532
          [] build = "uart-mfrc522" -> MainMfrc522
          [] build = "uart-ble" -> MainMfrc522Ble
          [] build = "spp" -> MainSpp
          [] build = "cdc" -> MainCdc
          [] build = "cdc-ble" -> MainCdcBle
          [] build = "tcp" -> MainTcp
          [] OTHER -> MainVpcd

BootInit ==
    /\ build \in Builds
    /\ setting \in Surroundings
    /\ bpc = 1 /\ mode = "booting"
    /\ sink = "none" /\ level = FALSE /\ cLogs = TRUE
    /\ claimed = FALSE /\ spilt = {}
    /\ nfc = "none" /\ tries = 0
    /\ otaGate = FALSE /\ hook = FALSE /\ stale = TRUE

At(step) == mode = "booting" /\ Main[bpc] = step
Go == bpc' = bpc + 1
Panic == mode' = "panicked" /\ bpc' = bpc

\* The console is the port the CCID wire is claimed on: always for USB-CDC, on
\* the UART only in a build whose console is enabled.
ConsoleIsWire == \/ build \in {"cdc", "cdc-ble"}
                 \/ build \in {"uart-pn532", "uart-mfrc522", "uart-ble"} /\ setting.debug

\* A line of the log facade, and one of ESP-IDF itself.  EspLogger writes through
\* ESP-IDF's log and shares its ceiling; the network logger prints.
RustLine == IF /\ claimed /\ ConsoleIsWire /\ level
               /\ sink = "net" \/ (sink = "esp" /\ cLogs)
            THEN {"rust"} ELSE {}
CLine == IF claimed /\ ConsoleIsWire /\ cLogs THEN {"c"} ELSE {}

-----------------------------------------------------------------------------
\* The log.

InstallSink(step, s) ==   \* the first installer wins
    /\ At(step) /\ Go
    /\ sink' = IF sink = "none" THEN s ELSE sink
    /\ level' = TRUE
    /\ UNCHANGED <<build, setting, mode, cLogs, spilt, claimed, servedVars>>

EspLogger == InstallSink("esplog", "esp")
NetLogger == InstallSink("netlog", "net")

\* BleConsole::init silences ESP-IDF's lines, and lets them through again when the
\* stack does not come up.
BleLogger ==
    /\ At("blelog") /\ Go
    /\ sink' = "ble" /\ level' = TRUE /\ cLogs' = ~setting.ble
    /\ UNCHANGED <<build, setting, mode, spilt, claimed, servedVars>>

SilenceC ==
    /\ At("cmute") /\ Go /\ cLogs' = FALSE
    /\ UNCHANGED <<build, setting, mode, sink, level, spilt, claimed, servedVars>>

\* An Off that leaves the warnings through.
LateOff ==
    /\ At("off") /\ Go
    /\ UNCHANGED <<build, setting, mode, logVars, claimed, servedVars>>

LevelOff ==
    /\ At("off") /\ Go /\ level' = FALSE
    /\ UNCHANGED <<build, setting, mode, sink, cLogs, spilt, claimed, servedVars>>

LogLine ==
    /\ At("line") /\ Go /\ spilt' = spilt \cup RustLine
    /\ UNCHANGED <<build, setting, mode, sink, level, cLogs, claimed, servedVars>>

-----------------------------------------------------------------------------
\* The setting.

ArmGate ==
    /\ At("arm") /\ Go /\ otaGate' = TRUE
    /\ UNCHANGED <<build, setting, mode, logVars, claimed, nfc, tries, hook, stale>>

\* Peripherals, pins and buses are taken with expect.
TakePeripherals ==
    /\ At("take")
    /\ IF setting.peripherals THEN Go /\ UNCHANGED mode ELSE Panic
    /\ UNCHANGED <<build, setting, logVars, claimed, servedVars>>

\* The wire's driver, or the TCP listener, also with expect.
ClaimWire ==
    /\ At("claim")
    /\ IF setting.peripherals THEN Go /\ claimed' = TRUE /\ UNCHANGED mode
       ELSE Panic /\ UNCHANGED claimed
    /\ UNCHANGED <<build, setting, logVars, servedVars>>

\* WifiManager::connect: an association and a lease within its bounded polls.
Connects == setting.station

\* The station of the TCP build waits for ever without a network; the vpcd build
\* goes on with 0.0.0.0; the bench build of the UART reader with CCID only.
Station ==
    /\ At("station")
    /\ IF ~setting.peripherals THEN Panic
       ELSE IF ~Connects /\ build = "tcp" THEN mode' = "halted" /\ UNCHANGED bpc
       ELSE Go /\ UNCHANGED mode
    /\ UNCHANGED <<build, setting, logVars, claimed, servedVars>>

BenchNet ==
    /\ At("bench") /\ Go /\ spilt' = spilt \cup RustLine
    /\ UNCHANGED <<build, setting, mode, sink, level, cLogs, claimed, servedVars>>

\* The display fails into "headless"; the light shows the outcome of the ladder.
Light ==
    /\ At("light") /\ Go /\ spilt' = spilt \cup RustLine
    /\ UNCHANGED <<build, setting, mode, sink, level, cLogs, claimed, servedVars>>

-----------------------------------------------------------------------------
\* The NFC frontend.

\* The ladder of the MFRC522 and of the PN532 repeats init; that of the PN7160
\* power-cycles the chip between two attempts.
InitSucceeds ==
    \/ setting.chip = "answers"
    \/ setting.chip = "recovers" /\ tries > 0

\* What the service is given when the ladder ends: only the UART and SPP builds
\* wrap a frontend that failed so that the presence polls initialise it again.
Wrapped == build \in {"uart-pn532", "uart-mfrc522", "uart-ble", "spp"}
Frontend(ok) == IF ok THEN "live" ELSE IF Wrapped THEN "retried" ELSE "uninitialised"

\* No controller on the bus.  The PN532 and the PN7160 fail as a ladder does; an
\* MFRC522 that cannot be constructed is replaced by a stand-in.
StandIn == IF build = "vpcd-mfrc522" THEN "null" ELSE "unavailable"
HasStandIn == build \in {"uart-mfrc522", "uart-ble", "spp", "vpcd-mfrc522"}

\* A ladder that gives up with expect.
FragileBringUp ==
    /\ At("frontend")
    /\ spilt' = spilt
    /\ IF InitSucceeds THEN Go /\ nfc' = Frontend(TRUE) /\ UNCHANGED <<mode, tries>>
       ELSE Panic /\ UNCHANGED <<nfc, tries>>
    /\ UNCHANGED <<build, setting, sink, level, cLogs, claimed, otaGate, hook, stale>>

BringUpFrontend ==
    /\ At("frontend")
    /\ spilt' = spilt \cup RustLine \cup (IF setting.chip = "answers" THEN {} ELSE CLine)
    /\ IF ~setting.peripherals THEN Panic /\ UNCHANGED <<nfc, tries>>
       ELSE /\ UNCHANGED mode
            /\ IF setting.chip = "absent" /\ HasStandIn
               THEN Go /\ nfc' = StandIn /\ UNCHANGED tries
               ELSE IF tries = LadderAttempts
               THEN Go /\ nfc' = Frontend(FALSE) /\ UNCHANGED tries
               ELSE IF InitSucceeds
               THEN Go /\ nfc' = Frontend(TRUE) /\ UNCHANGED tries
               ELSE tries' = tries + 1 /\ UNCHANGED <<bpc, nfc>>
    /\ UNCHANGED <<build, setting, sink, level, cLogs, claimed, otaGate, hook, stale>>

\* What Escape 0xD0 reports of the frontend.
Health == CASE nfc = "live" -> "healthy"
            [] nfc = "uninitialised" -> IF build = "vpcd-mfrc522" THEN "degraded" ELSE "healthy"
            [] nfc = "retried" -> "degraded"
            [] OTHER -> "unavailable"

-----------------------------------------------------------------------------
\* The service.

RegisterHook ==
    /\ At("hook") /\ Go /\ hook' = TRUE
    /\ UNCHANGED <<build, setting, mode, logVars, claimed, nfc, tries, otaGate, stale>>

\* Half a second of settling, then the ring is read until it is empty.
Purge ==
    /\ At("purge") /\ Go /\ stale' = FALSE
    /\ UNCHANGED <<build, setting, mode, logVars, claimed, nfc, tries, otaGate, hook>>

ServeForever ==
    /\ At("serve") /\ mode' = "serving"
    /\ UNCHANGED <<build, setting, bpc, logVars, claimed, servedVars>>

\* The vpcd client runs in a thread of its own.
SpawnVpcd ==
    /\ At("spawn") /\ mode' = "serving"
    /\ UNCHANGED <<build, setting, bpc, logVars, claimed, servedVars>>

\* The panic handler resets the chip: RAM, and what was on the wire, are gone.
PanicReset ==
    /\ mode = "panicked"
    /\ mode' = "booting" /\ bpc' = 1
    /\ sink' = "none" /\ level' = FALSE /\ cLogs' = TRUE
    /\ claimed' = FALSE /\ spilt' = {}
    /\ nfc' = "none" /\ tries' = 0
    /\ otaGate' = FALSE /\ hook' = FALSE /\ stale' = TRUE
    /\ UNCHANGED <<build, setting>>

BootStep ==
    \/ ArmGate \/ EspLogger \/ NetLogger \/ BleLogger \/ SilenceC \/ LevelOff \/ LogLine
    \/ TakePeripherals \/ ClaimWire \/ Station \/ BenchNet \/ Light
    \/ BringUpFrontend \/ RegisterHook \/ Purge \/ ServeForever \/ SpawnVpcd \/ PanicReset

\* The Bluetooth task of the console configures advertising from its bring-up on
\* and again at every connection and disconnection, whatever the main is doing:
\* ScanResponseConfigured prints the address it advertises under.  This println
\* is no line of the facade, and asks for no ble-diag.
AdvertisingLine ==
    /\ sink = "ble" /\ setting.ble /\ mode \in {"booting", "serving"}
    /\ claimed /\ ConsoleIsWire
    /\ spilt' = spilt \cup {"bluetooth"}
    /\ UNCHANGED <<build, setting, bpc, mode, sink, level, cLogs, claimed, servedVars>>

BootNext == BootStep \/ AdvertisingLine

\* Every wait of a boot is bounded; no central need come or go.
BootSpec == BootInit /\ [][BootNext]_bootVars /\ WF_bootVars(BootStep)

-----------------------------------------------------------------------------

(* Clean wire (main.rs, pn7160_ccid.rs): once the port is the CCID wire no *)
(* line of the log facade reaches it, whatever fails during the boot; nor  *)
(* does one of ESP-IDF's own in a shipped build, unless the BLE stack that *)
(* would have carried the log is down.  The prints of the Bluetooth task   *)
(* are not of the facade: see BluetoothTaskIsQuiet.                        *)
WireStaysClean ==
    /\ "rust" \notin spilt
    /\ ~setting.debug /\ setting.ble => "c" \notin spilt

(* What a serve loop relies on when it starts: the image's validity gate   *)
(* is armed, a serial parser starts on an empty ring, a frontend that can  *)
(* stall has its way to extend the time, the main handed it a frontend.    *)
ServesPrepared ==
    mode = "serving" =>
        /\ otaGate /\ nfc # "none"
        /\ build \in {"uart-pn532", "uart-mfrc522", "uart-ble", "cdc", "cdc-ble"} => ~stale
        /\ build \in {"cdc", "cdc-ble", "tcp"} => hook

(* WireStaysClean and ServesPrepared. *)
BootIsSound == WireStaysClean /\ ServesPrepared

(* Frontend fault isolation (#218): a board whose own peripherals work     *)
(* ends up serving, whatever its NFC controller does; only the TCP build   *)
(* needs its network for that.                                             *)
BoardServes ==
    (setting.peripherals /\ (build = "tcp" => setting.station)) => <>(mode = "serving")

(* pn7160_driver.rs on its diagnostics: a frontend that never answered is  *)
(* not reported healthy.                                                   *)
HealthIsTrue == mode = "serving" /\ Health = "healthy" => nfc = "live"

(* pn7160_ccid.rs: in builds with the BLE console the port is CCID-only.   *)
PortIsCcidOnly == build = "cdc-ble" => spilt = {}

(* ble_debug.rs on its diagnostics: "a raw println after the transport is  *)
(* claimed would put unsolicited ASCII on a CCID-shared console", so the   *)
(* Bluetooth task prints none in a standard build.                         *)
BluetoothTaskIsQuiet == "bluetooth" \notin spilt
=============================================================================
