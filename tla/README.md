# Verification of the CCID firmware

TLA+ models of the readers in this repository: the shared CCID command handler and
everything around it, from the bytes of a serial line or a USB endpoint down to the
drivers of contact and contactless cards. TLC checks the models on small instances; TLAPS
proves the most important invariants for every value of the constants.

`PROJECT.json` is the index: which definition stands for which lines, what each run
checks, which mutation of the code each property would catch, the hazards and the findings.

Contents: 1 the system, 2 modules and code, 3 runs, 4 bounds, 5 properties, 6 fairness,
7 refinement, 8 proofs, 9 findings, 10 not modelled, 11 plan.

## 1. The system

A CCID reader answers one command at a time. A host (pcscd with libccid or this
repository's IFD driver, or a custom client) sends `PC_to_RDR_*` messages over USB, UART,
TCP, Bluetooth SPP or USB-CDC; the reader answers each with one `RDR_to_PC_*` message and
talks to a contact card (ISO 7816-3) or a contactless one (ISO 14443-4 through an NFC
controller). Two firmwares share the command logic: the STM32 USB reader for contact cards
and the ESP32 readers for contactless ones.

| Component | Code | State | Operations | Modules |
|---|---|---|---|---|
| Command handler | `ccid-core/src/handler.rs` | slot state, presence cache, protocol, parameters, PIN session, one-shot flags, counters | one per CCID command, `check_card_change`, `take_*`, `complete_pin_*` | `CcidCore` |
| T=1 endpoint | `ccid-service/src/t1.rs` | two sequence numbers, two chains, last block, WTX flag, retry cache | `feed`, `card_response`, `reset` | `T1Endpoint`, `T1Link`, `ApduExchange` |
| Serial NFC reader | `ccid-service/src/ccid_handler.rs` | `t1_armed`, endpoint, baud latch | `process_command`, `xfr_via_t1`, `check_card_change` | `NfcReader` |
| Frame parser | `ccid-transport-serial/src/lib.rs` | the frame so far | `feed`, reset | `FrameLine` |
| Serial server | `ccid-service/src/ccid_serial_server.rs` | deadline, poll stamp, pending notification, latches | `feed_byte`, `poll_if_due`, `refresh_host_deadline`, `record_late_response` | `SerialServer` |
| Serve loops | `tcp_server.rs`, `cdc_burst.rs`, `esp32-ccid/src/main.rs` | arrival floor, burst, line rate, session | read, serve, drop, write, poll | `UartServe`, `BurstServe`, `ServeLoops` |
| SPP reader | `spp_server.rs`, `spp_shell.rs` | ring, link, parked packet | Bluetooth callbacks; pump, plan, write, park, retry | `SppLink` |
| STM32 USB reader | `ccid-firmware/src/{ccid_core,ccid,main,app_enum}.rs` | packet buffers, `cmd_busy`, transmit offset, main loop mode | packet in and out, main loop, bus reset | `ContactReader` |
| PIN pad, Secure structures | `ccid-firmware/src/pinpad/`, `ccid-core/src/secure.rs` | digits, step, deadline, buffer | key, correct, submit, cancel, tick; parse, build | `PinPad`, `SecureMessage` |
| Contact card drivers | `smartcard*.rs`, `pps_fsm.rs`, `selfhealing.rs`, `dwt_watchdog.rs`, `ccid-protocol/src/atr.rs` | speed, protocol, guard time, NACK, clock, failure streak | power, PPS, exchange, wire timing, self-healing | `CardDriver`, `T0Exchange`, `PpsExchange`, `BitBang`, `CardTiming`, `Atr` |
| PN7160 driver | `pn7160-nci/src/{driver,lib,esp_transport,hal_i2c,transport}.rs` | tag latch, session, re-arm phase, parking, stash, credits | presence poll, maintenance, power, exchange, recovery, transact | `Pn7160`, `NciLink`, `NciTransport`, `I2cDispatch`, `Atr` |
| MFRC522 and PN532 drivers | `mfrc522_driver.rs`, `pn532_driver.rs`, `frontend.rs`, `mfrc522-pcd` | session, streaks, absence debounce, bus | init, recover, poll, power, exchange | `NfcFrontends` |
| Listen role | `pn7160-nci/src/{listen,responder}.rs`, `pn7160_listen.rs` | connection, reassembly, credits | poll, respond, relisten | `ListenSession` |
| OTA update | `ota.rs`, `ota_header.rs`, `ota_validity.rs` (both) | slots, upload, validity gate | accept, chunk, end, select, restart, mark valid | `OtaUpdate`, `SafeUpdate` |
| BLE console | `ble_console.rs`, `ble_debug.rs`, `ble_logger.rs`, `ble_log_queue.rs` | connections, subscriptions, queue | events, push, drain | `BleConsole` |
| Boot | the `main` of each ESP32 build | log sinks, wire, frontend | one step per call of `main` | `Boot` |
| vpcd client | `ccid-service/src/vpcd.rs` | power state | power, reset, ATR, APDU | `vpcd` path of `Pn7160` |
| IFD driver | `host-tools/ifd-nucula/ifd-nucula.c` | connection, bSeq, call | connect, send, read echo, read answer | `IfdDriver` |
| Displays, LEDs, board tables, byte layouts, bench scripts | several | – | – | section 10 |

**How they interact.** Inside a reader nearly everything is a synchronous call chain: a
serve loop feeds bytes to the serial server, which calls `CcidHandler::process_command`,
which delegates to the shared handler or feeds a T=1 block to the endpoint; a completed
APDU re-enters the shared handler's pipeline and ends in the slot driver. Results travel
back as the return value and as one-shot flags (`take_card_reset`,
`take_parameters_accepted`, `take_snapshot_request`, `take_baud_change`). Between commands
the loop calls `check_card_change`. What interleaves with this chain: the host (any command
at any time, retries, giving up, reconnecting), the card (leaving, exchanged, mute), the NFC
controller (losing a session, late frames, going mute), the clock, the Bluetooth callbacks
of the SPP reader and of the BLE console, and the flash server's thread.

**What is hard, and what makes each part correct.** `PROJECT.json` lists forty hazards, each
at its line. In short:
- *Handler*: presence cache, slot state and driver session are three views of one card,
  updated by different calls. They agree, the host hears of every change, parameters
  reported are those in force, no APDU goes to an inactive card, a PIN session ends with its
  card, a dead session is noticed.
- *T=1 endpoint*: retransmission is decided by one bit of sequence number and a one-entry
  cache. Each APDU runs once and unaltered, its answer comes back whole.
- *NFC reader*: blocks reach the endpoint only in a negotiated session; no card's answer is
  delivered as another card's.
- *Parser, server, loops*: the parser recovers from any garbage; an answer goes only to a host
  that still waits; time extensions, late drops, notifications, presence polls and the
  snapshot and baud latches race each other on one wrapping clock, and every loop orders
  them differently.
- *SPP*: two tasks share a ring and a link; a packet that could not be written is parked.
- *STM32 reader*: the busy gate, the deferred Secure answer, a half-sent response, a bus reset.
- *Contact drivers*: reader and card must agree on speed and protocol after every failed
  negotiation, parameter change and self-healing power cycle.
- *NFC drivers*: the driver's picture of the field lags behind the controller's, which lags
  behind the tag. A tag in the field is found, a tag that left is noticed, a controller that
  fell silent is revived, a late answer is not taken for the next command's.
- *OTA*: a reset may come between any two steps; a working image always remains.

## 2. The modules and the code

Each module names its files in its header; every definition is mapped to its lines in
`PROJECT.json`. Mutated forms stand directly above the definition they replace
and are marked "Mutant".

### The CCID core

**`CcidCore`** – `CcidHandlerCore<D, P>`, both profiles (`Contact` is
`ReaderProfile::CONTACT`). Every field that influences a later answer is a variable of the
same name; `events` holds the one-shot flags the last call raised, because both wrappers
take them directly after each call. `card` is what is really in the slot and `session` the
card the driver holds activated, so that the presence cache can be wrong: a card may be
exchanged between two polls, an RF poll may miss it, `power_on` may fail with or without
ending the old session, an exchange may kill the session, the RF driver may drop it. History:
`told` (the presence the host last heard of) and `expected` (whose parameters are in
force; `Unsettled` where the profile makes no claim). An APDU is its routing class, a
parameter structure a model value, an ATR the card that sent it.

**`T1Endpoint`** – state and operators without a `Next`: `FeedLocal(b)` is `feed` for a block
the endpoint answers alone, `FeedFinal(b, rsp, slow)` is `feed` and the following
`card_response`. Information fields are sequences of units, so chaining, IFSC/IFSD and the
relay limit are real; the clock is one bit, whether the card was slow.
**`T1Link`** puts it on a link with a host T=1 engine (external, from the conventions `t1.rs`
states for it), blocks lost or damaged. **`ApduExchange`** is the promise: ask, run once,
deliver.

**`NfcReader`** extends both: `Delegated` is `process_command` for all that goes to the
shared handler, `XfrViaT1` is `xfr_via_t1`, `PollPresence` the wrapper's
`check_card_change`; the host is arbitrary. Units of an answer name the card that gave them.

### The serial readers

**`FrameLine`** – the GemPC parser byte by byte with its two bounded buffers, and
the line that feeds it: a host that sends frames, damaged, lost and invented bytes, the
gap and stall resets of the server. The four bytes of `dwLength` are one; everything else is
byte for byte, over two-bit bytes so that SYNC, ACK and NAK values occur as payload too.

**`SerialServer`** – the record `srv` is the server without its parser. Ticks are `u32` and
wrap; only differences to the current tick are compared, so stamps are kept as ages modulo
`Modulus`. A command takes time (`phase = "work"`), in which the time-extension hook may emit
interim frames (`StallHook`), the host may give up and the card may move. The loops:
**`UartServe`** (`serve_uart`, `serve_byte`: read one byte, drain what queued behind the handler,
change the line rate after the acknowledgement), **`BurstServe`** (what the burst loops share:
the arrival floor; the CDC loop `serve_once`; the TCP loop `serve_session` and the accept loop
around it). **`ServeLoops`** is the server under whichever loop the build has.

**`SppLink`** – the Bluedroid callback and the serve loop share ring and link under a lock; one
action of the loop is one critical section or one stretch of work between two. A packet that
meets congestion is parked, retried, expired; connections open and close at any point.

### The STM32 reader

**`ContactReader`** – `CcidClass` (packets, offset, ZLP), `CcidMessageHandler` (reassembly, busy
gate, deferred Secure) and the main loop with PIN mode and application enumeration. Bytes are
counted in packets. The handler's commands are `CcidCore`'s, reduced to the slot, the
armed PIN session and the length of the answer. The host splits transfers, times out, gives up
and resets the bus.

**`PinPad`** – `PinEntryContext`, `PinModifyContext` and the passes of the main loop, with a
millisecond counter that wraps. **`SecureMessage`** – `PinVerifyParams::parse`,
`PinModifyParams::parse` and `PinBuffer`; a byte of the block stands for its own field.

**`CardDriver`** – `SmartcardUart`, `SmartcardBitbang` and `SmartcardWrapper` against a card with
its own idea of speed and protocol: PPS, IFS ladder, wire timing, SetDataRate, IccClock,
self-healing. **`T0Exchange`** – `transmit_apdu_t0` byte by byte. **`PpsExchange`** – `PpsFsm`
against a card that may answer anything; a byte is the set of its bits, so the check byte is
a real exclusive or. **`BitBang`** – characters on the pin sampled at bit centres, answers
collected until a pause, TLV diagnostics. **`CardTiming`** – uptime and watchdog on
a wrapping cycle counter, and the waiting times. **`Atr`** – `parse_atr`, protocol detection and,
for the PN7160, `ats_to_atr`.

### The ESP32 readers' radio side

**`Pn7160`** – `Pn7160Driver` and the reader operations under it, its two servers (TCP with
presence polls and mute recovery; vpcd with ATR probes and time-driven maintenance), the
controller (external: RF state, notification queue, faults) and the tag. Operators take
and return a record of driver and controller, in the order the code writes and reads frames.
**`NciLink`** – `exchange_detailed`: fragments, credits, segments, one budget of rounds.
**`NciTransport`** – `transact`, `drain` and the ring of stashed notifications. **`I2cDispatch`** – the walk
over an embedded-hal transaction. **`ListenSession`** – the card role.

**`NfcFrontends`** – the MFRC522 and PN532 drivers behind `RetryFrontend`, over a bus
that fails and is recovered, with presence debounce, the frame wait of the card and the chip's
receive timer.

### Around them

**`OtaUpdate`, `SafeUpdate`** – flash server, validity gate and (external) slots and bootloader;
a reset between any two steps. **`BleConsole`** – GATT/GAP events against the drain that releases
its two mutexes between steps. **`Boot`** – a build's `main` is a sequence of steps, each an
action; peripherals, network and controller may fail. **`IfdDriver`** – the C driver against a
board that is late, restarts or drops the connection.

**`MC_ContactParts` and `MC_Platform`** check parts that do not share state in one run: a
behaviour runs one of them, chosen at the start, while the others rest. They are not
compositions; the number of states is the sum, not the product. The real compositions are
`NfcReader` (handler and endpoint), `T1Link`, `FrameLine`, `ServeLoops`, `SppLink`,
`ContactReader`, `Pn7160` and `OtaUpdate`.

## 3. Runs

| Run | Question | Properties | Distinct states |
|---|---|---|---|
| `core_serial` | Do presence, slot state, notifications and counters stay consistent on the serial profile, is the host told of a card that left, and is a dead session noticed? | `TypeOK` `HandlerIsConsistent` `RemovalIsTold` `StaleSessionNoticed` | 26,956 |
| `core_contact` | Contact profile with PIN pad: are the reported parameters those in force, do PIN sessions end with their card, does a removed card leave the slot inactive? | `ContactIsConsistent` `RemovalIsFinal` | 78,060 |
| `t1_link` | Does every APDU run once and every answer arrive whole, chained on a clean line and in single blocks on a lossy one? | `BlocksAgree` `ImplementsExchange` | 19,043 |
| `nfc_reader` | The reader against an arbitrary host, card exchanges and lost sessions: routing and ownership of answers. | `RouteIsSound` `NoForeignAnswer` | 136,224 |
| `nfc_inactive_answer` | Can a card's answer leave an inactive slot? (it can) | `AnswersNeedActiveCard` | violation |
| `frame_line` | Does the parser recover from damaged, lost and invented bytes, and is an echo the frame that arrived? | `EchoIsTheFrame` `WholeFrameIsHeard` `StalledFrameIsDropped` | 788,566 |
| `serve_loops` | Under each serve loop: late answers, interim frames, order on the wire, latches, presence polls, on a wrapping clock. | `PanicForOwnCommand` `PresenceIsPolled` `WireOrder` `AnswersAreAwaited` `RateFollowsAck` | about 4.56 million |
| `spp_link` | Callback and serve loop interleaved: order and deadline of parked responses, a loop that never blocks. | `DeliveredInOrder` `PanicAfterAck` `NothingWrittenLate` `LoopReturns` | 824,431 |
| `contact_reader` | Does a host get whole answers from the USB reader, and is it always answered again? | `AnswersAreWhole` `HostIsAnswered` | 274,304 |
| `contact_parts` | PIN pad, card drivers, T=0, PPS, clocks, ATR, Secure blocks, bit-banged line. | `PinAsConfirmed` `SessionsAgree` `WireIsTrue` `TimesAreTrue` `HostAndCardAreRead` `CardIsHealed` | 541,938 |
| `pn7160` | Is a tag found, a removal noticed, a silent controller revived, a late answer dropped? | `TagIsFound` `RemovalIsNoticed` `MuteIsHealed` `LateAnswerIsDropped` | 425,969 |
| `platform` | Frontends, OTA, data links in both roles, stash, I2C walk, IFD driver, console, boot. | `RadioIsSound` `EndsAreSound` `PartsRecover` `SafeButForEarlyProof` `StashIsQueue` | 448,871 |

Deadlock is checked in `core_serial`, `core_contact`, `t1_link`, `nfc_reader`,
`frame_line` and `pn7160`. The others say `CHECK_DEADLOCK FALSE` because they contain
behaviours that really end: a diagnostic panic (`serve_loops`, `spp_link`), the
arithmetic panic of `contact_reader`, single exchanges, parses and boots in the two part
runs, and environments whose number of commands, connections or resets is bounded.

## 4. Bounds, and why they are enough

- *Cards.* Everything that can be confused is "this card's" versus "another card's": two
  cards in the core runs, with different protocols, so that a parameter kept from the wrong
  card shows; interchangeable in `nfc_reader` (`SYMMETRY CardSymmetry`). `contact_reader` has one card,
  which comes and goes; two are needed only for the finding `PinForItsCard`.
- *`Seqs`, `HostSets`.* A reply copies the bSeq of its command; the host's set has to be told
  from the ATR's and the default, not from another set.
- *`MaxCount` = 1* puts the counters at saturation after one step; `nfc_reader` has 0 because
  none of its properties read them.
- *`t1_link`*: units of one, APDUs and answers of up to three give single, first, middle
  and last blocks; two texts of each length make a stale or spliced one visible. `MaxLosses` = 2
  is an answer lost and its retransmission lost; the endpoint's cache has one entry, so a third
  loss meets the state the second left. `LossyIsShort` keeps chains off a lossy line,
  where the findings `DeliveredWhole` and `RelayedAsAsked` show that they lose data.
- *`frame_line`*: two-bit bytes, a two-byte header and payloads of at most one byte; a host
  command contains SYNC bytes; lengths beyond `MaxPayload` arrive through damage.
- *`serve_loops`*: windows of one tick, a host that waits one tick longer, work of up to five
  ticks, so that a command outlives its window, the host's patience and the poll interval.
  `Modulus` = 14 is the smallest that keeps the longest real difference below the wrap, as
  `u32` milliseconds do; every stamp wraps within a few commands. `MaxRx` = 2 lets one command
  queue behind another, and a burst fill the buffer. `VIEW Essential` leaves out what the next
  dispatch overwrites before anything reads it (which of two states with one view is kept depends on
  the order of the search, so the count varies slightly between runs).
- *`spp_link`*: three commands over two connections, a ring of two chunks (it overflows), a
  packet of up to three responses.
- *`contact_reader`*: bSeq modulo 2 (stale and current), a buffer of two packets, responses of one
  and three packets with short and full last packet, one fault (a host's time-out or a
  bus reset) anywhere, any number of card movements.
- *`contact_parts`*: PINs of one and two digits over two digits; a tick counter that wraps inside one
  time-out; both boards; answers of up to a T=0 buffer of data, which leave no room for
  the status word; every PPS
  answer over three bits; ATRs of up to three levels, cut at 0, 1, 2 or 4 missing bytes; characters
  of two bits sampled at both extremes of the edge delay; pauses between and above the patience values of
  an ATR and of a raw exchange.
- *`pn7160`*: one movement of a tag, one fault, two host operations or reconnections (wake-ups of
  the idle vpcd client are not bounded), poll thresholds of one
  or two: every re-arm phase and the parked state are reached, on both paths.
- *`platform`*: one more bus recovery pulse than the code gives, an image that serves, one that
  boots and never serves and one that is torn, three updates and three resets (delivery, trial
  and proof can each be interrupted), a budget of six rounds, which notices and quiet rounds exhaust, a stash of four
  slots and six frames, a console queue of one line.
- *`nfc_reader`'s view* `NoOutputs` leaves out variables that no guard and no property of that run reads.

## 5. Properties

Each has a mutation of the code that breaks it. Invariants: `HandlerIsConsistent`
(`ActiveImpliesPresent`, `HostToldPresence`, `AnswersNeverExceedApdus`), `ContactIsConsistent`
(`ParametersInForce`, `ArmedPinHasCard`), `BlocksAgree`, `RouteIsSound`, `NoForeignAnswer`,
`EchoIsTheFrame`, `WholeFrameIsHeard`, `PanicForOwnCommand`, `PresenceIsPolled`, `WireOrder`,
`DeliveredInOrder`, `PanicAfterAck`, `AnswersAreWhole`, `PinAsConfirmed`, `SessionsAgree`,
`WireIsTrue`, `TimesAreTrue`, `HostAndCardAreRead`, `LateAnswerIsDropped`, `RadioIsSound`,
`EndsAreSound`. Steps: `AnswersAreAwaited`, `RateFollowsAck`, `NothingWrittenLate`,
`SafeButForEarlyProof`, `StashIsQueue`. Liveness: `RemovalIsTold`, `StaleSessionNoticed`, `RemovalIsFinal`,
`StalledFrameIsDropped`, `LoopReturns`, `HostIsAnswered`, `CardIsHealed`, `TagIsFound`, `RemovalIsNoticed`,
`MuteIsHealed`, `PartsRecover`, and the progress half of `ImplementsExchange`.
`LineTypeOK`, `Sound`, `SppTypeOK` and `ServerTypeOK` document the types of their modules; they hold
in the runs' instances and are not listed as results.

Weaker than they may look:
- `RemovalIsTold` is for a slot that stays empty; a card that comes back in time may hide it.
- `SafeButForEarlyProof` lets the one unsafe step of the OTA update through (`EarlyProof`, a finding).
- `WireStaysClean` is about the log facade and ESP-IDF's log; what the Bluetooth task prints is
  the finding `BluetoothTaskIsQuiet`.
- `ParametersInForce` is a claim about the contact profile (see `ResetDropsHostParameters`).
- `PanicForOwnCommand` excepts TCP, `AnswersAreWhole` the PIN pad, `NothingWrittenLate` packets
  that mix connections, `TagIsFound` a tag a leftover re-arm disturbs; each exception is a finding.
- `MuteIsHealed` does not claim the vpcd path, which has no mute recovery, nor a driver
  that trusts an activation and asks the controller nothing.
- `SpeedsAgree` is for `NegotiateSpeed = FALSE`, the value `PPS_APPLY_NEGOTIATED_BAUD` has, and
  until the host orders a data rate.
- `StatusIsTheCards` is for commands that ask for no data (see `DataIsTheCards`).
- `CreditRespected` is checked for a controller that grants before it answers (`GrantFirst`).

## 6. Fairness

Nothing is assumed of a host, card or tag except where said.
- `CcidCore`, `NfcReader`: `WF(CheckCardChange)`, `WF(PollPresence)` – every serve loop polls the
  slot for ever. No fairness of polling *results*.
- `T1Link`: `WF(Reader)` – a block that arrives is answered in the same call; `WF(HostReceive)` –
  the host reads what it waits for. A lost block is repeated by the step that loses it, which stands
  for the host's block waiting time.
- `FrameLine`: `WF(IdleTick)` – the idle branch of the read loop.
- `SppLink`: `WF(Loop)` – the serve task is scheduled; nothing of the callback.
- `ContactReader`: `WF(Poll)`, `WF(MainLoop)` – the super-loop; `WF` of the host's packets, reads,
  next command and giving up – pcscd goes on and has time-outs; `WF(Configured)` – a bus
  reset is followed by configuration.
- `CardDriver`: `WF(Xfr)` – the host goes on; `SF(Reactivated)` – a present card does not
  fail every activation for ever. `CardIsHealed` says what else it needs.
- `Pn7160`: `WF(PnStep)` – the driver's rounds and time-outs, which are loops with deadlines, and the
  tail of a TCP turn; `SF(TcpPoll)` – a host that sends commands for ever leaves idle turns; `WF(Find)`,
  `WF(Answer)` – a healthy controller finds and answers. Nothing of the vpcd host: pcscd stops polling a
  reader it holds for dead. What needs a host or the clock says so in the property: `Asked` (somebody
  asks for the presence again and again), `TimePasses` (`WF(IdleWake)`, the 5 s socket time-out, not
  bounded). `TagIsFound` is both: with `TimePasses` alone a tag is found by a driver that is
  parked, `poll_maintenance` doing the work; with `Asked` by any. A driver that is not parked and that
  nobody asks is not re-armed by time, in the code as in the model.
- `NfcFrontends`: `WF(FePoll)`; `BleConsole`: `WF(OnEvent)` – the Bluetooth task; `Boot`: `WF(BootStep)`,
  not of `AdvertisingLine` (no central need come or go).

## 7. Refinement

`T1Link` implements `ApduExchange` with the identity on the application's three variables:
every APDU runs at most once, is the one asked, and its own answer is delivered; under the
fairness above it is delivered. `SafeUpdate` is the promise of the OTA update: `keeper` is the
image of the slot to fall back on, `trial` the image offered in the other one, `trying` whether
it runs, and only `Prove` replaces the keeper, by the running image, which works. Every step of the
flash server, the gate, the boot loader and a reset is a step or a stutter of `SafeUpdate`, but for
one: `esp_ota_mark_app_valid_cancel_rollback` marks the *selected* slot, and between
`esp_ota_set_boot_partition` and the restart that is the new image while the old one still serves.
`ImplementsSafeUpdate` fails by that step (section 9); `SafeButForEarlyProof` is the refinement that lets
exactly that step through. TLC checks both refinements; the second and the safety half of the first
are also proved (`OtaIsSafe`, `LinkIsExchange`, section 8).

## 8. Proofs

For arbitrary sets of cards, bSeq values, parameter structures, blocks and answers, counter
limits and INF sizes.

**`CcidCore_proofs`.** The inductive invariant is `CoreInv`: `TypeOK`, `SlotInv`,
`AnswersNeverExceedApdus` and, for the contact profile, `ParametersInForce`. `SlotInv` contains
`ActiveImpliesPresent`, `HostToldPresence` and `ArmedPinHasCard` and the strengthening that makes them
inductive: a live driver session implies that the presence cache holds (`check_card_change`
raises the cache without telling anyone when it meets a live session, which is sound only
because no such session exists under an empty cache). One lemma per command handler;
`ExchangeStep` and `ParameterStep` carry what the exchange and parameter commands share.
Theorems: `TypeCorrect`, `ActiveHasCard`, `HostIsTold`, `PinHasCard`, `CountersAgree`,
`ContactParameters`, and `HandlerConsistent` and `ContactConsistent`, which state the
properties of the two core runs.

**`NfcReader_proofs`.** First the endpoint, `T1Inv(U)`: the retry number is never the expected
one, and the chain, the last block and the cached frame consist of units of `U`. Each `Feed`
operator preserves it for any block; `FeedFinal` needs the card's response over `U`. Then the
reader: `NfcInv` is `T1Inv({owner, Reader})`, `RoutesOnlyNegotiated`, `DisarmedIsClean`
and `SessionIsOwners`. The last is the strengthening: a live session belongs to the card of the
last reset, because only a successful power-on starts a session and it raises `card_reset`, and
the wrapper empties the endpoint at every `card_reset`. From it follow `RouteIsNegotiated`,
`DisarmedEndpointIsClean`, `AnswersAreTheOwners` and `RouteSound`.

**`SerialLine_proofs`, the frames.** For any alphabet, header shape, payload limit and checksum. `LineInv`
is the types, `Sound(parser)` (the buffers and counters of each parser state: what is still
to come fits what the header announced), that the parser's frame is the end of what the line
carried (`Suffix`), `EchoIsTheFrame`, `FromHost` (what is left to send is the end of one frame
of the host) and `HeardSoFar`. `WholeFrameIsHeard` speaks of the moment a frame is complete; the
strengthening says where the parser is at every byte of a frame to which nothing happened:
ready for it, holding exactly what came of it, or done with it. That the checksum is a byte
needs an induction over its length, done as a least counterexample (`LrcIsByte`). Theorems:
`LineInductive`, `EchoAlwaysTheFrame`, `WholeFramesAreHeard`.

**`SerialLine_proofs`, the T=1 blocks they carry.** For any APDUs, answers, block sizes and IFS
values (0 too), with any number of lost and damaged blocks. `LinkInv` says where host and
endpoint can be: nothing asked (`NothingAsked`: the numbers agree, except while the host has
not heard of a resynchronisation), the APDU not run (`NotRun`) or run (`HasRun`). The last is
the strengthening: once the card has run, whatever the host repeats is answered with `last_sent`,
because the retry number and the cached first frame are those of the host's last I-block, be the
answer `Staged` behind a WTX or `Chunked`. Theorems: `LinkInductive`, `BlocksAlwaysAgree`,
`NothingRunsTwice`. `DataInv` adds the data: the APDU is always what the reader has, the block
under way and what the host has left (`Going`), and the answer likewise (`Coming`). From it `LinkIsExchange`:
every step of the link is a step of `ApduExchange` or a stutter. It is about `LinkSpec` and has the hypothesis
`OneBlock` (an exchange that loses blocks fits one block each way), which is needed: a loss inside a
chain costs data (section 9).

**`ServeLoops_proofs`.** For any windows, poll interval, read time-out, handler time, number of
interim frames and queued commands, and any modulus of the tick counter. `ServeInv` has two
halves. `FrameInv` is what the server's own steps touch: types, `WireInv` (what the wire holds,
from the echo still owed and the record of the time-extension hook) and `LatchInv` (a latch
lives no longer than the response of the command that set it, except after a failed TCP write).
`LoopInv` is the loops' part: `PollInv` (how old the last poll can be, phase by phase),
`UartAges` and `BurstAges` (the stamp a response is judged from is never younger than its
command, though both are ages modulo `Modulus`). Theorems: `ServeInductive`, `WireIsOrdered`,
`PanicIsOwn`, `PollsAreKept` and, as step properties, `AnswersReachTheirHost` and `RateWaitsForAck`.

**`Wireless_proofs`, Bluetooth SPP.** For any number of commands and connections and any size of the ring,
packet and batch. `SppInv`: types; `StagesInv` (ring, batch, packet and air each hold their
commands in the order sent, and what is in a later stage was sent before what is in an earlier
one); `PlanHolds` (a packet is written only when none is parked, although the lock was released
since the plan was made); `HostsWait` (a host sends its next command when the last is answered or
given up, so a packet holds one response per connection). Theorems: `SppInductive`, `SppDeliversInOrder`,
`SppNothingLate`, and `SppPanicsAfterAck` for `MaxConns <= TxCap`. The hypothesis is needed: TLC
finds a behaviour without it in which a response dropped because the packet is full leaves
the snapshot request latched.

**`Wireless_proofs`, the PN7160.** For any tags, faults of the controller, limits of the driver and numbers
of operations and movements. The lemmas say of each operator of the model, from `Execute` and `Send`
up to `IsCardPresent` and `Recovered`, that it only drops DATA (`DropsOnly`: what the controller
owes or has in its queue afterwards it had before). `LateInv`: DATA is owed only by a healthy
controller with an active interface; nothing of the exchange that timed out is under way.
The step that needs an argument is `Resync`: the deactivation may not be acknowledged in time, but then it
is the command the controller executes before it takes the fall-back's, and that ends what is
owed (`TeardownDrops`); then `settle_drain` empties the queue. Theorems: `LateInductive`,
`LateAnswersAreDropped`. An exchange that ends with the link lost is not torn down, which is why
only time-outs are covered (section 9, `NoForeignData`).

**`ContactParts_proofs`.** `ReaderIsPatient`: at every baud rate and waiting-time integer the reader
waits at least the card's block and character waiting times, below its ceiling, and never beyond it.
`FlatWaitReach`: the flat T=0 wait covers the work waiting time exactly up to WI = 56. Then
`PartsInv`, one conjunct per part of the run, as no step touches two:
- `PinInv`: what each step of the entry has submitted so far, and that the age of the entry is
  the difference of the wrapped stamps (`PinAlwaysConfirmed`);
- `DwtInv`: the counter is where the last reading plus the gap puts it, once round at most
  (with `PinInv`: `CountersTellTime`);
- `T0Inv`: for a command without data to fetch that has not failed, which bytes are still on the line
  at each point of the exchange; `PpsInv`: what has been read of a PPS answer matches the state
  of the machine, and a failure means that the answer was another (together: `WireAlwaysTrue`);
- `DrvInv`: driver, wrapper and card agree on the protocol of a powered card, and on the
  speed until the host orders one (`SessionsAlwaysAgree`).

What is read (`ReadAlwaysTrue`, invariant `HostAndCardAreRead`) has an invariant of its own, `ReadInv`:
- `AtrInv`: between two levels `parse_atr` is at the place of the level's first byte and knows the
  protocol of the TD before it, and each parameter is that of the last place of its kind before the index
  (`Good`); places of different bytes differ and grow with the level (`PlaceOf`, from counting the bytes
  that are there), for any number of levels, protocols and missing bytes;
- `SecInv`: the block is a prefix of the host's, of any length, and the digits of the buffer up to
  its length are what was typed (`PinBufferOk`), also after a correction and a wipe;
- `LineInv`: for any stream of characters and pauses with a bit turned over, any etu and any lag of the
  poll below half of it, what is ahead is the rest of the stream after the first `n` items (`Where`) and
  what is collected is what was heard in those (`SoFar`); that a character is sampled inside its bits
  and that its parity shows a bit turned over are lemmas. The diagnostic buffer has a set of record starts that
  is closed under following the lengths (`Starts`). The set is what makes `DiagParses` provable: the
  walk itself is recursive, the set is not.

**`ContactReader_proofs`.** The bulk transport of the STM32 reader without a PIN pad, for any cards, any size
of the receive buffer and any number of bSeq values. `ContactInv` says where one command can be:
`HostPlace` (how much of it the host has sent, and what of it is at the OUT endpoint),
`Received` (a message that is complete in `rx_buffer` is being answered, one that is not
waits for the host), `Sending` (the offset is inside the response), `Answering` (as soon as
an answer to the current command is in the buffer, at the IN endpoint or partly read, the host
has nothing more to send, so that nothing can overwrite the rest, and the rest follows packet
by packet, the empty one included) and `UnderWay`. The last is the strengthening that takes
time-outs and resets into account: a bSeq that is still under way lags behind the host's by no
more commands than there were faults. Theorems: `ContactInductive`, `AnswersAlwaysWhole`, and
`NoPadNoPanic` (`try_send` never reads past the response; with a PIN pad it does, see section 9). They are for
`MaxFaults < SeqMod`, and the hypothesis is needed: after as many overtaken commands as bSeq has
values (256) the response to the oldest is taken for the answer to the newest; TLC shows it
for two values and two faults.

**`Platform_proofs`.** `OtaIsSafe`: every step of `OtaUpdate` but `EarlyProof` is a step or a stutter of
`SafeUpdate`, without a hypothesis. `OtaInv`: there is a proven image to fall back on; the running slot is the
selected one and has had its boot, except in the sleep before the restart; an upload is
under way only under a proven image; the gate is armed only by an image that serves.
`StashAlwaysQueue`: every step of the ring of stashed notifications is a step of a bounded
queue, for any number of slots; the argument is the index arithmetic without the remainder (`Wrap`).
`TimerCoversRequest`: every time-out `set_timeout_ms` accepts fits the prescaler and the 16-bit
reload register, and the period armed is not shorter than the request (`CeilDivCovers`).

**`Platform_proofs`, the radio side.** `RadioAlwaysSound` is about the composed `PlatformSpec`; a step of
it is a step, or none, of each part (`PartsStepAlone`), so the invariant is the conjunction of three.
- `FeInv` (MFRC522): in a session the UID is the card's, the CRC hardware is on, the card at hand
  was not reset under it, and the timer is the card's frame waiting time, which fits the timer
  (`FrameWaitsFit`, `TimerCoversRequest`). One lemma per driver operation, on worlds (driver, bus, field)
  rather than states. The retried init is a recursive function of the attempts left; that each attempt
  keeps the world sound is an induction, done as a least counterexample (`LeastNumber`,
  `FeBroughtUp`). Theorem `SessionsKeepTheirRadio`.
- `NlInv` (data exchange): at rest the credit is back and only waiting-time notices are left on
  the line; in the gate (`NlGated`) the controller holds what was sent and the one credit is with it or
  on the line; in the collection (`NlCollecting`) the line goes on where the collection is, segment by
  segment, and a credit comes before the answer. Frames after a lost tag are exempt, as they are drained
  unread. Theorem `ExchangesAreWhole`. Hypothesis `GrantFirst`: the controller gives the credit of the last
  fragment back before it answers; without it `CreditRespected` is false (section 9).
- `LiInv` (card emulation): the line has the activation first and the departure last (`LineOk`); the one
  credit is with the controller, on the line or with the session (`CreditsOk`); the pieces held and
  those on the line are all that were sent (`PiecesOk`). The strengthening is about a session
  that outlived its reader: it waits for a credit, no grant is on the line or owed, so it cannot
  send into the next reader's activation, and the pieces it throws away meanwhile belong to a command
  that it will not answer. Theorem `ListenAnswersWhole`.

**`Platform_proofs`, the ends.** `EndsAlwaysSound` is about `PlatformSpec` too; `EndsInv` has one conjunct for
each of the four parts, for any number of calls, connections, centrals, lines and operations.
- `IfInv` (pcscd's driver): each request under way, on connections given up too, is of a call of its
  own that no card has seen (`RequestsOk`), and none is of a call the driver has still to send; that is
  what makes the retry after a failed send harmless. On the driver's own connection the frames are the
  echo, the extensions and the answer of its call, in that order (`FramesOk`, `MineOk`). Theorem
  `CommandsRunOnce`, under `BoardExtends <= MaxExtensions`: a board that asks for time more often than the
  driver's loop reads such frames (64) has one of them taken for the answer of a command not executed.
- `ConsoleInv` (BLE): `SubInv` says of each central that what the console knows of its link and
  subscription, and the reports and writes still in the event queue, add up to what it has and asked
  for; `LogInv` says that every central is at some line `n` or before it and the queue after it, whichever
  point the drain, which works outside the lock, has reached. Theorem `ConsoleAlwaysSound`.
- `I2Inv` is `WireShape` with its types: an invariant as it stands; the work is in the length of
  a run of writes (`RunOfWrites`) and in counting the transfers made.
- `BootInv`: what each build has done is what the steps of its main before `bpc` do; `WireStaysClean` is
  then a fact about the order of the steps in the eight mains (`MainsInOrder`).

**Assumptions.** All are named in the module that declares the constants and evaluated by TLC on
the runs' instances: `ProfileAssumption` (a PIN pad only on the contact profile), `CardAssumption`,
`ParameterAssumption` (the markers for "none" are none of the values), `IfsAssumption` (an announced
IFS of 0 is allowed), `ReaderAssumption` (the serial profile; the INF field of an S-block is a
sequence of numbers), `FrameAssumption` and `LineAssumption` (header and frame shape; the host's
commands have the length they announce), `LinkAssumption` (APDUs and answers are
non-empty sequences), `ServerAssumption` and `UartAssumption` (the tick counter
does not wrap within a poll interval, a read and two commands), `SppAssumption`, `Pn7160Assumption`, `PinPadAssumption`,
`DwtAssumption` (the loop comes round within one turn of the counter), `PpsAssumption` (the
buffer holds the longest PPS), `T0Assumption`, `ContactAssumption`, `DriverAssumption`, `OtaAssumption`, `NciAssumption`,
`FrontendsAssumption` (FWI at most 14), `NciLinkAssumption`, `ListenAssumption` (a fragment holds at least a byte), `IfdAssumption`, `I2cAssumption`,
`BleAssumption` (finitely many centrals; the queue holds a line and a line is not empty), `AtrAssumption` (protocols and
missing bytes are numbers, nibbles 0 to 15), `SecureAssumption`, `BitBangAssumption` (the poll sees an edge
within half an etu; a response buffer holds a byte).
Hypotheses of single theorems are `Contact`, `~PinPad`, `MaxConns <= TxCap`,
`MaxFaults < SeqMod`, `OneBlock`, `GrantFirst` and `BoardExtends <= MaxExtensions`.

**Only model-checked.** Liveness, which the prover does not reach, among it the progress half of
`ImplementsExchange`. Every invariant that a run checks is stated by a theorem.

## 9. Findings

Where the code and a comment, doc or test of the repository disagree. `PROJECT.json` quotes both
sides and tells the behaviour. `nfc_inactive_answer` is kept as a run; each of the others is a
definition of its module, violated when it is checked in place of the properties of the configuration
named here, as an INVARIANT unless marked (P) for PROPERTY:

| Property | Configuration | What the code does |
|---|---|---|
| `AnswersNeedActiveCard` (P) | `nfc_inactive_answer.cfg` | `is_s_block_request` tests the wrong bit; S-block responses fetch the last answer of a card that is off |
| `ResetDropsHostParameters` | `core_serial.cfg` | the serial profile keeps the host's parameters across a card reset |
| `DeliveredWhole` | `t1_link.cfg`, `SPECIFICATION Spec`, `MaxApdu` 1, `MaxLosses` 1 | a repeated R-block skips a chunk of a chained answer |
| `RelayedAsAsked` | `t1_link.cfg`, `SPECIFICATION Spec`, `MaxApdu` 2, `MaxResponse` 1, `MaxLosses` 1 | a repeated piece of a host chain is appended twice |
| `NotifyIsCurrent` | `serve_loops.cfg` | `poll_if_due` discards a transition; a notification of the past is sent |
| `EveryPanicForOwnCommand` | `serve_loops.cfg` | a failed TCP write leaves the snapshot request to the next client |
| `ExtendedWindowIsHonoured` (P) | `serve_loops.cfg` | refreshing the deadline erases the growth by interim frames |
| `SnapshotAfterAck` | `serve_loops.cfg` | the CDC loop panics although the acknowledgement failed |
| `CleanWire` | `spp_link.cfg` | a response is written to the connection that is open, not to the one that asked |
| `FreshParser` | `spp_link.cfg` | nothing resets the parser at a reconnect |
| `ProvenByDelivery` | `spp_link.cfg` | a packet that is dropped has proven the image |
| `SessionEndsWithTag` (P) | `pn7160.cfg` | a removal during a session is not polled for |
| `LiveTagIsLeftAlone` | `pn7160.cfg` | a re-arm survives `power_on` and tears down a live interface later |
| `PresenceIsPhysical` (P) | `pn7160.cfg` | an activation queued before a re-arm's deactivation is trusted |
| `NoForeignData` | `pn7160.cfg`, `Paths` vpcd, `Tags` auto, `FaultyPaths` {}, `MaxOps` 3, `MaxMoves` 3, `MaxFaults` 0 | a stale link loss ends an exchange, its DATA answers the next |
| `ImplementsSafeUpdate` (P) | `platform.cfg` | a first exchange between the switch of the boot partition and the restart proves an image that never ran |
| `BluetoothTaskIsQuiet` | `platform.cfg` | the Bluetooth task prints on the CCID port whenever it advertises |
| `HealthIsTrue` | `platform.cfg` | a board whose controller never answered reports a healthy frontend |
| `PortIsCcidOnly` | `platform.cfg` | a failed Bluetooth bring-up reopens the C log on the CCID port |
| `FailedLineStays` (P) | `platform.cfg` | the drain pops a line it did not send |
| `CreditRespected` | `platform.cfg`, `GrantFirst` FALSE | a first fragment goes out without a credit |
| `HistoryPasses` | `contact_parts.cfg` | ATS interface bytes are read as ATR levels and eat historical bytes |
| `ParseIsTotal` | `contact_parts.cfg` | a modification block of 11 to 13 bytes is indexed past its end |
| `PinFitsApdu` | `contact_parts.cfg` | a long PIN for another reference overruns the APDU |
| `PinAnswerIsSent` | `contact_reader.cfg` | the deferred PIN answer is written and never scheduled |
| `OffsetInResponse` | `contact_reader.cfg` | it replaces a longer response that is half sent |
| `PinForItsCard` | `contact_reader.cfg`, `Cards` {c1, c2} | a PIN typed for one card goes to the next |
| `ClockIsRunning` | `contact_parts.cfg` | a stopped clock survives power-off |
| `NackOnlyForT0` | `contact_parts.cfg` | NACK stays on after a change to T=1 |
| `PpsLeavesNoGap` | `contact_parts.cfg`, `NegotiateSpeed` TRUE | a lost PPS echo leaves a T=0 card at another speed |
| `DataIsTheCards` | `contact_parts.cfg` | after ACK the T=0 engine reads status where data comes; the body follows a GET RESPONSE header |
| `LengthFits` | `contact_parts.cfg` | the length of a status word that does not fit is counted |
| `BlockIsWhole` | `contact_parts.cfg` | the bit-bang driver ends a block at a pause the card may make |

Visible in the models and not claimed away: `IccPowerOff` on an empty slot reports the card
present, and a failed relay reports the slot active although it has just become inactive.

## 10. Not modelled

- `transmit_apdu_t1` and the host-side T=1 engine of `t1_engine.rs`: no build calls it (T=1 is
  relayed at TPDU level); its waiting times are in `CardTiming`.
- Byte layouts of CCID messages: pure conversions, abstracted to the fields the control flow
  reads. Descriptors, clock trees, pin set-up.
- ISO 14443 anticollision and PCD block chaining (`mfrc522-pcd`, PN532): one activation and one
  exchange of `NfcFrontends`. USART registers are the settings they stand for.
- The Lc byte of a modification's APDU template in `secure.rs` (`max_len * 2`, a `u8` that overflows
  above 127), and the doc table above `PinVerifyParams::parse`, which the parser and its tests no
  longer follow: `SecureMessage` follows the parser.
- An activation that arrives at the card role while frames of the previous one are unread:
  `Arrive` in `ListenSession` assumes that the loop, which sleeps 20 ms after an empty read, is faster.
- Partial reads of a length prefix by the vpcd client; Bluetooth pairing; socket set-up.
- Turnaround statistics and health counters of `CcidHandler`, logging text, LCD, LEDs: output that
  never feeds back. Board tables and device profiles are constants.
- Bench scripts and `reference/` are not part of the system.

Assumed of what is external: the NFC controller, the bootloader, Bluedroid, pcscd and the
host's T=1 engine behave as the code, its comments and its hardware notes describe.

## 11. Plan

Done: all components of section 1 down to the drivers, the two refinements, the proofs of section 8.
Left, in this order:
1. Proofs: `CoreInv` for `NfcReader` (the T=1 relay uses the same pipeline).
2. T=1: a host that gives up a pending WTX (`wtx_pending` left set by a fast answer), S(IFS) with size 0
   on the link, S(ABORT) during a response chain.
3. Compositions: `ServeLoops` over `NfcReader` instead of a command that only takes time;
   `IfdDriver` against the TCP loop; `Pn7160` under `CcidCore`.
4. `Pn7160` with more movements of tags than `MaxMoves` = 1 in one behaviour.
