------------------------------ MODULE OtaUpdate ------------------------------
(***************************************************************************)
(* Updates over the air: the flash server                                  *)
(* (firmware/esp32-ccid/src/ota.rs, ota_header.rs), the validity gate that *)
(* the first served exchange trips (crates/ccid-service/src/               *)
(* ota_validity.rs, firmware/esp32-ccid/src/ota_validity.rs), and, as      *)
(* external, the two slots and the bootloader's rollback state machine as  *)
(* tests/hardware/ota/README.md records it.                                *)
(*                                                                         *)
(* The server's thread and the serving thread run concurrently, and the    *)
(* board may reset between any two of their steps.                         *)
(***************************************************************************)
EXTENDS Integers

CONSTANTS
    Firmware,           \* the images
    Serving,            \* those that serve hosts (the others boot and never answer)
    Corrupt,            \* those esp_ota_end rejects
    ImageSize, PartitionSize, Sizes,    \* in chunks; Sizes are those a client announces
    BuildToken,         \* the compiled token, or "none"
    MaxUpdates, MaxResets               \* bounds

NoFirmware == "no image"

ASSUME OtaAssumption ==
    /\ NoFirmware \notin Firmware
    /\ Serving \subseteq Firmware /\ Corrupt \subseteq Firmware \ Serving /\ Serving # {}
    /\ ImageSize \in 1..PartitionSize /\ Sizes \subseteq Nat /\ PartitionSize \in Nat
    /\ MaxUpdates \in Nat /\ MaxResets \in Nat

Slots == {0, 1}
Other(s) == 1 - s

VARIABLES
    slot,       \* per slot: img, st ("blank", "valid", "new", "pending" or "aborted")
    selected,   \* the slot otadata selects
    running,    \* the slot that runs, -1 while the board boots
    gate,       \* the ValidityGate: armed, marked
    ota,        \* the flash server: phase, img sent, chunks remaining
    updates, resets

otaVars == <<slot, selected, running, gate, ota, updates, resets>>

NoUpdate == [phase |-> "accept", img |-> NoFirmware, remaining |-> 0, size |-> 0]
NewGate == [armed |-> FALSE, marked |-> FALSE]
Up == running # -1

-----------------------------------------------------------------------------
(* The validity gate *)

\* The main arms the gate before it serves; an image that serves no host is
\* one of the mains that do not arm it, or fails before.
Arm ==
    /\ Up /\ slot[running].img \in Serving /\ ~gate.armed
    /\ gate' = IF gate.marked THEN gate ELSE [gate EXCEPT !.armed = TRUE]
    /\ UNCHANGED <<slot, selected, running, ota, updates, resets>>

\* esp_ota_mark_app_valid_cancel_rollback (external) marks the active entry of
\* otadata: the slot that is selected, whichever runs.
MarkValid == [slot EXCEPT ![selected].st = "valid"]

\* The first exchange of this boot runs the marker, later ones do nothing.
NoteServeEvidence ==
    /\ Up /\ gate.armed /\ ~gate.marked
    /\ gate' = [gate EXCEPT !.marked = TRUE]
    /\ slot' = MarkValid
    /\ UNCHANGED <<selected, running, ota, updates, resets>>

-----------------------------------------------------------------------------
(* The flash server *)

ValidateSize(n) == n # 0 /\ n <= PartitionSize

Authorize(magic, token) ==
    IF magic = "OTA2" THEN BuildToken \in {"none", token}
    ELSE BuildToken = "none" /\ magic = "OTA1"

\* esp_ota_begin refuses while the running image is itself on trial
\* (external); else it erases the slot that does not run.
BeginOk == slot[running].st # "pending"

\* handle, up to the first chunk.  A refused header changes nothing.
Accept(img, size, magic, token) ==
    /\ Up /\ ota.phase = "accept" /\ updates > 0 /\ updates' = updates - 1
    /\ IF ValidateSize(size) /\ Authorize(magic, token) /\ BeginOk
       THEN /\ ota' = [phase |-> "stream", img |-> img, remaining |-> size, size |-> size]
            /\ slot' = [slot EXCEPT ![Other(running)] = [img |-> NoFirmware, st |-> "blank"]]
       ELSE UNCHANGED <<ota, slot>>
    /\ UNCHANGED <<selected, running, gate, resets>>

\* stream_image: a chunk is read and written; the client may have sent less
\* than it announced.
Chunk ==
    /\ Up /\ ota.phase = "stream" /\ ota.remaining > 0
    /\ ota.size - ota.remaining < ImageSize
    /\ ota' = [ota EXCEPT !.remaining = @ - 1]
    /\ UNCHANGED <<slot, selected, running, gate, updates, resets>>

\* The client stalls past the deadline, or a write fails: the handle is
\* aborted and the server accepts again.
StreamFails ==
    /\ Up /\ ota.phase = "stream" /\ ota' = NoUpdate
    /\ UNCHANGED <<slot, selected, running, gate, updates, resets>>

\* esp_ota_end verifies what was written.
EndOk == ota.size = ImageSize /\ ota.img \notin Corrupt

End ==
    /\ Up /\ ota.phase = "stream" /\ ota.remaining = 0
    /\ IF EndOk
       THEN /\ slot' = [slot EXCEPT ![Other(running)] = [img |-> ota.img, st |-> "blank"]]
            /\ ota' = [ota EXCEPT !.phase = "switch"]
       ELSE slot' = slot /\ ota' = NoUpdate
    /\ UNCHANGED <<selected, running, gate, updates, resets>>

\* Mutant: the new image is selected as a proven one.
SelectAsValid ==
    /\ Up /\ ota.phase = "switch"
    /\ selected' = Other(running) /\ slot' = [slot EXCEPT ![Other(running)].st = "valid"]
    /\ ota' = [ota EXCEPT !.phase = "sleep"]
    /\ UNCHANGED <<running, gate, updates, resets>>

\* esp_ota_set_boot_partition; on an error the server accepts again.
SetBootPartition ==
    /\ Up /\ ota.phase = "switch"
    /\ \/ /\ selected' = Other(running) /\ slot' = [slot EXCEPT ![Other(running)].st = "new"]
          /\ ota' = [ota EXCEPT !.phase = "sleep"]
       \/ UNCHANGED <<selected, slot>> /\ ota' = NoUpdate
    /\ UNCHANGED <<running, gate, updates, resets>>

\* After 500 ms of sleep, during which hosts are served.
Restart ==
    /\ Up /\ ota.phase = "sleep"
    /\ running' = -1 /\ gate' = NewGate /\ ota' = NoUpdate
    /\ UNCHANGED <<slot, selected, updates, resets>>

-----------------------------------------------------------------------------
(* The board (external) *)

\* Power loss, a crash or a watchdog, at any time.
Reset ==
    /\ resets > 0 /\ resets' = resets - 1
    /\ running' = -1 /\ gate' = NewGate /\ ota' = NoUpdate
    /\ UNCHANGED <<slot, selected, updates>>

\* The bootloader: a new image gets its one boot, an image that was booted
\* and not proved is given up for the other slot.
Boot ==
    /\ running = -1
    /\ LET st == slot[selected].st
       IN \/ /\ st = "new" /\ running' = selected
             /\ slot' = [slot EXCEPT ![selected].st = "pending"] /\ UNCHANGED selected
          \/ /\ st = "pending" /\ running' = Other(selected) /\ selected' = Other(selected)
             /\ slot' = [slot EXCEPT ![selected].st = "aborted"]
          \/ /\ st = "valid" /\ running' = selected /\ UNCHANGED <<slot, selected>>
    /\ UNCHANGED <<gate, ota, updates, resets>>

OtaInit ==
    /\ \E i \in Serving : slot = [s \in Slots |-> IF s = 0 THEN [img |-> i, st |-> "valid"]
                                                 ELSE [img |-> NoFirmware, st |-> "blank"]]
    /\ selected = 0 /\ running = 0 /\ gate = NewGate /\ ota = NoUpdate
    /\ updates = MaxUpdates /\ resets = MaxResets

OtaServer ==
    \/ \E i \in Firmware, n \in Sizes, m \in {"OTA1", "OTA2", "other"}, t \in {"token", "wrong"} :
          Accept(i, n, m, t)
    \/ Chunk \/ StreamFails \/ End \/ SetBootPartition \/ Restart

OtaNext == Arm \/ NoteServeEvidence \/ OtaServer \/ Reset \/ Boot

OtaSpec == OtaInit /\ [][OtaNext]_otaVars

-----------------------------------------------------------------------------
(* Properties *)

OnTrial == slot[selected].st \in {"new", "pending"}
KeeperSlot == IF OnTrial THEN Other(selected) ELSE selected

Safe == INSTANCE SafeUpdate WITH
    Images <- Firmware, Working <- Serving, NoImage <- NoFirmware,
    keeper <- slot[KeeperSlot].img,
    trial <- IF OnTrial THEN slot[selected].img ELSE NoFirmware,
    trying <- slot[selected].st = "pending"

\* The first exchange of a boot falls into the sleep before the restart: the
\* mark goes to the image that was just selected and has not run.
EarlyProof ==
    /\ ota.phase = "sleep" /\ gate = [armed |-> TRUE, marked |-> FALSE] /\ gate'.marked
    /\ slot[selected].st = "new" /\ slot' = MarkValid /\ selected' = selected

\* The slots, the flash server, the gate and the bootloader together keep the
\* promise of SafeUpdate across uploads that fail anywhere and resets at any
\* step: a serving image to fall back on, one boot for a new one, and no
\* proof but of the image that runs.  The one step that does not is an
\* EarlyProof.
SafeButForEarlyProof ==
    Safe!SafeInit /\ [][Safe!SafeNext \/ EarlyProof]_(Safe!updateVars)

\* "the mark now means 'this image just served a host'"
\* (firmware/esp32-ccid/src/ota_validity.rs).
ImplementsSafeUpdate == Safe!SafeSpec
=============================================================================
