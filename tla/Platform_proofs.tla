--------------------------- MODULE Platform_proofs ---------------------------
(***************************************************************************)
(* Proofs about the parts around the CCID core.                            *)
(***************************************************************************)
EXTENDS MC_Platform, SequenceTheorems, FiniteSetTheorems, WellFoundedInduction, TLAPS

-----------------------------------------------------------------------------
(* Over-the-air updates implement SafeUpdate *)

States5 == {"blank", "valid", "new", "pending", "aborted"}

\* The types, kept apart from what the slots mean.
OtaTypes ==
    /\ slot \in [Slots -> [img : Firmware \cup {NoFirmware}, st : States5]]
    /\ selected \in Slots /\ running \in {-1, 0, 1}
    /\ gate \in [armed : BOOLEAN, marked : BOOLEAN]
    /\ ota \in [phase : {"accept", "stream", "switch", "sleep"},
                img : Firmware \cup {NoFirmware}, remaining : Int, size : Int]
    /\ ota.phase # "accept" => ota.img \in Firmware

\* There is a proven image to fall back on.  A running slot is the selected one
\* and has had its boot, except in the sleep before the restart, when the new
\* image is selected and not yet tried, but may have been marked.  An upload is under way only under a
\* proven image, and the gate is armed only by an image that serves.
OtaInv ==
    /\ OtaTypes
    /\ slot[KeeperSlot].st = "valid"
    /\ OnTrial => slot[selected].img \in Firmware
    /\ Up => IF ota.phase = "sleep" THEN selected = Other(running) /\ slot[selected].st \in {"new", "valid"}
             ELSE selected = running /\ slot[running].st \in {"valid", "pending"}
    /\ ~Up => ota.phase = "accept"
    /\ ota.phase \in {"stream", "switch"} => slot[running].st = "valid"
    /\ ota.phase = "switch" => slot[Other(running)].img \in Firmware
    /\ gate.armed => Up /\ slot[running].img \in Serving

\* The first image is proven and nothing is on trial.
LEMMA OtaInitial == OtaInit => OtaInv /\ Safe!SafeInit
BY OtaAssumption, SMT DEF OtaInit, OtaInv, OtaTypes, OnTrial, KeeperSlot, Up, Slots, Other, NewGate,
   NoUpdate, States5, Safe!SafeInit

\* A step of SafeUpdate, an early proof, or none.
SafeStep ==
    Safe!SafeNext \/ EarlyProof \/ UNCHANGED Safe!updateVars

\* The gate arms itself on an image that serves.
LEMMA OtaArm == OtaInv /\ Arm => OtaInv' /\ SafeStep
<1> SUFFICES ASSUME OtaInv, Arm PROVE OtaInv' /\ SafeStep
  OBVIOUS
<1> USE OtaAssumption DEF OtaInv, OtaTypes, OnTrial, KeeperSlot, Up, Slots, Other, NewGate, NoUpdate,
      States5, Arm
<1>1. OtaInv'
  OBVIOUS
<1>2. SafeStep
  BY DEF SafeStep, Safe!SafeNext, Safe!Deliver, Safe!Try, Safe!Prove, Safe!Revert, Safe!updateVars
<1>3. QED
  BY <1>1, <1>2

\* A served command marks the selected slot: the step that replaces the keeper.
LEMMA OtaNoteServeEvidence == OtaInv /\ NoteServeEvidence => OtaInv' /\ SafeStep
<1> SUFFICES ASSUME OtaInv, NoteServeEvidence PROVE OtaInv' /\ SafeStep
  OBVIOUS
<1> USE OtaAssumption DEF OtaInv, OtaTypes, OnTrial, KeeperSlot, Up, Slots, Other, NewGate, NoUpdate,
      States5
<1>1. running \in Slots /\ selected \in Slots /\ slot[selected].st \in {"valid", "new", "pending"}
  BY DEF NoteServeEvidence
<1>2. slot' = [slot EXCEPT ![selected].st = "valid"]
  BY DEF NoteServeEvidence, MarkValid
<1>3. /\ slot' \in [Slots -> [img : Firmware \cup {NoFirmware}, st : States5]]
      /\ slot'[selected].st = "valid" /\ slot'[selected].img = slot[selected].img
      /\ slot'[1 - selected] = slot[1 - selected]
  BY <1>1, <1>2
<1>4. /\ UNCHANGED <<selected, running, ota>> /\ gate' \in [armed : BOOLEAN, marked : BOOLEAN]
      /\ gate.armed /\ ~gate.marked /\ gate'.marked
  BY DEF NoteServeEvidence
<1>5. CASE ota.phase = "sleep"
  <2>1. OtaInv'
    BY <1>1, <1>3, <1>4, <1>5
  <2>2. CASE slot[selected].st = "new"
    <3>1. EarlyProof
      BY <1>4, <1>5, <2>2 DEF EarlyProof, NoteServeEvidence
    <3>2. QED
      BY <2>1, <3>1 DEF SafeStep
  <2>3. CASE slot[selected].st = "valid"
    <3>1. UNCHANGED Safe!updateVars
      BY <1>1, <1>3, <1>4, <2>3 DEF Safe!updateVars
    <3>2. QED
      BY <2>1, <3>1 DEF SafeStep
  <2>4. QED
    BY <1>4, <1>5, <2>2, <2>3 DEF NoteServeEvidence
<1>6. CASE ota.phase # "sleep"
  <2>1. OtaInv'
    BY <1>1, <1>3, <1>4, <1>6
  <2>2. SafeStep
    BY <1>1, <1>3, <1>4, <1>6 DEF NoteServeEvidence, SafeStep, Safe!SafeNext, Safe!Deliver, Safe!Try, Safe!Prove, Safe!Revert, Safe!updateVars
  <2>3. QED
    BY <2>1, <2>2
<1>7. QED
  BY <1>5, <1>6

\* A chunk goes to the slot that does not run.
LEMMA OtaChunk == OtaInv /\ Chunk => OtaInv' /\ SafeStep
<1> SUFFICES ASSUME OtaInv, Chunk PROVE OtaInv' /\ SafeStep
  OBVIOUS
<1> USE OtaAssumption DEF OtaInv, OtaTypes, OnTrial, KeeperSlot, Up, Slots, Other, NewGate, NoUpdate,
      States5, Chunk
<1>1. OtaInv'
  OBVIOUS
<1>2. SafeStep
  BY DEF SafeStep, Safe!SafeNext, Safe!Deliver, Safe!Try, Safe!Prove, Safe!Revert, Safe!updateVars
<1>3. QED
  BY <1>1, <1>2

\* A broken upload leaves the other slot without an image.
LEMMA OtaStreamFails == OtaInv /\ StreamFails => OtaInv' /\ SafeStep
<1> SUFFICES ASSUME OtaInv, StreamFails PROVE OtaInv' /\ SafeStep
  OBVIOUS
<1> USE OtaAssumption DEF OtaInv, OtaTypes, OnTrial, KeeperSlot, Up, Slots, Other, NewGate, NoUpdate,
      States5, StreamFails
<1>1. OtaInv'
  OBVIOUS
<1>2. SafeStep
  BY DEF SafeStep, Safe!SafeNext, Safe!Deliver, Safe!Try, Safe!Prove, Safe!Revert, Safe!updateVars
<1>3. QED
  BY <1>1, <1>2

\* esp_ota_end accepts or rejects the image.
LEMMA OtaEnd == OtaInv /\ End => OtaInv' /\ SafeStep
<1> SUFFICES ASSUME OtaInv, End PROVE OtaInv' /\ SafeStep
  OBVIOUS
<1> USE OtaAssumption DEF OtaInv, OtaTypes, OnTrial, KeeperSlot, Up, Slots, Other, NewGate, NoUpdate,
      States5, End, EndOk
<1>1. OtaInv'
  OBVIOUS
<1>2. SafeStep
  BY DEF SafeStep, Safe!SafeNext, Safe!Deliver, Safe!Try, Safe!Prove, Safe!Revert, Safe!updateVars
<1>3. QED
  BY <1>1, <1>2

\* The new image is selected and not yet tried.
LEMMA OtaSetBootPartition == OtaInv /\ SetBootPartition => OtaInv' /\ SafeStep
<1> SUFFICES ASSUME OtaInv, SetBootPartition PROVE OtaInv' /\ SafeStep
  OBVIOUS
<1> USE OtaAssumption DEF OtaInv, OtaTypes, OnTrial, KeeperSlot, Up, Slots, Other, NewGate, NoUpdate,
      States5, SetBootPartition
<1>1. OtaInv'
  OBVIOUS
<1>2. SafeStep
  BY DEF SafeStep, Safe!SafeNext, Safe!Deliver, Safe!Try, Safe!Prove, Safe!Revert, Safe!updateVars
<1>3. QED
  BY <1>1, <1>2

\* The restart after an update.
LEMMA OtaRestart == OtaInv /\ Restart => OtaInv' /\ SafeStep
<1> SUFFICES ASSUME OtaInv, Restart PROVE OtaInv' /\ SafeStep
  OBVIOUS
<1> USE OtaAssumption DEF OtaInv, OtaTypes, OnTrial, KeeperSlot, Up, Slots, Other, NewGate, NoUpdate,
      States5, Restart
<1>1. OtaInv'
  OBVIOUS
<1>2. SafeStep
  BY DEF SafeStep, Safe!SafeNext, Safe!Deliver, Safe!Try, Safe!Prove, Safe!Revert, Safe!updateVars
<1>3. QED
  BY <1>1, <1>2

\* A reset at any point of an update.
LEMMA OtaReset == OtaInv /\ Reset => OtaInv' /\ SafeStep
<1> SUFFICES ASSUME OtaInv, Reset PROVE OtaInv' /\ SafeStep
  OBVIOUS
<1> USE OtaAssumption DEF OtaInv, OtaTypes, OnTrial, KeeperSlot, Up, Slots, Other, NewGate, NoUpdate,
      States5, Reset
<1>1. OtaInv'
  OBVIOUS
<1>2. SafeStep
  BY DEF SafeStep, Safe!SafeNext, Safe!Deliver, Safe!Try, Safe!Prove, Safe!Revert, Safe!updateVars
<1>3. QED
  BY <1>1, <1>2

\* The boot loader starts the selected image or falls back.
LEMMA OtaBoot == OtaInv /\ Boot => OtaInv' /\ SafeStep
<1> SUFFICES ASSUME OtaInv, Boot PROVE OtaInv' /\ SafeStep
  OBVIOUS
<1> USE OtaAssumption DEF OtaInv, OtaTypes, OnTrial, KeeperSlot, Up, Slots, Other, NewGate, NoUpdate,
      States5, Boot
<1>1. OtaInv'
  OBVIOUS
<1>2. SafeStep
  BY DEF SafeStep, Safe!SafeNext, Safe!Deliver, Safe!Try, Safe!Prove, Safe!Revert, Safe!updateVars
<1>3. QED
  BY <1>1, <1>2

\* A client is accepted or turned away.
LEMMA OtaAccept ==
    ASSUME NEW img \in Firmware, NEW size \in Sizes, NEW magic, NEW token, OtaInv,
           Accept(img, size, magic, token)
    PROVE  OtaInv' /\ SafeStep
<1> USE OtaAssumption DEF OtaInv, OtaTypes, OnTrial, KeeperSlot, Up, Slots, Other, NewGate, NoUpdate,
      States5, Accept, BeginOk
<1>1. OtaInv'
  OBVIOUS
<1>2. SafeStep
  BY DEF SafeStep, Safe!SafeNext, Safe!Deliver, Safe!Try, Safe!Prove, Safe!Revert, Safe!updateVars
<1>3. QED
  BY <1>1, <1>2

\* One step of the flash server, the gate, the bootloader or a reset keeps the
\* invariant and is a step of SafeUpdate, an early proof or none.
LEMMA OtaStepSound == OtaInv /\ [OtaNext]_otaVars => OtaInv' /\ SafeStep
<1> SUFFICES ASSUME OtaInv, [OtaNext]_otaVars PROVE OtaInv' /\ SafeStep
  OBVIOUS
<1>1. CASE OtaServer
  BY <1>1, OtaAccept, OtaChunk, OtaStreamFails, OtaEnd, OtaSetBootPartition, OtaRestart DEF OtaServer
<1>2. CASE UNCHANGED otaVars
  BY <1>2 DEF otaVars, OtaInv, OtaTypes, OnTrial, KeeperSlot, Up, SafeStep, Safe!updateVars
<1>3. QED
  BY <1>1, <1>2, OtaArm, OtaNoteServeEvidence, OtaReset, OtaBoot DEF OtaNext

\* Every step of the update mechanism but an early proof is one of SafeUpdate,
\* for any images, sizes and number of updates and resets.
THEOREM OtaIsSafe == OtaSpec => SafeButForEarlyProof
<1>1. OtaInv /\ [OtaNext]_otaVars => OtaInv'
  BY OtaStepSound
<1>2. OtaInv /\ [OtaNext]_otaVars => [Safe!SafeNext \/ EarlyProof]_(Safe!updateVars)
  BY OtaStepSound DEF SafeStep
<1>3. QED
  BY OtaInitial, <1>1, <1>2, PTL DEF OtaSpec, SafeButForEarlyProof

-----------------------------------------------------------------------------
(* The ring of stashed notifications is a queue *)

\* Below twice its divisor a remainder is one subtraction at most.
LEMMA ModOnce ==
    ASSUME NEW n \in Nat \ {0}, NEW a \in Nat, a < 2 * n
    PROVE  a % n = IF a < n THEN a ELSE a - n
<1> DEFINE q == a \div n
           r == a % n
<1>1. q \in Nat /\ r \in 0..(n - 1) /\ a = n * q + r
  OBVIOUS
<1>2. q < 2
  <2>1. SUFFICES ASSUME q >= 2 PROVE FALSE
    BY <1>1
  <2>2. n * q >= n * 2
    BY <1>1, <2>1
  <2>3. QED
    BY <1>1, <2>2
<1>3. q = 0 \/ q = 1
  BY <1>1, <1>2
<1>4. QED
  BY <1>1, <1>3

NtFrame == [k : {"ntf", "rsp", "data"}, id : Nat]

NtInv ==
    /\ ring \in [RingSlots -> Nat] /\ first \in RingSlots /\ held \in 0..NtfSlots
    /\ irq \in Seq(NtFrame) /\ told \in Nat

\* The ring's index arithmetic without the remainder.
Wrap(a) == IF a < NtfSlots THEN a ELSE a - NtfSlots

\* The remainder of an index less than twice round.
LEMMA WrapIs ==
    ASSUME NEW a \in Nat, a < 2 * NtfSlots PROVE a % NtfSlots = Wrap(a)
BY NciAssumption, ModOnce DEF Wrap

\* The held notifications, in the order they came.
LEMMA StashPlaces == NtInv => Stash = [i \in 1..held |-> ring[Wrap(first + i - 1)]]
<1> SUFFICES ASSUME NtInv PROVE Stash = [i \in 1..held |-> ring[Wrap(first + i - 1)]]
  OBVIOUS
<1> USE NciAssumption
<1>1. first \in Nat /\ first < NtfSlots /\ held \in Nat /\ held <= NtfSlots
  BY DEF NtInv, RingSlots
<1>2. ASSUME NEW i \in 1..held PROVE (first + i - 1) % NtfSlots = Wrap(first + i - 1)
  <2>1. first + i - 1 \in Nat /\ first + i - 1 < 2 * NtfSlots
    BY <1>1
  <2>2. QED
    BY <2>1, WrapIs
<1>3. QED
  BY <1>2 DEF Stash

\* The same after a step.
LEMMA StashPlacesNext == NtInv' => Stash' = [i \in 1..held' |-> ring'[Wrap(first' + i - 1)]]
<1>1. NtInv' => (Stash = [i \in 1..held |-> ring[Wrap(first + i - 1)]])'
  BY StashPlaces, PTL
<1>2. QED
  BY <1>1 DEF Wrap

\* The stash is a sequence as long as the count says.
LEMMA StashIsSeq == NtInv => Stash \in Seq(Nat) /\ Len(Stash) = held
<1> SUFFICES ASSUME NtInv PROVE Stash \in Seq(Nat) /\ Len(Stash) = held
  OBVIOUS
<1> USE NciAssumption
<1>1. held \in Nat /\ held <= NtfSlots
  BY DEF NtInv
<1>2. \A i \in 1..held : ring[Wrap(first + i - 1)] \in Nat
  BY <1>1 DEF NtInv, RingSlots, Wrap
<1>3. QED
  BY <1>1, <1>2, StashPlaces

\* push_ntf on a ring with room adds at the end; on a full one it also drops
\* the oldest.
LEMMA NtPush ==
    ASSUME NtInv, NEW f \in Nat, PushNtf(f)
    PROVE  /\ ring' \in [RingSlots -> Nat] /\ first' \in RingSlots /\ held' \in 0..NtfSlots
           /\ (NtInv' => Stash' = Newest(Append(Stash, f)))
<1> USE NciAssumption
<1>0. Stash \in Seq(Nat) /\ Len(Stash) = held
  BY StashIsSeq
<1>t. /\ first \in Nat /\ first < NtfSlots /\ held \in Nat /\ held <= NtfSlots
      /\ ring \in [RingSlots -> Nat]
  BY DEF NtInv, RingSlots
<1>s. /\ DOMAIN Stash = 1..held
      /\ \A i \in 1..held : Stash[i] = ring[Wrap(first + i - 1)]
  BY StashPlaces
<1>1. CASE ~Evicting
  <2>1. first' = first /\ held' = held + 1 /\ held < NtfSlots
    BY <1>1, <1>t DEF PushNtf, Evicting
  <2>2. (first + held) % NtfSlots = Wrap(first + held)
    BY <2>1, <1>t, WrapIs
  <2>3. ring' = [ring EXCEPT ![Wrap(first + held)] = f] /\ Wrap(first + held) \in RingSlots
    <3>1. ring' = [ring EXCEPT ![(first + held) % NtfSlots] = f]
      BY <1>1 DEF PushNtf
    <3>2. Wrap(first + held) \in RingSlots
      BY <1>t, <2>1 DEF Wrap, RingSlots
    <3>3. QED
      BY <3>1, <3>2, <2>2
  <2>4. \A i \in 1..held : /\ Wrap(first + i - 1) \in RingSlots
                           /\ Wrap(first + i - 1) # Wrap(first + held)
    BY <2>1, <1>t DEF Wrap, RingSlots
  <2>5. \A i \in 1..held : ring'[Wrap(first + i - 1)] = Stash[i]
    <3> SUFFICES ASSUME NEW i \in 1..held PROVE ring'[Wrap(first + i - 1)] = Stash[i]
      OBVIOUS
    <3>1. ring'[Wrap(first + i - 1)] = ring[Wrap(first + i - 1)]
      BY <2>3, <2>4, <1>t
    <3>2. QED
      BY <3>1, <1>s
  <2>6. ASSUME NtInv' PROVE Stash' = Append(Stash, f)
    <3>1. Stash' = [i \in 1..(held + 1) |-> ring'[Wrap(first + i - 1)]]
      BY <2>6, <2>1, StashPlacesNext
    <3>2. ring'[Wrap(first + (held + 1) - 1)] = f
      <4>1. first + (held + 1) - 1 = first + held
        BY <1>t
      <4>2. QED
        BY <4>1, <2>3, <1>t
    <3>3. Append(Stash, f) = [i \in 1..(held + 1) |-> IF i = held + 1 THEN f ELSE Stash[i]]
      <4> DEFINE g == [i \in 1..(held + 1) |-> IF i = held + 1 THEN f ELSE Stash[i]]
      <4>1. Append(Stash, f) \in Seq(Nat) /\ Len(Append(Stash, f)) = held + 1
            /\ \A i \in 1..(held + 1) : Append(Stash, f)[i] = g[i]
        BY <1>0, <1>t
      <4>2. Append(Stash, f) = [i \in 1..Len(Append(Stash, f)) |-> Append(Stash, f)[i]]
        BY <4>1, LenProperties
      <4>3. QED
        BY <4>1, <4>2
    <3>4. \A i \in 1..(held + 1) :
             ring'[Wrap(first + i - 1)] = IF i = held + 1 THEN f ELSE Stash[i]
      BY <3>2, <2>5, <1>t
    <3>5. QED
      BY <3>1, <3>3, <3>4
  <2>7. Newest(Append(Stash, f)) = Append(Stash, f)
    BY <1>0, <2>1, <1>t DEF Newest
  <2>8. QED
    BY <2>1, <2>3, <2>6, <2>7, <1>t DEF RingSlots
<1>2. CASE Evicting
  <2> DEFINE h == Wrap(first + 1)
  <2>1. (first + 1) % NtfSlots = h
    BY <1>t, WrapIs
  <2>2. h \in Nat /\ h < NtfSlots /\ h = IF first + 1 < NtfSlots THEN first + 1 ELSE 0
    BY <1>t DEF Wrap
  <2>3. Wrap(h + NtfSlots - 1) = first
    BY <1>t, <2>2 DEF Wrap
  <2>h. held = NtfSlots
    BY <1>2 DEF Evicting
  <2> HIDE DEF h
  <2>4. (h + NtfSlots - 1) % NtfSlots = first
    BY <2>2, <2>3, WrapIs
  <2>5. first' = h /\ held' = NtfSlots
    BY <1>2, <2>1, <2>h DEF PushNtf, Evicting
  <2>6. ring' = [ring EXCEPT ![first] = f]
    <3>1. ring' = [[ring EXCEPT ![first] = Empty] EXCEPT ![(h + (held - 1)) % NtfSlots] = f]
      BY <1>2, <2>1 DEF PushNtf
    <3>2. h + (held - 1) = h + NtfSlots - 1
      BY <2>2, <2>h
    <3>3. QED
      BY <3>1, <3>2, <2>4, <1>t
  <2>7. \A i \in 1..(NtfSlots - 1) : /\ Wrap(h + i - 1) = Wrap(first + (i + 1) - 1)
                                     /\ Wrap(h + i - 1) \in RingSlots
                                     /\ Wrap(h + i - 1) # first
    BY <1>t, <2>2 DEF Wrap, RingSlots
  <2>8. \A i \in 1..(NtfSlots - 1) : ring'[Wrap(h + i - 1)] = Stash[i + 1]
    <3> SUFFICES ASSUME NEW i \in 1..(NtfSlots - 1) PROVE ring'[Wrap(h + i - 1)] = Stash[i + 1]
      OBVIOUS
    <3>1. ring'[Wrap(h + i - 1)] = ring[Wrap(h + i - 1)]
      BY <2>6, <2>7, <1>t
    <3>2. i + 1 \in 1..held
      BY <2>h
    <3>3. Stash[i + 1] = ring[Wrap(first + (i + 1) - 1)]
      BY <3>2, <1>s
    <3>4. QED
      BY <3>1, <3>3, <2>7
  <2>9. ASSUME NtInv' PROVE Stash' = Tail(Append(Stash, f))
    <3>1. Stash' = [i \in 1..NtfSlots |-> ring'[Wrap(h + i - 1)]]
      BY <2>9, <2>5, StashPlacesNext
    <3>2. ring'[Wrap(h + NtfSlots - 1)] = f
      BY <2>3, <2>6, <1>t DEF RingSlots
    <3>3. Tail(Append(Stash, f)) = [i \in 1..NtfSlots |-> IF i = NtfSlots THEN f ELSE Stash[i + 1]]
      <4> DEFINE g == [i \in 1..NtfSlots |-> IF i = NtfSlots THEN f ELSE Stash[i + 1]]
                 t == Append(Stash, f)
      <4>1. t \in Seq(Nat) /\ Len(t) = NtfSlots + 1
            /\ \A i \in 1..(NtfSlots + 1) : t[i] = IF i = NtfSlots + 1 THEN f ELSE Stash[i]
        BY <1>0, <2>h
      <4> HIDE DEF t
      <4>2. Tail(t) = [i \in 1..(Len(t) - 1) |-> t[i + 1]]
        <5>1. t # <<>>
          BY <4>1
        <5>2. Tail(t) \in Seq(Nat) /\ Len(Tail(t)) = Len(t) - 1
              /\ \A i \in 1..Len(Tail(t)) : Tail(t)[i] = t[i + 1]
          BY <5>1, <4>1, HeadTailProperties
        <5>3. Tail(t) = [i \in 1..Len(Tail(t)) |-> Tail(t)[i]]
          BY <5>2, LenProperties
        <5>4. QED
          BY <5>2, <5>3
      <4>3. \A i \in 1..NtfSlots : t[i + 1] = g[i]
        BY <4>1
      <4>4. Len(t) - 1 = NtfSlots
        BY <4>1
      <4>5. Tail(t) = g
        BY <4>2, <4>3, <4>4
      <4>6. QED
        BY <4>5 DEF t
    <3>4. \A i \in 1..NtfSlots : ring'[Wrap(h + i - 1)] = IF i = NtfSlots THEN f ELSE Stash[i + 1]
      BY <3>2, <2>8
    <3>5. QED
      BY <3>1, <3>3, <3>4
  <2>10. Newest(Append(Stash, f)) = Tail(Append(Stash, f))
    BY <1>0, <2>h DEF Newest
  <2>11. QED
    <3>1. ring' \in [RingSlots -> Nat]
      BY <2>6, <1>t
    <3>2. first' \in RingSlots /\ held' \in 0..NtfSlots
      BY <2>2, <2>5 DEF RingSlots
    <3>3. QED
      BY <3>1, <3>2, <2>9, <2>10
<1>3. QED
  BY <1>1, <1>2

\* pop_ntf takes the oldest.
LEMMA NtPop ==
    ASSUME NtInv, PopNtf
    PROVE  /\ ring' \in [RingSlots -> Nat] /\ first' \in RingSlots /\ held' \in 0..NtfSlots
           /\ Stash # <<>> /\ (NtInv' => Stash' = Tail(Stash))
<1> USE NciAssumption
<1> DEFINE h == Wrap(first + 1)
<1>0. Stash \in Seq(Nat) /\ Len(Stash) = held
  BY StashIsSeq
<1>t. /\ first \in Nat /\ first < NtfSlots /\ held \in Nat /\ held <= NtfSlots
      /\ ring \in [RingSlots -> Nat]
  BY DEF NtInv, RingSlots
<1>s. \A i \in 1..held : Stash[i] = ring[Wrap(first + i - 1)]
  BY StashPlaces
<1>1. (first + 1) % NtfSlots = h
  BY <1>t, WrapIs
<1>2. h \in Nat /\ h < NtfSlots /\ h = IF first + 1 < NtfSlots THEN first + 1 ELSE 0
  BY <1>t DEF Wrap
<1> HIDE DEF h
<1>3. held > 0 /\ first' = h /\ held' = held - 1 /\ ring' = [ring EXCEPT ![first] = Empty]
  BY <1>1 DEF PopNtf
<1>4. \A i \in 1..(held - 1) : /\ Wrap(h + i - 1) = Wrap(first + (i + 1) - 1)
                               /\ Wrap(h + i - 1) \in RingSlots
                               /\ Wrap(h + i - 1) # first
  BY <1>t, <1>2 DEF Wrap, RingSlots
<1>5. \A i \in 1..(held - 1) : ring'[Wrap(h + i - 1)] = Stash[i + 1]
  <2> SUFFICES ASSUME NEW i \in 1..(held - 1) PROVE ring'[Wrap(h + i - 1)] = Stash[i + 1]
    OBVIOUS
  <2>1. ring'[Wrap(h + i - 1)] = ring[Wrap(h + i - 1)]
    BY <1>3, <1>4, <1>t
  <2>2. i + 1 \in 1..held
    BY <1>t
  <2>3. Stash[i + 1] = ring[Wrap(first + (i + 1) - 1)]
    BY <2>2, <1>s
  <2>4. QED
    BY <2>1, <2>3, <1>4
<1>6. ASSUME NtInv' PROVE Stash' = Tail(Stash)
  <2>1. Stash' = [i \in 1..(held - 1) |-> ring'[Wrap(h + i - 1)]]
    BY <1>6, <1>3, StashPlacesNext
  <2>2. Tail(Stash) = [i \in 1..(held - 1) |-> Stash[i + 1]]
    <3>1. Stash # <<>>
      BY <1>0, <1>3, <1>t
    <3>2. Tail(Stash) \in Seq(Nat) /\ Len(Tail(Stash)) = held - 1
          /\ \A i \in 1..Len(Tail(Stash)) : Tail(Stash)[i] = Stash[i + 1]
      BY <3>1, <1>0, HeadTailProperties
    <3>3. Tail(Stash) = [i \in 1..Len(Tail(Stash)) |-> Tail(Stash)[i]]
      BY <3>2, LenProperties
    <3>4. QED
      BY <3>2, <3>3
  <2>3. QED
    BY <2>1, <2>2, <1>5
<1>7. QED
  BY <1>0, <1>2, <1>3, <1>6, <1>t DEF RingSlots, Empty

\* What one step does to the stash.
StashStep ==
    \/ Stash' = Stash
    \/ irq # <<>> /\ Stash' = Newest(Append(Stash, Head(irq).id)) /\ irq' = Tail(irq)
    \/ Stash # <<>> /\ Stash' = Tail(Stash) /\ UNCHANGED irq

\* Every step of the transport is a step of the queue.
LEMMA NtStepSound == NtInv /\ [NtNext]_ntVars => NtInv' /\ StashStep
<1> SUFFICES ASSUME NtInv, [NtNext]_ntVars PROVE NtInv' /\ StashStep
  OBVIOUS
<1> USE NciAssumption
<1>1. CASE Transact
  BY <1>1 DEF Transact, NtInv, StashStep, Stash
<1>2. CASE ReadTurn
  <2>1. irq # <<>> /\ irq' = Tail(irq) /\ told' = told
    BY <1>2 DEF ReadTurn
  <2>2. irq' \in Seq(NtFrame) /\ Head(irq) \in NtFrame
    BY <2>1 DEF NtInv
  <2>3. CASE Same
    BY <2>1, <2>2, <2>3 DEF Same, NtInv, StashStep, Stash
  <2>4. CASE PushNtf(Head(irq).id)
    <3>1. Head(irq).id \in Nat
      BY <2>2 DEF NtFrame
    <3>2. QED
      BY <2>1, <2>2, <2>4, <3>1, NtPush DEF NtInv, StashStep
  <2>5. QED
    BY <1>2, <2>3, <2>4 DEF ReadTurn
<1>3. CASE WaitTurn
  BY <1>3 DEF WaitTurn, Same, NtInv, StashStep, Stash
<1>4. CASE Drain
  <2>1. CASE PopNtf /\ UNCHANGED irq
    BY <1>4, <2>1, NtPop DEF Drain, NtInv, StashStep
  <2>2. CASE irq # <<>> /\ irq' = Tail(irq) /\ Same
    BY <1>4, <2>2 DEF Drain, Same, NtInv, StashStep, Stash
  <2>3. QED
    BY <1>4, <2>1, <2>2 DEF Drain
<1>5. CASE PollFrame
  BY <1>5 DEF PollFrame, Same, NtInv, StashStep, Stash
<1>6. ASSUME NEW k \in {"ntf", "rsp", "data"}, Raise(k) PROVE NtInv' /\ StashStep
  <2>1. [k |-> k, id |-> told + 1] \in NtFrame
    BY DEF NtInv, NtFrame
  <2>2. QED
    BY <1>6, <2>1 DEF Raise, Same, NtInv, StashStep, Stash
<1>7. CASE UNCHANGED ntVars
  BY <1>7 DEF ntVars, NtInv, StashStep, Stash
<1>8. QED
  BY <1>1, <1>2, <1>3, <1>4, <1>5, <1>6, <1>7 DEF NtNext

\* Wherever the head has wandered and however many slots there are, push_ntf and
\* drain work the ring as a queue that drops its oldest.
THEOREM StashAlwaysQueue == NtSpec => StashIsQueue
<1>1. NtInit => NtInv
  BY NciAssumption DEF NtInit, NtInv, RingSlots, Empty
<1>2. NtInv /\ [NtNext]_ntVars => NtInv'
  BY NtStepSound
<1>3. NtInv /\ [NtNext]_ntVars => [StashStep]_ntVars
  BY NtStepSound
<1>4. QED
  BY <1>1, <1>2, <1>3, PTL DEF NtSpec, StashIsQueue, StashStep

-----------------------------------------------------------------------------
(* The receive timer of the MFRC522, for every request. *)

\* CeilDiv rounds up: the quotient covers the dividend, and no smaller one
\* does.
LEMMA CeilDivCovers ==
    ASSUME NEW a \in Nat, NEW b \in Nat \ {0}
    PROVE  /\ CeilDiv(a, b) \in Nat
           /\ CeilDiv(a, b) * b >= a
           /\ (CeilDiv(a, b) - 1) * b < a
<1> DEFINE n == a + b - 1
<1>1. n \in Nat /\ n \div b \in Nat /\ n % b \in 0..(b - 1)
  OBVIOUS
<1>2. n = b * (n \div b) + (n % b)
  BY <1>1
<1>3. QED
  BY <1>1, <1>2 DEF CeilDiv

\* set_timeout_ms, for every request it accepts: the registers hold the
\* values, and the armed period covers the request.
THEOREM TimerCoversRequest == \A ms \in Nat : PeriodCovers(ms)
<1> SUFFICES ASSUME NEW ms \in Nat, Accepted(ms) PROVE PeriodCovers(ms)
  BY DEF PeriodCovers
<1> DEFINE need == CeilDiv(ms * 904, 4369)
           d == Divisor(ms)
<1>1. need \in Nat /\ need * 4369 >= ms * 904
  BY CeilDivCovers
<1>2. d \in Nat /\ d >= need /\ d >= 339 /\ d % 2 = 1
  BY <1>1 DEF Divisor, MinDivisor
<1>3. d * 65535 >= ms * 13560
  BY <1>1, <1>2
<1>4. ms * 13560 \in Nat /\ d \in Nat \ {0}
  BY <1>2
<1>5. /\ Reload(ms) \in Nat /\ Reload(ms) * d >= ms * 13560
      /\ (Reload(ms) - 1) * d < ms * 13560
  <2> DEFINE r == CeilDiv(ms * 13560, d)
  <2>1. Reload(ms) = r
    BY DEF Reload, TimerInputKHz
  <2>2. r \in Nat /\ r * d >= ms * 13560 /\ (r - 1) * d < ms * 13560
    BY <1>4, CeilDivCovers
  <2>3. QED
    BY <2>1, <2>2
<1>6. Reload(ms) <= 65535
  <2> DEFINE r == Reload(ms)
  <2>1. SUFFICES ASSUME r >= 65536 PROVE FALSE
    BY <1>5
  <2>2. (r - 1) * d >= 65535 * d
    BY <2>1, <1>5, <1>2
  <2>3. QED
    BY <2>2, <1>3, <1>5, <1>2
<1>7. QED
  BY <1>2, <1>5, <1>6 DEF PeriodCovers, MaxReload, TimerInputKHz

-----------------------------------------------------------------------------
(* The MFRC522 keeps its session and waits long enough. *)

\* The least-number principle, on sets.
LEMMA LeastNumber ==
    ASSUME NEW T, T \subseteq Nat, T # {}
    PROVE  \E x \in T : \A y \in T : x <= y
<1>1. PICK x \in T : \A y \in T : ~(<<y, x>> \in OpToRel(<, Nat))
  BY WFMin, NatLessThanWellFounded, Zenon
<1>2. \A y \in T : <<y, x>> \in Nat \X Nat /\ ~(y < x)
  BY <1>1 DEF OpToRel
<1>3. x \in Nat /\ \A y \in T : y \in Nat
  OBVIOUS
<1>4. \A y \in T : ~(y < x)
  BY <1>2, Zenon
<1>5. QED
  BY <1>3, <1>4

FeCards == Coils \cup {NoCoilCard}
FeType ==
    [degraded : BOOLEAN, up : BOOLEAN, life : {"none", "inactive", "session"}, of : FeCards,
     uid : FeCards, fails : Int, initFails : Int, crc : BOOLEAN, wait : Int, listed : FeCards]
FeWorldType == [f : FeType, b : {"ok", "odd", "down"}, rf : {"fresh", "reset", "active", "wedged"}]

\* A session is that of the card whose UID is known, its CRC hardware is on, its
\* card has not been reset under it and its timer is the card's.
FeRadio(w) ==
    w.f.life = "session" =>
        /\ w.f.of # NoCoilCard /\ w.f.uid = w.f.of /\ w.f.crc
        /\ w.f.of = coil => w.rf # "reset"
        /\ \E i \in 0..14 : w.f.wait = FrameWaitMs(i)

FeSound(w) == w \in FeWorldType /\ FeRadio(w)

\* What holds of the frontend, whichever it is.
FeInv == kind = "mfrc522" => FeSound(FeWorld) /\ fwi \in 0..14 /\ coil \in FeCards

\* Frame waiting times are milliseconds that the receive timer accepts.
LEMMA FrameWaitsFit ==
    \A i \in 0..14 : FrameWaitMs(i) \in Nat /\ Accepted(FrameWaitMs(i))
<1> DEFINE Small(k) == k \in Nat /\ k <= 16384
<1>1. \A i \in 0..14 : Small(2^i)
  <2>1. Small(2^0) /\ Small(2^1) /\ Small(2^2) /\ Small(2^3) /\ Small(2^4)
    OBVIOUS
  <2>2. Small(2^5) /\ Small(2^6) /\ Small(2^7) /\ Small(2^8) /\ Small(2^9)
    OBVIOUS
  <2>3. Small(2^10) /\ Small(2^11) /\ Small(2^12) /\ Small(2^13) /\ Small(2^14)
    OBVIOUS
  <2>4. \A i \in 0..14 : i \in {0, 1, 2, 3, 4, 5, 6, 7, 8, 9, 10, 11, 12, 13, 14}
    OBVIOUS
  <2> HIDE DEF Small
  <2>5. QED
    BY <2>1, <2>2, <2>3, <2>4, Zenon
<1> HIDE DEF Small
<1>2. \A k \in Nat : k <= 16384 => (302 * k) \div 1000 \in Nat /\ (302 * k) \div 1000 <= 4948
  OBVIOUS
<1>3. \A i \in 0..14 : FrameWaitMs(i) \in Nat /\ FrameWaitMs(i) <= 4958
  <2> SUFFICES ASSUME NEW i \in 0..14 PROVE FrameWaitMs(i) \in Nat /\ FrameWaitMs(i) <= 4958
    OBVIOUS
  <2>0. PICK k : k = 2^i
    OBVIOUS
  <2>s. Small(2^i)
    BY <1>1, Zenon
  <2>t. Small(k)
    BY <2>0, <2>s, Zenon
  <2>1. k \in Nat /\ k <= 16384
    BY <2>t DEF Small
  <2>2. FrameWaitMs(i) = IF i = 0 THEN 5 ELSE ((302 * k) \div 1000) + 10
    <3>1. CASE i = 0
      BY <3>1, Zenon DEF FrameWaitMs
    <3>2. CASE i # 0
      BY <2>0, <3>2, ZenonT(40) DEF FrameWaitMs
    <3>3. QED
      BY <3>1, <3>2, Zenon
  <2>3. PICK d : d = (302 * k) \div 1000
    OBVIOUS
  <2>4. d \in Nat /\ d <= 4948
    BY <1>2, <2>1, <2>3
  <2>5. FrameWaitMs(i) = 5 \/ FrameWaitMs(i) = d + 10
    BY <2>2, <2>3, Zenon
  <2>6. QED
    BY <2>4, <2>5
<1>4. \A ms \in Nat : ms <= 4958 => Accepted(ms)
  BY DEF Accepted, Divisor, CeilDiv, MinDivisor, MaxDivisor
<1>5. QED
  BY <1>3, <1>4

\* The state changes of the driver end a session or leave it as it is.
LEMMA FeMarks ==
    ASSUME NEW w \in FeWorldType
    PROVE  /\ [w EXCEPT !.f = MarkAbsent(@)] \in FeWorldType
           /\ [w EXCEPT !.f = MarkAbsent(@)].f.life = "none"
           /\ [w EXCEPT !.f = ClearSession(@)] \in FeWorldType
           /\ [w EXCEPT !.f = ClearSession(@)].f.life # "session"
           /\ [w EXCEPT !.f = MarkPresent(@)] \in FeWorldType
           /\ w.f.life # "session" => [w EXCEPT !.f = MarkPresent(@)].f.life # "session"
           /\ Deselected(w) \in FeWorldType /\ Deselected(w).f.life # "session"
<1>f. w.f \in FeType
  BY DEF FeWorldType
<1>w. \A g \in FeType : [w EXCEPT !.f = g] \in FeWorldType /\ [w EXCEPT !.f = g].f = g
  BY DEF FeWorldType
<1>1. MarkAbsent(w.f) \in FeType /\ MarkAbsent(w.f).life = "none"
  <2> DEFINE f1 == [w.f EXCEPT !.life = "none", !.of = NoCoilCard, !.uid = NoCoilCard]
  <2>1. f1 \in FeType /\ f1.life = "none"
    BY <1>f DEF FeType, FeCards
  <2>2. MarkAbsent(w.f) = [f1 EXCEPT !.fails = 0]
    BY DEF MarkAbsent
  <2> HIDE DEF f1
  <2>3. QED
    BY <2>1, <2>2 DEF FeType
<1>2. ClearSession(w.f) \in FeType /\ ClearSession(w.f).life # "session"
  BY <1>f DEF ClearSession, FeType, FeCards
<1>3. /\ MarkPresent(w.f) \in FeType
      /\ w.f.life # "session" => MarkPresent(w.f).life # "session"
  <2> DEFINE f1 == [w.f EXCEPT !.life = IF @ = "none" THEN "inactive" ELSE @]
  <2>1. f1 \in FeType /\ (w.f.life # "session" => f1.life # "session")
    BY <1>f DEF FeType
  <2>2. MarkPresent(w.f) = [f1 EXCEPT !.fails = 0]
    BY <1>f DEF MarkPresent, FeType
  <2> HIDE DEF f1
  <2>3. QED
    BY <2>1, <2>2 DEF FeType
<1>4. Deselected(w) \in FeWorldType /\ Deselected(w).f.life # "session"
  BY DEF Deselected, FeWorldType, FeType, FeCards
<1>5. QED
  BY <1>w, <1>1, <1>2, <1>3, <1>4

\* A field cycle resets the card of no session.
LEMMA FeReset ==
    ASSUME NEW w \in FeWorldType
    PROVE  ResetFrontend(w) \in FeWorldType /\ ResetFrontend(w).f.life = w.f.life
BY DEF ResetFrontend, ResetOk, FeWorldType, FeType

\* init keeps the session.
LEMMA FeInitialise ==
    ASSUME NEW w, FeSound(w)
    PROVE  FeSound(Initialise(w)) /\ Initialise(w).f.life = w.f.life
BY DEF FeSound, FeRadio, Initialise, FeWorldType, FeType

\* Without a session there is nothing to keep.
LEMMA FeIdle == ASSUME NEW w \in FeWorldType, w.f.life # "session" PROVE FeSound(w)
BY DEF FeSound, FeRadio

\* full_reinit ends the session.
LEMMA FeFullReinit ==
    ASSUME NEW w \in FeWorldType
    PROVE  FullReinit(w) \in FeWorldType /\ FullReinit(w).f.life = "none"
<1> DEFINE a == [w EXCEPT !.f = MarkAbsent(@)]
           down == [w EXCEPT !.f = [MarkAbsent(@) EXCEPT !.up = FALSE]]
<1>1. a \in FeWorldType /\ a.f.life = "none"
  BY FeMarks
<1>2. down = [a EXCEPT !.f.up = FALSE]
  BY DEF FeWorldType
<1> HIDE DEF a, down
<1>3. down \in FeWorldType /\ down.f.life = "none"
  BY <1>1, <1>2 DEF FeWorldType, FeType
<1>4. FullReinit(w) = IF ResetOk(w) THEN Initialise(ResetFrontend(down)) ELSE down
  BY Zenon DEF FullReinit, down
<1>5. ResetFrontend(down) \in FeWorldType /\ ResetFrontend(down).f.life = "none"
  BY <1>3, FeReset
<1>6. FeSound(ResetFrontend(down))
  BY <1>5, FeIdle
<1>7. Initialise(ResetFrontend(down)) \in FeWorldType /\ Initialise(ResetFrontend(down)).f.life = "none"
  BY <1>5, <1>6, FeInitialise DEF FeSound
<1>8. QED
  BY <1>3, <1>4, <1>7

\* init_with_recovery keeps the session or ends it.
LEMMA FeInitRecovering ==
    ASSUME kind = "mfrc522", NEW w, FeSound(w)
    PROVE  /\ FeSound(InitRecovering(w).w) /\ InitRecovering(w).ok \in BOOLEAN
           /\ w.f.life = "none" => InitRecovering(w).w.f.life = "none"
<1>w. w \in FeWorldType
  BY DEF FeSound
<1>1. InitRecovering(w) = InitWithRecovery(w)
  BY DEF InitRecovering
<1>2. CASE InitOk(w)
  <2> DEFINE i == Initialise(w)
  <2>1. FeSound(i) /\ i.f.life = w.f.life
    BY FeInitialise
  <2>2. InitWithRecovery(w) = [w |-> [i EXCEPT !.f.initFails = 0], ok |-> TRUE]
    BY <1>2, Zenon DEF InitWithRecovery
  <2> HIDE DEF i
  <2>3. FeSound([i EXCEPT !.f.initFails = 0]) /\ [i EXCEPT !.f.initFails = 0].f.life = i.f.life
    BY <2>1 DEF FeSound, FeRadio, FeWorldType, FeType
  <2> PICK j : j = [i EXCEPT !.f.initFails = 0]
    OBVIOUS
  <2>a. InitRecovering(w) = [w |-> j, ok |-> TRUE]
    BY <1>1, <2>2, Zenon
  <2>4. InitRecovering(w).w = [i EXCEPT !.f.initFails = 0] /\ InitRecovering(w).ok = TRUE
    BY <2>a
  <2>5. QED
    BY <2>1, <2>3, <2>4
<1>3. CASE ~InitOk(w) /\ w.f.initFails + 1 < ReinitThreshold
  <2>2. InitWithRecovery(w) = [w |-> [w EXCEPT !.f.initFails = @ + 1], ok |-> FALSE]
    BY <1>3, Zenon DEF InitWithRecovery
  <2>3. /\ FeSound([w EXCEPT !.f.initFails = @ + 1])
        /\ [w EXCEPT !.f.initFails = @ + 1].f.life = w.f.life
    BY DEF FeSound, FeRadio, FeWorldType, FeType
  <2> PICK j : j = [w EXCEPT !.f.initFails = @ + 1]
    OBVIOUS
  <2>a. InitRecovering(w) = [w |-> j, ok |-> FALSE]
    BY <1>1, <2>2, Zenon
  <2>4. InitRecovering(w).w = [w EXCEPT !.f.initFails = @ + 1] /\ InitRecovering(w).ok = FALSE
    BY <2>a
  <2>5. QED
    BY <2>3, <2>4
<1>4. CASE ~InitOk(w) /\ ~(w.f.initFails + 1 < ReinitThreshold)
  <2> DEFINE z == [w EXCEPT !.f.initFails = 0]
  <2>1. z \in FeWorldType
    BY <1>w DEF FeWorldType, FeType
  <2>2. InitWithRecovery(w) = [w |-> FullReinit(z), ok |-> ResetOk(w)]
    BY <1>4, Zenon DEF InitWithRecovery
  <2> HIDE DEF z
  <2>3. FullReinit(z) \in FeWorldType /\ FullReinit(z).f.life = "none" /\ FeSound(FullReinit(z))
    BY <2>1, FeFullReinit, FeIdle
  <2>4. ResetOk(w) \in BOOLEAN
    BY DEF ResetOk
  <2>5. QED
    BY <1>1, <2>2, <2>3, <2>4
<1>5. QED
  BY <1>2, <1>3, <1>4

\* A missed wake-up, whatever it is taken for.
LEMMA FeMiss ==
    ASSUME NEW w, FeSound(w)
    PROVE  FeSound(Miss(w).w)
<1>w. w \in FeWorldType
  BY DEF FeSound
<1>1. Miss(w).w = IF w.f.fails + 1 >= CardAbsentThreshold THEN [w EXCEPT !.f = MarkAbsent(@)]
                  ELSE [w EXCEPT !.f.fails = @ + 1]
  BY Zenon DEF Miss
<1>2. FeSound([w EXCEPT !.f = MarkAbsent(@)])
  BY <1>w, FeMarks, FeIdle
<1>3. FeSound([w EXCEPT !.f.fails = @ + 1])
  BY DEF FeSound, FeRadio, FeWorldType, FeType
<1>4. QED
  BY <1>1, <1>2, <1>3

\* A field cycled half way, without a session.
LEMMA FeTorn ==
    ASSUME NEW w \in FeWorldType, w.f.life # "session", NEW h \in HalfReset(w)
    PROVE  FeSound(h)
<1> DEFINE a == [w EXCEPT !.rf = "reset"]
           b == [a EXCEPT !.f.crc = FALSE]
<1>1. a \in FeWorldType /\ a.f.life # "session"
  BY DEF FeWorldType
<1>2. h = a \/ h = b
  BY DEF HalfReset, FeWorldType
<1> HIDE DEF a
<1>3. b \in FeWorldType /\ b.f.life # "session"
  BY <1>1 DEF FeWorldType, FeType
<1>4. QED
  BY <1>1, <1>2, <1>3, FeIdle

\* poll_physical_card leaves a session alone.
LEMMA FePolls ==
    ASSUME NEW w, FeSound(w), NEW p \in PollPhysical(w)
    PROVE  FeSound(p.w)
<1>w. w \in FeWorldType
  BY DEF FeSound
<1> DEFINE r == ResetFrontend(w)
<1>1. CASE ~w.f.up \/ w.f.life = "session"
  BY <1>1 DEF PollPhysical
<1>2. CASE ~(~w.f.up \/ w.f.life = "session") /\ ~ResetOk(w)
  <2>1. p.w = Miss(w).w
    BY <1>2 DEF PollPhysical
  <2>2. QED
    BY <2>1, FeMiss
<1>3. CASE ~(~w.f.up \/ w.f.life = "session") /\ ResetOk(w)
  <2>1. r \in FeWorldType /\ r.f.life # "session"
    BY <1>w, <1>3, FeReset
  <2>2. FeSound(r)
    BY <2>1, FeIdle
  <2>3. \/ p.w = Miss(r).w \/ p.w = [r EXCEPT !.f = MarkPresent(@)]
        \/ \E h \in HalfReset(w) : p.w = Miss(h).w
    BY <1>3 DEF PollPhysical
  <2>4. FeSound([r EXCEPT !.f = MarkPresent(@)])
    BY <2>1, FeMarks, FeIdle
  <2>5. \A h \in HalfReset(w) : FeSound(h)
    BY <1>w, <1>3, FeTorn
  <2>6. QED
    BY <2>2, <2>3, <2>4, <2>5, FeMiss
<1>4. QED
  BY <1>1, <1>2, <1>3

\* power_on opens the session of the card that answered, or leaves none.
LEMMA FeActivation ==
    ASSUME NEW w, FeSound(w), fwi \in 0..14, coil \in FeCards, NEW r \in Activation(w)
    PROVE  FeSound(r.w)
<1>w. w \in FeWorldType
  BY DEF FeSound
<1> DEFINE off == IF w.f.life = "session" \/ w.f.of # NoCoilCard THEN Deselected(w) ELSE w
           reset == ResetFrontend(off)
           known == [reset EXCEPT !.f.uid = coil]
<1>1. off \in FeWorldType /\ off.f.life # "session" /\ FeSound(off)
  BY <1>w, FeMarks, FeIdle
<1>2. reset \in FeWorldType /\ reset.f.life # "session"
  <2> HIDE DEF off
  <2>1. QED
    BY <1>1, FeReset
<1>e. \/ ~w.f.up /\ r.w = w
      \/ r.w = off
      \/ \E h \in HalfReset(off) : r.w = h
      \/ r.w = [reset EXCEPT !.f = ClearSession(@)]
      \/ r.w = [known EXCEPT !.f = ClearSession(@)]
      \/ r.w = [known EXCEPT !.f.crc = TRUE]
      \/ Answers(reset) /\ r.w = OpenSession(known)
  BY DEF Activation
<1> HIDE DEF off, reset
<1>3. known \in FeWorldType /\ known.f.life # "session" /\ known.f.uid = coil
  BY <1>2 DEF FeWorldType, FeType
<1> HIDE DEF known
<1>4. FeSound([reset EXCEPT !.f = ClearSession(@)])
  BY <1>2, FeMarks, FeIdle
<1>5. FeSound([known EXCEPT !.f = ClearSession(@)])
  BY <1>3, FeMarks, FeIdle
<1>6. FeSound([known EXCEPT !.f.crc = TRUE])
  <2>1. [known EXCEPT !.f.crc = TRUE] \in FeWorldType
    BY <1>3 DEF FeWorldType, FeType
  <2>2. [known EXCEPT !.f.crc = TRUE].f.life # "session"
    BY <1>3 DEF FeWorldType, FeType
  <2>3. QED
    BY <2>1, <2>2, FeIdle
<1>7. ASSUME Answers(reset) PROVE FeSound(OpenSession(known))
  <2> DEFINE o == OpenSession(known)
  <2>1. coil # NoCoilCard
    BY <1>7 DEF Answers
  <2>2. PICK ms \in Int : ms = FrameWaitMs(fwi)
    BY FrameWaitsFit
  <2>3. o = [known EXCEPT !.f.crc = TRUE, !.f.life = "session", !.f.of = coil, !.f.fails = 0,
                          !.f.wait = ms, !.rf = "active"]
    BY <2>2 DEF OpenSession
  <2> DEFINE p == [known EXCEPT !.f.crc = TRUE, !.f.life = "session", !.f.of = coil]
             q == [p EXCEPT !.f.fails = 0, !.f.wait = ms]
  <2>p. p \in FeWorldType
    BY <1>3 DEF FeWorldType, FeType
  <2>q. q \in FeWorldType
    <3> DEFINE z == [p EXCEPT !.f.fails = 0]
    <3> HIDE DEF p
    <3>1. z \in FeWorldType
      BY <2>p DEF FeWorldType, FeType
    <3>2. q = [z EXCEPT !.f.wait = ms]
      BY <2>p DEF FeWorldType, FeType
    <3> HIDE DEF z, q
    <3>3. QED
      BY <3>1, <3>2 DEF FeWorldType, FeType
  <2>r. o = [q EXCEPT !.rf = "active"]
    BY <1>3, <2>3 DEF FeWorldType, FeType
  <2> HIDE DEF o, p, q
  <2>4. o \in FeWorldType
    BY <2>q, <2>r DEF FeWorldType
  <2>5. o.f.of = coil /\ o.f.uid = coil /\ o.f.crc = TRUE /\ o.rf = "active" /\ o.f.wait = ms
    BY <1>3, <2>3 DEF FeWorldType, FeType
  <2>6. QED
    BY <2>1, <2>2, <2>4, <2>5 DEF FeSound, FeRadio, o
<1>8. QED
  BY <1>1, <1>e, <1>4, <1>5, <1>6, <1>7, FeTorn

\* transmit_apdu keeps the session or ends it.
LEMMA FeExchanges ==
    ASSUME NEW w, FeSound(w), NEW x \in FeExchange(w)
    PROVE  FeSound(x)
<1>w. w \in FeWorldType
  BY DEF FeSound
<1> DEFINE c == [w EXCEPT !.f = ClearSession(@)]
           lost == [w EXCEPT !.f = [ClearSession(@) EXCEPT !.life = "inactive"]]
<1>1. c \in FeWorldType
  BY <1>w, FeMarks
<1>2. lost = [c EXCEPT !.f.life = "inactive"]
  BY <1>w DEF FeWorldType
<1>3. x \in {w, lost, [lost EXCEPT !.rf = "wedged"]}
  BY DEF FeExchange
<1> HIDE DEF c, lost
<1>4. lost \in FeWorldType /\ lost.f.life = "inactive"
  BY <1>1, <1>2 DEF FeWorldType, FeType
<1>5. /\ [lost EXCEPT !.rf = "wedged"] \in FeWorldType
      /\ [lost EXCEPT !.rf = "wedged"].f.life = "inactive"
  BY <1>4 DEF FeWorldType
<1>6. FeSound(lost) /\ FeSound([lost EXCEPT !.rf = "wedged"])
  BY <1>4, <1>5, FeIdle
<1>7. QED
  BY <1>3, <1>6

-----------------------------------------------------------------------------
\* One initialisation of bring_up, and g as a run of m of them.
TryInit(r) == IF r.ok THEN r ELSE InitRecovering(r.w)
InitRun(w, m, g) ==
    g = [n \in 0..m |-> IF n = 0 THEN [w |-> w, ok |-> FALSE] ELSE TryInit(g[n - 1])]

\* A driver that comes up, or not, has no session.
LEMMA FeBroughtUp ==
    ASSUME kind = "mfrc522", NEW w \in FeWorldType, w.f.life = "none"
    PROVE  /\ BroughtUp(w).w \in FeWorldType /\ BroughtUp(w).w.f.life = "none"
           /\ BroughtUp(w).ok \in BOOLEAN
<1> DEFINE Quiet5(r) == r.w \in FeWorldType /\ r.w.f.life = "none" /\ r.ok \in BOOLEAN
           Bad == {m \in Nat : ~\E g : InitRun(w, m, g)}
<1>1. \A r : Quiet5(r) => Quiet5(TryInit(r))
  <2> SUFFICES ASSUME NEW r, Quiet5(r), ~r.ok PROVE Quiet5(InitRecovering(r.w))
    BY DEF TryInit
  <2>1. FeSound(r.w)
    BY FeIdle
  <2>2. QED
    BY <2>1, FeInitRecovering DEF FeSound
<1>2. \E g : InitRun(w, 0, g)
  <2> DEFINE g == [n \in 0..0 |-> [w |-> w, ok |-> FALSE]]
  <2>1. InitRun(w, 0, g)
    BY DEF InitRun
  <2>2. QED
    BY <2>1
<1>3. ASSUME NEW m \in Nat, NEW g, InitRun(w, m, g) PROVE \E h : InitRun(w, m + 1, h)
  <2> DEFINE h == [n \in 0..(m + 1) |-> IF n = m + 1 THEN TryInit(g[m]) ELSE g[n]]
  <2>1. g = [n \in 0..m |-> IF n = 0 THEN [w |-> w, ok |-> FALSE] ELSE TryInit(g[n - 1])]
    BY <1>3 DEF InitRun
  <2>2. /\ g[0] = [w |-> w, ok |-> FALSE]
        /\ \A n \in 1..m : g[n] = TryInit(g[n - 1])
    <3>1. \A n \in 0..m : g[n] = IF n = 0 THEN [w |-> w, ok |-> FALSE] ELSE TryInit(g[n - 1])
      BY <2>1, Zenon
    <3>2. 0 \in 0..m /\ \A n \in 1..m : n \in 0..m /\ n # 0
      OBVIOUS
    <3>3. QED
      BY <3>1, <3>2, Zenon
  <2>3. /\ h[0] = [w |-> w, ok |-> FALSE]
        /\ \A n \in 1..(m + 1) : h[n] = TryInit(h[n - 1])
    <3>1. h[0] = g[0]
      OBVIOUS
    <3>2. ASSUME NEW n \in 1..m PROVE h[n] = TryInit(h[n - 1])
      <4>1. h[n] = g[n] /\ h[n - 1] = g[n - 1]
        OBVIOUS
      <4>2. QED
        BY <2>2, <4>1
    <3>3. h[m + 1] = TryInit(g[m]) /\ h[(m + 1) - 1] = g[m]
      OBVIOUS
    <3>4. \A n \in 1..(m + 1) : n \in 1..m \/ n = m + 1
      OBVIOUS
    <3> HIDE DEF h
    <3>5. QED
      BY <2>2, <3>1, <3>2, <3>3, <3>4, Zenon
  <2>4. InitRun(w, m + 1, h)
    <3>1. h = [n \in 0..(m + 1) |-> h[n]]
      OBVIOUS
    <3>2. \A n \in 0..(m + 1) : n = 0 \/ n \in 1..(m + 1)
      OBVIOUS
    <3>3. \A n \in 0..(m + 1) : h[n] = IF n = 0 THEN [w |-> w, ok |-> FALSE] ELSE TryInit(h[n - 1])
      <4> HIDE DEF h
      <4> SUFFICES ASSUME NEW n \in 0..(m + 1)
                   PROVE  h[n] = IF n = 0 THEN [w |-> w, ok |-> FALSE] ELSE TryInit(h[n - 1])
        OBVIOUS
      <4>1. CASE n = 0
        BY <2>3, <4>1, Zenon
      <4>2. CASE n # 0
        BY <2>3, <3>2, <4>2, Zenon
      <4>3. QED
        BY <4>1, <4>2
    <3> HIDE DEF h
    <3>4. QED
      BY <3>1, <3>3, Zenon DEF InitRun
  <2>5. QED
    BY <2>4
<1>4. Bad = {}
  <2> SUFFICES ASSUME Bad # {} PROVE FALSE
    OBVIOUS
  <2>1. PICK m \in Bad : \A k \in Bad : m <= k
    BY LeastNumber
  <2>2. m \in Nat /\ ~\E g : InitRun(w, m, g)
    BY <2>1
  <2>3. m # 0
    BY <1>2, <2>2
  <2>4. m - 1 \in Nat /\ m - 1 \notin Bad
    BY <2>1, <2>2, <2>3
  <2>5. PICK g : InitRun(w, m - 1, g)
    BY <2>4
  <2>6. \E h : InitRun(w, (m - 1) + 1, h)
    BY <1>3, <2>4, <2>5
  <2>7. (m - 1) + 1 = m
    BY <2>2
  <2>8. QED
    BY <2>2, <2>6, <2>7
<1>5. InitAttempts \in Nat
  BY FrontendsAssumption
<1>6. PICK g : g = CHOOSE f : InitRun(w, InitAttempts, f)
  OBVIOUS
<1>7. InitRun(w, InitAttempts, g)
  <2>1. \E f : InitRun(w, InitAttempts, f)
    BY <1>4, <1>5
  <2>2. QED
    BY <1>6, <2>1, Zenon
<1>8. BroughtUp(w) = g[InitAttempts]
  BY <1>6, Zenon DEF BroughtUp, InitRun, TryInit
<1> DEFINE Loud == {n \in 0..InitAttempts : ~Quiet5(g[n])}
<1> HIDE DEF Quiet5
<1>9. Loud = {}
  <2> SUFFICES ASSUME Loud # {} PROVE FALSE
    OBVIOUS
  <2>1. PICK n \in Loud : \A k \in Loud : n <= k
    <3>1. Loud \subseteq Nat
      BY <1>5
    <3> HIDE DEF Loud
    <3>2. QED
      BY <3>1, LeastNumber
  <2>2. \A k \in 0..InitAttempts : g[k] = IF k = 0 THEN [w |-> w, ok |-> FALSE] ELSE TryInit(g[k - 1])
    BY <1>7, Zenon DEF InitRun
  <2>3. n \in 0..InitAttempts /\ ~Quiet5(g[n])
    BY <2>1
  <2>4. CASE n = 0
    <3>1. Quiet5([w |-> w, ok |-> FALSE])
      BY DEF Quiet5
    <3>2. QED
      BY <2>2, <2>3, <2>4, <3>1, Zenon
  <2>5. CASE n # 0
    <3>1. n - 1 \in 0..InitAttempts /\ n - 1 \notin Loud
      BY <1>5, <2>1, <2>3, <2>5
    <3>2. Quiet5(TryInit(g[n - 1]))
      BY <1>1, <3>1
    <3>3. QED
      BY <2>2, <2>3, <2>5, <3>2, Zenon
  <2>6. QED
    BY <2>4, <2>5
<1>10. Quiet5(g[InitAttempts])
  BY <1>5, <1>9
<1>11. QED
  BY <1>8, <1>10 DEF Quiet5

\* The frontend starts without a session.
LEMMA FeInitial == FrontendsInit => FeInv
<1> SUFFICES ASSUME FrontendsInit, kind = "mfrc522"
             PROVE  FeSound(FeWorld) /\ fwi \in 0..14 /\ coil \in FeCards
  BY DEF FeInv
<1>1. PICK b \in {"ok", "odd", "down"} :
         LET up == BroughtUp([f |-> NewFrontend, b |-> b, rf |-> "fresh"])
         IN fe = [up.w.f EXCEPT !.degraded = ~up.ok] /\ bus = up.w.b /\ rf = up.w.rf
  BY Zenon DEF FrontendsInit
<1>2. PICK w : w = [f |-> NewFrontend, b |-> b, rf |-> "fresh"]
  OBVIOUS
<1>3. w \in FeWorldType /\ w.f.life = "none"
  <2>1. NewFrontend \in FeType /\ NewFrontend.life = "none"
    BY DEF NewFrontend, FeType, FeCards
  <2>2. QED
    BY <1>2, <2>1 DEF FeWorldType
<1>4. PICK u : u = BroughtUp(w)
  OBVIOUS
<1>5. u.w \in FeWorldType /\ u.w.f.life = "none" /\ u.ok \in BOOLEAN
  BY <1>3, <1>4, FeBroughtUp
<1>6. fe = [u.w.f EXCEPT !.degraded = ~u.ok] /\ bus = u.w.b /\ rf = u.w.rf
  BY <1>1, <1>2, <1>4, Zenon
<1>7. fe \in FeType /\ fe.life = "none"
  BY <1>5, <1>6 DEF FeWorldType, FeType
<1>8. FeWorld \in FeWorldType /\ FeWorld.f.life = "none"
  BY <1>5, <1>6, <1>7 DEF FeWorldType, FeWorld
<1>9. FeSound(FeWorld)
  BY <1>8, FeIdle
<1>10. fwi \in 0..14 /\ coil \in FeCards
  BY FrontendsAssumption DEF FrontendsInit, FeCards
<1>11. QED
  BY <1>9, <1>10

\* The frontend after a step that ends in w.
LEMMA FeBecomesSound ==
    ASSUME NEW w, FeSound(w), FeBecomes(w), coil' = coil
    PROVE  FeSound(FeWorld)'
<1>1. w = [f |-> w.f, b |-> w.b, rf |-> w.rf]
  BY DEF FeSound, FeWorldType
<1>2. fe' = w.f /\ bus' = w.b /\ rf' = w.rf
  BY DEF FeBecomes
<1>3. FeWorld' = w
  BY <1>1, <1>2 DEF FeWorld
<1>4. QED
  BY <1>3 DEF FeSound, FeRadio

\* Each step of the frontend keeps the session's radio.
LEMMA FeStepSound == FeInv /\ [FrontendsNext]_feVars => FeInv'
<1> SUFFICES ASSUME FeInv, [FrontendsNext]_feVars, kind' = "mfrc522"
             PROVE  FeSound(FeWorld)' /\ fwi' \in 0..14 /\ coil' \in FeCards
  BY DEF FeInv
<1>k. kind = "mfrc522"
  BY DEF FrontendsNext, feVars, FePoll, FePowerOn, FePowerOff, FeTransmitApdu, PlaceCard, TakeCard,
         BusFault, BusMends
<1>i. FeSound(FeWorld) /\ fwi \in 0..14 /\ coil \in FeCards
  BY <1>k DEF FeInv
<1>1. CASE FePoll
  <2> PICK i : i = IF fe.degraded THEN InitRecovering(FeWorld) ELSE [w |-> FeWorld, ok |-> TRUE]
    OBVIOUS
  <2> PICK w : w = [i.w EXCEPT !.f.degraded = ~i.ok]
    OBVIOUS
  <2>1. FeSound(i.w) /\ i.ok \in BOOLEAN
    <3>1. CASE fe.degraded
      BY <1>k, <1>i, <3>1, FeInitRecovering
    <3>2. CASE ~fe.degraded
      <4>1. i.w = FeWorld /\ i.ok = TRUE
        BY <3>2
      <4>2. QED
        BY <1>i, <4>1
    <3>3. QED
      BY <3>1, <3>2
  <2>2. FeSound(w)
    <3>1. w \in FeWorldType
      <4> PICK d \in BOOLEAN, j \in FeWorldType : d = ~i.ok /\ j = i.w
        BY <2>1 DEF FeSound
      <4>1. w = [j EXCEPT !.f.degraded = d]
        OBVIOUS
      <4>2. j.f \in FeType /\ [j.f EXCEPT !.degraded = d] \in FeType
        BY DEF FeWorldType, FeType
      <4>3. w = [j EXCEPT !.f = [j.f EXCEPT !.degraded = d]]
        BY <4>1
      <4>4. QED
        BY <4>2, <4>3 DEF FeWorldType
    <3>2. /\ w.f.life = i.w.f.life /\ w.f.of = i.w.f.of /\ w.f.uid = i.w.f.uid /\ w.f.crc = i.w.f.crc
          /\ w.f.wait = i.w.f.wait /\ w.rf = i.w.rf
      BY <2>1 DEF FeSound, FeWorldType, FeType
    <3>3. QED
      BY <2>1, <3>1, <3>2, Zenon DEF FeSound, FeRadio
  <2>3. \/ FeBecomes(w)
        \/ \E p \in PollPhysical(w) : FeBecomes(p.w)
    BY <1>1, <1>k, Zenon DEF FePoll
  <2>4. fwi' = fwi /\ coil' = coil
    BY <1>1 DEF FePoll
  <2>5. QED
    BY <1>i, <2>2, <2>3, <2>4, FePolls, FeBecomesSound
<1>2. CASE FePowerOn
  <2>1. \E r \in Activation(FeWorld) : FeBecomes(r.w)
    BY <1>2, <1>k DEF FePowerOn
  <2>2. fwi' = fwi /\ coil' = coil
    BY <1>2 DEF FePowerOn
  <2>3. QED
    BY <1>i, <2>1, <2>2, FeActivation, FeBecomesSound
<1>3. CASE FePowerOff
  <2>1. FeBecomes(Deselected(FeWorld)) /\ fwi' = fwi /\ coil' = coil
    BY <1>3, <1>k DEF FePowerOff
  <2>2. FeSound(Deselected(FeWorld))
    BY <1>i, FeMarks, FeIdle DEF FeSound
  <2>3. QED
    BY <1>i, <2>1, <2>2, FeBecomesSound
<1>4. CASE FeTransmitApdu
  <2>1. \E x \in FeExchange(FeWorld) : FeBecomes(x)
    BY <1>4, <1>k DEF FeTransmitApdu
  <2>2. fwi' = fwi /\ coil' = coil
    BY <1>4 DEF FeTransmitApdu
  <2>3. QED
    BY <1>i, <2>1, <2>2, FeExchanges, FeBecomesSound
<1> USE DEF FeWorld, FeSound, FeRadio, FeWorldType
<1>5. ASSUME NEW c \in Coils, PlaceCard(c) PROVE FeSound(FeWorld)' /\ fwi' \in 0..14 /\ coil' \in FeCards
  BY <1>i, <1>5, FrontendsAssumption DEF PlaceCard, FeCards
<1>6. CASE TakeCard
  BY <1>i, <1>6 DEF TakeCard, FeCards
<1>7. ASSUME NEW b \in {"odd", "down"}, BusFault(b)
      PROVE  FeSound(FeWorld)' /\ fwi' \in 0..14 /\ coil' \in FeCards
  BY <1>i, <1>7 DEF BusFault
<1>8. CASE BusMends
  BY <1>i, <1>8 DEF BusMends
<1>9. CASE UNCHANGED feVars
  BY <1>i, <1>9 DEF feVars
<1>10. QED
  BY <1>1, <1>2, <1>3, <1>4, <1>5, <1>6, <1>7, <1>8, <1>9, Zenon DEF FrontendsNext

\* The session keeps its radio, and its timer covers the card's waiting time.
LEMMA FeInvIsEnough == FeInv => SessionKeepsItsRadio /\ FrameWaitIsCovered
<1> SUFFICES ASSUME FeInv, kind = "mfrc522", fe.life = "session"
             PROVE  /\ fe.of # NoCoilCard /\ fe.uid = fe.of /\ fe.crc /\ (fe.of = coil => rf # "reset")
                    /\ Accepted(fe.wait) /\ PeriodCovers(fe.wait)
  BY DEF SessionKeepsItsRadio, FrameWaitIsCovered
<1>1. /\ fe.of # NoCoilCard /\ fe.uid = fe.of /\ fe.crc /\ (fe.of = coil => rf # "reset")
      /\ \E i \in 0..14 : fe.wait = FrameWaitMs(i)
  BY DEF FeInv, FeSound, FeRadio, FeWorld
<1>2. QED
  BY <1>1, FrameWaitsFit, TimerCoversRequest

\* A live MFRC522 session keeps its radio, whatever polls, faults and cards come
\* and go, and however often the init was tried.
THEOREM SessionsKeepTheirRadio == FrontendsSpec => [](SessionKeepsItsRadio /\ FrameWaitIsCovered)
<1>1. FeInv /\ [FrontendsNext]_feVars => FeInv'
  BY FeStepSound
<1>2. QED
  BY <1>1, FeInitial, FeInvIsEnough, PTL DEF FrontendsSpec

-----------------------------------------------------------------------------
(* The credit gate and the collection of an answer. *)

NlFrame == {Credit, Wtx, Lost} \cup [k : {"data"}, x : Nat, i : Nat, pbf : BOOLEAN]

\* The frames this interface sent before it said that the tag is lost: what
\* follows is drained unread.
Live(l, p) == p \in 1..Len(l) /\ \A q \in 1..p : l[q] # Lost
Unbroken(l) == \A p \in 1..Len(l) : l[p] # Lost
LiveData(l, p) == Live(l, p) /\ l[p].k = "data"
LiveCredit(l, p) == Live(l, p) /\ l[p] = Credit

NlTypes ==
    /\ xl \in [at : {"idle", "gate", "collect", "data", "timeout", "lost"}, x : Nat, n : Int,
               sent : Int, budget : Int, got : Seq(Nat \X Nat)]
    /\ nfcc \in [credits : 0..1, owed : 0..1, taken : Int, want : Int, segs : Int, said : Nat,
                 churn : Int]
    /\ line \in Seq(NlFrame)
    /\ nfcc.credits + nfcc.owed <= 1 /\ nfcc.said <= nfcc.segs

\* Between two exchanges the credit is back and nothing but waiting-time notices
\* is on the line.
NlRested ==
    /\ nfcc.credits = 1 /\ nfcc.owed = 0 /\ nfcc.said = nfcc.segs
    /\ \A p \in 1..Len(line) : Live(line, p) => line[p] = Wtx

\* While fragments are sent the controller holds less than the APDU, says nothing
\* of an answer, and the one credit is with it or on the line.
NlGated ==
    /\ nfcc.taken = xl.sent /\ xl.sent < xl.n /\ nfcc.want = xl.n /\ nfcc.said = 0
    /\ \A p \in 1..Len(line) : ~LiveData(line, p)
    /\ \A p \in 1..Len(line) : LiveCredit(line, p) => nfcc.credits = 1
    /\ \A p, q \in 1..Len(line) : LiveCredit(line, p) /\ LiveCredit(line, q) => p = q
    /\ Unbroken(line) => nfcc.credits + nfcc.owed = 1

\* While the answer is collected the line carries on where the collection is, and
\* a credit comes before the answer.
NlCollecting ==
    /\ xl.got = [i \in 1..Len(xl.got) |-> <<xl.x, i>>]
    /\ \A p \in 1..Len(line) : LiveData(line, p) =>
          /\ line[p].x = xl.x /\ Len(xl.got) < line[p].i /\ line[p].i <= nfcc.said
          /\ ~line[p].pbf => line[p].i = nfcc.segs
          /\ nfcc.credits = 1 /\ nfcc.owed = 0
          /\ line[p].i > Len(xl.got) + 1 =>
                \E q \in 1..(p - 1) : LiveData(line, q) /\ line[q].i = line[p].i - 1
    /\ \A p, q \in 1..Len(line) : p < q /\ LiveData(line, p) =>
          /\ ~LiveCredit(line, q)
          /\ LiveData(line, q) => line[p].i < line[q].i
    /\ Unbroken(line) =>
          /\ nfcc.credits + nfcc.owed = 1
          /\ Len(xl.got) <= nfcc.said
          /\ nfcc.said > Len(xl.got) => \E p \in 1..Len(line) : LiveData(line, p) /\ line[p].i = nfcc.said

NlInv ==
    /\ NlTypes
    /\ xl.at \in {"idle", "data"} => NlRested
    /\ xl.at = "gate" => NlGated /\ xl.got = <<>>
    /\ xl.at = "collect" => NlCollecting
    /\ xl.at = "data" => xl.got = [i \in 1..nfcc.segs |-> <<xl.x, i>>]


\* A frame read, or added, leaves the others what they are.
LEMMA LiveTail ==
    ASSUME NEW l \in Seq(NlFrame), l # <<>>, Head(l) # Lost
    PROVE  /\ Tail(l) \in Seq(NlFrame) /\ Len(Tail(l)) = Len(l) - 1 /\ Len(l) \in Nat
           /\ Live(l, 1) /\ l[1] = Head(l) /\ 1 \in 1..Len(l)
           /\ \A p \in 1..Len(Tail(l)) : /\ p + 1 \in 1..Len(l) /\ Tail(l)[p] = l[p + 1]
                                         /\ Live(Tail(l), p) <=> Live(l, p + 1)
           /\ Unbroken(Tail(l)) <=> Unbroken(l)
<1>1. /\ Tail(l) \in Seq(NlFrame) /\ Len(Tail(l)) = Len(l) - 1 /\ Len(l) \in Nat /\ Len(l) >= 1
      /\ \A p \in 1..Len(Tail(l)) : Tail(l)[p] = l[p + 1]
      /\ l[1] = Head(l)
  BY HeadTailProperties, LenProperties
<1>2. PICK t \in Seq(NlFrame) : t = Tail(l)
  BY <1>1
<1>3. \A p \in 1..Len(t) : p + 1 \in 1..Len(l) /\ t[p] = l[p + 1]
  BY <1>1, <1>2
<1>4. ASSUME NEW p \in 1..Len(t), Live(t, p) PROVE Live(l, p + 1)
  <2> SUFFICES ASSUME NEW q \in 1..(p + 1) PROVE l[q] # Lost
    BY <1>3 DEF Live
  <2>1. CASE q = 1
    BY <1>1, <2>1
  <2>2. CASE q # 1
    <3>1. q - 1 \in 1..p /\ q - 1 \in 1..Len(t) /\ (q - 1) + 1 = q
      BY <2>2, <1>1, <1>2
    <3>2. t[q - 1] = l[q]
      BY <1>3, <3>1
    <3>3. QED
      BY <1>4, <3>1, <3>2 DEF Live
  <2>3. QED
    BY <2>1, <2>2
<1>5. ASSUME NEW p \in 1..Len(t), Live(l, p + 1) PROVE Live(t, p)
  <2> SUFFICES ASSUME NEW q \in 1..p PROVE t[q] # Lost
    BY DEF Live
  <2>1. q + 1 \in 1..(p + 1) /\ q \in 1..Len(t)
    OBVIOUS
  <2>2. QED
    BY <1>5, <1>3, <2>1 DEF Live
<1>6. Live(l, 1)
  BY <1>1 DEF Live
<1>7. Unbroken(t) <=> Unbroken(l)
  <2>1. ASSUME Unbroken(t), NEW q \in 1..Len(l) PROVE l[q] # Lost
    <3>1. CASE q = 1
      BY <1>1, <3>1
    <3>2. CASE q # 1
      <4>1. q - 1 \in 1..Len(t) /\ (q - 1) + 1 = q
        BY <3>2, <1>1, <1>2
      <4>2. QED
        BY <2>1, <1>3, <4>1 DEF Unbroken
    <3>3. QED
      BY <3>1, <3>2
  <2>2. QED
    BY <1>3, <2>1 DEF Unbroken
<1>8. QED
  BY <1>1, <1>2, <1>3, <1>4, <1>5, <1>6, <1>7

\* ... and so does one added at the end.
LEMMA LiveAppend ==
    ASSUME NEW l \in Seq(NlFrame), NEW f \in NlFrame
    PROVE  /\ Append(l, f) \in Seq(NlFrame) /\ Len(Append(l, f)) = Len(l) + 1 /\ Len(l) \in Nat
           /\ \A p \in 1..Len(l) : Append(l, f)[p] = l[p] /\ (Live(Append(l, f), p) <=> Live(l, p))
           /\ Append(l, f)[Len(l) + 1] = f
           /\ Live(Append(l, f), Len(l) + 1) <=> f # Lost /\ Unbroken(l)
           /\ Unbroken(Append(l, f)) <=> f # Lost /\ Unbroken(l)
<1>1. PICK t \in Seq(NlFrame) : t = Append(l, f)
  BY AppendProperties
<1>2. Len(t) = Len(l) + 1 /\ Len(l) \in Nat /\ t[Len(l) + 1] = f /\ \A p \in 1..Len(l) : t[p] = l[p]
  BY <1>1
<1>3. \A p \in 1..Len(l) : Live(t, p) <=> Live(l, p)
  BY <1>2 DEF Live
<1>4. Live(t, Len(l) + 1) <=> f # Lost /\ Unbroken(l)
  BY <1>2 DEF Live, Unbroken
<1>5. Unbroken(t) <=> f # Lost /\ Unbroken(l)
  BY <1>2 DEF Unbroken
<1>6. QED
  BY <1>1, <1>2, <1>3, <1>4, <1>5

\* The interface starts rested.
LEMMA NlInitial == NlInit => NlInv
BY DEF NlInit, NlInv, NlTypes, NlRested, Interface

\* The frames of the line, told apart by what they are.
LEMMA FrameKinds ==
    /\ {Credit, Wtx, Lost} \subseteq NlFrame
    /\ Credit # Wtx /\ Credit # Lost /\ Wtx # Lost
    /\ Credit.k = "credit" /\ Wtx.k = "wtx" /\ Lost.k = "lost"
    /\ \A f \in NlFrame : f.k = "data" => f.x \in Nat /\ f.i \in Nat /\ f.pbf \in BOOLEAN
    /\ \A f \in NlFrame : /\ f.k \in {"credit", "wtx", "lost", "data"}
                          /\ f.k = "credit" => f = Credit
                          /\ f.k = "wtx" => f = Wtx
                          /\ f.k = "lost" => f = Lost
<1>1. Credit.k = "credit" /\ Wtx.k = "wtx" /\ Lost.k = "lost"
  BY DEF Credit, Wtx, Lost
<1>2. {Credit, Wtx, Lost} \subseteq NlFrame
  BY DEF NlFrame
<1>3. \A f \in NlFrame : f = Credit \/ f = Wtx \/ f = Lost
                         \/ (f.k = "data" /\ f.x \in Nat /\ f.i \in Nat /\ f.pbf \in BOOLEAN)
  BY DEF NlFrame
<1>4. QED
  BY <1>1, <1>2, <1>3

\* A round spent leaves the exchange where it is, or gives it up.
LEMMA RoundSpent ==
    ASSUME NlTypes
    PROVE  /\ SpendRound(xl) \in [at : {"idle", "gate", "collect", "data", "timeout", "lost"}, x : Nat,
                                  n : Int, sent : Int, budget : Int, got : Seq(Nat \X Nat)]
           /\ SpendRound(xl).at \in {xl.at, "timeout"} /\ SpendRound(xl).x = xl.x
           /\ SpendRound(xl).n = xl.n /\ SpendRound(xl).sent = xl.sent /\ SpendRound(xl).got = xl.got
<1>1. SpendRound(xl) = [at |-> IF xl.budget = 1 THEN "timeout" ELSE xl.at, x |-> xl.x, n |-> xl.n,
                       sent |-> xl.sent, budget |-> xl.budget - 1, got |-> xl.got]
  <2> PICK a, b : a = (IF xl.budget = 1 THEN "timeout" ELSE xl.at) /\ b = xl.budget - 1
    OBVIOUS
  <2>1. SpendRound(xl) = [xl EXCEPT !.budget = b, !.at = a]
    BY Zenon DEF SpendRound
  <2>2. QED
    BY <2>1 DEF NlTypes
<1>2. QED
  BY <1>1 DEF NlTypes

\* An exchange starts on a rested connection: its first fragment has a credit.
LEMMA NlExchange ==
    ASSUME NlInv, NEW n \in 1..MaxFragments, NEW s \in 1..MaxSegments, Exchange(n, s)
    PROVE  NlInv'
<1>1. NlTypes /\ NlRested /\ xl.at = "idle" /\ line' = line
  BY DEF NlInv, Exchange
<1>2. xl' = [at |-> IF n = 1 THEN "collect" ELSE "gate", x |-> xl.x + 1, n |-> n, sent |-> 1,
             budget |-> CollectRounds, got |-> <<>>]
  <2> PICK h : h = [at |-> "gate", x |-> xl.x + 1, n |-> n, sent |-> 0, budget |-> CollectRounds,
                    got |-> <<>>]
    OBVIOUS
  <2>1. xl' = [h EXCEPT !.sent = @ + 1, !.at = IF h.sent + 1 = h.n THEN "collect" ELSE "gate"]
    BY Zenon DEF Exchange, SendFragment
  <2>2. h.sent = 0 /\ h.n = n /\ h.sent + 1 = 1
    OBVIOUS
  <2>3. QED
    BY <2>1, <2>2
<1>3. nfcc' = [credits |-> 0, owed |-> 1, taken |-> 1, want |-> n, segs |-> s, said |-> 0, churn |-> 0]
  <2>0. PICK c : c = [nfcc EXCEPT !.taken = 0, !.want = n, !.segs = s, !.said = 0, !.churn = 0]
    OBVIOUS
  <2>1. c = [credits |-> 1, owed |-> 0, taken |-> 0, want |-> n, segs |-> s, said |-> 0, churn |-> 0]
    BY <1>1, <2>0 DEF NlTypes, NlRested
  <2>2. nfcc' = [c EXCEPT !.credits = @ - 1, !.owed = @ + 1, !.taken = @ + 1]
    BY <2>0, Zenon DEF Exchange, Take
  <2>a. c.credits = 1 /\ c.owed = 0 /\ c.taken = 0
    BY <2>1, Zenon
  <2>3. c.credits - 1 = 0 /\ c.owed + 1 = 1 /\ c.taken + 1 = 1
    BY <2>a
  <2>4. nfcc' = [c EXCEPT !.credits = 0, !.owed = 1, !.taken = 1]
    BY <2>2, <2>3, Zenon
  <2>5. QED
    BY <2>1, <2>4
<1>4. NlTypes'
  <2>1. xl' \in [at : {"idle", "gate", "collect", "data", "timeout", "lost"}, x : Nat, n : Int,
                 sent : Int, budget : Int, got : Seq(Nat \X Nat)]
    <3>1. PICK a, y : a = (IF n = 1 THEN "collect" ELSE "gate") /\ y = xl.x + 1
      OBVIOUS
    <3>2. a \in {"collect", "gate"} /\ y \in Nat
      BY <1>1, <3>1 DEF NlTypes
    <3>3. xl' = [at |-> a, x |-> y, n |-> n, sent |-> 1, budget |-> CollectRounds, got |-> <<>>]
      BY <1>2, <3>1, Zenon
    <3>4. n \in Int /\ CollectRounds \in Int /\ <<>> \in Seq(Nat \X Nat)
      BY NciLinkAssumption, EmptySeq
    <3>5. QED
      BY <3>2, <3>3, <3>4
  <2>2. QED
    BY <1>1, <1>3, <2>1 DEF NlTypes
<1>5. \A p \in 1..Len(line) : ~LiveData(line, p) /\ ~LiveCredit(line, p)
  BY <1>1, FrameKinds DEF NlRested, LiveData, LiveCredit
<1>6. n # 1 => NlGated'
  BY <1>1, <1>2, <1>3, <1>5 DEF NlGated
<1>7. NlCollecting'
  BY <1>1, <1>2, <1>3, <1>5 DEF NlCollecting
<1>8. QED
  BY <1>2, <1>4, <1>6, <1>7 DEF NlInv

\* One frame is read; the others move up.
LEMMA ReadMoves ==
    ASSUME line \in Seq(NlFrame), line # <<>>, Head(line) # Lost, line' = Tail(line)
    PROVE  /\ line' \in Seq(NlFrame) /\ Len(line') = Len(line) - 1 /\ Len(line) \in Nat
           /\ Live(line, 1) /\ line[1] = Head(line) /\ 1 \in 1..Len(line) /\ Head(line) \in NlFrame
           /\ \A p \in 1..Len(line') : /\ p + 1 \in 1..Len(line) /\ line'[p] = line[p + 1]
                                       /\ LiveData(line', p) <=> LiveData(line, p + 1)
                                       /\ LiveCredit(line', p) <=> LiveCredit(line, p + 1)
                                       /\ Live(line', p) <=> Live(line, p + 1)
           /\ Unbroken(line') <=> Unbroken(line)
BY LiveTail, HeadTailProperties DEF LiveData, LiveCredit

\* A frame read in the gate that opens nothing.
LEMMA GatedKept ==
    ASSUME NlTypes, NlGated, line # <<>>, Head(line) # Lost, line' = Tail(line), UNCHANGED nfcc,
           xl'.n = xl.n, xl'.sent = xl.sent
    PROVE  NlGated'
<1>1. line \in Seq(NlFrame)
  BY DEF NlTypes
<1>2. /\ nfcc.taken = xl.sent /\ xl.sent < xl.n /\ nfcc.want = xl.n /\ nfcc.said = 0
      /\ \A p \in 1..Len(line) : ~LiveData(line, p)
      /\ \A p \in 1..Len(line) : LiveCredit(line, p) => nfcc.credits = 1
      /\ \A p, q \in 1..Len(line) : LiveCredit(line, p) /\ LiveCredit(line, q) => p = q
      /\ Unbroken(line) => nfcc.credits + nfcc.owed = 1
  BY DEF NlGated
<1>3. \A p \in 1..Len(line') : ~LiveData(line', p) /\ (LiveCredit(line', p) => nfcc'.credits = 1)
  BY <1>1, <1>2, ReadMoves
<1>4. \A p, q \in 1..Len(line') : LiveCredit(line', p) /\ LiveCredit(line', q) => p = q
  <2> SUFFICES ASSUME NEW p \in 1..Len(line'), NEW q \in 1..Len(line'), LiveCredit(line', p),
                      LiveCredit(line', q)
               PROVE  p = q
    OBVIOUS
  <2>1. p + 1 = q + 1
    BY <1>1, <1>2, ReadMoves
  <2>2. QED
    BY <2>1
<1>5. QED
  BY <1>1, <1>2, <1>3, <1>4, ReadMoves DEF NlGated

\* The credit gate: a fragment goes out on the one credit there is.
LEMMA NlGateRound == ASSUME NlInv, GateRound PROVE NlInv'
<1>1. NlTypes /\ NlGated /\ xl.at = "gate" /\ xl.got = <<>>
  BY DEF NlInv, GateRound
<1>2. CASE Quiet /\ xl' = SpendRound(xl) /\ UNCHANGED <<nfcc, line>>
  <2>1. NlTypes'
    BY <1>1, <1>2, RoundSpent DEF NlTypes
  <2>2. NlGated'
    BY <1>1, <1>2, RoundSpent DEF NlGated
  <2>3. QED
    BY <1>1, <1>2, <2>1, <2>2, RoundSpent DEF NlInv
<1>3. CASE ~Quiet /\ Grants(Frame) /\ Read /\ xl' = SendFragment(xl) /\ nfcc' = Take(nfcc)
  <2>1. line # <<>> /\ Head(line) = Credit /\ line' = Tail(line) /\ line \in Seq(NlFrame)
    BY <1>1, <1>3 DEF Quiet, Grants, Frame, Read, NlTypes
  <2>2. LiveCredit(line, 1)
    BY <2>1, ReadMoves, FrameKinds DEF LiveCredit
  <2>3. nfcc.credits = 1 /\ nfcc.owed = 0
    BY <1>1, <2>1, <2>2, ReadMoves, FrameKinds DEF NlGated, NlTypes
  <2>4. nfcc' = [credits |-> 0, owed |-> 1, taken |-> nfcc.taken + 1, want |-> nfcc.want,
                 segs |-> nfcc.segs, said |-> nfcc.said, churn |-> nfcc.churn]
    <3>1. nfcc.credits - 1 = 0 /\ nfcc.owed + 1 = 1
      BY <2>3
    <3>2. PICK t : t = nfcc.taken + 1
      OBVIOUS
    <3>3. nfcc' = [nfcc EXCEPT !.credits = 0, !.owed = 1, !.taken = t]
      BY <1>3, <3>1, <3>2, Zenon DEF Take
    <3>4. QED
      BY <1>1, <3>2, <3>3 DEF NlTypes
  <2>5. xl' = [at |-> IF xl.sent + 1 = xl.n THEN "collect" ELSE "gate", x |-> xl.x, n |-> xl.n,
               sent |-> xl.sent + 1, budget |-> xl.budget, got |-> <<>>]
    <3>1. PICK t, a : t = xl.sent + 1 /\ a = IF xl.sent + 1 = xl.n THEN "collect" ELSE "gate"
      OBVIOUS
    <3>2. xl' = [xl EXCEPT !.sent = t, !.at = a]
      BY <1>3, <3>1, Zenon DEF SendFragment
    <3>3. QED
      BY <1>1, <3>1, <3>2 DEF NlTypes
  <2>6. NlTypes'
    <3>1. xl' \in [at : {"idle", "gate", "collect", "data", "timeout", "lost"}, x : Nat, n : Int,
                   sent : Int, budget : Int, got : Seq(Nat \X Nat)]
      BY <1>1, <2>5, EmptySeq DEF NlTypes
    <3>2. QED
      BY <1>1, <2>1, <2>4, <3>1, ReadMoves, FrameKinds DEF NlTypes
  <2>7. \A p \in 1..Len(line') : ~LiveData(line', p) /\ ~LiveCredit(line', p)
    <3> SUFFICES ASSUME NEW p \in 1..Len(line') PROVE ~LiveData(line', p) /\ ~LiveCredit(line', p)
      OBVIOUS
    <3>1. ~LiveData(line, p + 1)
      BY <1>1, <2>1, ReadMoves, FrameKinds DEF NlGated
    <3>2. ~LiveCredit(line, p + 1)
      <4>1. p + 1 # 1 /\ p + 1 \in 1..Len(line) /\ 1 \in 1..Len(line)
        BY <2>1, ReadMoves, FrameKinds
      <4>2. QED
        BY <1>1, <2>2, <4>1 DEF NlGated
    <3>3. QED
      BY <2>1, <3>1, <3>2, ReadMoves, FrameKinds
  <2>8. xl'.at = "gate" => NlGated'
    <3>1. xl.sent + 1 # xl.n => xl.sent + 1 < xl.n
      BY <1>1 DEF NlGated, NlTypes
    <3>2. QED
      BY <1>1, <2>4, <2>5, <2>7, <3>1 DEF NlGated
  <2>9. NlCollecting'
    BY <1>1, <2>4, <2>5, <2>7 DEF NlCollecting, NlGated
  <2>10. QED
    BY <2>5, <2>6, <2>8, <2>9 DEF NlInv
<1>4. CASE ~Quiet /\ Grants(Frame) /\ Read /\ xl' = [xl EXCEPT !.at = "timeout"] /\ UNCHANGED nfcc
  BY <1>1, <1>4, HeadTailProperties DEF NlInv, NlTypes, Quiet, Read
<1>5. CASE ~Quiet /\ Frame = Lost /\ xl' = [xl EXCEPT !.at = "lost"] /\ Read /\ UNCHANGED nfcc
  BY <1>1, <1>5, HeadTailProperties DEF NlInv, NlTypes, Quiet, Read
<1>6. CASE ~Quiet /\ ~Grants(Frame) /\ Frame # Lost /\ xl' = SpendRound(xl) /\ Read /\ UNCHANGED nfcc
  <2>1. line # <<>> /\ Head(line) # Lost /\ line' = Tail(line) /\ line \in Seq(NlFrame)
    BY <1>1, <1>6 DEF Quiet, Frame, Read, NlTypes
  <2>2. NlGated'
    BY <1>1, <1>6, <2>1, RoundSpent, GatedKept
  <2>3. NlTypes'
    BY <1>1, <1>6, <2>1, RoundSpent, ReadMoves DEF NlTypes
  <2>4. QED
    BY <1>1, <1>6, <2>2, <2>3, RoundSpent DEF NlInv
<1>7. QED
  BY <1>2, <1>3, <1>4, <1>5, <1>6, Zenon DEF GateRound

\* A frame read in the collection that is not a segment.
LEMMA CollectingKept ==
    ASSUME NlTypes, NlCollecting, line # <<>>, Head(line) \in {Credit, Wtx}, line' = Tail(line),
           UNCHANGED nfcc, xl'.x = xl.x, xl'.got = xl.got
    PROVE  NlCollecting'
<1> USE DEF NlCollecting
<1>1. line \in Seq(NlFrame) /\ Head(line) # Lost /\ Head(line).k # "data"
  BY FrameKinds DEF NlTypes
<1>n. ~LiveData(line, 1)
  BY <1>1, ReadMoves DEF LiveData
<1>l. Len(line) \in Nat /\ Len(line') = Len(line) - 1 /\ \A p \in 1..Len(line') : p + 1 \in 1..Len(line)
  BY <1>1, ReadMoves
<1>2. ASSUME NEW p \in 1..Len(line'), LiveData(line', p)
      PROVE  /\ line'[p].x = xl'.x /\ Len(xl'.got) < line'[p].i /\ line'[p].i <= nfcc'.said
             /\ ~line'[p].pbf => line'[p].i = nfcc'.segs
             /\ nfcc'.credits = 1 /\ nfcc'.owed = 0
  <2>1. LiveData(line, p + 1) /\ line'[p] = line[p + 1] /\ p + 1 \in 1..Len(line)
    BY <1>1, <1>2, ReadMoves
  <2>2. QED
    BY <2>1
<1>3. ASSUME NEW p \in 1..Len(line'), LiveData(line', p), line'[p].i > Len(xl'.got) + 1
      PROVE  \E q \in 1..(p - 1) : LiveData(line', q) /\ line'[q].i = line'[p].i - 1
  <2>1. LiveData(line, p + 1) /\ line'[p] = line[p + 1] /\ p + 1 \in 1..Len(line)
    BY <1>1, <1>3, ReadMoves
  <2>2. PICK q \in 1..((p + 1) - 1) : LiveData(line, q) /\ line[q].i = line[p + 1].i - 1
    BY <1>3, <2>1
  <2>3. q # 1
    BY <1>n, <2>2
  <2>4. q - 1 \in 1..(p - 1) /\ q - 1 \in 1..Len(line') /\ (q - 1) + 1 = q
    BY <1>l, <2>3
  <2>5. LiveData(line', q - 1) /\ line'[q - 1] = line[q]
    BY <1>1, <2>2, <2>4, ReadMoves
  <2>6. QED
    BY <2>1, <2>2, <2>4, <2>5
<1>4. ASSUME NEW p \in 1..Len(line'), NEW q \in 1..Len(line'), p < q, LiveData(line', p)
      PROVE  ~LiveCredit(line', q) /\ (LiveData(line', q) => line'[p].i < line'[q].i)
  <2>1. /\ LiveData(line, p + 1) /\ line'[p] = line[p + 1] /\ p + 1 \in 1..Len(line)
        /\ line'[q] = line[q + 1] /\ q + 1 \in 1..Len(line)
        /\ LiveData(line', q) => LiveData(line, q + 1)
        /\ LiveCredit(line', q) => LiveCredit(line, q + 1)
    BY <1>1, <1>4, ReadMoves
  <2>2. p + 1 < q + 1
    BY <1>4, <1>l
  <2>3. QED
    BY <2>1, <2>2
<1>5. ASSUME Unbroken(line') PROVE nfcc'.credits + nfcc'.owed = 1 /\ Len(xl'.got) <= nfcc'.said
  BY <1>1, <1>5, ReadMoves
<1>6. ASSUME Unbroken(line'), nfcc'.said > Len(xl'.got)
      PROVE  \E p \in 1..Len(line') : LiveData(line', p) /\ line'[p].i = nfcc'.said
  <2>1. Unbroken(line)
    BY <1>1, <1>6, ReadMoves
  <2>2. PICK q \in 1..Len(line) : LiveData(line, q) /\ line[q].i = nfcc.said
    BY <1>6, <2>1
  <2>3. q # 1
    BY <1>n, <2>2
  <2>4. q - 1 \in 1..Len(line') /\ (q - 1) + 1 = q
    BY <1>l, <2>3
  <2>5. LiveData(line', q - 1) /\ line'[q - 1] = line[q]
    BY <1>1, <2>2, <2>4, ReadMoves
  <2>6. QED
    BY <2>2, <2>4, <2>5
<1>7. xl'.got = [i \in 1..Len(xl'.got) |-> <<xl'.x, i>>]
  OBVIOUS
<1>8. QED
  BY <1>2, <1>3, <1>4, <1>5, <1>6, <1>7

\* A segment read: it is the next one, and it goes to the end of the response.
LEMMA NlSegment ==
    ASSUME NlInv, xl.at = "collect", line # <<>>, Head(line).k = "data", xl' = Collected(xl, Head(line)),
           line' = Tail(line), UNCHANGED nfcc
    PROVE  NlInv'
<1>f. PICK f : f = Head(line)
  OBVIOUS
<1>g. PICK m : m = Len(xl.got)
  OBVIOUS
<1>1. NlTypes /\ NlCollecting /\ line \in Seq(NlFrame)
  BY DEF NlInv, NlTypes
<1>2. f \in NlFrame /\ f # Lost /\ f = line[1] /\ LiveData(line, 1) /\ 1 \in 1..Len(line)
      /\ f.x \in Nat /\ f.i \in Nat /\ f.pbf \in BOOLEAN
  BY <1>1, <1>f, FrameKinds, ReadMoves, HeadTailProperties DEF LiveData
<1>m. m \in Nat /\ xl.got \in Seq(Nat \X Nat)
  BY <1>1, <1>g, LenProperties DEF NlTypes
<1>3. /\ f.x = xl.x /\ m < f.i /\ f.i <= nfcc.said /\ (~f.pbf => f.i = nfcc.segs)
      /\ nfcc.credits = 1 /\ nfcc.owed = 0
  BY <1>1, <1>2, <1>g DEF NlCollecting
<1>4. f.i = m + 1
  <2> SUFFICES ASSUME f.i > m + 1 PROVE FALSE
    BY <1>2, <1>3, <1>m
  <2>1. \E q \in 1..(1 - 1) : LiveData(line, q) /\ line[q].i = line[1].i - 1
    BY <1>1, <1>2, <1>g DEF NlCollecting
  <2>2. QED
    BY <2>1
<1>r. /\ line' \in Seq(NlFrame) /\ Len(line') = Len(line) - 1 /\ Len(line) \in Nat
      /\ \A p \in 1..Len(line') : /\ p + 1 \in 1..Len(line) /\ line'[p] = line[p + 1]
                                  /\ LiveData(line', p) <=> LiveData(line, p + 1)
                                  /\ LiveCredit(line', p) <=> LiveCredit(line, p + 1)
                                  /\ Live(line', p) <=> Live(line, p + 1)
      /\ Unbroken(line') <=> Unbroken(line)
  BY <1>1, <1>2, <1>f, ReadMoves
<1>5. CASE m = Capacity
  <2>1. xl' = [xl EXCEPT !.at = "timeout"]
    BY <1>5, <1>f, <1>g, Zenon DEF Collected
  <2>2. QED
    BY <1>1, <1>r, <2>1 DEF NlInv, NlTypes
<1>6. CASE m # Capacity
  <2>g. PICK g : g = Append(xl.got, <<xl.x, m + 1>>)
    OBVIOUS
  <2>1. /\ g \in Seq(Nat \X Nat) /\ Len(g) = m + 1
        /\ g = [i \in 1..Len(g) |-> <<xl.x, i>>]
    <3>1. <<xl.x, m + 1>> \in Nat \X Nat
      BY <1>1, <1>m, SMTT(20) DEF NlTypes
    <3>2. g \in Seq(Nat \X Nat) /\ Len(g) = m + 1 /\ g[m + 1] = <<xl.x, m + 1>>
          /\ \A i \in 1..m : g[i] = xl.got[i]
      BY <1>m, <1>g, <2>g, <3>1, AppendProperties
    <3>3. \A i \in 1..m : xl.got[i] = <<xl.x, i>>
      BY <1>1, <1>g DEF NlCollecting
    <3>4. g = [i \in 1..Len(g) |-> g[i]]
      BY <3>2, LenProperties
    <3>5. \A i \in 1..(m + 1) : i \in 1..m \/ i = m + 1
      BY <1>m
    <3>6. \A i \in 1..(m + 1) : g[i] = <<xl.x, i>>
      BY <3>2, <3>3, <3>5, Zenon
    <3>7. QED
      BY <3>2, <3>4, <3>6
  <2>2. PICK a \in {"collect", "timeout", "data"}, b \in Int :
           /\ xl' = [at |-> a, x |-> xl.x, n |-> xl.n, sent |-> xl.sent, budget |-> b, got |-> g]
           /\ f.pbf => a # "data"
           /\ ~f.pbf => a = "data"
    <3>1. PICK h : h = [xl EXCEPT !.got = Append(@, <<f.x, f.i>>)]
      OBVIOUS
    <3>2. h = [at |-> "collect", x |-> xl.x, n |-> xl.n, sent |-> xl.sent, budget |-> xl.budget, got |-> g]
      BY <1>1, <1>3, <1>4, <2>g, <3>1 DEF NlTypes
    <3>3. xl' = IF f.pbf THEN SpendRound(h) ELSE [h EXCEPT !.at = "data"]
      BY <1>6, <1>f, <1>g, <3>1, Zenon DEF Collected
    <3>4. CASE ~f.pbf
      <4>1. xl' = [at |-> "data", x |-> xl.x, n |-> xl.n, sent |-> xl.sent, budget |-> xl.budget, got |-> g]
        BY <3>2, <3>3, <3>4
      <4>2. xl.budget \in Int
        BY <1>1 DEF NlTypes
      <4>3. QED
        BY <3>4, <4>1, <4>2
    <3>5. CASE f.pbf
      <4>1. PICK a1, b1 : a1 = (IF h.budget = 1 THEN "timeout" ELSE h.at) /\ b1 = h.budget - 1
        OBVIOUS
      <4>2. xl' = [h EXCEPT !.budget = b1, !.at = a1]
        BY <3>3, <3>5, <4>1, Zenon DEF SpendRound
      <4>3. h.at = "collect" /\ h.budget = xl.budget
        BY <3>2
      <4>4. a1 \in {"collect", "timeout"} /\ b1 \in Int
        BY <1>1, <4>1, <4>3 DEF NlTypes
      <4>5. xl' = [at |-> a1, x |-> xl.x, n |-> xl.n, sent |-> xl.sent, budget |-> b1, got |-> g]
        BY <3>2, <4>2
      <4>6. QED
        BY <3>5, <4>4, <4>5
    <3>6. QED
      BY <3>4, <3>5
  <2>3. NlTypes'
    <3>1. xl' \in [at : {"idle", "gate", "collect", "data", "timeout", "lost"}, x : Nat, n : Int,
                   sent : Int, budget : Int, got : Seq(Nat \X Nat)]
      <4>1. xl.x \in Nat /\ xl.n \in Int /\ xl.sent \in Int
        BY <1>1 DEF NlTypes
      <4>2. QED
        BY <2>1, <2>2, <4>1
    <3>2. QED
      BY <1>1, <1>r, <3>1 DEF NlTypes
  <2>4. xl'.got = g /\ xl'.x = xl.x
    BY <2>2
  <2>5. NlCollecting'
    <3>1. ASSUME NEW p \in 1..Len(line'), LiveData(line', p)
          PROVE  /\ line'[p].x = xl.x /\ m + 1 < line'[p].i /\ line'[p].i <= nfcc.said
                 /\ ~line'[p].pbf => line'[p].i = nfcc.segs
      <4>1. LiveData(line, p + 1) /\ line'[p] = line[p + 1] /\ p + 1 \in 1..Len(line) /\ 1 < p + 1
        BY <1>r, <3>1
      <4>2. line[1].i < line[p + 1].i
        BY <1>1, <1>2, <4>1 DEF NlCollecting
      <4>3. /\ line[p + 1].x = xl.x /\ line[p + 1].i <= nfcc.said
            /\ ~line[p + 1].pbf => line[p + 1].i = nfcc.segs
        BY <1>1, <4>1 DEF NlCollecting
      <4>4. QED
        BY <1>2, <1>4, <4>1, <4>2, <4>3
    <3>2. ASSUME NEW p \in 1..Len(line'), LiveData(line', p), line'[p].i > (m + 1) + 1
          PROVE  \E q \in 1..(p - 1) : LiveData(line', q) /\ line'[q].i = line'[p].i - 1
      <4>1. LiveData(line, p + 1) /\ line'[p] = line[p + 1] /\ p + 1 \in 1..Len(line)
        BY <1>r, <3>2
      <4>2. line[p + 1].i \in Nat
        BY <1>1, <4>1, FrameKinds DEF LiveData
      <4>3. line[p + 1].i > Len(xl.got) + 1
        BY <1>m, <1>g, <3>2, <4>1, <4>2
      <4>4. PICK q \in 1..((p + 1) - 1) : LiveData(line, q) /\ line[q].i = line[p + 1].i - 1
        BY <1>1, <4>1, <4>3 DEF NlCollecting
      <4>5. q # 1
        BY <1>2, <1>4, <1>m, <3>2, <4>1, <4>2, <4>4
      <4>6. q - 1 \in 1..(p - 1) /\ q - 1 \in 1..Len(line') /\ (q - 1) + 1 = q
        BY <1>r, <4>5
      <4>7. LiveData(line', q - 1) /\ line'[q - 1] = line[q]
        BY <1>r, <4>4, <4>6
      <4>8. QED
        BY <4>1, <4>4, <4>6, <4>7
    <3>3. ASSUME NEW p \in 1..Len(line'), NEW q \in 1..Len(line'), p < q, LiveData(line', p)
          PROVE  ~LiveCredit(line', q) /\ (LiveData(line', q) => line'[p].i < line'[q].i)
      <4>1. /\ LiveData(line, p + 1) /\ line'[p] = line[p + 1] /\ p + 1 \in 1..Len(line)
            /\ line'[q] = line[q + 1] /\ q + 1 \in 1..Len(line)
            /\ LiveData(line', q) => LiveData(line, q + 1)
            /\ LiveCredit(line', q) => LiveCredit(line, q + 1)
        BY <1>r, <3>3
      <4>2. p + 1 < q + 1
        BY <1>r, <3>3
      <4>3. QED
        BY <1>1, <4>1, <4>2 DEF NlCollecting
    <3>4. m + 1 <= nfcc.said
      BY <1>3, <1>4
    <3>5. ASSUME Unbroken(line') PROVE nfcc.credits + nfcc.owed = 1
      BY <1>3
    <3>6. ASSUME Unbroken(line'), nfcc.said > m + 1
          PROVE  \E p \in 1..Len(line') : LiveData(line', p) /\ line'[p].i = nfcc.said
      <4>1. Unbroken(line) /\ nfcc.said > Len(xl.got)
        BY <1>1, <1>r, <1>m, <1>g, <3>6 DEF NlTypes
      <4>2. PICK q \in 1..Len(line) : LiveData(line, q) /\ line[q].i = nfcc.said
        BY <1>1, <4>1 DEF NlCollecting
      <4>3. q # 1
        BY <1>1, <1>2, <1>4, <1>m, <3>6, <4>2 DEF NlTypes
      <4>4. q - 1 \in 1..Len(line') /\ (q - 1) + 1 = q
        BY <1>r, <4>3
      <4>5. LiveData(line', q - 1) /\ line'[q - 1] = line[q]
        BY <1>r, <4>2, <4>4
      <4>6. QED
        BY <4>2, <4>4, <4>5
    <3>7. nfcc' = nfcc /\ Len(xl'.got) = m + 1 /\ nfcc.credits = 1 /\ nfcc.owed = 0
      BY <1>3, <2>1, <2>4
    <3>8. xl'.got = [i \in 1..Len(xl'.got) |-> <<xl'.x, i>>]
      BY <2>1, <2>4
    <3>9. /\ nfcc'.said = nfcc.said /\ nfcc'.segs = nfcc.segs /\ nfcc'.credits = 1 /\ nfcc'.owed = 0
          /\ xl'.x = xl.x
      BY <2>4, <3>7
    <3>10. \A p \in 1..Len(line') : LiveData(line', p) =>
             /\ line'[p].x = xl'.x /\ Len(xl'.got) < line'[p].i /\ line'[p].i <= nfcc'.said
             /\ ~line'[p].pbf => line'[p].i = nfcc'.segs
             /\ nfcc'.credits = 1 /\ nfcc'.owed = 0
             /\ line'[p].i > Len(xl'.got) + 1 =>
                   \E q \in 1..(p - 1) : LiveData(line', q) /\ line'[q].i = line'[p].i - 1
      BY <3>1, <3>2, <3>7, <3>9
    <3>11. Unbroken(line') =>
             /\ nfcc'.credits + nfcc'.owed = 1
             /\ Len(xl'.got) <= nfcc'.said
             /\ nfcc'.said > Len(xl'.got) =>
                   \E p \in 1..Len(line') : LiveData(line', p) /\ line'[p].i = nfcc'.said
      BY <3>4, <3>6, <3>7, <3>9
    <3>12. QED
      BY <3>3, <3>8, <3>10, <3>11 DEF NlCollecting
  <2>6. ASSUME ~f.pbf PROVE NlRested' /\ xl'.got = [i \in 1..nfcc'.segs |-> <<xl'.x, i>>]
    <3>1. nfcc.segs = m + 1 /\ nfcc.said = nfcc.segs
      BY <1>1, <1>3, <1>4, <2>6 DEF NlTypes
    <3>2. ASSUME NEW p \in 1..Len(line'), Live(line', p) PROVE line'[p] = Wtx
      <4>1. Live(line, p + 1) /\ line'[p] = line[p + 1] /\ p + 1 \in 1..Len(line) /\ 1 < p + 1
        BY <1>r, <3>2
      <4>2. ~LiveCredit(line, p + 1)
        BY <1>1, <1>2, <4>1 DEF NlCollecting
      <4>3. ~LiveData(line, p + 1)
        <5> SUFFICES ASSUME LiveData(line, p + 1) PROVE FALSE
          OBVIOUS
        <5>1. line[1].i < line[p + 1].i /\ line[p + 1].i <= nfcc.said
          BY <1>1, <1>2, <4>1 DEF NlCollecting
        <5>2. line[p + 1].i \in Nat
          BY <1>1, <4>1, FrameKinds DEF LiveData
        <5>3. QED
          BY <1>2, <1>4, <1>m, <3>1, <5>1, <5>2
      <4>4. line[p + 1] # Lost /\ line[p + 1] \in NlFrame
        BY <1>1, <4>1 DEF Live
      <4>5. QED
        BY <4>1, <4>2, <4>3, <4>4, FrameKinds DEF LiveCredit, LiveData
    <3>3. NlRested'
      BY <1>3, <3>1, <3>2 DEF NlRested
    <3>4. nfcc'.segs = nfcc.segs
      BY <1>1
    <3>5. nfcc'.segs = m + 1
      BY <3>1, <3>4
    <3>6. Len(g) = nfcc'.segs
      BY <2>1, <3>5
    <3>7. g = [i \in 1..nfcc'.segs |-> <<xl.x, i>>]
      BY <2>1, <3>6, Zenon
    <3>8. xl'.got = [i \in 1..nfcc'.segs |-> <<xl'.x, i>>]
      BY <2>4, <3>7, Zenon
    <3>9. QED
      BY <3>3, <3>8
  <2>7. xl'.at \in {"collect", "timeout", "data"} /\ (xl'.at = "data" => ~f.pbf)
    BY <1>2, <2>2
  <2>8. QED
    BY <2>3, <2>5, <2>6, <2>7 DEF NlInv
<1>7. QED
  BY <1>5, <1>6

\* The rounds of the collection.
LEMMA NlCollectRound == ASSUME NlInv, CollectRound PROVE NlInv'
<1>1. NlTypes /\ NlCollecting /\ xl.at = "collect" /\ UNCHANGED nfcc
  BY DEF NlInv, CollectRound
<1>2. CASE Quiet /\ xl' = SpendRound(xl) /\ UNCHANGED line
  <2>1. NlTypes'
    BY <1>1, <1>2, RoundSpent DEF NlTypes
  <2>2. NlCollecting'
    BY <1>1, <1>2, RoundSpent DEF NlCollecting
  <2>3. QED
    BY <1>1, <1>2, <2>1, <2>2, RoundSpent DEF NlInv
<1>3. CASE ~Quiet /\ Frame.k = "data" /\ xl' = Collected(xl, Frame) /\ Read
  BY <1>1, <1>3, NlSegment DEF Quiet, Frame, Read
<1>4. CASE ~Quiet /\ Frame = Lost /\ xl' = [xl EXCEPT !.at = "lost"] /\ Read
  BY <1>1, <1>4, HeadTailProperties DEF NlInv, NlTypes, Quiet, Read
<1>5. CASE ~Quiet /\ Frame.k \in {"credit", "wtx"} /\ xl' = SpendRound(xl) /\ Read
  <2>1. line # <<>> /\ line' = Tail(line) /\ line \in Seq(NlFrame) /\ Head(line) \in NlFrame
    BY <1>1, <1>5, HeadTailProperties DEF Quiet, Read, NlTypes
  <2>2. Head(line) \in {Credit, Wtx} /\ Head(line) # Lost
    BY <1>5, <2>1, FrameKinds DEF Frame
  <2>3. NlCollecting'
    BY <1>1, <1>5, <2>1, <2>2, RoundSpent, CollectingKept
  <2>4. NlTypes'
    BY <1>1, <1>5, <2>1, <2>2, RoundSpent, ReadMoves DEF NlTypes
  <2>5. QED
    BY <1>1, <1>5, <2>3, <2>4, RoundSpent DEF NlInv
<1>6. QED
  BY <1>2, <1>3, <1>4, <1>5, Zenon DEF CollectRound

\* A write that fails, and the end of an exchange.
LEMMA NlEnds == ASSUME NlInv, WriteFails \/ Settle PROVE NlInv'
<1>t. NlTypes
  BY DEF NlInv
<1>1. CASE WriteFails
  <2>1. xl' = [at |-> "timeout", x |-> xl.x + 1, n |-> xl.n, sent |-> xl.sent, budget |-> xl.budget,
               got |-> <<>>]
    <3>1. PICK y : y = xl.x + 1
      OBVIOUS
    <3>2. xl' = [xl EXCEPT !.at = "timeout", !.x = y, !.got = <<>>]
      BY <1>1, <3>1, Zenon DEF WriteFails
    <3>3. QED
      BY <1>t, <3>1, <3>2 DEF NlTypes
  <2>2. xl' \in [at : {"idle", "gate", "collect", "data", "timeout", "lost"}, x : Nat, n : Int,
                 sent : Int, budget : Int, got : Seq(Nat \X Nat)]
    BY <1>t, <2>1, EmptySeq DEF NlTypes
  <2>3. QED
    BY <1>1, <1>t, <2>1, <2>2 DEF NlInv, NlTypes, WriteFails
<1>2. CASE Settle
  <2>1. xl' \in [at : {"idle"}, x : Nat, n : Int, sent : Int, budget : Int, got : Seq(Nat \X Nat)]
    BY <1>2, <1>t, EmptySeq DEF Settle, NlTypes
  <2>2. CASE xl.at = "data"
    <3>1. nfcc' = nfcc /\ line' = line
      BY <1>2, <2>2 DEF Settle, Settled
    <3>2. NlRested
      BY <2>2 DEF NlInv
    <3>3. QED
      BY <1>t, <2>1, <3>1, <3>2 DEF NlInv, NlTypes, NlRested
  <2>3. CASE xl.at # "data"
    <3>1. nfcc' = Interface /\ line' = <<>>
      BY <1>2, <2>3 DEF Settle, Settled
    <3>2. NlRested'
      BY <3>1 DEF NlRested, Interface
    <3>3. line' \in Seq(NlFrame)
      BY <3>1, EmptySeq
    <3>4. NlTypes'
      BY <2>1, <3>1, <3>3 DEF NlTypes, Interface
    <3>5. QED
      BY <2>1, <3>2, <3>4 DEF NlInv
  <2>4. QED
    BY <2>2, <2>3
<1>3. QED
  BY <1>1, <1>2

\* One frame is added.
LEMMA AppendMoves ==
    ASSUME line \in Seq(NlFrame), NEW f \in NlFrame, line' = Append(line, f)
    PROVE  /\ line' \in Seq(NlFrame) /\ Len(line') = Len(line) + 1 /\ Len(line) \in Nat
           /\ line'[Len(line) + 1] = f
           /\ \A p \in 1..Len(line) : /\ line'[p] = line[p] /\ p \in 1..Len(line')
                                      /\ LiveData(line', p) <=> LiveData(line, p)
                                      /\ LiveCredit(line', p) <=> LiveCredit(line, p)
           /\ \A p \in 1..Len(line') : p \in 1..Len(line) \/ p = Len(line) + 1
           /\ LiveData(line', Len(line) + 1) <=> f.k = "data" /\ f # Lost /\ Unbroken(line)
           /\ LiveCredit(line', Len(line) + 1) <=> f = Credit /\ Unbroken(line)
           /\ Unbroken(line') <=> f # Lost /\ Unbroken(line)
<1>1. /\ line' \in Seq(NlFrame) /\ Len(line') = Len(line) + 1 /\ Len(line) \in Nat
      /\ \A p \in 1..Len(line) : line'[p] = line[p] /\ (Live(line', p) <=> Live(line, p))
      /\ line'[Len(line) + 1] = f
      /\ Live(line', Len(line) + 1) <=> f # Lost /\ Unbroken(line)
      /\ Unbroken(line') <=> f # Lost /\ Unbroken(line)
  BY LiveAppend
<1>2. \A p \in 1..Len(line') : p \in 1..Len(line) \/ p = Len(line) + 1
  BY <1>1
<1>3. QED
  BY <1>1, <1>2, FrameKinds DEF LiveData, LiveCredit

\* The controller says something that is no segment: a credit it owes, a
\* waiting-time notice, or that the tag is lost.
Says(f) ==
    /\ UNCHANGED xl /\ line' = Append(line, f) /\ f \in {Credit, Wtx, Lost}
    /\ nfcc'.said = nfcc.said /\ nfcc'.segs \in {nfcc.segs, nfcc.said}
    /\ nfcc'.taken = nfcc.taken /\ nfcc'.want = nfcc.want
    /\ \/ f # Credit /\ nfcc'.credits = nfcc.credits /\ nfcc'.owed \in {nfcc.owed, 0}
       \/ f = Credit /\ nfcc.owed = 1 /\ nfcc.credits = 0 /\ nfcc'.credits = 1 /\ nfcc'.owed = 0
    /\ f # Lost => nfcc'.owed + nfcc'.credits = nfcc.owed + nfcc.credits

\* While fragments are sent, what the controller says leaves the gate sound.
LEMMA SaysGated == ASSUME NlTypes, NlGated, NEW f, Says(f) PROVE NlGated'
<1>t. /\ line \in Seq(NlFrame) /\ f \in NlFrame /\ line' = Append(line, f) /\ f.k # "data"
      /\ nfcc.credits \in 0..1 /\ nfcc.owed \in 0..1
  BY FrameKinds DEF Says, NlTypes
<1>m. /\ Len(line') = Len(line) + 1 /\ Len(line) \in Nat
      /\ \A p \in 1..Len(line) : /\ LiveData(line', p) <=> LiveData(line, p)
                                 /\ LiveCredit(line', p) <=> LiveCredit(line, p)
      /\ \A p \in 1..Len(line') : p \in 1..Len(line) \/ p = Len(line) + 1
      /\ ~LiveData(line', Len(line) + 1)
      /\ LiveCredit(line', Len(line) + 1) => f = Credit
      /\ Unbroken(line') => f # Lost /\ Unbroken(line)
  BY <1>t, AppendMoves
<1>1. /\ nfcc'.taken = xl'.sent /\ xl'.sent < xl'.n /\ nfcc'.want = xl'.n /\ nfcc'.said = 0
  BY DEF NlGated, Says
<1>2. \A p \in 1..Len(line') : ~LiveData(line', p)
  BY <1>m DEF NlGated
<1>3. f = Credit => \A p \in 1..Len(line) : ~LiveCredit(line, p)
  BY FrameKinds DEF NlGated, Says
<1>4. \A p \in 1..Len(line') : LiveCredit(line', p) => nfcc'.credits = 1
  <2> SUFFICES ASSUME NEW p \in 1..Len(line'), LiveCredit(line', p) PROVE nfcc'.credits = 1
    OBVIOUS
  <2>1. CASE f = Credit
    BY <2>1 DEF Says
  <2>2. CASE f # Credit
    <3>1. p \in 1..Len(line) /\ LiveCredit(line, p)
      BY <1>m, <2>2
    <3>2. QED
      BY <2>2, <3>1 DEF NlGated, Says
  <2>3. QED
    BY <2>1, <2>2
<1>5. \A p, q \in 1..Len(line') : LiveCredit(line', p) /\ LiveCredit(line', q) => p = q
  <2> SUFFICES ASSUME NEW p \in 1..Len(line'), NEW q \in 1..Len(line'), LiveCredit(line', p),
                      LiveCredit(line', q)
               PROVE  p = q
    OBVIOUS
  <2>1. CASE f = Credit
    BY <1>m, <1>3, <2>1
  <2>2. CASE f # Credit
    BY <1>m, <2>2 DEF NlGated
  <2>3. QED
    BY <2>1, <2>2
<1>6. Unbroken(line') => nfcc'.credits + nfcc'.owed = 1
  <2> SUFFICES ASSUME Unbroken(line') PROVE nfcc'.credits + nfcc'.owed = 1
    OBVIOUS
  <2>1. nfcc.credits + nfcc.owed = 1 /\ nfcc'.owed + nfcc'.credits = nfcc.owed + nfcc.credits
    BY <1>m DEF NlGated, Says
  <2>2. nfcc'.owed \in 0..1 /\ nfcc'.credits \in 0..1
    BY <1>t DEF Says
  <2>3. QED
    BY <1>t, <2>1, <2>2
<1>7. QED
  BY <1>1, <1>2, <1>4, <1>5, <1>6 DEF NlGated

\* While the answer is collected, so does what it says besides segments.
LEMMA SaysCollecting == ASSUME NlTypes, NlCollecting, NEW f, Says(f) PROVE NlCollecting'
<1>t. /\ line \in Seq(NlFrame) /\ f \in NlFrame /\ line' = Append(line, f) /\ f.k # "data"
      /\ nfcc.credits \in 0..1 /\ nfcc.owed \in 0..1 /\ nfcc.said \in Nat /\ nfcc.segs \in Int
      /\ nfcc.said <= nfcc.segs
  BY FrameKinds DEF Says, NlTypes
<1>m. /\ Len(line') = Len(line) + 1 /\ Len(line) \in Nat
      /\ \A p \in 1..Len(line) : /\ p \in 1..Len(line') /\ line'[p] = line[p]
                                 /\ LiveData(line', p) <=> LiveData(line, p)
                                 /\ LiveCredit(line', p) <=> LiveCredit(line, p)
      /\ \A p \in 1..Len(line') : p \in 1..Len(line) \/ p = Len(line) + 1
      /\ ~LiveData(line', Len(line) + 1)
      /\ LiveCredit(line', Len(line) + 1) => f = Credit
      /\ Unbroken(line') => f # Lost /\ Unbroken(line)
  BY <1>t, AppendMoves
<1>x. xl' = xl /\ nfcc'.said = nfcc.said
  BY DEF Says
<1>1. ASSUME NEW p \in 1..Len(line'), LiveData(line', p)
      PROVE  /\ line'[p].x = xl'.x /\ Len(xl'.got) < line'[p].i /\ line'[p].i <= nfcc'.said
             /\ ~line'[p].pbf => line'[p].i = nfcc'.segs
             /\ nfcc'.credits = 1 /\ nfcc'.owed = 0
             /\ line'[p].i > Len(xl'.got) + 1 =>
                   \E q \in 1..(p - 1) : LiveData(line', q) /\ line'[q].i = line'[p].i - 1
  <2>1. p \in 1..Len(line) /\ LiveData(line, p) /\ line'[p] = line[p]
    BY <1>1, <1>m
  <2>2. /\ line[p].x = xl.x /\ Len(xl.got) < line[p].i /\ line[p].i <= nfcc.said
        /\ ~line[p].pbf => line[p].i = nfcc.segs
        /\ nfcc.credits = 1 /\ nfcc.owed = 0
    BY <2>1 DEF NlCollecting
  <2>3. f # Credit /\ nfcc'.credits = 1 /\ nfcc'.owed = 0
    BY <2>2 DEF Says
  <2>4. line[p].i \in Nat
    BY <1>t, <2>1, FrameKinds DEF LiveData
  <2>5. ~line[p].pbf => line[p].i = nfcc'.segs
    BY <1>t, <2>2, <2>4 DEF Says
  <2>6. ASSUME line[p].i > Len(xl.got) + 1
        PROVE  \E q \in 1..(p - 1) : LiveData(line', q) /\ line'[q].i = line[p].i - 1
    <3>1. PICK q \in 1..(p - 1) : LiveData(line, q) /\ line[q].i = line[p].i - 1
      BY <2>1, <2>6 DEF NlCollecting
    <3>2. q \in 1..Len(line)
      BY <1>m, <2>1
    <3>3. QED
      BY <1>m, <3>1, <3>2
  <2>7. QED
    BY <1>x, <2>1, <2>2, <2>3, <2>5, <2>6
<1>2. ASSUME NEW p \in 1..Len(line'), NEW q \in 1..Len(line'), p < q, LiveData(line', p)
      PROVE  ~LiveCredit(line', q) /\ (LiveData(line', q) => line'[p].i < line'[q].i)
  <2>1. p \in 1..Len(line) /\ LiveData(line, p) /\ line'[p] = line[p]
    BY <1>2, <1>m
  <2>2. f # Credit
    BY <2>1 DEF NlCollecting, Says
  <2>3. CASE q \in 1..Len(line)
    BY <1>m, <1>2, <2>1, <2>3 DEF NlCollecting
  <2>4. CASE q = Len(line) + 1
    BY <1>m, <2>2, <2>4
  <2>5. QED
    BY <1>m, <2>3, <2>4
<1>3. ASSUME Unbroken(line')
      PROVE  /\ nfcc'.credits + nfcc'.owed = 1 /\ Len(xl'.got) <= nfcc'.said
             /\ nfcc'.said > Len(xl'.got) =>
                   \E p \in 1..Len(line') : LiveData(line', p) /\ line'[p].i = nfcc'.said
  <2>1. nfcc.credits + nfcc.owed = 1 /\ nfcc'.owed + nfcc'.credits = nfcc.owed + nfcc.credits
    BY <1>3, <1>m DEF NlCollecting, Says
  <2>2. nfcc'.owed \in 0..1 /\ nfcc'.credits \in 0..1
    BY <1>t DEF Says
  <2>3. nfcc'.credits + nfcc'.owed = 1
    BY <1>t, <2>1, <2>2
  <2>4. Len(xl'.got) <= nfcc'.said
    BY <1>x, <1>3, <1>m DEF NlCollecting
  <2>5. ASSUME nfcc'.said > Len(xl'.got)
        PROVE  \E p \in 1..Len(line') : LiveData(line', p) /\ line'[p].i = nfcc'.said
    <3>1. PICK p \in 1..Len(line) : LiveData(line, p) /\ line[p].i = nfcc.said
      BY <1>x, <1>3, <1>m, <2>5 DEF NlCollecting
    <3>2. QED
      BY <1>m, <1>x, <3>1
  <2>6. QED
    BY <2>3, <2>4, <2>5
<1>4. xl'.got = [i \in 1..Len(xl'.got) |-> <<xl'.x, i>>]
  BY <1>x DEF NlCollecting
<1>5. QED
  BY <1>1, <1>2, <1>3, <1>4 DEF NlCollecting

\* Whatever it says besides a segment keeps the invariant.
LEMMA SaysSound ==
    ASSUME NlInv, NEW f, Says(f), xl.at \notin {"idle", "data"},
           nfcc' \in [credits : 0..1, owed : 0..1, taken : Int, want : Int, segs : Int, said : Nat,
                      churn : Int]
    PROVE  NlInv'
<1>1. NlTypes /\ f \in NlFrame
  BY FrameKinds DEF NlInv, Says
<1>2. NlTypes'
  <2>1. line' \in Seq(NlFrame)
    BY <1>1, AppendMoves DEF Says, NlTypes
  <2>2. nfcc'.credits + nfcc'.owed <= 1 /\ nfcc'.said <= nfcc'.segs
    BY <1>1 DEF NlTypes, Says
  <2>3. QED
    BY <1>1, <2>1, <2>2 DEF NlTypes, Says
<1>3. xl' = xl
  BY DEF Says
<1>4. xl.at = "gate" => NlGated' /\ xl'.got = <<>>
  BY <1>1, <1>3, SaysGated DEF NlInv
<1>5. xl.at = "collect" => NlCollecting'
  BY <1>1, SaysCollecting DEF NlInv
<1>6. QED
  BY <1>2, <1>3, <1>4, <1>5 DEF NlInv

\* The credit comes back, the card asks for time, the tag leaves.
LEMMA NlController == ASSUME NlInv, Grant \/ Stretch \/ Leave PROVE NlInv'
<1>t. NlTypes
  BY DEF NlInv
<1>1. CASE Grant
  <2>1. nfcc.owed = 1 /\ nfcc.credits = 0
    BY <1>1, <1>t DEF Grant, NlTypes
  <2>2. xl.at \notin {"idle", "data"}
    BY <2>1 DEF NlInv, NlRested
  <2>3. nfcc' = [credits |-> 1, owed |-> 0, taken |-> nfcc.taken, want |-> nfcc.want,
                 segs |-> nfcc.segs, said |-> nfcc.said, churn |-> nfcc.churn]
    <3>1. nfcc.owed - 1 = 0 /\ nfcc.credits + 1 = 1
      BY <2>1
    <3>2. nfcc' = [nfcc EXCEPT !.owed = 0, !.credits = 1]
      BY <1>1, <3>1, Zenon DEF Grant
    <3>3. QED
      BY <1>t, <3>2 DEF NlTypes
  <2>4. /\ nfcc' \in [credits : 0..1, owed : 0..1, taken : Int, want : Int, segs : Int, said : Nat,
                      churn : Int]
        /\ nfcc'.credits = 1 /\ nfcc'.owed = 0 /\ nfcc'.taken = nfcc.taken
        /\ nfcc'.want = nfcc.want /\ nfcc'.segs = nfcc.segs /\ nfcc'.said = nfcc.said
    BY <1>t, <2>3 DEF NlTypes
  <2>5. xl' = xl /\ line' = Append(line, Credit)
    BY <1>1 DEF Grant
  <2>6. Says(Credit)
    BY <2>1, <2>4, <2>5, FrameKinds DEF Says
  <2>7. QED
    BY <2>2, <2>4, <2>6, SaysSound
<1>2. CASE Stretch
  <2>2. xl.at \notin {"idle", "data"}
    BY <1>2 DEF Stretch, Running
  <2>3. nfcc' = [credits |-> nfcc.credits, owed |-> nfcc.owed, taken |-> nfcc.taken, want |-> nfcc.want,
                 segs |-> nfcc.segs, said |-> nfcc.said, churn |-> nfcc.churn + 1]
    <3>1. PICK y : y = nfcc.churn + 1
      OBVIOUS
    <3>2. nfcc' = [nfcc EXCEPT !.churn = y]
      BY <1>2, <3>1, Zenon DEF Stretch
    <3>3. QED
      BY <1>t, <3>1, <3>2 DEF NlTypes
  <2>4. /\ nfcc' \in [credits : 0..1, owed : 0..1, taken : Int, want : Int, segs : Int, said : Nat,
                      churn : Int]
        /\ nfcc'.credits = nfcc.credits /\ nfcc'.owed = nfcc.owed /\ nfcc'.taken = nfcc.taken
        /\ nfcc'.want = nfcc.want /\ nfcc'.segs = nfcc.segs /\ nfcc'.said = nfcc.said
    BY <1>t, <2>3 DEF NlTypes
  <2>5. xl' = xl /\ line' = Append(line, Wtx)
    BY <1>2 DEF Stretch
  <2>6. Says(Wtx)
    BY <2>4, <2>5, FrameKinds DEF Says
  <2>7. QED
    BY <2>2, <2>4, <2>6, SaysSound
<1>3. CASE Leave
  <2>2. xl.at \notin {"idle", "data"}
    BY <1>3 DEF Leave, Running
  <2>3. nfcc' = [credits |-> nfcc.credits, owed |-> 0, taken |-> nfcc.taken, want |-> nfcc.want,
                 segs |-> nfcc.said, said |-> nfcc.said, churn |-> MaxChurn]
    BY <1>3, <1>t DEF Leave, NlTypes
  <2>4. /\ nfcc' \in [credits : 0..1, owed : 0..1, taken : Int, want : Int, segs : Int, said : Nat,
                      churn : Int]
        /\ nfcc'.credits = nfcc.credits /\ nfcc'.owed = 0 /\ nfcc'.taken = nfcc.taken
        /\ nfcc'.want = nfcc.want /\ nfcc'.segs = nfcc.said /\ nfcc'.said = nfcc.said
    BY <1>t, <2>3, NciLinkAssumption DEF NlTypes
  <2>5. xl' = xl /\ line' = Append(line, Lost)
    BY <1>3 DEF Leave
  <2>6. Says(Lost)
    BY <2>4, <2>5, FrameKinds DEF Says
  <2>7. QED
    BY <2>2, <2>4, <2>6, SaysSound
<1>4. QED
  BY <1>1, <1>2, <1>3

\* A segment of the answer, which a controller that re-grants first passes on
\* when it owes no credit.
LEMMA NlAnswer == ASSUME NlInv, GrantFirst, Answer PROVE NlInv'
<1>t. NlTypes
  BY DEF NlInv
<1>f. PICK f : f = Data(xl.x, nfcc.said + 1, nfcc.said + 1 < nfcc.segs)
  OBVIOUS
<1>1. /\ nfcc.taken = nfcc.want /\ nfcc.said < nfcc.segs /\ nfcc.owed = 0
      /\ line' = Append(line, f) /\ xl' = xl
  BY <1>f DEF Answer
<1>2. nfcc' = [credits |-> nfcc.credits, owed |-> 0, taken |-> nfcc.taken, want |-> nfcc.want,
               segs |-> nfcc.segs, said |-> nfcc.said + 1, churn |-> nfcc.churn]
  <2>1. PICK y : y = nfcc.said + 1
    OBVIOUS
  <2>2. nfcc' = [nfcc EXCEPT !.said = y]
    BY <2>1, Zenon DEF Answer
  <2>3. QED
    BY <1>t, <1>1, <2>1, <2>2 DEF NlTypes
<1>3. f \in NlFrame /\ f # Lost /\ f # Credit /\ f.k = "data" /\ f.x = xl.x /\ f.i = nfcc.said + 1
      /\ f.pbf = (nfcc.said + 1 < nfcc.segs)
  <2>2. PICK b : b = (nfcc.said + 1 < nfcc.segs)
    OBVIOUS
  <2>b. b \in BOOLEAN
    BY <2>2
  <2>3. f = [k |-> "data", x |-> xl.x, i |-> nfcc.said + 1, pbf |-> b]
    BY <1>f, <2>2, Zenon DEF Data
  <2>4. f \in [k : {"data"}, x : Nat, i : Nat, pbf : BOOLEAN]
    BY <1>t, <2>b, <2>3 DEF NlTypes
  <2>5. f.k = "data" /\ f.x = xl.x /\ f.i = nfcc.said + 1 /\ f.pbf = b
    BY <2>3
  <2>6. QED
    BY <2>2, <2>4, <2>5, FrameKinds DEF NlFrame
<1>4. NlTypes'
  <2>1. line' \in Seq(NlFrame)
    BY <1>t, <1>1, <1>3, AppendMoves DEF NlTypes
  <2>2. QED
    BY <1>t, <1>1, <1>2, <2>1 DEF NlTypes
<1>5. xl.at \notin {"idle", "data", "gate"}
  BY <1>t, <1>1 DEF NlInv, NlRested, NlGated, NlTypes
<1>6. ASSUME xl.at = "collect" PROVE NlCollecting'
  <2>c. NlCollecting
    BY <1>6 DEF NlInv
  <2>m. /\ line \in Seq(NlFrame) /\ Len(line') = Len(line) + 1 /\ Len(line) \in Nat
        /\ line'[Len(line) + 1] = f
        /\ \A p \in 1..Len(line) : /\ p \in 1..Len(line') /\ line'[p] = line[p]
                                   /\ LiveData(line', p) <=> LiveData(line, p)
                                   /\ LiveCredit(line', p) <=> LiveCredit(line, p)
        /\ \A p \in 1..Len(line') : p \in 1..Len(line) \/ p = Len(line) + 1
        /\ LiveData(line', Len(line) + 1) <=> Unbroken(line)
        /\ ~LiveCredit(line', Len(line) + 1)
        /\ Unbroken(line') <=> Unbroken(line)
    BY <1>t, <1>1, <1>3, AppendMoves DEF NlTypes
  <2>n. /\ nfcc'.credits = nfcc.credits /\ nfcc'.owed = 0 /\ nfcc'.segs = nfcc.segs
        /\ nfcc'.said = nfcc.said + 1
    BY <1>2
  <2>t. nfcc.said \in Nat /\ nfcc.segs \in Int /\ nfcc.credits \in 0..1 /\ Len(xl.got) \in Nat
    BY <1>t, LenProperties DEF NlTypes
  <2>1. ASSUME NEW p \in 1..Len(line), LiveData(line', p)
        PROVE  /\ line'[p].x = xl'.x /\ Len(xl'.got) < line'[p].i /\ line'[p].i <= nfcc'.said
               /\ ~line'[p].pbf => line'[p].i = nfcc'.segs
               /\ nfcc'.credits = 1 /\ nfcc'.owed = 0
               /\ line'[p].i > Len(xl'.got) + 1 =>
                     \E q \in 1..(p - 1) : LiveData(line', q) /\ line'[q].i = line'[p].i - 1
    <3>1. LiveData(line, p) /\ line'[p] = line[p] /\ line[p].i \in Nat
      BY <2>1, <2>m, FrameKinds DEF LiveData
    <3>2. /\ line[p].x = xl.x /\ Len(xl.got) < line[p].i /\ line[p].i <= nfcc.said
          /\ ~line[p].pbf => line[p].i = nfcc.segs
          /\ nfcc.credits = 1
      BY <2>c, <3>1 DEF NlCollecting
    <3>3. line[p].i <= nfcc.said + 1
      BY <2>t, <3>1, <3>2
    <3>4. ASSUME line[p].i > Len(xl.got) + 1
          PROVE  \E q \in 1..(p - 1) : LiveData(line', q) /\ line'[q].i = line[p].i - 1
      <4>1. PICK q \in 1..(p - 1) : LiveData(line, q) /\ line[q].i = line[p].i - 1
        BY <2>c, <3>1, <3>4 DEF NlCollecting
      <4>2. q \in 1..Len(line)
        BY <2>m
      <4>3. QED
        BY <2>m, <4>1, <4>2
    <3>5. QED
      BY <1>1, <2>n, <3>1, <3>2, <3>3, <3>4
  <2>2. ASSUME Unbroken(line)
        PROVE  /\ f.x = xl'.x /\ Len(xl'.got) < f.i /\ f.i <= nfcc'.said
               /\ ~f.pbf => f.i = nfcc'.segs
               /\ nfcc'.credits = 1 /\ nfcc'.owed = 0
               /\ f.i > Len(xl'.got) + 1 =>
                     \E q \in 1..Len(line) : LiveData(line', q) /\ line'[q].i = f.i - 1
    <3>1. /\ nfcc.credits + nfcc.owed = 1 /\ Len(xl.got) <= nfcc.said
          /\ nfcc.said > Len(xl.got) => \E p \in 1..Len(line) : LiveData(line, p) /\ line[p].i = nfcc.said
      BY <2>c, <2>2 DEF NlCollecting
    <3>2. nfcc.credits = 1
      BY <1>1, <2>t, <3>1
    <3>3. Len(xl.got) < f.i /\ f.i <= nfcc'.said /\ (~f.pbf => f.i = nfcc.segs)
      <4>1. ~f.pbf => ~(nfcc.said + 1 < nfcc.segs)
        BY <1>3, Zenon
      <4>2. f.i = nfcc.said + 1
        BY <1>3
      <4>3. QED
        BY <1>1, <2>n, <2>t, <3>1, <4>1, <4>2
    <3>4. ASSUME f.i > Len(xl.got) + 1
          PROVE  \E q \in 1..Len(line) : LiveData(line', q) /\ line'[q].i = f.i - 1
      <4>1. nfcc.said > Len(xl.got) /\ f.i - 1 = nfcc.said
        BY <1>3, <2>t, <3>4
      <4>2. PICK q \in 1..Len(line) : LiveData(line, q) /\ line[q].i = nfcc.said
        BY <3>1, <4>1
      <4>3. QED
        BY <2>m, <4>1, <4>2
    <3>5. QED
      BY <1>1, <1>3, <2>n, <3>2, <3>3, <3>4
  <2>3. ASSUME NEW p \in 1..Len(line'), LiveData(line', p)
        PROVE  /\ line'[p].x = xl'.x /\ Len(xl'.got) < line'[p].i /\ line'[p].i <= nfcc'.said
               /\ ~line'[p].pbf => line'[p].i = nfcc'.segs
               /\ nfcc'.credits = 1 /\ nfcc'.owed = 0
               /\ line'[p].i > Len(xl'.got) + 1 =>
                     \E q \in 1..(p - 1) : LiveData(line', q) /\ line'[q].i = line'[p].i - 1
    <3>1. CASE p \in 1..Len(line)
      BY <2>1, <2>3, <3>1
    <3>2. CASE p = Len(line) + 1
      <4>1. Unbroken(line) /\ line'[p] = f /\ p - 1 = Len(line)
        BY <2>3, <2>m, <3>2
      <4>2. QED
        BY <2>2, <4>1
    <3>3. QED
      BY <2>m, <3>1, <3>2
  <2>4. ASSUME NEW p \in 1..Len(line'), NEW q \in 1..Len(line'), p < q, LiveData(line', p)
        PROVE  ~LiveCredit(line', q) /\ (LiveData(line', q) => line'[p].i < line'[q].i)
    <3>1. p \in 1..Len(line)
      BY <2>4, <2>m
    <3>2. LiveData(line, p) /\ line'[p] = line[p] /\ line[p].i \in Nat
      BY <2>4, <2>m, <3>1, FrameKinds DEF LiveData
    <3>3. line[p].i <= nfcc.said
      BY <2>c, <3>1, <3>2 DEF NlCollecting
    <3>4. CASE q \in 1..Len(line)
      BY <2>c, <2>m, <2>4, <3>1, <3>2, <3>4 DEF NlCollecting
    <3>5. CASE q = Len(line) + 1
      <4>1. line'[q] = f /\ ~LiveCredit(line', q)
        BY <2>m, <3>5
      <4>2. line[p].i < f.i
        BY <1>3, <2>t, <3>2, <3>3
      <4>3. QED
        BY <3>2, <4>1, <4>2
    <3>6. QED
      BY <2>m, <3>4, <3>5
  <2>5. ASSUME Unbroken(line')
        PROVE  /\ nfcc'.credits + nfcc'.owed = 1 /\ Len(xl'.got) <= nfcc'.said
               /\ \E p \in 1..Len(line') : LiveData(line', p) /\ line'[p].i = nfcc'.said
    <3>1. nfcc'.credits = 1 /\ nfcc'.owed = 0
      BY <2>2, <2>5, <2>m
    <3>2. Len(xl.got) <= nfcc.said
      BY <2>c, <2>5, <2>m DEF NlCollecting
    <3>3. Len(xl'.got) <= nfcc'.said
      BY <1>1, <2>n, <2>t, <3>2
    <3>4. Len(line) + 1 \in 1..Len(line') /\ LiveData(line', Len(line) + 1) /\ line'[Len(line) + 1].i = nfcc'.said
      BY <1>3, <2>5, <2>m, <2>n
    <3>5. QED
      BY <3>1, <3>3, <3>4
  <2>6. xl'.got = [i \in 1..Len(xl'.got) |-> <<xl'.x, i>>]
    BY <1>1, <2>c DEF NlCollecting
  <2>7. QED
    BY <2>3, <2>4, <2>5, <2>6 DEF NlCollecting
<1>7. QED
  BY <1>1, <1>4, <1>5, <1>6 DEF NlInv

\* Every step of the host and of a controller that re-grants first keeps it.
LEMMA NlStepSound == GrantFirst /\ NlInv /\ [NlNext]_nlVars => NlInv'
<1> SUFFICES ASSUME GrantFirst, NlInv, [NlNext]_nlVars PROVE NlInv'
  OBVIOUS
<1>1. CASE UNCHANGED nlVars
  BY <1>1 DEF nlVars, NlInv, NlTypes, NlRested, NlGated, NlCollecting
<1>2. QED
  BY <1>1, NlExchange, NlEnds, NlGateRound, NlCollectRound, NlController, NlAnswer DEF NlNext

\* What the invariant says of answers and credits.
LEMMA NlInvIsEnough == NlInv => AnswerIsWhole /\ CreditRespected
BY SMTT(20) DEF NlInv, NlTypes, AnswerIsWhole, CreditRespected

\* Every response is the whole answer of its own exchange, and no packet goes out
\* without a credit, with a controller that re-grants before it answers.
THEOREM ExchangesAreWhole ==
    ASSUME GrantFirst PROVE NlSpec => [](AnswerIsWhole /\ CreditRespected)
<1>1. NlInv => AnswerIsWhole /\ CreditRespected
  BY NlInvIsEnough
<1>2. NlInv /\ [NlNext]_nlVars => NlInv'
  BY NlStepSound
<1>3. QED
  BY <1>1, <1>2, NlInitial, PTL DEF NlSpec

-----------------------------------------------------------------------------
(* The card-emulation role: s is a session, c the controller with the      *)
(* reader before it, l the frames that wait.                               *)

LsType == [active : BOOLEAN, conn : Int, credits : Nat, cap : Nat, rx : Seq(Nat \X Nat), e : Nat,
           out : Nat, polls : Int, whole : BOOLEAN]
CeType == [armed : BOOLEAN, on : BOOLEAN, e : Nat, credits : 0..1, owed : 0..1,
           cmd : {"select", "update", "data", "plain", "bare"}, n : Nat, say : Nat, left : Int]
LiFrame == {Deactivated} \cup [k : {"activated"}, e : Nat, p : Payloads]
           \cup [k : {"credit"}, conn : Int]
           \cup [k : {"data"}, e : Nat, n : Nat, i : Nat, conn : Int]

\* What waits on the line, by position.
Fk(l, p, k) == p \in 1..Len(l) /\ l[p].k = k
Greeted(l) == Fk(l, 1, "activated")
NoGrant(l) == \A p \in 1..Len(l) : ~Fk(l, p, "credit")
NoPiece(l) == \A p \in 1..Len(l) : ~Fk(l, p, "data")
Own(s, c) == s.e = c.e

\* The line since the reader came: its activation is first, its departure last,
\* and in between come the pieces of its one open command, in order.
LineOk(c, l) ==
    /\ ~c.on /\ l # <<>> => Fk(l, Len(l), "deactivated")
    /\ \A p \in 1..Len(l) :
          /\ Fk(l, p, "deactivated") => p = Len(l) /\ ~c.on
          /\ Fk(l, p, "activated") => p = 1 /\ l[p].e = c.e
          /\ Fk(l, p, "data") =>
                /\ l[p].e = c.e /\ l[p].n = c.n
                /\ 1 <= l[p].i /\ l[p].i <= c.n
                /\ c.on => l[p].i < c.say
    /\ \A p, q \in 1..Len(l) : p < q /\ Fk(l, p, "data") /\ Fk(l, q, "data") => l[p].i < l[q].i
    /\ c.on /\ c.n # 0 => c.say \in 1..(c.n + 1)

\* The one credit is with the controller, on the line or with the session, if the
\* session is that of the reader at hand; a session that outlived its reader waits
\* for a credit nobody will send.
OneCredit(c) == IF c.on THEN c.credits + c.owed = 1 ELSE c.credits = 0 /\ c.owed = 0

CreditsOk(s, c, l) ==
    /\ OneCredit(c)
    /\ s.e <= c.e /\ (Greeted(l) => s.e < c.e /\ NoGrant(l) /\ c.owed = 0)
    /\ s.out > 0 => s.active /\ s.credits = 0 /\ s.rx = <<>>
    /\ s.active /\ ~Own(s, c) => s.out > 0 /\ NoGrant(l) /\ c.owed = 0
    /\ s.active /\ Own(s, c) /\ ~c.on => l # <<>> \/ s.out > 0
    /\ s.active /\ Own(s, c) /\ c.on =>
          /\ s.credits = 0 \/ (s.credits = 1 /\ c.credits = 1 /\ NoGrant(l))
          /\ \A p \in 1..Len(l) : Fk(l, p, "credit") => c.credits = 1
          /\ \A p, q \in 1..Len(l) : Fk(l, p, "credit") /\ Fk(l, q, "credit") => p = q

\* Of the pieces numbered above b none is missing.
Follows(b, c, l) ==
    /\ \A p \in 1..Len(l) : Fk(l, p, "data") =>
          /\ b < l[p].i
          /\ l[p].i > b + 1 => \E q \in 1..(p - 1) : Fk(l, q, "data") /\ l[q].i = l[p].i - 1
    /\ c.on /\ c.n # 0 =>
          /\ b < c.say
          /\ c.say > b + 1 => \E p \in 1..Len(l) : Fk(l, p, "data") /\ l[p].i = c.say - 1
    /\ c.on /\ c.n = 0 => b = 0

\* The pieces the session holds and those on the line are all that were sent.
PiecesOk(s, c, l) ==
    /\ Greeted(l) => Follows(0, c, l)
    /\ ~Greeted(l) /\ s.active /\ Own(s, c) /\ s.out = 0 => Follows(Len(s.rx), c, l)
    /\ s.active /\ Own(s, c) => s.rx = [i \in 1..Len(s.rx) |-> <<c.e, i>>]
    /\ s.out > 0 /\ Own(s, c) => NoPiece(l) /\ (c.on => c.n # 0 /\ c.say = c.n + 1)

ListenOk(s, c, l) ==
    /\ s \in LsType /\ c \in CeType /\ l \in Seq(LiFrame)
    /\ LineOk(c, l) /\ CreditsOk(s, c, l) /\ PiecesOk(s, c, l) /\ s.whole

LiInv == ListenOk(ls, ce, lframes)

\* The frames, told apart by their kind.
LEMMA LiKinds ==
    /\ Deactivated.k = "deactivated" /\ Deactivated \in LiFrame
    /\ \A f \in LiFrame : /\ f.k \in {"activated", "deactivated", "credit", "data"}
                          /\ f.k = "activated" => f.e \in Nat /\ f.p \in Nat
                          /\ f.k = "credit" => f.conn \in Int
                          /\ f.k = "data" => f.e \in Nat /\ f.n \in Nat /\ f.i \in Nat /\ f.conn \in Int
<1>1. Deactivated.k = "deactivated" /\ Deactivated \in LiFrame
  BY DEF Deactivated, LiFrame
<1>2. \A f \in LiFrame : \/ f = Deactivated
                         \/ f.k = "activated" /\ f.e \in Nat /\ f.p \in Nat
                         \/ f.k = "credit" /\ f.conn \in Int
                         \/ f.k = "data" /\ f.e \in Nat /\ f.n \in Nat /\ f.i \in Nat /\ f.conn \in Int
  BY ListenAssumption DEF LiFrame
<1>3. QED
  BY <1>1, <1>2

\* m is l without its first frame.
Moved(l, m) ==
    /\ l \in Seq(LiFrame) /\ m \in Seq(LiFrame) /\ Len(m) \in Nat /\ Len(l) = Len(m) + 1
    /\ \A p \in 1..Len(m) : /\ p + 1 \in 1..Len(l) /\ m[p] = l[p + 1]
                            /\ \A k : Fk(m, p, k) <=> Fk(l, p + 1, k)
    /\ \A p \in 1..Len(l) : p = 1 \/ \E q \in 1..Len(m) : p = q + 1

\* Reading a frame moves the others up.
LEMMA LiTail ==
    ASSUME NEW l \in Seq(LiFrame), l # <<>>
    PROVE  /\ Moved(l, Tail(l)) /\ Head(l) = l[1] /\ Head(l) \in LiFrame /\ 1 \in 1..Len(l)
           /\ Fk(l, 1, Head(l).k)
<1>1. /\ Tail(l) \in Seq(LiFrame) /\ Len(Tail(l)) = Len(l) - 1 /\ Len(l) \in Nat /\ Len(l) >= 1
      /\ \A p \in 1..Len(Tail(l)) : Tail(l)[p] = l[p + 1]
      /\ l[1] = Head(l) /\ Head(l) \in LiFrame
  BY HeadTailProperties, LenProperties
<1>2. PICK m \in Seq(LiFrame) : m = Tail(l)
  BY <1>1
<1>3. Len(m) \in Nat /\ Len(l) = Len(m) + 1 /\ \A p \in 1..Len(m) : p + 1 \in 1..Len(l) /\ m[p] = l[p + 1]
  BY <1>1, <1>2
<1>4. \A p \in 1..Len(m) : \A k : Fk(m, p, k) <=> Fk(l, p + 1, k)
  BY <1>3 DEF Fk
<1>5. ASSUME NEW p \in 1..Len(l), p # 1 PROVE \E q \in 1..Len(m) : p = q + 1
  <2>1. p - 1 \in 1..Len(m) /\ p = (p - 1) + 1
    BY <1>3, <1>5
  <2>2. QED
    BY <2>1
<1>6. Moved(l, m)
  BY <1>3, <1>4, <1>5 DEF Moved
<1>7. QED
  BY <1>1, <1>2, <1>6 DEF Fk

\* What is left of a line is a line without an activation.
LEMMA LiLeft ==
    ASSUME NEW c, NEW l, NEW m, Moved(l, m), LineOk(c, l)
    PROVE  /\ ~Greeted(m)
           /\ ~c.on /\ ~Fk(l, 1, "deactivated") => m # <<>>
           /\ NoGrant(l) => NoGrant(m)
           /\ NoPiece(l) => NoPiece(m)
<1>1. ASSUME Greeted(m) PROVE FALSE
  <2>1. 1 \in 1..Len(m)
    BY <1>1 DEF Greeted, Fk
  <2>2. 1 + 1 \in 1..Len(l) /\ Fk(l, 1 + 1, "activated")
    BY <1>1, <2>1 DEF Greeted, Moved
  <2>3. 1 + 1 = 1
    BY <2>2 DEF LineOk
  <2>4. QED
    BY <2>3
<1>2. ASSUME ~c.on, ~Fk(l, 1, "deactivated"), m = <<>> PROVE FALSE
  <2>1. Len(m) = 0
    BY <1>2
  <2>2. Len(l) = 1
    BY <2>1 DEF Moved
  <2>3. l # <<>>
    BY <2>2
  <2>4. Fk(l, Len(l), "deactivated")
    BY <1>2, <2>3 DEF LineOk
  <2>5. QED
    BY <1>2, <2>2, <2>4
<1>3. NoGrant(l) => NoGrant(m)
  BY DEF NoGrant, Moved
<1>4. NoPiece(l) => NoPiece(m)
  BY DEF NoPiece, Moved
<1>5. QED
  BY <1>1, <1>2, <1>3, <1>4

\* ... with the order of its pieces; the reader may have its answer by then.
LEMMA LiLineLeft ==
    ASSUME NEW c, NEW d, NEW l, NEW m, Moved(l, m), LineOk(c, l),
           d.on = c.on, d.e = c.e, d.say = c.say, d.n = c.n \/ (d.n = 0 /\ NoPiece(m))
    PROVE  LineOk(d, m)
<1>1. /\ Len(m) \in Nat /\ Len(l) = Len(m) + 1 /\ m \in Seq(LiFrame)
      /\ \A p \in 1..Len(m) : p + 1 \in 1..Len(l) /\ m[p] = l[p + 1] /\ \A k : Fk(m, p, k) <=> Fk(l, p + 1, k)
  BY DEF Moved
<1>2. ASSUME ~d.on, m # <<>> PROVE Fk(m, Len(m), "deactivated")
  <2>1. Len(m) # 0
    BY <1>1, <1>2, EmptySeq
  <2>2. Len(m) \in 1..Len(m)
    BY <1>1, <2>1
  <2>3. l # <<>>
    BY <1>1
  <2>4. Fk(l, Len(l), "deactivated")
    BY <1>2, <2>3 DEF LineOk
  <2>5. Fk(l, Len(m) + 1, "deactivated")
    BY <1>1, <2>4
  <2>6. QED
    BY <1>1, <2>2, <2>5
<1>3. ASSUME NEW p \in 1..Len(m), Fk(m, p, "deactivated") PROVE p = Len(m) /\ ~d.on
  <2>1. p + 1 = Len(l) /\ ~c.on
    BY <1>1, <1>3 DEF LineOk
  <2>2. p = Len(m)
    BY <1>1, <2>1
  <2>3. QED
    BY <2>1, <2>2
<1>4. ASSUME NEW p \in 1..Len(m), Fk(m, p, "activated") PROVE FALSE
  <2>1. p + 1 = 1
    BY <1>1, <1>4 DEF LineOk
  <2>2. QED
    BY <1>1, <2>1
<1>5. ASSUME NEW p \in 1..Len(m), Fk(m, p, "data")
      PROVE  /\ m[p].e = d.e /\ m[p].n = d.n /\ 1 <= m[p].i /\ m[p].i <= d.n
             /\ d.on => m[p].i < d.say
  <2>1. p + 1 \in 1..Len(l) /\ Fk(l, p + 1, "data") /\ m[p] = l[p + 1]
    BY <1>1, <1>5
  <2>2. d.n = c.n
    BY <1>5 DEF NoPiece
  <2>3. QED
    BY <2>1, <2>2 DEF LineOk
<1>6. ASSUME NEW p \in 1..Len(m), NEW q \in 1..Len(m), p < q, Fk(m, p, "data"), Fk(m, q, "data")
      PROVE  m[p].i < m[q].i
  <2>1. /\ p + 1 \in 1..Len(l) /\ Fk(l, p + 1, "data") /\ m[p] = l[p + 1]
        /\ q + 1 \in 1..Len(l) /\ Fk(l, q + 1, "data") /\ m[q] = l[q + 1]
    BY <1>1, <1>6
  <2>2. p + 1 < q + 1
    BY <1>1, <1>6
  <2>3. QED
    BY <2>1, <2>2 DEF LineOk
<1>7. d.on /\ d.n # 0 => d.say \in 1..(d.n + 1)
  BY DEF LineOk
<1>8. QED
  BY <1>2, <1>3, <1>4, <1>5, <1>6, <1>7 DEF LineOk

\* A frame other than a piece is read: of the pieces none goes missing.
LEMMA LiFollows ==
    ASSUME NEW b, NEW c, NEW l, NEW m, Moved(l, m), Follows(b, c, l), ~Fk(l, 1, "data")
    PROVE  Follows(b, c, m)
<1>1. /\ Len(m) \in Nat /\ Len(l) = Len(m) + 1
      /\ \A p \in 1..Len(m) : p + 1 \in 1..Len(l) /\ m[p] = l[p + 1] /\ \A k : Fk(m, p, k) <=> Fk(l, p + 1, k)
      /\ \A p \in 1..Len(l) : p = 1 \/ \E q \in 1..Len(m) : p = q + 1
  BY DEF Moved
<1>2. ASSUME NEW p \in 1..Len(m), Fk(m, p, "data")
      PROVE  /\ b < m[p].i
             /\ m[p].i > b + 1 => \E q \in 1..(p - 1) : Fk(m, q, "data") /\ m[q].i = m[p].i - 1
  <2>1. p + 1 \in 1..Len(l) /\ Fk(l, p + 1, "data") /\ m[p] = l[p + 1]
    BY <1>1, <1>2
  <2>2. ASSUME m[p].i > b + 1 PROVE \E q \in 1..(p - 1) : Fk(m, q, "data") /\ m[q].i = m[p].i - 1
    <3>1. PICK r \in 1..((p + 1) - 1) : Fk(l, r, "data") /\ l[r].i = m[p].i - 1
      BY <2>1, <2>2 DEF Follows
    <3>2. r \in 1..Len(l) /\ r # 1
      BY <3>1 DEF Fk
    <3>3. PICK q \in 1..Len(m) : r = q + 1
      BY <1>1, <3>2
    <3>4. q \in 1..(p - 1)
      BY <1>1, <3>3
    <3>5. Fk(m, q, "data") /\ m[q] = l[r]
      BY <1>1, <3>1, <3>3
    <3>6. QED
      BY <3>1, <3>4, <3>5
  <2>3. QED
    BY <2>1, <2>2 DEF Follows
<1>3. ASSUME c.on, c.n # 0
      PROVE  /\ b < c.say
             /\ c.say > b + 1 => \E p \in 1..Len(m) : Fk(m, p, "data") /\ m[p].i = c.say - 1
  <2>1. ASSUME c.say > b + 1 PROVE \E p \in 1..Len(m) : Fk(m, p, "data") /\ m[p].i = c.say - 1
    <3>1. PICK r \in 1..Len(l) : Fk(l, r, "data") /\ l[r].i = c.say - 1
      BY <1>3, <2>1 DEF Follows
    <3>2. PICK q \in 1..Len(m) : r = q + 1
      BY <1>1, <3>1
    <3>3. QED
      BY <1>1, <3>1, <3>2
  <2>2. QED
    BY <1>3, <2>1 DEF Follows
<1>4. QED
  BY <1>2, <1>3 DEF Follows

\* The next piece is read: those that follow it are still there.
LEMMA LiFollowsNext ==
    ASSUME NEW b \in Nat, NEW c \in CeType, NEW l, NEW m, Moved(l, m), LineOk(c, l), Follows(b, c, l),
           Fk(l, 1, "data")
    PROVE  l[1].i = b + 1 /\ Follows(b + 1, c, m)
<1>1. /\ Len(m) \in Nat /\ Len(l) = Len(m) + 1 /\ 1 \in 1..Len(l)
      /\ \A p \in 1..Len(m) : p + 1 \in 1..Len(l) /\ m[p] = l[p + 1] /\ \A k : Fk(m, p, k) <=> Fk(l, p + 1, k)
      /\ \A p \in 1..Len(l) : p = 1 \/ \E q \in 1..Len(m) : p = q + 1
  BY DEF Moved
<1>2. \A p \in 1..Len(l) : Fk(l, p, "data") => l[p].i \in Nat
  BY LiKinds DEF Moved, Fk
<1>3. l[1].i = b + 1
  <2>1. b < l[1].i /\ l[1].i \in Nat
    BY <1>1, <1>2 DEF Follows
  <2>2. ASSUME l[1].i > b + 1 PROVE FALSE
    <3>1. PICK q \in 1..(1 - 1) : Fk(l, q, "data")
      BY <1>1, <2>2 DEF Follows
    <3>2. QED
      BY <3>1
  <2>3. QED
    BY <2>1, <2>2
<1>4. ASSUME NEW p \in 1..Len(m), Fk(m, p, "data")
      PROVE  /\ b + 1 < m[p].i
             /\ m[p].i > (b + 1) + 1 => \E q \in 1..(p - 1) : Fk(m, q, "data") /\ m[q].i = m[p].i - 1
  <2>1. p + 1 \in 1..Len(l) /\ Fk(l, p + 1, "data") /\ m[p] = l[p + 1] /\ m[p].i \in Nat /\ 1 < p + 1
    BY <1>1, <1>2, <1>4
  <2>2. b + 1 < m[p].i
    BY <1>1, <1>3, <2>1 DEF LineOk
  <2>3. ASSUME m[p].i > (b + 1) + 1 PROVE \E q \in 1..(p - 1) : Fk(m, q, "data") /\ m[q].i = m[p].i - 1
    <3>0. m[p].i > b + 1
      BY <2>1, <2>2
    <3>1. PICK r \in 1..((p + 1) - 1) : Fk(l, r, "data") /\ l[r].i = m[p].i - 1
      BY <2>1, <3>0 DEF Follows
    <3>2. r \in 1..Len(l) /\ r # 1
      BY <1>3, <2>1, <2>3, <3>1 DEF Fk
    <3>3. PICK q \in 1..Len(m) : r = q + 1
      BY <1>1, <3>2
    <3>4. q \in 1..(p - 1)
      BY <1>1, <3>3
    <3>5. Fk(m, q, "data") /\ m[q] = l[r]
      BY <1>1, <3>1, <3>3
    <3>6. QED
      BY <3>1, <3>4, <3>5
  <2>4. QED
    BY <2>2, <2>3
<1>5. ASSUME c.on, c.n # 0
      PROVE  /\ b + 1 < c.say
             /\ c.say > (b + 1) + 1 => \E p \in 1..Len(m) : Fk(m, p, "data") /\ m[p].i = c.say - 1
  <2>0. c.say \in Nat
    BY DEF CeType
  <2>1. b + 1 < c.say
    BY <1>1, <1>3, <1>5 DEF LineOk
  <2>2. ASSUME c.say > (b + 1) + 1 PROVE \E p \in 1..Len(m) : Fk(m, p, "data") /\ m[p].i = c.say - 1
    <3>0. c.say > b + 1
      BY <2>0, <2>1
    <3>1. PICK r \in 1..Len(l) : Fk(l, r, "data") /\ l[r].i = c.say - 1
      BY <1>5, <3>0 DEF Follows
    <3>2. r # 1
      BY <1>3, <2>0, <2>2, <3>1
    <3>3. PICK q \in 1..Len(m) : r = q + 1
      BY <1>1, <3>1, <3>2
    <3>4. QED
      BY <1>1, <3>1, <3>3
  <2>3. QED
    BY <2>1, <2>2
<1>6. ~(c.on /\ c.n = 0)
  <2>1. 1 <= l[1].i /\ l[1].i <= c.n
    BY <1>1 DEF LineOk
  <2>2. QED
    BY <1>3, <2>1
<1>7. QED
  BY <1>3, <1>4, <1>5, <1>6 DEF Follows

\* A session that is over, or not yet begun.
LEMMA LiOver ==
    ASSUME NEW s \in LsType, NEW c \in CeType, NEW l \in Seq(LiFrame), LineOk(c, l), ~Greeted(l),
           s.active = FALSE, s.out = 0, s.e <= c.e, s.whole, OneCredit(c)
    PROVE  ListenOk(s, c, l)
<1>1. ~(s.out > 0)
  OBVIOUS
<1>2. CreditsOk(s, c, l)
  BY <1>1 DEF CreditsOk
<1>3. PiecesOk(s, c, l)
  BY <1>1 DEF PiecesOk
<1>4. QED
  BY <1>2, <1>3 DEF ListenOk

\* new and reset.
LEMMA LiFresh ==
    /\ Fresh \in LsType /\ Fresh.active = FALSE /\ Fresh.out = 0 /\ Fresh.e = 0 /\ Fresh.whole
    /\ Fresh.rx = <<>> /\ Fresh.credits = 0
<1>1. <<>> \in Seq(Nat \X Nat)
  BY EmptySeq
<1>2. QED
  BY <1>1 DEF Fresh, LsType, NoConn

\* A line with nothing on it.
LEMMA LiEmpty ==
    ASSUME NEW c, c.on /\ c.n # 0 => c.say \in 1..(c.n + 1)
    PROVE  <<>> \in Seq(LiFrame) /\ LineOk(c, <<>>) /\ ~Greeted(<<>>)
<1>1. PICK l : l = <<>>
  OBVIOUS
<1>2. Len(l) = 0 /\ l \in Seq(LiFrame)
  BY <1>1, EmptySeq
<1>3. LineOk(c, l) /\ ~Greeted(l)
  BY <1>1, <1>2 DEF LineOk, Greeted, Fk
<1>4. QED
  BY <1>1, <1>2, <1>3

\* No reader, no session, nothing on the line.
LEMMA LiInitial == LiInit => LiInv
<1> SUFFICES ASSUME LiInit PROVE LiInv
  OBVIOUS
<1>1. ls = Fresh /\ lframes = <<>>
  BY DEF LiInit
<1>2. ce \in CeType /\ ce.on = FALSE /\ ce.credits = 0 /\ ce.owed = 0 /\ ce.e = 0
  BY DEF LiInit, CeType
<1>3. lframes \in Seq(LiFrame) /\ LineOk(ce, lframes) /\ ~Greeted(lframes)
  BY <1>1, <1>2, LiEmpty
<1>4. OneCredit(ce) /\ ls.e <= ce.e
  BY <1>1, <1>2, LiFresh DEF OneCredit
<1>5. QED
  BY <1>1, <1>2, <1>3, <1>4, LiFresh, LiOver DEF LiInv

\* A session is given up while frames, or none, are read.
LEMMA LiGivesUp ==
    ASSUME LiInv, ls' = Fresh, ce' = ce, lframes' \in Seq(LiFrame), LineOk(ce, lframes'), ~Greeted(lframes')
    PROVE  LiInv'
<1>1. ce \in CeType /\ OneCredit(ce)
  BY DEF LiInv, ListenOk, CreditsOk
<1>2. 0 <= ce.e
  BY <1>1 DEF CeType
<1>3. ListenOk(Fresh, ce, lframes')
  BY <1>1, <1>2, LiFresh, LiOver
<1>4. QED
  BY <1>3 DEF LiInv

\* The controller without a reader.
LEMMA LiQuiescent ==
    ASSUME NEW c \in CeType, NEW b \in BOOLEAN
    PROVE  /\ Quiescent(c, b) \in CeType /\ Quiescent(c, b).on = FALSE /\ Quiescent(c, b).credits = 0
           /\ Quiescent(c, b).owed = 0 /\ Quiescent(c, b).e = c.e /\ Quiescent(c, b).n = c.n
<1>1. PICK d : d = Quiescent(c, b)
  OBVIOUS
<1>2. d = [armed |-> b, on |-> FALSE, e |-> c.e, credits |-> 0, owed |-> 0,
           cmd |-> c.cmd, n |-> c.n, say |-> 0, left |-> c.left]
  BY <1>1 DEF Quiescent, CeType
<1>3. d \in CeType /\ d.on = FALSE /\ d.credits = 0 /\ d.owed = 0 /\ d.e = c.e /\ d.n = c.n
  BY <1>2 DEF CeType
<1>4. QED
  BY <1>1, <1>3

\* The ladder, climbed again.
LEMMA LiLadder == ASSUME LiInv, ls' = Fresh, Ladder PROVE LiInv'
<1>1. PICK ok \in BOOLEAN : ce' = Quiescent(ce, ok) /\ lframes' = <<>>
  BY DEF Ladder
<1>2. ce \in CeType
  BY DEF LiInv, ListenOk
<1>q. /\ ce' \in CeType /\ ce'.on = FALSE /\ ce'.credits = 0 /\ ce'.owed = 0
  BY <1>1, <1>2, LiQuiescent, Zenon
<1>3. /\ ce' \in CeType /\ ce'.on = FALSE /\ ce'.credits = 0 /\ ce'.owed = 0 /\ 0 <= ce'.e
  BY <1>q DEF CeType
<1>4. LineOk(ce', lframes') /\ ~Greeted(lframes') /\ lframes' \in Seq(LiFrame)
  BY <1>1, <1>3, LiEmpty
<1>5. OneCredit(ce')
  BY <1>3 DEF OneCredit
<1>6. ListenOk(Fresh, ce', lframes')
  BY <1>3, <1>4, <1>5, LiFresh, LiOver
<1>7. QED
  BY <1>6 DEF LiInv

\* What the actions that read a frame start from.
LEMMA LiReads ==
    ASSUME LiInv, lframes # <<>>, lframes' = Tail(lframes)
    PROVE  /\ ls \in LsType /\ ce \in CeType /\ OneCredit(ce) /\ LineOk(ce, lframes)
           /\ Moved(lframes, lframes') /\ lframes' \in Seq(LiFrame) /\ Next1 = lframes[1]
           /\ Next1 \in LiFrame /\ 1 \in 1..Len(lframes) /\ Fk(lframes, 1, Next1.k)
           /\ ~Greeted(lframes') /\ LineOk(ce, lframes')
           /\ ~ce.on /\ Next1.k # "deactivated" => lframes' # <<>>
<1>1. /\ ls \in LsType /\ ce \in CeType /\ OneCredit(ce) /\ LineOk(ce, lframes)
      /\ lframes \in Seq(LiFrame)
  BY DEF LiInv, ListenOk, CreditsOk
<1>2. /\ Moved(lframes, lframes') /\ Next1 = lframes[1] /\ Next1 \in LiFrame /\ 1 \in 1..Len(lframes)
      /\ Fk(lframes, 1, Next1.k)
  BY <1>1, LiTail DEF Next1
<1>3. Next1.k # "deactivated" => ~Fk(lframes, 1, "deactivated")
  BY <1>2 DEF Fk
<1>4. lframes' \in Seq(LiFrame)
  BY <1>2 DEF Moved
<1>5. QED
  BY <1>1, <1>2, <1>3, <1>4, LiLeft, LiLineLeft

\* The reader found the board: the session starts over, with its first credit.
LEMMA LiPollActivated == ASSUME LiInv, ~Waiting, lframes # <<>>, PollActivated PROVE LiInv'
<1>1. Next1.k = "activated" /\ lframes' = Tail(lframes) /\ ce' = ce
  BY DEF PollActivated, Consume
<1>2. /\ ls \in LsType /\ ce \in CeType /\ OneCredit(ce) /\ LineOk(ce, lframes)
      /\ Moved(lframes, lframes') /\ lframes' \in Seq(LiFrame) /\ Next1 = lframes[1]
      /\ Next1 \in LiFrame /\ Fk(lframes, 1, "activated") /\ 1 \in 1..Len(lframes)
      /\ ~Greeted(lframes') /\ LineOk(ce, lframes')
      /\ ~ce.on => lframes' # <<>>
  BY <1>1, LiReads
<1>3. Next1.e = ce.e /\ Next1.p \in Nat /\ Next1.e \in Nat
  BY <1>1, <1>2, LiKinds DEF LineOk
<1>4. ls.out = 0
  BY <1>2 DEF Waiting, LsType
<1>5. ls' = [active |-> TRUE, conn |-> ls.conn, credits |-> 1, cap |-> Next1.p, rx |-> <<>>,
             e |-> ce.e, out |-> 0, polls |-> ls.polls, whole |-> ls.whole]
  <2>1. ls' = [ls EXCEPT !.active = TRUE, !.cap = Next1.p, !.credits = 1, !.rx = <<>>, !.e = Next1.e]
    BY DEF PollActivated
  <2>2. QED
    BY <1>2, <1>3, <1>4, <2>1 DEF LsType
<1>6. ls' \in LsType /\ ls'.active /\ ls'.credits = 1 /\ ls'.rx = <<>> /\ ls'.e = ce.e /\ ls'.out = 0
      /\ ls'.whole = ls.whole
  BY <1>2, <1>3, <1>5, EmptySeq DEF LsType, CeType
<1>7. Greeted(lframes) /\ NoGrant(lframes) /\ ce.owed = 0
  BY <1>2 DEF LiInv, ListenOk, CreditsOk, Greeted
<1>8. NoGrant(lframes')
  BY <1>2, <1>7, LiLeft
<1>9. ce.on => ce.credits = 1
  BY <1>2, <1>7 DEF OneCredit, CeType
<1>10. CreditsOk(ls', ce, lframes')
  <2>1. ls'.e <= ce.e /\ ~(ls'.out > 0) /\ Own(ls', ce)
    BY <1>2, <1>6 DEF Own, CeType
  <2>2. \A p \in 1..Len(lframes') : ~Fk(lframes', p, "credit")
    BY <1>8 DEF NoGrant
  <2>3. QED
    BY <1>2, <1>6, <1>8, <1>9, <2>1, <2>2 DEF CreditsOk
<1>11. PiecesOk(ls', ce, lframes')
  <2>1. Follows(0, ce, lframes)
    BY <1>7 DEF LiInv, ListenOk, PiecesOk
  <2>2. ~Fk(lframes, 1, "data")
    BY <1>2 DEF Fk
  <2>3. Follows(0, ce, lframes')
    BY <1>2, <2>1, <2>2, LiFollows
  <2>4. Len(ls'.rx) = 0 /\ ls'.rx = [i \in 1..Len(ls'.rx) |-> <<ce.e, i>>]
    BY <1>6
  <2>5. ~(ls'.out > 0)
    BY <1>6
  <2>6. QED
    BY <2>3, <2>4, <2>5 DEF PiecesOk
<1>12. ls.whole
  BY DEF LiInv, ListenOk
<1>13. QED
  BY <1>1, <1>2, <1>6, <1>10, <1>11, <1>12 DEF LiInv, ListenOk

\* A grant is read outside a response: it is the one credit.
LEMMA LiPollCredit == ASSUME LiInv, ~Waiting, lframes # <<>>, PollCredit PROVE LiInv'
<1>1. Next1.k = "credit" /\ lframes' = Tail(lframes) /\ ce' = ce
  BY DEF PollCredit, Consume
<1>2. /\ ls \in LsType /\ ce \in CeType /\ OneCredit(ce) /\ LineOk(ce, lframes)
      /\ Moved(lframes, lframes') /\ lframes' \in Seq(LiFrame)
      /\ Next1 \in LiFrame /\ Fk(lframes, 1, "credit") /\ 1 \in 1..Len(lframes)
      /\ ~Greeted(lframes') /\ LineOk(ce, lframes')
      /\ ~ce.on => lframes' # <<>>
  BY <1>1, LiReads
<1>4. ls.out = 0
  BY <1>2 DEF Waiting, LsType
<1>5. ls' = [active |-> ls.active, conn |-> Next1.conn, credits |-> ls.credits + 1, cap |-> ls.cap,
             rx |-> ls.rx, e |-> ls.e, out |-> 0, polls |-> ls.polls, whole |-> ls.whole]
  <2>0. PICK y : y = ls.credits + 1
    OBVIOUS
  <2>1. ls' = [ls EXCEPT !.conn = Next1.conn, !.credits = y]
    BY <2>0, Zenon DEF PollCredit
  <2>2. QED
    BY <1>2, <1>4, <2>0, <2>1 DEF LsType
<1>6. ls' \in LsType /\ ls'.active = ls.active /\ ls'.credits = ls.credits + 1 /\ ls'.rx = ls.rx
      /\ ls'.e = ls.e /\ ls'.out = 0 /\ ls'.whole = ls.whole
  BY <1>1, <1>2, <1>5, LiKinds, SMTT(20) DEF LsType
<1>7. ls.whole /\ ls.e <= ce.e
  BY DEF LiInv, ListenOk, CreditsOk
<1>8. CASE ~ls.active
  BY <1>1, <1>2, <1>6, <1>7, <1>8, LiOver DEF LiInv, LsType
<1>9. CASE ls.active
  <2>0. ~(ls.out > 0) /\ ~(ls'.out > 0)
    BY <1>4, <1>6
  <2>1. Own(ls, ce) /\ Own(ls', ce)
    BY <1>6, <1>9, <2>0 DEF LiInv, ListenOk, CreditsOk, Own
  <2>2. ~Greeted(lframes)
    BY <1>2 DEF Greeted, Fk
  <2>3. ce.on => /\ ls.credits = 0 /\ ce.credits = 1
                 /\ \A p \in 1..Len(lframes) : Fk(lframes, p, "credit") => p = 1
    BY <1>2, <1>9, <2>1 DEF LiInv, ListenOk, CreditsOk, NoGrant
  <2>4. ASSUME ce.on PROVE NoGrant(lframes')
    <3> SUFFICES ASSUME NEW p \in 1..Len(lframes'), Fk(lframes', p, "credit") PROVE FALSE
      BY DEF NoGrant
    <3>1. p + 1 \in 1..Len(lframes) /\ Fk(lframes, p + 1, "credit")
      BY <1>2 DEF Moved
    <3>2. p + 1 = 1
      BY <2>3, <2>4, <3>1
    <3>3. QED
      BY <3>2
  <2>5. CreditsOk(ls', ce, lframes')
    <3>1. ce.on => ls'.credits = 1 /\ ce.credits = 1 /\ NoGrant(lframes')
      BY <1>6, <2>3, <2>4
    <3>2. ls'.e <= ce.e
      BY <1>6, <1>7
    <3>3. QED
      BY <1>2, <2>0, <2>1, <3>1, <3>2 DEF CreditsOk, NoGrant
  <2>6. PiecesOk(ls', ce, lframes')
    <3>1. Follows(Len(ls.rx), ce, lframes) /\ ls.rx = [i \in 1..Len(ls.rx) |-> <<ce.e, i>>]
      BY <1>4, <1>9, <2>1, <2>2 DEF LiInv, ListenOk, PiecesOk
    <3>2. ~Fk(lframes, 1, "data")
      BY <1>2 DEF Fk
    <3>3. Follows(Len(ls.rx), ce, lframes')
      BY <1>2, <3>1, <3>2, LiFollows
    <3>4. QED
      BY <1>2, <1>6, <2>0, <3>1, <3>3 DEF PiecesOk
  <2>7. QED
    BY <1>1, <1>2, <1>6, <1>7, <2>5, <2>6 DEF LiInv, ListenOk
<1>10. QED
  BY <1>8, <1>9

\* The answers of the table, cut into fragments.
LEMMA LiFragments ==
    ASSUME NEW cmd \in {"select", "update", "data", "plain", "bare"}, ~Panics(cmd), NEW p \in Nat
    PROVE  Fragments(cmd, p) \in Nat
<1>1. AnswerLength(cmd) \in Nat
  <2>1. CASE cmd = "select"
    BY <2>1 DEF AnswerLength
  <2>2. CASE cmd = "update"
    BY <2>2 DEF AnswerLength
  <2>3. CASE cmd = "data"
    BY <2>3 DEF AnswerLength
  <2>4. CASE cmd = "plain"
    BY <2>4 DEF AnswerLength
  <2>5. QED
    BY <2>1, <2>2, <2>3, <2>4 DEF Panics
<1>2. FragmentCap(p) \in Nat \ {0}
  BY ListenAssumption DEF FragmentCap
<1>3. QED
  BY <1>1, <1>2, CeilDivCovers DEF Fragments, CeilDiv

\* The controller after a response took from its credit.
Taken(c, a, o, n) == [c EXCEPT !.credits = a, !.owed = o, !.n = n]

\* What a response pours out: fragments of s for which it has credits.
LEMMA LiPour ==
    ASSUME NEW s \in LsType, NEW c \in CeType
    PROVE  \E k \in Nat :
              /\ k <= s.out /\ k <= s.credits /\ (s.out - k = 0 \/ s.credits - k = 0)
              /\ Pour(s) \in LsType /\ Pour(s).out = s.out - k /\ Pour(s).credits = s.credits - k
              /\ Pour(s).active = s.active /\ Pour(s).rx = s.rx /\ Pour(s).e = s.e
              /\ Pour(s).whole = s.whole
              /\ ~c.on => Poured(s, c) = c
              /\ c.on => Poured(s, c) = Taken(c, c.credits - k, c.owed + k,
                                       IF s.out - k = 0 THEN 0 ELSE c.n)
<1>1. PICK k : k = IF s.out < s.credits THEN s.out ELSE s.credits
  OBVIOUS
<1>2. s.out \in Nat /\ s.credits \in Nat
  BY DEF LsType
<1>3. k \in Nat /\ k <= s.out /\ k <= s.credits /\ (s.out - k = 0 \/ s.credits - k = 0)
  BY <1>1, <1>2
<1>4. PICK o, a, y : o = s.out - k /\ a = s.credits - k /\ y = IF s.out > k THEN CreditPolls ELSE 0
  OBVIOUS
<1>5. o \in Nat /\ a \in Nat /\ y \in Int
  BY <1>2, <1>3, <1>4, ListenAssumption
<1>6. Pour(s) = [s EXCEPT !.out = o, !.credits = a, !.polls = y]
  BY <1>1, <1>4, Zenon DEF Pour
<1>7. PICK t : t = [active |-> s.active, conn |-> s.conn, credits |-> a, cap |-> s.cap, rx |-> s.rx,
                    e |-> s.e, out |-> o, polls |-> y, whole |-> s.whole]
  OBVIOUS
<1>8. Pour(s) = t
  BY <1>6, <1>7 DEF LsType
<1>9. t \in LsType /\ t.out = o /\ t.credits = a /\ t.active = s.active /\ t.rx = s.rx /\ t.e = s.e
      /\ t.whole = s.whole
  BY <1>5, <1>7 DEF LsType
<1>10. s.out - Pour(s).out = k
  BY <1>2, <1>3, <1>4, <1>8, <1>9
<1>11. c.on => Poured(s, c) = Taken(c, c.credits - k, c.owed + k,
                                       IF s.out - k = 0 THEN 0 ELSE c.n)
  BY <1>4, <1>8, <1>9, <1>10, Zenon DEF Poured, Taken
<1>12. ~c.on => Poured(s, c) = c
  BY Zenon DEF Poured
<1>13. QED
  BY <1>3, <1>4, <1>8, <1>9, <1>11, <1>12

\* What it leaves the controller with.
LEMMA LiTaken ==
    ASSUME NEW c \in CeType, NEW a \in 0..1, NEW o \in 0..1, NEW n \in Nat
    PROVE  /\ Taken(c, a, o, n) \in CeType /\ Taken(c, a, o, n).on = c.on
           /\ Taken(c, a, o, n).e = c.e /\ Taken(c, a, o, n).say = c.say
<1>1. PICK d : d = Taken(c, a, o, n)
  OBVIOUS
<1>2. d = [armed |-> c.armed, on |-> c.on, e |-> c.e, credits |-> a, owed |-> o, cmd |-> c.cmd,
           n |-> n, say |-> c.say, left |-> c.left]
  BY <1>1 DEF CeType, Taken
<1>3. d \in CeType /\ d.on = c.on /\ d.e = c.e /\ d.say = c.say
  BY <1>2 DEF CeType
<1>4. QED
  BY <1>1, <1>3

\* ... and what of it has changed.
LEMMA LiTakenFrom ==
    ASSUME NEW c \in CeType, NEW a \in 0..1, NEW o \in 0..1, NEW n \in Nat
    PROVE  Taken(c, a, o, n).credits = a /\ Taken(c, a, o, n).owed = o /\ Taken(c, a, o, n).n = n
<1>1. PICK d : d = Taken(c, a, o, n)
  OBVIOUS
<1>2. d = [armed |-> c.armed, on |-> c.on, e |-> c.e, credits |-> a, owed |-> o, cmd |-> c.cmd,
           n |-> n, say |-> c.say, left |-> c.left]
  BY <1>1 DEF CeType, Taken
<1>3. d.credits = a /\ d.owed = o /\ d.n = n
  BY <1>2 DEF CeType
<1>4. QED
  BY <1>1, <1>3

\* A response, begun or resumed with the one credit or none: it sends what it has
\* a credit for, and a write that fails ends the session.  No piece is left to read.
LEMMA LiSends ==
    ASSUME LiInv, lframes # <<>>, lframes' = Tail(lframes), Next1.k # "deactivated",
           NEW s \in LsType, SendAll(s), s.active, Own(s, ce), s.rx = <<>>, s.whole,
           NoPiece(lframes'),
           ce.on => /\ ce.n # 0 /\ ce.say = ce.n + 1
                    /\ s.credits = 0 \/ (s.credits = 1 /\ ce.credits = 1 /\ NoGrant(lframes'))
                    /\ \A p \in 1..Len(lframes') : Fk(lframes', p, "credit") => ce.credits = 1
                    /\ \A p, q \in 1..Len(lframes') :
                          Fk(lframes', p, "credit") /\ Fk(lframes', q, "credit") => p = q
    PROVE  LiInv'
<1>1. /\ ls \in LsType /\ ce \in CeType /\ OneCredit(ce) /\ LineOk(ce, lframes)
      /\ Moved(lframes, lframes') /\ lframes' \in Seq(LiFrame)
      /\ ~Greeted(lframes') /\ LineOk(ce, lframes')
      /\ ~ce.on => lframes' # <<>>
  BY LiReads
<1>2. CASE ls' = Fresh /\ UNCHANGED ce
  BY <1>1, <1>2, LiGivesUp
<1>3. CASE ls' = Pour(s) /\ ce' = Poured(s, ce)
  <2>k. PICK k \in Nat :
              /\ k <= s.out /\ k <= s.credits /\ (s.out - k = 0 \/ s.credits - k = 0)
              /\ Pour(s) \in LsType /\ Pour(s).out = s.out - k /\ Pour(s).credits = s.credits - k
              /\ Pour(s).active = s.active /\ Pour(s).rx = s.rx /\ Pour(s).e = s.e
              /\ Pour(s).whole = s.whole
              /\ ~ce.on => Poured(s, ce) = ce
              /\ ce.on => Poured(s, ce) = Taken(ce, ce.credits - k, ce.owed + k,
                                       IF s.out - k = 0 THEN 0 ELSE ce.n)
    BY <1>1, LiPour, Zenon
  <2>p. /\ ~ce.on => ce' = ce
        /\ ce.on => ce' = Taken(ce, ce.credits - k, ce.owed + k,
                                       IF s.out - k = 0 THEN 0 ELSE ce.n)
    BY <1>3, <2>k, Zenon
  <2>1. /\ k <= s.out /\ k <= s.credits /\ (s.out - k = 0 \/ s.credits - k = 0)
        /\ ls' \in LsType /\ ls'.out = s.out - k /\ ls'.credits = s.credits - k
        /\ ls'.active = s.active /\ ls'.rx = s.rx /\ ls'.e = s.e /\ ls'.whole = s.whole
    BY <1>3, <2>k, Zenon
  <2>2. s.out \in Nat /\ s.credits \in Nat /\ ce.n \in Nat /\ ce.credits \in 0..1 /\ ce.owed \in 0..1
    BY <1>1 DEF LsType, CeType
  <2>3. ls' \in LsType /\ ls'.active /\ ls'.rx = <<>> /\ ls'.e = ce.e /\ ls'.whole
        /\ ls'.out \in Nat /\ (ls'.out > 0 => ls'.credits = 0)
    BY <2>1, <2>2 DEF Own
  <2>4. ls'.rx = [i \in 1..Len(ls'.rx) |-> <<ce.e, i>>] /\ Len(ls'.rx) = 0
    BY <2>3
  <2>5. CASE ~ce.on
    <3>1. ce' = ce
      BY <2>p, <2>5
    <3>2. CreditsOk(ls', ce, lframes')
      <4>1. ls'.e <= ce.e /\ Own(ls', ce)
        BY <1>1, <2>3 DEF Own, CeType
      <4>2. QED
        BY <1>1, <2>3, <2>5, <4>1 DEF CreditsOk
    <3>3. PiecesOk(ls', ce, lframes')
      <4>1. Follows(0, ce, lframes')
        BY <2>5 DEF Follows, NoPiece
      <4>2. QED
        BY <1>1, <2>4, <2>5, <4>1 DEF PiecesOk
    <3>4. QED
      BY <1>1, <2>3, <3>1, <3>2, <3>3 DEF LiInv, ListenOk
  <2>6. CASE ce.on
    <3>1. k <= ce.credits /\ (k > 0 => NoGrant(lframes')) /\ k \in 0..1
      BY <2>1, <2>2, <2>6
    <3>2. ce.credits + ce.owed = 1
      BY <1>1, <2>6 DEF OneCredit
    <3>3. PICK a, o, n : a = ce.credits - k /\ o = ce.owed + k /\ n = IF s.out - k = 0 THEN 0 ELSE ce.n
      OBVIOUS
    <3>4. a \in 0..1 /\ o \in 0..1 /\ n \in Nat /\ a + o = 1
      BY <2>2, <3>1, <3>2, <3>3
    <3>5. ce' = Taken(ce, a, o, n)
      BY <2>p, <2>6, <3>3, Zenon
    <3>6. PICK d : d = Taken(ce, a, o, n)
      OBVIOUS
    <3>7. ce' = d
      BY <3>5, <3>6
    <3>t. a \in 0..1 /\ o \in 0..1 /\ n \in Nat /\ ce \in CeType
      BY <1>1, <3>4
    <3>8. /\ d \in CeType /\ d.on = ce.on /\ d.e = ce.e /\ d.credits = a /\ d.owed = o /\ d.n = n
          /\ d.say = ce.say
      <4>1. d \in CeType /\ d.on = ce.on /\ d.e = ce.e /\ d.say = ce.say
        <5>1. /\ Taken(ce, a, o, n) \in CeType /\ Taken(ce, a, o, n).on = ce.on
              /\ Taken(ce, a, o, n).e = ce.e /\ Taken(ce, a, o, n).say = ce.say
          BY <3>t, LiTaken, Zenon
        <5>2. QED
          BY <3>6, <5>1, Zenon
      <4>2. d.credits = a /\ d.owed = o /\ d.n = n
        BY <3>t, <3>6, LiTakenFrom, SMT
      <4>3. QED
        BY <4>1, <4>2, Zenon
    <3>9. LineOk(d, lframes')
      <4>1. d.n = ce.n \/ (d.n = 0 /\ NoPiece(lframes'))
        BY <3>3, <3>8
      <4>2. QED
        BY <1>1, <3>8, <4>1, LiLineLeft
    <3>10. CreditsOk(ls', d, lframes')
      <4>1. ls'.e <= d.e /\ Own(ls', d) /\ d.on
        BY <1>1, <2>3, <2>6, <3>8 DEF Own, CeType
      <4>2. OneCredit(d)
        BY <3>4, <3>8, <2>6 DEF OneCredit
      <4>3. ls'.credits = 0 \/ (ls'.credits = 1 /\ d.credits = 1 /\ NoGrant(lframes'))
        BY <2>1, <2>2, <2>6, <3>1, <3>3, <3>8
      <4>4. \A p \in 1..Len(lframes') : Fk(lframes', p, "credit") => d.credits = 1
        <5> SUFFICES ASSUME NEW p \in 1..Len(lframes'), Fk(lframes', p, "credit") PROVE d.credits = 1
          OBVIOUS
        <5>1. k = 0
          BY <3>1 DEF NoGrant
        <5>2. QED
          BY <2>2, <2>6, <3>3, <3>8, <5>1
      <4>5. QED
        BY <1>1, <2>3, <2>6, <4>1, <4>2, <4>3, <4>4 DEF CreditsOk
    <3>11. PiecesOk(ls', d, lframes')
      <4>1. ASSUME ls'.out = 0 PROVE Follows(0, d, lframes')
        <5>1. d.n = 0
          BY <2>1, <3>3, <3>8, <4>1
        <5>2. QED
          BY <5>1 DEF Follows, NoPiece
      <4>2. ASSUME ls'.out > 0 PROVE d.n # 0 /\ d.say = d.n + 1
        BY <2>1, <2>2, <2>6, <3>3, <3>8, <4>2
      <4>3. ls'.rx = [i \in 1..Len(ls'.rx) |-> <<d.e, i>>]
        BY <2>4, <3>8
      <4>4. QED
        BY <1>1, <2>4, <4>1, <4>2, <4>3 DEF PiecesOk
    <3>12. QED
      BY <1>1, <2>3, <3>7, <3>8, <3>9, <3>10, <3>11 DEF LiInv, ListenOk
  <2>7. QED
    BY <2>5, <2>6
<1>4. QED
  BY <1>2, <1>3 DEF SendAll

\* Of the one credit there is no more after a frame is read.
LEMMA LiGrantLeft ==
    ASSUME NEW s, NEW c, NEW l, NEW m, Moved(l, m), LineOk(c, l), CreditsOk(s, c, l), s.active, Own(s, c), c.on
    PROVE  /\ s.credits = 0 \/ (s.credits = 1 /\ c.credits = 1 /\ NoGrant(m))
           /\ \A p \in 1..Len(m) : Fk(m, p, "credit") => c.credits = 1
           /\ \A p, q \in 1..Len(m) : Fk(m, p, "credit") /\ Fk(m, q, "credit") => p = q
<1>1. s.credits = 0 \/ (s.credits = 1 /\ c.credits = 1 /\ NoGrant(m))
  BY LiLeft DEF CreditsOk
<1>2. \A p \in 1..Len(m) : Fk(m, p, "credit") => c.credits = 1
  BY DEF CreditsOk, Moved
<1>3. ASSUME NEW p \in 1..Len(m), NEW q \in 1..Len(m), Fk(m, p, "credit"), Fk(m, q, "credit") PROVE p = q
  <2>1. /\ p + 1 \in 1..Len(l) /\ Fk(l, p + 1, "credit")
        /\ q + 1 \in 1..Len(l) /\ Fk(l, q + 1, "credit")
    BY <1>3 DEF Moved
  <2>2. p + 1 = q + 1
    BY <2>1 DEF CreditsOk
  <2>3. QED
    BY <2>2
<1>4. QED
  BY <1>1, <1>2, <1>3

\* The next piece, joined to those that came.
LEMMA LiJoined ==
    ASSUME NEW e \in Nat, NEW r \in Seq(Nat \X Nat), r = [i \in 1..Len(r) |-> <<e, i>>]
    PROVE  LET g == Append(r, <<e, Len(r) + 1>>)
           IN  g \in Seq(Nat \X Nat) /\ Len(g) = Len(r) + 1 /\ g = [i \in 1..(Len(r) + 1) |-> <<e, i>>]
<1>m. PICK m \in Nat : m = Len(r)
  BY LenProperties
<1>g. PICK g : g = Append(r, <<e, m + 1>>)
  OBVIOUS
<1>1. <<e, m + 1>> \in Nat \X Nat
  OBVIOUS
<1>2. g \in Seq(Nat \X Nat) /\ Len(g) = m + 1 /\ g[m + 1] = <<e, m + 1>> /\ \A i \in 1..m : g[i] = r[i]
  BY <1>m, <1>g, <1>1, AppendProperties
<1>3. \A i \in 1..m : r[i] = <<e, i>>
  BY <1>m
<1>4. g = [i \in 1..Len(g) |-> g[i]]
  BY <1>2, LenProperties
<1>5. \A i \in 1..(m + 1) : i \in 1..m \/ i = m + 1
  OBVIOUS
<1>6. \A i \in 1..(m + 1) : g[i] = <<e, i>>
  BY <1>2, <1>3, <1>5, Zenon
<1>7. g = [i \in 1..(m + 1) |-> <<e, i>>]
  BY <1>2, <1>4, <1>6
<1>8. QED
  BY <1>m, <1>g, <1>2, <1>7

\* What the piece at hand adds to a session.
LEMMA LiPiece ==
    ASSUME LiInv, ~Waiting, lframes # <<>>, lframes' = Tail(lframes), Next1.k = "data"
    PROVE  /\ Joined \in Seq(Nat \X Nat) /\ ls.out = 0 /\ Next1.conn \in Int /\ Next1.n = ce.n
           /\ ls.active => /\ Own(ls, ce) /\ Next1.i = Len(ls.rx) + 1 /\ Next1.e = ce.e
                           /\ Len(Joined) = Len(ls.rx) + 1
                           /\ Joined = [i \in 1..(Len(ls.rx) + 1) |-> <<ce.e, i>>]
                           /\ Follows(Len(ls.rx) + 1, ce, lframes')
<1>2. /\ ls \in LsType /\ ce \in CeType /\ LineOk(ce, lframes) /\ Moved(lframes, lframes')
      /\ Next1 = lframes[1] /\ Next1 \in LiFrame /\ Fk(lframes, 1, "data") /\ 1 \in 1..Len(lframes)
  BY LiReads
<1>3. /\ Next1.e = ce.e /\ Next1.n = ce.n /\ Next1.e \in Nat /\ Next1.i \in Nat /\ Next1.conn \in Int
  BY <1>2, LiKinds DEF LineOk
<1>4. ls.out = 0 /\ ls.rx \in Seq(Nat \X Nat) /\ Len(ls.rx) \in Nat
  BY <1>2, LenProperties DEF Waiting, LsType
<1>5. Joined \in Seq(Nat \X Nat)
  <2>1. <<Next1.e, Next1.i>> \in Nat \X Nat
    BY <1>3
  <2>2. QED
    BY <1>4, <2>1, AppendProperties DEF Joined
<1>6. ASSUME ls.active
      PROVE  /\ Own(ls, ce) /\ Next1.i = Len(ls.rx) + 1 /\ Len(Joined) = Len(ls.rx) + 1
             /\ Joined = [i \in 1..(Len(ls.rx) + 1) |-> <<ce.e, i>>]
             /\ Follows(Len(ls.rx) + 1, ce, lframes')
  <2>0. ~(ls.out > 0)
    BY <1>4
  <2>1. Own(ls, ce)
    BY <1>6, <2>0 DEF LiInv, ListenOk, CreditsOk
  <2>2. ~Greeted(lframes)
    BY <1>2 DEF Greeted, Fk
  <2>3. Follows(Len(ls.rx), ce, lframes) /\ ls.rx = [i \in 1..Len(ls.rx) |-> <<ce.e, i>>]
    BY <1>4, <1>6, <2>1, <2>2 DEF LiInv, ListenOk, PiecesOk
  <2>4. Next1.i = Len(ls.rx) + 1 /\ Follows(Len(ls.rx) + 1, ce, lframes')
    BY <1>2, <1>4, <2>3, LiFollowsNext
  <2>5. ce.e \in Nat
    BY <1>2 DEF CeType
  <2>6. Joined = Append(ls.rx, <<ce.e, Len(ls.rx) + 1>>)
    BY <1>3, <2>4 DEF Joined
  <2>7. Len(Joined) = Len(ls.rx) + 1 /\ Joined = [i \in 1..(Len(ls.rx) + 1) |-> <<ce.e, i>>]
    BY <1>4, <2>3, <2>5, <2>6, LiJoined
  <2>8. QED
    BY <2>1, <2>4, <2>7
<1>7. QED
  BY <1>3, <1>4, <1>5, <1>6

\* A piece that is not the last is kept.
LEMMA LiPieceKept ==
    ASSUME LiInv, ~Waiting, lframes # <<>>, lframes' = Tail(lframes), Next1.k = "data", ce' = ce,
           ls' \in LsType, ls'.active = ls.active, ls'.credits = ls.credits, ls'.e = ls.e, ls'.out = ls.out,
           ls'.whole = ls.whole, ls.active => ls'.rx = Joined
    PROVE  LiInv'
<1>2. /\ ls \in LsType /\ ce \in CeType /\ OneCredit(ce) /\ LineOk(ce, lframes)
      /\ Moved(lframes, lframes') /\ lframes' \in Seq(LiFrame)
      /\ ~Greeted(lframes') /\ LineOk(ce, lframes')
      /\ ~ce.on => lframes' # <<>>
  BY LiReads
<1>3. ls.whole /\ ls.e <= ce.e
  BY DEF LiInv, ListenOk, CreditsOk
<1>4. ls.out = 0 /\ ~(ls'.out > 0)
  BY LiPiece
<1>5. CASE ~ls.active
  BY <1>2, <1>3, <1>4, <1>5, LiOver DEF LiInv, LsType
<1>6. CASE ls.active
  <2>1. /\ Own(ls, ce) /\ Own(ls', ce) /\ Len(ls'.rx) = Len(ls.rx) + 1
        /\ ls'.rx = [i \in 1..(Len(ls.rx) + 1) |-> <<ce.e, i>>]
        /\ Follows(Len(ls.rx) + 1, ce, lframes')
    BY <1>6, LiPiece DEF Own
  <2>2. CreditsOk(ls', ce, lframes')
    <3>1. ASSUME ce.on
          PROVE  /\ ls'.credits = 0 \/ (ls'.credits = 1 /\ ce.credits = 1 /\ NoGrant(lframes'))
                 /\ \A p \in 1..Len(lframes') : Fk(lframes', p, "credit") => ce.credits = 1
                 /\ \A p, q \in 1..Len(lframes') :
                       Fk(lframes', p, "credit") /\ Fk(lframes', q, "credit") => p = q
      <4>1. CreditsOk(ls, ce, lframes)
        BY DEF LiInv, ListenOk
      <4>2. /\ ls.credits = 0 \/ (ls.credits = 1 /\ ce.credits = 1 /\ NoGrant(lframes'))
            /\ \A p \in 1..Len(lframes') : Fk(lframes', p, "credit") => ce.credits = 1
            /\ \A p, q \in 1..Len(lframes') :
                  Fk(lframes', p, "credit") /\ Fk(lframes', q, "credit") => p = q
        <5>1. Own(ls, ce)
          BY <2>1
        <5>2. QED
          BY <1>2, <1>6, <3>1, <4>1, <5>1, LiGrantLeft, ZenonT(40)
      <4>3. QED
        BY <4>2
    <3>2. QED
      BY <1>2, <1>3, <1>4, <2>1, <3>1 DEF CreditsOk
  <2>3. PiecesOk(ls', ce, lframes')
    <3>1. ls'.rx = [i \in 1..Len(ls'.rx) |-> <<ce.e, i>>] /\ Follows(Len(ls'.rx), ce, lframes')
      BY <2>1
    <3>2. QED
      BY <1>2, <1>4, <3>1 DEF PiecesOk
  <2>4. QED
    BY <1>2, <1>3, <2>2, <2>3 DEF LiInv, ListenOk
<1>7. QED
  BY <1>5, <1>6

\* The last piece of a command: the answer to a whole one is sent.
LEMMA LiAnswers ==
    ASSUME LiInv, ~Waiting, lframes # <<>>, PollData, Complete(Next1), ls.active
    PROVE  LiInv'
<1>1. Next1.k = "data" /\ lframes' = Tail(lframes) /\ ~Panics(ce.cmd)
  BY DEF PollData, Consume
<1>2. /\ ls \in LsType /\ ce \in CeType /\ LineOk(ce, lframes) /\ Moved(lframes, lframes')
      /\ Next1 = lframes[1] /\ Fk(lframes, 1, "data") /\ 1 \in 1..Len(lframes) /\ LineOk(ce, lframes')
      /\ lframes' \in Seq(LiFrame)
  BY <1>1, LiReads
<1>3. /\ Joined \in Seq(Nat \X Nat) /\ ls.out = 0 /\ Next1.conn \in Int /\ Next1.n = ce.n /\ Own(ls, ce)
      /\ Next1.i = Len(ls.rx) + 1 /\ Next1.e = ce.e
      /\ Joined = [i \in 1..(Len(ls.rx) + 1) |-> <<ce.e, i>>]
  BY <1>1, LiPiece
<1>4. ce.n = Len(ls.rx) + 1 /\ Next1.i = ce.n /\ IsWhole(Joined, Next1)
  BY <1>3 DEF Complete, IsWhole
<1>n. Len(ls.rx) \in Nat /\ ce.n \in Nat /\ ce.n # 0 /\ ce.say \in Nat
  BY <1>2, <1>4, LenProperties DEF LsType, CeType
<1>5. NoPiece(lframes')
  <2> SUFFICES ASSUME NEW p \in 1..Len(lframes'), Fk(lframes', p, "data") PROVE FALSE
    BY DEF NoPiece
  <2>1. p + 1 \in 1..Len(lframes) /\ Fk(lframes, p + 1, "data") /\ lframes'[p] = lframes[p + 1] /\ 1 < p + 1
    BY <1>2 DEF Moved
  <2>2. lframes[1].i < lframes[p + 1].i
    BY <1>2, <2>1 DEF LineOk
  <2>3. lframes[p + 1].i <= ce.n
    BY <1>2, <2>1 DEF LineOk
  <2>4. lframes[p + 1].i \in Nat
    <3>1. lframes[p + 1] \in LiFrame
      BY <1>2, <2>1, ElementOfSeq DEF Moved
    <3>2. QED
      BY <2>1, <3>1, LiKinds DEF Fk
  <2>5. QED
    BY <1>2, <1>4, <1>n, <2>2, <2>3, <2>4
<1>6. ce.on => ce.say = ce.n + 1
  BY <1>2, <1>4, <1>n DEF LineOk
<1>7. PICK f : f = Fragments(ce.cmd, ls.cap)
  OBVIOUS
<1>8. f \in Nat
  BY <1>1, <1>2, <1>7, LiFragments DEF CeType, LsType
<1>9. PICK s : s = [active |-> ls.active, conn |-> Next1.conn, credits |-> ls.credits, cap |-> ls.cap,
                    rx |-> <<>>, e |-> ls.e, out |-> f, polls |-> ls.polls, whole |-> TRUE]
  OBVIOUS
<1>10. s \in LsType /\ s.active = ls.active /\ s.credits = ls.credits /\ s.rx = <<>> /\ s.e = ls.e /\ s.whole
  BY <1>2, <1>3, <1>8, <1>9, EmptySeq DEF LsType
<1>11. SendAll(s)
  <2>1. PICK t : t = [ls EXCEPT !.conn = Next1.conn, !.rx = Joined]
    OBVIOUS
  <2>2. PICK u : u = [t EXCEPT !.rx = <<>>]
    OBVIOUS
  <2>3. Respond(u, ce.cmd, IsWhole(Joined, Next1))
    BY <2>1, <2>2, Zenon DEF PollData
  <2>t. t = [active |-> ls.active, conn |-> Next1.conn, credits |-> ls.credits, cap |-> ls.cap,
             rx |-> Joined, e |-> ls.e, out |-> ls.out, polls |-> ls.polls, whole |-> ls.whole]
    BY <1>2, <2>1 DEF LsType
  <2>4. u = [active |-> ls.active, conn |-> Next1.conn, credits |-> ls.credits, cap |-> ls.cap,
             rx |-> <<>>, e |-> ls.e, out |-> ls.out, polls |-> ls.polls, whole |-> ls.whole]
    BY <2>2, <2>t
  <2>5. u.active = ls.active /\ u.cap = ls.cap
    BY <2>4, Zenon
  <2>6. SendAll([u EXCEPT !.out = Fragments(ce.cmd, u.cap), !.whole = IsWhole(Joined, Next1)])
    BY <2>3, <2>5, Zenon DEF Respond
  <2>w. PICK w : w = TRUE
    OBVIOUS
  <2>7. SendAll([u EXCEPT !.out = f, !.whole = w])
    <3>1. IsWhole(Joined, Next1) = w
      BY <1>4, <2>w, Zenon DEF IsWhole
    <3>2. QED
      BY <1>7, <2>5, <2>6, <3>1, Zenon
  <2>8. [u EXCEPT !.out = f, !.whole = w] = s
    <3>1. u \in LsType
      BY <1>2, <1>3, <2>4, EmptySeq DEF LsType
    <3>2. PICK v : v = [u EXCEPT !.out = f, !.whole = w]
      OBVIOUS
    <3>3. v = [active |-> u.active, conn |-> u.conn, credits |-> u.credits, cap |-> u.cap,
               rx |-> u.rx, e |-> u.e, out |-> f, polls |-> u.polls, whole |-> w]
      BY <3>1, <3>2 DEF LsType
    <3>4. /\ u.active = ls.active /\ u.conn = Next1.conn /\ u.credits = ls.credits /\ u.cap = ls.cap
          /\ u.rx = <<>> /\ u.e = ls.e /\ u.polls = ls.polls
      BY <2>4, Zenon
    <3>5. QED
      BY <1>9, <2>w, <3>2, <3>3, <3>4, Zenon
  <2>9. QED
    BY <2>7, <2>8, Zenon
<1>12. ASSUME ce.on
       PROVE  /\ s.credits = 0 \/ (s.credits = 1 /\ ce.credits = 1 /\ NoGrant(lframes'))
              /\ \A p \in 1..Len(lframes') : Fk(lframes', p, "credit") => ce.credits = 1
              /\ \A p, q \in 1..Len(lframes') :
                    Fk(lframes', p, "credit") /\ Fk(lframes', q, "credit") => p = q
  BY <1>2, <1>3, <1>10, <1>12, LiGrantLeft DEF LiInv, ListenOk
<1>13. Own(s, ce)
  BY <1>3, <1>10 DEF Own
<1>14. QED
  BY <1>1, <1>5, <1>6, <1>n, <1>10, <1>11, <1>12, <1>13, LiSends

\* A piece is read.
LEMMA LiPollData == ASSUME LiInv, ~Waiting, lframes # <<>>, PollData PROVE LiInv'
<1>1. Next1.k = "data" /\ lframes' = Tail(lframes)
  BY DEF PollData, Consume
<1>2. ls \in LsType
  BY DEF LiInv, ListenOk
<1>3. Joined \in Seq(Nat \X Nat) /\ Next1.conn \in Int
  BY <1>1, LiPiece
<1>4. PICK t : t = [ls EXCEPT !.conn = Next1.conn, !.rx = Joined]
  OBVIOUS
<1>5. t = [active |-> ls.active, conn |-> Next1.conn, credits |-> ls.credits, cap |-> ls.cap,
           rx |-> Joined, e |-> ls.e, out |-> ls.out, polls |-> ls.polls, whole |-> ls.whole]
  BY <1>2, <1>4 DEF LsType
<1>6. /\ t \in LsType /\ t.active = ls.active /\ t.credits = ls.credits /\ t.e = ls.e
      /\ t.out = ls.out /\ t.whole = ls.whole /\ t.rx = Joined
  BY <1>2, <1>3, <1>5 DEF LsType
<1>7. CASE Complete(Next1) /\ ls.active
  BY <1>7, LiAnswers
<1>8. CASE Complete(Next1) /\ ~ls.active
  <2>1. PICK u : u = [t EXCEPT !.rx = <<>>]
    OBVIOUS
  <2>2. Respond(u, ce.cmd, IsWhole(Joined, Next1))
    BY <1>4, <1>8, <2>1, Zenon DEF PollData
  <2>3. u = [active |-> t.active, conn |-> t.conn, credits |-> t.credits, cap |-> t.cap,
             rx |-> <<>>, e |-> t.e, out |-> t.out, polls |-> t.polls, whole |-> t.whole]
    BY <1>6, <2>1 DEF LsType
  <2>4. /\ u \in LsType /\ u.active = t.active /\ u.credits = t.credits /\ u.e = t.e
        /\ u.out = t.out /\ u.whole = t.whole
    BY <1>6, <2>3, EmptySeq DEF LsType
  <2>5. u.active = ls.active
    BY <1>6, <2>4, Zenon
  <2>6. ls' = u /\ ce' = ce
    BY <1>8, <2>2, <2>5, Zenon DEF Respond
  <2>7. /\ ls' \in LsType /\ ls'.active = ls.active /\ ls'.credits = ls.credits /\ ls'.e = ls.e
        /\ ls'.out = ls.out /\ ls'.whole = ls.whole
    BY <1>6, <2>4, <2>6, Zenon
  <2>8. QED
    BY <1>1, <1>8, <2>6, <2>7, LiPieceKept
<1>9. CASE ~Complete(Next1)
  <2>1. ls' = t /\ ce' = ce
    BY <1>4, <1>9, Zenon DEF PollData
  <2>2. /\ ls' \in LsType /\ ls'.active = ls.active /\ ls'.credits = ls.credits /\ ls'.e = ls.e
        /\ ls'.out = ls.out /\ ls'.whole = ls.whole /\ ls'.rx = Joined
    BY <1>6, <2>1, Zenon
  <2>3. QED
    BY <1>1, <2>1, <2>2, LiPieceKept
<1>10. QED
  BY <1>7, <1>8, <1>9

\* One turn of the loop.
LEMMA LiPoll == ASSUME LiInv, Poll PROVE LiInv'
<1>1. ~Waiting /\ lframes # <<>>
  BY DEF Poll
<1>2. CASE PollDeactivated
  BY <1>1, <1>2, LiReads, LiGivesUp DEF PollDeactivated, Consume
<1>3. CASE PanicRestart \/ Relisten
  BY <1>3, LiLadder DEF PanicRestart, Relisten
<1>4. QED
  BY <1>1, <1>2, <1>3, LiPollActivated, LiPollCredit, LiPollData DEF Poll

\* A frame read while a response waits for its next credit.
LEMMA LiAwaitFrame == ASSUME LiInv, AwaitFrame PROVE LiInv'
<1>1. ls.out > 0 /\ lframes # <<>> /\ lframes' = Tail(lframes)
  BY DEF AwaitFrame, Waiting, Consume
<1>2. /\ ls \in LsType /\ ce \in CeType /\ OneCredit(ce) /\ LineOk(ce, lframes)
      /\ Moved(lframes, lframes') /\ lframes' \in Seq(LiFrame)
      /\ Fk(lframes, 1, Next1.k) /\ 1 \in 1..Len(lframes)
      /\ ~Greeted(lframes') /\ LineOk(ce, lframes')
      /\ ~ce.on /\ Next1.k # "deactivated" => lframes' # <<>>
  BY <1>1, LiReads
<1>3. /\ CreditsOk(ls, ce, lframes) /\ PiecesOk(ls, ce, lframes) /\ ls.whole
      /\ ls.active /\ ls.credits = 0 /\ ls.rx = <<>> /\ ls.e <= ce.e
  BY <1>1 DEF LiInv, ListenOk, CreditsOk
<1>4. Own(ls, ce) => NoPiece(lframes) /\ (ce.on => ce.n # 0 /\ ce.say = ce.n + 1)
  BY <1>1, <1>3 DEF PiecesOk
<1>5. ~Own(ls, ce) => NoGrant(lframes) /\ ce.owed = 0
  BY <1>3 DEF CreditsOk
<1>6. CASE Next1.k # "credit" /\ UNCHANGED <<ls, ce>>
  <2>1. Own(ls, ce) /\ ce.on =>
            /\ \A p \in 1..Len(lframes') : Fk(lframes', p, "credit") => ce.credits = 1
            /\ \A p, q \in 1..Len(lframes') :
                  Fk(lframes', p, "credit") /\ Fk(lframes', q, "credit") => p = q
    BY <1>2, <1>3, LiGrantLeft
  <2>2. ~Own(ls, ce) => NoGrant(lframes') /\ ce.owed = 0
    BY <1>2, <1>5, LiLeft
  <2>3. CreditsOk(ls, ce, lframes')
    BY <1>1, <1>2, <1>3, <2>1, <2>2 DEF CreditsOk
  <2>4. Own(ls, ce) => NoPiece(lframes')
    BY <1>2, <1>4, LiLeft
  <2>5. PiecesOk(ls, ce, lframes')
    BY <1>1, <1>2, <1>3, <1>4, <2>4 DEF PiecesOk
  <2>6. QED
    BY <1>2, <1>3, <1>6, <2>3, <2>5 DEF LiInv, ListenOk
<1>7. CASE ls' = Fresh /\ UNCHANGED ce
  BY <1>2, <1>7, LiGivesUp
<1>8. CASE Next1.k = "credit" /\ SendAll([ls EXCEPT !.credits = @ + 1])
  <2>1. Fk(lframes, 1, "credit")
    BY <1>2, <1>8
  <2>2. Own(ls, ce)
    BY <1>2, <1>5, <2>1 DEF NoGrant
  <2>3. PICK s : s = [active |-> ls.active, conn |-> ls.conn, credits |-> 1, cap |-> ls.cap,
                      rx |-> ls.rx, e |-> ls.e, out |-> ls.out, polls |-> ls.polls, whole |-> ls.whole]
    OBVIOUS
  <2>4. s \in LsType /\ s.active = ls.active /\ s.credits = 1 /\ s.rx = ls.rx /\ s.e = ls.e /\ s.whole = ls.whole
    BY <1>2, <2>3 DEF LsType
  <2>5. SendAll(s)
    <3>1. PICK t : t = [ls EXCEPT !.credits = @ + 1]
      OBVIOUS
    <3>2. ls.credits + 1 = 1
      BY <1>3
    <3>3. t = [ls EXCEPT !.credits = 1]
      BY <3>1, <3>2, Zenon
    <3>r. t = [active |-> ls.active, conn |-> ls.conn, credits |-> 1, cap |-> ls.cap, rx |-> ls.rx,
               e |-> ls.e, out |-> ls.out, polls |-> ls.polls, whole |-> ls.whole]
      BY <1>2, <3>3 DEF LsType
    <3>4. t = s
      BY <2>3, <3>r, Zenon
    <3>5. QED
      BY <1>8, <3>1, <3>4, Zenon
  <2>6. NoPiece(lframes')
    BY <1>2, <1>4, <2>2, LiLeft
  <2>7. ASSUME ce.on PROVE ce.credits = 1 /\ NoGrant(lframes')
    <3>1. ce.credits = 1 /\ \A p \in 1..Len(lframes) : Fk(lframes, p, "credit") => p = 1
      BY <1>2, <1>3, <2>1, <2>2, <2>7 DEF CreditsOk
    <3>2. ASSUME NEW p \in 1..Len(lframes'), Fk(lframes', p, "credit") PROVE FALSE
      <4>1. p + 1 \in 1..Len(lframes) /\ Fk(lframes, p + 1, "credit")
        BY <1>2, <3>2 DEF Moved
      <4>2. p + 1 = 1
        BY <3>1, <4>1
      <4>3. QED
        BY <4>2
    <3>3. QED
      BY <3>1, <3>2 DEF NoGrant
  <2>8. Own(s, ce) /\ s.active /\ s.rx = <<>> /\ s.whole
    BY <1>3, <2>2, <2>4 DEF Own
  <2>9. Next1.k # "deactivated"
    BY <1>8
  <2>10. ce.on => /\ ce.n # 0 /\ ce.say = ce.n + 1
                  /\ s.credits = 0 \/ (s.credits = 1 /\ ce.credits = 1 /\ NoGrant(lframes'))
                  /\ \A p \in 1..Len(lframes') : Fk(lframes', p, "credit") => ce.credits = 1
                  /\ \A p, q \in 1..Len(lframes') :
                        Fk(lframes', p, "credit") /\ Fk(lframes', q, "credit") => p = q
    BY <1>4, <2>2, <2>4, <2>7 DEF NoGrant
  <2>11. QED
    BY <1>1, <2>4, <2>5, <2>6, <2>8, <2>9, <2>10, LiSends
<1>9. QED
  BY <1>6, <1>7, <1>8 DEF AwaitFrame

\* Nothing to read while it waits: the budget runs down.
LEMMA LiAwaitQuiet == ASSUME LiInv, AwaitQuiet PROVE LiInv'
<1>1. lframes = <<>> /\ lframes' = lframes /\ ce' = ce
  BY DEF AwaitQuiet
<1>2. ListenOk(ls, ce, lframes) /\ ls \in LsType /\ lframes \in Seq(LiFrame) /\ LineOk(ce, lframes)
  BY DEF LiInv, ListenOk
<1>3. ~Greeted(lframes)
  BY <1>1 DEF Greeted, Fk
<1>4. CASE ls' = Fresh
  BY <1>1, <1>2, <1>3, <1>4, LiGivesUp
<1>5. CASE ls' = [ls EXCEPT !.polls = @ - 1]
  <2>1. PICK y : y = ls.polls - 1
    OBVIOUS
  <2>2. ls' = [ls EXCEPT !.polls = y]
    BY <1>5, <2>1, Zenon
  <2>3. y \in Int
    BY <1>2, <2>1 DEF LsType
  <2>4. ls' = [active |-> ls.active, conn |-> ls.conn, credits |-> ls.credits, cap |-> ls.cap,
               rx |-> ls.rx, e |-> ls.e, out |-> ls.out, polls |-> y, whole |-> ls.whole]
    BY <1>2, <2>2 DEF LsType
  <2>5. /\ ls' \in LsType /\ ls'.active = ls.active /\ ls'.credits = ls.credits /\ ls'.e = ls.e
        /\ ls'.out = ls.out /\ ls'.whole = ls.whole /\ ls'.rx = ls.rx
    BY <1>2, <2>3, <2>4 DEF LsType
  <2>6. Own(ls', ce) <=> Own(ls, ce)
    BY <2>5 DEF Own
  <2>7. CreditsOk(ls', ce, lframes)
    BY <1>2, <2>5, <2>6 DEF ListenOk, CreditsOk
  <2>8. PiecesOk(ls', ce, lframes)
    BY <1>2, <2>5, <2>6 DEF ListenOk, PiecesOk
  <2>9. QED
    BY <1>1, <1>2, <2>5, <2>7, <2>8 DEF LiInv, ListenOk
<1>6. QED
  BY <1>4, <1>5 DEF AwaitQuiet

\* A frame is added to the line.
Longer(l, m, f) ==
    /\ l \in Seq(LiFrame) /\ m \in Seq(LiFrame) /\ f \in LiFrame /\ Len(l) \in Nat /\ Len(m) = Len(l) + 1
    /\ m[Len(l) + 1] = f
    /\ \A p \in 1..Len(l) : p \in 1..Len(m) /\ m[p] = l[p] /\ \A k : Fk(m, p, k) <=> Fk(l, p, k)
    /\ \A k : Fk(m, Len(l) + 1, k) <=> f.k = k
    /\ \A p \in 1..Len(m) : p \in 1..Len(l) \/ p = Len(l) + 1
    /\ f.k # "activated" => (Greeted(m) <=> Greeted(l))

\* Append adds it behind the others.
LEMMA LiAppend ==
    ASSUME NEW l \in Seq(LiFrame), NEW f \in LiFrame
    PROVE  Longer(l, Append(l, f), f)
<1>1. PICK m \in Seq(LiFrame) : m = Append(l, f)
  BY AppendProperties
<1>2. Len(m) = Len(l) + 1 /\ Len(l) \in Nat /\ m[Len(l) + 1] = f /\ \A p \in 1..Len(l) : m[p] = l[p]
  BY <1>1
<1>3. \A p \in 1..Len(l) : p \in 1..Len(m)
  BY <1>2
<1>4. \A p \in 1..Len(m) : p \in 1..Len(l) \/ p = Len(l) + 1
  BY <1>2
<1>5. \A p \in 1..Len(l) : \A k : Fk(m, p, k) <=> Fk(l, p, k)
  BY <1>2, <1>3 DEF Fk
<1>6. \A k : Fk(m, Len(l) + 1, k) <=> f.k = k
  <2>1. Len(l) + 1 \in 1..Len(m)
    BY <1>2
  <2>2. QED
    BY <1>2, <2>1 DEF Fk
<1>7. f.k # "activated" => (Greeted(m) <=> Greeted(l))
  <2>1. CASE Len(l) = 0
    BY <1>2, <2>1 DEF Greeted, Fk
  <2>2. CASE Len(l) # 0
    <3>1. 1 \in 1..Len(l)
      BY <1>2, <2>2
    <3>2. QED
      BY <1>5, <3>1 DEF Greeted
  <2>3. QED
    BY <2>1, <2>2
<1>8. QED
  BY <1>1, <1>2, <1>3, <1>4, <1>5, <1>6, <1>7 DEF Longer

\* A reader comes to a session that is over or waits for a credit it will not get.
LEMMA LiArrive == ASSUME LiInv, Arrive PROVE LiInv'
<1>1. PICK p \in Payloads :
          /\ ce' = [ce EXCEPT !.on = TRUE, !.e = @ + 1, !.credits = 1, !.owed = 0, !.say = 0, !.n = 0,
                              !.left = MaxCommands]
          /\ lframes' = <<Activated(ce.e + 1, p)>>
  BY DEF Arrive
<1>2. lframes = <<>> /\ ~ce.on /\ ls' = ls
  BY DEF Arrive
<1>3. /\ ls \in LsType /\ ce \in CeType /\ CreditsOk(ls, ce, lframes) /\ PiecesOk(ls, ce, lframes)
      /\ ls.whole
  BY DEF LiInv, ListenOk
<1>4. /\ ce' \in CeType /\ ce'.on /\ ce'.e = ce.e + 1 /\ ce'.credits = 1 /\ ce'.owed = 0 /\ ce'.n = 0
  <2>1. PICK y : y = ce.e + 1
    OBVIOUS
  <2>2. PICK d : d = ce'
    OBVIOUS
  <2>3. d = [ce EXCEPT !.on = TRUE, !.e = y, !.credits = 1, !.owed = 0, !.say = 0, !.n = 0,
                       !.left = MaxCommands]
    BY <1>1, <2>1, <2>2, Zenon
  <2>4. d = [armed |-> ce.armed, on |-> TRUE, e |-> y, credits |-> 1, owed |-> 0, cmd |-> ce.cmd,
             n |-> 0, say |-> 0, left |-> MaxCommands]
    BY <1>3, <2>3 DEF CeType
  <2>5. y \in Nat
    BY <1>3, <2>1 DEF CeType
  <2>6. d \in CeType /\ d.on /\ d.e = y /\ d.credits = 1 /\ d.owed = 0 /\ d.n = 0
    BY <1>3, <2>4, <2>5, ListenAssumption DEF CeType
  <2>7. QED
    BY <2>1, <2>2, <2>6
<1>5. PICK f : f = Activated(ce.e + 1, p)
  OBVIOUS
<1>6. f \in LiFrame /\ f.k = "activated" /\ f.e = ce'.e
  <2>1. ce.e + 1 \in Nat
    BY <1>3 DEF CeType
  <2>2. f \in [k : {"activated"}, e : Nat, p : Payloads] /\ f.k = "activated" /\ f.e = ce.e + 1
    BY <1>5, <2>1 DEF Activated
  <2>3. QED
    BY <1>4, <2>2 DEF LiFrame
<1>7. lframes' \in Seq(LiFrame) /\ Len(lframes') = 1 /\ lframes'[1] = f
  BY <1>1, <1>5, <1>6
<1>8. \A k : \A q \in 1..Len(lframes') : q = 1 /\ (Fk(lframes', q, k) <=> k = "activated")
  BY <1>6, <1>7 DEF Fk
<1>9. LineOk(ce', lframes')
  BY <1>4, <1>6, <1>7, <1>8 DEF LineOk
<1>10. NoGrant(lframes') /\ NoPiece(lframes') /\ Greeted(lframes')
  BY <1>7, <1>8 DEF NoGrant, NoPiece, Greeted
<1>11. ls.e < ce'.e /\ ~Own(ls, ce') /\ OneCredit(ce')
  BY <1>3, <1>4 DEF CreditsOk, OneCredit, Own, LsType, CeType
<1>12. ls.active => ls.out > 0
  BY <1>2, <1>3 DEF CreditsOk
<1>13. CreditsOk(ls, ce', lframes')
  <2>1. ls.e <= ce'.e
    BY <1>3, <1>4, <1>11 DEF LsType, CeType
  <2>2. ls.out > 0 => ls.active /\ ls.credits = 0 /\ ls.rx = <<>>
    BY <1>3 DEF CreditsOk
  <2>3. QED
    BY <1>4, <1>10, <1>11, <1>12, <2>1, <2>2 DEF CreditsOk
<1>14. PiecesOk(ls, ce', lframes')
  <2>1. Follows(0, ce', lframes')
    BY <1>4, <1>10 DEF Follows, NoPiece
  <2>2. QED
    BY <1>10, <1>11, <2>1 DEF PiecesOk
<1>15. QED
  BY <1>2, <1>3, <1>4, <1>7, <1>9, <1>13, <1>14 DEF LiInv, ListenOk

\* A command is begun when the last one is answered: nothing of one is about.
LEMMA LiCommand ==
    ASSUME LiInv, NEW cmd \in Commands, NEW n \in 1..MaxPieces, Command(cmd, n)
    PROVE  LiInv'
<1>1. ce.on /\ ce.n = 0 /\ ls' = ls /\ lframes' = lframes
  BY DEF Command
<1>2. /\ ls \in LsType /\ ce \in CeType /\ CreditsOk(ls, ce, lframes) /\ PiecesOk(ls, ce, lframes)
      /\ LineOk(ce, lframes) /\ lframes \in Seq(LiFrame) /\ ls.whole
  BY DEF LiInv, ListenOk
<1>3. n \in Nat /\ n # 0 /\ n >= 1 /\ cmd \in {"select", "update", "data", "plain", "bare"}
  BY ListenAssumption
<1>4. /\ ce' \in CeType /\ ce'.on /\ ce'.e = ce.e /\ ce'.credits = ce.credits /\ ce'.owed = ce.owed
      /\ ce'.n = n /\ ce'.say = 1
  <2>1. PICK y : y = ce.left - 1
    OBVIOUS
  <2>2. PICK d : d = ce'
    OBVIOUS
  <2>3. d = [ce EXCEPT !.cmd = cmd, !.n = n, !.say = 1, !.left = y]
    BY <2>1, <2>2, Zenon DEF Command
  <2>4. d = [armed |-> ce.armed, on |-> ce.on, e |-> ce.e, credits |-> ce.credits, owed |-> ce.owed,
             cmd |-> cmd, n |-> n, say |-> 1, left |-> y]
    BY <1>2, <2>3 DEF CeType
  <2>5. y \in Int
    BY <1>2, <2>1 DEF CeType
  <2>6. /\ d \in CeType /\ d.on = ce.on /\ d.e = ce.e /\ d.credits = ce.credits /\ d.owed = ce.owed
        /\ d.n = n /\ d.say = 1
    BY <1>2, <1>3, <2>4, <2>5 DEF CeType
  <2>7. QED
    BY <1>1, <2>2, <2>6
<1>5. NoPiece(lframes)
  <2> SUFFICES ASSUME NEW p \in 1..Len(lframes), Fk(lframes, p, "data") PROVE FALSE
    BY DEF NoPiece
  <2>1. 1 <= lframes[p].i /\ lframes[p].i <= 0
    BY <1>1, <1>2 DEF LineOk
  <2>2. lframes[p].i \in Nat
    <3>1. lframes[p] \in LiFrame
      BY <1>2, ElementOfSeq
    <3>2. QED
      BY <3>1, LiKinds DEF Fk
  <2>3. QED
    BY <2>1, <2>2
<1>6. LineOk(ce', lframes)
  BY <1>1, <1>2, <1>3, <1>4, <1>5 DEF LineOk, NoPiece
<1>7. Own(ls, ce') <=> Own(ls, ce)
  BY <1>4 DEF Own
<1>8. CreditsOk(ls, ce', lframes)
  <2>1. OneCredit(ce')
    BY <1>1, <1>2, <1>4 DEF CreditsOk, OneCredit
  <2>2. QED
    BY <1>1, <1>2, <1>4, <1>7, <2>1 DEF CreditsOk
<1>9. PiecesOk(ls, ce', lframes)
  <2>1. Follows(0, ce', lframes)
    BY <1>3, <1>4, <1>5 DEF Follows, NoPiece
  <2>2. ~Greeted(lframes) /\ ls.active /\ Own(ls, ce) /\ ls.out = 0 => Len(ls.rx) = 0
    BY <1>1, <1>2 DEF PiecesOk, Follows
  <2>3. ~(ls.out > 0 /\ Own(ls, ce))
    BY <1>1, <1>2 DEF PiecesOk
  <2>4. ls.active /\ Own(ls, ce') => ls.rx = [i \in 1..Len(ls.rx) |-> <<ce'.e, i>>]
    BY <1>2, <1>4, <1>7 DEF PiecesOk
  <2>5. QED
    BY <1>7, <2>1, <2>2, <2>3, <2>4 DEF PiecesOk
<1>10. QED
  BY <1>1, <1>2, <1>4, <1>6, <1>8, <1>9 DEF LiInv, ListenOk

\* The reader's next piece goes on the line.
LEMMA LiSpeak ==
    ASSUME LiInv, NEW c \in {StaticConn, StaticConn + 1}, Speak(c)
    PROVE  LiInv'
<1>1. ce.on /\ ce.say \in 1..ce.n /\ ls' = ls
  BY DEF Speak
<1>2. /\ ls \in LsType /\ ce \in CeType /\ CreditsOk(ls, ce, lframes) /\ PiecesOk(ls, ce, lframes)
      /\ LineOk(ce, lframes) /\ lframes \in Seq(LiFrame) /\ ls.whole
  BY DEF LiInv, ListenOk
<1>3. ce.n \in Nat /\ ce.say \in Nat /\ 1 <= ce.say /\ ce.say <= ce.n /\ ce.n # 0 /\ ce.e \in Nat
  BY <1>1, <1>2 DEF CeType
<1>4. /\ ce' \in CeType /\ ce'.on /\ ce'.e = ce.e /\ ce'.credits = ce.credits /\ ce'.owed = ce.owed
      /\ ce'.n = ce.n /\ ce'.say = ce.say + 1
  <2>1. PICK y : y = ce.say + 1
    OBVIOUS
  <2>2. PICK d : d = ce'
    OBVIOUS
  <2>3. d = [ce EXCEPT !.say = y]
    BY <2>1, <2>2, Zenon DEF Speak
  <2>4. d = [armed |-> ce.armed, on |-> ce.on, e |-> ce.e, credits |-> ce.credits, owed |-> ce.owed,
             cmd |-> ce.cmd, n |-> ce.n, say |-> y, left |-> ce.left]
    BY <1>2, <2>3 DEF CeType
  <2>5. y \in Nat
    BY <1>3, <2>1
  <2>6. /\ d \in CeType /\ d.on = ce.on /\ d.e = ce.e /\ d.credits = ce.credits /\ d.owed = ce.owed
        /\ d.n = ce.n /\ d.say = y
    BY <1>2, <2>4, <2>5 DEF CeType
  <2>7. QED
    BY <1>1, <2>1, <2>2, <2>6
<1>5. PICK f : f = Piece(ce.e, ce.n, ce.say, c)
  OBVIOUS
<1>6. f \in LiFrame /\ f.k = "data" /\ f.e = ce.e /\ f.n = ce.n /\ f.i = ce.say
  <2>1. c \in Int
    BY DEF StaticConn
  <2>2. f \in [k : {"data"}, e : Nat, n : Nat, i : Nat, conn : Int]
    BY <1>3, <1>5, <2>1 DEF Piece
  <2>3. QED
    BY <1>5, <2>2 DEF Piece, LiFrame
<1>7. Longer(lframes, lframes', f)
  BY <1>2, <1>5, <1>6, LiAppend DEF Speak
<1>8. PICK l, m, h : l = lframes /\ m = lframes' /\ h = Len(l) + 1
  OBVIOUS
<1>9. /\ m \in Seq(LiFrame) /\ Len(l) \in Nat /\ Len(m) = h /\ m[h] = f /\ h \in 1..Len(m)
      /\ \A p \in 1..Len(l) : p \in 1..Len(m) /\ m[p] = l[p] /\ p < h /\ \A k : Fk(m, p, k) <=> Fk(l, p, k)
      /\ \A k : Fk(m, h, k) <=> k = "data"
      /\ \A p \in 1..Len(m) : p \in 1..Len(l) \/ p = h
      /\ Greeted(m) <=> Greeted(l)
  BY <1>6, <1>7, <1>8 DEF Longer
<1>d. \A p \in 1..Len(l) : Fk(l, p, "data") => l[p].i \in Nat /\ l[p].i < ce.say
  <2> SUFFICES ASSUME NEW p \in 1..Len(l), Fk(l, p, "data") PROVE l[p].i \in Nat /\ l[p].i < ce.say
    OBVIOUS
  <2>1. l[p] \in LiFrame
    BY <1>2, <1>8, ElementOfSeq
  <2>2. QED
    BY <1>1, <1>2, <1>8, <2>1, LiKinds DEF Fk, LineOk
<1>10. LineOk(ce', m)
  <2>1. ASSUME NEW p \in 1..Len(m)
        PROVE  /\ Fk(m, p, "deactivated") => FALSE
               /\ Fk(m, p, "activated") => p = 1 /\ m[p].e = ce'.e
               /\ Fk(m, p, "data") =>
                     /\ m[p].e = ce'.e /\ m[p].n = ce'.n
                     /\ 1 <= m[p].i /\ m[p].i <= ce'.n
                     /\ m[p].i < ce'.say
    <3>1. CASE p \in 1..Len(l)
      <4>1. /\ Fk(l, p, "deactivated") => FALSE
            /\ Fk(l, p, "activated") => p = 1 /\ l[p].e = ce.e
            /\ Fk(l, p, "data") =>
                  /\ l[p].e = ce.e /\ l[p].n = ce.n
                  /\ 1 <= l[p].i /\ l[p].i <= ce.n
        BY <1>1, <1>2, <1>8, <3>1 DEF LineOk
      <4>2. Fk(l, p, "data") => l[p].i < ce.say + 1
        BY <1>3, <1>d, <3>1
      <4>3. QED
        BY <1>4, <1>9, <3>1, <4>1, <4>2
    <3>2. CASE p = h
      BY <1>3, <1>4, <1>6, <1>9, <3>2
    <3>3. QED
      BY <1>9, <3>1, <3>2
  <2>2. ASSUME NEW p \in 1..Len(m), NEW q \in 1..Len(m), p < q, Fk(m, p, "data"), Fk(m, q, "data")
        PROVE  m[p].i < m[q].i
    <3>1. p \in 1..Len(l)
      BY <1>9, <2>2
    <3>2. CASE q \in 1..Len(l)
      <4>1. Fk(l, p, "data") /\ Fk(l, q, "data") /\ m[p] = l[p] /\ m[q] = l[q]
        BY <1>9, <2>2, <3>1, <3>2
      <4>2. QED
        BY <1>2, <1>8, <2>2, <3>1, <3>2, <4>1 DEF LineOk
    <3>3. CASE q = h
      BY <1>6, <1>9, <1>d, <2>2, <3>1, <3>3
    <3>4. QED
      BY <1>9, <3>2, <3>3
  <2>3. ce'.say \in 1..(ce'.n + 1)
    BY <1>3, <1>4
  <2>4. QED
    BY <1>4, <2>1, <2>2, <2>3 DEF LineOk
<1>11. Own(ls, ce') <=> Own(ls, ce)
  BY <1>4 DEF Own
<1>12. \A p \in 1..Len(m) : Fk(m, p, "credit") => p \in 1..Len(l) /\ Fk(l, p, "credit")
  BY <1>9
<1>13. CreditsOk(ls, ce', m)
  <2>1. OneCredit(ce')
    BY <1>1, <1>2, <1>4 DEF CreditsOk, OneCredit
  <2>2. NoGrant(l) => NoGrant(m)
    BY <1>12 DEF NoGrant
  <2>3. m # <<>>
    BY <1>9
  <2>4. CreditsOk(ls, ce, l)
    BY <1>2, <1>8
  <2>5. QED
    BY <1>1, <1>4, <1>9, <1>11, <1>12, <2>1, <2>2, <2>3, <2>4 DEF CreditsOk
<1>14. ASSUME NEW b \in Nat, Follows(b, ce, l) PROVE Follows(b, ce', m)
  <2>1. ASSUME NEW p \in 1..Len(m), Fk(m, p, "data")
        PROVE  /\ b < m[p].i
               /\ m[p].i > b + 1 => \E q \in 1..(p - 1) : Fk(m, q, "data") /\ m[q].i = m[p].i - 1
    <3>1. CASE p \in 1..Len(l)
      <4>1. Fk(l, p, "data") /\ m[p] = l[p]
        BY <1>9, <2>1, <3>1
      <4>2. ASSUME m[p].i > b + 1 PROVE \E q \in 1..(p - 1) : Fk(m, q, "data") /\ m[q].i = m[p].i - 1
        <5>1. PICK q \in 1..(p - 1) : Fk(l, q, "data") /\ l[q].i = l[p].i - 1
          BY <1>14, <3>1, <4>1, <4>2 DEF Follows
        <5>2. q \in 1..Len(l)
          BY <5>1 DEF Fk
        <5>3. QED
          BY <1>9, <4>1, <5>1, <5>2
      <4>3. QED
        BY <1>14, <3>1, <4>1, <4>2 DEF Follows
    <3>2. CASE p = h
      <4>1. m[p].i = ce.say /\ p - 1 = Len(l)
        BY <1>6, <1>8, <1>9, <3>2
      <4>2. /\ b < ce.say
            /\ ce.say > b + 1 => \E q \in 1..Len(l) : Fk(l, q, "data") /\ l[q].i = ce.say - 1
        BY <1>1, <1>3, <1>14 DEF Follows
      <4>3. ce.say > b + 1 => \E q \in 1..Len(l) : Fk(m, q, "data") /\ m[q].i = ce.say - 1
        BY <1>9, <4>2
      <4>4. QED
        BY <4>1, <4>2, <4>3
    <3>3. QED
      BY <1>9, <3>1, <3>2
  <2>2. b < ce'.say /\ \E p \in 1..Len(m) : Fk(m, p, "data") /\ m[p].i = ce'.say - 1
    <3>1. b < ce.say
      BY <1>1, <1>3, <1>14 DEF Follows
    <3>2. b < ce'.say /\ ce'.say - 1 = ce.say
      BY <1>3, <1>4, <3>1
    <3>3. Fk(m, h, "data") /\ m[h].i = ce.say
      BY <1>6, <1>9
    <3>4. QED
      BY <1>9, <3>2, <3>3
  <2>3. ce'.n # 0
    BY <1>3, <1>4
  <2>4. QED
    BY <2>1, <2>2, <2>3 DEF Follows
<1>15. PiecesOk(ls, ce', m)
  <2>1. ~(ls.out > 0 /\ Own(ls, ce))
    <3>1. ce.say # ce.n + 1
      BY <1>3
    <3>2. QED
      BY <1>1, <1>2, <3>1 DEF PiecesOk
  <2>2. Len(ls.rx) \in Nat
    BY <1>2, LenProperties DEF LsType
  <2>3. /\ Greeted(l) => Follows(0, ce, l)
        /\ ~Greeted(l) /\ ls.active /\ Own(ls, ce) /\ ls.out = 0 => Follows(Len(ls.rx), ce, l)
    BY <1>2, <1>8 DEF PiecesOk
  <2>4. /\ Greeted(m) => Follows(0, ce', m)
        /\ ~Greeted(m) /\ ls.active /\ Own(ls, ce') /\ ls.out = 0 => Follows(Len(ls.rx), ce', m)
    BY <1>9, <1>11, <1>14, <2>2, <2>3
  <2>5. ls.active /\ Own(ls, ce') => ls.rx = [i \in 1..Len(ls.rx) |-> <<ce'.e, i>>]
    BY <1>2, <1>4, <1>11 DEF PiecesOk
  <2>6. QED
    BY <1>11, <2>1, <2>4, <2>5 DEF PiecesOk
<1>16. QED
  BY <1>1, <1>2, <1>4, <1>8, <1>9, <1>10, <1>13, <1>15 DEF LiInv, ListenOk

\* A frame that is no piece leaves the pieces as they are.
LEMMA LiFollowsOn ==
    ASSUME NEW b, NEW c, NEW d, NEW l, NEW m, NEW f, Longer(l, m, f), f.k # "data", Follows(b, c, l),
           d.on => c.on /\ d.n = c.n /\ d.say = c.say
    PROVE  Follows(b, d, m)
<1>1. /\ Len(l) \in Nat
      /\ \A p \in 1..Len(l) : p \in 1..Len(m) /\ m[p] = l[p] /\ (Fk(m, p, "data") <=> Fk(l, p, "data"))
      /\ ~Fk(m, Len(l) + 1, "data")
      /\ \A p \in 1..Len(m) : p \in 1..Len(l) \/ p = Len(l) + 1
  BY DEF Longer
<1>2. ASSUME NEW p \in 1..Len(m), Fk(m, p, "data")
      PROVE  /\ b < m[p].i
             /\ m[p].i > b + 1 => \E q \in 1..(p - 1) : Fk(m, q, "data") /\ m[q].i = m[p].i - 1
  <2>1. p \in 1..Len(l) /\ Fk(l, p, "data") /\ m[p] = l[p]
    BY <1>1, <1>2
  <2>2. ASSUME m[p].i > b + 1 PROVE \E q \in 1..(p - 1) : Fk(m, q, "data") /\ m[q].i = m[p].i - 1
    <3>1. PICK q \in 1..(p - 1) : Fk(l, q, "data") /\ l[q].i = l[p].i - 1
      BY <2>1, <2>2 DEF Follows
    <3>2. q \in 1..Len(l)
      BY <3>1 DEF Fk
    <3>3. QED
      BY <1>1, <2>1, <3>1, <3>2
  <2>3. QED
    BY <2>1, <2>2 DEF Follows
<1>3. ASSUME d.on, d.n # 0
      PROVE  /\ b < d.say
             /\ d.say > b + 1 => \E p \in 1..Len(m) : Fk(m, p, "data") /\ m[p].i = d.say - 1
  BY <1>1, <1>3 DEF Follows
<1>4. d.on /\ d.n = 0 => b = 0
  BY DEF Follows
<1>5. QED
  BY <1>2, <1>3, <1>4 DEF Follows

\* ... and the line what it is, a departure at its end or none.
LEMMA LiLineOn ==
    ASSUME NEW c, NEW d, NEW l, NEW m, NEW f, Longer(l, m, f), f.k \in {"credit", "deactivated"},
           LineOk(c, l), c.on, d.on <=> f.k # "deactivated", d.n = c.n, d.e = c.e, d.on => d.say = c.say
    PROVE  LineOk(d, m) /\ m # <<>>
<1>1. /\ Len(l) \in Nat /\ Len(m) = Len(l) + 1 /\ Len(l) + 1 \in 1..Len(m)
      /\ \A p \in 1..Len(l) : p \in 1..Len(m) /\ m[p] = l[p] /\ \A k : Fk(m, p, k) <=> Fk(l, p, k)
      /\ \A k : Fk(m, Len(l) + 1, k) <=> f.k = k
      /\ \A p \in 1..Len(m) : p \in 1..Len(l) \/ p = Len(l) + 1
  BY DEF Longer
<1>2. ASSUME ~d.on PROVE Fk(m, Len(m), "deactivated")
  BY <1>1, <1>2
<1>3. ASSUME NEW p \in 1..Len(m)
      PROVE  /\ Fk(m, p, "deactivated") => p = Len(m) /\ ~d.on
             /\ Fk(m, p, "activated") => p = 1 /\ m[p].e = d.e
             /\ Fk(m, p, "data") => /\ m[p].e = d.e /\ m[p].n = d.n
                                    /\ 1 <= m[p].i /\ m[p].i <= d.n
                                    /\ d.on => m[p].i < d.say
  <2>1. CASE p \in 1..Len(l)
    <3>1. /\ ~Fk(l, p, "deactivated")
          /\ Fk(l, p, "activated") => p = 1 /\ l[p].e = c.e
          /\ Fk(l, p, "data") => /\ l[p].e = c.e /\ l[p].n = c.n
                                 /\ 1 <= l[p].i /\ l[p].i <= c.n /\ l[p].i < c.say
      BY <2>1 DEF LineOk
    <3>2. QED
      BY <1>1, <2>1, <3>1
  <2>2. CASE p = Len(l) + 1
    BY <1>1, <2>2
  <2>3. QED
    BY <1>1, <2>1, <2>2
<1>4. ASSUME NEW p \in 1..Len(m), NEW q \in 1..Len(m), p < q, Fk(m, p, "data"), Fk(m, q, "data")
      PROVE  m[p].i < m[q].i
  <2>1. p \in 1..Len(l) /\ q \in 1..Len(l)
    BY <1>1, <1>4
  <2>2. Fk(l, p, "data") /\ Fk(l, q, "data") /\ m[p] = l[p] /\ m[q] = l[q]
    BY <1>1, <1>4, <2>1
  <2>3. QED
    BY <1>4, <2>1, <2>2 DEF LineOk
<1>5. d.on /\ d.n # 0 => d.say \in 1..(d.n + 1)
  BY DEF LineOk
<1>6. m # <<>>
  BY <1>1
<1>7. QED
  BY <1>2, <1>3, <1>4, <1>5, <1>6 DEF LineOk

\* The pieces of a session stay as they are.
LEMMA LiPiecesOn ==
    ASSUME NEW s, NEW c, NEW d, NEW l, NEW m, NEW f, Longer(l, m, f), f.k \in {"credit", "deactivated"},
           PiecesOk(s, c, l), c.on, d.e = c.e, d.on => d.n = c.n /\ d.say = c.say
    PROVE  PiecesOk(s, d, m)
<1>1. f.k # "data" /\ (Greeted(m) <=> Greeted(l)) /\ (Own(s, d) <=> Own(s, c))
  BY DEF Longer, Own
<1>2. \A b : Follows(b, c, l) => Follows(b, d, m)
  BY <1>1, LiFollowsOn
<1>3. NoPiece(l) => NoPiece(m)
  BY <1>1 DEF NoPiece, Longer
<1>4. s.active /\ Own(s, d) => s.rx = [i \in 1..Len(s.rx) |-> <<d.e, i>>]
  BY <1>1 DEF PiecesOk
<1>5. QED
  BY <1>1, <1>2, <1>3, <1>4 DEF PiecesOk

\* The credit that was used comes back: the only one.
LEMMA LiRegrant ==
    ASSUME LiInv, NEW c \in {StaticConn, StaticConn + 1}, Regrant(c)
    PROVE  LiInv'
<1>1. ce.on /\ ce.owed > 0 /\ ls' = ls
  BY DEF Regrant
<1>2. /\ ls \in LsType /\ ce \in CeType /\ CreditsOk(ls, ce, lframes) /\ PiecesOk(ls, ce, lframes)
      /\ LineOk(ce, lframes) /\ lframes \in Seq(LiFrame) /\ ls.whole
  BY DEF LiInv, ListenOk
<1>3. ce.owed = 1 /\ ce.credits = 0
  BY <1>1, <1>2 DEF CreditsOk, OneCredit, CeType
<1>4. /\ ce' \in CeType /\ ce'.on /\ ce'.e = ce.e /\ ce'.credits = 1 /\ ce'.owed = 0
      /\ ce'.n = ce.n /\ ce'.say = ce.say
  <2>1. ce.owed - 1 = 0 /\ ce.credits + 1 = 1
    BY <1>3
  <2>2. PICK d : d = ce'
    OBVIOUS
  <2>3. d = [ce EXCEPT !.owed = 0, !.credits = 1]
    BY <2>1, <2>2, Zenon DEF Regrant
  <2>4. d = [armed |-> ce.armed, on |-> ce.on, e |-> ce.e, credits |-> 1, owed |-> 0,
             cmd |-> ce.cmd, n |-> ce.n, say |-> ce.say, left |-> ce.left]
    BY <1>2, <2>3 DEF CeType
  <2>6. /\ d \in CeType /\ d.on = ce.on /\ d.e = ce.e /\ d.credits = 1 /\ d.owed = 0
        /\ d.n = ce.n /\ d.say = ce.say
    BY <1>2, <2>4 DEF CeType
  <2>7. QED
    BY <1>1, <2>2, <2>6
<1>5. PICK f : f = Granted(c)
  OBVIOUS
<1>6. f \in LiFrame /\ f.k = "credit"
  <2>1. c \in Int
    BY DEF StaticConn
  <2>2. QED
    BY <1>5, <2>1 DEF Granted, LiFrame
<1>7. Longer(lframes, lframes', f)
  BY <1>2, <1>5, <1>6, LiAppend DEF Regrant
<1>8. LineOk(ce', lframes') /\ lframes' # <<>>
  <2>1. (ce'.on <=> f.k # "deactivated") /\ f.k \in {"credit", "deactivated"}
    BY <1>4, <1>6
  <2>2. QED
    BY <1>1, <1>2, <1>4, <1>7, <2>1, LiLineOn
<1>9. PiecesOk(ls, ce', lframes')
  BY <1>1, <1>2, <1>4, <1>6, <1>7, LiPiecesOn
<1>10. CreditsOk(ls, ce', lframes')
  <2>1. ~Greeted(lframes) /\ (ls.active => Own(ls, ce))
    BY <1>2, <1>3 DEF CreditsOk
  <2>2. ~Greeted(lframes')
    BY <1>6, <1>7, <2>1 DEF Longer
  <2>3. ls.active => ls.credits = 0 /\ NoGrant(lframes)
    BY <1>1, <1>2, <1>3, <2>1 DEF CreditsOk, NoGrant
  <2>4. ASSUME ls.active, NEW p \in 1..Len(lframes'), Fk(lframes', p, "credit") PROVE p = Len(lframes) + 1
    BY <1>7, <2>3, <2>4 DEF Longer, NoGrant
  <2>5. OneCredit(ce') /\ (Own(ls, ce') <=> Own(ls, ce)) /\ ls.e <= ce'.e
    BY <1>2, <1>4 DEF OneCredit, Own, CreditsOk
  <2>6. ls.out > 0 => ls.active /\ ls.credits = 0 /\ ls.rx = <<>>
    BY <1>2 DEF CreditsOk
  <2>7. QED
    BY <1>4, <1>8, <2>1, <2>2, <2>3, <2>4, <2>5, <2>6 DEF CreditsOk
<1>11. lframes' \in Seq(LiFrame)
  BY <1>7 DEF Longer
<1>12. QED
  BY <1>1, <1>2, <1>4, <1>8, <1>9, <1>10, <1>11 DEF LiInv, ListenOk

\* The reader leaves; the notice of it is the last of the line.
LEMMA LiDepart == ASSUME LiInv, Depart PROVE LiInv'
<1>1. ce.on /\ ls' = ls /\ lframes' = Append(lframes, Deactivated)
  BY DEF Depart
<1>2. /\ ls \in LsType /\ ce \in CeType /\ CreditsOk(ls, ce, lframes) /\ PiecesOk(ls, ce, lframes)
      /\ LineOk(ce, lframes) /\ lframes \in Seq(LiFrame) /\ ls.whole
  BY DEF LiInv, ListenOk
<1>3. ce.armed \in BOOLEAN
  BY <1>2 DEF CeType
<1>4. /\ ce' \in CeType /\ ce'.on = FALSE /\ ce'.e = ce.e /\ ce'.credits = 0 /\ ce'.owed = 0
      /\ ce'.n = ce.n
  <2>1. ce' = Quiescent(ce, ce.armed)
    BY DEF Depart
  <2>2. QED
    BY <1>2, <1>3, <2>1, LiQuiescent, Zenon
<1>5. Longer(lframes, lframes', Deactivated)
  BY <1>1, <1>2, LiKinds, LiAppend
<1>6. Deactivated.k = "deactivated"
  BY LiKinds
<1>7. LineOk(ce', lframes') /\ lframes' # <<>>
  <2>1. ~ce'.on
    BY <1>4
  <2>2. QED
    BY <1>1, <1>2, <1>4, <1>5, <1>6, <2>1, LiLineOn
<1>8. PiecesOk(ls, ce', lframes')
  BY <1>1, <1>2, <1>4, <1>5, <1>6, LiPiecesOn
<1>9. CreditsOk(ls, ce', lframes')
  <2>1. Greeted(lframes') <=> Greeted(lframes)
    BY <1>5, <1>6 DEF Longer
  <2>2. NoGrant(lframes) => NoGrant(lframes')
    BY <1>5, <1>6 DEF Longer, NoGrant
  <2>3. OneCredit(ce') /\ (Own(ls, ce') <=> Own(ls, ce))
    BY <1>4 DEF OneCredit, Own
  <2>4. QED
    BY <1>2, <1>4, <1>7, <2>1, <2>2, <2>3 DEF CreditsOk
<1>10. lframes' \in Seq(LiFrame)
  BY <1>5 DEF Longer
<1>11. QED
  BY <1>1, <1>2, <1>4, <1>7, <1>8, <1>9, <1>10 DEF LiInv, ListenOk

\* Every step of the loop, the controller and the reader keeps the invariant.
LEMMA LiStepSound == LiInv /\ [LiNext]_liVars => LiInv'
<1> SUFFICES ASSUME LiInv, [LiNext]_liVars PROVE LiInv'
  OBVIOUS
<1>1. CASE UNCHANGED liVars
  BY <1>1 DEF liVars, LiInv
<1>2. QED
  BY <1>1, LiPoll, LiAwaitFrame, LiAwaitQuiet, LiArrive, LiDepart, LiCommand, LiSpeak, LiRegrant DEF LiNext

\* What the invariant says of commands and credits.
LEMMA LiInvIsEnough == LiInv => ListenIsSound
BY DEF LiInv, ListenOk, ListenIsSound, AnswersWhole, ListenCreditRespected, CeType

\* The emulated card answers only commands that arrived whole in the activation
\* it answers, and spends no credit it was not granted.
THEOREM ListenAnswersWhole == LiSpec => []ListenIsSound
BY LiInitial, LiStepSound, LiInvIsEnough, PTL DEF LiSpec

-----------------------------------------------------------------------------
(* The pcscd driver has every command executed once *)

Tags == {"echo", "ext", "done", "failed", "absent"}
Req == [call : Nat, seq : Nat, kind : Messages]
Frm == [t : Tags, call : Nat, seq : Nat]

\* A connection holds at most one request the board has not finished.
ConnType == [up : {<<>>} \cup {<<r>> : r \in Req}, down : Seq(Frm), open : BOOLEAN, alive : BOOLEAN]
DrvType == [at : {"idle", "connect", "send", "echo", "answer"}, call : 0..MaxCalls, kind : Messages,
            seq : Nat, fd : Nat, attempt : Nat, ext : Nat]
BoardType == [fd : Nat, next : Nat \ {0}, cmd : Nat, exts : Nat, card : BOOLEAN]
Results == {"none", "ok", "present", "absent", "error"}

IfTypes ==
    /\ drv \in DrvType /\ net \in Seq(ConnType) /\ board \in BoardType
    /\ runs \in [Calls -> {0, 1}] /\ result \in [Calls -> Results]

\* The frames on their way to the driver, oldest first, are those of its call: the
\* echo, which is read first, the extensions, and the answer of an executed command.
Unread(d) == IF d.at = "echo" THEN 1 ELSE 0

FramesOk(d, r, s) ==
    \A p \in 1..Len(s) :
        /\ s[p].call = d.call /\ s[p].seq = d.seq
        /\ s[p].t = "echo" <=> (p = 1 /\ d.at = "echo")
        /\ s[p].t = "ext" => MayExtend(d.kind) /\ p - Unread(d) + d.ext <= BoardExtends
        /\ s[p].t \notin {"echo", "ext"} => r[d.call] = 1 /\ p = Len(s)

\* The driver's connection c: empty between two calls; then the request is on its
\* way, or the board works on it and has said what the driver has read or can read.
MineOk(d, b, r, c) ==
    /\ c.open
    /\ d.at \in {"idle", "connect", "send"} => c.up = <<>> /\ c.down = <<>>
    /\ d.at \in {"echo", "answer"} => FramesOk(d, r, c.down)
    /\ c.up # <<>> =>
          /\ Head(c.up) = Request(d.call, d.seq, d.kind)
          /\ \A p \in 1..Len(c.down) : c.down[p].t \in {"echo", "ext"}
          /\ IF b.fd = d.fd /\ b.cmd # 0
             THEN Len(c.down) - Unread(d) + d.ext = b.exts /\ b.exts <= BoardExtends
             ELSE d.at = "echo" /\ c.down = <<>>

\* The requests under way, on connections given up too: each of a call of its own
\* that no card has seen, and none of a call the driver still has to send.
PendingOk(d, r, u) ==
    u # <<>> => /\ Head(u).call \in 1..d.call /\ r[Head(u).call] = 0
                /\ d.at \in {"connect", "send"} => Head(u).call # d.call

RequestsOk(d, r, n) ==
    /\ \A i \in 1..Len(n) : PendingOk(d, r, n[i].up)
    /\ \A i, j \in 1..Len(n) :
          n[i].up # <<>> /\ n[j].up # <<>> /\ Head(n[i].up).call = Head(n[j].up).call => i = j

DriverOk(d, n) ==
    /\ d.fd # 0 => d.fd = Len(n)
    /\ d.at \in {"send", "echo", "answer"} => d.fd # 0
    /\ d.at # "idle" => d.call \in Calls
    /\ d.at \in {"connect", "send", "echo"} => d.ext = 0

BoardOk(b, n) ==
    /\ b.fd <= Len(n)
    /\ b.cmd # 0 => b.fd # 0 /\ n[b.fd].up # <<>> /\ Head(n[b.fd].up).call = b.cmd

\* No card has seen a command that was not sent.
RunsOk(d, r) ==
    \A c \in Calls : c > d.call \/ (c = d.call /\ d.at \in {"connect", "send"}) => r[c] = 0

ResultsOk(r, s) == ~PowerOffShim => \A c \in Calls : s[c] \in {"ok", "present"} => r[c] = 1

IfInv ==
    /\ IfTypes
    /\ DriverOk(drv, net) /\ BoardOk(board, net)
    /\ drv.fd # 0 => MineOk(drv, board, runs, net[drv.fd])
    /\ RequestsOk(drv, runs, net) /\ RunsOk(drv, runs) /\ ResultsOk(runs, result)

\* The types, by name.
LEMMA IfTyped ==
    ASSUME IfInv
    PROVE  /\ drv \in DrvType /\ net \in Seq(ConnType) /\ board \in BoardType
           /\ runs \in [Calls -> {0, 1}] /\ result \in [Calls -> Results]
           /\ Len(net) \in Nat /\ DOMAIN net = 1..Len(net)
           /\ \A i \in 1..Len(net) : net[i] \in ConnType
BY LenProperties, ElementOfSeq DEF IfInv, IfTypes

\* One connection changes and the others stay.
LEMMA NetSet ==
    ASSUME NEW n \in Seq(ConnType), NEW i \in 1..Len(n), NEW c \in ConnType, NEW m,
           m = [n EXCEPT ![i] = c]
    PROVE  /\ m \in Seq(ConnType) /\ Len(m) = Len(n) /\ m[i] = c
           /\ \A j \in 1..Len(n) : j # i => m[j] = n[j]
<1>1. /\ m \in Seq(ConnType) /\ Len(m) = Len(n)
      /\ \A j \in 1..Len(n) : m[j] = IF j = i THEN c ELSE n[j]
  BY ExceptSeq
<1>2. QED
  BY <1>1

\* The part of a connection record.
LEMMA ConnParts ==
    ASSUME NEW c \in ConnType
    PROVE  /\ c = [up |-> c.up, down |-> c.down, open |-> c.open, alive |-> c.alive]
           /\ c.up \in {<<>>} \cup {<<r>> : r \in Req} /\ c.down \in Seq(Frm)
           /\ c.open \in BOOLEAN /\ c.alive \in BOOLEAN
           /\ c.up # <<>> => /\ Head(c.up) \in Req /\ Tail(c.up) = <<>> /\ Len(c.up) = 1
                             /\ c.up = <<Head(c.up)>>
<1>1. /\ c = [up |-> c.up, down |-> c.down, open |-> c.open, alive |-> c.alive]
      /\ c.up \in {<<>>} \cup {<<r>> : r \in Req} /\ c.down \in Seq(Frm)
      /\ c.open \in BOOLEAN /\ c.alive \in BOOLEAN
  BY DEF ConnType
<1>2. ASSUME c.up # <<>>
      PROVE  Head(c.up) \in Req /\ Tail(c.up) = <<>> /\ Len(c.up) = 1 /\ c.up = <<Head(c.up)>>
  <2>1. PICK r \in Req : c.up = <<r>>
    BY <1>1, <1>2
  <2>2. QED
    BY <2>1
<1>3. QED
  BY <1>1, <1>2

\* Requests stay apart when none is added.
LEMMA FewerRequests ==
    ASSUME NEW d, NEW e, NEW r, NEW n, NEW m, RequestsOk(d, r, n), Len(m) = Len(n),
           \A i \in 1..Len(n) : m[i].up = n[i].up \/ m[i].up = <<>>,
           e.call = d.call, e.at \in {"connect", "send"} => d.at \in {"connect", "send"}
    PROVE  RequestsOk(e, r, m)
BY DEF RequestsOk, PendingOk

\* Nor when a command is executed and its request is gone.
LEMMA OneExecuted ==
    ASSUME NEW d, NEW r, NEW q, NEW n, NEW m, RequestsOk(d, r, n), Len(m) = Len(n),
           NEW k \in 1..Len(n), m[k].up = <<>>, n[k].up # <<>>,
           \A i \in 1..Len(n) : i # k => m[i].up = n[i].up,
           \A c \in 1..d.call : c # Head(n[k].up).call => q[c] = r[c]
    PROVE  RequestsOk(d, q, m)
<1>1. ASSUME NEW i \in 1..Len(n), m[i].up # <<>> PROVE PendingOk(d, q, m[i].up)
  <2>1. i # k /\ m[i].up = n[i].up
    BY <1>1
  <2>2. Head(n[i].up).call # Head(n[k].up).call
    BY <1>1, <2>1 DEF RequestsOk
  <2>3. PendingOk(d, r, n[i].up)
    BY DEF RequestsOk
  <2>4. q[Head(n[i].up).call] = r[Head(n[i].up).call]
    BY <1>1, <2>1, <2>2, <2>3, Zenon DEF PendingOk
  <2>5. QED
    BY <2>1, <2>3, <2>4 DEF PendingOk
<1>2. \A i \in 1..Len(n) : PendingOk(d, q, m[i].up)
  BY <1>1 DEF PendingOk
<1>3. QED
  BY <1>2 DEF RequestsOk

\* The board's command is still there.
LEMMA BoardSame ==
    ASSUME NEW b, NEW n, NEW m, BoardOk(b, n), Len(n) \in Nat, Len(m) = Len(n), b \in BoardType,
           \A i \in 1..Len(n) : m[i].up = n[i].up
    PROVE  BoardOk(b, m)
BY DEF BoardOk, BoardType

\* An ejected connection keeps what it holds.
LEMMA EjectedHolds ==
    ASSUME IfInv, drv.fd # 0, EjectConn
    PROVE  /\ net' \in Seq(ConnType) /\ Len(net') = Len(net)
           /\ \A i \in 1..Len(net) : net'[i].up = net[i].up
<1>1. /\ net \in Seq(ConnType) /\ drv.fd \in 1..Len(net) /\ net[drv.fd] \in ConnType
  BY IfTyped DEF IfInv, DriverOk
<1>k. PICK k \in ConnType : k = net[drv.fd]
  BY <1>1
<1>2. PICK c : c = [k EXCEPT !.open = FALSE]
  OBVIOUS
<1>3. c = [up |-> k.up, down |-> k.down, open |-> FALSE, alive |-> k.alive]
  BY <1>2 DEF ConnType
<1>4. c \in ConnType /\ c.up = net[drv.fd].up
  BY <1>3, <1>k DEF ConnType
<1>5. net' = [net EXCEPT ![drv.fd] = c]
  BY <1>2, <1>k, Zenon DEF EjectConn
<1>6. net' \in Seq(ConnType) /\ Len(net') = Len(net) /\ net'[drv.fd] = c
      /\ \A j \in 1..Len(net) : j # drv.fd => net'[j] = net[j]
  BY <1>1, <1>4, <1>5, NetSet
<1>7. QED
  BY <1>4, <1>6

\* A call that gives up leaves no connection behind it.
LEMMA IfEjects ==
    ASSUME IfInv, drv.fd # 0, EjectConn, UNCHANGED <<board, runs>>,
           NEW a \in {"idle", "connect"}, a = "connect" => drv.at = "send",
           drv' \in DrvType, drv'.at = a, drv'.fd = 0, drv'.call = drv.call,
           a = "connect" => drv'.ext = 0,
           result' \in [Calls -> Results], ResultsOk(runs, result')
    PROVE  IfInv'
<1>1. /\ net' \in Seq(ConnType) /\ Len(net') = Len(net)
      /\ \A i \in 1..Len(net) : net'[i].up = net[i].up
  BY EjectedHolds
<1>2. IfTypes'
  BY <1>1, IfTyped DEF IfTypes
<1>3. DriverOk(drv', net')
  BY DEF DriverOk, IfInv
<1>4. BoardOk(board', net')
  BY <1>1, IfTyped, BoardSame DEF IfInv
<1>5. RequestsOk(drv', runs', net')
  <2>1. RequestsOk(drv, runs, net)
    BY DEF IfInv
  <2>2. RequestsOk(drv', runs, net')
    BY <1>1, <2>1, FewerRequests
  <2>3. QED
    BY <2>2
<1>6. RunsOk(drv', runs')
  BY DEF RunsOk, IfInv
<1>7. QED
  BY <1>2, <1>3, <1>4, <1>5, <1>6 DEF IfInv

\* What an ended call returns.
LEMMA IfReturns ==
    ASSUME IfInv, drv.call \in Calls, NEW s \in Results,
           s \in {"ok", "present"} /\ ~PowerOffShim => runs[drv.call] = 1,
           result' = [result EXCEPT ![drv.call] = s]
    PROVE  result' \in [Calls -> Results] /\ ResultsOk(runs, result')
BY IfTyped DEF IfInv, ResultsOk

\* GiveUp.
LEMMA IfGivesUp ==
    ASSUME IfInv, drv.at \in {"send", "echo", "answer"}, GiveUp, UNCHANGED <<board, runs>>
    PROVE  IfInv'
<1>1. drv.fd # 0 /\ drv.call \in Calls
  BY DEF IfInv, DriverOk
<1>2. Failed \in {"absent", "error"}
  BY DEF Failed
<1>3. result' \in [Calls -> Results] /\ ResultsOk(runs, result')
  BY <1>1, <1>2, IfReturns DEF GiveUp, Results
<1>4. drv' = [drv EXCEPT !.at = "idle", !.fd = 0] /\ EjectConn
  BY DEF GiveUp
<1>5. drv' \in DrvType /\ drv'.at = "idle" /\ drv'.fd = 0 /\ drv'.call = drv.call
  BY <1>4, IfTyped DEF DrvType
<1>6. QED
  BY <1>1, <1>3, <1>4, <1>5, IfEjects

\* pcscd calls: the connection, if there is one, is empty.
LEMMA IfEnter == ASSUME IfInv, NEW k \in Messages, Enter(k) PROVE IfInv'
<1>1. drv.at = "idle" /\ drv.call < MaxCalls /\ UNCHANGED <<net, board, runs>>
  BY DEF Enter
<1>2. PICK a \in {"idle", "connect"} : a = IF k = "off" /\ PowerOffShim THEN "idle" ELSE "connect"
  OBVIOUS
<1>3. PICK q \in Nat : q = IF k = "off" /\ PowerOffShim THEN drv.seq ELSE (drv.seq + 1) % SeqValues
  BY IfTyped, IfdAssumption DEF DrvType
<1>4. drv' = [drv EXCEPT !.at = a, !.call = drv.call + 1, !.kind = k, !.attempt = 1, !.ext = 0, !.seq = q]
  BY <1>2, <1>3 DEF Enter
<1>5. drv' = [at |-> a, call |-> drv.call + 1, kind |-> k, seq |-> q, fd |-> drv.fd, attempt |-> 1,
              ext |-> 0]
  BY <1>4, IfTyped DEF DrvType
<1>6. /\ drv.call \in 0..MaxCalls /\ drv.call + 1 \in Calls /\ drv.call \in Nat
      /\ drv.fd \in Nat
  BY <1>1, IfTyped, IfdAssumption DEF DrvType, Calls
<1>7. drv' \in DrvType
  BY <1>5, <1>6, IfdAssumption DEF DrvType, Calls
<1>8. drv'.at = a /\ drv'.call = drv.call + 1 /\ drv'.fd = drv.fd /\ drv'.ext = 0
  BY <1>5
<1>9. PICK s \in Results : /\ result' = [result EXCEPT ![drv.call + 1] = s]
                           /\ ~PowerOffShim => s = result[drv.call + 1]
  BY <1>6, IfTyped DEF Enter, Results
<1>10. IfTypes'
  BY <1>1, <1>6, <1>7, <1>9, IfTyped DEF IfTypes
<1>11. DriverOk(drv', net') /\ BoardOk(board', net')
  BY <1>1, <1>6, <1>8 DEF IfInv, DriverOk
<1>12. drv'.fd # 0 => MineOk(drv', board', runs', net'[drv'.fd])
  BY <1>1, <1>8 DEF IfInv, MineOk
<1>13. RequestsOk(drv', runs', net')
  <2>1. \A i \in 1..Len(net) : net[i].up # <<>> => Head(net[i].up).call \in 1..drv.call
                                                    /\ runs[Head(net[i].up).call] = 0
    BY DEF IfInv, RequestsOk, PendingOk
  <2>2. \A x \in 1..drv.call : x \in 1..(drv.call + 1) /\ x # drv.call + 1
    BY <1>6
  <2>3. \A i \in 1..Len(net) : PendingOk(drv', runs', net'[i].up)
    BY <1>1, <1>8, <2>1, <2>2 DEF PendingOk
  <2>4. QED
    BY <1>1, <2>3 DEF IfInv, RequestsOk
<1>14. RunsOk(drv', runs')
  BY <1>1, <1>6, <1>8, IfdAssumption DEF IfInv, RunsOk, Calls
<1>15. ResultsOk(runs', result')
  BY <1>1, <1>6, <1>9, IfTyped DEF IfInv, ResultsOk
<1>16. QED
  BY <1>10, <1>11, <1>12, <1>13, <1>14, <1>15 DEF IfInv

\* A new connection is the last one and empty.
LEMMA IfConnect == ASSUME IfInv, Connect PROVE IfInv'
<1>0. drv.at = "connect" /\ UNCHANGED <<board, runs>> /\ drv.call \in Calls /\ drv.ext = 0
  BY DEF Connect, IfInv, DriverOk
<1>1. CASE drv.fd # 0 /\ drv' = [drv EXCEPT !.at = "send"] /\ UNCHANGED <<net, result>>
  <2>1. drv' \in DrvType /\ drv'.at = "send" /\ drv'.fd = drv.fd /\ drv'.call = drv.call
        /\ drv'.ext = drv.ext
    BY <1>1, IfTyped DEF DrvType
  <2>2. IfTypes'
    BY <1>0, <1>1, <2>1 DEF IfInv, IfTypes
  <2>3. DriverOk(drv', net') /\ BoardOk(board', net')
    BY <1>0, <1>1, <2>1 DEF IfInv, DriverOk
  <2>4. MineOk(drv', board', runs', net'[drv'.fd])
    BY <1>0, <1>1, <2>1 DEF IfInv, MineOk
  <2>5. RequestsOk(drv', runs', net') /\ RunsOk(drv', runs')
    BY <1>0, <1>1, <2>1 DEF IfInv, RequestsOk, PendingOk, RunsOk
  <2>6. QED
    BY <1>0, <1>1, <2>2, <2>3, <2>4, <2>5 DEF IfInv
<1>2. CASE /\ drv.fd = 0
           /\ net' = Append(net, [up |-> <<>>, down |-> <<>>, open |-> TRUE, alive |-> TRUE])
           /\ drv' = [drv EXCEPT !.at = "send", !.fd = Len(net) + 1]
           /\ UNCHANGED result
  <2>1. PICK c : c = [up |-> <<>>, down |-> <<>>, open |-> TRUE, alive |-> TRUE]
    OBVIOUS
  <2>2. c \in ConnType /\ c.up = <<>> /\ c.down = <<>> /\ c.open
    BY <2>1, EmptySeq DEF ConnType
  <2>3. net' = Append(net, c)
    BY <1>2, <2>1
  <2>4. /\ net' \in Seq(ConnType) /\ Len(net') = Len(net) + 1 /\ net'[Len(net) + 1] = c
        /\ \A i \in 1..Len(net) : net'[i] = net[i]
    BY <2>2, <2>3, IfTyped, AppendProperties
  <2>5. Len(net) \in Nat
    BY IfTyped
  <2>6. drv' \in DrvType /\ drv'.at = "send" /\ drv'.fd = Len(net) + 1 /\ drv'.call = drv.call
        /\ drv'.ext = drv.ext
    <3>1. PICK f \in Nat : f = Len(net) + 1
      BY <2>5
    <3>2. drv' = [drv EXCEPT !.at = "send", !.fd = f]
      BY <1>2, <3>1
    <3>3. drv \in DrvType
      BY IfTyped
    <3>4. drv' \in DrvType /\ drv'.at = "send" /\ drv'.fd = f /\ drv'.call = drv.call /\ drv'.ext = drv.ext
      BY <3>2, <3>3 DEF DrvType
    <3>5. QED
      BY <3>1, <3>4
  <2>7. IfTypes'
    BY <1>0, <1>2, <2>4, <2>6, IfTyped DEF IfTypes
  <2>8. DriverOk(drv', net')
    BY <1>0, <2>4, <2>6 DEF DriverOk
  <2>9. BoardOk(board', net')
    <3>1. BoardOk(board, net) /\ board.fd \in Nat
      BY IfTyped DEF IfInv, BoardType
    <3>2. board.fd # 0 => net'[board.fd] = net[board.fd]
      BY <2>4, <2>5, <3>1 DEF BoardOk
    <3>3. board.fd <= Len(net')
      BY <2>4, <2>5, <3>1 DEF BoardOk
    <3>4. QED
      BY <1>0, <3>1, <3>2, <3>3 DEF BoardOk
  <2>10. MineOk(drv', board', runs', net'[drv'.fd])
    BY <2>2, <2>4, <2>6 DEF MineOk
  <2>11. RequestsOk(drv', runs', net')
    <3>1. RequestsOk(drv, runs, net)
      BY DEF IfInv
    <3>2. \A i \in 1..Len(net') : i \in 1..Len(net) \/ net'[i] = c
      BY <2>4, <2>5
    <3>3. \A i \in 1..Len(net') : net'[i].up # <<>> => i \in 1..Len(net) /\ net'[i].up = net[i].up
      BY <2>2, <2>4, <3>2
    <3>4. \A i \in 1..Len(net) : PendingOk(drv', runs', net[i].up)
      BY <1>0, <2>6, <3>1 DEF RequestsOk, PendingOk
    <3>5. \A i \in 1..Len(net') : PendingOk(drv', runs', net'[i].up)
      BY <3>3, <3>4 DEF PendingOk
    <3>6. QED
      BY <3>1, <3>3, <3>5 DEF RequestsOk
  <2>12. RunsOk(drv', runs')
    BY <1>0, <2>6 DEF IfInv, RunsOk
  <2>13. QED
    BY <1>0, <1>2, <2>7, <2>8, <2>9, <2>10, <2>11, <2>12 DEF IfInv
<1>3. CASE drv.fd = 0 /\ ReturnTo(Failed) /\ UNCHANGED net
  <2>1. Failed \in {"absent", "error"}
    BY DEF Failed
  <2>2. result' \in [Calls -> Results] /\ ResultsOk(runs, result')
    BY <1>0, <1>3, <2>1, IfReturns DEF ReturnTo, Results
  <2>3. drv' \in DrvType /\ drv'.at = "idle" /\ drv'.fd = 0 /\ drv'.call = drv.call
    BY <1>3, IfTyped DEF ReturnTo, DrvType
  <2>4. IfTypes'
    BY <1>0, <1>3, <2>2, <2>3, IfTyped DEF IfTypes
  <2>5. DriverOk(drv', net') /\ BoardOk(board', net') /\ RunsOk(drv', runs')
    BY <1>0, <1>3, <2>3 DEF IfInv, DriverOk, RunsOk
  <2>6. RequestsOk(drv', runs', net')
    BY <1>0, <1>3, <2>3 DEF IfInv, RequestsOk, PendingOk
  <2>7. QED
    BY <1>0, <2>2, <2>3, <2>4, <2>5, <2>6 DEF IfInv
<1>4. QED
  BY <1>1, <1>2, <1>3 DEF Connect

\* The request is handed over once: from then on the call is not one to send.
LEMMA IfSend == ASSUME IfInv, SendRequest PROVE IfInv'
<1>0. /\ drv.at = "send" /\ UNCHANGED <<board, runs>> /\ drv.call \in Calls /\ drv.fd # 0
      /\ drv.fd = Len(net) /\ drv.ext = 0
  BY DEF SendRequest, IfInv, DriverOk
<1>1. CASE /\ net' = IF Conn.alive THEN [net EXCEPT ![drv.fd].up = Append(@, MyRequest)] ELSE net
           /\ drv' = [drv EXCEPT !.at = "echo"] /\ UNCHANGED result
  <2>1. drv' \in DrvType /\ drv'.at = "echo" /\ drv'.fd = drv.fd /\ drv'.call = drv.call
        /\ drv'.ext = 0 /\ drv'.seq = drv.seq /\ drv'.kind = drv.kind
    BY <1>0, <1>1, IfTyped DEF DrvType
  <2>2. /\ net \in Seq(ConnType) /\ drv.fd \in 1..Len(net) /\ Len(net) \in Nat
        /\ MineOk(drv, board, runs, net[drv.fd]) /\ RequestsOk(drv, runs, net)
    BY <1>0, IfTyped DEF IfInv
  <2>3. PICK k \in ConnType : k = net[drv.fd]
    BY <2>2, IfTyped
  <2>4. k.up = <<>> /\ k.down = <<>> /\ k.open
    BY <1>0, <2>2, <2>3 DEF MineOk
  <2>5. MyRequest \in Req /\ MyRequest.call = drv.call
    BY IfTyped, IfdAssumption DEF MyRequest, Request, Req, DrvType
  <2>6. PICK u \in {<<>>} \cup {<<r>> : r \in Req} : u = IF Conn.alive THEN <<MyRequest>> ELSE <<>>
    BY <2>5
  <2>7. PICK c : c = [up |-> u, down |-> k.down, open |-> k.open, alive |-> k.alive]
    OBVIOUS
  <2>8. c \in ConnType /\ c.up = u /\ c.down = <<>> /\ c.open
    BY <2>4, <2>7, EmptySeq, ConnParts DEF ConnType
  <2>9. net' \in Seq(ConnType) /\ Len(net') = Len(net) /\ net'[drv.fd] = c
        /\ \A j \in 1..Len(net) : j # drv.fd => net'[j] = net[j]
    <3>1. CASE Conn.alive
      <4>0. u = <<MyRequest>>
        BY <2>6, <3>1
      <4>1. [k EXCEPT !.up = u] = c
        BY <2>7 DEF ConnType
      <4>2. Append(net[drv.fd].up, MyRequest) = u
        BY <2>3, <2>4, <4>0
      <4>3. net' = [net EXCEPT ![drv.fd] = [net[drv.fd] EXCEPT !.up = u]]
        BY <1>1, <3>1, <4>2, Zenon
      <4>4. net' = [net EXCEPT ![drv.fd] = c]
        BY <2>3, <4>1, <4>3, Zenon
      <4>5. QED
        BY <2>2, <2>8, <4>4, NetSet
    <3>2. CASE ~Conn.alive
      <4>1. net' = net
        BY <1>1, <3>2
      <4>2. k = c
        BY <2>4, <2>6, <2>7, <3>2, ConnParts
      <4>3. QED
        BY <2>2, <2>3, <4>1, <4>2
    <3>3. QED
      BY <3>1, <3>2
  <2>10. IfTypes'
    BY <1>0, <1>1, <2>1, <2>9, IfTyped DEF IfTypes
  <2>11. DriverOk(drv', net')
    BY <1>0, <2>1, <2>9 DEF DriverOk
  <2>12. board.cmd # 0 => board.fd # drv.fd
    BY <2>3, <2>4 DEF IfInv, BoardOk
  <2>13. BoardOk(board', net')
    <3>1. BoardOk(board, net) /\ board.fd \in Nat
      BY IfTyped DEF IfInv, BoardType
    <3>2. board.cmd # 0 => net'[board.fd] = net[board.fd]
      BY <2>2, <2>9, <2>12, <3>1 DEF BoardOk
    <3>3. QED
      BY <1>0, <2>9, <3>1, <3>2 DEF BoardOk
  <2>14. MineOk(drv', board', runs', net'[drv'.fd])
    <3>1. u # <<>> => Head(u) = Request(drv'.call, drv'.seq, drv'.kind)
      BY <2>1, <2>6 DEF MyRequest
    <3>2. Len(<<>>) = 0 /\ FramesOk(drv', runs', <<>>)
      BY DEF FramesOk
    <3>3. QED
      BY <1>0, <2>1, <2>8, <2>9, <2>12, <3>1, <3>2 DEF MineOk
  <2>15. RequestsOk(drv', runs', net')
    <3>1. ASSUME NEW i \in 1..Len(net) PROVE PendingOk(drv', runs', net'[i].up)
      <4>1. CASE i = drv.fd
        <5>1. runs[drv.call] = 0
          BY <1>0 DEF IfInv, RunsOk
        <5>2. u # <<>> => Head(u).call = drv.call
          BY <2>5, <2>6
        <5>3. drv.call \in 1..drv.call
          BY <1>0, IfTyped DEF DrvType, Calls
        <5>4. QED
          BY <1>0, <2>1, <2>8, <2>9, <4>1, <5>1, <5>2, <5>3 DEF PendingOk
      <4>2. CASE i # drv.fd
        BY <1>0, <2>1, <2>2, <2>9, <4>2 DEF PendingOk, RequestsOk
      <4>3. QED
        BY <4>1, <4>2
    <3>2. ASSUME NEW i \in 1..Len(net), net[i].up # <<>> PROVE Head(net[i].up).call # drv.call
      BY <1>0, <2>2, <3>2 DEF RequestsOk, PendingOk
    <3>3. u # <<>> => Head(u).call = drv.call
      BY <2>5, <2>6
    <3>4. ASSUME NEW i \in 1..Len(net), NEW j \in 1..Len(net), net'[i].up # <<>>, net'[j].up # <<>>,
                 Head(net'[i].up).call = Head(net'[j].up).call
          PROVE  i = j
      <4>1. CASE i = drv.fd
        BY <2>8, <2>9, <3>2, <3>3, <3>4, <4>1
      <4>2. CASE j = drv.fd
        BY <2>8, <2>9, <3>2, <3>3, <3>4, <4>2
      <4>3. CASE i # drv.fd /\ j # drv.fd
        BY <2>2, <2>9, <3>4, <4>3 DEF RequestsOk
      <4>4. QED
        BY <4>1, <4>2, <4>3
    <3>5. QED
      BY <2>9, <3>1, <3>4 DEF RequestsOk
  <2>16. RunsOk(drv', runs')
    BY <1>0, <2>1 DEF IfInv, RunsOk
  <2>17. QED
    BY <1>0, <1>1, <2>10, <2>11, <2>13, <2>14, <2>15, <2>16 DEF IfInv
<1>2. CASE /\ EjectConn /\ drv' = [drv EXCEPT !.at = "connect", !.fd = 0, !.attempt = 2]
           /\ UNCHANGED result
  <2>1. drv' \in DrvType /\ drv'.at = "connect" /\ drv'.fd = 0 /\ drv'.call = drv.call /\ drv'.ext = 0
    BY <1>0, <1>2, IfTyped DEF DrvType
  <2>2. result' \in [Calls -> Results] /\ ResultsOk(runs, result')
    BY <1>2, IfTyped DEF IfInv
  <2>3. QED
    BY <1>0, <1>2, <2>1, <2>2, IfEjects
<1>3. CASE GiveUp
  BY <1>0, <1>3, IfGivesUp
<1>4. QED
  BY <1>1, <1>2, <1>3 DEF SendRequest

\* The frames after the first.
LEMMA FramesRead ==
    ASSUME NEW d, NEW e, NEW r, NEW s \in Seq(Frm), s # <<>>, FramesOk(d, r, s),
           d.ext \in Nat, e.ext \in Nat,
           e.call = d.call, e.seq = d.seq, e.kind = d.kind, e.at = "answer",
           Unread(e) + d.ext + 1 = Unread(d) + e.ext
    PROVE  /\ Tail(s) \in Seq(Frm) /\ Len(Tail(s)) = Len(s) - 1 /\ FramesOk(e, r, Tail(s))
           /\ \A p \in 1..Len(Tail(s)) : p + 1 \in 1..Len(s) /\ Tail(s)[p] = s[p + 1]
<1>1. PICK w \in Seq(Frm) : w = Tail(s)
  BY HeadTailProperties
<1>2. Len(w) = Len(s) - 1 /\ Len(s) \in Nat /\ Len(w) \in Nat
  BY <1>1, HeadTailProperties, LenProperties
<1>3. \A p \in 1..Len(w) : w[p] = s[p + 1]
  BY <1>1, HeadTailProperties
<1>4. ASSUME NEW p \in 1..Len(w)
      PROVE  /\ p + 1 \in 1..Len(s) /\ p + 1 # 1
             /\ p + 1 = Len(s) => p = Len(w)
             /\ (p + 1) - Unread(d) + d.ext = p - Unread(e) + e.ext
  <2>1. Unread(d) \in Nat /\ Unread(e) \in Nat
    BY DEF Unread
  <2>2. (p + 1) - Unread(d) + d.ext = p - Unread(e) + e.ext
    <3>1. PICK x \in Nat, y \in Nat, g \in Nat, h \in Nat :
             x = d.ext /\ y = e.ext /\ g = Unread(d) /\ h = Unread(e)
      BY <2>1, Zenon
    <3>2. h + x + 1 = g + y
      BY <3>1, Zenon
    <3>3. (p + 1) - g + x = p - h + y
      BY <1>2, <3>2
    <3>4. QED
      BY <3>1, <3>3, Zenon
  <2>3. QED
    BY <1>2, <2>2
<1>5. FramesOk(e, r, w)
  <2> SUFFICES ASSUME NEW p \in 1..Len(w)
               PROVE  /\ w[p].call = e.call /\ w[p].seq = e.seq
                      /\ w[p].t = "echo" <=> (p = 1 /\ e.at = "echo")
                      /\ w[p].t = "ext" => MayExtend(e.kind) /\ p - Unread(e) + e.ext <= BoardExtends
                      /\ w[p].t \notin {"echo", "ext"} => r[e.call] = 1 /\ p = Len(w)
    BY DEF FramesOk
  <2>1. w[p] = s[p + 1] /\ p + 1 \in 1..Len(s)
    BY <1>3, <1>4
  <2>2. /\ s[p + 1].call = d.call /\ s[p + 1].seq = d.seq
        /\ s[p + 1].t # "echo"
        /\ s[p + 1].t = "ext" => MayExtend(d.kind) /\ (p + 1) - Unread(d) + d.ext <= BoardExtends
        /\ s[p + 1].t \notin {"echo", "ext"} => r[d.call] = 1 /\ p + 1 = Len(s)
    BY <1>4, <2>1 DEF FramesOk
  <2>3. QED
    BY <1>4, <2>1, <2>2
<1>6. QED
  BY <1>1, <1>2, <1>3, <1>4, <1>5

\* The first frame the driver finds.
LEMMA FirstFrame ==
    ASSUME NEW d, NEW r, NEW s \in Seq(Frm), s # <<>>, FramesOk(d, r, s)
    PROVE  /\ Len(s) >= 1 /\ Len(s) \in Nat /\ Head(s) = s[1] /\ Head(s) \in Frm
           /\ Head(s).call = d.call /\ Head(s).seq = d.seq
           /\ Head(s).t = "echo" <=> d.at = "echo"
           /\ Head(s).t = "ext" => MayExtend(d.kind) /\ 1 - Unread(d) + d.ext <= BoardExtends
           /\ Head(s).t \notin {"echo", "ext"} => r[d.call] = 1 /\ Len(s) = 1
<1>1. Len(s) >= 1 /\ Len(s) \in Nat /\ Head(s) = s[1] /\ Head(s) \in Frm
  BY HeadTailProperties, LenProperties, EmptySeq
<1>2. 1 \in 1..Len(s)
  BY <1>1
<1>3. QED
  BY <1>1, <1>2 DEF FramesOk

\* A frame is read off the driver's connection.
LEMMA FrameDropped ==
    ASSUME IfInv, drv.at \in {"echo", "answer"}, Arrived, Drop1
    PROVE  /\ net' \in Seq(ConnType) /\ Len(net') = Len(net)
           /\ drv.fd \in 1..Len(net) /\ net'[drv.fd] \in ConnType
           /\ net'[drv.fd].up = net[drv.fd].up /\ net'[drv.fd].open = net[drv.fd].open
           /\ net'[drv.fd].down = Tail(net[drv.fd].down)
           /\ \A j \in 1..Len(net) : net'[j].up = net[j].up
<1>1. /\ net \in Seq(ConnType) /\ drv.fd \in 1..Len(net) /\ net[drv.fd] \in ConnType
  BY IfTyped DEF IfInv, DriverOk
<1>k. PICK k \in ConnType : k = net[drv.fd]
  BY <1>1
<1>t. PICK t \in Seq(Frm) : t = Tail(k.down)
  <2>1. k.down \in Seq(Frm) /\ k.down # <<>>
    BY <1>k, ConnParts DEF Arrived, Conn
  <2>2. QED
    BY <2>1, HeadTailProperties
<1>2. PICK c : c = [k EXCEPT !.down = t]
  OBVIOUS
<1>3. c = [up |-> k.up, down |-> t, open |-> k.open, alive |-> k.alive]
  BY <1>2 DEF ConnType
<1>4. c \in ConnType /\ c.up = k.up /\ c.open = k.open /\ c.down = t
  BY <1>3 DEF ConnType
<1>5. net' = [net EXCEPT ![drv.fd] = c]
  BY <1>2, <1>k, <1>t, Zenon DEF Drop1
<1>6. net' \in Seq(ConnType) /\ Len(net') = Len(net) /\ net'[drv.fd] = c
      /\ \A j \in 1..Len(net) : j # drv.fd => net'[j] = net[j]
  BY <1>1, <1>4, <1>5, NetSet
<1>7. QED
  BY <1>1, <1>k, <1>t, <1>4, <1>6

\* The invariant after a frame was read.
LEMMA IfReads ==
    ASSUME IfInv, drv.at \in {"echo", "answer"}, Arrived, Drop1, UNCHANGED <<board, runs>>,
           drv' \in DrvType, drv'.at \in {"answer", "idle"}, drv'.fd = drv.fd, drv'.call = drv.call,
           result' \in [Calls -> Results], ResultsOk(runs, result'),
           MineOk(drv', board, runs, net'[drv.fd])
    PROVE  IfInv'
<1>1. /\ net' \in Seq(ConnType) /\ Len(net') = Len(net)
      /\ \A j \in 1..Len(net) : net'[j].up = net[j].up
  BY FrameDropped
<1>2. IfTypes'
  BY <1>1, IfTyped DEF IfTypes
<1>3. DriverOk(drv', net')
  BY <1>1 DEF DriverOk, IfInv
<1>4. BoardOk(board', net')
  BY <1>1, IfTyped, BoardSame DEF IfInv
<1>5. RequestsOk(drv', runs', net')
  <2>1. RequestsOk(drv, runs, net)
    BY DEF IfInv
  <2>2. RequestsOk(drv', runs, net')
    BY <1>1, <2>1, FewerRequests
  <2>3. QED
    BY <2>2
<1>6. RunsOk(drv', runs')
  BY DEF RunsOk, IfInv
<1>7. QED
  BY <1>2, <1>3, <1>4, <1>5, <1>6 DEF IfInv

\* A frame read and the response still awaited: what is left is as it was.
LEMMA MineRead ==
    ASSUME NEW d, NEW e, NEW b, NEW r, NEW c \in ConnType, NEW f \in ConnType, MineOk(d, b, r, c),
           d.at \in {"echo", "answer"}, c.down # <<>>,
           f.up = c.up, f.open = c.open, f.down = Tail(c.down),
           d.ext \in Nat, e.ext \in Nat, e.fd = d.fd,
           e.call = d.call, e.seq = d.seq, e.kind = d.kind, e.at = "answer",
           Unread(e) + d.ext + 1 = Unread(d) + e.ext
    PROVE  MineOk(e, b, r, f)
<1>1. c.down \in Seq(Frm) /\ FramesOk(d, r, c.down)
  BY ConnParts DEF MineOk
<1>2. PICK s \in Seq(Frm) : s = c.down
  BY <1>1
<1>3. /\ f.down \in Seq(Frm) /\ Len(f.down) = Len(s) - 1 /\ FramesOk(e, r, f.down)
      /\ \A p \in 1..Len(f.down) : p + 1 \in 1..Len(s) /\ f.down[p] = s[p + 1]
  BY <1>1, <1>2, FramesRead
<1>4. Len(s) \in Nat /\ Unread(d) \in Nat /\ Unread(e) \in Nat
  BY LenProperties DEF Unread
<1>5. ASSUME f.up # <<>>
      PROVE  /\ Head(f.up) = Request(e.call, e.seq, e.kind)
             /\ \A p \in 1..Len(f.down) : f.down[p].t \in {"echo", "ext"}
             /\ b.fd = e.fd /\ b.cmd # 0
             /\ Len(f.down) - Unread(e) + e.ext = b.exts /\ b.exts <= BoardExtends
  <2>1. /\ Head(c.up) = Request(d.call, d.seq, d.kind)
        /\ \A p \in 1..Len(s) : s[p].t \in {"echo", "ext"}
        /\ b.fd = d.fd /\ b.cmd # 0
        /\ Len(s) - Unread(d) + d.ext = b.exts /\ b.exts <= BoardExtends
    BY <1>2, <1>5 DEF MineOk
  <2>2. Len(f.down) - Unread(e) + e.ext = Len(s) - Unread(d) + d.ext
    <3>1. PICK n \in Nat : n = Len(f.down)
      BY <1>3, LenProperties
    <3>2. Len(s) = n + 1
      BY <1>3, <1>4, <3>1
    <3>3. (n + 1) - Unread(d) + d.ext = n - Unread(e) + e.ext
      <4>1. PICK x \in Nat, y \in Nat, g \in Nat, h \in Nat :
               x = d.ext /\ y = e.ext /\ g = Unread(d) /\ h = Unread(e)
        BY <1>4, Zenon
      <4>2. h + x + 1 = g + y
        BY <4>1, Zenon
      <4>3. (n + 1) - g + x = n - h + y
        BY <4>2
      <4>4. QED
        BY <4>1, <4>3, Zenon
    <3>4. QED
      BY <3>1, <3>2, <3>3, Zenon
  <2>3. QED
    BY <1>3, <2>1, <2>2
<1>6. f.open
  BY DEF MineOk
<1>7. QED
  BY <1>3, <1>5, <1>6 DEF MineOk

\* The echo.
LEMMA IfReadEcho == ASSUME IfInv, ReadEcho PROVE IfInv'
<1>0. drv.at = "echo" /\ UNCHANGED <<board, runs>> /\ drv.fd # 0 /\ drv.ext = 0
  BY DEF ReadEcho, IfInv, DriverOk
<1>1. CASE Arrived /\ Drop1 /\ drv' = [drv EXCEPT !.at = "answer"] /\ UNCHANGED result
  <2>1. drv' \in DrvType /\ drv'.at = "answer" /\ drv'.fd = drv.fd /\ drv'.call = drv.call
        /\ drv'.ext = 0 /\ drv'.seq = drv.seq /\ drv'.kind = drv.kind
    BY <1>0, <1>1, IfTyped DEF DrvType
  <2>2. /\ drv.fd \in 1..Len(net) /\ net'[drv.fd] \in ConnType /\ net[drv.fd] \in ConnType
        /\ net'[drv.fd].up = net[drv.fd].up /\ net'[drv.fd].open = net[drv.fd].open
        /\ net'[drv.fd].down = Tail(net[drv.fd].down)
    BY <1>0, <1>1, FrameDropped, IfTyped
  <2>3. net[drv.fd].down # <<>> /\ MineOk(drv, board, runs, net[drv.fd])
    BY <1>0, <1>1 DEF Arrived, Conn, IfInv
  <2>4. Unread(drv') + drv.ext + 1 = Unread(drv) + drv'.ext /\ drv.ext \in Nat /\ drv'.ext \in Nat
    BY <1>0, <2>1 DEF Unread
  <2>5. MineOk(drv', board, runs, net'[drv.fd])
    BY <1>0, <2>1, <2>2, <2>3, <2>4, MineRead
  <2>6. result' \in [Calls -> Results] /\ ResultsOk(runs, result')
    BY <1>1, IfTyped DEF IfInv
  <2>7. QED
    BY <1>0, <1>1, <2>1, <2>5, <2>6, IfReads
<1>2. CASE LostEcho
  BY <1>0, <1>2, IfGivesUp DEF LostEcho
<1>3. QED
  BY <1>1, <1>2 DEF ReadEcho

\* The answer.  The board asks for no more extensions than the driver waits out, so
\* what ends the call is the answer of an executed command, and nothing follows it.
LEMMA IfReadAnswer == ASSUME IfInv, BoardExtends <= MaxExtensions, ReadAnswer PROVE IfInv'
<1>0. drv.at = "answer" /\ UNCHANGED <<board, runs>> /\ drv.fd # 0 /\ drv.call \in Calls /\ drv.ext \in Nat
  BY IfTyped DEF ReadAnswer, IfInv, DriverOk, DrvType
<1>m. MineOk(drv, board, runs, net[drv.fd]) /\ drv.fd \in 1..Len(net) /\ net[drv.fd] \in ConnType
  BY <1>0, IfTyped DEF IfInv, DriverOk
<1>1. CASE Arrived /\ Drop1 /\ drv' = [drv EXCEPT !.ext = @ + 1] /\ UNCHANGED result
  <2>1. drv' \in DrvType /\ drv'.at = "answer" /\ drv'.fd = drv.fd /\ drv'.call = drv.call
        /\ drv'.ext = drv.ext + 1 /\ drv'.seq = drv.seq /\ drv'.kind = drv.kind
    BY <1>0, <1>1, IfTyped DEF DrvType
  <2>2. /\ net'[drv.fd] \in ConnType
        /\ net'[drv.fd].up = net[drv.fd].up /\ net'[drv.fd].open = net[drv.fd].open
        /\ net'[drv.fd].down = Tail(net[drv.fd].down)
    BY <1>0, <1>1, FrameDropped
  <2>3. net[drv.fd].down # <<>>
    BY <1>1 DEF Arrived, Conn
  <2>4. Unread(drv') + drv.ext + 1 = Unread(drv) + drv'.ext /\ drv'.ext \in Nat
    BY <1>0, <2>1 DEF Unread
  <2>5. MineOk(drv', board, runs, net'[drv.fd])
    BY <1>0, <1>m, <2>1, <2>2, <2>3, <2>4, MineRead
  <2>6. result' \in [Calls -> Results] /\ ResultsOk(runs, result')
    BY <1>1, IfTyped DEF IfInv
  <2>7. QED
    BY <1>0, <1>1, <2>1, <2>5, <2>6, IfReads
<1>2. CASE GiveUp
  BY <1>0, <1>2, IfGivesUp
<1>3. CASE /\ Arrived /\ Got.seq = drv.seq /\ ~(IsExtension(Got) /\ drv.ext < MaxExtensions)
           /\ Drop1
           /\ result' = [result EXCEPT ![drv.call] = Outcome(Got)]
           /\ drv' = [drv EXCEPT !.at = "idle"]
  <2>1. PICK s \in Seq(Frm) : s = net[drv.fd].down
    BY <1>m, ConnParts
  <2>2. s # <<>> /\ FramesOk(drv, runs, s) /\ Got = Head(s)
    BY <1>0, <1>3, <1>m, <2>1 DEF Arrived, Conn, Got, MineOk
  <2>3. /\ Len(s) >= 1 /\ Len(s) \in Nat /\ Head(s) = s[1]
        /\ Head(s).t # "echo"
        /\ Head(s).t = "ext" => MayExtend(drv.kind) /\ 1 - Unread(drv) + drv.ext <= BoardExtends
        /\ Head(s).t \notin {"echo", "ext"} => runs[drv.call] = 1 /\ Len(s) = 1
    BY <1>0, <2>2, FirstFrame
  <2>4. Head(s).t # "ext"
    <3> SUFFICES ASSUME Head(s).t = "ext" PROVE FALSE
      OBVIOUS
    <3>1. 1 + drv.ext <= BoardExtends
      BY <1>0, <2>3 DEF Unread
    <3>2. drv.ext < MaxExtensions
      BY <1>0, <3>1, IfdAssumption
    <3>3. QED
      BY <1>3, <2>2, <2>3, <3>2 DEF IsExtension
  <2>5. runs[drv.call] = 1 /\ Len(s) = 1
    BY <2>3, <2>4
  <2>6. Tail(s) = <<>>
    <3>1. Tail(s) \in Seq(Frm) /\ Len(Tail(s)) = 0
      BY <2>2, <2>5, HeadTailProperties
    <3>2. QED
      BY <3>1, EmptySeq
  <2>7. net[drv.fd].up = <<>>
    <3> SUFFICES ASSUME net[drv.fd].up # <<>> PROVE FALSE
      OBVIOUS
    <3>1. \A p \in 1..Len(s) : s[p].t \in {"echo", "ext"}
      BY <1>m, <2>1 DEF MineOk
    <3>2. QED
      BY <2>3, <2>4, <2>5, <3>1
  <2>8. /\ net'[drv.fd].up = <<>> /\ net'[drv.fd].open /\ net'[drv.fd].down = <<>>
    BY <1>0, <1>3, <1>m, <2>1, <2>6, <2>7, FrameDropped DEF MineOk
  <2>9. drv' = [drv EXCEPT !.at = "idle"]
    BY <1>3
  <2>10. drv' \in DrvType /\ drv'.at = "idle" /\ drv'.fd = drv.fd /\ drv'.call = drv.call
    BY <2>9, IfTyped DEF DrvType
  <2>11. MineOk(drv', board, runs, net'[drv.fd])
    BY <2>8, <2>10 DEF MineOk
  <2>12. result' \in [Calls -> Results] /\ ResultsOk(runs, result')
    <3>1. Outcome(Got) \in Results
      BY DEF Outcome, Results
    <3>2. QED
      BY <1>0, <1>3, <2>5, <3>1, IfReturns
  <2>13. QED
    BY <1>0, <1>3, <2>10, <2>11, <2>12, IfReads
<1>4. QED
  BY <1>1, <1>2, <1>3 DEF ReadAnswer

\* IFDHCloseChannel.
LEMMA IfCloses == ASSUME IfInv, CloseChannel PROVE IfInv'
<1>1. drv.at = "idle" /\ drv.fd # 0 /\ EjectConn /\ drv' = [drv EXCEPT !.fd = 0]
      /\ UNCHANGED <<board, runs, result>>
  BY DEF CloseChannel
<1>2. drv' \in DrvType /\ drv'.at = "idle" /\ drv'.fd = 0 /\ drv'.call = drv.call
  BY <1>1, IfTyped DEF DrvType
<1>3. result' \in [Calls -> Results] /\ ResultsOk(runs, result')
  BY <1>1, IfTyped DEF IfInv
<1>4. QED
  BY <1>1, <1>2, <1>3, IfEjects

\* What the board does elsewhere does not change the driver's connection.
LEMMA MineElsewhere ==
    ASSUME NEW d, NEW b, NEW e, NEW r, NEW q, NEW c, MineOk(d, b, r, c),
           b.fd # d.fd \/ b.cmd = 0, e.fd # d.fd \/ e.cmd = 0,
           d.at \in {"echo", "answer"} /\ r[d.call] = 1 => q[d.call] = 1
    PROVE  MineOk(d, e, q, c)
<1>1. d.at \in {"echo", "answer"} /\ FramesOk(d, r, c.down) => FramesOk(d, q, c.down)
  BY DEF FramesOk
<1>2. QED
  BY <1>1 DEF MineOk

\* The board takes the next connection, closes one, or sees the card change.
LEMMA IfBoardMoves ==
    ASSUME IfInv, UNCHANGED <<drv, net, runs, result>>, board.cmd = 0, board' \in BoardType,
           board'.cmd = 0, board'.fd <= Len(net)
    PROVE  IfInv'
<1>1. IfTypes'
  BY DEF IfInv, IfTypes
<1>2. BoardOk(board', net')
  BY DEF BoardOk
<1>3. drv'.fd # 0 => MineOk(drv', board', runs', net'[drv'.fd])
  BY MineElsewhere DEF IfInv
<1>4. QED
  BY <1>1, <1>2, <1>3 DEF IfInv

\* AcceptConn, EndSession and ToggleCard.
LEMMA IfAccepts == ASSUME IfInv, AcceptConn \/ EndSession \/ ToggleCard PROVE IfInv'
<1>1. /\ board \in BoardType /\ Len(net) \in Nat /\ board.fd <= Len(net)
      /\ board.cmd # 0 => board.fd # 0
  BY IfTyped DEF IfInv, BoardOk
<1>2. CASE AcceptConn
  <2>1. PICK x, y : x = board.next /\ y = board.next + 1
    OBVIOUS
  <2>2. board' = [board EXCEPT !.fd = x, !.next = y]
    BY <1>2, <2>1, Zenon DEF AcceptConn
  <2>3. x \in Nat /\ y \in Nat \ {0} /\ x <= Len(net) /\ board.fd = 0
    BY <1>1, <1>2, <2>1 DEF AcceptConn, BoardType
  <2>4. board' \in BoardType /\ board'.fd = x /\ board'.cmd = board.cmd
    BY <1>1, <2>2, <2>3 DEF BoardType
  <2>5. QED
    BY <1>1, <1>2, <2>3, <2>4, IfBoardMoves DEF AcceptConn
<1>3. CASE EndSession
  <2>1. board' \in BoardType /\ board'.fd = 0 /\ board'.cmd = 0 /\ board.cmd = 0
    BY <1>1, <1>3 DEF EndSession, Busy, BoardType
  <2>2. QED
    BY <1>1, <1>3, <2>1, IfBoardMoves DEF EndSession
<1>4. CASE ToggleCard
  <2>1. board' \in BoardType /\ board'.fd = board.fd /\ board'.cmd = 0 /\ board.cmd = 0
    BY <1>1, <1>4 DEF ToggleCard, Busy, BoardType
  <2>2. QED
    BY <1>1, <1>4, <2>1, IfBoardMoves DEF ToggleCard
<1>5. QED
  BY <1>2, <1>3, <1>4

\* The board speaks on the connection it serves.
LEMMA IfSpeaks ==
    ASSUME IfInv, UNCHANGED <<drv, runs, result>>, board.fd # 0, net[board.fd].up # <<>>,
           NEW c \in ConnType, c.up = net[board.fd].up, net' = [net EXCEPT ![board.fd] = c],
           board' \in BoardType, board'.fd = board.fd, board'.cmd = Head(c.up).call,
           drv.fd = board.fd => MineOk(drv, board', runs, c)
    PROVE  IfInv'
<1>1. net \in Seq(ConnType) /\ board.fd \in 1..Len(net) /\ Len(net) \in Nat
  BY IfTyped DEF IfInv, BoardOk, BoardType
<1>2. /\ net' \in Seq(ConnType) /\ Len(net') = Len(net) /\ net'[board.fd] = c
      /\ \A j \in 1..Len(net) : j # board.fd => net'[j] = net[j]
  BY <1>1, NetSet
<1>3. \A i \in 1..Len(net) : net'[i].up = net[i].up
  BY <1>2
<1>4. IfTypes'
  BY <1>2, IfTyped DEF IfTypes
<1>5. DriverOk(drv', net') /\ RunsOk(drv', runs') /\ ResultsOk(runs', result')
  BY <1>2 DEF IfInv, DriverOk
<1>6. BoardOk(board', net')
  BY <1>1, <1>2 DEF BoardOk
<1>7. drv'.fd # 0 => MineOk(drv', board', runs', net'[drv'.fd])
  <2>1. CASE drv.fd = board.fd
    BY <1>2, <2>1
  <2>2. CASE drv.fd # board.fd /\ drv.fd # 0
    <3>1. drv.fd \in 1..Len(net) /\ MineOk(drv, board, runs, net[drv.fd])
      BY <1>1, <2>2 DEF IfInv, DriverOk
    <3>2. MineOk(drv, board', runs, net[drv.fd])
      BY <2>2, <3>1, MineElsewhere
    <3>3. QED
      BY <1>2, <2>2, <3>1, <3>2
  <2>3. QED
    BY <2>1, <2>2
<1>8. RequestsOk(drv', runs', net')
  <2>1. RequestsOk(drv, runs, net)
    BY DEF IfInv
  <2>2. RequestsOk(drv, runs, net')
    BY <1>2, <1>3, <2>1 DEF RequestsOk
  <2>3. QED
    BY <2>2
<1>9. QED
  BY <1>4, <1>5, <1>6, <1>7, <1>8 DEF IfInv

\* A frame the board puts on the connection it serves: one the driver has closed
\* takes none.
LEMMA IfSaid ==
    ASSUME IfInv, board.fd # 0, NEW f \in Frm, NEW n, n = Say(f)
    PROVE  /\ board.fd \in 1..Len(net) /\ net[board.fd] \in ConnType
           /\ \E c \in ConnType :
                /\ n = [net EXCEPT ![board.fd] = c]
                /\ c.up = net[board.fd].up /\ c.open = net[board.fd].open /\ c.alive = net[board.fd].alive
                /\ c.down = IF c.open THEN Append(net[board.fd].down, f) ELSE net[board.fd].down
<1>1. net \in Seq(ConnType) /\ board.fd \in 1..Len(net) /\ net[board.fd] \in ConnType
  BY IfTyped DEF IfInv, BoardOk, BoardType
<1>2. PICK k \in ConnType : k = net[board.fd]
  BY <1>1
<1>3. k.down \in Seq(Frm) /\ k.open \in BOOLEAN /\ Append(k.down, f) \in Seq(Frm)
  BY ConnParts, AppendProperties
<1>4. PICK w \in Seq(Frm) : w = IF k.open THEN Append(k.down, f) ELSE k.down
  BY <1>3
<1>5. PICK c : c = [k EXCEPT !.down = w]
  OBVIOUS
<1>6. c = [up |-> k.up, down |-> w, open |-> k.open, alive |-> k.alive]
  BY <1>5 DEF ConnType
<1>7. c \in ConnType /\ c.up = k.up /\ c.down = w /\ c.open = k.open /\ c.alive = k.alive
  BY <1>6 DEF ConnType
<1>8. n = [net EXCEPT ![board.fd] = c]
  BY <1>2, <1>4, <1>5, Zenon DEF Say
<1>9. QED
  BY <1>1, <1>2, <1>4, <1>7, <1>8

\* The request the board works on is one of ours.
LEMMA WorkingIs ==
    ASSUME IfInv, board.fd # 0, net[board.fd].up # <<>>
    PROVE  /\ Working \in Req /\ Working = Head(net[board.fd].up)
           /\ Working.call \in Calls /\ runs[Working.call] = 0 /\ Working.call \in 1..drv.call
           /\ drv.at \in {"connect", "send"} => Working.call # drv.call
           /\ Tail(net[board.fd].up) = <<>>
           /\ drv.fd = board.fd => /\ drv.at \in {"echo", "answer"}
                                   /\ Working = Request(drv.call, drv.seq, drv.kind)
<1>1. board.fd \in 1..Len(net) /\ net[board.fd] \in ConnType
  BY IfTyped DEF IfInv, BoardOk, BoardType
<1>2. Working \in Req /\ Working = Head(net[board.fd].up) /\ Tail(net[board.fd].up) = <<>>
  BY <1>1, ConnParts DEF Working
<1>3. PendingOk(drv, runs, net[board.fd].up)
  BY <1>1 DEF IfInv, RequestsOk
<1>4. /\ Working.call \in 1..drv.call /\ runs[Working.call] = 0
      /\ drv.at \in {"connect", "send"} => Working.call # drv.call
  BY <1>2, <1>3 DEF PendingOk
<1>5. Working.call \in Calls
  BY <1>4, IfTyped, IfdAssumption DEF DrvType, Calls
<1>6. ASSUME drv.fd = board.fd
      PROVE  drv.at \in {"echo", "answer"} /\ Working = Request(drv.call, drv.seq, drv.kind)
  <2>1. MineOk(drv, board, runs, net[board.fd])
    BY <1>6 DEF IfInv
  <2>2. QED
    BY <1>2, <2>1, IfTyped DEF MineOk, DrvType
<1>7. QED
  BY <1>2, <1>4, <1>5, <1>6

\* The frames with one more.
LEMMA FramesSaid ==
    ASSUME NEW d, NEW r, NEW q, NEW s \in Seq(Frm), NEW f \in Frm, FramesOk(d, r, s),
           \A p \in 1..Len(s) : s[p].t \in {"echo", "ext"},
           f.call = d.call, f.seq = d.seq,
           f.t = "echo" <=> (Len(s) + 1 = 1 /\ d.at = "echo"),
           f.t = "ext" => MayExtend(d.kind) /\ (Len(s) + 1) - Unread(d) + d.ext <= BoardExtends,
           f.t \notin {"echo", "ext"} => q[d.call] = 1
    PROVE  /\ FramesOk(d, q, Append(s, f)) /\ Len(Append(s, f)) = Len(s) + 1
           /\ f.t \in {"echo", "ext"} =>
                 \A p \in 1..Len(Append(s, f)) : Append(s, f)[p].t \in {"echo", "ext"}
<1>1. PICK w \in Seq(Frm) : w = Append(s, f)
  BY AppendProperties
<1>2. Len(w) = Len(s) + 1 /\ w[Len(s) + 1] = f /\ Len(s) \in Nat
  BY <1>1, AppendProperties, LenProperties
<1>3. \A p \in 1..Len(s) : w[p] = s[p]
  BY <1>1, AppendProperties
<1>4. \A p \in 1..Len(w) : p \in 1..Len(s) \/ p = Len(s) + 1
  BY <1>2
<1>5. FramesOk(d, q, w)
  <2> SUFFICES ASSUME NEW p \in 1..Len(w)
               PROVE  /\ w[p].call = d.call /\ w[p].seq = d.seq
                      /\ w[p].t = "echo" <=> (p = 1 /\ d.at = "echo")
                      /\ w[p].t = "ext" => MayExtend(d.kind) /\ p - Unread(d) + d.ext <= BoardExtends
                      /\ w[p].t \notin {"echo", "ext"} => q[d.call] = 1 /\ p = Len(w)
    BY DEF FramesOk
  <2>1. CASE p \in 1..Len(s)
    BY <1>3, <2>1 DEF FramesOk
  <2>2. CASE p = Len(s) + 1
    <3>1. w[p] = f /\ p = Len(w)
      BY <1>2, <2>2
    <3>2. w[p].t = "echo" <=> (p = 1 /\ d.at = "echo")
      BY <2>2, <3>1, Zenon
    <3>3. w[p].t = "ext" => MayExtend(d.kind) /\ p - Unread(d) + d.ext <= BoardExtends
      BY <2>2, <3>1, Zenon
    <3>4. w[p].call = d.call /\ w[p].seq = d.seq /\ (w[p].t \notin {"echo", "ext"} => q[d.call] = 1)
      BY <3>1, Zenon
    <3>5. QED
      BY <3>1, <3>2, <3>3, <3>4, Zenon
  <2>3. QED
    BY <1>4, <2>1, <2>2
<1>6. f.t \in {"echo", "ext"} => \A p \in 1..Len(w) : w[p].t \in {"echo", "ext"}
  BY <1>2, <1>3, <1>4
<1>7. QED
  BY <1>1, <1>2, <1>5, <1>6

\* The echo: nothing was said before it.
LEMMA IfEchoes == ASSUME IfInv, EchoFrame PROVE IfInv'
<1>1. /\ board.fd # 0 /\ board.cmd = 0 /\ net[board.fd].up # <<>> /\ net' = Say(EchoOf(Working))
      /\ board' = [board EXCEPT !.cmd = Working.call, !.exts = 0]
      /\ UNCHANGED <<drv, runs, result>>
  BY DEF EchoFrame, Busy
<1>2. Working \in Req /\ Working = Head(net[board.fd].up)
      /\ (drv.fd = board.fd => drv.at \in {"echo", "answer"}
                               /\ Working = Request(drv.call, drv.seq, drv.kind))
  BY <1>1, WorkingIs
<1>3. PICK f \in Frm : f = EchoOf(Working)
  BY <1>2 DEF EchoOf, Frm, Req, Tags
<1>4. PICK c \in ConnType :
         /\ net' = [net EXCEPT ![board.fd] = c]
         /\ c.up = net[board.fd].up /\ c.open = net[board.fd].open
         /\ c.down = IF c.open THEN Append(net[board.fd].down, f) ELSE net[board.fd].down
  BY <1>1, <1>3, IfSaid
<1>5. PICK x \in Nat : x = Working.call
  BY <1>2 DEF Req
<1>6. board' = [board EXCEPT !.cmd = x, !.exts = 0] /\ board \in BoardType
  BY <1>1, <1>5, IfTyped
<1>7. board' \in BoardType /\ board'.fd = board.fd /\ board'.cmd = x /\ board'.exts = 0
  BY <1>6 DEF BoardType
<1>8. ASSUME drv.fd = board.fd PROVE MineOk(drv, board', runs, c)
  <2>1. MineOk(drv, board, runs, net[board.fd]) /\ DriverOk(drv, net)
    BY <1>1, <1>8 DEF IfInv
  <2>2. drv.at = "echo" /\ net[board.fd].down = <<>> /\ net[board.fd].open /\ drv.ext = 0
    BY <1>1, <2>1 DEF MineOk, DriverOk
  <2>3. PICK s \in Seq(Frm) : s = <<>>
    BY EmptySeq
  <2>4. Len(s) = 0 /\ FramesOk(drv, runs, s) /\ c.down = Append(s, f) /\ c.open
    BY <1>4, <2>2, <2>3 DEF FramesOk
  <2>5. f.t = "echo" /\ f.call = drv.call /\ f.seq = drv.seq
    BY <1>2, <1>3, <1>8 DEF EchoOf, Request
  <2>6. /\ FramesOk(drv, runs, c.down) /\ Len(c.down) = 1
        /\ \A p \in 1..Len(c.down) : c.down[p].t \in {"echo", "ext"}
    <3>1. f.t = "echo" <=> (Len(s) + 1 = 1 /\ drv.at = "echo")
      BY <2>2, <2>4, <2>5
    <3>2. \A p \in 1..Len(s) : s[p].t \in {"echo", "ext"}
      BY <2>4
    <3>3. f.t # "ext" /\ f.t \in {"echo", "ext"}
      BY <2>5
    <3>4. /\ FramesOk(drv, runs, Append(s, f)) /\ Len(Append(s, f)) = Len(s) + 1
          /\ \A p \in 1..Len(Append(s, f)) : Append(s, f)[p].t \in {"echo", "ext"}
      BY <2>4, <2>5, <3>1, <3>2, <3>3, FramesSaid
    <3>5. QED
      BY <2>4, <3>4
  <2>7. Head(c.up) = Request(drv.call, drv.seq, drv.kind)
    BY <1>2, <1>4, <1>8
  <2>8. Len(c.down) - Unread(drv) + drv.ext = board'.exts /\ board'.exts <= BoardExtends
    BY <1>7, <2>2, <2>6, IfdAssumption DEF Unread
  <2>9. board'.cmd # 0
    BY <1>1, <1>5, <1>7, WorkingIs DEF Calls
  <2>10. QED
    BY <1>7, <1>8, <2>2, <2>4, <2>6, <2>7, <2>8, <2>9 DEF MineOk
<1>9. board'.cmd = Head(c.up).call
  BY <1>2, <1>4, <1>5, <1>7
<1>10. QED
  BY <1>1, <1>4, <1>7, <1>8, <1>9, IfSpeaks

\* What the board knows while it works.
LEMMA BusyIs ==
    ASSUME IfInv, Busy
    PROVE  /\ board.fd # 0 /\ net[board.fd].up # <<>> /\ Working.call = board.cmd
           /\ drv.fd = board.fd =>
                /\ FramesOk(drv, runs, net[board.fd].down)
                /\ \A p \in 1..Len(net[board.fd].down) : net[board.fd].down[p].t \in {"echo", "ext"}
                /\ Len(net[board.fd].down) - Unread(drv) + drv.ext = board.exts
                /\ board.exts <= BoardExtends
                /\ net[board.fd].open
<1>1. board.fd # 0 /\ net[board.fd].up # <<>> /\ Working.call = board.cmd
  BY DEF Busy, IfInv, BoardOk, Working
<1>2. drv.fd = board.fd => MineOk(drv, board, runs, net[board.fd])
  BY <1>1 DEF IfInv
<1>3. QED
  BY <1>1, <1>2, WorkingIs DEF MineOk, Busy

\* A time extension.
LEMMA IfExtends == ASSUME IfInv, Extend PROVE IfInv'
<1>1. /\ Busy /\ MayExtend(Working.kind) /\ board.exts < BoardExtends /\ net' = Say(Interim(Working))
      /\ board' = [board EXCEPT !.exts = @ + 1]
      /\ UNCHANGED <<drv, runs, result>>
  BY DEF Extend, MayExtend
<1>2. /\ board.fd # 0 /\ net[board.fd].up # <<>> /\ Working.call = board.cmd
      /\ Working \in Req /\ Working = Head(net[board.fd].up)
      /\ (drv.fd = board.fd => drv.at \in {"echo", "answer"}
                               /\ Working = Request(drv.call, drv.seq, drv.kind))
  BY <1>1, BusyIs, WorkingIs
<1>3. PICK f \in Frm : f = Interim(Working)
  BY <1>2 DEF Interim, Frm, Req, Tags
<1>4. PICK c \in ConnType :
         /\ net' = [net EXCEPT ![board.fd] = c]
         /\ c.up = net[board.fd].up /\ c.open = net[board.fd].open
         /\ c.down = IF c.open THEN Append(net[board.fd].down, f) ELSE net[board.fd].down
  <2>1. net' = Say(f)
    BY <1>1, <1>3
  <2>2. QED
    BY <1>2, <2>1, IfSaid
<1>5. PICK x \in Nat : x = board.exts + 1
  BY IfTyped DEF BoardType
<1>6. board' = [board EXCEPT !.exts = x] /\ board \in BoardType
  BY <1>1, <1>5, IfTyped
<1>7. board' \in BoardType /\ board'.fd = board.fd /\ board'.cmd = board.cmd /\ board'.exts = x
  BY <1>6 DEF BoardType
<1>8. ASSUME drv.fd = board.fd PROVE MineOk(drv, board', runs, c)
  <2>1. /\ FramesOk(drv, runs, net[board.fd].down)
        /\ \A p \in 1..Len(net[board.fd].down) : net[board.fd].down[p].t \in {"echo", "ext"}
        /\ Len(net[board.fd].down) - Unread(drv) + drv.ext = board.exts
        /\ net[board.fd].open
    BY <1>1, <1>8, BusyIs
  <2>2. net[board.fd] \in ConnType
    BY <1>2, IfSaid, IfTyped DEF IfInv, BoardOk, BoardType
  <2>3. PICK s \in Seq(Frm) : s = net[board.fd].down
    BY <2>2, ConnParts
  <2>4. c.down = Append(s, f) /\ c.open
    BY <1>4, <2>1, <2>3
  <2>5. f.t = "ext" /\ f.call = drv.call /\ f.seq = drv.seq /\ MayExtend(drv.kind)
    BY <1>1, <1>2, <1>3, <1>8 DEF Interim, Request
  <2>6. PICK a \in Nat, g \in Nat, n \in Nat : a = drv.ext /\ g = Unread(drv) /\ n = Len(s)
    BY LenProperties, IfTyped DEF DrvType, Unread
  <2>7. n - g + a = board.exts /\ board.exts \in Nat
    BY <2>1, <2>3, <2>6, IfTyped DEF BoardType
  <2>8. (n + 1) - g + a = x /\ x <= BoardExtends
    <3>1. PICK y \in Nat : y = board.exts
      BY <2>7
    <3>2. x = y + 1 /\ n - g + a = y
      BY <1>5, <2>7, <3>1, Zenon
    <3>3. y < BoardExtends /\ BoardExtends \in Nat
      BY <1>1, <3>1, IfdAssumption
    <3>4. QED
      BY <3>1, <3>2, <3>3
  <2>9. (Len(s) + 1) - Unread(drv) + drv.ext <= BoardExtends
    <3>1. (Len(s) + 1) - Unread(drv) + drv.ext = x
      BY <2>6, <2>8, Zenon
    <3>2. QED
      BY <2>8, <3>1, Zenon
  <2>10. drv.at = "echo" => Len(s) + 1 # 1
    <3>1. drv.at = "echo" => a = 0 /\ g = 1
      BY <2>6 DEF Unread, IfInv, DriverOk
    <3>2. QED
      BY <2>6, <2>7, <3>1
  <2>11. /\ FramesOk(drv, runs, c.down) /\ Len(c.down) = n + 1
         /\ \A p \in 1..Len(c.down) : c.down[p].t \in {"echo", "ext"}
    <3>1. f.t = "echo" <=> (Len(s) + 1 = 1 /\ drv.at = "echo")
      BY <2>5, <2>10
    <3>2. f.t = "ext" => MayExtend(drv.kind) /\ (Len(s) + 1) - Unread(drv) + drv.ext <= BoardExtends
      BY <2>5, <2>9
    <3>3. f.t \in {"echo", "ext"}
      BY <2>5
    <3>4. FramesOk(drv, runs, s) /\ \A p \in 1..Len(s) : s[p].t \in {"echo", "ext"}
      BY <2>1, <2>3
    <3>5. /\ FramesOk(drv, runs, Append(s, f)) /\ Len(Append(s, f)) = Len(s) + 1
          /\ \A p \in 1..Len(Append(s, f)) : Append(s, f)[p].t \in {"echo", "ext"}
      BY <2>5, <3>1, <3>2, <3>3, <3>4, FramesSaid
    <3>6. QED
      BY <2>4, <2>6, <3>5
  <2>12. Head(c.up) = Request(drv.call, drv.seq, drv.kind)
    BY <1>2, <1>4, <1>8
  <2>13. Len(c.down) - Unread(drv) + drv.ext = board'.exts /\ board'.exts <= BoardExtends
    BY <1>7, <2>6, <2>8, <2>11
  <2>14. board'.cmd # 0
    BY <1>1, <1>7 DEF Busy
  <2>15. QED
    BY <1>2, <1>7, <1>8, <2>4, <2>11, <2>12, <2>13, <2>14 DEF MineOk
<1>9. board'.cmd = Head(c.up).call
  BY <1>2, <1>4, <1>7
<1>10. QED
  BY <1>1, <1>2, <1>4, <1>7, <1>8, <1>9, IfSpeaks

\* The board is done with the request of the connection it serves: the card saw the
\* command, now, or the board forgot it.
LEMMA IfFinishes ==
    ASSUME IfInv, UNCHANGED <<drv, result>>, board.fd # 0,
           NEW c \in ConnType, c.up = <<>>, net' = [net EXCEPT ![board.fd] = c],
           board' \in BoardType, board'.fd <= board.fd, board'.cmd = 0,
           runs' = runs \/ (Busy /\ runs' = [runs EXCEPT ![board.cmd] = 1]),
           drv.fd = board.fd => MineOk(drv, board', runs', c)
    PROVE  IfInv'
<1>1. net \in Seq(ConnType) /\ board.fd \in 1..Len(net) /\ Len(net) \in Nat /\ board'.fd \in Nat
      /\ board.fd \in Nat
  BY IfTyped DEF IfInv, BoardOk, BoardType
<1>2. /\ net' \in Seq(ConnType) /\ Len(net') = Len(net) /\ net'[board.fd] = c
      /\ \A j \in 1..Len(net) : j # board.fd => net'[j] = net[j]
  BY <1>1, NetSet
<1>3. ASSUME Busy
      PROVE  /\ board.cmd \in Calls /\ runs[board.cmd] = 0 /\ board.cmd \in 1..drv.call
             /\ drv.at \in {"connect", "send"} => board.cmd # drv.call
             /\ net[board.fd].up # <<>> /\ Head(net[board.fd].up).call = board.cmd
  BY <1>3, BusyIs, WorkingIs
<1>4. /\ runs' \in [Calls -> {0, 1}]
      /\ \A x \in Calls : runs[x] = 1 => runs'[x] = 1
  BY <1>3, IfTyped
<1>5. IfTypes'
  BY <1>2, <1>4, IfTyped DEF IfTypes
<1>6. DriverOk(drv', net') /\ BoardOk(board', net')
  BY <1>1, <1>2 DEF IfInv, DriverOk, BoardOk
<1>7. ResultsOk(runs', result')
  BY <1>4 DEF IfInv, ResultsOk
<1>8. RunsOk(drv', runs')
  <2>1. RunsOk(drv, runs) /\ drv.call \in Nat
    BY IfTyped, IfdAssumption DEF IfInv, DrvType
  <2>2. CASE runs' = runs
    BY <2>1, <2>2
  <2>3. CASE Busy /\ runs' = [runs EXCEPT ![board.cmd] = 1]
    <3>1. \A x \in Calls : x # board.cmd => runs'[x] = runs[x]
      BY <2>3, IfTyped
    <3>2. ~(board.cmd > drv.call \/ (board.cmd = drv.call /\ drv.at \in {"connect", "send"}))
      BY <1>3, <2>1, <2>3
    <3>3. QED
      BY <2>1, <3>1, <3>2 DEF RunsOk
  <2>4. QED
    BY <2>2, <2>3
<1>9. drv'.fd # 0 => MineOk(drv', board', runs', net'[drv'.fd])
  <2>1. CASE drv.fd = board.fd
    BY <1>2, <2>1
  <2>2. CASE drv.fd # board.fd /\ drv.fd # 0
    <3>1. drv.fd \in 1..Len(net) /\ MineOk(drv, board, runs, net[drv.fd])
      BY <1>1, <2>2 DEF IfInv, DriverOk
    <3>2. drv.at \in {"echo", "answer"} /\ runs[drv.call] = 1 => runs'[drv.call] = 1
      BY <1>4 DEF IfInv, DriverOk
    <3>3. MineOk(drv, board', runs', net[drv.fd])
      BY <2>2, <3>1, <3>2, MineElsewhere
    <3>4. QED
      BY <1>2, <2>2, <3>1, <3>3
  <2>3. QED
    BY <2>1, <2>2
<1>10. RequestsOk(drv', runs', net')
  <2>1. RequestsOk(drv, runs, net)
    BY DEF IfInv
  <2>2. CASE runs' = runs
    <3>1. \A i \in 1..Len(net) : net'[i].up = net[i].up \/ net'[i].up = <<>>
      BY <1>2
    <3>2. RequestsOk(drv, runs, net')
      BY <1>2, <2>1, <3>1 DEF RequestsOk, PendingOk
    <3>3. QED
      BY <2>2, <3>2
  <2>3. CASE Busy /\ runs' = [runs EXCEPT ![board.cmd] = 1]
    <3>1. PICK k \in 1..Len(net) : k = board.fd
      BY <1>1
    <3>2. net'[k].up = <<>> /\ net[k].up # <<>> /\ Head(net[k].up).call = board.cmd
      BY <1>2, <1>3, <2>3, <3>1
    <3>3. \A i \in 1..Len(net) : i # k => net'[i].up = net[i].up
      BY <1>2, <3>1
    <3>4. \A x \in 1..drv.call : x # Head(net[k].up).call => runs'[x] = runs[x]
      <4>1. \A x \in 1..drv.call : x \in Calls
        BY IfTyped, IfdAssumption DEF DrvType, Calls
      <4>2. QED
        BY <1>3, <2>3, <3>2, <4>1, IfTyped
    <3>5. RequestsOk(drv, runs', net')
      <4>1. PICK n, m, r, q : n = net /\ m = net' /\ r = runs /\ q = runs'
        OBVIOUS
      <4>2. /\ RequestsOk(drv, r, n) /\ Len(m) = Len(n) /\ k \in 1..Len(n) /\ m[k].up = <<>>
            /\ n[k].up # <<>>
        BY <1>2, <2>1, <3>2, <4>1
      <4>3. \A i \in 1..Len(n) : i # k => m[i].up = n[i].up
        BY <3>3, <4>1
      <4>4. \A x \in 1..drv.call : x # Head(n[k].up).call => q[x] = r[x]
        BY <3>4, <4>1
      <4>5. RequestsOk(drv, q, m)
        BY <4>2, <4>3, <4>4, OneExecuted
      <4>6. QED
        BY <4>1, <4>5
    <3>6. QED
      BY <3>5
  <2>4. QED
    BY <2>2, <2>3
<1>11. QED
  BY <1>5, <1>6, <1>7, <1>8, <1>9, <1>10 DEF IfInv

\* The card sees the command and the answer goes out.
LEMMA IfExecutes == ASSUME IfInv, Execute PROVE IfInv'
<1>1. /\ Busy /\ runs' = [runs EXCEPT ![board.cmd] = @ + 1] /\ board' = [board EXCEPT !.cmd = 0]
      /\ UNCHANGED <<drv, result>>
  BY DEF Execute
<1>2. PICK s \in Status : net' = [Say(Final(Working, s)) EXCEPT ![board.fd].up = Tail(@)]
  BY DEF Execute
<1>3. s \in {"done", "failed", "absent"}
  BY DEF Status
<1>4. /\ board.fd # 0 /\ net[board.fd].up # <<>> /\ Working.call = board.cmd
      /\ Working \in Req /\ board.cmd \in Calls /\ runs[board.cmd] = 0
      /\ Tail(net[board.fd].up) = <<>>
      /\ (drv.fd = board.fd => drv.at \in {"echo", "answer"}
                               /\ Working = Request(drv.call, drv.seq, drv.kind))
  BY <1>1, BusyIs, WorkingIs
<1>5. PICK f \in Frm : f = Final(Working, s)
  BY <1>3, <1>4 DEF Final, Frm, Req, Tags
<1>6. PICK m : m = Say(f)
  OBVIOUS
<1>7. board.fd \in 1..Len(net) /\ net[board.fd] \in ConnType
  BY <1>4, <1>5, <1>6, IfSaid
<1>8. PICK c \in ConnType :
         /\ m = [net EXCEPT ![board.fd] = c]
         /\ c.up = net[board.fd].up /\ c.open = net[board.fd].open
         /\ c.down = IF c.open THEN Append(net[board.fd].down, f) ELSE net[board.fd].down
  BY <1>4, <1>5, <1>6, IfSaid
<1>9. PICK e : e = [c EXCEPT !.up = <<>>]
  OBVIOUS
<1>10. e = [up |-> <<>>, down |-> c.down, open |-> c.open, alive |-> c.alive]
  BY <1>9 DEF ConnType
<1>11. e \in ConnType /\ e.up = <<>> /\ e.down = c.down /\ e.open = c.open
  BY <1>10 DEF ConnType
<1>12. net' = [net EXCEPT ![board.fd] = e]
  <2>1. m[board.fd] = c /\ DOMAIN m = DOMAIN net /\ board.fd \in DOMAIN net
    BY <1>7, <1>8, IfTyped
  <2>2. Tail(c.up) = <<>>
    BY <1>4, <1>8
  <2>3. net' = [m EXCEPT ![board.fd].up = Tail(@)]
    BY <1>2, <1>5, <1>6
  <2>4. net' = [m EXCEPT ![board.fd] = [c EXCEPT !.up = Tail(c.up)]]
    BY <2>1, <2>3, Zenon
  <2>5. net' = [m EXCEPT ![board.fd] = e]
    BY <1>9, <2>2, <2>4, Zenon
  <2>6. QED
    BY <1>8, <2>5
<1>13. board' \in BoardType /\ board'.fd = board.fd /\ board'.cmd = 0
  BY <1>1, IfTyped DEF BoardType
<1>14. runs' = [runs EXCEPT ![board.cmd] = 1]
  BY <1>1, <1>4
<1>15. ASSUME drv.fd = board.fd PROVE MineOk(drv, board', runs', e)
  <2>1. /\ FramesOk(drv, runs, net[board.fd].down)
        /\ \A p \in 1..Len(net[board.fd].down) : net[board.fd].down[p].t \in {"echo", "ext"}
        /\ Len(net[board.fd].down) - Unread(drv) + drv.ext = board.exts
        /\ net[board.fd].open
    BY <1>1, <1>15, BusyIs
  <2>2. PICK w \in Seq(Frm) : w = net[board.fd].down
    BY <1>7, ConnParts
  <2>3. e.down = Append(w, f) /\ e.open
    BY <1>8, <1>11, <2>1, <2>2
  <2>4. f.t \notin {"echo", "ext"} /\ f.call = drv.call /\ f.seq = drv.seq /\ drv.call = board.cmd
    BY <1>3, <1>4, <1>5, <1>15 DEF Final, Request
  <2>5. drv.at = "echo" => Len(w) + 1 # 1
    <3>1. Len(w) \in Nat /\ board.exts \in Nat
      BY LenProperties, IfTyped DEF BoardType
    <3>2. drv.at = "echo" => drv.ext = 0 /\ Unread(drv) = 1
      BY DEF Unread, IfInv, DriverOk
    <3>3. QED
      BY <2>1, <2>2, <3>1, <3>2
  <2>6. runs'[drv.call] = 1
    BY <1>4, <1>14, <2>4, IfTyped
  <2>7. f.t = "echo" <=> (Len(w) + 1 = 1 /\ drv.at = "echo")
    BY <2>4, <2>5
  <2>8. FramesOk(drv, runs, w) /\ \A p \in 1..Len(w) : w[p].t \in {"echo", "ext"}
    BY <2>1, <2>2
  <2>9. f.t # "ext"
    BY <2>4
  <2>10. FramesOk(drv, runs', Append(w, f))
    BY <2>4, <2>6, <2>7, <2>8, <2>9, FramesSaid
  <2>11. QED
    BY <1>4, <1>11, <1>15, <2>3, <2>10 DEF MineOk
<1>16. board'.fd <= board.fd
  BY <1>13, IfTyped DEF BoardType
<1>17. QED
  BY <1>1, <1>4, <1>11, <1>12, <1>13, <1>14, <1>15, <1>16, IfFinishes

\* The board restarts.
LEMMA IfCrashes == ASSUME IfInv, Crash PROVE IfInv'
<1>1. board.fd # 0 /\ board' = [board EXCEPT !.fd = 0, !.cmd = 0] /\ UNCHANGED <<drv, result>>
  BY DEF Crash
<1>2. PICK seen \in (IF Busy THEN BOOLEAN ELSE {FALSE}), kept \in BOOLEAN :
         /\ runs' = IF seen THEN [runs EXCEPT ![board.cmd] = @ + 1] ELSE runs
         /\ net' = [net EXCEPT ![board.fd] = Severed(net[board.fd], kept)]
  BY DEF Crash
<1>3. /\ net \in Seq(ConnType) /\ board.fd \in 1..Len(net) /\ net[board.fd] \in ConnType
      /\ DOMAIN net = 1..Len(net)
  BY <1>1, IfTyped DEF IfInv, BoardOk, BoardType
<1>4. PICK k \in ConnType : k = net[board.fd]
  BY <1>3
<1>5. PICK w \in Seq(Frm) : w = IF kept THEN k.down ELSE <<>>
  BY EmptySeq, ConnParts
<1>6. PICK c : c = [up |-> <<>>, down |-> w, open |-> k.open, alive |-> FALSE]
  OBVIOUS
<1>7. c \in ConnType /\ c.up = <<>> /\ c.down = w /\ c.open = k.open
  BY <1>6, ConnParts DEF ConnType
<1>8. net' = [net EXCEPT ![board.fd] = c]
  <2>1. PICK o : o = <<>>
    OBVIOUS
  <2>2. PICK a : a = [k EXCEPT !.alive = FALSE, !.up = o, !.down = w]
    OBVIOUS
  <2>3. a = [up |-> o, down |-> w, open |-> k.open, alive |-> FALSE]
    BY <2>2 DEF ConnType
  <2>4. a = c
    BY <1>6, <2>1, <2>3, Zenon
  <2>5. Severed(k, kept) = a
    BY <1>5, <2>1, <2>2 DEF Severed
  <2>6. QED
    BY <1>2, <1>4, <2>4, <2>5, Zenon
<1>9. board' \in BoardType /\ board'.fd = 0 /\ board'.cmd = 0
  BY <1>1, IfTyped DEF BoardType
<1>10. runs' = runs \/ (Busy /\ runs' = [runs EXCEPT ![board.cmd] = 1])
  <2>1. CASE ~seen
    BY <1>2, <2>1
  <2>2. CASE seen
    <3>1. Busy /\ runs' = [runs EXCEPT ![board.cmd] = @ + 1]
      BY <1>2, <2>2
    <3>2. runs[board.cmd] = 0 /\ board.cmd \in Calls
      BY <3>1, BusyIs, WorkingIs
    <3>3. QED
      BY <3>1, <3>2
  <2>3. QED
    BY <2>1, <2>2
<1>11. ASSUME drv.fd = board.fd PROVE MineOk(drv, board', runs', c)
  <2>1. MineOk(drv, board, runs, k) /\ DriverOk(drv, net)
    BY <1>1, <1>4, <1>11 DEF IfInv
  <2>2. ASSUME drv.at \in {"echo", "answer"} PROVE FramesOk(drv, runs', w)
    <3>1. runs[drv.call] = 1 => runs'[drv.call] = 1
      <4>1. drv.call \in Calls
        BY <2>1, <2>2 DEF DriverOk
      <4>2. Busy => board.cmd \in Calls
        BY BusyIs, WorkingIs
      <4>3. QED
        BY <1>10, <4>1, <4>2, IfTyped
    <3>2. FramesOk(drv, runs, k.down)
      BY <2>1, <2>2 DEF MineOk
    <3>3. FramesOk(drv, runs', k.down) /\ FramesOk(drv, runs', <<>>)
      BY <3>1, <3>2 DEF FramesOk
    <3>4. QED
      BY <1>5, <3>3
  <2>3. drv.at \in {"idle", "connect", "send"} => w = <<>>
    BY <1>5, <2>1 DEF MineOk
  <2>4. QED
    BY <1>7, <2>1, <2>2, <2>3 DEF MineOk
<1>12. board'.fd <= board.fd
  BY <1>9, IfTyped DEF BoardType
<1>13. QED
  BY <1>1, <1>7, <1>8, <1>9, <1>10, <1>11, <1>12, IfFinishes

\* Nothing was asked and nothing sent.
LEMMA IfInitial == IfInit => IfInv
<1> SUFFICES ASSUME IfInit PROVE IfInv
  OBVIOUS
<1>1. /\ drv = [at |-> "idle", call |-> 0, kind |-> "status", seq |-> 0, fd |-> 0, attempt |-> 0,
                ext |-> 0]
      /\ net = <<>> /\ board = [fd |-> 0, next |-> 1, cmd |-> 0, exts |-> 0, card |-> FALSE]
      /\ runs = [c \in Calls |-> 0] /\ result = [c \in Calls |-> "none"]
  BY DEF IfInit
<1>2. drv \in DrvType /\ drv.at = "idle" /\ drv.fd = 0
  BY <1>1, IfdAssumption DEF DrvType, Messages
<1>3. board \in BoardType /\ board.fd = 0 /\ board.cmd = 0
  BY <1>1 DEF BoardType
<1>4. net \in Seq(ConnType) /\ Len(net) = 0
  BY <1>1, EmptySeq
<1>5. runs \in [Calls -> {0, 1}] /\ result \in [Calls -> Results]
      /\ \A c \in Calls : runs[c] = 0 /\ result[c] = "none"
  BY <1>1 DEF Results
<1>6. IfTypes
  BY <1>2, <1>3, <1>4, <1>5 DEF IfTypes
<1>7. DriverOk(drv, net) /\ BoardOk(board, net) /\ RequestsOk(drv, runs, net)
  BY <1>2, <1>3, <1>4 DEF DriverOk, BoardOk, RequestsOk
<1>8. RunsOk(drv, runs) /\ ResultsOk(runs, result)
  BY <1>5 DEF RunsOk, ResultsOk
<1>9. QED
  BY <1>2, <1>6, <1>7, <1>8 DEF IfInv

\* Every step of the driver and of the board keeps it.
LEMMA IfStepSound == BoardExtends <= MaxExtensions /\ IfInv /\ [IfNext]_ifVars => IfInv'
<1> SUFFICES ASSUME BoardExtends <= MaxExtensions, IfInv, [IfNext]_ifVars PROVE IfInv'
  OBVIOUS
<1>1. CASE UNCHANGED ifVars
  BY <1>1 DEF ifVars, IfInv, IfTypes
<1>2. QED
  BY <1>1, IfEnter, IfConnect, IfSend, IfReadEcho, IfReadAnswer, IfCloses, IfAccepts, IfEchoes,
     IfExtends, IfExecutes, IfCrashes DEF IfNext

\* What it says of executions.
LEMMA IfInvIsEnough == IfInv => ExecutedOnce
BY DEF IfInv, IfTypes, ResultsOk, ExecutedOnce

-----------------------------------------------------------------------------
(* The console: lines in order, subscriptions of those who asked *)

BleEvent ==
    [ev : {"registered", "created", "characteristic", "descriptor", "configured", "scanResponse"}]
    \cup [ev : {"connected"}, peer : Centrals, id : Nat \ {0}]
    \cup [ev : {"disconnected"}, peer : Centrals]
    \cup [ev : {"write"}, id : Nat \ {0}, on : BOOLEAN]
    \cup [ev : {"mtu"}, id : Nat \ {0}, mtu : Mtus]

ConsoleConn == [id : Nat, notify : BOOLEAN, mtu : Nat]

\* An event that says where the link of c stands, and what it says.
Reports(e, c) == e.ev \in {"connected", "disconnected"} /\ e.peer = c
Reported(e) == IF e.ev = "connected" THEN e.id ELSE 0

\* A subscription or its end, written on connection id.
WrittenOn(e, id) == e.ev = "write" /\ e.id = id

NoReport(s, c, p) == \A q \in (p + 1)..Len(s) : ~Reports(s[q], c)
NoWrite(s, id, p) == \A q \in (p + 1)..Len(s) : ~WrittenOn(s[q], id)

\* What the list may say of a central, n, while the events of s are on their
\* way: the last report of c among them is where its link, l, stands, and the
\* last write on its connection after that report what it asked for, a.
Tracked(s, c, n, l, a) ==
    /\ \A p \in 1..Len(s) : Reports(s[p], c) /\ NoReport(s, c, p) => l = Reported(s[p])
    /\ NoReport(s, c, 0) => n.id = l
    /\ n.id = 0 => ~n.notify
    /\ \A p \in 1..Len(s) :
          WrittenOn(s[p], l) /\ NoReport(s, c, p) /\ NoWrite(s, l, p) => a = s[p].on
    /\ NoReport(s, c, 0) /\ NoWrite(s, l, 0) /\ n.notify => a

\* No two links share an id, and a write waits only when there is a CCCD.
LinksApart(l) == \A c, d \in Centrals : l[c] = l[d] /\ l[c] # 0 => c = d
WritesServed(s, h) == \A p \in 1..Len(s) : s[p].ev = "write" => "cccd" \in h

SubOk(s, n, l, a, h) ==
    /\ s \in Seq(BleEvent) /\ n \in [Centrals -> ConsoleConn]
    /\ l \in [Centrals -> Nat] /\ a \in [Centrals -> BOOLEAN]
    /\ LinksApart(l) /\ WritesServed(s, h)
    /\ \A c \in Centrals : Tracked(s, c, n[c], l[c], a[c])

SubInv == SubOk(events, conns, link, asked, handles)

\* An event about no central's link or subscription.
Plain(e) == e \in BleEvent /\ e.ev \notin {"connected", "disconnected", "write"}

\* What each kind of event carries.
LEMMA BleEventIs ==
    ASSUME NEW e \in BleEvent
    PROVE  /\ Reports(e, e.peer) => e.peer \in Centrals
           /\ \A c : Reports(e, c) => c \in Centrals /\ Reported(e) \in Nat /\ e.ev # "write"
           /\ e.ev = "connected" => e.peer \in Centrals /\ e.id \in Nat \ {0}
           /\ e.ev = "disconnected" => e.peer \in Centrals
           /\ e.ev = "write" => e.id \in Nat \ {0} /\ e.on \in BOOLEAN
           /\ e.ev = "mtu" => e.id \in Nat \ {0} /\ e.mtu \in Nat
<1>1. /\ e.ev = "connected" => e.peer \in Centrals /\ e.id \in Nat \ {0}
      /\ e.ev = "disconnected" => e.peer \in Centrals
      /\ e.ev = "write" => e.id \in Nat \ {0} /\ e.on \in BOOLEAN
      /\ e.ev = "mtu" => e.id \in Nat \ {0} /\ e.mtu \in Nat
  BY BleAssumption DEF BleEvent
<1>2. QED
  BY <1>1 DEF Reports, Reported

\* An event added to those on their way.
LEMMA BlePut ==
    ASSUME NEW s \in Seq(BleEvent), NEW e \in BleEvent, NEW t, t = Append(s, e)
    PROVE  /\ t \in Seq(BleEvent) /\ Len(t) = Len(s) + 1 /\ Len(s) \in Nat /\ t[Len(s) + 1] = e
           /\ \A p \in 1..Len(s) : t[p] = s[p]
           /\ \A c : NoReport(t, c, Len(s) + 1) /\ \A id : NoWrite(t, id, Len(s) + 1)
           /\ \A c : \A p \in 0..Len(s) : NoReport(t, c, p) <=> NoReport(s, c, p) /\ ~Reports(e, c)
           /\ \A id : \A p \in 0..Len(s) : NoWrite(t, id, p) <=> NoWrite(s, id, p) /\ ~WrittenOn(e, id)
<1>1. PICK z \in Nat : z = Len(s)
  BY LenProperties
<1>2. t \in Seq(BleEvent) /\ Len(t) = z + 1 /\ t[z + 1] = e /\ \A p \in 1..z : t[p] = s[p]
  BY <1>1, AppendProperties
<1>3. ASSUME NEW c, NEW p \in 0..z PROVE NoReport(t, c, p) <=> NoReport(s, c, p) /\ ~Reports(e, c)
  <2>1. ASSUME NoReport(t, c, p) PROVE NoReport(s, c, p) /\ ~Reports(e, c)
    <3>1. z + 1 \in (p + 1)..(z + 1) /\ \A q \in (p + 1)..z : q \in (p + 1)..(z + 1) /\ q \in 1..z
      OBVIOUS
    <3>2. QED
      BY <1>1, <1>2, <2>1, <3>1 DEF NoReport
  <2>2. ASSUME NoReport(s, c, p), ~Reports(e, c) PROVE NoReport(t, c, p)
    <3>1. \A q \in (p + 1)..(z + 1) : q = z + 1 \/ (q \in (p + 1)..z /\ q \in 1..z)
      OBVIOUS
    <3>2. QED
      BY <1>1, <1>2, <2>2, <3>1 DEF NoReport
  <2>3. QED
    BY <2>1, <2>2
<1>4. ASSUME NEW id, NEW p \in 0..z PROVE NoWrite(t, id, p) <=> NoWrite(s, id, p) /\ ~WrittenOn(e, id)
  <2>1. ASSUME NoWrite(t, id, p) PROVE NoWrite(s, id, p) /\ ~WrittenOn(e, id)
    <3>1. z + 1 \in (p + 1)..(z + 1) /\ \A q \in (p + 1)..z : q \in (p + 1)..(z + 1) /\ q \in 1..z
      OBVIOUS
    <3>2. QED
      BY <1>1, <1>2, <2>1, <3>1 DEF NoWrite
  <2>2. ASSUME NoWrite(s, id, p), ~WrittenOn(e, id) PROVE NoWrite(t, id, p)
    <3>1. \A q \in (p + 1)..(z + 1) : q = z + 1 \/ (q \in (p + 1)..z /\ q \in 1..z)
      OBVIOUS
    <3>2. QED
      BY <1>1, <1>2, <2>2, <3>1 DEF NoWrite
  <2>3. QED
    BY <2>1, <2>2
<1>5. \A q \in ((z + 1) + 1)..(z + 1) : FALSE
  OBVIOUS
<1>6. \A c : NoReport(t, c, z + 1) /\ \A id : NoWrite(t, id, z + 1)
  BY <1>2, <1>5 DEF NoReport, NoWrite
<1>7. QED
  BY <1>1, <1>2, <1>3, <1>4, <1>6

\* The next event taken from those on their way.
LEMMA BleTake ==
    ASSUME NEW s \in Seq(BleEvent), s # <<>>, NEW t, t = Tail(s), NEW e, e = Head(s)
    PROVE  /\ e \in BleEvent /\ t \in Seq(BleEvent) /\ Len(s) = Len(t) + 1 /\ Len(t) \in Nat /\ s[1] = e
           /\ \A p \in 1..Len(t) : t[p] = s[p + 1] /\ p + 1 \in 1..Len(s)
           /\ \A c : \A p \in 0..Len(t) : NoReport(t, c, p) <=> NoReport(s, c, p + 1)
           /\ \A id : \A p \in 0..Len(t) : NoWrite(t, id, p) <=> NoWrite(s, id, p + 1)
           /\ \A c : NoReport(s, c, 0) <=> NoReport(t, c, 0) /\ ~Reports(e, c)
           /\ \A id : NoWrite(s, id, 0) <=> NoWrite(t, id, 0) /\ ~WrittenOn(e, id)
<1>1. PICK z \in Nat : z = Len(t)
  BY HeadTailProperties, LenProperties
<1>2. /\ e \in BleEvent /\ t \in Seq(BleEvent) /\ Len(s) = z + 1
      /\ \A p \in 1..z : t[p] = s[p + 1]
  BY <1>1, HeadTailProperties, LenProperties
<1>3. s[1] = e
  OBVIOUS
<1>4. ASSUME NEW c, NEW p \in 0..z PROVE NoReport(t, c, p) <=> NoReport(s, c, p + 1)
  <2>1. ASSUME NoReport(t, c, p) PROVE NoReport(s, c, p + 1)
    <3>1. \A q \in ((p + 1) + 1)..(z + 1) : q - 1 \in (p + 1)..z /\ q - 1 \in 1..z /\ (q - 1) + 1 = q
      OBVIOUS
    <3>2. QED
      BY <1>1, <1>2, <2>1, <3>1 DEF NoReport
  <2>2. ASSUME NoReport(s, c, p + 1) PROVE NoReport(t, c, p)
    <3>1. \A q \in (p + 1)..z : q + 1 \in ((p + 1) + 1)..(z + 1) /\ q \in 1..z
      OBVIOUS
    <3>2. QED
      BY <1>1, <1>2, <2>2, <3>1 DEF NoReport
  <2>3. QED
    BY <2>1, <2>2
<1>5. ASSUME NEW id, NEW p \in 0..z PROVE NoWrite(t, id, p) <=> NoWrite(s, id, p + 1)
  <2>1. ASSUME NoWrite(t, id, p) PROVE NoWrite(s, id, p + 1)
    <3>1. \A q \in ((p + 1) + 1)..(z + 1) : q - 1 \in (p + 1)..z /\ q - 1 \in 1..z /\ (q - 1) + 1 = q
      OBVIOUS
    <3>2. QED
      BY <1>1, <1>2, <2>1, <3>1 DEF NoWrite
  <2>2. ASSUME NoWrite(s, id, p + 1) PROVE NoWrite(t, id, p)
    <3>1. \A q \in (p + 1)..z : q + 1 \in ((p + 1) + 1)..(z + 1) /\ q \in 1..z
      OBVIOUS
    <3>2. QED
      BY <1>1, <1>2, <2>2, <3>1 DEF NoWrite
  <2>3. QED
    BY <2>1, <2>2
<1>6. \A q : q \in (0 + 1)..(z + 1) <=> q = 1 \/ q \in ((0 + 1) + 1)..(z + 1)
  OBVIOUS
<1>7. \A c : NoReport(s, c, 0) <=> NoReport(s, c, 0 + 1) /\ ~Reports(e, c)
  BY <1>2, <1>3, <1>6 DEF NoReport
<1>8. \A id : NoWrite(s, id, 0) <=> NoWrite(s, id, 0 + 1) /\ ~WrittenOn(e, id)
  BY <1>2, <1>3, <1>6 DEF NoWrite
<1>9. 0 \in 0..z /\ \A p \in 1..z : p + 1 \in 1..(z + 1)
  OBVIOUS
<1>10. QED
  BY <1>1, <1>2, <1>3, <1>4, <1>5, <1>7, <1>8, <1>9

\* An event that is not about c leaves what is known of c.
LEMMA TrackedPut ==
    ASSUME NEW s \in Seq(BleEvent), NEW e \in BleEvent, NEW c, NEW n, NEW l, NEW a,
           Tracked(s, c, n, l, a), ~Reports(e, c), ~WrittenOn(e, l)
    PROVE  Tracked(Append(s, e), c, n, l, a)
<1>1. PICK t : t = Append(s, e)
  OBVIOUS
<1>2. PICK z \in Nat : z = Len(s)
  BY LenProperties
<1>3. /\ Len(t) = z + 1 /\ t[z + 1] = e /\ \A p \in 1..z : t[p] = s[p]
      /\ \A p \in 0..z : NoReport(t, c, p) <=> NoReport(s, c, p)
      /\ \A p \in 0..z : NoWrite(t, l, p) <=> NoWrite(s, l, p)
  <2>1. Len(t) = Len(s) + 1 /\ t[Len(s) + 1] = e /\ \A p \in 1..Len(s) : t[p] = s[p]
    BY <1>1, AppendProperties
  <2>2. \A p \in 0..Len(s) : NoReport(t, c, p) <=> NoReport(s, c, p) /\ ~Reports(e, c)
    BY <1>1, BlePut, ZenonT(60)
  <2>3. \A p \in 0..Len(s) : NoWrite(t, l, p) <=> NoWrite(s, l, p) /\ ~WrittenOn(e, l)
    BY <1>1, BlePut, ZenonT(60)
  <2>4. QED
    BY <1>2, <2>1, <2>2, <2>3
<1>4. \A p \in 1..(z + 1) : p = z + 1 \/ (p \in 1..z /\ p \in 0..z)
  OBVIOUS
<1>5. 0 \in 0..z
  OBVIOUS
<1>6. QED
  BY <1>1, <1>2, <1>3, <1>4, <1>5 DEF Tracked

\* A report of c: its link stands where the report says.
LEMMA TrackedReport ==
    ASSUME NEW s \in Seq(BleEvent), NEW e \in BleEvent, NEW c, NEW n, NEW l, NEW m, NEW a, NEW b,
           Tracked(s, c, n, l, a), Reports(e, c), m = Reported(e)
    PROVE  Tracked(Append(s, e), c, n, m, b)
<1>1. PICK t : t = Append(s, e)
  OBVIOUS
<1>2. PICK z \in Nat : z = Len(s)
  BY LenProperties
<1>3. /\ Len(t) = z + 1 /\ t[z + 1] = e
      /\ \A p \in 0..z : ~NoReport(t, c, p)
  BY <1>1, <1>2, BlePut
<1>4. \A p \in 1..(z + 1) : p = z + 1 \/ p \in 0..z
  OBVIOUS
<1>5. 0 \in 0..z /\ ~WrittenOn(e, m)
  BY BleEventIs DEF WrittenOn
<1>6. QED
  BY <1>1, <1>2, <1>3, <1>4, <1>5 DEF Tracked

\* A write of c: what it asks for is what is waited for.
LEMMA TrackedWrite ==
    ASSUME NEW s \in Seq(BleEvent), NEW e \in BleEvent, NEW c, NEW n, NEW l, NEW a, NEW b,
           Tracked(s, c, n, l, a), WrittenOn(e, l), b = e.on
    PROVE  Tracked(Append(s, e), c, n, l, b)
<1>0. ~Reports(e, c)
  BY DEF Reports, WrittenOn
<1>1. PICK t : t = Append(s, e)
  OBVIOUS
<1>2. PICK z \in Nat : z = Len(s)
  BY LenProperties
<1>3. /\ Len(t) = z + 1 /\ t[z + 1] = e /\ \A p \in 1..z : t[p] = s[p]
      /\ \A p \in 0..z : NoReport(t, c, p) <=> NoReport(s, c, p)
      /\ \A p \in 0..z : ~NoWrite(t, l, p)
  <2>1. Len(t) = Len(s) + 1 /\ t[Len(s) + 1] = e /\ \A p \in 1..Len(s) : t[p] = s[p]
    BY <1>1, AppendProperties
  <2>2. \A p \in 0..Len(s) : NoReport(t, c, p) <=> NoReport(s, c, p) /\ ~Reports(e, c)
    BY <1>1, BlePut, ZenonT(60)
  <2>3. \A p \in 0..Len(s) : NoWrite(t, l, p) <=> NoWrite(s, l, p) /\ ~WrittenOn(e, l)
    BY <1>1, BlePut, ZenonT(60)
  <2>4. QED
    BY <1>0, <1>2, <2>1, <2>2, <2>3
<1>4. \A p \in 1..(z + 1) : p = z + 1 \/ (p \in 1..z /\ p \in 0..z)
  OBVIOUS
<1>5. 0 \in 0..z
  OBVIOUS
<1>6. QED
  BY <1>0, <1>1, <1>2, <1>3, <1>4, <1>5 DEF Tracked

\* An event served that is not about c.
LEMMA TrackedTake ==
    ASSUME NEW s \in Seq(BleEvent), s # <<>>, NEW c, NEW n, NEW l, NEW a,
           Tracked(s, c, n, l, a), ~Reports(Head(s), c), ~WrittenOn(Head(s), l)
    PROVE  Tracked(Tail(s), c, n, l, a)
<1>1. PICK t : t = Tail(s)
  OBVIOUS
<1>2. PICK z \in Nat : z = Len(t)
  BY <1>1, BleTake
<1>3. /\ Len(s) = z + 1
      /\ \A p \in 1..z : t[p] = s[p + 1] /\ p + 1 \in 1..Len(s)
      /\ \A p \in 0..z : NoReport(t, c, p) <=> NoReport(s, c, p + 1)
      /\ \A p \in 0..z : NoWrite(t, l, p) <=> NoWrite(s, l, p + 1)
      /\ NoReport(t, c, 0) <=> NoReport(s, c, 0)
      /\ NoWrite(t, l, 0) <=> NoWrite(s, l, 0)
  <2>1. /\ Len(s) = Len(t) + 1 /\ s[1] = Head(s)
        /\ \A p \in 1..Len(t) : t[p] = s[p + 1] /\ p + 1 \in 1..Len(s)
    BY <1>1, BleTake, ZenonT(60)
  <2>2. \A p \in 0..Len(t) : NoReport(t, c, p) <=> NoReport(s, c, p + 1)
    BY <1>1, BleTake, ZenonT(60)
  <2>3. \A p \in 0..Len(t) : NoWrite(t, l, p) <=> NoWrite(s, l, p + 1)
    BY <1>1, BleTake, ZenonT(60)
  <2>4. NoReport(s, c, 0) <=> NoReport(t, c, 0) /\ ~Reports(Head(s), c)
    BY <1>1, BleTake, ZenonT(60)
  <2>5. NoWrite(s, l, 0) <=> NoWrite(t, l, 0) /\ ~WrittenOn(Head(s), l)
    BY <1>1, BleTake, ZenonT(60)
  <2>6. QED
    BY <1>2, <2>1, <2>2, <2>3, <2>4, <2>5
<1>4. \A p \in 1..z : p \in 0..z
  OBVIOUS
<1>5. QED
  BY <1>1, <1>2, <1>3, <1>4 DEF Tracked

\* A report of c served: the list has its connection anew, without subscription.
LEMMA TrackedServed ==
    ASSUME NEW s \in Seq(BleEvent), s # <<>>, NEW c, NEW n, NEW m, NEW l, NEW a,
           Tracked(s, c, n, l, a), Reports(Head(s), c), m.id = Reported(Head(s)), m.notify = FALSE
    PROVE  Tracked(Tail(s), c, m, l, a)
<1>1. PICK t : t = Tail(s)
  OBVIOUS
<1>2. PICK z \in Nat : z = Len(t)
  BY <1>1, BleTake
<1>3. /\ Len(s) = z + 1 /\ s[1] = Head(s)
      /\ \A p \in 1..z : t[p] = s[p + 1] /\ p + 1 \in 1..Len(s)
      /\ \A p \in 0..z : NoReport(t, c, p) <=> NoReport(s, c, p + 1)
      /\ \A p \in 0..z : NoWrite(t, l, p) <=> NoWrite(s, l, p + 1)
  <2>1. /\ Len(s) = Len(t) + 1 /\ s[1] = Head(s)
        /\ \A p \in 1..Len(t) : t[p] = s[p + 1] /\ p + 1 \in 1..Len(s)
    BY <1>1, BleTake, ZenonT(60)
  <2>2. \A p \in 0..Len(t) : NoReport(t, c, p) <=> NoReport(s, c, p + 1)
    BY <1>1, BleTake, ZenonT(60)
  <2>3. \A p \in 0..Len(t) : NoWrite(t, l, p) <=> NoWrite(s, l, p + 1)
    BY <1>1, BleTake, ZenonT(60)
  <2>4. NoReport(s, c, 0) <=> NoReport(t, c, 0) /\ ~Reports(Head(s), c)
    BY <1>1, BleTake, ZenonT(60)
  <2>5. NoWrite(s, l, 0) <=> NoWrite(t, l, 0) /\ ~WrittenOn(Head(s), l)
    BY <1>1, BleTake, ZenonT(60)
  <2>6. QED
    BY <1>2, <2>1, <2>2, <2>3, <2>4, <2>5
<1>4. \A p \in 1..z : p \in 0..z
  OBVIOUS
<1>5. NoReport(t, c, 0) => l = Reported(Head(s))
  <2>1. 0 \in 0..z /\ 0 + 1 = 1 /\ 1 \in 1..(z + 1)
    OBVIOUS
  <2>2. QED
    BY <1>3, <2>1 DEF Tracked
<1>6. QED
  BY <1>1, <1>2, <1>3, <1>4, <1>5 DEF Tracked

\* A write served: the subscription of the connection with that id.
LEMMA TrackedSet ==
    ASSUME NEW s \in Seq(BleEvent), s # <<>>, NEW c, NEW n, NEW m, NEW l, NEW a,
           Tracked(s, c, n, l, a), Head(s).ev = "write", m.id = n.id,
           m.notify = IF n.id = Head(s).id THEN Head(s).on ELSE n.notify
    PROVE  Tracked(Tail(s), c, m, l, a)
<1>0. ~Reports(Head(s), c) /\ Head(s).id # 0
  BY HeadTailProperties, BleEventIs DEF Reports
<1>1. PICK t : t = Tail(s)
  OBVIOUS
<1>2. PICK z \in Nat : z = Len(t)
  BY <1>1, BleTake
<1>3. /\ Len(s) = z + 1 /\ s[1] = Head(s)
      /\ \A p \in 1..z : t[p] = s[p + 1] /\ p + 1 \in 1..Len(s)
      /\ \A p \in 0..z : NoReport(t, c, p) <=> NoReport(s, c, p + 1)
      /\ \A p \in 0..z : NoWrite(t, l, p) <=> NoWrite(s, l, p + 1)
      /\ NoReport(t, c, 0) <=> NoReport(s, c, 0)
      /\ NoWrite(s, l, 0) <=> NoWrite(t, l, 0) /\ ~WrittenOn(Head(s), l)
  <2>1. /\ Len(s) = Len(t) + 1 /\ s[1] = Head(s)
        /\ \A p \in 1..Len(t) : t[p] = s[p + 1] /\ p + 1 \in 1..Len(s)
    BY <1>1, BleTake, ZenonT(60)
  <2>2. \A p \in 0..Len(t) : NoReport(t, c, p) <=> NoReport(s, c, p + 1)
    BY <1>1, BleTake, ZenonT(60)
  <2>3. \A p \in 0..Len(t) : NoWrite(t, l, p) <=> NoWrite(s, l, p + 1)
    BY <1>1, BleTake, ZenonT(60)
  <2>4. NoReport(s, c, 0) <=> NoReport(t, c, 0) /\ ~Reports(Head(s), c)
    BY <1>1, BleTake, ZenonT(60)
  <2>5. NoWrite(s, l, 0) <=> NoWrite(t, l, 0) /\ ~WrittenOn(Head(s), l)
    BY <1>1, BleTake, ZenonT(60)
  <2>6. QED
    BY <1>0, <1>2, <2>1, <2>2, <2>3, <2>4, <2>5
<1>4. (\A p \in 1..z : p \in 0..z) /\ 0 \in 0..z /\ 0 + 1 = 1 /\ 1 \in 1..(z + 1)
  OBVIOUS
<1>5. m.id = 0 => ~m.notify
  BY <1>0 DEF Tracked
<1>6. ASSUME NoReport(t, c, 0), NoWrite(t, l, 0), m.notify PROVE a
  <2>1. n.id = l
    BY <1>3, <1>6 DEF Tracked
  <2>2. CASE Head(s).id = l
    <3>1. a = Head(s).on
      BY <1>3, <1>4, <1>6, <2>2 DEF Tracked, WrittenOn
    <3>2. QED
      BY <1>6, <2>1, <2>2, <3>1
  <2>3. CASE Head(s).id # l
    BY <1>3, <1>6, <2>1, <2>3 DEF Tracked, WrittenOn
  <2>4. QED
    BY <2>2, <2>3
<1>7. QED
  BY <1>1, <1>2, <1>3, <1>4, <1>5, <1>6 DEF Tracked

\* A connection that keeps its id and gains no subscription.
LEMMA TrackedLess ==
    ASSUME NEW s, NEW c, NEW n, NEW m, NEW l, NEW a,
           Tracked(s, c, n, l, a), m.id = n.id, m.notify => n.notify
    PROVE  Tracked(s, c, m, l, a)
BY DEF Tracked

\* A plain event is about no central.
LEMMA PlainIs ==
    ASSUME NEW e, Plain(e)
    PROVE  e \in BleEvent /\ \A c : ~Reports(e, c) /\ \A id : ~WrittenOn(e, id)
BY DEF Plain, Reports, WrittenOn

\* A write waits with a CCCD, also with one more event of another kind.
LEMMA ServedPut ==
    ASSUME NEW s \in Seq(BleEvent), NEW e \in BleEvent, NEW h, WritesServed(s, h),
           e.ev = "write" => "cccd" \in h
    PROVE  Append(s, e) \in Seq(BleEvent) /\ WritesServed(Append(s, e), h)
<1>1. PICK t : t = Append(s, e)
  OBVIOUS
<1>2. PICK z \in Nat : z = Len(s)
  BY LenProperties
<1>3. t \in Seq(BleEvent) /\ Len(t) = z + 1 /\ t[z + 1] = e /\ \A p \in 1..z : t[p] = s[p]
  BY <1>1, <1>2, AppendProperties
<1>4. \A p \in 1..(z + 1) : p = z + 1 \/ p \in 1..z
  OBVIOUS
<1>5. QED
  BY <1>1, <1>2, <1>3, <1>4 DEF WritesServed

\* So does it with one event less.
LEMMA ServedTake ==
    ASSUME NEW s \in Seq(BleEvent), s # <<>>, NEW h, WritesServed(s, h)
    PROVE  /\ Tail(s) \in Seq(BleEvent) /\ Head(s) \in BleEvent /\ WritesServed(Tail(s), h)
           /\ Head(s).ev = "write" => "cccd" \in h
<1>1. PICK t : t = Tail(s)
  OBVIOUS
<1>2. PICK z \in Nat : z = Len(t) /\ Len(s) = z + 1
  BY <1>1, HeadTailProperties, LenProperties
<1>3. t \in Seq(BleEvent) /\ Head(s) \in BleEvent /\ s[1] = Head(s) /\ \A p \in 1..z : t[p] = s[p + 1]
  BY <1>1, <1>2, HeadTailProperties
<1>4. 1 \in 1..(z + 1) /\ \A p \in 1..z : p + 1 \in 1..(z + 1)
  OBVIOUS
<1>5. QED
  BY <1>1, <1>2, <1>3, <1>4 DEF WritesServed

\* A plain event joins the ones on their way.
LEMMA SubPutPlain ==
    ASSUME NEW s, NEW n, NEW l, NEW a, NEW h, NEW e, SubOk(s, n, l, a, h), Plain(e)
    PROVE  SubOk(Append(s, e), n, l, a, h)
<1>1. s \in Seq(BleEvent) /\ e \in BleEvent /\ e.ev # "write"
  BY DEF SubOk, Plain
<1>2. Append(s, e) \in Seq(BleEvent) /\ WritesServed(Append(s, e), h)
  BY <1>1, ServedPut DEF SubOk
<1>3. ASSUME NEW c \in Centrals PROVE Tracked(Append(s, e), c, n[c], l[c], a[c])
  <2>1. ~Reports(e, c) /\ ~WrittenOn(e, l[c])
    BY PlainIs
  <2>2. Tracked(s, c, n[c], l[c], a[c])
    BY DEF SubOk
  <2>3. QED
    BY <1>1, <2>1, <2>2, TrackedPut, Zenon
<1>4. QED
  BY <1>2, <1>3 DEF SubOk

\* A plain event is served.
LEMMA SubTakePlain ==
    ASSUME NEW s, NEW n, NEW l, NEW a, NEW h, SubOk(s, n, l, a, h), s # <<>>, Plain(Head(s))
    PROVE  SubOk(Tail(s), n, l, a, h)
<1>1. s \in Seq(BleEvent)
  BY DEF SubOk
<1>2. Tail(s) \in Seq(BleEvent) /\ WritesServed(Tail(s), h)
  BY <1>1, ServedTake DEF SubOk
<1>3. ASSUME NEW c \in Centrals PROVE Tracked(Tail(s), c, n[c], l[c], a[c])
  <2>1. ~Reports(Head(s), c) /\ ~WrittenOn(Head(s), l[c])
    BY PlainIs
  <2>2. Tracked(s, c, n[c], l[c], a[c])
    BY DEF SubOk
  <2>3. QED
    BY <1>1, <2>1, <2>2, TrackedTake, Zenon
<1>4. QED
  BY <1>2, <1>3 DEF SubOk

\* More of the service is known.
LEMMA SubHandles ==
    ASSUME NEW s, NEW n, NEW l, NEW a, NEW h, NEW g, SubOk(s, n, l, a, h), h \subseteq g
    PROVE  SubOk(s, n, l, a, g)
BY DEF SubOk, WritesServed

\* Connections keep their ids and gain no subscription.
LEMMA SubLess ==
    ASSUME NEW s, NEW n, NEW l, NEW a, NEW h, NEW m \in [Centrals -> ConsoleConn], SubOk(s, n, l, a, h),
           \A c \in Centrals : m[c].id = n[c].id /\ (m[c].notify => n[c].notify)
    PROVE  SubOk(s, m, l, a, h)
<1>1. ASSUME NEW c \in Centrals PROVE Tracked(s, c, m[c], l[c], a[c])
  BY TrackedLess DEF SubOk
<1>2. QED
  BY <1>1 DEF SubOk

\* A report is served: create_conn or delete_conn.
LEMMA SubTakeReport ==
    ASSUME NEW s, NEW n, NEW l, NEW a, NEW h, NEW b \in Centrals, NEW r \in ConsoleConn,
           SubOk(s, n, l, a, h), s # <<>>, Reports(Head(s), b),
           r.id = Reported(Head(s)), r.notify = FALSE
    PROVE  SubOk(Tail(s), [n EXCEPT ![b] = r], l, a, h)
<1>1. s \in Seq(BleEvent) /\ n \in [Centrals -> ConsoleConn]
  BY DEF SubOk
<1>2. Tail(s) \in Seq(BleEvent) /\ WritesServed(Tail(s), h) /\ Head(s) \in BleEvent
  BY <1>1, ServedTake DEF SubOk
<1>3. PICK m : m = [n EXCEPT ![b] = r]
  OBVIOUS
<1>4. /\ m \in [Centrals -> ConsoleConn] /\ m[b] = r
      /\ \A c \in Centrals : c # b => m[c] = n[c]
  BY <1>1, <1>3
<1>5. ASSUME NEW c \in Centrals PROVE Tracked(Tail(s), c, m[c], l[c], a[c])
  <2>1. Tracked(s, c, n[c], l[c], a[c])
    BY DEF SubOk
  <2>2. CASE c = b
    BY <1>1, <1>4, <2>1, <2>2, TrackedServed, Zenon
  <2>3. CASE c # b
    <3>1. ~Reports(Head(s), c) /\ ~WrittenOn(Head(s), l[c])
      BY <2>3 DEF Reports, WrittenOn
    <3>2. Tracked(Tail(s), c, n[c], l[c], a[c])
      BY <1>1, <2>1, <3>1, TrackedTake, Zenon
    <3>3. QED
      BY <1>4, <2>3, <3>2
  <2>4. QED
    BY <2>2, <2>3
<1>6. SubOk(Tail(s), m, l, a, h)
  BY <1>2, <1>4, <1>5 DEF SubOk
<1>7. QED
  BY <1>3, <1>6

\* A write is served: handle_write.
LEMMA SubTakeWrite ==
    ASSUME NEW s, NEW n, NEW l, NEW a, NEW h, NEW m \in [Centrals -> ConsoleConn],
           SubOk(s, n, l, a, h), s # <<>>, Head(s).ev = "write",
           \A c \in Centrals : m[c].id = n[c].id /\ m[c].notify = IF n[c].id = Head(s).id THEN Head(s).on
                                                                  ELSE n[c].notify
    PROVE  SubOk(Tail(s), m, l, a, h)
<1>1. s \in Seq(BleEvent)
  BY DEF SubOk
<1>2. Tail(s) \in Seq(BleEvent) /\ WritesServed(Tail(s), h)
  BY <1>1, ServedTake DEF SubOk
<1>3. ASSUME NEW c \in Centrals PROVE Tracked(Tail(s), c, m[c], l[c], a[c])
  <2>1. Tracked(s, c, n[c], l[c], a[c])
    BY DEF SubOk
  <2>2. /\ m[c].id = n[c].id
        /\ m[c].notify = IF n[c].id = Head(s).id THEN Head(s).on ELSE n[c].notify
    OBVIOUS
  <2>3. QED
    BY <1>1, <2>1, <2>2, TrackedSet
<1>4. QED
  BY <1>2, <1>3 DEF SubOk

\* A central comes or goes; its report is the last of the line.
LEMMA SubPutReport ==
    ASSUME NEW s, NEW n, NEW l, NEW a, NEW h, NEW b \in Centrals, NEW e \in BleEvent,
           SubOk(s, n, l, a, h), Reports(e, b), NEW i \in Nat, i = Reported(e),
           i # 0 => \A c \in Centrals : l[c] # i
    PROVE  SubOk(Append(s, e), n, [l EXCEPT ![b] = i], [a EXCEPT ![b] = FALSE], h)
<1>1. s \in Seq(BleEvent) /\ l \in [Centrals -> Nat] /\ a \in [Centrals -> BOOLEAN]
  BY DEF SubOk
<1>2. e.ev # "write"
  BY DEF Reports
<1>3. Append(s, e) \in Seq(BleEvent) /\ WritesServed(Append(s, e), h)
  BY <1>1, <1>2, ServedPut DEF SubOk
<1>4. PICK m, d : m = [l EXCEPT ![b] = i] /\ d = [a EXCEPT ![b] = FALSE]
  OBVIOUS
<1>5. /\ m \in [Centrals -> Nat] /\ m[b] = i /\ \A c \in Centrals : c # b => m[c] = l[c]
      /\ d \in [Centrals -> BOOLEAN] /\ d[b] = FALSE /\ \A c \in Centrals : c # b => d[c] = a[c]
  BY <1>1, <1>4
<1>6. LinksApart(m)
  BY <1>5 DEF SubOk, LinksApart
<1>7. ASSUME NEW c \in Centrals PROVE Tracked(Append(s, e), c, n[c], m[c], d[c])
  <2>1. Tracked(s, c, n[c], l[c], a[c])
    BY DEF SubOk
  <2>2. CASE c = b
    BY <1>1, <1>5, <2>1, <2>2, TrackedReport, Zenon
  <2>3. CASE c # b
    <3>1. ~Reports(e, c) /\ ~WrittenOn(e, l[c])
      BY <2>3 DEF Reports, WrittenOn
    <3>2. Tracked(Append(s, e), c, n[c], l[c], a[c])
      BY <1>1, <2>1, <3>1, TrackedPut, Zenon
    <3>3. QED
      BY <1>5, <2>3, <3>2
  <2>4. QED
    BY <2>2, <2>3
<1>8. SubOk(Append(s, e), n, m, d, h)
  BY <1>3, <1>5, <1>6, <1>7 DEF SubOk
<1>9. QED
  BY <1>4, <1>8

\* A central writes the CCCD.
LEMMA SubPutWrite ==
    ASSUME NEW s, NEW n, NEW l, NEW a, NEW h, NEW b \in Centrals, NEW e \in BleEvent,
           SubOk(s, n, l, a, h), WrittenOn(e, l[b]), NEW on \in BOOLEAN, on = e.on, "cccd" \in h
    PROVE  SubOk(Append(s, e), n, l, [a EXCEPT ![b] = on], h)
<1>1. s \in Seq(BleEvent) /\ a \in [Centrals -> BOOLEAN]
  BY DEF SubOk
<1>2. Append(s, e) \in Seq(BleEvent) /\ WritesServed(Append(s, e), h)
  BY <1>1, ServedPut DEF SubOk
<1>3. PICK d : d = [a EXCEPT ![b] = on]
  OBVIOUS
<1>4. d \in [Centrals -> BOOLEAN] /\ d[b] = on /\ \A c \in Centrals : c # b => d[c] = a[c]
  BY <1>1, <1>3
<1>5. e.id = l[b] /\ l[b] # 0 /\ e.ev = "write"
  BY BleEventIs DEF WrittenOn
<1>6. ASSUME NEW c \in Centrals PROVE Tracked(Append(s, e), c, n[c], l[c], d[c])
  <2>1. Tracked(s, c, n[c], l[c], a[c])
    BY DEF SubOk
  <2>2. CASE c = b
    BY <1>1, <1>4, <2>1, <2>2, TrackedWrite, Zenon
  <2>3. CASE c # b
    <3>1. ~Reports(e, c)
      BY <1>5 DEF Reports
    <3>2. ~WrittenOn(e, l[c])
      BY <1>5, <2>3 DEF WrittenOn, SubOk, LinksApart
    <3>3. Tracked(Append(s, e), c, n[c], l[c], a[c])
      BY <1>1, <2>1, <3>1, <3>2, TrackedPut, Zenon
    <3>4. QED
      BY <1>4, <2>3, <3>3
  <2>4. QED
    BY <2>2, <2>3
<1>7. SubOk(Append(s, e), n, l, d, h)
  BY <1>2, <1>4, <1>6 DEF SubOk
<1>8. QED
  BY <1>3, <1>7

\* There is an id for a central without a link: the others do not use them all.
LEMMA FreeId ==
    ASSUME NEW l \in [Centrals -> Nat], NEW b \in Centrals, l[b] = 0
    PROVE  \E i \in 1..Cardinality(Centrals) :
               i \notin {l[d] : d \in Centrals} /\ \A j \in 1..(i - 1) : j \in {l[d] : d \in Centrals}
<1>1. PICK used : used = {l[d] : d \in Centrals}
  OBVIOUS
<1>2. PICK z \in Nat : z = Cardinality(Centrals)
  BY BleAssumption, FS_CardinalityType
<1>3. PICK T : T = {i \in Nat : i \in 1..z /\ i \notin used}
  OBVIOUS
<1>4. T # {}
  <2> SUFFICES ASSUME T = {} PROVE FALSE
    OBVIOUS
  <2>1. \A i \in 1..z : i \in Nat /\ i # 0
    OBVIOUS
  <2>2. \A i \in 1..z : \E d \in Centrals \ {b} : l[d] = i
    <3>1. \A i \in 1..z : i \in used
      BY <1>3, <2>1
    <3>2. QED
      BY <1>1, <2>1, <3>1
  <2>3. PICK f : f = [i \in 1..z |-> CHOOSE d \in Centrals \ {b} : l[d] = i]
    OBVIOUS
  <2>4. f \in [1..z -> Centrals \ {b}] /\ \A i \in 1..z : l[f[i]] = i
    BY <2>2, <2>3
  <2>5. IsFiniteSet(1..z) /\ Cardinality(1..z) = z
    <3>1. 1 \in Int /\ z \in Int
      OBVIOUS
    <3>2. IsFiniteSet(1..z) /\ Cardinality(1..z) = IF 1 > z THEN 0 ELSE z-1+1
      BY <3>1, FS_Interval, Zenon
    <3>3. (IF 1 > z THEN 0 ELSE z-1+1) = z
      OBVIOUS
    <3>4. QED
      BY <3>2, <3>3
  <2>6. IsFiniteSet(Centrals \ {b}) /\ Cardinality(Centrals \ {b}) < z
    <3>1. IsFiniteSet(Centrals)
      BY BleAssumption
    <3>2. /\ IsFiniteSet(Centrals \ {b})
          /\ Cardinality(Centrals \ {b}) = IF b \in Centrals THEN Cardinality(Centrals)-1 ELSE Cardinality(Centrals)
      BY <3>1, FS_RemoveElement, Zenon
    <3>3. QED
      BY <1>2, <3>2
  <2>7. Cardinality(Centrals \ {b}) < Cardinality(1..z)
    BY <2>5, <2>6
  <2>8. \E i, j \in 1..z : i # j /\ f[i] = f[j]
    BY <2>4, <2>5, <2>6, <2>7, FS_PigeonHole
  <2>9. QED
    BY <2>4, <2>8
<1>5. PICK i \in T : \A j \in T : i <= j
  BY <1>3, <1>4, LeastNumber
<1>6. i \in Nat /\ i \in 1..z /\ i \notin used
  BY <1>3, <1>5
<1>7. ASSUME NEW j \in 1..(i - 1) PROVE j \in used
  <2>1. j \in Nat /\ j \in 1..z /\ ~(i <= j)
    BY <1>6
  <2>2. QED
    BY <1>3, <1>5, <2>1
<1>8. QED
  BY <1>1, <1>2, <1>6, <1>7

\* The queue of events after a handler, for the answers a handler asks for.
LEMMA BleAnswers ==
    ASSUME NEW s \in Seq(BleEvent), NEW e \in BleEvent, NEW f \in BleEvent
    PROVE  s \o <<>> = s /\ s \o <<e>> = Append(s, e) /\ s \o <<e, f>> = Append(Append(s, e), f)
<1>1. s \o <<>> = s /\ s \o <<e>> = Append(s, e)
  BY ConcatEmptySeq, AppendIsConcat
<1>2. PICK v : v = <<e, f>>
  OBVIOUS
<1>3. v \in Seq(BleEvent) /\ Len(v) = 2 /\ v[1] = e /\ v[2] = f
  BY <1>2
<1>4. PICK z \in Nat : z = Len(s)
  BY LenProperties
<1>5. PICK t : t = s \o v
  OBVIOUS
<1>6. /\ t \in Seq(BleEvent) /\ Len(t) = z + 2
      /\ \A i \in 1..(z + 2) : t[i] = IF i <= z THEN s[i] ELSE v[i - z]
  <2>1. /\ s \o v \in Seq(BleEvent) /\ Len(s \o v) = Len(s) + Len(v)
        /\ \A i \in 1 .. Len(s) + Len(v) : (s \o v)[i] = IF i <= Len(s) THEN s[i] ELSE v[i - Len(s)]
    BY <1>3, ConcatProperties, Zenon
  <2>2. QED
    BY <1>3, <1>4, <1>5, <2>1
<1>7. PICK u : u = Append(s, e)
  OBVIOUS
<1>8. u \in Seq(BleEvent) /\ Len(u) = z + 1 /\ u[z + 1] = e /\ \A i \in 1..z : u[i] = s[i]
  BY <1>4, <1>7, AppendProperties
<1>9. PICK w : w = Append(u, f)
  OBVIOUS
<1>10. w \in Seq(BleEvent) /\ Len(w) = (z + 1) + 1 /\ w[(z + 1) + 1] = f /\ \A i \in 1..(z + 1) : w[i] = u[i]
  BY <1>8, <1>9, AppendProperties
<1>11. ASSUME NEW i \in 1..(z + 2) PROVE t[i] = w[i]
  <2>1. CASE i \in 1..z
    BY <1>6, <1>8, <1>10, <2>1
  <2>2. CASE i = z + 1
    BY <1>3, <1>6, <1>8, <1>10, <2>2
  <2>3. CASE i = z + 2
    BY <1>3, <1>6, <1>10, <2>3
  <2>4. QED
    BY <2>1, <2>2, <2>3
<1>12. Len(t) = Len(w) /\ \A i \in 1..Len(t) : t[i] = w[i]
  BY <1>6, <1>10, <1>11
<1>13. t = w
  BY <1>6, <1>10, <1>12, SeqEqual, Zenon
<1>14. QED
  BY <1>1, <1>2, <1>5, <1>7, <1>9, <1>13, Zenon

\* The events the stack answers with are plain.
LEMMA PlainAnswers ==
    /\ Plain([ev |-> "registered"]) /\ Plain([ev |-> "created"]) /\ Plain([ev |-> "characteristic"])
    /\ Plain([ev |-> "descriptor"]) /\ Plain([ev |-> "scanResponse"]) /\ Plain(AdvConf)
BY DEF Plain, BleEvent, AdvConf

\* Bring-up asks for the registration of the service.
LEMMA SubBringUp == ASSUME SubInv, BringUp PROVE SubInv'
<1>1. UNCHANGED <<handles, conns, link, asked>>
  BY DEF BringUp
<1>2. events' = events \/ events' = Append(events, [ev |-> "registered"])
  BY DEF BringUp
<1>3. SubOk(events', conns, link, asked, handles)
  BY <1>2, PlainAnswers, SubPutPlain DEF SubInv
<1>4. QED
  BY <1>1, <1>3 DEF SubInv

\* The answers of one handler, none, one or two plain ones.
LEMMA SubAnswers ==
    ASSUME NEW s, NEW n, NEW l, NEW a, NEW h, NEW e, NEW f, SubOk(s, n, l, a, h), Plain(e), Plain(f)
    PROVE  /\ SubOk(s \o <<>>, n, l, a, h) /\ SubOk(s \o <<e>>, n, l, a, h)
           /\ SubOk(s \o <<e, f>>, n, l, a, h)
<1>1. s \in Seq(BleEvent) /\ e \in BleEvent /\ f \in BleEvent
  BY DEF SubOk, Plain
<1>2. s \o <<>> = s /\ s \o <<e>> = Append(s, e) /\ s \o <<e, f>> = Append(Append(s, e), f)
  BY <1>1, BleAnswers
<1>3. SubOk(Append(s, e), n, l, a, h)
  BY SubPutPlain
<1>4. SubOk(Append(Append(s, e), f), n, l, a, h)
  BY <1>3, SubPutPlain
<1>5. QED
  BY <1>2, <1>3, <1>4

\* The chains that set the service up and the ones that advertise.
LEMMA SubChains ==
    ASSUME SubInv,
           \/ OnServiceRegistered \/ OnServiceCreated \/ OnCharacteristicAdded \/ OnDescriptorAdded
           \/ OnAdvertisingConfigured \/ OnScanResponseConfigured \/ OnFailedStatus
    PROVE  SubInv'
<1>1. /\ UNCHANGED <<conns, link, asked>> /\ events # <<>> /\ handles \subseteq handles'
      /\ Head(events).ev \in {"registered", "created", "characteristic", "descriptor",
                              "configured", "scanResponse"}
      /\ \/ events' = Tail(events)
         \/ events' = Tail(events) \o <<>>
         \/ events' = Tail(events) \o <<AdvConf, [ev |-> "created"]>>
         \/ events' = Tail(events) \o <<[ev |-> "characteristic"]>>
         \/ events' = Tail(events) \o <<[ev |-> "descriptor"]>>
         \/ events' = Tail(events) \o <<[ev |-> "scanResponse"]>>
  BY DEF OnServiceRegistered, OnServiceCreated, OnCharacteristicAdded, OnDescriptorAdded,
         OnAdvertisingConfigured, OnScanResponseConfigured, OnFailedStatus, On, bleState
<1>2. Plain(Head(events))
  <2>1. Head(events) \in BleEvent
    BY <1>1, HeadTailProperties DEF SubInv, SubOk
  <2>2. QED
    BY <1>1, <2>1 DEF Plain
<1>3. SubOk(Tail(events), conns, link, asked, handles)
  BY <1>1, <1>2, SubTakePlain DEF SubInv
<1>4. SubOk(events', conns, link, asked, handles)
  BY <1>1, <1>3, PlainAnswers, SubAnswers
<1>5. SubOk(events', conns, link, asked, handles')
  BY <1>1, <1>4, SubHandles
<1>6. QED
  BY <1>1, <1>5 DEF SubInv

\* create_conn and delete_conn.
LEMMA SubConns == ASSUME SubInv, OnPeerConnected \/ OnPeerDisconnected PROVE SubInv'
<1>1. /\ UNCHANGED <<link, asked, handles>> /\ events # <<>>
      /\ events' = Tail(events) \o <<AdvConf>>
      /\ \/ /\ Head(events).ev = "connected"
            /\ conns' = [conns EXCEPT ![Head(events).peer] = [NoCentral EXCEPT !.id = Head(events).id]]
         \/ /\ Head(events).ev = "disconnected"
            /\ conns' = [conns EXCEPT ![Head(events).peer] = NoCentral]
  BY DEF OnPeerConnected, OnPeerDisconnected, On
<1>2. Head(events) \in BleEvent
  BY <1>1, HeadTailProperties DEF SubInv, SubOk
<1>3. PICK b \in Centrals : b = Head(events).peer
  BY <1>1, <1>2, BleEventIs
<1>4. Reports(Head(events), b)
  BY <1>1, <1>3 DEF Reports
<1>5. PICK r \in ConsoleConn : /\ r.id = Reported(Head(events)) /\ r.notify = FALSE
                               /\ conns' = [conns EXCEPT ![b] = r]
  <2>1. CASE Head(events).ev = "connected"
    <3>1. Head(events).id \in Nat
      BY <1>2, <2>1, BleEventIs
    <3>2. PICK i \in Nat : i = Head(events).id
      BY <3>1
    <3>3. PICK r : r = [NoCentral EXCEPT !.id = i]
      OBVIOUS
    <3>4. r \in ConsoleConn /\ r.id = i /\ r.notify = FALSE
      BY <3>3 DEF ConsoleConn, NoCentral, DefaultMtu
    <3>5. Reported(Head(events)) = i
      BY <2>1, <3>2 DEF Reported
    <3>6. conns' = [conns EXCEPT ![b] = r]
      BY <1>1, <1>3, <2>1, <3>2, <3>3
    <3>7. QED
      BY <3>4, <3>5, <3>6
  <2>2. CASE Head(events).ev = "disconnected"
    <3>1. NoCentral \in ConsoleConn /\ NoCentral.id = 0 /\ NoCentral.notify = FALSE
      BY DEF ConsoleConn, NoCentral, DefaultMtu
    <3>2. Reported(Head(events)) = 0
      BY <2>2 DEF Reported
    <3>3. QED
      BY <1>1, <1>3, <2>2, <3>1, <3>2
  <2>3. QED
    BY <1>1, <2>1, <2>2
<1>6. SubOk(Tail(events), conns', link, asked, handles)
  BY <1>1, <1>4, <1>5, SubTakeReport DEF SubInv
<1>7. SubOk(events', conns', link, asked, handles)
  BY <1>1, <1>6, PlainAnswers, SubAnswers
<1>8. QED
  BY <1>1, <1>7 DEF SubInv

\* handle_write: whoever has the connection id by now.
LEMMA SubWritten == ASSUME SubInv, OnWrite PROVE SubInv'
<1>1. /\ UNCHANGED <<link, asked, handles>> /\ events # <<>>
      /\ events' = Tail(events) \o <<>> /\ Head(events).ev = "write"
      /\ conns' = [c \in Centrals |->
                      IF "cccd" \in handles /\ c \in ById(Head(events).id)
                      THEN [conns[c] EXCEPT !.notify = Head(events).on] ELSE conns[c]]
  BY DEF OnWrite, On
<1>2. /\ Head(events) \in BleEvent /\ "cccd" \in handles /\ Tail(events) \in Seq(BleEvent)
      /\ conns \in [Centrals -> ConsoleConn]
  BY <1>1, ServedTake DEF SubInv, SubOk
<1>3. PICK on \in BOOLEAN : on = Head(events).on
  BY <1>1, <1>2, BleEventIs
<1>4. PICK i : i = Head(events).id
  OBVIOUS
<1>5. ASSUME NEW c \in Centrals
      PROVE  /\ conns'[c] \in ConsoleConn /\ conns'[c].id = conns[c].id
             /\ conns'[c].notify = IF conns[c].id = i THEN on ELSE conns[c].notify
  <2>1. conns'[c] = IF conns[c].id = i THEN [conns[c] EXCEPT !.notify = on] ELSE conns[c]
    BY <1>1, <1>2, <1>3, <1>4 DEF ById
  <2>2. PICK r \in ConsoleConn : r = conns[c]
    BY <1>2
  <2>3. PICK m : m = [r EXCEPT !.notify = on]
    OBVIOUS
  <2>4. m \in ConsoleConn /\ m.id = r.id /\ m.notify = on
    BY <2>3 DEF ConsoleConn
  <2>5. QED
    BY <2>1, <2>2, <2>3, <2>4
<1>6. conns' \in [Centrals -> ConsoleConn]
  <2>1. conns' = [c \in Centrals |-> conns'[c]]
    BY <1>1
  <2>2. QED
    BY <1>5, <2>1
<1>7. SubOk(Tail(events), conns', link, asked, handles)
  BY <1>1, <1>3, <1>4, <1>5, <1>6, SubTakeWrite DEF SubInv
<1>8. events' = Tail(events)
  BY <1>1, <1>2, ConcatEmptySeq
<1>9. QED
  BY <1>1, <1>7, <1>8 DEF SubInv

\* register_conn_mtu: ids and subscriptions stay.
LEMMA SubMtu == ASSUME SubInv, OnMtu PROVE SubInv'
<1>1. /\ UNCHANGED <<link, asked, handles>> /\ events # <<>>
      /\ events' = Tail(events) \o <<>> /\ Head(events).ev = "mtu"
      /\ conns' = [c \in Centrals |->
                      IF c \in ById(Head(events).id)
                      THEN [conns[c] EXCEPT !.mtu = Head(events).mtu] ELSE conns[c]]
  BY DEF OnMtu, On
<1>2. /\ Head(events) \in BleEvent /\ Tail(events) \in Seq(BleEvent)
      /\ conns \in [Centrals -> ConsoleConn]
  BY <1>1, ServedTake DEF SubInv, SubOk
<1>3. PICK u \in Nat : u = Head(events).mtu
  BY <1>1, <1>2, BleEventIs
<1>4. ASSUME NEW c \in Centrals
      PROVE  /\ conns'[c] \in ConsoleConn /\ conns'[c].id = conns[c].id
             /\ conns'[c].notify = conns[c].notify
  <2>1. conns'[c] = [conns[c] EXCEPT !.mtu = u] \/ conns'[c] = conns[c]
    BY <1>1, <1>3
  <2>2. PICK r \in ConsoleConn : r = conns[c]
    BY <1>2
  <2>3. PICK m : m = [r EXCEPT !.mtu = u]
    OBVIOUS
  <2>4. m \in ConsoleConn /\ m.id = r.id /\ m.notify = r.notify
    BY <2>3 DEF ConsoleConn
  <2>5. QED
    BY <2>1, <2>2, <2>3, <2>4
<1>5. conns' \in [Centrals -> ConsoleConn]
  <2>1. conns' = [c \in Centrals |-> conns'[c]]
    BY <1>1
  <2>2. QED
    BY <1>4, <2>1
<1>6. Plain(Head(events))
  BY <1>1, <1>2 DEF Plain
<1>7. SubOk(Tail(events), conns, link, asked, handles)
  BY <1>1, <1>6, SubTakePlain DEF SubInv
<1>8. SubOk(Tail(events), conns', link, asked, handles)
  BY <1>4, <1>5, <1>7, SubLess
<1>9. events' = Tail(events)
  BY <1>1, <1>2, ConcatEmptySeq
<1>10. QED
  BY <1>1, <1>8, <1>9 DEF SubInv

\* A central connects under a free id.
LEMMA SubJoin == ASSUME SubInv, NEW b \in Centrals, JoinCentral(b) PROVE SubInv'
<1>1. link \in [Centrals -> Nat] /\ link[b] = 0
  BY DEF SubInv, SubOk, JoinCentral
<1>2. PICK i : i = CHOOSE k \in 1..Cardinality(Centrals) :
                       k \notin {link[d] : d \in Centrals} /\ \A j \in 1..(k - 1) : j \in {link[d] : d \in Centrals}
  OBVIOUS
<1>3. i \in 1..Cardinality(Centrals) /\ i \notin {link[d] : d \in Centrals}
  BY <1>1, <1>2, FreeId, Zenon
<1>4. i \in Nat \ {0} /\ \A c \in Centrals : link[c] # i
  BY <1>3, BleAssumption, FS_CardinalityType
<1>5. PICK e : e = [ev |-> "connected", peer |-> b, id |-> i]
  OBVIOUS
<1>6. /\ link' = [link EXCEPT ![b] = i] /\ events' = Append(events, e)
      /\ asked' = [asked EXCEPT ![b] = FALSE] /\ UNCHANGED <<conns, handles>>
  BY <1>2, <1>5 DEF JoinCentral, Radio, bleState
<1>7. e \in BleEvent /\ Reports(e, b) /\ Reported(e) = i
  BY <1>4, <1>5 DEF BleEvent, Reports, Reported
<1>8. SubOk(Append(events, e), conns, [link EXCEPT ![b] = i], [asked EXCEPT ![b] = FALSE], handles)
  BY <1>4, <1>7, SubPutReport DEF SubInv
<1>9. QED
  BY <1>6, <1>8 DEF SubInv

\* A central is gone.
LEMMA SubLose == ASSUME SubInv, NEW b \in Centrals, LoseCentral(b) PROVE SubInv'
<1>1. PICK e : e = [ev |-> "disconnected", peer |-> b]
  OBVIOUS
<1>2. /\ link' = [link EXCEPT ![b] = 0] /\ events' = Append(events, e)
      /\ asked' = [asked EXCEPT ![b] = FALSE] /\ UNCHANGED <<conns, handles>>
  BY <1>1 DEF LoseCentral, Radio, bleState
<1>3. e \in BleEvent /\ Reports(e, b) /\ Reported(e) = 0
  <2>1. e.ev = "disconnected" /\ e.peer = b
    BY <1>1
  <2>2. e \in BleEvent
    BY <1>1 DEF BleEvent
  <2>3. QED
    BY <2>1, <2>2 DEF Reports, Reported
<1>4. SubOk(Append(events, e), conns, [link EXCEPT ![b] = 0], [asked EXCEPT ![b] = FALSE], handles)
  BY <1>3, SubPutReport DEF SubInv
<1>5. QED
  BY <1>2, <1>4 DEF SubInv

\* A central subscribes, or ends it.
LEMMA SubSubscribe == ASSUME SubInv, NEW b \in Centrals, NEW on \in BOOLEAN, Subscribe(b, on) PROVE SubInv'
<1>1. PICK e : e = [ev |-> "write", id |-> link[b], on |-> on]
  OBVIOUS
<1>2. /\ asked' = [asked EXCEPT ![b] = on] /\ events' = Append(events, e) /\ "cccd" \in handles
      /\ UNCHANGED <<conns, handles, link>> /\ link[b] # 0
  BY <1>1 DEF Subscribe, Radio, bleState
<1>3. link[b] \in Nat \ {0}
  BY <1>2 DEF SubInv, SubOk
<1>4. e \in BleEvent /\ WrittenOn(e, link[b]) /\ e.on = on
  BY <1>1, <1>3 DEF BleEvent, WrittenOn
<1>5. SubOk(Append(events, e), conns, link, [asked EXCEPT ![b] = on], handles)
  BY <1>2, <1>4, SubPutWrite DEF SubInv
<1>6. QED
  BY <1>2, <1>5 DEF SubInv

\* A central negotiates its MTU.
LEMMA SubNegotiate == ASSUME SubInv, NEW b \in Centrals, NEW u \in Mtus, Negotiate(b, u) PROVE SubInv'
<1>1. PICK e : e = [ev |-> "mtu", id |-> link[b], mtu |-> u]
  OBVIOUS
<1>2. /\ events' = Append(events, e) /\ UNCHANGED <<conns, handles, link, asked>> /\ link[b] # 0
  BY <1>1 DEF Negotiate, Radio, bleState
<1>3. link[b] \in Nat \ {0}
  BY <1>2 DEF SubInv, SubOk
<1>4. Plain(e)
  BY <1>1, <1>3 DEF BleEvent, Plain
<1>5. QED
  BY <1>2, <1>4, SubPutPlain DEF SubInv

\* send_log_bytes ends subscriptions and starts none.
LEMMA SubSend == ASSUME SubInv, SendLine PROVE SubInv'
<1>1. /\ UNCHANGED <<events, link, asked, handles>>
      /\ \E D : conns' = [c \in Centrals |-> IF c \in D THEN [conns[c] EXCEPT !.notify = FALSE] ELSE conns[c]]
  <2>1. UNCHANGED <<events, link, asked, handles>>
    BY DEF SendLine, Logs, bleRadio
  <2>2. PICK k \in Takes : conns' = [c \in Centrals |->
                IF c \in Subscribed \ {d \in Subscribed : k[d] = Chunks(conns[d].mtu)}
                THEN [conns[c] EXCEPT !.notify = FALSE] ELSE conns[c]]
    BY Zenon DEF SendLine
  <2>3. QED
    BY <2>1, <2>2, Zenon
<1>2. PICK D : conns' = [c \in Centrals |-> IF c \in D THEN [conns[c] EXCEPT !.notify = FALSE] ELSE conns[c]]
  BY <1>1
<1>3. conns \in [Centrals -> ConsoleConn]
  BY DEF SubInv, SubOk
<1>4. ASSUME NEW c \in Centrals
      PROVE  /\ conns'[c] \in ConsoleConn /\ conns'[c].id = conns[c].id
             /\ (conns'[c].notify => conns[c].notify)
  <2>1. conns'[c] = [conns[c] EXCEPT !.notify = FALSE] \/ conns'[c] = conns[c]
    BY <1>2
  <2>2. PICK r \in ConsoleConn : r = conns[c]
    BY <1>3
  <2>3. PICK m : m = [r EXCEPT !.notify = FALSE]
    OBVIOUS
  <2>4. m \in ConsoleConn /\ m.id = r.id /\ m.notify = FALSE
    BY <2>3 DEF ConsoleConn
  <2>5. QED
    BY <2>1, <2>2, <2>3, <2>4
<1>5. conns' \in [Centrals -> ConsoleConn]
  <2>1. conns' = [c \in Centrals |-> conns'[c]]
    BY <1>2
  <2>2. QED
    BY <1>4, <2>1
<1>6. SubOk(events, conns', link, asked, handles)
  BY <1>4, <1>5, SubLess DEF SubInv
<1>7. QED
  BY <1>1, <1>6 DEF SubInv

\* Nobody has connected.
LEMMA SubInitial == BleInit => SubInv
<1> SUFFICES ASSUME BleInit PROVE SubInv
  OBVIOUS
<1>1. /\ events = <<>> /\ conns = [c \in Centrals |-> NoCentral]
      /\ link = [c \in Centrals |-> 0] /\ asked = [c \in Centrals |-> FALSE]
  BY DEF BleInit
<1>2. events \in Seq(BleEvent) /\ Len(events) = 0
  BY <1>1, EmptySeq
<1>3. NoCentral \in ConsoleConn /\ NoCentral.id = 0 /\ NoCentral.notify = FALSE
  BY DEF ConsoleConn, NoCentral, DefaultMtu
<1>4. /\ conns \in [Centrals -> ConsoleConn] /\ link \in [Centrals -> Nat]
      /\ asked \in [Centrals -> BOOLEAN]
  BY <1>1, <1>3
<1>5. \A p \in 1..0 : FALSE
  OBVIOUS
<1>6. ASSUME NEW c \in Centrals PROVE Tracked(events, c, conns[c], link[c], asked[c])
  <2>1. conns[c] = NoCentral /\ link[c] = 0
    BY <1>1
  <2>2. QED
    BY <1>2, <1>3, <1>5, <2>1 DEF Tracked
<1>7. WritesServed(events, handles) /\ LinksApart(link)
  BY <1>1, <1>2, <1>5 DEF WritesServed, LinksApart
<1>8. QED
  BY <1>2, <1>4, <1>6, <1>7 DEF SubInv, SubOk

\* Every step keeps what is known of the centrals.
LEMMA SubStepSound == SubInv /\ [BleNext]_bleVars => SubInv'
<1> SUFFICES ASSUME SubInv, [BleNext]_bleVars PROVE SubInv'
  OBVIOUS
<1>1. CASE UNCHANGED <<events, conns, link, asked, handles>>
  BY <1>1 DEF SubInv
<1>2. CASE PushLine \/ DrainNobody \/ DrainStart \/ ReadFront \/ Pop
  <2>1. UNCHANGED <<events, conns, link, asked, handles>>
    BY <1>2 DEF PushLine, DrainNobody, DrainStart, ReadFront, Pop, Logs, bleRadio
  <2>2. QED
    BY <1>1, <2>1
<1>3. CASE UNCHANGED bleVars
  BY <1>1, <1>3 DEF bleVars, bleState, bleRadio
<1>4. CASE \E c \in Centrals : \/ JoinCentral(c) \/ LoseCentral(c)
                               \/ \E on \in BOOLEAN : Subscribe(c, on)
                               \/ \E mtu \in Mtus : Negotiate(c, mtu)
  BY <1>4, SubJoin, SubLose, SubSubscribe, SubNegotiate
<1>5. CASE BringUp \/ SendLine \/ OnPeerConnected \/ OnPeerDisconnected \/ OnWrite \/ OnMtu
  BY <1>5, SubBringUp, SubSend, SubConns, SubWritten, SubMtu
<1>6. CASE \/ OnServiceRegistered \/ OnServiceCreated \/ OnCharacteristicAdded \/ OnDescriptorAdded
           \/ OnAdvertisingConfigured \/ OnScanResponseConfigured \/ OnFailedStatus
  BY <1>6, SubChains
<1>7. QED
  BY <1>2, <1>3, <1>4, <1>5, <1>6 DEF BleNext

\* Once the events are through, the list is the links there are.
LEMMA SubInvIsEnough == SubInv => SubscriptionsAreTrue
<1> SUFFICES ASSUME SubInv, events = <<>>, NEW c \in Centrals
             PROVE  conns[c].id = link[c] /\ (conns[c].notify => asked[c])
  BY DEF SubscriptionsAreTrue
<1>1. Len(events) = 0
  OBVIOUS
<1>2. \A q \in (0 + 1)..0 : FALSE
  OBVIOUS
<1>3. NoReport(events, c, 0) /\ NoWrite(events, link[c], 0)
  BY <1>1, <1>2 DEF NoReport, NoWrite
<1>4. Tracked(events, c, conns[c], link[c], asked[c])
  BY DEF SubInv, SubOk
<1>5. QED
  BY <1>3, <1>4 DEF Tracked

\* A sequence of line numbers that rises; those up to n; those from n on.
Rising(s) == \A i, j \in 1..Len(s) : i < j => s[i] < s[j]
LinesUpTo(s, n) == \A i \in 1..Len(s) : s[i] <= n
LinesFrom(s, n) == \A i \in 1..Len(s) : n <= s[i]

\* The queue q rises and so does what every central got, g.  Every central is
\* at n or before it and the queue after it; the line drain has read, at `send`,
\* is the next one, and stays in the queue at `pop`.
LogOk(q, at, ln, m, g) ==
    /\ q \in Seq(Nat) /\ m \in Nat /\ g \in [Centrals -> Seq(Nat)]
    /\ Rising(q) /\ LinesUpTo(q, m) /\ \A c \in Centrals : Rising(g[c])
    /\ \E n \in Nat :
          /\ n <= m /\ \A c \in Centrals : LinesUpTo(g[c], n)
          /\ LinesFrom(q, IF at = "pop" THEN n ELSE n + 1)
          /\ at = "send" => ln = n + 1 /\ ln <= m
          /\ at = "pop" => ln = n

LogInv == LogOk(queue, drain.at, drain.line, lineNo, got)

ConsoleInv == SubInv /\ LogInv

\* A line longer than nothing takes at least one chunk.
LEMMA ChunksAreSome == ASSUME NEW u \in Nat PROVE Chunks(u) \in Int /\ Chunks(u) # 0
<1>1. PICK k \in Nat \ {0} : k = ChunkLen(u)
  BY DEF ChunkLen
<1>2. PICK x \in Nat : x = LineLen + k - 1 /\ x >= k
  BY <1>1, BleAssumption
<1>3. x \div k \in Int /\ x \div k # 0
  BY <1>2
<1>4. QED
  BY <1>1, <1>2, <1>3 DEF Chunks

\* A later line at the end.
LEMMA RisingPut ==
    ASSUME NEW s \in Seq(Nat), Rising(s), NEW n \in Nat, LinesUpTo(s, n), NEW x \in Nat, n < x
    PROVE  /\ Append(s, x) \in Seq(Nat) /\ Rising(Append(s, x)) /\ LinesUpTo(Append(s, x), x)
           /\ \A k \in Nat : k <= x /\ LinesFrom(s, k) => LinesFrom(Append(s, x), k)
<1>1. PICK t : t = Append(s, x)
  OBVIOUS
<1>2. PICK z \in Nat : z = Len(s)
  BY LenProperties
<1>3. t \in Seq(Nat) /\ Len(t) = z + 1 /\ t[z + 1] = x /\ \A p \in 1..z : t[p] = s[p]
  BY <1>1, <1>2, AppendProperties
<1>4. \A p \in 1..z : s[p] \in Nat /\ s[p] <= n
  BY <1>2, ElementOfSeq DEF LinesUpTo
<1>5. ASSUME NEW i \in 1..(z + 1), NEW j \in 1..(z + 1), i < j PROVE t[i] < t[j]
  <2>1. CASE j = z + 1
    <3>1. i \in 1..z
      BY <1>5, <2>1
    <3>2. QED
      BY <1>3, <1>4, <2>1, <3>1
  <2>2. CASE j \in 1..z
    <3>1. i \in 1..z
      BY <1>5, <2>2
    <3>2. QED
      BY <1>2, <1>3, <1>5, <2>2, <3>1 DEF Rising
  <2>3. QED
    BY <2>1, <2>2
<1>6. \A p \in 1..(z + 1) : t[p] \in Nat /\ t[p] <= x
  <2>1. ASSUME NEW p \in 1..(z + 1) PROVE t[p] \in Nat /\ t[p] <= x
    <3>1. CASE p = z + 1
      BY <1>3, <3>1
    <3>2. CASE p \in 1..z
      BY <1>3, <1>4, <3>2
    <3>3. QED
      BY <3>1, <3>2
  <2>2. QED
    BY <2>1
<1>7. ASSUME NEW k \in Nat, k <= x, LinesFrom(s, k) PROVE LinesFrom(t, k)
  <2>1. \A p \in 1..(z + 1) : p = z + 1 \/ p \in 1..z
    OBVIOUS
  <2>2. QED
    BY <1>2, <1>3, <1>7, <2>1 DEF LinesFrom
<1>8. QED
  BY <1>1, <1>3, <1>5, <1>6, <1>7 DEF Rising, LinesUpTo

\* The first line leaves.
LEMMA RisingTake ==
    ASSUME NEW s \in Seq(Nat), s # <<>>, Rising(s)
    PROVE  /\ Tail(s) \in Seq(Nat) /\ Rising(Tail(s)) /\ Head(s) \in Nat /\ LinesFrom(s, Head(s))
           /\ \A n \in Nat : LinesUpTo(s, n) => LinesUpTo(Tail(s), n) /\ Head(s) <= n
           /\ \A n \in Nat : LinesFrom(s, n) => LinesFrom(Tail(s), n + 1) /\ LinesFrom(Tail(s), n) /\ n <= Head(s)
<1>1. PICK t : t = Tail(s)
  OBVIOUS
<1>2. PICK z \in Nat : z = Len(t) /\ Len(s) = z + 1
  BY <1>1, HeadTailProperties, LenProperties
<1>3. t \in Seq(Nat) /\ Head(s) \in Nat /\ s[1] = Head(s) /\ \A p \in 1..z : t[p] = s[p + 1]
  BY <1>1, <1>2, HeadTailProperties
<1>4. \A p \in 1..(z + 1) : s[p] \in Nat
  BY <1>2, ElementOfSeq
<1>5. 1 \in 1..(z + 1) /\ \A p \in 1..z : p + 1 \in 1..(z + 1) /\ 1 < p + 1
  OBVIOUS
<1>6. \A i, j \in 1..z : i < j => t[i] < t[j]
  <2> SUFFICES ASSUME NEW i \in 1..z, NEW j \in 1..z, i < j PROVE t[i] < t[j]
    OBVIOUS
  <2>1. i + 1 < j + 1
    OBVIOUS
  <2>2. QED
    BY <1>2, <1>3, <1>5, <2>1 DEF Rising
<1>7. \A p \in 1..z : Head(s) < t[p] /\ t[p] \in Nat
  BY <1>2, <1>3, <1>4, <1>5 DEF Rising
<1>8. LinesFrom(s, Head(s))
  <2>1. ASSUME NEW p \in 1..(z + 1) PROVE Head(s) <= s[p]
    <3>1. CASE p = 1
      BY <1>3, <3>1
    <3>2. CASE p # 1
      <4>1. 1 < p
        BY <3>2
      <4>2. Head(s) < s[p]
        BY <1>2, <1>3, <1>5, <4>1 DEF Rising
      <4>3. QED
        BY <1>3, <1>4, <4>2
    <3>3. QED
      BY <3>1, <3>2
  <2>2. QED
    BY <1>2, <2>1 DEF LinesFrom
<1>9. ASSUME NEW n \in Nat, LinesUpTo(s, n) PROVE LinesUpTo(t, n) /\ Head(s) <= n
  BY <1>2, <1>3, <1>5, <1>9 DEF LinesUpTo
<1>10. ASSUME NEW n \in Nat, LinesFrom(s, n)
       PROVE  LinesFrom(t, n + 1) /\ LinesFrom(t, n) /\ n <= Head(s)
  <2>1. PICK h \in Nat : h = Head(s)
    BY <1>3
  <2>2. n <= h
    BY <1>2, <1>3, <1>5, <1>10, <2>1 DEF LinesFrom
  <2>3. \A p \in 1..z : n + 1 <= t[p] /\ n <= t[p]
    <3>1. ASSUME NEW p \in 1..z PROVE n + 1 <= t[p] /\ n <= t[p]
      <4>1. PICK x \in Nat : x = t[p]
        BY <1>7
      <4>2. h < x
        BY <1>7, <2>1, <4>1
      <4>3. QED
        BY <2>2, <4>1, <4>2
    <3>2. QED
      BY <3>1
  <2>4. QED
    BY <1>2, <2>1, <2>2, <2>3 DEF LinesFrom
<1>11. QED
  BY <1>1, <1>2, <1>3, <1>6, <1>8, <1>9, <1>10 DEF Rising

\* push_line: the newest line is last, whatever makes room for it.
LEMMA LogPush == ASSUME LogInv, PushLine PROVE LogInv'
<1>1. /\ lineNo' = lineNo + 1 /\ UNCHANGED <<drain, got>>
      /\ \/ Len(queue) >= QueueCapacity /\ queue' = Append(Tail(queue), lineNo')
         \/ queue' = Append(queue, lineNo')
  BY DEF PushLine
<1>2. /\ queue \in Seq(Nat) /\ lineNo \in Nat /\ got \in [Centrals -> Seq(Nat)]
      /\ Rising(queue) /\ LinesUpTo(queue, lineNo) /\ \A c \in Centrals : Rising(got[c])
  BY DEF LogInv, LogOk
<1>3. PICK n \in Nat :
          /\ n <= lineNo /\ \A c \in Centrals : LinesUpTo(got[c], n)
          /\ LinesFrom(queue, IF drain.at = "pop" THEN n ELSE n + 1)
          /\ drain.at = "send" => drain.line = n + 1 /\ drain.line <= lineNo
          /\ drain.at = "pop" => drain.line = n
  BY DEF LogInv, LogOk
<1>4. PICK k \in Nat : k = (IF drain.at = "pop" THEN n ELSE n + 1) /\ k <= lineNo + 1
  BY <1>2, <1>3
<1>5. PICK x \in Nat : x = lineNo + 1 /\ lineNo < x
  BY <1>2
<1>6. PICK s : /\ s \in Seq(Nat) /\ Rising(s) /\ LinesUpTo(s, lineNo) /\ LinesFrom(s, k)
               /\ queue' = Append(s, x)
  <2>1. CASE Len(queue) >= QueueCapacity /\ queue' = Append(Tail(queue), lineNo')
    <3>1. queue # <<>>
      BY <2>1, BleAssumption
    <3>2. /\ Tail(queue) \in Seq(Nat) /\ Rising(Tail(queue)) /\ LinesUpTo(Tail(queue), lineNo)
          /\ LinesFrom(Tail(queue), k)
      BY <1>2, <1>3, <1>4, <3>1, RisingTake
    <3>3. QED
      BY <1>1, <1>5, <2>1, <3>2
  <2>2. CASE queue' = Append(queue, lineNo')
    BY <1>1, <1>2, <1>3, <1>4, <1>5, <2>2
  <2>3. QED
    BY <1>1, <2>1, <2>2
<1>7. /\ queue' \in Seq(Nat) /\ Rising(queue') /\ LinesUpTo(queue', x) /\ LinesFrom(queue', k)
  BY <1>2, <1>4, <1>5, <1>6, RisingPut
<1>8. n <= x /\ (drain.at = "send" => drain.line = n + 1 /\ drain.line <= x)
  BY <1>2, <1>3, <1>5
<1>9. LogOk(queue', drain.at, drain.line, x, got)
  BY <1>2, <1>3, <1>4, <1>7, <1>8 DEF LogOk
<1>10. QED
  BY <1>1, <1>5, <1>9 DEF LogInv

\* Between two lines it does not matter where drain stands.
LEMMA LogElsewhere ==
    ASSUME NEW q, NEW at, NEW ln, NEW m, NEW g, LogOk(q, at, ln, m, g), at # "pop",
           NEW too, NEW other, too \notin {"pop", "send"}
    PROVE  LogOk(q, too, other, m, g)
BY DEF LogOk

\* drain reads the front: the next line of every central.
LEMMA LogRead ==
    ASSUME NEW q, NEW at, NEW ln, NEW m, NEW g, LogOk(q, at, ln, m, g), at # "pop", q # <<>>
    PROVE  LogOk(q, "send", Head(q), m, g)
<1>1. /\ q \in Seq(Nat) /\ m \in Nat /\ g \in [Centrals -> Seq(Nat)]
      /\ Rising(q) /\ LinesUpTo(q, m) /\ \A c \in Centrals : Rising(g[c])
  BY DEF LogOk
<1>2. PICK n \in Nat : n <= m /\ LinesFrom(q, n + 1) /\ \A c \in Centrals : LinesUpTo(g[c], n)
  BY DEF LogOk
<1>3. PICK h \in Nat : h = Head(q) /\ LinesFrom(q, h) /\ h <= m /\ n + 1 <= h
  BY <1>1, <1>2, RisingTake
<1>4. PICK k \in Nat : k + 1 = h /\ n <= k /\ k <= m
  <2>1. h - 1 \in Nat /\ (h - 1) + 1 = h /\ n <= h - 1 /\ h - 1 <= m
    <3>1. m \in Nat /\ h <= m /\ n + 1 <= h
      BY <1>1, <1>3
    <3>2. QED
      BY <3>1
  <2>2. QED
    BY <2>1
<1>5. ASSUME NEW c \in Centrals PROVE LinesUpTo(g[c], k)
  <2>1. \A i \in 1..Len(g[c]) : g[c][i] \in Nat /\ g[c][i] <= n
    BY <1>1, <1>2, ElementOfSeq DEF LinesUpTo
  <2>2. QED
    BY <1>4, <2>1 DEF LinesUpTo
<1>6. h = k + 1 /\ LinesFrom(q, k + 1)
  BY <1>3, <1>4
<1>7. QED
  BY <1>1, <1>3, <1>4, <1>5, <1>6 DEF LogOk

\* send_log_bytes: the line goes to those that took it whole.
LEMMA LogSend ==
    ASSUME NEW q, NEW ln, NEW m, NEW g, LogOk(q, "send", ln, m, g), NEW W,
           NEW f, f = [c \in Centrals |-> IF c \in W THEN Append(g[c], ln) ELSE g[c]]
    PROVE  LogOk(q, "pop", ln, m, f)
<1>1. /\ q \in Seq(Nat) /\ m \in Nat /\ g \in [Centrals -> Seq(Nat)]
      /\ Rising(q) /\ LinesUpTo(q, m) /\ \A c \in Centrals : Rising(g[c])
  BY DEF LogOk
<1>2. PICK n \in Nat : /\ n <= m /\ LinesFrom(q, n + 1) /\ \A c \in Centrals : LinesUpTo(g[c], n)
                       /\ ln = n + 1 /\ ln <= m
  BY DEF LogOk
<1>3. PICK h \in Nat : h = ln /\ n < h /\ h <= m /\ LinesFrom(q, h)
  BY <1>2
<1>4. ASSUME NEW c \in Centrals PROVE f[c] \in Seq(Nat) /\ Rising(f[c]) /\ LinesUpTo(f[c], h)
  <2>1. g[c] \in Seq(Nat) /\ Rising(g[c]) /\ LinesUpTo(g[c], n)
    BY <1>1, <1>2
  <2>2. CASE f[c] = Append(g[c], h)
    BY <1>3, <2>1, <2>2, RisingPut
  <2>3. CASE f[c] = g[c]
    <3>1. \A i \in 1..Len(g[c]) : g[c][i] \in Nat /\ g[c][i] <= n
      BY <2>1, ElementOfSeq DEF LinesUpTo
    <3>2. LinesUpTo(g[c], h)
      BY <1>3, <3>1 DEF LinesUpTo
    <3>3. QED
      BY <2>1, <2>3, <3>2
  <2>4. QED
    BY <1>3, <2>2, <2>3
<1>5. f \in [Centrals -> Seq(Nat)]
  <2>1. f = [c \in Centrals |-> f[c]]
    OBVIOUS
  <2>2. QED
    BY <1>4, <2>1
<1>6. QED
  BY <1>1, <1>3, <1>4, <1>5 DEF LogOk

\* pop_front: only lines after the one that was sent are left.
LEMMA LogPop ==
    ASSUME NEW q, NEW ln, NEW m, NEW g, LogOk(q, "pop", ln, m, g), NEW s,
           s = IF q = <<>> THEN q ELSE Tail(q)
    PROVE  LogOk(s, "front", 0, m, g)
<1>1. /\ q \in Seq(Nat) /\ m \in Nat /\ g \in [Centrals -> Seq(Nat)]
      /\ Rising(q) /\ LinesUpTo(q, m) /\ \A c \in Centrals : Rising(g[c])
  BY DEF LogOk
<1>2. PICK n \in Nat : /\ n <= m /\ LinesFrom(q, n) /\ \A c \in Centrals : LinesUpTo(g[c], n)
  BY DEF LogOk
<1>3. s \in Seq(Nat) /\ Rising(s) /\ LinesUpTo(s, m) /\ LinesFrom(s, n + 1)
  <2>1. CASE q = <<>>
    <3>1. s = q /\ Len(s) = 0
      BY <2>1
    <3>2. \A i \in 1..0 : FALSE
      OBVIOUS
    <3>3. LinesFrom(s, n + 1)
      BY <3>1, <3>2 DEF LinesFrom
    <3>4. QED
      BY <1>1, <3>1, <3>3
  <2>2. CASE q # <<>>
    BY <1>1, <1>2, <2>2, RisingTake
  <2>3. QED
    BY <2>1, <2>2
<1>4. QED
  BY <1>1, <1>2, <1>3 DEF LogOk

\* drain sends what it holds: a line nobody took whole stays for the next time.
LEMMA LogSends == ASSUME LogInv, SubInv, SendLine PROVE LogInv'
<1>1. UNCHANGED <<queue, lineNo>> /\ drain.at \in {"send", "banner"}
  BY DEF SendLine
<1>2. conns \in [Centrals -> ConsoleConn]
  BY DEF SubInv, SubOk
<1>3. PICK k \in Takes : \E W :
          /\ W = {c \in Subscribed : k[c] = Chunks(conns[c].mtu)}
          /\ IF drain.at = "banner"
             THEN drain' = [at |-> "front", line |-> 0] /\ UNCHANGED got
             ELSE /\ got' = [c \in Centrals |-> IF c \in W THEN Append(got[c], drain.line) ELSE got[c]]
                  /\ drain' = IF Delivered(k) THEN [at |-> "pop", line |-> drain.line] ELSE Resting
  BY Zenon DEF SendLine
<1>4. PICK W :
          /\ W = {c \in Subscribed : k[c] = Chunks(conns[c].mtu)}
          /\ IF drain.at = "banner"
             THEN drain' = [at |-> "front", line |-> 0] /\ UNCHANGED got
             ELSE /\ got' = [c \in Centrals |-> IF c \in W THEN Append(got[c], drain.line) ELSE got[c]]
                  /\ drain' = IF Delivered(k) THEN [at |-> "pop", line |-> drain.line] ELSE Resting
  BY <1>3
<1>5. CASE drain.at = "banner"
  <2>1. drain'.at = "front" /\ got' = got
    BY <1>4, <1>5
  <2>2. LogOk(queue, "front", drain'.line, lineNo, got)
    BY <1>5, LogElsewhere DEF LogInv
  <2>3. QED
    BY <1>1, <2>1, <2>2 DEF LogInv
<1>6. CASE drain.at = "send" /\ Delivered(k)
  <2>1. /\ drain' = [at |-> "pop", line |-> drain.line]
        /\ got' = [c \in Centrals |-> IF c \in W THEN Append(got[c], drain.line) ELSE got[c]]
    BY <1>4, <1>6
  <2>2. drain'.at = "pop" /\ drain'.line = drain.line
    BY <2>1
  <2>3. LogOk(queue, "pop", drain.line, lineNo, got')
    BY <1>6, <2>1, LogSend DEF LogInv
  <2>4. QED
    BY <1>1, <2>2, <2>3 DEF LogInv
<1>7. CASE drain.at = "send" /\ ~Delivered(k)
  <2>1. /\ drain' = Resting
        /\ got' = [c \in Centrals |-> IF c \in W THEN Append(got[c], drain.line) ELSE got[c]]
    BY <1>4, <1>7
  <2>2. W = {}
    <3> SUFFICES ASSUME NEW c \in W PROVE FALSE
      OBVIOUS
    <3>1. c \in Subscribed /\ c \in Centrals /\ k[c] = Chunks(conns[c].mtu)
      BY <1>4 DEF Subscribed
    <3>2. conns[c].mtu \in Nat
      BY <1>2, <3>1 DEF ConsoleConn
    <3>3. k[c] # 0
      BY <3>1, <3>2, ChunksAreSome
    <3>4. PICK x \in Int : x = Chunks(DefaultMtu)
      BY ChunksAreSome DEF DefaultMtu
    <3>5. k \in [Subscribed -> 0..x]
      BY <3>4 DEF Takes
    <3>6. k[c] > 0
      BY <3>1, <3>3, <3>5
    <3>7. QED
      BY <1>7, <3>1, <3>6 DEF Delivered
  <2>3. got' = got
    <3>1. got \in [Centrals -> Seq(Nat)]
      BY DEF LogInv, LogOk
    <3>2. QED
      BY <2>1, <2>2, <3>1
  <2>4. drain'.at = "idle"
    BY <2>1 DEF Resting
  <2>5. LogOk(queue, "idle", drain'.line, lineNo, got)
    BY <1>7, LogElsewhere DEF LogInv
  <2>6. QED
    BY <1>1, <2>3, <2>4, <2>5 DEF LogInv
<1>8. QED
  BY <1>1, <1>5, <1>6, <1>7

\* The other steps of drain.
LEMMA LogDrains ==
    ASSUME LogInv, DrainNobody \/ DrainStart \/ ReadFront \/ Pop PROVE LogInv'
<1>1. UNCHANGED <<lineNo, got>>
  BY DEF DrainNobody, DrainStart, ReadFront, Pop
<1>2. CASE DrainNobody
  BY <1>1, <1>2 DEF DrainNobody, LogInv
<1>3. CASE DrainStart
  <2>1. queue' = queue /\ drain'.at \in {"front", "banner"} /\ drain.at = "idle"
    BY <1>3 DEF DrainStart
  <2>2. LogOk(queue, drain'.at, drain'.line, lineNo, got)
    BY <2>1, LogElsewhere DEF LogInv
  <2>3. QED
    BY <1>1, <2>1, <2>2 DEF LogInv
<1>4. CASE ReadFront
  <2>1. queue' = queue /\ drain.at = "front"
    BY <1>4 DEF ReadFront
  <2>2. CASE queue = <<>>
    <3>1. drain'.at = "idle"
      BY <1>4, <2>2 DEF ReadFront, Resting
    <3>2. LogOk(queue, "idle", drain'.line, lineNo, got)
      BY <2>1, LogElsewhere DEF LogInv
    <3>3. QED
      BY <1>1, <2>1, <3>1, <3>2 DEF LogInv
  <2>3. CASE queue # <<>>
    <3>1. drain' = [at |-> "send", line |-> Head(queue)]
      BY <1>4, <2>3 DEF ReadFront
    <3>2. drain'.at = "send" /\ drain'.line = Head(queue)
      BY <3>1
    <3>3. LogOk(queue, "send", Head(queue), lineNo, got)
      BY <2>1, <2>3, LogRead DEF LogInv
    <3>4. QED
      BY <1>1, <2>1, <3>2, <3>3 DEF LogInv
  <2>4. QED
    BY <2>2, <2>3
<1>5. CASE Pop
  <2>1. /\ drain.at = "pop" /\ drain' = [at |-> "front", line |-> 0]
        /\ queue' = IF queue = <<>> THEN queue ELSE Tail(queue)
    BY <1>5 DEF Pop
  <2>2. drain'.at = "front" /\ drain'.line = 0
    BY <2>1
  <2>3. LogOk(queue', "front", 0, lineNo, got)
    BY <2>1, LogPop DEF LogInv
  <2>4. QED
    BY <1>1, <2>2, <2>3 DEF LogInv
<1>6. QED
  BY <1>2, <1>3, <1>4, <1>5

\* Nothing is logged and nobody has anything.
LEMMA ConsoleInitial == BleInit => ConsoleInv
<1> SUFFICES ASSUME BleInit PROVE LogInv
  BY SubInitial DEF ConsoleInv
<1>1. /\ queue = <<>> /\ drain.at = "idle" /\ lineNo = 0 /\ got = [c \in Centrals |-> <<>>]
  BY DEF BleInit, Resting
<1>2. \A s : s = <<>> => s \in Seq(Nat) /\ Len(s) = 0
  BY EmptySeq
<1>3. \A i \in 1..0 : FALSE
  OBVIOUS
<1>4. \A s : s = <<>> => Rising(s) /\ LinesUpTo(s, 0) /\ LinesFrom(s, 0 + 1)
  BY <1>2, <1>3 DEF Rising, LinesUpTo, LinesFrom
<1>5. got \in [Centrals -> Seq(Nat)] /\ \A c \in Centrals : got[c] = <<>>
  BY <1>1, <1>2
<1>6. LogOk(queue, "idle", drain.line, 0, got)
  <2>1. 0 \in Nat /\ 0 <= 0
    OBVIOUS
  <2>2. QED
    BY <1>1, <1>2, <1>4, <1>5, <2>1 DEF LogOk
<1>7. QED
  BY <1>1, <1>6 DEF LogInv

\* Every step of the console keeps both.
LEMMA ConsoleStepSound == ConsoleInv /\ [BleNext]_bleVars => ConsoleInv'
<1> SUFFICES ASSUME ConsoleInv, [BleNext]_bleVars PROVE ConsoleInv'
  OBVIOUS
<1>1. SubInv /\ LogInv /\ SubInv'
  BY SubStepSound DEF ConsoleInv
<1>2. CASE UNCHANGED bleLog
  BY <1>1, <1>2 DEF bleLog, ConsoleInv, LogInv
<1>3. CASE PushLine \/ SendLine \/ DrainNobody \/ DrainStart \/ ReadFront \/ Pop
  BY <1>1, <1>3, LogPush, LogSends, LogDrains DEF ConsoleInv
<1>4. CASE \E c \in Centrals : \/ JoinCentral(c) \/ LoseCentral(c)
                               \/ \E on \in BOOLEAN : Subscribe(c, on)
                               \/ \E mtu \in Mtus : Negotiate(c, mtu)
  BY <1>2, <1>4 DEF JoinCentral, LoseCentral, Subscribe, Negotiate, Radio
<1>5. CASE BringUp \/ OnPeerConnected \/ OnPeerDisconnected \/ OnWrite \/ OnMtu
  BY <1>2, <1>5 DEF BringUp, OnPeerConnected, OnPeerDisconnected, OnWrite, OnMtu, On
<1>6. CASE \/ OnServiceRegistered \/ OnServiceCreated \/ OnCharacteristicAdded \/ OnDescriptorAdded
           \/ OnAdvertisingConfigured \/ OnScanResponseConfigured \/ OnFailedStatus
  BY <1>2, <1>6 DEF OnServiceRegistered, OnServiceCreated, OnCharacteristicAdded, OnDescriptorAdded,
     OnAdvertisingConfigured, OnScanResponseConfigured, OnFailedStatus, On
<1>7. CASE UNCHANGED bleVars
  BY <1>2, <1>7 DEF bleVars
<1>8. QED
  BY <1>3, <1>4, <1>5, <1>6, <1>7 DEF BleNext

\* What the two invariants say of lines and subscriptions.
LEMMA ConsoleInvIsEnough == ConsoleInv => ConsoleIsSound
BY SubInvIsEnough DEF ConsoleInv, ConsoleIsSound, LogInv, LogOk, LinesInOrder, Rising

-----------------------------------------------------------------------------
(* The transfers of an I2C transaction are cut where a start belongs *)

I2Types ==
    /\ ops \in [1..Len(ops) -> Op] /\ Len(ops) \in Nat
    /\ cur \in 1..(Len(ops) + 1)
    /\ wire \in Seq(Nat \X Nat)
    /\ verdict \in {"called", "refused", "walking", "overflow", "failed", "ok"}

I2Inv == I2Types /\ WireShape

\* An operation is a write or a read.
LEMMA Operations ==
    ASSUME I2Inv
    PROVE  /\ DOMAIN ops = 1..Len(ops) /\ Len(ops) \in Nat /\ cur \in 1..(Len(ops) + 1)
           /\ \A i : IsWrite(i) \/ IsRead(i) <=> i \in 1..Len(ops)
           /\ \A i : ~(IsWrite(i) /\ IsRead(i))
<1>1. DOMAIN ops = 1..Len(ops) /\ Len(ops) \in Nat /\ cur \in 1..(Len(ops) + 1)
  BY DEF I2Inv, I2Types
<1>2. \A i \in 1..Len(ops) : ops[i].w \in BOOLEAN
  BY DEF I2Inv, I2Types, Op
<1>3. QED
  BY <1>1, <1>2 DEF IsWrite, IsRead

\* write_run_len: the writes from i on, up to the first operation that is none.
LEMMA RunOfWrites ==
    ASSUME I2Inv, NEW i \in 1..Len(ops)
    PROVE  /\ WriteRunLen(i) \in 0..(Len(ops) - i + 1)
           /\ \A j \in i..(i + WriteRunLen(i) - 1) : IsWrite(j)
           /\ ~IsWrite(i + WriteRunLen(i))
<1>0. Len(ops) \in Nat /\ i \in Nat /\ i <= Len(ops) /\ \A j : IsWrite(j) => j \in 1..Len(ops)
  BY Operations
<1>1. PICK k \in Nat : k = Len(ops) - i + 1
  BY <1>0
<1>2. ~IsWrite(i + k)
  BY <1>0, <1>1
<1>3. PICK T : T = {n \in Nat : ~IsWrite(i + n)}
  OBVIOUS
<1>4. T \subseteq Nat /\ k \in T
  BY <1>2, <1>3
<1>5. PICK r \in T : \A y \in T : r <= y
  BY <1>4, LeastNumber
<1>6. r \in Nat /\ r <= k /\ ~IsWrite(i + r)
  BY <1>3, <1>4, <1>5
<1>7. ASSUME NEW j \in i..(i + r - 1) PROVE IsWrite(j)
  <2>1. j - i \in Nat /\ j - i < r /\ i + (j - i) = j
    BY <1>0, <1>6
  <2>2. j - i \notin T
    BY <1>5, <1>6, <2>1
  <2>3. QED
    BY <1>3, <2>1, <2>2
<1>8. PICK S : S = {n \in 0..(Len(ops) - i + 1) : \A j \in i..(i + n - 1) : IsWrite(j)}
  OBVIOUS
<1>9. r \in S
  BY <1>0, <1>1, <1>6, <1>7, <1>8
<1>10. ASSUME NEW y \in S PROVE r >= y
  <2> SUFFICES ASSUME y > r PROVE FALSE
    BY <1>0, <1>6, <1>8
  <2>1. y \in Nat /\ \A j \in i..(i + y - 1) : IsWrite(j)
    BY <1>0, <1>8
  <2>2. i + r \in i..(i + y - 1)
    BY <1>0, <1>6, <2>1
  <2>3. QED
    BY <1>6, <2>1, <2>2
<1>11. \A x \in S : (\A y \in S : x >= y) => x = r
  <2> SUFFICES ASSUME NEW x \in S, \A y \in S : x >= y PROVE x = r
    OBVIOUS
  <2>1. x >= r /\ r >= x /\ x \in Int /\ r \in Int
    BY <1>0, <1>6, <1>8, <1>9, <1>10
  <2>2. QED
    BY <2>1
<1>12. Max(S) = r
  BY <1>9, <1>10, <1>11 DEF Max
<1>13. WriteRunLen(i) = r
  BY <1>8, <1>12 DEF WriteRunLen
<1>14. r \in 0..(Len(ops) - i + 1)
  BY <1>8, <1>9
<1>15. QED
  BY <1>6, <1>7, <1>13, <1>14

\* next_step covers the operations up to the next start.
LEMMA StepIsOneTransfer ==
    ASSUME I2Inv, NEW i \in 1..Len(ops)
    PROVE  /\ StepLen(i) \in Nat \ {0} /\ i + StepLen(i) \in Starts \cup {Len(ops) + 1}
           /\ \A j \in Starts : ~(i < j /\ j < i + StepLen(i))
<1>0. /\ Len(ops) \in Nat /\ i \in Nat /\ i <= Len(ops) /\ DOMAIN ops = 1..Len(ops)
      /\ \A j : IsWrite(j) \/ IsRead(j) <=> j \in 1..Len(ops)
      /\ \A j : ~(IsWrite(j) /\ IsRead(j))
  BY Operations
<1>1. PICK r \in Nat : /\ r = WriteRunLen(i) /\ r <= Len(ops) - i + 1
                       /\ \A j \in i..(i + r - 1) : IsWrite(j)
                       /\ ~IsWrite(i + r)
  BY <1>0, RunOfWrites
<1>2. PICK n : n = StepLen(i)
  OBVIOUS
<1>3. n = IF r = 0 \/ IsRead(i + r) THEN r + 1 ELSE r
  BY <1>1, <1>2 DEF StepLen
<1>4. n \in Nat \ {0} /\ n <= r + 1
  BY <1>1, <1>3
<1>5. ASSUME NEW j \in Starts, i < j, j < i + n PROVE FALSE
  <2>1. j \in 1..Len(ops) /\ (j = 1 \/ IsRead(j - 1))
    BY <1>0 DEF Starts
  <2>2. j - 1 \in i..(i + r - 1)
    BY <1>0, <1>1, <1>4, <1>5, <2>1
  <2>3. IsRead(j - 1)
    BY <1>0, <1>5, <2>1
  <2>4. IsWrite(j - 1)
    BY <1>1, <2>2
  <2>5. QED
    BY <1>0, <2>3, <2>4
<1>6. CASE r = 0 \/ IsRead(i + r)
  <2>1. IsRead(i + r) /\ n = r + 1
    <3>1. CASE r = 0
      BY <1>0, <1>1, <1>3, <3>1
    <3>2. CASE IsRead(i + r)
      BY <1>3, <3>2
    <3>3. QED
      BY <1>6, <3>1, <3>2
  <2>2. i + r \in 1..Len(ops)
    BY <1>0, <2>1
  <2>3. i + n = (i + r) + 1 /\ (i + n) - 1 = i + r
    BY <1>0, <2>1
  <2>4. i + n \in 1..Len(ops) \/ i + n = Len(ops) + 1
    BY <1>0, <2>2, <2>3
  <2>5. i + n \in 1..Len(ops) => i + n \in Starts
    BY <1>0, <2>1, <2>3 DEF Starts
  <2>6. QED
    BY <1>2, <1>4, <1>5, <2>4, <2>5
<1>7. CASE ~(r = 0 \/ IsRead(i + r))
  <2>1. i + r \notin 1..Len(ops) /\ n = r
    BY <1>0, <1>1, <1>3, <1>7
  <2>2. i + n = Len(ops) + 1
    BY <1>0, <1>1, <2>1
  <2>3. QED
    BY <1>2, <1>4, <1>5, <2>2
<1>8. QED
  BY <1>6, <1>7

\* One more transfer: the next start is on the wire, and nothing between.
LEMMA I2Walks ==
    ASSUME I2Inv, verdict = "walking", cur <= Len(ops), UNCHANGED <<ops, verdict>>,
           wire' = Append(wire, <<cur, StepLen(cur)>>), cur' = cur + StepLen(cur)
    PROVE  I2Inv'
<1>0. /\ Len(ops) \in Nat /\ cur \in 1..Len(ops) /\ cur \in Nat /\ DOMAIN ops = 1..Len(ops)
      /\ wire \in Seq(Nat \X Nat)
  BY Operations DEF I2Inv, I2Types
<1>1. PICK n \in Nat \ {0} : /\ n = StepLen(cur) /\ cur + n \in Starts \cup {Len(ops) + 1}
                             /\ \A j \in Starts : ~(cur < j /\ j < cur + n)
  BY <1>0, StepIsOneTransfer
<1>2. PICK t \in Nat \X Nat : t = <<cur, n>>
  BY <1>0, <1>1
<1>3. t[1] = cur /\ t[2] = n
  BY <1>2
<1>4. wire' = Append(wire, t) /\ cur' = cur + n
  BY <1>1, <1>2
<1>5. PICK z : z = Len(wire)
  OBVIOUS
<1>6. /\ wire' \in Seq(Nat \X Nat) /\ Len(wire') = z + 1 /\ z \in Nat /\ wire'[z + 1] = t
      /\ \A k \in 1..z : wire'[k] = wire[k]
      /\ DOMAIN wire = 1..z /\ DOMAIN wire' = 1..(z + 1)
  BY <1>0, <1>4, <1>5, AppendProperties, LenProperties
<1>7. Starts \subseteq Nat /\ cur \in Starts /\ Starts' = Starts
  <2>1. Starts \subseteq 1..Len(ops) /\ Starts' = Starts
    BY <1>0 DEF Starts, IsRead
  <2>2. cur \in Starts
    <3>1. cur \in Starts \cup {Len(ops) + 1} \cup {1}
      BY DEF I2Inv, WireShape
    <3>2. 1 \in 1..Len(ops) => 1 \in Starts
      BY <1>0 DEF Starts
    <3>3. QED
      BY <1>0, <3>1, <3>2
  <2>3. QED
    BY <1>0, <2>1, <2>2
<1>8. PICK D : D = {i \in Starts : i < cur}
  OBVIOUS
<1>9. PICK E : E = {i \in Starts : i < cur'}
  OBVIOUS
<1>10. E = D \cup {cur} /\ cur \notin D
  <2>1. cur < cur' /\ cur' \in Nat /\ cur' = cur + n
    BY <1>0, <1>4
  <2>2. ASSUME NEW x \in E PROVE x \in D \cup {cur}
    BY <1>0, <1>1, <1>7, <1>8, <1>9, <2>1
  <2>3. ASSUME NEW x \in D PROVE x \in E
    BY <1>0, <1>7, <1>8, <1>9, <2>1
  <2>4. cur \in E /\ cur \notin D
    BY <1>0, <1>7, <1>8, <1>9, <2>1
  <2>5. QED
    BY <2>2, <2>3, <2>4
<1>11. /\ {wire[k][1] : k \in DOMAIN wire} = D /\ z = Cardinality(D)
       /\ \A k \in DOMAIN wire : wire[k][1] + wire[k][2] = (IF k < z THEN wire[k + 1][1] ELSE cur)
  BY <1>5, <1>8 DEF I2Inv, WireShape
<1>12. z + 1 = Cardinality(E)
  <2>1. D \in SUBSET Nat /\ \A x \in D : x <= cur
    <3>1. PICK c \in Nat : c = cur
      BY <1>0
    <3>2. PICK St \in SUBSET Nat : St = Starts
      BY <1>7
    <3>3. D = {i \in St : i < c}
      BY <1>8, <3>1, <3>2
    <3>4. ASSUME NEW x \in D PROVE x \in Nat /\ x <= c
      <4>1. x \in St /\ x < c
        BY <3>3
      <4>2. QED
        BY <4>1
    <3>5. QED
      BY <3>1, <3>4
  <2>2. IsFiniteSet(D)
    BY <1>0, <2>1, FS_BoundedSetOfNaturals
  <2>3. Cardinality(E) = Cardinality(D) + 1
    BY <1>10, <2>2, FS_AddElement
  <2>4. QED
    BY <1>11, <2>3
<1>13. {wire'[k][1] : k \in DOMAIN wire'} = E
  <2>1. ASSUME NEW k \in DOMAIN wire' PROVE wire'[k][1] \in E
    <3>1. CASE k \in 1..z
      BY <1>6, <1>10, <1>11, <3>1
    <3>2. CASE k = z + 1
      BY <1>3, <1>6, <1>10, <3>2
    <3>3. QED
      BY <1>6, <2>1, <3>1, <3>2
  <2>2. ASSUME NEW x \in E PROVE \E k \in DOMAIN wire' : wire'[k][1] = x
    <3>1. CASE x = cur
      <4>1. z + 1 \in DOMAIN wire' /\ wire'[z + 1][1] = x
        BY <1>3, <1>6, <3>1
      <4>2. QED
        BY <4>1
    <3>2. CASE x \in D
      <4>1. PICK k \in DOMAIN wire : wire[k][1] = x
        BY <1>11, <3>2
      <4>2. k \in DOMAIN wire' /\ wire'[k][1] = x
        BY <1>6, <4>1
      <4>3. QED
        BY <4>2
    <3>3. QED
      BY <1>10, <3>1, <3>2
  <2>3. QED
    BY <2>1, <2>2
<1>14. ASSUME NEW k \in 1..(z + 1)
       PROVE  wire'[k][1] + wire'[k][2] = (IF k < Len(wire') THEN wire'[k + 1][1] ELSE cur')
  <2>1. CASE k = z + 1
    BY <1>3, <1>4, <1>6, <2>1
  <2>2. CASE k = z /\ z > 0
    <3>1. wire[k][1] + wire[k][2] = cur
      BY <1>6, <1>11, <2>2
    <3>2. wire'[k] = wire[k] /\ wire'[k + 1][1] = cur /\ k < Len(wire')
      BY <1>3, <1>6, <2>2
    <3>3. QED
      BY <3>1, <3>2
  <2>3. CASE k \in 1..z /\ k < z
    <3>1. wire[k][1] + wire[k][2] = wire[k + 1][1]
      BY <1>6, <1>11, <2>3
    <3>2. k + 1 \in 1..z /\ k < z + 1
      <4>1. z \in Nat
        BY <1>6
      <4>2. QED
        BY <2>3, <4>1
    <3>3. wire'[k] = wire[k] /\ wire'[k + 1] = wire[k + 1] /\ k < Len(wire')
      BY <1>6, <2>3, <3>2
    <3>4. QED
      BY <3>1, <3>3
  <2>4. z \in Nat
    BY <1>6
  <2>5. k = z + 1 \/ (k = z /\ z > 0) \/ (k \in 1..z /\ k < z)
    BY <2>4
  <2>6. QED
    BY <2>1, <2>2, <2>3, <2>5
<1>15. I2Types'
  <2>1. cur' \in 1..(Len(ops) + 1)
    BY <1>0, <1>1, <1>4, <1>7 DEF Starts
  <2>2. QED
    BY <1>6, <2>1 DEF I2Inv, I2Types
<1>16. cur' \in Starts' \cup {Len(ops') + 1} \cup {1}
  BY <1>1, <1>4, <1>7
<1>17. WireShape'
  BY <1>6, <1>7, <1>9, <1>12, <1>13, <1>14, <1>16 DEF WireShape
<1>18. QED
  BY <1>15, <1>17 DEF I2Inv

\* A step that only decides.
LEMMA I2Decides ==
    ASSUME I2Inv, UNCHANGED <<ops, cur, wire>>,
           verdict' \in {"refused", "walking", "overflow", "failed", "ok"},
           verdict' = "refused" => verdict = "called",
           verdict' = "ok" => cur > Len(ops)
    PROVE  I2Inv'
<1>1. I2Types'
  BY DEF I2Inv, I2Types
<1>2. Starts' = Starts
  BY DEF Starts, IsRead
<1>3. verdict' = "ok" => cur = Len(ops) + 1
  BY Operations
<1>4. WireShape'
  BY <1>2, <1>3 DEF I2Inv, WireShape
<1>5. QED
  BY <1>1, <1>4 DEF I2Inv

\* Nothing is on the wire before the call is admitted.
LEMMA I2Starts ==
    ASSUME ops \in [1..Len(ops) -> Op], Len(ops) \in Nat, cur = 1, wire = <<>>, verdict = "called"
    PROVE  I2Inv
<1>1. wire \in Seq(Nat \X Nat) /\ Len(wire) = 0 /\ DOMAIN wire = {}
  BY EmptySeq
<1>2. Starts \subseteq 1..Len(ops)
  BY DEF Starts
<1>3. {i \in Starts : i < cur} = {}
  <2>1. \A i \in 1..Len(ops) : ~(i < 1)
    OBVIOUS
  <2>2. QED
    BY <1>2, <2>1
<1>4. {wire[k][1] : k \in DOMAIN wire} = {}
  BY <1>1
<1>5. Cardinality({}) = 0
  BY FS_EmptySet
<1>6. WireShape
  BY <1>1, <1>3, <1>4, <1>5 DEF WireShape
<1>7. QED
  BY <1>1, <1>6 DEF I2Inv, I2Types

\* I2Init, whatever the slice.
LEMMA I2Initial == I2Init => I2Inv
<1> SUFFICES ASSUME I2Init PROVE I2Inv
  OBVIOUS
<1>1. PICK k \in 0..(MaxOps + 1) : ops \in [1..k -> Op]
  BY DEF I2Init
<1>2. k \in Nat
  BY I2cAssumption
<1>3. Len(ops) = k
  BY <1>1, <1>2, IsASeq
<1>4. QED
  BY <1>1, <1>2, <1>3, I2Starts DEF I2Init

\* Every step of the dispatch keeps it.
LEMMA I2StepSound == I2Inv /\ [I2Next]_i2Vars => I2Inv'
<1> SUFFICES ASSUME I2Inv, [I2Next]_i2Vars PROVE I2Inv'
  OBVIOUS
<1>1. CASE UNCHANGED i2Vars
  <2>1. Starts' = Starts
    BY <1>1 DEF Starts, IsRead, i2Vars
  <2>2. QED
    BY <1>1, <2>1 DEF i2Vars, I2Inv, I2Types, WireShape
<1>2. ASSUME NEW own \in Addresses, NEW named \in Addresses, Admit(own, named) PROVE I2Inv'
  BY <1>2, I2Decides DEF Admit
<1>3. CASE WalkEnds
  BY <1>3, I2Decides DEF WalkEnds
<1>4. CASE Walk
  <2>1. \/ UNCHANGED <<ops, cur, wire>> /\ verdict' \in {"overflow", "failed"}
        \/ /\ verdict = "walking" /\ cur <= Len(ops) /\ UNCHANGED <<ops, verdict>>
           /\ wire' = Append(wire, <<cur, StepLen(cur)>>) /\ cur' = cur + StepLen(cur)
    BY <1>4 DEF Walk
  <2>2. QED
    BY <2>1, I2Decides, I2Walks
<1>5. QED
  BY <1>1, <1>2, <1>3, <1>4 DEF I2Next

-----------------------------------------------------------------------------
(* A boot leaves the wire clean and the serve loop prepared *)

\* Step s comes before the i-th of a main.
Before(m, i, s) == \E j \in 1..(i - 1) : m[j] = s

\* The orders that every main keeps: it ends in its service, which the gate and the
\* frontend precede, and no sink is installed once the level is off.
InOrder(m) ==
    /\ Len(m) \in Nat \ {0} /\ m[Len(m)] \in {"serve", "spawn"}
    /\ \A i \in 1..Len(m) :
          /\ m[i] \in {"serve", "spawn"} => Before(m, i, "arm") /\ Before(m, i, "frontend")
          /\ m[i] \in {"esplog", "netlog", "blelog"} => ~Before(m, i, "off")

\* On a wire that is the console: between the claim and the service every line finds
\* the level off, or a sink that does not print.
Muted(m) ==
    \A i \in 1..Len(m) :
        m[i] \in {"line", "bench", "light", "frontend"} /\ Before(m, i, "claim") =>
            Before(m, i, "off") \/ ~(Before(m, i, "esplog") \/ Before(m, i, "netlog"))

\* ESP-IDF's own lines are silenced before the frontend is brought up.
MutedC(m) == \A i \in 1..Len(m) : m[i] = "frontend" => Before(m, i, "cmute") \/ Before(m, i, "blelog")

Serves(m, s) == \A i \in 1..Len(m) : m[i] \in {"serve", "spawn"} => Before(m, i, s)

\* What is done is what the steps so far did.
BootInv ==
    /\ build \in Builds /\ setting \in Surroundings
    /\ bpc \in 1..Len(Main)
    /\ Before(Main, bpc, "arm") => otaGate
    /\ Before(Main, bpc, "frontend") => nfc # "none"
    /\ Before(Main, bpc, "purge") => ~stale
    /\ Before(Main, bpc, "hook") => hook
    /\ claimed => Before(Main, bpc, "claim")
    /\ Before(Main, bpc, "off") => ~level
    /\ sink \in {"esp", "net"} => Before(Main, bpc, "esplog") \/ Before(Main, bpc, "netlog")
    /\ (Before(Main, bpc, "cmute") \/ Before(Main, bpc, "blelog")) /\ setting.ble => ~cLogs
    /\ mode = "serving" => Main[bpc] \in {"serve", "spawn"}
    /\ WireStaysClean

\* The mains, as they are written.
LEMMA MainsInOrder ==
    /\ \A m \in {MainPn532, MainMfrc522, MainMfrc522Ble, MainSpp, MainCdc, MainCdcBle, MainTcp, MainVpcd} :
          InOrder(m)
<1>1. InOrder(MainPn532)
  BY DEF InOrder, MainPn532, Before
<1>2. InOrder(MainMfrc522)
  BY DEF InOrder, MainMfrc522, Before
<1>3. InOrder(MainMfrc522Ble)
  BY DEF InOrder, MainMfrc522Ble, Before
<1>4. InOrder(MainSpp)
  BY DEF InOrder, MainSpp, Before
<1>5. InOrder(MainCdc)
  BY DEF InOrder, MainCdc, Before
<1>6. InOrder(MainCdcBle)
  BY DEF InOrder, MainCdcBle, Before
<1>7. InOrder(MainTcp)
  BY DEF InOrder, MainTcp, Before
<1>8. InOrder(MainVpcd)
  BY DEF InOrder, MainVpcd, Before
<1>9. QED
  BY <1>1, <1>2, <1>3, <1>4, <1>5, <1>6, <1>7, <1>8

\* The mains of the boards whose console is the wire.
LEMMA MainsMuted ==
    \A m \in {MainPn532, MainMfrc522, MainMfrc522Ble, MainCdc, MainCdcBle} : Muted(m) /\ Serves(m, "purge")
<1>1. Muted(MainPn532) /\ Serves(MainPn532, "purge")
  BY DEF Muted, Serves, MainPn532, Before
<1>2. Muted(MainMfrc522) /\ Serves(MainMfrc522, "purge")
  BY DEF Muted, Serves, MainMfrc522, Before
<1>3. Muted(MainMfrc522Ble) /\ Serves(MainMfrc522Ble, "purge")
  BY DEF Muted, Serves, MainMfrc522Ble, Before
<1>4. Muted(MainCdc) /\ Serves(MainCdc, "purge")
  BY DEF Muted, Serves, MainCdc, Before
<1>5. Muted(MainCdcBle) /\ Serves(MainCdcBle, "purge")
  BY DEF Muted, Serves, MainCdcBle, Before
<1>6. QED
  BY <1>1, <1>2, <1>3, <1>4, <1>5

\* The mains of USB-CDC, and the ones with a stall hook.
LEMMA MainsHooked ==
    /\ MutedC(MainCdc) /\ MutedC(MainCdcBle)
    /\ Serves(MainCdc, "hook") /\ Serves(MainCdcBle, "hook") /\ Serves(MainTcp, "hook")
<1>1. MutedC(MainCdc) /\ Serves(MainCdc, "hook")
  BY DEF MutedC, Serves, MainCdc, Before
<1>2. MutedC(MainCdcBle) /\ Serves(MainCdcBle, "hook")
  BY DEF MutedC, Serves, MainCdcBle, Before
<1>3. Serves(MainTcp, "hook")
  BY DEF Serves, MainTcp, Before
<1>4. QED
  BY <1>1, <1>2, <1>3

\* The main of the build on the board.
LEMMA MainIs ==
    ASSUME build \in Builds
    PROVE  /\ InOrder(Main)
           /\ ConsoleIsWire => Muted(Main)
           /\ build \in {"uart-pn532", "uart-mfrc522", "uart-ble", "cdc", "cdc-ble"} => Serves(Main, "purge")
           /\ build \in {"cdc", "cdc-ble"} => MutedC(Main)
           /\ build \in {"cdc", "cdc-ble", "tcp"} => Serves(Main, "hook")
<1>1. CASE build = "uart-pn532"
  BY <1>1, MainsInOrder, MainsMuted DEF Main, ConsoleIsWire
<1>2. CASE build = "uart-mfrc522"
  BY <1>2, MainsInOrder, MainsMuted DEF Main, ConsoleIsWire
<1>3. CASE build = "uart-ble"
  BY <1>3, MainsInOrder, MainsMuted DEF Main, ConsoleIsWire
<1>4. CASE build = "spp"
  BY <1>4, MainsInOrder DEF Main, ConsoleIsWire
<1>5. CASE build = "cdc"
  BY <1>5, MainsInOrder, MainsMuted, MainsHooked DEF Main, ConsoleIsWire
<1>6. CASE build = "cdc-ble"
  BY <1>6, MainsInOrder, MainsMuted, MainsHooked DEF Main, ConsoleIsWire
<1>7. CASE build = "tcp"
  BY <1>7, MainsInOrder, MainsHooked DEF Main, ConsoleIsWire
<1>8. CASE build \in {"vpcd-pn7160", "vpcd-mfrc522"}
  BY <1>8, MainsInOrder DEF Main, ConsoleIsWire
<1>9. QED
  BY <1>1, <1>2, <1>3, <1>4, <1>5, <1>6, <1>7, <1>8 DEF Builds

\* A step of the main is one more before the next.
LEMMA OneMoreBefore ==
    ASSUME NEW m, NEW i \in Nat \ {0}, NEW s, m[i] = s
    PROVE  \A x : Before(m, i + 1, x) <=> Before(m, i, x) \/ x = s
BY DEF Before

\* A step that goes on: the service is not behind it.
LEMMA BootGoes ==
    ASSUME BootInv, NEW s, s \notin {"serve", "spawn"}, At(s), Go, UNCHANGED <<build, setting>>
    PROVE  /\ Main' = Main /\ Main[bpc] = s /\ bpc' = bpc + 1 /\ bpc' \in 1..Len(Main) /\ mode = "booting"
           /\ bpc \in 1..Len(Main)
           /\ \A x : Before(Main, bpc', x) <=> Before(Main, bpc, x) \/ x = s
<1>1. Main[bpc] = s /\ bpc' = bpc + 1 /\ mode = "booting" /\ bpc \in 1..Len(Main) /\ InOrder(Main)
  BY MainIs DEF At, Go, BootInv
<1>2. Main' = Main
  BY DEF Main
<1>3. Len(Main) \in Nat \ {0} /\ bpc # Len(Main) /\ bpc \in Nat \ {0}
  BY <1>1 DEF InOrder
<1>4. \A x : Before(Main, bpc + 1, x) <=> Before(Main, bpc, x) \/ x = s
  BY <1>1, <1>3, OneMoreBefore
<1>5. QED
  BY <1>1, <1>2, <1>3, <1>4

\* Nothing of the log facade is spilt by a step that writes a line.
LEMMA NoRustLine ==
    ASSUME BootInv, bpc \in 1..Len(Main), Main[bpc] \in {"line", "bench", "light", "frontend"}
    PROVE  RustLine = {}
<1> SUFFICES ASSUME claimed, ConsoleIsWire, level, sink \in {"net", "esp"} PROVE FALSE
  BY DEF RustLine
<1>1. Muted(Main)
  BY MainIs DEF BootInv
<1>2. Before(Main, bpc, "claim") /\ ~Before(Main, bpc, "off")
      /\ (Before(Main, bpc, "esplog") \/ Before(Main, bpc, "netlog"))
  BY DEF BootInv
<1>3. QED
  BY <1>1, <1>2 DEF Muted

\* Nor one of ESP-IDF's own by the frontend, in a shipped build whose BLE stack is up.
LEMMA NoCLine ==
    ASSUME BootInv, Main[bpc] = "frontend", ~setting.debug, setting.ble
    PROVE  CLine = {}
<1> SUFFICES ASSUME ConsoleIsWire, cLogs PROVE FALSE
  BY DEF CLine
<1>1. build \in {"cdc", "cdc-ble"}
  BY DEF ConsoleIsWire
<1>2. MutedC(Main) /\ bpc \in 1..Len(Main)
  BY <1>1, MainIs DEF BootInv
<1>3. QED
  BY <1>2 DEF MutedC, BootInv

\* The sinks.
LEMMA BootSinks == ASSUME BootInv, EspLogger \/ NetLogger \/ BleLogger PROVE BootInv'
<1>1. PICK s \in {"esplog", "netlog", "blelog"} : At(s)
  BY DEF EspLogger, NetLogger, BleLogger, InstallSink
<1>2. Go /\ UNCHANGED <<build, setting, mode, spilt, claimed, servedVars>>
  BY DEF EspLogger, NetLogger, BleLogger, InstallSink
<1>3. /\ Main' = Main /\ Main[bpc] = s /\ bpc' \in 1..Len(Main) /\ mode = "booting"
      /\ bpc \in 1..Len(Main)
      /\ \A x : Before(Main, bpc', x) <=> Before(Main, bpc, x) \/ x = s
  BY <1>1, <1>2, BootGoes
<1>4. ~Before(Main, bpc, "off")
  BY <1>3, MainIs DEF InOrder, BootInv
<1>5. sink' \in {"esp", "net"} => Before(Main, bpc', "esplog") \/ Before(Main, bpc', "netlog")
  BY <1>1, <1>3 DEF BootInv, EspLogger, NetLogger, BleLogger, InstallSink, At
<1>6. (Before(Main, bpc', "cmute") \/ Before(Main, bpc', "blelog")) /\ setting.ble => ~cLogs'
  BY <1>1, <1>3 DEF BootInv, EspLogger, NetLogger, BleLogger, InstallSink, At
<1>7. WireStaysClean'
  BY <1>2 DEF BootInv, WireStaysClean
<1>8. QED
  BY <1>2, <1>3, <1>4, <1>5, <1>6, <1>7 DEF BootInv, servedVars

\* The other steps that go on and write nothing.
LEMMA BootQuiet ==
    ASSUME BootInv, SilenceC \/ LevelOff \/ ArmGate \/ RegisterHook \/ Purge
    PROVE  BootInv'
<1>1. PICK s \in {"cmute", "off", "arm", "hook", "purge"} : At(s)
  BY DEF SilenceC, LevelOff, ArmGate, RegisterHook, Purge
<1>2. Go /\ UNCHANGED <<build, setting, mode, spilt, claimed, sink, nfc, tries>>
  BY DEF SilenceC, LevelOff, ArmGate, RegisterHook, Purge, logVars, servedVars
<1>3. /\ Main' = Main /\ Main[bpc] = s /\ bpc' \in 1..Len(Main) /\ mode = "booting"
      /\ \A x : Before(Main, bpc', x) <=> Before(Main, bpc, x) \/ x = s
  BY <1>1, <1>2, BootGoes
<1>4. /\ IF s = "cmute" THEN cLogs' = FALSE ELSE cLogs' = cLogs
      /\ IF s = "off" THEN level' = FALSE ELSE level' = level
      /\ IF s = "arm" THEN otaGate' = TRUE ELSE otaGate' = otaGate
      /\ IF s = "hook" THEN hook' = TRUE ELSE hook' = hook
      /\ IF s = "purge" THEN stale' = FALSE ELSE stale' = stale
  BY <1>1 DEF SilenceC, LevelOff, ArmGate, RegisterHook, Purge, At, logVars, servedVars
<1>5. WireStaysClean'
  BY <1>2 DEF BootInv, WireStaysClean
<1>6. QED
  BY <1>2, <1>3, <1>4, <1>5 DEF BootInv

\* The steps that write a line.
LEMMA BootLines == ASSUME BootInv, LogLine \/ BenchNet \/ Light PROVE BootInv'
<1>1. PICK s \in {"line", "bench", "light"} : At(s)
  BY DEF LogLine, BenchNet, Light
<1>2. Go /\ UNCHANGED <<build, setting, mode, sink, level, cLogs, claimed, servedVars>>
      /\ spilt' = spilt \cup RustLine
  BY DEF LogLine, BenchNet, Light
<1>3. /\ Main' = Main /\ Main[bpc] = s /\ bpc' \in 1..Len(Main) /\ mode = "booting"
      /\ bpc \in 1..Len(Main)
      /\ \A x : Before(Main, bpc', x) <=> Before(Main, bpc, x) \/ x = s
  BY <1>1, <1>2, BootGoes
<1>4. spilt' = spilt
  BY <1>2, <1>3, NoRustLine
<1>5. WireStaysClean'
  BY <1>2, <1>4 DEF BootInv, WireStaysClean
<1>6. QED
  BY <1>2, <1>3, <1>5 DEF BootInv, servedVars

\* The steps that may end in a panic, or in the endless wait for a network.
LEMMA BootTakes == ASSUME BootInv, TakePeripherals \/ ClaimWire \/ Station PROVE BootInv'
<1>1. PICK s \in {"take", "claim", "station"} : At(s) /\ (claimed' # claimed => s = "claim" /\ Go)
  BY DEF TakePeripherals, ClaimWire, Station
<1>2. UNCHANGED <<build, setting, logVars, servedVars>>
  BY DEF TakePeripherals, ClaimWire, Station
<1>3. (Go /\ mode' = mode) \/ (bpc' = bpc /\ mode' \in {"panicked", "halted"})
  BY DEF TakePeripherals, ClaimWire, Station, Panic
<1>4. WireStaysClean'
  BY <1>2 DEF BootInv, WireStaysClean, logVars
<1>5. CASE Go /\ mode' = mode
  <2>1. /\ Main' = Main /\ Main[bpc] = s /\ bpc' \in 1..Len(Main) /\ mode = "booting"
        /\ \A x : Before(Main, bpc', x) <=> Before(Main, bpc, x) \/ x = s
    BY <1>1, <1>2, <1>5, BootGoes
  <2>2. claimed' => Before(Main, bpc', "claim")
    BY <1>1, <2>1 DEF BootInv
  <2>3. QED
    BY <1>2, <1>4, <1>5, <2>1, <2>2 DEF BootInv, logVars, servedVars
<1>6. CASE bpc' = bpc /\ mode' \in {"panicked", "halted"}
  <2>1. Main' = Main
    BY <1>2 DEF Main
  <2>2. claimed' = claimed
    BY <1>1, <1>6 DEF Go, BootInv
  <2>3. QED
    BY <1>2, <1>4, <1>6, <2>1, <2>2 DEF BootInv, logVars, servedVars
<1>7. QED
  BY <1>3, <1>5, <1>6

\* The frontend: whatever the ladder ends in, a frontend is handed over.
LEMMA BootFrontend == ASSUME BootInv, BringUpFrontend PROVE BootInv'
<1>1. At("frontend") /\ UNCHANGED <<build, setting, sink, level, cLogs, claimed, otaGate, hook, stale>>
      /\ spilt' = spilt \cup RustLine \cup (IF setting.chip = "answers" THEN {} ELSE CLine)
  BY DEF BringUpFrontend
<1>2. \/ Go /\ mode' = mode /\ nfc' # "none"
      \/ bpc' = bpc /\ nfc' = nfc /\ mode' \in {mode, "panicked"}
  BY DEF BringUpFrontend, Panic, Frontend, StandIn
<1>3. WireStaysClean'
  <2>1. RustLine = {} /\ (~setting.debug /\ setting.ble => CLine = {})
    BY <1>1, NoRustLine, NoCLine DEF At, BootInv
  <2>2. "rust" \notin CLine
    BY DEF CLine
  <2>3. QED
    BY <1>1, <2>1, <2>2 DEF BootInv, WireStaysClean
<1>4. CASE Go /\ mode' = mode /\ nfc' # "none"
  <2>1. /\ Main' = Main /\ bpc' \in 1..Len(Main) /\ mode = "booting"
        /\ \A x : Before(Main, bpc', x) <=> Before(Main, bpc, x) \/ x = "frontend"
    BY <1>1, <1>4, BootGoes
  <2>2. QED
    BY <1>1, <1>3, <1>4, <2>1 DEF BootInv
<1>5. CASE bpc' = bpc /\ nfc' = nfc /\ mode' \in {mode, "panicked"}
  <2>1. Main' = Main
    BY <1>1 DEF Main
  <2>2. QED
    BY <1>1, <1>3, <1>5, <2>1 DEF BootInv
<1>6. QED
  BY <1>2, <1>4, <1>5

\* The service starts.
LEMMA BootServes == ASSUME BootInv, ServeForever \/ SpawnVpcd PROVE BootInv'
<1>1. Main[bpc] \in {"serve", "spawn"} /\ UNCHANGED <<build, setting, bpc, logVars, claimed, servedVars>>
  BY DEF ServeForever, SpawnVpcd, At
<1>2. Main' = Main
  BY <1>1 DEF Main
<1>3. WireStaysClean'
  BY <1>1 DEF BootInv, WireStaysClean, logVars
<1>4. QED
  BY <1>1, <1>2, <1>3 DEF BootInv, logVars, servedVars

\* After a reset nothing is done.
LEMMA BootAgain ==
    ASSUME build \in Builds, setting \in Surroundings, bpc = 1, mode = "booting", sink = "none",
           claimed = FALSE, spilt = {}
    PROVE  BootInv
<1>1. InOrder(Main) /\ \A x : ~Before(Main, bpc, x)
  BY MainIs DEF Before
<1>2. QED
  BY <1>1 DEF BootInv, WireStaysClean, InOrder

\* The panic handler.
LEMMA BootResets == ASSUME BootInv, PanicReset PROVE BootInv'
<1>1. /\ build' \in Builds /\ setting' \in Surroundings /\ bpc' = 1 /\ mode' = "booting"
      /\ sink' = "none" /\ claimed' = FALSE /\ spilt' = {} /\ Main' = Main /\ build' = build
  BY DEF PanicReset, BootInv, Main
<1>2. InOrder(Main) /\ \A x : ~Before(Main, bpc', x)
  BY <1>1, MainIs DEF Before, BootInv
<1>3. QED
  BY <1>1, <1>2 DEF BootInv, WireStaysClean, InOrder

\* The Bluetooth task: what it spills is neither a line of the facade nor one of
\* ESP-IDF's.
LEMMA BootAdvertises == ASSUME BootInv, AdvertisingLine PROVE BootInv'
<1>1. Main' = Main /\ spilt' = spilt \cup {"bluetooth"}
      /\ UNCHANGED <<build, setting, bpc, mode, sink, level, cLogs, claimed, servedVars>>
  BY DEF AdvertisingLine, Main
<1>2. WireStaysClean'
  BY <1>1 DEF BootInv, WireStaysClean
<1>3. QED
  BY <1>1, <1>2 DEF BootInv, servedVars

\* Every step of a boot keeps it.
LEMMA BootStepSound == BootInv /\ [BootNext]_bootVars => BootInv'
<1> SUFFICES ASSUME BootInv, [BootNext]_bootVars PROVE BootInv'
  OBVIOUS
<1>1. CASE UNCHANGED bootVars
  <2>1. Main' = Main
    BY <1>1 DEF Main, bootVars
  <2>2. QED
    BY <1>1, <2>1 DEF bootVars, logVars, servedVars, BootInv, WireStaysClean
<1>2. QED
  BY <1>1, BootSinks, BootQuiet, BootLines, BootTakes, BootFrontend, BootServes, BootResets,
     BootAdvertises DEF BootStep, BootNext

\* What a serve loop relies on has been done before it.
LEMMA BootInvIsEnough == BootInv => BootIsSound
<1> SUFFICES ASSUME BootInv PROVE BootIsSound
  OBVIOUS
<1>1. ASSUME mode = "serving"
      PROVE  /\ otaGate /\ nfc # "none"
             /\ build \in {"uart-pn532", "uart-mfrc522", "uart-ble", "cdc", "cdc-ble"} => ~stale
             /\ build \in {"cdc", "cdc-ble", "tcp"} => hook
  <2>1. Main[bpc] \in {"serve", "spawn"} /\ bpc \in 1..Len(Main) /\ build \in Builds
    BY <1>1 DEF BootInv
  <2>2. Before(Main, bpc, "arm") /\ Before(Main, bpc, "frontend")
    BY <2>1, MainIs DEF InOrder
  <2>3. build \in {"uart-pn532", "uart-mfrc522", "uart-ble", "cdc", "cdc-ble"} => Before(Main, bpc, "purge")
    BY <2>1, MainIs DEF Serves
  <2>4. build \in {"cdc", "cdc-ble", "tcp"} => Before(Main, bpc, "hook")
    BY <2>1, MainIs DEF Serves
  <2>5. QED
    BY <2>2, <2>3, <2>4 DEF BootInv
<1>2. QED
  BY <1>1 DEF BootIsSound, ServesPrepared, BootInv

-----------------------------------------------------------------------------
(* The radio side of the platform. *)

RadioInv == FeInv /\ NlInv /\ LiInv

\* Each part starts as it would alone, or rests in a state its invariant allows.
LEMMA RadioInitial == PlatformInit => RadioInv
<1> SUFFICES ASSUME PlatformInit PROVE RadioInv
  OBVIOUS
<1>1. NlInv /\ LiInv
  BY NlInitial, LiInitial DEF PlatformInit
<1>2. FeInv
  <2>1. CASE part = "frontend"
    BY <2>1, FeInitial DEF PlatformInit
  <2>2. CASE part # "frontend"
    <3>1. kind = "unavailable"
      BY <2>2, Zenon DEF PlatformInit
    <3>2. QED
      BY <3>1 DEF FeInv
  <2>3. QED
    BY <2>1, <2>2
<1>3. QED
  BY <1>1, <1>2 DEF RadioInv

\* A step of the platform is a step, or none, of each part.
LEMMA PartsStepAlone ==
    [PlatformNext]_partVars =>
        /\ [FrontendsNext]_feVars /\ [NlNext]_nlVars /\ [LiNext]_liVars
        /\ [IfNext]_ifVars /\ [BleNext]_bleVars /\ [I2Next]_i2Vars /\ [BootNext]_bootVars
<1> SUFFICES ASSUME [PlatformNext]_partVars
             PROVE  /\ [FrontendsNext]_feVars /\ [NlNext]_nlVars /\ [LiNext]_liVars
                    /\ [IfNext]_ifVars /\ [BleNext]_bleVars /\ [I2Next]_i2Vars /\ [BootNext]_bootVars
  OBVIOUS
<1>1. CASE FeStep(FrontendsNext)
  BY <1>1 DEF FeStep
<1>2. CASE NlStep(NlNext)
  BY <1>2 DEF NlStep
<1>3. CASE LiStep(LiNext)
  BY <1>3 DEF LiStep
<1>4. CASE OtaStep(OtaNext) \/ NtStep(NtNext)
  BY <1>4 DEF OtaStep, NtStep
<1>5. CASE I2Step(I2Next)
  BY <1>5 DEF I2Step
<1>6. CASE IfStep(IfNext)
  BY <1>6 DEF IfStep
<1>7. CASE BleStep(BleNext)
  BY <1>7 DEF BleStep
<1>8. CASE BootingStep(BootNext)
  BY <1>8 DEF BootingStep
<1>9. CASE UNCHANGED partVars
  BY <1>9 DEF partVars
<1>10. QED
  BY <1>1, <1>2, <1>3, <1>4, <1>5, <1>6, <1>7, <1>8, <1>9 DEF PlatformNext

\* A controller holds the session of the card its state names and waits as long
\* as the card may take; in both roles an answer is made of the pieces of its own
\* exchange and no packet goes out without a credit.  Proved for a controller
\* that re-grants the credit before it answers.
THEOREM RadioAlwaysSound == ASSUME GrantFirst PROVE PlatformSpec => []RadioIsSound
<1>1. RadioInv => RadioIsSound
  BY FeInvIsEnough, NlInvIsEnough, LiInvIsEnough DEF RadioInv, RadioIsSound
<1>2. RadioInv /\ [PlatformNext]_partVars => RadioInv'
  BY PartsStepAlone, FeStepSound, NlStepSound, LiStepSound DEF RadioInv
<1>3. QED
  BY <1>1, <1>2, RadioInitial, PTL DEF PlatformSpec

-----------------------------------------------------------------------------
(* The ends of the platform. *)

EndsInv == IfInv /\ ConsoleInv /\ I2Inv /\ BootInv

\* Each end starts as it would alone, or rests in a state its invariant allows.
LEMMA EndsInitial == PlatformInit => EndsInv
<1> SUFFICES ASSUME PlatformInit PROVE EndsInv
  OBVIOUS
<1>1. IfInv /\ ConsoleInv
  BY IfInitial, ConsoleInitial DEF PlatformInit
<1>2. BootInv
  BY BootAgain DEF PlatformInit, BootInit
<1>3. I2Inv
  <2>1. CASE part = "i2c"
    BY <2>1, I2Initial DEF PlatformInit
  <2>2. CASE part # "i2c"
    <3>1. ops = <<>> /\ cur = 1 /\ wire = <<>> /\ verdict = "called"
      BY <2>2, Zenon DEF PlatformInit
    <3>2. ops \in Seq(Op) /\ Len(ops) = 0
      BY <3>1, EmptySeq
    <3>3. ops \in [1..Len(ops) -> Op] /\ Len(ops) \in Nat
      BY <3>2, LenProperties
    <3>4. QED
      BY <3>1, <3>3, I2Starts
  <2>3. QED
    BY <2>1, <2>2
<1>4. QED
  BY <1>1, <1>2, <1>3 DEF EndsInv

\* Each end keeps its invariant.
LEMMA EndsStepSound ==
    BoardExtends <= MaxExtensions /\ EndsInv /\ [PlatformNext]_partVars => EndsInv'
BY PartsStepAlone, IfStepSound, ConsoleStepSound, I2StepSound, BootStepSound DEF EndsInv

\* For a board that asks for time no more often than the driver's loop reads such
\* frames: however connections break, no command of pcscd's driver reaches the
\* card twice, and one it reports as a success reached it once.
THEOREM CommandsRunOnce == ASSUME BoardExtends <= MaxExtensions PROVE PlatformSpec => []ExecutedOnce
<1>1. PlatformInit => IfInv
  BY IfInitial DEF PlatformInit
<1>2. IfInv /\ [PlatformNext]_partVars => IfInv'
  BY PartsStepAlone, IfStepSound
<1>3. QED
  BY <1>1, <1>2, IfInvIsEnough, PTL DEF PlatformSpec

\* A central of the BLE console sees the log in its order and each line once, and
\* is notified only if it asked on the link it has.
THEOREM ConsoleAlwaysSound == PlatformSpec => []ConsoleIsSound
<1>1. PlatformInit => ConsoleInv
  BY ConsoleInitial DEF PlatformInit
<1>2. ConsoleInv /\ [PlatformNext]_partVars => ConsoleInv'
  BY PartsStepAlone, ConsoleStepSound
<1>3. QED
  BY <1>1, <1>2, ConsoleInvIsEnough, PTL DEF PlatformSpec

\* The ends of the reader: the host's driver, the console, the I2C transactions
\* and the boot.
THEOREM EndsAlwaysSound == ASSUME BoardExtends <= MaxExtensions PROVE PlatformSpec => []EndsAreSound
<1>1. EndsInv => EndsAreSound
  BY IfInvIsEnough, ConsoleInvIsEnough, BootInvIsEnough DEF EndsInv, EndsAreSound, I2Inv
<1>2. EndsInv /\ [PlatformNext]_partVars => EndsInv'
  BY EndsStepSound
<1>3. QED
  BY <1>1, <1>2, EndsInitial, PTL DEF PlatformSpec
=============================================================================
