------------------------------- MODULE BitBang -------------------------------
(***************************************************************************)
(* The bit-banged card line of the STM32F746 reader                        *)
(* (firmware/ccid-firmware/src/smartcard_bitbang.rs): characters on the    *)
(* I/O pin, the answer to reset and a raw exchange collected from them,    *)
(* and the diagnostic records kept on the way.                             *)
(*                                                                         *)
(* A character is a start bit, CharBits data bits, lowest first, and an    *)
(* even parity bit, each Etu cycles long; the line idles high.  Pauses and *)
(* timeouts are in milliseconds.                                           *)
(***************************************************************************)
EXTENDS Integers, Sequences, SequencesExt, FiniteSets, FiniteSetsExt

CONSTANTS
    CharBits,    \* data bits of a character: 8 in the code
    Etu,         \* etu_cycles, a small even number
    Late,        \* cycles from an edge to the poll that sees it
    Pauses,      \* pauses of the card between characters
    MaxStream,   \* characters and pauses of the longest answer
    AtrMax,      \* SC_ATR_MAX_LEN
    ResponseMax, \* length of the response buffer
    DiagSize     \* DIAG_BUF_SIZE

(* The poll sees an edge within half an etu. *)
ASSUME BitBangAssumption ==
    /\ CharBits \in Nat \ {0} /\ Etu \in Nat \ {0}
    /\ Late \subseteq Nat /\ \A d \in Late : d + (Etu \div 2) < Etu
    /\ Pauses \subseteq Nat /\ MaxStream \in Nat
    /\ AtrMax \in Nat /\ ResponseMax \in Nat \ {0} /\ DiagSize \in Nat

VARIABLES
    job,         \* "atr" or "raw": read_atr or transmit_raw_inner
    spoken,        \* what the card puts on the line
    ahead,        \* what of it is still to come
    acc,         \* bytes collected
    outcome,     \* "run", "ok", or the error
    diag         \* DIAG_BUF up to DIAG_LEN: a record is a tag, a length and that many bytes

bbVars == <<job, spoken, ahead, acc, outcome, diag>>

Bit == {0, 1}
Byte == [1..CharBits -> Bit]
Ones(b) == Cardinality({i \in 1..CharBits : b[i] = 1})
ZeroByte == [i \in 1..CharBits |-> 0]

-----------------------------------------------------------------------------
(* The levels of a character, one per etu: what send_byte drives. *)
SendByte(b) == <<0>> \o b \o <<Ones(b) % 2>>

(* The pin at a time after the card's edge. *)
LevelAt(frame, t) == LET k == t \div Etu IN IF k < Len(frame) THEN frame[k + 1] ELSE 1

(* recv_byte_timeout samples in the middle of each bit after the start     *)
(* bit, counted from the poll that saw the edge.                           *)
Samples(frame, d) == [i \in 1..(CharBits + 1) |-> LevelAt(frame, d + Etu + (Etu \div 2) + Etu * (i - 1))]

Received(frame, d) ==
    LET s == Samples(frame, d)
        b == [i \in 1..CharBits |-> s[i]]
    IN  IF (Ones(b) + s[CharBits + 1]) % 2 = 0 THEN [ok |-> TRUE, byte |-> b]
        ELSE [ok |-> FALSE, byte |-> b]

(* A frame with bit i turned over on the way; none for 0. *)
Noisy(frame, i) == IF i = 0 THEN frame ELSE [frame EXCEPT ![i + 1] = 1 - @]

-----------------------------------------------------------------------------
(* The cycle counter has 2^32 cycles of 216 MHz; a deadline is over when   *)
(* the wrapping difference reaches half of that.                           *)
HalfRange == 9942
Awaits(timeout) == IF timeout >= HalfRange THEN 0 ELSE timeout

AtrFirst == 4000    \* SC_ATR_TIMEOUT_CYCLES
AtrNext1 == 40      \* SC_ATR_BYTE_TIMEOUT_CYCLES
RawFirst == 9000    \* SC_PROCEDURE_TIMEOUT_CYCLES
RawNext == 50       \* SC_BYTE_TIMEOUT_CYCLES

Timeout == IF job = "atr" THEN (IF acc = <<>> THEN AtrFirst ELSE AtrNext1)
           ELSE (IF acc = <<>> THEN RawFirst ELSE RawNext)

IsPause(x) == x.kind = "pause"
Chars == [kind : {"char"}, byte : Byte, flip : 0..(CharBits + 1)]
PauseItems == [kind : {"pause"}, ms : Pauses]

(* What the receiver meets: a character at once, one after a pause that    *)
(* fits, or silence until the timeout.                                     *)
Silent == IF ahead = <<>> THEN TRUE
          ELSE IsPause(Head(ahead)) /\ Head(ahead).ms > Awaits(Timeout)

-----------------------------------------------------------------------------
(* diag_push drops what does not fit. *)
DiagTlv(dg, n, tag) == SubSeq(dg \o <<tag, n>> \o [i \in 1..n |-> "d"], 1,
                              IF Len(dg) + 2 + n <= DiagSize THEN Len(dg) + 2 + n ELSE DiagSize)

(* power_on_atr after read_atr: the ATR record, and the stamp and the end  *)
(* mark of seal_diag; transmit_raw_inner writes none unless a byte fails   *)
(* to read back.                                                           *)
Sealed(dg) == IF job = "atr" THEN DiagTlv(DiagTlv(DiagTlv(dg, Len(acc), "atr"), 4, "stamp"), 0, "end") ELSE dg

Finish(o) == /\ outcome' = o
             /\ diag' = IF o = "ok" THEN Sealed(diag) ELSE diag

(* The match on Err(Timeout): silence ends a started ATR or answer. *)
EndOfLine ==
    /\ outcome = "run" /\ Silent
    /\ Finish(IF acc = <<>> THEN "Timeout" ELSE "ok")
    /\ UNCHANGED <<job, spoken, ahead, acc>>

ShortPause ==
    /\ outcome = "run" /\ ahead # <<>> /\ IsPause(Head(ahead)) /\ ~Silent
    /\ ahead' = Tail(ahead)
    /\ UNCHANGED <<job, spoken, acc, outcome, diag>>

(* One byte of read_atr: a zero before the first byte is skipped, a byte   *)
(* past SC_ATR_MAX_LEN is an error.                                        *)
KeepAtr(b) ==
    IF acc = <<>> /\ b = ZeroByte THEN UNCHANGED <<acc, outcome, diag>>
    ELSE IF Len(acc) >= AtrMax THEN UNCHANGED acc /\ Finish("BufferOverflow")
    ELSE acc' = Append(acc, b) /\ UNCHANGED <<outcome, diag>>

(* One byte of transmit_raw_inner: a full buffer ends it. *)
KeepRaw(b) ==
    /\ acc' = Append(acc, b)
    /\ IF Len(acc) + 1 = ResponseMax THEN Finish("ok") ELSE UNCHANGED <<outcome, diag>>

RecvByte ==
    /\ outcome = "run" /\ ahead # <<>> /\ ~IsPause(Head(ahead))
    /\ \E d \in Late :
           LET r == Received(Noisy(SendByte(Head(ahead).byte), Head(ahead).flip), d)
           IN  IF ~r.ok THEN Finish("ParityError") /\ UNCHANGED acc
               ELSE IF job = "atr" THEN KeepAtr(r.byte) ELSE KeepRaw(r.byte)
    /\ ahead' = Tail(ahead)
    /\ UNCHANGED <<job, spoken>>

(* send_byte whose level does not read back: recorded, and the byte counts *)
(* as spoken.                                                                *)
ReadbackFails ==
    /\ outcome = "run" /\ job = "raw" /\ acc = <<>> /\ ahead = spoken /\ Len(diag) < DiagSize
    /\ diag' = DiagTlv(diag, 3, "tx")
    /\ UNCHANGED <<job, spoken, ahead, acc, outcome>>

-----------------------------------------------------------------------------
(* diag_clear, then io_readback_test. *)
BbInit == /\ job \in {"atr", "raw"} /\ acc = <<>> /\ outcome = "run"
          /\ \E n \in 1..MaxStream : spoken \in [1..n -> Chars \cup PauseItems]
          /\ Cardinality({i \in DOMAIN spoken : spoken[i].kind = "char" /\ spoken[i].flip # 0}) <= 1
          /\ ahead = spoken
          /\ diag = DiagTlv(<<>>, 2, "io")

BbNext == EndOfLine \/ ShortPause \/ RecvByte \/ ReadbackFails

BbSpec == BbInit /\ [][BbNext]_bbVars

-----------------------------------------------------------------------------
(* The characters of an answer: all of them, but of an ATR not the zeros   *)
(* before the first other one.                                             *)
Leading(i) == job = "atr" /\ \A k \in 1..i : ~IsPause(spoken[k]) => spoken[k].byte = ZeroByte
Heard(i) == i \in DOMAIN spoken /\ ~IsPause(spoken[i]) /\ ~Leading(i)
HeardUpTo(i) == Cardinality({k \in 1..i : Heard(k)})

(* The first pause too long to wait through, or the end. *)
Patience(i) == IF \E k \in 1..(i - 1) : Heard(k) THEN (IF job = "atr" THEN 40 ELSE 50)
               ELSE (IF job = "atr" THEN 4000 ELSE 9000)
Cut == Min({i \in DOMAIN spoken : IsPause(spoken[i]) /\ spoken[i].ms > Patience(i)} \cup {Len(spoken) + 1})

(* The bytes of the characters before it, as many as there is room for. *)
Expected ==
    [j \in 1..(IF job = "raw" THEN Min({HeardUpTo(Cut - 1), ResponseMax}) ELSE HeardUpTo(Cut - 1)) |->
        spoken[CHOOSE i \in DOMAIN spoken : Heard(i) /\ HeardUpTo(i) = j].byte]

(* Whenever the poll sees an edge, what is collected is what the card      *)
(* sent: all of it up to the pause that ends the answer, without the       *)
(* zeros before an ATR; a byte with a bit turned over is never delivered   *)
(* ("a mismatch means a corrupted byte: never deliver it").                *)
AnswerIsTheCards ==
    /\ outcome = "ok" => acc = Expected
    /\ IsPrefix(acc, Expected)

(* The records of the diagnostic buffer parse from the front up to the one *)
(* the end of the buffer cut off.                                          *)
RECORDS == {"io", "atr", "tx", "stamp", "end"}
RecordEnd(i) == i + 1 + diag[i + 1]
DiagParses ==
    LET at[k \in 0..Len(diag)] ==
            IF k = 0 THEN 1
            ELSE LET i == at[k - 1] IN IF i + 1 > Len(diag) THEN i ELSE RecordEnd(i) + 1
    IN  \A k \in 0..Len(diag) : at[k] <= Len(diag) => diag[at[k]] \in RECORDS

(* A block is complete as long as its card keeps the character waiting     *)
(* time, 820 ms at the default etu; not when the reader stops after 50.    *)
BlockIsWhole ==
    outcome = "ok" /\ job = "raw" /\ Len(acc) < ResponseMax
        => \/ ahead = <<>>
           \/ IsPause(Head(ahead)) /\ Head(ahead).ms > 820
=============================================================================
