---------------------------- MODULE SecureMessage ----------------------------
(***************************************************************************)
(* What PC_to_RDR_Secure carries, and the buffer the PIN is typed into:    *)
(* PinVerifyParams::parse, PinModifyParams::parse and PinBuffer of         *)
(* crates/ccid-core secure.rs.                                             *)
(*                                                                         *)
(* The host's block is a sequence of fields, each one byte that stands for *)
(* its own name; the parser reads it by position.                          *)
(***************************************************************************)
EXTENDS Integers, Sequences, SequencesExt

CONSTANTS
    Numbers,     \* values of bNumberMessage
    Digit9,      \* digits a user types
    BufferSize,  \* bytes of PinBuffer.digits
    AskedLens    \* max_len a command asks for

ASSUME SecureAssumption == Numbers \subseteq Nat /\ AskedLens \subseteq Nat /\ BufferSize \in Nat

VARIABLES
    op,          \* bPINOperation: "verify" or "modify"
    number,      \* bNumberMessage of the block
    block,       \* the fields that arrived
    fields,      \* the parameters: name -> the field it was read from, or its default
    verdict1,    \* parse: "called", "some", "none" or "panic"
    buf,         \* PinBuffer
    typed,       \* history: the digits that a buffer accepted and kept
    wiped        \* history: nothing typed since a clear

secVars == <<op, number, block, fields, verdict1, buf, typed, wiped>>

Default == "default"
Zero == "0"

VerifyHead == <<"timeout", "format", "block", "lenfmt", "max", "min", "validation", "number",
                "langlo", "langhi", "msg1", "teo", "teo", "teo">>
ModifyHead == <<"timeout", "format", "block", "lenfmt", "oldoff", "newoff", "max", "min", "confirm",
                "validation", "number", "langlo", "langhi", "msg1">>
Apdu == <<"cla", "ins", "p1", "p2", "lc">>

(* The host's blocks: libccid leaves out bMsgIndex2 when bNumberMessage is *)
(* 0 and bMsgIndex3 when it is below 3.                                    *)
HostVerify == VerifyHead \o Apdu
HostModify(n) == ModifyHead \o (IF n # 0 THEN <<"msg2">> ELSE <<>>)
                            \o (IF n >= 3 THEN <<"msg3">> ELSE <<>>) \o <<"teo", "teo", "teo">> \o Apdu

-----------------------------------------------------------------------------
(* The parsers.  A byte at offset i is block[i + 1]; reading past the end  *)
(* with get(i)? refuses the block, by index it panics.                     *)
At(i) == block[i + 1]

ParseVerify ==
    IF Len(block) < 18 THEN [v |-> "none"]
    ELSE [v |-> "some", timeout |-> At(0), format |-> At(1), block |-> At(2), lenfmt |-> At(3),
          max |-> At(4), min |-> At(5), validation |-> At(6), number |-> At(7), msg1 |-> At(10),
          teo |-> At(11), cla |-> At(14), ins |-> At(15), p1 |-> At(16), p2 |-> At(17)]

(* A parser that reads the prologue of one byte its comment describes. *)
ShortPrologueTail(n) ==
    LET i == 14 + (IF n # 0 THEN 1 ELSE 0) + (IF n >= 3 THEN 1 ELSE 0)
    IN  [msg2 |-> IF n # 0 THEN 14 ELSE 0, msg3 |-> IF n >= 3 THEN 15 ELSE 0, teo |-> i, apdu |-> i + 1]

(* The offsets of the variant tail; 0 for a field that is not there. *)
ModifyTail(n) ==
    LET i == 14 + (IF n # 0 THEN 1 ELSE 0) + (IF n >= 3 THEN 1 ELSE 0)
    IN  [msg2 |-> IF n # 0 THEN 14 ELSE 0, msg3 |-> IF n >= 3 THEN 15 ELSE 0, teo |-> i, apdu |-> i + 3]

ParseModify ==
    LET t == ModifyTail(number)
    IN  IF Len(block) < 11 THEN [v |-> "none"]
        ELSE IF Len(block) < 14 THEN [v |-> "panic"]
        ELSE IF Len(block) < t.apdu + 4 THEN [v |-> "none"]
        ELSE [v |-> "some", timeout |-> At(0), format |-> At(1), oldoff |-> At(4), newoff |-> At(5),
              max |-> At(6), min |-> At(7), validation |-> At(9), msg1 |-> At(13),
              msg2 |-> IF t.msg2 = 0 THEN Default ELSE At(t.msg2),
              msg3 |-> IF t.msg3 = 0 THEN Default ELSE At(t.msg3),
              cla |-> At(t.apdu), ins |-> At(t.apdu + 1), p1 |-> At(t.apdu + 2), p2 |-> At(t.apdu + 3)]

HandleSecure ==
    /\ verdict1 = "called"
    /\ fields' = IF op = "verify" THEN ParseVerify ELSE ParseModify
    /\ verdict1' = fields'.v
    /\ UNCHANGED <<op, number, block, buf, typed, wiped>>

-----------------------------------------------------------------------------
(* PinBuffer. *)
Least(a, b) == IF a < b THEN a ELSE b

NewBuffer(m) == [digits |-> [i \in 1..BufferSize |-> Zero], len |-> 0, max |-> Least(m, BufferSize)]

Push(d) == /\ verdict1 = "some" /\ buf.len < buf.max
           /\ buf' = [buf EXCEPT !.digits = [@ EXCEPT ![buf.len + 1] = d], !.len = @ + 1]
           /\ typed' = Append(typed, d) /\ wiped' = FALSE
           /\ UNCHANGED <<op, number, block, fields, verdict1>>

(* The last digit stays in memory. *)
Pop == /\ verdict1 = "some" /\ buf.len > 0
       /\ buf' = [buf EXCEPT !.len = @ - 1]
       /\ typed' = Front(typed)
       /\ UNCHANGED <<op, number, block, fields, verdict1, wiped>>

(* clear, and the same wipe when the buffer is dropped. *)
Wiped(b) == [b EXCEPT !.digits = [i \in 1..BufferSize |-> Zero], !.len = 0]

Clear == /\ verdict1 = "some" /\ buf' = Wiped(buf) /\ typed' = <<>> /\ wiped' = TRUE
         /\ UNCHANGED <<op, number, block, fields, verdict1>>

ToAscii(b) == [i \in 1..b.len |-> b.digits[i]]

-----------------------------------------------------------------------------
SecInit ==
    /\ number \in Numbers /\ fields = [v |-> "called"] /\ verdict1 = "called" /\ typed = <<>> /\ wiped = TRUE
    /\ op \in {"verify", "modify"}
    /\ LET host == IF op = "verify" THEN HostVerify ELSE HostModify(number)
       IN  \E n \in 0..Len(host) : block = SubSeq(host, 1, n)
    /\ \E m \in AskedLens : buf = NewBuffer(m)

SecNext == HandleSecure \/ (\E d \in Digit9 : Push(d)) \/ Pop \/ Clear

SecSpec == SecInit /\ [][SecNext]_secVars

-----------------------------------------------------------------------------
(* However many messages the host announces and wherever its block ends,   *)
(* a parameter is the host's field of that name or its default, and no     *)
(* block that holds a whole APDU header is refused.                        *)
FieldsAreHosts ==
    /\ verdict1 = "some" => \A f \in DOMAIN fields \ {"v"} : fields[f] \in {f, Default}
    /\ verdict1 = "none" => ~Contains(block, "p2")

(* Through typing and correcting, the PIN that goes into a command is what *)
(* the user typed, never longer than asked for; a buffer that was cleared  *)
(* keeps no digit in memory ("the zeroization survives compilation").      *)
PinIsTyped ==
    /\ ToAscii(buf) = typed /\ Len(typed) <= buf.max
    /\ wiped => \A i \in 1..BufferSize : buf.digits[i] = Zero

(* A block too short for its fields is refused, as the Option says; not    *)
(* for 11 to 13 bytes of a PIN modification.                               *)
ParseIsTotal == verdict1 # "panic"
=============================================================================
