----------------------------- MODULE I2cDispatch -----------------------------
(***************************************************************************)
(* The embedded-hal transaction over the ESP-IDF bus driver:               *)
(* crates/pn7160-nci hal_i2c.rs.  A slice of read and write operations is  *)
(* classified once, then walked: a run of writes is one transmission, a    *)
(* run of writes and the read after it one transmission and reception with *)
(* a repeated start, a read on its own one reception.  The MFRC522 takes   *)
(* the first byte of every transmission for a register address, so where   *)
(* the walk cuts decides what the chip is told.                            *)
(***************************************************************************)
EXTENDS Integers, Sequences, FiniteSets, FiniteSetsExt, Functions

CONSTANTS MaxOps,      \* MAX_TRANSACTION_OPS
          WbufSize,    \* WBUF_SZ
          WriteSizes,  \* lengths of a write
          Addresses    \* 7-bit addresses a caller names

ASSUME I2cAssumption == MaxOps \in Nat /\ WbufSize \in Nat /\ WriteSizes \subseteq Nat

VARIABLES ops,    \* the operations of the call
          cur,    \* idx, the walk's cursor
          wire,    \* the transfers made, each the operations it carried
          verdict \* what the call returned

i2Vars == <<ops, cur, wire, verdict>>

Op == [w : {TRUE}, n : WriteSizes] \cup [w : {FALSE}, n : {1}]

(* A call: one operation more than the cap is already too many. *)
I2Init == /\ ops \in UNION {[1..k -> Op] : k \in 0..(MaxOps + 1)}
          /\ cur = 1 /\ wire = <<>> /\ verdict = "called"

-----------------------------------------------------------------------------
(* validate_address, then classify_ops: a foreign address, or a slice      *)
(* longer than the cap, is refused before anything is sent.                *)
Admit(own, named) ==
    /\ verdict = "called"
    /\ verdict' = IF named # own \/ Len(ops) > MaxOps THEN "refused" ELSE "walking"
    /\ UNCHANGED <<ops, cur, wire>>

IsWrite(i) == i \in DOMAIN ops /\ ops[i].w
IsRead(i)  == i \in DOMAIN ops /\ ~ops[i].w

(* write_run_len *)
WriteRunLen(i) == Max({n \in 0..(Len(ops) - i + 1) : \A j \in i..(i + n - 1) : IsWrite(j)})

(* next_step: the operations the step at i covers. *)
StepLen(i) == LET run == WriteRunLen(i)
              IN  IF run = 0 \/ IsRead(i + run) THEN run + 1 ELSE run

(* concat_writes: only a lone write goes out without the buffer. *)
Bytes(i, n) == LET W == {j \in i..(i + n - 1) : IsWrite(j)} IN MapThenSumSet(LAMBDA j : ops[j].n, W)

Overflows(i, n) == /\ WriteRunLen(i) > 0
                   /\ ~(WriteRunLen(i) = 1 /\ n = 1)
                   /\ Bytes(i, n) > WbufSize

(* dispatch_transaction, one step: the transfer, which the bus may refuse. *)
Walk == /\ verdict = "walking" /\ cur <= Len(ops) /\ UNCHANGED ops
        /\ LET n == StepLen(cur)
           IN  \/ Overflows(cur, n) /\ verdict' = "overflow" /\ UNCHANGED <<cur, wire>>
               \/ /\ ~Overflows(cur, n)
                  /\ wire' = Append(wire, <<cur, n>>)
                  /\ cur' = cur + n
                  /\ UNCHANGED verdict
               \/ ~Overflows(cur, n) /\ verdict' = "failed" /\ UNCHANGED <<cur, wire>>

WalkEnds == /\ verdict = "walking" /\ cur > Len(ops)
          /\ verdict' = "ok"
          /\ UNCHANGED <<ops, cur, wire>>

I2Next == Walk \/ WalkEnds \/ \E own, named \in Addresses : Admit(own, named)

I2Spec == I2Init /\ [][I2Next]_i2Vars

-----------------------------------------------------------------------------
(* A start condition belongs before operation i exactly if i is the first, *)
(* or if the one before it was a read: what one command link of the legacy *)
(* driver put on the wire.                                                 *)
Starts == {i \in DOMAIN ops : i = 1 \/ IsRead(i - 1)}

(* The transfers made are the first ones of the call, each cut where a     *)
(* start belongs and nowhere else; all of them when the call says it       *)
(* succeeded, none when it was refused.                                    *)
WireShape ==
    LET done == {i \in Starts : i < cur}
    IN  /\ {wire[k][1] : k \in DOMAIN wire} = done /\ Len(wire) = Cardinality(done)
        /\ \A k \in DOMAIN wire : wire[k][1] + wire[k][2] = (IF k < Len(wire) THEN wire[k + 1][1] ELSE cur)
        /\ cur \in Starts \cup {Len(ops) + 1} \cup {1}
        /\ verdict = "ok" => cur = Len(ops) + 1
        /\ verdict \in {"called", "refused"} => wire = <<>>
=============================================================================
