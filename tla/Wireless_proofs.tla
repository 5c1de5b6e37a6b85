--------------------------- MODULE Wireless_proofs ---------------------------
(***************************************************************************)
(* Proofs about the two radios of the ESP32 readers.  Bluetooth SPP: the   *)
(* callback and the serve loop interleaved in any order, for any number of *)
(* commands and connections and any size of the ring, the packet and the   *)
(* batch.  The PN7160: for any tags, faults and limits of the driver,      *)
(* nothing of an exchange that timed out reaches a later one.              *)
(***************************************************************************)
EXTENDS SppLink, Pn7160, SequenceTheorems, WellFoundedInduction, TLAPS

-----------------------------------------------------------------------------
(* The inductive invariant *)

Commands == [class : {"Snapshot", "Other"}, conn : Nat, age : 0..2]
Chunks == [cmd : Nat, whole : BOOLEAN]
Places == {"rx", "pump", "plan", "act", "post", "retry", "expire", "rewrite", "reclear",
           "idle", "down"}

SppTypes ==
    /\ cmds \in Seq(Commands) /\ conns \in Nat /\ handle \in {0, conns}
    /\ congested \in BOOLEAN /\ pending_snapshot \in BOOLEAN /\ overflow \in BOOLEAN
    /\ latched \in BOOLEAN /\ served \in BOOLEAN
    /\ pending \in Seq(Nat) /\ tx \in Seq(Nat) /\ written \in Seq(Nat \X Nat)
    /\ ring \in Seq(Chunks) /\ batch \in Seq(Chunks)
    /\ pc \in Places /\ plan \in {"Write", "Park", "Drop"} /\ target \in Nat

\* A command number that was sent.
Sent(c) == c \in 1..Len(cmds)

\* Every stage of the pipe holds its commands in the order they were sent.
StagesRise ==
    /\ \A i, j \in DOMAIN pending : i < j => pending[i] < pending[j]
    /\ \A i, j \in DOMAIN tx : i < j => tx[i] < tx[j]
    /\ \A i, j \in DOMAIN batch : i < j => batch[i].cmd < batch[j].cmd
    /\ \A i, j \in DOMAIN ring : i < j => ring[i].cmd < ring[j].cmd
    /\ DeliveredInOrder

\* A stage holds nothing sent before what the stages behind it hold: what is
\* written, parked, being built, popped and in the ring.  A packet that was
\* just written is still where it was written from.
StagesFollow ==
    /\ \A i \in DOMAIN written :
          /\ pc # "reclear" => \A j \in DOMAIN pending : written[i][1] < pending[j]
          /\ pc # "post" => \A j \in DOMAIN tx : written[i][1] < tx[j]
          /\ \A j \in DOMAIN batch : written[i][1] < batch[j].cmd
          /\ \A j \in DOMAIN ring : written[i][1] < ring[j].cmd
    /\ \A i \in DOMAIN pending :
          /\ \A j \in DOMAIN tx : pending[i] < tx[j]
          /\ \A j \in DOMAIN batch : pending[i] < batch[j].cmd
          /\ \A j \in DOMAIN ring : pending[i] < ring[j].cmd
    /\ \A i \in DOMAIN tx :
          /\ \A j \in DOMAIN batch : tx[i] < batch[j].cmd
          /\ \A j \in DOMAIN ring : tx[i] < ring[j].cmd
    /\ \A i \in DOMAIN batch, j \in DOMAIN ring : batch[i].cmd < ring[j].cmd

\* What the stages hold was sent.
StagesSent ==
    /\ \A i \in DOMAIN written : Sent(written[i][1])
    /\ \A i \in DOMAIN pending : Sent(pending[i])
    /\ \A i \in DOMAIN tx : Sent(tx[i])
    /\ \A i \in DOMAIN batch : Sent(batch[i].cmd)
    /\ \A i \in DOMAIN ring : Sent(ring[i].cmd)

\* What the loop decided still holds when it acts on it.
PlanHolds == pc = "act" /\ plan = "Write" => pending = <<>>

\* A host sends its next command when the last one is answered or given up.
OneAtATime ==
    \A c, d \in DOMAIN cmds :
        c < d /\ cmds[c].conn = cmds[d].conn =>
            cmds[c].age = 2 \/ \E k \in DOMAIN written : written[k][1] = c

\* Connections follow one another; the host of a response that is being built
\* has not given it up, and every response of a packet belongs to a
\* connection of its own.
HostsWait ==
    /\ conns <= MaxConns
    /\ \A c \in DOMAIN cmds : cmds[c].conn \in 1..conns
    /\ \A c, d \in DOMAIN cmds : c < d => cmds[c].conn <= cmds[d].conn
    /\ OneAtATime
    /\ \A i \in DOMAIN tx : cmds[tx[i]].age < 2 /\ cmds[tx[i]].conn >= i
    /\ \A i, j \in DOMAIN tx : i < j => cmds[tx[i]].conn < cmds[tx[j]].conn
    /\ \A i, j \in DOMAIN pending : i < j => cmds[pending[i]].conn < cmds[pending[j]].conn
    /\ pc = "rewrite" /\ pending # <<>> => cmds[pending[1]].age < 2

\* A request for a snapshot stays with a response that acknowledges one.
IsSnapshot(c) == cmds[c].class = "Snapshot"
RequestsStay ==
    /\ latched => \E i \in DOMAIN tx : IsSnapshot(tx[i])
    /\ pending_snapshot => \E i \in DOMAIN pending : IsSnapshot(pending[i])
    /\ pc = "post" => \A i \in DOMAIN tx : \E j \in DOMAIN written : written[j][1] = tx[i]
    /\ pc = "reclear" => \A i \in DOMAIN pending : \E j \in DOMAIN written : written[j][1] = pending[i]
    /\ PanicAfterAck

StagesInv == StagesRise /\ StagesFollow /\ StagesSent
SppInv == SppTypes /\ StagesInv /\ PlanHolds /\ HostsWait

-----------------------------------------------------------------------------
(* Sequences *)

\* The numbered bounds are naturals.
LEMMA BoundsAreNat == RingCap \in Nat /\ TxCap \in Nat /\ BatchMax \in Nat \ {0} /\ MaxConns \in Nat
  BY SppAssumption

\* What popping a batch does to the ring.
LEMMA PopFacts ==
    ASSUME NEW S, NEW q \in Seq(S), NEW n \in 0..Len(q)
    PROVE  /\ SubSeq(q, 1, n) \in Seq(S) /\ DOMAIN SubSeq(q, 1, n) = 1..n
           /\ \A i \in 1..n : SubSeq(q, 1, n)[i] = q[i]
           /\ SubSeq(q, n + 1, Len(q)) \in Seq(S)
           /\ DOMAIN SubSeq(q, n + 1, Len(q)) = 1..(Len(q) - n)
           /\ \A i \in 1..(Len(q) - n) : SubSeq(q, n + 1, Len(q))[i] = q[n + i]
  OBVIOUS

\* A packet written behind what was written before.
Behind(w, packet, h) == w \o [i \in DOMAIN packet |-> <<packet[i], h>>]

\* What a packet adds to what was written.
LEMMA WrittenFacts ==
    ASSUME NEW w \in Seq(Nat \X Nat), NEW packet \in Seq(Nat), NEW h \in Nat
    PROVE  /\ Behind(w, packet, h) \in Seq(Nat \X Nat)
           /\ Len(Behind(w, packet, h)) = Len(w) + Len(packet)
           /\ \A i \in 1..Len(w) : Behind(w, packet, h)[i] = w[i]
           /\ \A i \in 1..Len(packet) : Behind(w, packet, h)[Len(w) + i] = <<packet[i], h>>
<1> DEFINE p == [i \in DOMAIN packet |-> <<packet[i], h>>]
           v == Behind(w, packet, h)
           S == Nat \X Nat
<1>1. Len(packet) \in Nat /\ DOMAIN packet = 1..Len(packet) /\ \A i \in 1..Len(packet) : packet[i] \in Nat
  BY LenProperties, ElementOfSeq
<1>2. p \in [1..Len(packet) -> S] /\ \A i \in 1..Len(packet) : p[i] = <<packet[i], h>>
  BY <1>1
<1>3. v = w \o p /\ w \in Seq(S)
  BY DEF Behind
<1> HIDE DEF p, S, v
<1>4. p \in Seq(S)
  <2>1. p \in UNION {[1..n -> S] : n \in Nat}
    BY <1>1, <1>2
  <2>2. QED
    BY <2>1, SeqDef
<1>5. Len(p) = Len(packet)
  BY <1>1, <1>2, <1>4, LenProperties
<1>6. /\ v \in Seq(S) /\ Len(v) = Len(w) + Len(packet)
      /\ \A i \in 1..(Len(w) + Len(packet)) : v[i] = IF i <= Len(w) THEN w[i] ELSE p[i - Len(w)]
  <2>1. /\ w \o p \in Seq(S) /\ Len(w \o p) = Len(w) + Len(p)
        /\ \A i \in 1..(Len(w) + Len(p)) : (w \o p)[i] = IF i <= Len(w) THEN w[i] ELSE p[i - Len(w)]
    BY <1>3, <1>4, ConcatProperties
  <2>2. QED
    BY <1>3, <1>5, <2>1
<1>7. Len(w) \in Nat
  BY <1>3, LenProperties
<1>8. /\ v \in Seq(Nat \X Nat) /\ Len(v) = Len(w) + Len(packet)
      /\ \A i \in 1..Len(w) : v[i] = w[i]
      /\ \A i \in 1..Len(packet) : v[Len(w) + i] = <<packet[i], h>>
  <2>1. v \in Seq(Nat \X Nat)
    BY <1>6 DEF S
  <2>2. \A i \in 1..Len(w) : i \in 1..(Len(w) + Len(packet)) /\ i <= Len(w)
    BY <1>1, <1>7
  <2>3. \A i \in 1..Len(packet) :
           Len(w) + i \in 1..(Len(w) + Len(packet)) /\ ~(Len(w) + i <= Len(w)) /\ (Len(w) + i) - Len(w) = i
    BY <1>1, <1>7
  <2>4. QED
    BY <1>2, <1>6, <2>1, <2>2, <2>3
<1>9. QED
  BY <1>8 DEF v

\* An empty stage.
LEMMA NothingHeld ==
    <<>> \in Seq(Nat) /\ <<>> \in Seq(Chunks) /\ Len(<<>>) = 0 /\ DOMAIN <<>> = {}
<1>1. <<>> \in Seq(Nat) /\ <<>> \in Seq(Chunks)
  BY EmptySeq
<1>2. Len(<<>>) = 0 /\ DOMAIN <<>> = {}
  OBVIOUS
<1>3. QED
  BY <1>1, <1>2

-----------------------------------------------------------------------------
(* Types *)

\* A command ages by one.
LEMMA AgedCommand ==
    ASSUME NEW r \in Commands, r.age < 2
    PROVE  LET new == [r EXCEPT !.age = @ + 1]
           IN new \in Commands /\ new.conn = r.conn /\ new.class = r.class /\ new.age = r.age + 1
<1>1. r.age \in 0..2 /\ r.age + 1 \in 0..2
  BY DEF Commands
<1>2. [r EXCEPT !.age = r.age + 1] \in Commands
  BY <1>1 DEF Commands
<1>3. QED
  BY <1>1, <1>2 DEF Commands

\* A command that was sent, looked up by its number.
LEMMA CommandAt ==
    ASSUME SppTypes, NEW c \in DOMAIN cmds
    PROVE  c \in 1..Len(cmds) /\ cmds[c] \in Commands
<1>1. cmds \in Seq(Commands)
  BY DEF SppTypes
<1>2. QED
  BY <1>1, LenProperties, ElementOfSeq

\* The stages as functions.
LEMMA StageTypes ==
    ASSUME SppTypes
    PROVE  /\ Len(cmds) \in Nat /\ DOMAIN cmds = 1..Len(cmds)
           /\ Len(written) \in Nat /\ DOMAIN written = 1..Len(written)
           /\ Len(pending) \in Nat /\ DOMAIN pending = 1..Len(pending)
           /\ Len(tx) \in Nat /\ DOMAIN tx = 1..Len(tx)
           /\ Len(batch) \in Nat /\ DOMAIN batch = 1..Len(batch)
           /\ Len(ring) \in Nat /\ DOMAIN ring = 1..Len(ring)
           /\ \A i \in DOMAIN written : written[i][1] \in Nat
           /\ \A i \in DOMAIN pending : pending[i] \in Nat
           /\ \A i \in DOMAIN tx : tx[i] \in Nat
           /\ \A i \in DOMAIN batch : batch[i] \in Chunks /\ batch[i].cmd \in Nat
           /\ \A i \in DOMAIN ring : ring[i] \in Chunks /\ ring[i].cmd \in Nat
<1> USE DEF SppTypes
<1>1. /\ Len(cmds) \in Nat /\ DOMAIN cmds = 1..Len(cmds)
      /\ Len(written) \in Nat /\ DOMAIN written = 1..Len(written)
      /\ Len(pending) \in Nat /\ DOMAIN pending = 1..Len(pending)
      /\ Len(tx) \in Nat /\ DOMAIN tx = 1..Len(tx)
      /\ Len(batch) \in Nat /\ DOMAIN batch = 1..Len(batch)
      /\ Len(ring) \in Nat /\ DOMAIN ring = 1..Len(ring)
  OBVIOUS
<1>2. \A i \in DOMAIN written : written[i] \in Nat \X Nat
  BY <1>1
<1>3. \A i \in DOMAIN pending : pending[i] \in Nat
  BY <1>1
<1>4. \A i \in DOMAIN tx : tx[i] \in Nat
  BY <1>1
<1>5. \A i \in DOMAIN batch : batch[i] \in Chunks
  BY <1>1
<1>6. \A i \in DOMAIN ring : ring[i] \in Chunks
  BY <1>1
<1>7. QED
  BY <1>1, <1>2, <1>3, <1>4, <1>5, <1>6 DEF Chunks

\* Every step keeps the types.
LEMMA TypesHold == SppTypes /\ [SppNext]_sppVars => SppTypes'
<1> SUFFICES ASSUME SppTypes, [SppNext]_sppVars PROVE SppTypes'
  OBVIOUS
<1> USE NothingHeld DEF SppTypes, Places, hostVars, linkVars, ringVars, pumpVars
<1>1. CASE OnOpen
  <2>1. conns' \in Nat /\ handle' \in {0, conns'}
    BY <1>1 DEF OnOpen
  <2>2. QED
    BY <1>1, <2>1 DEF OnOpen
<1>2. CASE OnClose
  BY <1>2 DEF OnClose
<1>3. CASE OnCong
  BY <1>3 DEF OnCong
<1>4. CASE OnData
  <2>1. PICK class \in {"Snapshot", "Other"}, whole \in BOOLEAN :
          /\ cmds' = Append(cmds, [class |-> class, conn |-> handle, age |-> 0])
          /\ PushRing([cmd |-> Len(cmds) + 1, whole |-> whole])
    BY <1>4 DEF OnData
  <2>2. [class |-> class, conn |-> handle, age |-> 0] \in Commands
        /\ [cmd |-> Len(cmds) + 1, whole |-> whole] \in Chunks
    BY DEF Commands, Chunks
  <2>3. cmds' \in Seq(Commands) /\ ring' \in Seq(Chunks) /\ overflow' \in BOOLEAN
    <3>1. cmds' \in Seq(Commands)
      BY <2>1, <2>2, AppendProperties
    <3>2. Append(ring, [cmd |-> Len(cmds) + 1, whole |-> whole]) \in Seq(Chunks)
      BY <2>2, AppendProperties
    <3>3. QED
      BY <2>1, <3>1, <3>2 DEF PushRing
  <2>4. QED
    BY <1>4, <2>3 DEF OnData
<1>5. CASE WindowPasses
  <2>1. PICK c \in DOMAIN cmds : cmds[c].age < 2 /\ cmds' = [cmds EXCEPT ![c].age = @ + 1]
    BY <1>5 DEF WindowPasses
  <2>2. [cmds[c] EXCEPT !.age = @ + 1] \in Commands
    <3>1. cmds[c] \in Commands
      BY <2>1, CommandAt
    <3>2. QED
      BY <2>1, <3>1, AgedCommand
  <2>3. cmds' \in Seq(Commands)
    <3>1. c \in 1..Len(cmds) /\ cmds' = [cmds EXCEPT ![c] = [cmds[c] EXCEPT !.age = @ + 1]]
      BY <2>1, LenProperties
    <3>2. QED
      BY <2>2, <3>1, ExceptSeq
  <2>4. QED
    BY <1>5, <2>3 DEF WindowPasses
<1>6. CASE PopBatch
  <2> DEFINE n == IF Len(ring) < BatchMax THEN Len(ring) ELSE BatchMax
  <2>1. n \in 0..Len(ring)
    BY BoundsAreNat
  <2> HIDE DEF n
  <2>2. batch' \in Seq(Chunks) /\ ring' \in Seq(Chunks)
    BY <1>6, <2>1, PopFacts DEF PopBatch, n
  <2>3. QED
    BY <1>6, <2>2 DEF PopBatch
<1>7. CASE RingDrained
  BY <1>7 DEF RingDrained
<1>8. CASE PumpOne
  <2>1. batch # <<>> /\ batch' = Tail(batch) /\ Head(batch) \in Chunks
    BY <1>8, HeadTailProperties DEF PumpOne
  <2>2. batch' \in Seq(Chunks)
    BY <2>1
  <2>3. Append(tx, Head(batch).cmd) \in Seq(Nat)
    BY <2>1, AppendProperties DEF Chunks
  <2>4. PICK gap \in BOOLEAN :
          LET held == IF gap THEN 0 ELSE partial
          IN IF held # 0 THEN Malformed
             ELSE IF Head(batch).whole THEN Serve(Head(batch).cmd)
             ELSE UNCHANGED <<tx, served, latched, proven>>
    BY <1>8 DEF PumpOne
  <2>5. tx' \in Seq(Nat) /\ served' \in BOOLEAN /\ latched' \in BOOLEAN
    BY <2>3, <2>4 DEF Serve, Malformed
  <2>6. QED
    BY <1>8, <2>2, <2>5 DEF PumpOne
<1>9. CASE BatchFed
  BY <1>9 DEF BatchFed
<1>10. CASE Plan
  BY <1>10 DEF Plan, DeliveryPlan
<1>11. CASE Deliver
  <2>1. written' \in Seq(Nat \X Nat)
    <3>1. written' = Behind(written, tx, target)
      BY <1>11 DEF Deliver, Accepted, Behind
    <3>2. written \in Seq(Nat \X Nat) /\ tx \in Seq(Nat) /\ target \in Nat
      OBVIOUS
    <3>3. QED
      BY ONLY <3>1, <3>2, WrittenFacts
  <2>2. QED
    BY <1>11, <2>1 DEF Deliver
<1>12. CASE WriteBusy
  BY <1>12 DEF WriteBusy
<1>13. CASE Park
  BY <1>13 DEF Park
<1>14. CASE DropTx
  BY <1>14 DEF DropTx
<1>15. CASE PostDelivery
  BY <1>15 DEF PostDelivery
<1>16. CASE PlanRetry
  BY <1>16 DEF PlanRetry
<1>17. CASE ExpirePending
  BY <1>17 DEF ExpirePending, ClearPending
<1>18. CASE Rewrite
  <2>1. ASSUME Accepted(pending) PROVE written' \in Seq(Nat \X Nat)
    <3>1. written' = Behind(written, pending, target)
      BY <2>1 DEF Accepted, Behind
    <3>2. written \in Seq(Nat \X Nat) /\ pending \in Seq(Nat) /\ target \in Nat
      OBVIOUS
    <3>3. QED
      BY ONLY <3>1, <3>2, WrittenFacts
  <2>2. written' \in Seq(Nat \X Nat)
    BY <1>18, <2>1 DEF Rewrite
  <2>3. QED
    BY <1>18, <2>2 DEF Rewrite
<1>19. CASE Reclear
  BY <1>19 DEF Reclear, ClearPending
<1>20. CASE IdleCheck
  BY <1>20 DEF IdleCheck
<1>21. CASE UNCHANGED sppVars
  BY <1>21 DEF sppVars
<1>22. QED
  BY <1>1, <1>2, <1>3, <1>4, <1>5, <1>6, <1>7, <1>8, <1>9, <1>10, <1>11, <1>12, <1>13, <1>14, <1>15,
     <1>16, <1>17, <1>18, <1>19, <1>20, <1>21 DEF SppNext, Callback, Loop

-----------------------------------------------------------------------------
(* What the steps do to the stages *)

\* The commands stay and their number grows by at most one.
LEMMA OnDataFacts ==
    ASSUME SppTypes, OnData
    PROVE  /\ Len(cmds') = Len(cmds) + 1 /\ \A c \in 1..Len(cmds) : cmds'[c] = cmds[c]
           /\ cmds'[Len(cmds) + 1].conn = handle
           /\ \/ ring' = ring
              \/ /\ Len(ring') = Len(ring) + 1 /\ \A i \in 1..Len(ring) : ring'[i] = ring[i]
                 /\ ring'[Len(ring) + 1].cmd = Len(cmds) + 1
<1>1. PICK class \in {"Snapshot", "Other"}, whole \in BOOLEAN :
          /\ cmds' = Append(cmds, [class |-> class, conn |-> handle, age |-> 0])
          /\ PushRing([cmd |-> Len(cmds) + 1, whole |-> whole])
  BY DEF OnData
<1> DEFINE new == [class |-> class, conn |-> handle, age |-> 0]
           chunk == [cmd |-> Len(cmds) + 1, whole |-> whole]
<1>2. new \in Commands /\ new.conn = handle /\ chunk \in Chunks /\ chunk.cmd = Len(cmds) + 1
  BY StageTypes DEF Commands, Chunks, SppTypes
<1>3. cmds' = Append(cmds, new) /\ PushRing(chunk)
  BY <1>1
<1>4. cmds \in Seq(Commands) /\ ring \in Seq(Chunks)
  BY DEF SppTypes
<1> HIDE DEF new, chunk
<1>5. /\ Len(cmds') = Len(cmds) + 1 /\ \A c \in 1..Len(cmds) : cmds'[c] = cmds[c]
      /\ cmds'[Len(cmds) + 1] = new
  BY <1>2, <1>3, <1>4, AppendProperties
<1>6. ring' = ring \/ ring' = Append(ring, chunk)
  BY <1>3 DEF PushRing
<1>7. ASSUME ring' = Append(ring, chunk)
      PROVE  /\ Len(ring') = Len(ring) + 1 /\ \A i \in 1..Len(ring) : ring'[i] = ring[i]
             /\ ring'[Len(ring) + 1] = chunk
  BY <1>2, <1>4, <1>7, AppendProperties
<1>8. QED
  BY <1>2, <1>5, <1>6, <1>7

\* Time changes nothing but an age.
LEMMA WindowFacts ==
    ASSUME SppTypes, WindowPasses
    PROVE  /\ Len(cmds') = Len(cmds)
           /\ \A c \in 1..Len(cmds) :
                 /\ cmds'[c].conn = cmds[c].conn /\ cmds'[c].class = cmds[c].class
                 /\ Delivering(c) /\ cmds[c].age < 2 => cmds'[c].age < 2
<1>1. PICK c \in DOMAIN cmds :
         /\ cmds[c].age < 2 /\ (cmds[c].age = 1 => ~Delivering(c))
         /\ cmds' = [cmds EXCEPT ![c].age = @ + 1]
  BY DEF WindowPasses
<1>2. /\ c \in 1..Len(cmds) /\ DOMAIN cmds = 1..Len(cmds) /\ cmds \in Seq(Commands)
      /\ \A d \in 1..Len(cmds) : cmds[d] \in Commands
  BY CommandAt, StageTypes DEF SppTypes
<1> DEFINE new == [cmds[c] EXCEPT !.age = @ + 1]
<1>3. new \in Commands /\ new.conn = cmds[c].conn /\ new.class = cmds[c].class /\ new.age = cmds[c].age + 1
  BY <1>1, <1>2, AgedCommand
<1>4. cmds' = [cmds EXCEPT ![c] = new]
  BY <1>1
<1> HIDE DEF new
<1>5. /\ Len(cmds') = Len(cmds)
      /\ \A d \in 1..Len(cmds) : cmds'[d] = IF d = c THEN new ELSE cmds[d]
  BY <1>2, <1>3, <1>4, ExceptSeq
<1>6. cmds[c].age \in 0..2
  BY <1>2 DEF Commands
<1>7. QED
  BY <1>1, <1>3, <1>5, <1>6

\* A popped batch is the front of the ring.
LEMMA PopBatchFacts ==
    ASSUME SppTypes, PopBatch
    PROVE  \E n \in 0..Len(ring) :
              /\ DOMAIN batch' = 1..n /\ \A i \in 1..n : batch'[i] = ring[i]
              /\ DOMAIN ring' = 1..(Len(ring) - n)
              /\ \A i \in 1..(Len(ring) - n) : ring'[i] = ring[n + i]
<1> DEFINE n == IF Len(ring) < BatchMax THEN Len(ring) ELSE BatchMax
<1>1. n \in 0..Len(ring)
  BY BoundsAreNat, StageTypes
<1>2. ring \in Seq(Chunks) /\ batch' = SubSeq(ring, 1, n) /\ ring' = SubSeq(ring, n + 1, Len(ring))
  BY DEF PopBatch, SppTypes
<1> HIDE DEF n
<1>3. QED
  BY <1>1, <1>2, PopFacts

\* The pump takes the head of the batch and puts at most its answer behind
\* the packet, if the packet has room.
LEMMA PumpFacts ==
    ASSUME SppTypes, PumpOne
    PROVE  /\ Len(batch) > 0 /\ DOMAIN batch' = 1..(Len(batch) - 1)
           /\ \A i \in 1..(Len(batch) - 1) : batch'[i] = batch[i + 1]
           /\ \/ tx' = tx
              \/ /\ Len(tx) < TxCap /\ ~Past(batch[1].cmd) /\ DOMAIN tx' = 1..(Len(tx) + 1)
                 /\ \A i \in 1..Len(tx) : tx'[i] = tx[i]
                 /\ tx'[Len(tx) + 1] = batch[1].cmd
           /\ latched' => \/ latched /\ (tx' = tx \/ Len(tx) < TxCap)
                          \/ IsSnapshot(batch[1].cmd) /\ (tx' # tx \/ Len(tx) >= TxCap)
<1>1. batch \in Seq(Chunks) /\ tx \in Seq(Nat) /\ batch # <<>> /\ batch' = Tail(batch)
  BY DEF SppTypes, PumpOne
<1>2. /\ Len(batch) > 0 /\ Head(batch) = batch[1] /\ DOMAIN batch' = 1..(Len(batch) - 1)
      /\ \A i \in 1..(Len(batch) - 1) : batch'[i] = batch[i + 1]
  BY <1>1
<1>3. batch[1].cmd \in Nat
  BY <1>2, StageTypes
<1> DEFINE c == batch[1].cmd
<1>4. PICK gap \in BOOLEAN :
          LET held == IF gap THEN 0 ELSE partial
          IN IF held # 0 THEN Malformed
             ELSE IF Head(batch).whole THEN Serve(Head(batch).cmd)
             ELSE UNCHANGED <<tx, served, latched, proven>>
  BY DEF PumpOne
<1>5. Malformed \/ Serve(c) \/ UNCHANGED <<tx, served, latched, proven>>
  BY <1>2, <1>4
<1> HIDE DEF c
<1>6. CASE Malformed \/ UNCHANGED <<tx, served, latched, proven>>
  BY <1>2, <1>6 DEF Malformed
<1>7. CASE Serve(c)
  <2>1. CASE Past(c)
    BY <1>2, <1>7, <2>1 DEF Serve
  <2>2. CASE ~Past(c) /\ Len(tx) < TxCap
    <3>1. tx' = Append(tx, c) /\ (latched' => latched \/ cmds[c].class = "Snapshot")
      BY <1>7, <2>2 DEF Serve
    <3>2. /\ Append(tx, c) \in Seq(Nat) /\ Len(Append(tx, c)) = Len(tx) + 1
          /\ \A i \in 1..Len(tx) : Append(tx, c)[i] = tx[i]
          /\ Append(tx, c)[Len(tx) + 1] = c
      BY <1>1, <1>3, AppendProperties DEF c
    <3>3. DOMAIN tx' = 1..(Len(tx) + 1) /\ Len(tx') = Len(tx) + 1
      BY <3>1, <3>2, LenProperties
    <3>4. tx' # tx
      BY <3>3, StageTypes
    <3>5. QED
      BY <1>2, <2>2, <3>1, <3>2, <3>3, <3>4 DEF c, IsSnapshot
  <2>3. CASE ~Past(c) /\ ~(Len(tx) < TxCap)
    <3>1. tx' = tx /\ (latched' => latched \/ cmds[c].class = "Snapshot")
      BY <1>7, <2>3 DEF Serve
    <3>2. QED
      BY <1>2, <2>3, <3>1, StageTypes, BoundsAreNat DEF c, IsSnapshot
  <2>4. QED
    BY <2>1, <2>2, <2>3
<1>8. QED
  BY <1>5, <1>6, <1>7

\* A delivery puts the packet behind what was written.
LEMMA AcceptedFacts ==
    ASSUME SppTypes, NEW packet \in Seq(Nat), Accepted(packet)
    PROVE  /\ DOMAIN written' = 1..(Len(written) + Len(packet))
           /\ \A i \in 1..Len(written) : written'[i] = written[i]
           /\ \A i \in 1..Len(packet) : written'[Len(written) + i] = <<packet[i], target>>
<1>1. written' = Behind(written, packet, target)
  BY DEF Accepted, Behind
<1>2. written \in Seq(Nat \X Nat) /\ target \in Nat /\ packet \in Seq(Nat)
  BY DEF SppTypes
<1>3. /\ written' \in Seq(Nat \X Nat) /\ Len(written') = Len(written) + Len(packet)
      /\ \A i \in 1..Len(written) : written'[i] = written[i]
      /\ \A i \in 1..Len(packet) : written'[Len(written) + i] = <<packet[i], target>>
  BY <1>1, <1>2, WrittenFacts
<1>4. QED
  BY <1>3, LenProperties

-----------------------------------------------------------------------------
(* The order of the stages *)

\* Steps that leave the stages as they are, or empty one, and do not go on
\* from a packet that was written.
LEMMA StagesRest ==
    ASSUME SppTypes, StagesInv,
           Len(cmds') = Len(cmds), UNCHANGED <<written, batch>>,
           ring' \in {ring, <<>>}, pending' \in {pending, <<>>}, tx' \in {tx, <<>>},
           pc = "reclear" => pc' = "reclear" \/ pending' = <<>>,
           pc = "post" => pc' = "post" \/ tx' = <<>>
    PROVE  StagesInv'
<1> USE StageTypes, NothingHeld DEF StagesInv, StagesRise, StagesFollow, StagesSent, Sent, DeliveredInOrder
<1>1. /\ \A i \in DOMAIN ring' : i \in DOMAIN ring /\ ring'[i] = ring[i]
      /\ \A i \in DOMAIN pending' : i \in DOMAIN pending /\ pending'[i] = pending[i]
      /\ \A i \in DOMAIN tx' : i \in DOMAIN tx /\ tx'[i] = tx[i]
  OBVIOUS
<1>2. StagesRise'
  BY <1>1
<1>3. StagesSent'
  BY <1>1
<1>4. StagesFollow'
  <2>1. ASSUME pc' # "reclear", NEW i \in DOMAIN written, NEW j \in DOMAIN pending'
        PROVE  written[i][1] < pending'[j]
    BY <1>1, <2>1
  <2>2. ASSUME pc' # "post", NEW i \in DOMAIN written, NEW j \in DOMAIN tx'
        PROVE  written[i][1] < tx'[j]
    BY <1>1, <2>2
  <2>3. QED
    BY <1>1, <2>1, <2>2
<1>5. QED
  BY <1>2, <1>3, <1>4

\* A new command is later than all that is under way.
LEMMA OnDataStages == SppTypes /\ StagesInv /\ OnData => StagesInv'
<1> SUFFICES ASSUME SppTypes, StagesInv, OnData PROVE StagesInv'
  OBVIOUS
<1> USE StageTypes DEF StagesInv, StagesRise, StagesFollow, StagesSent, Sent, DeliveredInOrder
<1>1. UNCHANGED <<pending, tx, batch, written, pc>> /\ Len(cmds') = Len(cmds) + 1
  BY OnDataFacts DEF OnData, linkVars, pumpVars
<1>2. CASE ring' = ring
  BY <1>1, <1>2
<1>3. CASE /\ Len(ring') = Len(ring) + 1 /\ \A i \in 1..Len(ring) : ring'[i] = ring[i]
           /\ ring'[Len(ring) + 1].cmd = Len(cmds) + 1
  <2>1. DOMAIN ring' = 1..(Len(ring) + 1)
    <3>1. ring' \in Seq(Chunks)
      BY TypesHold DEF SppNext, Callback, SppTypes
    <3>2. QED
      BY <1>3, <3>1
  <2>2. \A i \in DOMAIN ring' : \/ i \in DOMAIN ring /\ ring'[i] = ring[i]
                                \/ i = Len(ring) + 1 /\ ring'[i].cmd = Len(cmds) + 1
    BY <1>3, <2>1
  <2>3. \A c : Sent(c) => c \in Nat /\ c < Len(cmds) + 1
    OBVIOUS
  <2>4. StagesRise'
    <3>1. \A i, j \in DOMAIN ring' : i < j => ring'[i].cmd < ring'[j].cmd
      BY <2>2, <2>3
    <3>2. QED
      BY <1>1, <3>1
  <2>5. StagesSent'
    <3>1. \A c : Sent(c) => c \in 1..Len(cmds')
      BY <1>1
    <3>2. \A i \in DOMAIN ring' : ring'[i].cmd \in 1..Len(cmds')
      BY <1>1, <2>2, <3>1
    <3>3. QED
      BY <1>1, <3>1, <3>2
  <2>6. StagesFollow'
    <3>1. \A c, j : j \in DOMAIN ring' /\ Sent(c) /\ (\A k \in DOMAIN ring : c < ring[k].cmd) => c < ring'[j].cmd
      BY <2>2, <2>3
    <3>2. QED
      BY <1>1, <3>1
  <2>7. QED
    BY <2>4, <2>5, <2>6
<1>4. QED
  BY <1>2, <1>3, OnDataFacts

\* A batch is the front of the ring.
LEMMA PopBatchStages == SppTypes /\ StagesInv /\ PopBatch => StagesInv'
<1> SUFFICES ASSUME SppTypes, StagesInv, PopBatch PROVE StagesInv'
  OBVIOUS
<1> USE StageTypes DEF StagesInv, StagesRise, StagesFollow, StagesSent, Sent, DeliveredInOrder
<1>1. UNCHANGED <<cmds, pending, tx, written>> /\ pc = "rx"
  BY DEF PopBatch, hostVars, linkVars
<1>2. PICK n \in 0..Len(ring) :
              /\ DOMAIN batch' = 1..n /\ \A i \in 1..n : batch'[i] = ring[i]
              /\ DOMAIN ring' = 1..(Len(ring) - n)
              /\ \A i \in 1..(Len(ring) - n) : ring'[i] = ring[n + i]
  BY PopBatchFacts
<1>3. /\ \A i \in DOMAIN batch' : i \in 1..n /\ i \in DOMAIN ring /\ batch'[i] = ring[i]
      /\ \A i \in DOMAIN ring' : \E k \in DOMAIN ring : k > n /\ k = n + i /\ ring'[i] = ring[k]
  BY <1>2
<1>4. StagesRise'
  <2>1. \A i, j \in DOMAIN batch' : i < j => batch'[i].cmd < batch'[j].cmd
    BY <1>3
  <2>2. \A i, j \in DOMAIN ring' : i < j => ring'[i].cmd < ring'[j].cmd
    <3>1. TAKE i, j \in DOMAIN ring'
    <3>2. PICK k \in DOMAIN ring : k = n + i /\ ring'[i] = ring[k]
      BY <1>3
    <3>3. PICK l \in DOMAIN ring : l = n + j /\ ring'[j] = ring[l]
      BY <1>3
    <3>4. i < j => k < l
      BY <1>2, <3>2, <3>3
    <3>5. QED
      BY <3>2, <3>3, <3>4
  <2>3. QED
    BY <1>1, <2>1, <2>2
<1>5. StagesSent'
  BY <1>1, <1>3
<1>6. StagesFollow'
  BY <1>1, <1>3, SMTT(20)
<1>7. QED
  BY <1>4, <1>5, <1>6

\* A response joins the packet in the order of the batch.
LEMMA PumpStages == SppTypes /\ StagesInv /\ PumpOne => StagesInv'
<1> SUFFICES ASSUME SppTypes, StagesInv, PumpOne PROVE StagesInv'
  OBVIOUS
<1> USE StageTypes DEF StagesInv, StagesRise, StagesFollow, StagesSent, Sent, DeliveredInOrder
<1>1. UNCHANGED <<cmds, pending, ring, written, pc>> /\ pc = "pump"
  BY DEF PumpOne, hostVars, linkVars, ringVars
<1>2. /\ 1 \in DOMAIN batch
      /\ \A i \in DOMAIN batch' : \E k \in DOMAIN batch : k = i + 1 /\ k > 1 /\ batch'[i] = batch[k]
      /\ DOMAIN batch' \subseteq Nat
  BY PumpFacts
<1>6. \A i, j \in DOMAIN batch' : i < j => batch'[i].cmd < batch'[j].cmd
  BY <1>2, SMTT(20)
<1>3. CASE tx' = tx
  <2>1. StagesRise'
    BY <1>1, <1>3, <1>6
  <2>2. StagesSent'
    BY <1>1, <1>2, <1>3
  <2>3. StagesFollow'
    BY <1>1, <1>2, <1>3, SMTT(20)
  <2>4. QED
    BY <2>1, <2>2, <2>3
<1>4. CASE /\ DOMAIN tx' = 1..(Len(tx) + 1)
           /\ \A i \in 1..Len(tx) : tx'[i] = tx[i]
           /\ tx'[Len(tx) + 1] = batch[1].cmd
  <2>1. \A i \in DOMAIN tx' : \/ i \in DOMAIN tx /\ tx'[i] = tx[i]
                              \/ i = Len(tx) + 1 /\ tx'[i] = batch[1].cmd
    BY <1>4
  <2>2. \A i \in DOMAIN batch' : batch[1].cmd < batch'[i].cmd
    BY <1>2
  <2>3. StagesRise'
    <3>1. \A i, j \in DOMAIN tx' : i < j => tx'[i] < tx'[j]
      BY <1>2, <2>1
    <3>2. QED
      BY <1>1, <1>6, <3>1
  <2>4. StagesSent'
    BY <1>1, <1>2, <2>1
  <2>5. StagesFollow'
    <3>1. \A i \in DOMAIN tx' : /\ \A j \in DOMAIN batch' : tx'[i] < batch'[j].cmd
                              /\ \A j \in DOMAIN ring : tx'[i] < ring[j].cmd
      <4>1. \A i \in DOMAIN tx, j \in DOMAIN batch' : tx[i] < batch'[j].cmd
        BY <1>2
      <4>2. \A j \in DOMAIN ring : batch[1].cmd < ring[j].cmd
        BY <1>2
      <4>3. QED
        BY <2>1, <2>2, <4>1, <4>2
    <3>2. \A c \in Nat : (\A j \in DOMAIN batch : c < batch[j].cmd) => \A j \in DOMAIN batch' : c < batch'[j].cmd
      BY <1>2
    <3>3. \A c \in Nat : (\A j \in DOMAIN tx : c < tx[j]) /\ (\A j \in DOMAIN batch : c < batch[j].cmd)
                       => \A j \in DOMAIN tx' : c < tx'[j]
      BY <1>2, <2>1
    <3>4. \A j \in DOMAIN batch', i \in DOMAIN ring : batch'[j].cmd < ring[i].cmd
      BY <1>2
    <3>5. QED
      BY <1>1, <3>1, <3>2, <3>3, <3>4
  <2>6. QED
    BY <2>3, <2>4, <2>5
<1>5. QED
  BY <1>3, <1>4, PumpFacts

\* A packet is written after what was written before.
LEMMA DeliverStages == SppTypes /\ StagesInv /\ PlanHolds /\ Deliver => StagesInv'
<1> SUFFICES ASSUME SppTypes, StagesInv, PlanHolds, Deliver PROVE StagesInv'
  OBVIOUS
<1> USE StageTypes DEF StagesInv, StagesRise, StagesFollow, StagesSent, Sent, DeliveredInOrder
<1>1. /\ UNCHANGED <<cmds, pending, ring, batch, tx>> /\ pc = "act" /\ pc' = "post"
      /\ pending = <<>> /\ tx \in Seq(Nat) /\ Accepted(tx)
  BY DEF Deliver, hostVars, linkVars, ringVars, pumpVars, PlanHolds, SppTypes
<1>2. \A i \in DOMAIN written' :
         \/ i \in DOMAIN written /\ written'[i] = written[i]
         \/ \E k \in DOMAIN tx : i = Len(written) + k /\ written'[i][1] = tx[k]
  <2>1. /\ DOMAIN written' = 1..(Len(written) + Len(tx))
        /\ \A i \in 1..Len(written) : written'[i] = written[i]
        /\ \A i \in 1..Len(tx) : written'[Len(written) + i] = <<tx[i], target>>
    BY <1>1, AcceptedFacts
  <2>2. TAKE i \in DOMAIN written'
  <2>3. CASE i <= Len(written)
    BY <2>1, <2>3
  <2>4. CASE i > Len(written)
    <3>1. i - Len(written) \in DOMAIN tx /\ i = Len(written) + (i - Len(written))
      BY <2>1, <2>4
    <3>2. written'[i][1] = tx[i - Len(written)]
      BY <2>1, <3>1
    <3>3. QED
      BY <3>1, <3>2
  <2>5. QED
    BY <2>1, <2>3, <2>4
<1>3. StagesRise'
  BY <1>1, <1>2, SMTT(20)
<1>4. StagesSent'
  BY <1>1, <1>2
<1>5. DOMAIN pending' = {}
  BY <1>1, NothingHeld
<1>6. StagesFollow'
  BY <1>1, <1>2, <1>5
<1>7. QED
  BY <1>3, <1>4, <1>6

\* A parked packet is written before what was built since.
LEMMA RewriteStages == SppTypes /\ StagesInv /\ Rewrite => StagesInv'
<1> SUFFICES ASSUME SppTypes, StagesInv, Rewrite PROVE StagesInv'
  OBVIOUS
<1>1. /\ UNCHANGED <<cmds, pending, ring, batch, tx>> /\ pc = "rewrite" /\ pending \in Seq(Nat)
  BY DEF Rewrite, hostVars, linkVars, ringVars, pumpVars, SppTypes
<1>2. CASE pc' = "idle" /\ UNCHANGED written
  BY <1>1, <1>2, StagesRest
<1>3. CASE pc' = "reclear" /\ Accepted(pending)
  <2> USE StageTypes DEF StagesInv, StagesRise, StagesFollow, StagesSent, Sent, DeliveredInOrder
  <2>1. \A i \in DOMAIN written' :
           \/ i \in DOMAIN written /\ written'[i] = written[i]
           \/ \E k \in DOMAIN pending : i = Len(written) + k /\ written'[i][1] = pending[k]
    <3>1. /\ DOMAIN written' = 1..(Len(written) + Len(pending))
          /\ \A i \in 1..Len(written) : written'[i] = written[i]
          /\ \A i \in 1..Len(pending) : written'[Len(written) + i] = <<pending[i], target>>
      BY <1>1, <1>3, AcceptedFacts
    <3>2. TAKE i \in DOMAIN written'
    <3>3. CASE i <= Len(written)
      BY <3>1, <3>3
    <3>4. CASE i > Len(written)
      <4>1. i - Len(written) \in DOMAIN pending /\ i = Len(written) + (i - Len(written))
        BY <3>1, <3>4
      <4>2. written'[i][1] = pending[i - Len(written)]
        BY <3>1, <4>1
      <4>3. QED
        BY <4>1, <4>2
    <3>5. QED
      BY <3>1, <3>3, <3>4
  <2>2. StagesRise'
    <3>1. \A i, j \in DOMAIN written' : i < j => written'[i][1] < written'[j][1]
      BY <1>1, <2>1
    <3>2. QED
      BY <1>1, <3>1
  <2>3. StagesSent'
    BY <1>1, <2>1
  <2>4. StagesFollow'
    BY <1>1, <1>3, <2>1
  <2>5. QED
    BY <2>2, <2>3, <2>4
<1>4. QED
  BY <1>2, <1>3 DEF Rewrite

\* A packet is parked behind what is parked.
LEMMA ParkStages == SppTypes /\ StagesInv /\ Park => StagesInv'
<1> SUFFICES ASSUME SppTypes, StagesInv, Park PROVE StagesInv'
  OBVIOUS
<1> USE StageTypes, NothingHeld DEF StagesInv, StagesRise, StagesFollow, StagesSent, Sent, DeliveredInOrder
<1>1. /\ UNCHANGED <<cmds, ring, batch, written>> /\ pc = "act" /\ pc' = "retry"
      /\ pending' = tx /\ tx' = <<>>
  BY DEF Park, hostVars, ringVars
<1>2. StagesRise' /\ StagesSent'
  BY <1>1
<1>3. StagesFollow'
  BY <1>1
<1>4. QED
  BY <1>2, <1>3

\* Every step keeps the order of the stages.
LEMMA StagesHold == SppTypes /\ StagesInv /\ PlanHolds /\ [SppNext]_sppVars => StagesInv'
<1> SUFFICES ASSUME SppTypes, StagesInv, PlanHolds, [SppNext]_sppVars PROVE StagesInv'
  OBVIOUS
<1> USE DEF hostVars, linkVars, ringVars, pumpVars
<1>1. CASE OnOpen \/ OnClose \/ OnCong
  BY <1>1, StagesRest DEF OnOpen, OnClose, OnCong
<1>2. CASE WindowPasses
  BY <1>2, WindowFacts, StagesRest DEF WindowPasses
<1>3. CASE RingDrained \/ BatchFed \/ Plan \/ WriteBusy \/ PlanRetry \/ IdleCheck
  BY <1>3, StagesRest DEF RingDrained, BatchFed, Plan, WriteBusy, PlanRetry, IdleCheck
<1>4. CASE DropTx \/ PostDelivery
  BY <1>4, StagesRest DEF DropTx, PostDelivery
<1>5. CASE ExpirePending \/ Reclear
  BY <1>5, StagesRest DEF ExpirePending, Reclear, ClearPending
<1>6. CASE UNCHANGED sppVars
  BY <1>6, StagesRest DEF sppVars
<1>7. QED
  BY <1>1, <1>2, <1>3, <1>4, <1>5, <1>6, OnDataStages, PopBatchStages, PumpStages, DeliverStages,
     RewriteStages, ParkStages DEF SppNext, Callback, Loop

\* Only the loop itself parks, so its plan still holds.
LEMMA PlanStillHolds == PlanHolds /\ [SppNext]_sppVars => PlanHolds'
<1> SUFFICES ASSUME PlanHolds, [SppNext]_sppVars PROVE PlanHolds'
  OBVIOUS
<1> USE DEF PlanHolds, hostVars, linkVars, ringVars, pumpVars
<1>1. CASE Callback \/ WindowPasses
  BY <1>1 DEF Callback, OnOpen, OnClose, OnCong, OnData, WindowPasses
<1>2. CASE Plan
  BY <1>2 DEF Plan, DeliveryPlan
<1>3. CASE PopBatch \/ RingDrained \/ PumpOne \/ BatchFed
  BY <1>3 DEF PopBatch, RingDrained, PumpOne, BatchFed
<1>4. CASE Deliver \/ WriteBusy \/ Park \/ DropTx \/ PostDelivery
  BY <1>4 DEF Deliver, WriteBusy, Park, DropTx, PostDelivery
<1>5. CASE PlanRetry \/ ExpirePending \/ Rewrite \/ Reclear \/ IdleCheck
  BY <1>5 DEF PlanRetry, ExpirePending, ClearPending, Rewrite, Reclear, IdleCheck
<1>6. CASE UNCHANGED sppVars
  BY <1>6 DEF sppVars
<1>7. QED
  BY <1>1, <1>2, <1>3, <1>4, <1>5, <1>6 DEF SppNext, Loop

-----------------------------------------------------------------------------
(* The hosts *)

\* Steps that leave the commands and what is delivered alone, or empty a
\* stage.
LEMMA HostsRest ==
    ASSUME SppTypes, HostsWait,
           UNCHANGED <<cmds, written>>, conns' \in conns..MaxConns,
           pending' \in {pending, <<>>}, tx' \in {tx, <<>>},
           pc' = "rewrite" /\ pending' # <<>> => pc = "rewrite" \/ cmds[pending[1]].age < 2
    PROVE  HostsWait'
<1> USE StageTypes, NothingHeld DEF HostsWait, OneAtATime
<1>1. /\ \A i \in DOMAIN pending' : i \in DOMAIN pending /\ pending'[i] = pending[i]
      /\ \A i \in DOMAIN tx' : i \in DOMAIN tx /\ tx'[i] = tx[i]
  OBVIOUS
<1>2. conns \in Nat /\ MaxConns \in Nat
  BY BoundsAreNat DEF SppTypes
<1>3. \A c \in DOMAIN cmds : cmds[c].conn \in 1..conns'
  BY <1>2
<1>4. pc' = "rewrite" /\ pending' # <<>> => cmds[pending'[1]].age < 2
  OBVIOUS
<1>5. /\ \A i \in DOMAIN tx' : cmds[tx'[i]].age < 2 /\ cmds[tx'[i]].conn >= i
      /\ \A i, j \in DOMAIN tx' : i < j => cmds[tx'[i]].conn < cmds[tx'[j]].conn
      /\ \A i, j \in DOMAIN pending' : i < j => cmds[pending'[i]].conn < cmds[pending'[j]].conn
  BY <1>1
<1>6. conns' <= MaxConns
  BY <1>2
<1>7. QED
  BY <1>3, <1>4, <1>5, <1>6

\* A host that sends a command waits for none.
LEMMA OnDataHosts == SppTypes /\ StagesInv /\ HostsWait /\ OnData => HostsWait'
<1> SUFFICES ASSUME SppTypes, StagesInv, HostsWait, OnData PROVE HostsWait'
  OBVIOUS
<1>1. /\ UNCHANGED <<conns, handle, pending, tx, written, pc>> /\ handle # 0
      /\ \A c \in DOMAIN cmds : ~HostWaitsFor(c)
  BY DEF OnData, linkVars, pumpVars
<1>2. /\ DOMAIN cmds = 1..Len(cmds) /\ DOMAIN cmds' = 1..(Len(cmds) + 1) /\ Len(cmds) \in Nat
      /\ \A c \in 1..Len(cmds) : cmds'[c] = cmds[c]
      /\ cmds'[Len(cmds) + 1].conn = conns /\ conns \in Nat /\ conns >= 1
  <2>1. cmds' \in Seq(Commands)
    BY TypesHold DEF SppNext, Callback, SppTypes
  <2>2. QED
    BY <1>1, <2>1, OnDataFacts, StageTypes DEF SppTypes
<1>3. \A d \in DOMAIN cmds' : \/ d \in DOMAIN cmds /\ cmds'[d] = cmds[d]
                              \/ d = Len(cmds) + 1 /\ cmds'[d].conn = conns
  BY <1>2
<1>4. \A c \in DOMAIN cmds : /\ cmds[c].conn \in 1..conns /\ cmds[c].age \in 0..2
                             /\ c \in DOMAIN cmds' /\ cmds'[c] = cmds[c]
  BY <1>2, CommandAt DEF HostsWait, Commands
<1>5. \A c \in DOMAIN cmds : cmds[c].conn = conns =>
          cmds[c].age = 2 \/ \E k \in DOMAIN written : written[k][1] = c
  <2>1. TAKE c \in DOMAIN cmds
  <2>2. handle = conns
    BY <1>1 DEF SppTypes
  <2>3. ASSUME cmds[c].conn = conns, cmds[c].age # 2
        PROVE  \E k \in DOMAIN written : written[k] = <<c, handle>>
    BY <1>1, <1>4, <2>2, <2>3 DEF HostWaitsFor
  <2>4. QED
    BY <2>3
<1>6. OneAtATime'
  <2>1. SUFFICES ASSUME NEW c \in DOMAIN cmds', NEW d \in DOMAIN cmds', c < d, cmds'[c].conn = cmds'[d].conn
                 PROVE  cmds'[c].age = 2 \/ \E k \in DOMAIN written : written[k][1] = c
    BY <1>1 DEF OneAtATime
  <2>2. c \in DOMAIN cmds /\ cmds'[c] = cmds[c]
    BY <1>2, <2>1
  <2>3. CASE d \in DOMAIN cmds
    BY <1>4, <2>1, <2>2, <2>3 DEF HostsWait, OneAtATime
  <2>4. CASE d = Len(cmds) + 1
    BY <1>2, <1>5, <2>1, <2>2, <2>4
  <2>5. QED
    BY <1>3, <2>3, <2>4
<1>7. /\ \A i \in DOMAIN tx : tx[i] \in DOMAIN cmds
      /\ \A i \in DOMAIN pending : pending[i] \in DOMAIN cmds
      /\ pending # <<>> => 1 \in DOMAIN pending
  BY <1>2, StageTypes DEF StagesInv, StagesSent, Sent, SppTypes
<1>8. /\ \A c \in DOMAIN cmds' : cmds'[c].conn \in 1..conns
      /\ \A c, d \in DOMAIN cmds' : c < d => cmds'[c].conn <= cmds'[d].conn
  <2>1. \A c \in DOMAIN cmds' : cmds'[c].conn \in 1..conns
    BY <1>2, <1>3, <1>4
  <2>2. ASSUME NEW c \in DOMAIN cmds', NEW d \in DOMAIN cmds', c < d PROVE cmds'[c].conn <= cmds'[d].conn
    <3>1. c \in DOMAIN cmds
      BY <1>2, <2>2
    <3>2. CASE d \in DOMAIN cmds
      BY <1>4, <2>2, <3>1, <3>2 DEF HostsWait
    <3>3. CASE d = Len(cmds) + 1
      BY <1>2, <1>4, <3>1, <3>3
    <3>4. QED
      BY <1>3, <3>2, <3>3
  <2>3. QED
    BY <2>1, <2>2
<1>9. QED
  BY <1>1, <1>4, <1>6, <1>7, <1>8 DEF HostsWait

\* A window that passes gives a command up only when nothing carries its answer.
LEMMA WindowHosts == SppTypes /\ StagesInv /\ HostsWait /\ WindowPasses => HostsWait'
<1> SUFFICES ASSUME SppTypes, StagesInv, HostsWait, WindowPasses PROVE HostsWait'
  OBVIOUS
<1>1. UNCHANGED <<conns, pending, tx, written, pc>>
  BY DEF WindowPasses, linkVars, pumpVars
<1>2. /\ DOMAIN cmds = 1..Len(cmds) /\ DOMAIN cmds' = DOMAIN cmds
      /\ \A c \in DOMAIN cmds : /\ cmds'[c].conn = cmds[c].conn
                                /\ Delivering(c) /\ cmds[c].age < 2 => cmds'[c].age < 2
                                /\ cmds[c].age = 2 => cmds'[c].age = 2
  <2>1. cmds' \in Seq(Commands) /\ cmds \in Seq(Commands)
    BY TypesHold DEF SppNext, SppTypes
  <2>2. DOMAIN cmds = 1..Len(cmds) /\ DOMAIN cmds' = DOMAIN cmds
    BY <2>1, WindowFacts
  <2>3. PICK c \in DOMAIN cmds : cmds[c].age < 2 /\ cmds' = [cmds EXCEPT ![c].age = @ + 1]
    BY DEF WindowPasses
  <2>4. \A d \in DOMAIN cmds : d # c => cmds'[d] = cmds[d]
    BY <2>2, <2>3
  <2>5. QED
    BY <2>2, <2>3, <2>4, WindowFacts
<1>3. /\ \A i \in DOMAIN tx : tx[i] \in DOMAIN cmds /\ Delivering(tx[i])
      /\ \A i \in DOMAIN pending : pending[i] \in DOMAIN cmds
      /\ pending # <<>> => 1 \in DOMAIN pending
      /\ pc = "rewrite" => \A i \in DOMAIN pending : Delivering(pending[i])
  BY StageTypes DEF StagesInv, StagesSent, Sent, Delivering, SppTypes
<1>4. OneAtATime'
  BY <1>1, <1>2 DEF HostsWait, OneAtATime
<1>5. QED
  BY <1>1, <1>2, <1>3, <1>4 DEF HostsWait

\* The answer that goes behind the packet is of a later connection than all
\* answers in it.
LEMMA LaterConnection ==
    ASSUME SppTypes, StagesInv, HostsWait, PumpOne, NEW i \in DOMAIN tx
    PROVE  cmds[tx[i]].conn < cmds[batch[1].cmd].conn /\ cmds[tx[i]].conn >= i
<1>1. pc = "pump" /\ 1 \in DOMAIN batch
  BY PumpFacts, StageTypes DEF PumpOne
<1> DEFINE c == tx[i]
           d == batch[1].cmd
<1>2. c \in DOMAIN cmds /\ d \in DOMAIN cmds /\ c < d
  BY <1>1, StageTypes DEF StagesInv, StagesSent, StagesFollow, Sent
<1>3. cmds[c].age < 2 /\ cmds[c].conn >= i /\ \A k \in DOMAIN written : written[k][1] < c
  BY <1>1 DEF HostsWait, StagesInv, StagesFollow
<1>4. cmds[c].conn \in Nat /\ cmds[d].conn \in Nat /\ cmds[c].age \in 0..2 /\ c \in Nat
  BY <1>2, CommandAt, StageTypes DEF Commands
<1> HIDE DEF c, d
<1>5. cmds[c].conn # cmds[d].conn
  <2>1. cmds[c].age # 2 /\ ~\E k \in DOMAIN written : written[k][1] = c
    BY <1>3, <1>4, StageTypes
  <2>2. OneAtATime
    BY DEF HostsWait
  <2>3. QED
    BY <1>2, <2>1, <2>2 DEF OneAtATime
<1>6. cmds[c].conn <= cmds[d].conn
  BY <1>2 DEF HostsWait
<1>7. QED
  BY <1>3, <1>4, <1>5, <1>6 DEF c, d

\* The response that joins the packet is of a later connection.
LEMMA PumpHosts == SppTypes /\ StagesInv /\ HostsWait /\ PumpOne => HostsWait'
<1> SUFFICES ASSUME SppTypes, StagesInv, HostsWait, PumpOne PROVE HostsWait'
  OBVIOUS
<1>1. UNCHANGED <<cmds, conns, pending, written, pc>> /\ pc = "pump"
  BY DEF PumpOne, hostVars, linkVars
<1>2. CASE tx' = tx
  BY <1>1, <1>2 DEF HostsWait, OneAtATime
<1>3. CASE /\ ~Past(batch[1].cmd) /\ DOMAIN tx' = 1..(Len(tx) + 1)
           /\ \A i \in 1..Len(tx) : tx'[i] = tx[i]
           /\ tx'[Len(tx) + 1] = batch[1].cmd
  <2> DEFINE d == batch[1].cmd
  <2>1. d \in DOMAIN cmds
    BY PumpFacts, StageTypes DEF StagesInv, StagesSent, Sent
  <2>2. cmds[d].age \in 0..2 /\ cmds[d].age < 1 /\ cmds[d].conn \in 1..conns
    BY <1>3, <2>1, CommandAt DEF HostsWait, Commands, Past
  <2>3. \A i \in DOMAIN tx : cmds[tx[i]].conn < cmds[d].conn /\ cmds[tx[i]].conn >= i /\ cmds[tx[i]].conn \in Nat
    <3>1. \A i \in DOMAIN tx : tx[i] \in DOMAIN cmds
      BY StageTypes DEF StagesInv, StagesSent, Sent
    <3>2. QED
      BY <3>1, LaterConnection, CommandAt DEF Commands
  <2> HIDE DEF d
  <2>4. \A i \in DOMAIN tx' : \/ i \in DOMAIN tx /\ tx'[i] = tx[i]
                              \/ i = Len(tx) + 1 /\ tx'[i] = d
    BY <1>3, StageTypes DEF d
  <2>5. Len(tx) \in Nat /\ DOMAIN tx = 1..Len(tx) /\ conns \in Nat
    BY StageTypes DEF SppTypes
  <2>6. cmds[d].conn >= Len(tx) + 1
    <3>1. CASE Len(tx) = 0
      BY <2>2, <2>5, <3>1
    <3>2. CASE Len(tx) # 0
      <4>1. Len(tx) \in DOMAIN tx
        BY <2>5, <3>2
      <4>2. QED
        BY <2>2, <2>3, <2>5, <4>1
    <3>3. QED
      BY <3>1, <3>2
  <2>7. \A i \in DOMAIN tx' : cmds[tx'[i]].age < 2 /\ cmds[tx'[i]].conn >= i
    BY <2>2, <2>4, <2>6 DEF HostsWait
  <2>8. \A i, j \in DOMAIN tx' : i < j => cmds[tx'[i]].conn < cmds[tx'[j]].conn
    BY <2>3, <2>4, <2>5 DEF HostsWait
  <2>9. QED
    BY <1>1, <2>7, <2>8 DEF HostsWait, OneAtATime
<1>4. QED
  BY <1>2, <1>3, PumpFacts

\* What is written stays written.
LEMMA WrittenHosts ==
    ASSUME SppTypes, HostsWait, NEW packet \in Seq(Nat), Accepted(packet),
           UNCHANGED <<cmds, conns, tx, pending>>, pc' # "rewrite"
    PROVE  HostsWait'
<1>1. \A k \in DOMAIN written : k \in DOMAIN written' /\ written'[k] = written[k]
  BY AcceptedFacts, StageTypes, LenProperties
<1>2. OneAtATime'
  BY <1>1 DEF HostsWait, OneAtATime
<1>3. QED
  BY <1>2 DEF HostsWait

\* Parking keeps the responses as they were.
LEMMA ParkHosts == SppTypes /\ HostsWait /\ Park => HostsWait'
<1> SUFFICES ASSUME SppTypes, HostsWait, Park PROVE HostsWait'
  OBVIOUS
<1>1. UNCHANGED <<cmds, conns, written>> /\ pending' = tx /\ tx' = <<>> /\ pc' = "retry"
  BY DEF Park, hostVars
<1>2. QED
  BY <1>1, NothingHeld DEF HostsWait, OneAtATime

\* Every step keeps what is said of the hosts.
LEMMA HostsHold == SppTypes /\ StagesInv /\ HostsWait /\ [SppNext]_sppVars => HostsWait'
<1> SUFFICES ASSUME SppTypes, StagesInv, HostsWait, [SppNext]_sppVars PROVE HostsWait'
  OBVIOUS
<1>0. conns \in conns..MaxConns /\ conns \in Nat /\ tx \in Seq(Nat) /\ pending \in Seq(Nat)
  BY BoundsAreNat DEF HostsWait, SppTypes
<1> USE DEF hostVars, linkVars, ringVars, pumpVars
<1>1. CASE OnOpen
  <2>1. conns' \in conns..MaxConns
    BY <1>0, <1>1, BoundsAreNat DEF OnOpen
  <2>2. QED
    BY <1>1, <2>1, HostsRest DEF OnOpen
<1>2. CASE OnClose \/ OnCong
  BY <1>0, <1>2, HostsRest DEF OnClose, OnCong
<1>3. CASE PopBatch \/ RingDrained \/ BatchFed \/ Plan \/ WriteBusy \/ IdleCheck
  BY <1>0, <1>3, HostsRest DEF PopBatch, RingDrained, BatchFed, Plan, WriteBusy, IdleCheck
<1>4. CASE DropTx \/ PostDelivery
  BY <1>0, <1>4, HostsRest DEF DropTx, PostDelivery
<1>5. CASE ExpirePending \/ Reclear
  BY <1>0, <1>5, HostsRest DEF ExpirePending, Reclear, ClearPending
<1>6. CASE PlanRetry
  <2>1. pc' = "rewrite" => pending # <<>> /\ cmds[pending[1]].age < 2
    <3>1. ASSUME pc' = "rewrite" PROVE pending # <<>> /\ ~Past(pending[1])
      BY <1>6, <3>1 DEF PlanRetry
    <3>2. ASSUME pending # <<>> PROVE pending[1] \in DOMAIN cmds
      <4>1. 1 \in DOMAIN pending
        BY <3>2, <1>0, EmptySeq, LenProperties
      <4>2. QED
        BY <4>1, StageTypes DEF StagesInv, StagesSent, Sent
    <3>3. ASSUME pc' = "rewrite" PROVE cmds[pending[1]].age \in 0..2
      BY <3>1, <3>2, <3>3, CommandAt DEF Commands
    <3>4. QED
      BY <3>1, <3>3 DEF Past
  <2>2. QED
    BY <1>0, <1>6, <2>1, HostsRest DEF PlanRetry
<1>7. CASE Deliver
  BY <1>0, <1>7, WrittenHosts DEF Deliver
<1>8. CASE Rewrite
  <2>1. CASE pc' = "reclear" /\ Accepted(pending)
    BY <1>0, <1>8, <2>1, WrittenHosts DEF Rewrite
  <2>2. CASE pc' = "idle" /\ UNCHANGED written
    BY <1>0, <1>8, <2>2, HostsRest DEF Rewrite
  <2>3. QED
    BY <1>8, <2>1, <2>2 DEF Rewrite
<1>9. CASE UNCHANGED sppVars
  BY <1>0, <1>9, HostsRest DEF sppVars
<1>10. QED
  BY <1>1, <1>2, <1>3, <1>4, <1>5, <1>6, <1>7, <1>8, <1>9, OnDataHosts, WindowHosts, PumpHosts, ParkHosts
     DEF SppNext, Callback, Loop

-----------------------------------------------------------------------------
(* The request for a snapshot *)

\* Steps that keep each request with its packet, and do not start a panic.
LEMMA RequestsRest ==
    ASSUME SppTypes, StagesInv, RequestsStay,
           \A c \in 1..Len(cmds) : cmds'[c].class = cmds[c].class,
           written' = written,
           \/ tx' = tx /\ (latched' => latched)
           \/ tx' = <<>> /\ ~latched',
           \/ pending' = pending /\ (pending_snapshot' => pending_snapshot)
           \/ pending' = <<>> /\ ~pending_snapshot',
           pc' \in {"post", "reclear", "down"} => pc' = pc
    PROVE  RequestsStay'
<1> USE StageTypes, NothingHeld DEF RequestsStay, IsSnapshot, StagesInv, StagesSent, Sent
<1>1. latched' => \E i \in DOMAIN tx' : cmds'[tx'[i]].class = "Snapshot"
  OBVIOUS
<1>2. pending_snapshot' => \E i \in DOMAIN pending' : cmds'[pending'[i]].class = "Snapshot"
  OBVIOUS
<1>3. SnapshotAcked => SnapshotAcked'
  BY DEF SnapshotAcked
<1>4. PanicAfterAck'
  BY <1>3 DEF PanicAfterAck
<1>5. (pc' = "post" => \A i \in DOMAIN tx' : \E j \in DOMAIN written' : written'[j][1] = tx'[i])
  BY ZenonT(40)
<1>6. (pc' = "reclear" => \A i \in DOMAIN pending' : \E j \in DOMAIN written' : written'[j][1] = pending'[i])
  <2> SUFFICES ASSUME pc' = "reclear", NEW i \in DOMAIN pending'
               PROVE  \E j \in DOMAIN written' : written'[j][1] = pending'[i]
    OBVIOUS
  <2>1. pc = "reclear"
    OBVIOUS
  <2>2. pending' # <<>>
    OBVIOUS
  <2>3. pending' = pending
    BY <2>2
  <2>4. \E j \in DOMAIN written : written[j][1] = pending[i]
    BY <2>1, <2>3
  <2>5. QED
    BY <2>3, <2>4
<1>7. QED
  BY <1>1, <1>2, <1>4, <1>5, <1>6

\* The packet always has room for one answer more when there are no more
\* connections than it holds responses.
LEMMA PacketHasRoom ==
    ASSUME SppInv, MaxConns <= TxCap, PumpOne
    PROVE  Len(tx) < TxCap
<1> USE DEF SppInv
<1>1. Len(tx) \in Nat /\ DOMAIN tx = 1..Len(tx) /\ conns \in Nat /\ TxCap \in Nat \ {0} /\ MaxConns \in Nat
      /\ conns <= MaxConns
  BY StageTypes, SppAssumption DEF SppTypes, HostsWait
<1>2. SUFFICES ASSUME Len(tx) >= TxCap PROVE FALSE
  BY <1>1
<1>3. Len(tx) \in DOMAIN tx
  BY <1>1, <1>2
<1>4. /\ cmds[tx[Len(tx)]].conn < cmds[batch[1].cmd].conn
      /\ cmds[tx[Len(tx)]].conn >= Len(tx)
  BY <1>3, LaterConnection
<1>5. batch[1].cmd \in DOMAIN cmds /\ tx[Len(tx)] \in DOMAIN cmds
  BY <1>3, PumpFacts, StageTypes, SMTT(20) DEF StagesInv, StagesSent, Sent
<1>6. cmds[batch[1].cmd].conn \in 1..conns /\ cmds[tx[Len(tx)]].conn \in 1..conns
  BY <1>5 DEF HostsWait
<1>7. QED
  BY <1>1, <1>2, <1>4, <1>6

\* A snapshot request comes with its response, which fits the packet.
LEMMA PumpRequests == SppInv /\ RequestsStay /\ MaxConns <= TxCap /\ PumpOne => RequestsStay'
<1> SUFFICES ASSUME SppInv, RequestsStay, MaxConns <= TxCap, PumpOne PROVE RequestsStay'
  OBVIOUS
<1>1. UNCHANGED <<cmds, pending, pending_snapshot, written, pc>> /\ pc = "pump"
  BY DEF PumpOne, hostVars, linkVars
<1>2. Len(tx) < TxCap /\ Len(tx) \in Nat /\ DOMAIN tx = 1..Len(tx) /\ TxCap \in Nat
  BY PacketHasRoom, StageTypes, BoundsAreNat DEF SppInv
<1>3. latched' => \E i \in DOMAIN tx' : cmds[tx'[i]].class = "Snapshot"
  <2>1. CASE tx' = tx
    BY <1>2, <2>1, PumpFacts DEF SppInv, RequestsStay, IsSnapshot
  <2>2. CASE /\ DOMAIN tx' = 1..(Len(tx) + 1)
             /\ \A i \in 1..Len(tx) : tx'[i] = tx[i]
             /\ tx'[Len(tx) + 1] = batch[1].cmd
    <3>1. ASSUME latched PROVE \E i \in DOMAIN tx' : cmds[tx'[i]].class = "Snapshot"
      BY <1>2, <2>2, <3>1 DEF RequestsStay, IsSnapshot
    <3>2. ASSUME IsSnapshot(batch[1].cmd) PROVE \E i \in DOMAIN tx' : cmds[tx'[i]].class = "Snapshot"
      BY <1>2, <2>2, <3>2 DEF IsSnapshot
    <3>3. QED
      BY <3>1, <3>2, PumpFacts DEF SppInv
  <2>3. QED
    BY <2>1, <2>2, PumpFacts DEF SppInv
<1>4. QED
  BY <1>1, <1>3 DEF RequestsStay, IsSnapshot, PanicAfterAck

\* A packet that is accepted is written.
LEMMA PacketIsWritten ==
    ASSUME SppTypes, NEW packet \in Seq(Nat), Accepted(packet)
    PROVE  /\ \A i \in DOMAIN packet : \E j \in DOMAIN written' : written'[j][1] = packet[i]
           /\ \A k \in DOMAIN written : k \in DOMAIN written' /\ written'[k] = written[k]
<1>1. DOMAIN packet = 1..Len(packet) /\ Len(packet) \in Nat
  BY LenProperties
<1>2. \A i \in DOMAIN packet : Len(written) + i \in DOMAIN written' /\ written'[Len(written) + i][1] = packet[i]
  BY <1>1, AcceptedFacts, StageTypes, SMTT(20)
<1>3. \A k \in DOMAIN written : k \in DOMAIN written' /\ written'[k] = written[k]
  BY <1>1, AcceptedFacts, StageTypes
<1>4. QED
  BY <1>2, <1>3

\* A written packet is heard before the panic.
LEMMA DeliverRequests == SppTypes /\ RequestsStay /\ Deliver => RequestsStay'
<1> SUFFICES ASSUME SppTypes, RequestsStay, Deliver PROVE RequestsStay'
  OBVIOUS
<1>1. /\ UNCHANGED <<cmds, pending, pending_snapshot, tx, latched>> /\ pc' = "post"
      /\ Accepted(tx) /\ tx \in Seq(Nat)
  BY DEF Deliver, hostVars, linkVars, pumpVars, SppTypes
<1>2. \A i \in DOMAIN tx : \E j \in DOMAIN written' : written'[j][1] = tx[i]
  BY <1>1, PacketIsWritten
<1>3. QED
  BY <1>1, <1>2 DEF RequestsStay, IsSnapshot, PanicAfterAck

\* So is a parked one.
LEMMA RewriteRequests == SppTypes /\ StagesInv /\ RequestsStay /\ Rewrite => RequestsStay'
<1> SUFFICES ASSUME SppTypes, StagesInv, RequestsStay, Rewrite PROVE RequestsStay'
  OBVIOUS
<1>1. /\ UNCHANGED <<cmds, pending, pending_snapshot, tx, latched>> /\ pending \in Seq(Nat)
  BY DEF Rewrite, hostVars, linkVars, pumpVars, SppTypes
<1>2. CASE pc' = "reclear" /\ Accepted(pending)
  <2>1. \A i \in DOMAIN pending : \E j \in DOMAIN written' : written'[j][1] = pending[i]
    BY <1>1, <1>2, PacketIsWritten
  <2>2. QED
    BY <1>1, <1>2, <2>1 DEF RequestsStay, IsSnapshot, PanicAfterAck
<1>3. CASE pc' = "idle" /\ UNCHANGED written
  BY <1>1, <1>3, RequestsRest
<1>4. QED
  BY <1>2, <1>3 DEF Rewrite

\* The request is parked with its packet.
LEMMA ParkRequests == SppTypes /\ RequestsStay /\ Park => RequestsStay'
<1> SUFFICES ASSUME SppTypes, RequestsStay, Park PROVE RequestsStay'
  OBVIOUS
<1>1. /\ UNCHANGED <<cmds, written>> /\ pending' = tx /\ pending_snapshot' = latched
      /\ ~latched' /\ tx' = <<>> /\ pc' = "retry"
  BY DEF Park, hostVars
<1>2. QED
  BY <1>1 DEF RequestsStay, IsSnapshot, PanicAfterAck

\* The two places where the panic starts.
LEMMA PanicRequests == SppTypes /\ RequestsStay /\ (PostDelivery \/ Reclear) => RequestsStay'
<1> SUFFICES ASSUME SppTypes, RequestsStay, PostDelivery \/ Reclear PROVE RequestsStay'
  OBVIOUS
<1>1. CASE PostDelivery
  <2>1. UNCHANGED <<cmds, written, pending, pending_snapshot>> /\ tx' = <<>> /\ ~latched'
        /\ pc = "post" /\ pc' \in {"down", "retry"} /\ (pc' = "down" => latched)
    BY <1>1 DEF PostDelivery, hostVars, linkVars
  <2>2. latched => SnapshotAcked
    BY <2>1 DEF RequestsStay, IsSnapshot, SnapshotAcked
  <2>3. QED
    BY <2>1, <2>2 DEF RequestsStay, IsSnapshot, PanicAfterAck, SnapshotAcked
<1>2. CASE Reclear
  <2>1. UNCHANGED <<cmds, written, tx, latched>> /\ pending' = <<>> /\ ~pending_snapshot'
        /\ pc = "reclear" /\ pc' \in {"down", "idle"} /\ (pc' = "down" => pending_snapshot)
    BY <1>2 DEF Reclear, ClearPending, hostVars, pumpVars
  <2>2. pending_snapshot => SnapshotAcked
    BY <2>1 DEF RequestsStay, IsSnapshot, SnapshotAcked
  <2>3. QED
    BY <2>1, <2>2 DEF RequestsStay, IsSnapshot, PanicAfterAck, SnapshotAcked
<1>3. QED
  BY <1>1, <1>2

\* Every step keeps the requests with their responses.
LEMMA RequestsHold == SppInv /\ RequestsStay /\ MaxConns <= TxCap /\ [SppNext]_sppVars => RequestsStay'
<1> SUFFICES ASSUME SppInv, RequestsStay, MaxConns <= TxCap, [SppNext]_sppVars PROVE RequestsStay'
  OBVIOUS
<1>0. SppTypes /\ StagesInv
  BY DEF SppInv
<1> USE DEF hostVars, linkVars, ringVars, pumpVars
<1>1. CASE OnOpen \/ OnClose \/ OnCong
  BY <1>0, <1>1, RequestsRest DEF OnOpen, OnClose, OnCong
<1>2. CASE OnData
  BY <1>0, <1>2, OnDataFacts, RequestsRest DEF OnData
<1>3. CASE WindowPasses
  BY <1>0, <1>3, WindowFacts, RequestsRest DEF WindowPasses
<1>4. CASE PopBatch \/ RingDrained \/ BatchFed \/ Plan \/ WriteBusy \/ PlanRetry \/ IdleCheck
  BY <1>0, <1>4, RequestsRest DEF PopBatch, RingDrained, BatchFed, Plan, WriteBusy, PlanRetry, IdleCheck
<1>5. CASE DropTx
  BY <1>0, <1>5, RequestsRest DEF DropTx
<1>6. CASE ExpirePending
  BY <1>0, <1>6, RequestsRest DEF ExpirePending, ClearPending
<1>7. CASE UNCHANGED sppVars
  BY <1>0, <1>7, RequestsRest DEF sppVars
<1>8. QED
  BY <1>0, <1>1, <1>2, <1>3, <1>4, <1>5, <1>6, <1>7, PumpRequests, DeliverRequests, RewriteRequests,
     ParkRequests, PanicRequests DEF SppNext, Callback, Loop

-----------------------------------------------------------------------------
(* Theorems *)

\* The reader starts in the invariant.
LEMMA SppStarts == SppInit => SppInv /\ RequestsStay
<1> SUFFICES ASSUME SppInit PROVE SppInv /\ RequestsStay
  OBVIOUS
<1> USE NothingHeld DEF SppInit
<1>1. <<>> \in Seq(Commands) /\ <<>> \in Seq(Nat \X Nat)
  BY EmptySeq
<1>2. SppTypes
  BY <1>1 DEF SppTypes, Places
<1>3. StagesInv /\ PlanHolds
  BY DEF StagesInv, StagesRise, StagesFollow, StagesSent, DeliveredInOrder, PlanHolds
<1>4. HostsWait
  BY BoundsAreNat DEF HostsWait, OneAtATime
<1>5. RequestsStay
  BY DEF RequestsStay, PanicAfterAck
<1>6. QED
  BY <1>2, <1>3, <1>4, <1>5 DEF SppInv

\* Whatever the callback, the loop and time do in which order, every command
\* is in one stage of the pipe, the stages are in the order sent, and each
\* response of a packet belongs to a connection of its own.
THEOREM SppInductive == SppSpec => []SppInv
<1>1. SppInit => SppInv
  BY SppStarts
<1>2. SppInv /\ [SppNext]_sppVars => SppInv'
  BY TypesHold, StagesHold, PlanStillHolds, HostsHold DEF SppInv
<1>3. QED
  BY <1>1, <1>2, PTL DEF SppSpec

\* delivery_plan, park and the retry never reorder what esp_spp_write gets:
\* answers reach the wire in the order of their commands, for any ring,
\* batch and packet size and any number of connections.
THEOREM SppDeliversInOrder == SppSpec => []DeliveredInOrder
<1>1. SppInv => DeliveredInOrder
  BY DEF SppInv, StagesInv, StagesRise
<1>2. QED
  BY <1>1, SppInductive, PTL

\* pending_expired looks at the oldest response only, and that is enough: a
\* packet whose responses are of one connection holds one response.
THEOREM SppNothingLate == SppSpec => NothingWrittenLate
<1> DEFINE Within == LET new == DOMAIN written' \ DOMAIN written
                         cmd(i) == cmds[written'[i][1]]
                     IN (\A i, j \in new : cmd(i).conn = cmd(j).conn) => \A i \in new : cmd(i).age < 2
<1>1. SppInv /\ [SppNext]_sppVars => [Within]_sppVars
  <2> SUFFICES ASSUME SppInv, [SppNext]_sppVars, written' # written PROVE Within
    <3>1. written' = written => Within
      OBVIOUS
    <3>2. QED
      BY <3>1
  <2>1. Deliver \/ Rewrite
    BY DEF SppNext, Callback, Loop, sppVars, OnOpen, OnClose, OnCong, OnData, WindowPasses, PopBatch, RingDrained,
           PumpOne, BatchFed, Plan, WriteBusy, Park, DropTx, PostDelivery, PlanRetry, ExpirePending, Reclear,
           ClearPending, IdleCheck
  <2>2. SppTypes /\ tx \in Seq(Nat) /\ pending \in Seq(Nat)
    BY DEF SppInv, SppTypes
  <2>3. ASSUME NEW packet \in Seq(Nat), Accepted(packet)
        PROVE  \A i \in DOMAIN written' \ DOMAIN written :
                  \E k \in DOMAIN packet : i = Len(written) + k /\ written'[i][1] = packet[k]
    <3>1. /\ DOMAIN written' = 1..(Len(written) + Len(packet)) /\ DOMAIN written = 1..Len(written)
          /\ \A i \in 1..Len(packet) : written'[Len(written) + i] = <<packet[i], target>>
          /\ DOMAIN packet = 1..Len(packet) /\ Len(packet) \in Nat /\ Len(written) \in Nat
      BY <2>2, <2>3, AcceptedFacts, StageTypes, LenProperties
    <3>2. TAKE i \in DOMAIN written' \ DOMAIN written
    <3>3. i - Len(written) \in DOMAIN packet /\ i = Len(written) + (i - Len(written))
      BY <3>1
    <3>4. written'[i][1] = packet[i - Len(written)]
      BY <3>1, <3>3
    <3>5. QED
      BY <3>3, <3>4
  <2>4. CASE Deliver
    <3>1. Accepted(tx)
      BY <2>4 DEF Deliver
    <3>2. \A i \in DOMAIN written' \ DOMAIN written : \E k \in DOMAIN tx : written'[i][1] = tx[k]
      BY <2>2, <2>3, <3>1
    <3>3. QED
      BY <3>2 DEF SppInv, HostsWait
  <2>5. CASE Rewrite
    <3>1. Accepted(pending) /\ pc = "rewrite"
      BY <2>5 DEF Rewrite
    <3>2. \A i \in DOMAIN written' \ DOMAIN written :
             \E k \in DOMAIN pending : i = Len(written) + k /\ written'[i][1] = pending[k]
      BY <2>2, <2>3, <3>1
    <3>3. DOMAIN pending = 1..Len(pending) /\ Len(pending) \in Nat /\ Len(written) \in Nat
      BY <2>2, StageTypes
    <3>4. \A k \in DOMAIN pending : Len(written) + k \in DOMAIN written' \ DOMAIN written
                                    /\ written'[Len(written) + k][1] = pending[k]
      BY <2>2, <3>1, <3>3, AcceptedFacts, StageTypes, SMTT(20)
    <3>5. SUFFICES ASSUME NEW i \in DOMAIN written' \ DOMAIN written,
                          \A m, n \in DOMAIN written' \ DOMAIN written :
                             cmds[written'[m][1]].conn = cmds[written'[n][1]].conn
                   PROVE  cmds[written'[i][1]].age < 2
      OBVIOUS
    <3>6. PICK k \in DOMAIN pending : written'[i][1] = pending[k]
      BY <3>2
    <3>7. 1 \in DOMAIN pending /\ pending # <<>>
      BY <3>3, NothingHeld
    <3>8. cmds[pending[1]].conn = cmds[pending[k]].conn
      BY <3>4, <3>5, <3>7
    <3>9. \A c \in 1..Len(cmds) : cmds[c].conn \in Nat
      BY <2>2, CommandAt, StageTypes DEF Commands
    <3>10. pending[1] \in 1..Len(cmds) /\ pending[k] \in 1..Len(cmds)
      BY <3>7 DEF SppInv, StagesInv, StagesSent, Sent
    <3>11. k = 1
      <4>1. SUFFICES ASSUME 1 < k PROVE FALSE
        BY <3>3
      <4>2. cmds[pending[1]].conn < cmds[pending[k]].conn
        BY <3>7, <4>1 DEF SppInv, HostsWait
      <4>3. QED
        BY <3>8, <3>9, <3>10, <4>2
    <3>12. QED
      BY <3>1, <3>6, <3>7, <3>11 DEF SppInv, HostsWait
  <2>6. QED
    BY <2>1, <2>4, <2>5
<1>2. QED
  BY <1>1, SppInductive, PTL DEF SppSpec, NothingWrittenLate

\* take_snapshot_request and take_pending_snapshot: the board panics for a
\* snapshot only after the acknowledgement of one was written, as long as a
\* packet holds a response of every connection.  (A response that found the
\* packet full is dropped and its request stays: with more connections in one
\* round than responses in a packet the panic can come without one.)
THEOREM SppPanicsAfterAck ==
    ASSUME MaxConns <= TxCap
    PROVE  SppSpec => []PanicAfterAck
<1>1. SppInit => SppInv /\ RequestsStay
  BY SppStarts
<1>2. SppInv /\ RequestsStay /\ [SppNext]_sppVars => (SppInv /\ RequestsStay)'
  BY TypesHold, StagesHold, PlanStillHolds, HostsHold, RequestsHold DEF SppInv
<1>3. RequestsStay => PanicAfterAck
  BY DEF RequestsStay
<1>4. QED
  BY <1>1, <1>2, <1>3, PTL DEF SppSpec

-----------------------------------------------------------------------------
(* The NFC link: what the controller still has for the driver *)

\* The exchanges, and the frames of the controller.
Names == {"a", "b"}
Frames ==
    {Rsp(cmd, ok) : cmd \in {"none", "deactivate", "discover"}, ok \in BOOLEAN}
    \cup {Tag(kind) : kind \in {"auto", "plain"}} \cup {LinkLost} \cup {Data(of) : of \in Names}

\* Only a healthy controller with an active interface owes the driver DATA.
Chips ==
    {c \in [mode : {"idle", "seated", "discovery", "select", "activated"},
            fault : {"none", "silent", "refusing", "nak"},
            cmd : {"none", "deactivate", "discover"},
            q : Seq(Frames), used : BOOLEAN, owed : Names \cup {"none"}] :
        c.owed # "none" => c.mode = "activated" /\ c.fault = "none"}

\* DATA of exchange x is under way to the driver.
Carries(c, x) == c.owed = x \/ \E i \in DOMAIN c.q : c.q[i] = Data(x)

\* From c to e nothing is added to that.
DropsOnly(c, e) == e \in Chips /\ \A x \in Names : Carries(e, x) => Carries(c, x)

IsLink(w) == w = [d |-> w.d, c |-> w.c, n |-> w.n] /\ w.c \in Chips

\* An operation leaves a link that carries no more than before.
Leaves(w, v) == IsLink(v) /\ DropsOnly(w.c, v.c)

\* One step that only drops DATA after another.
LEMMA DropsOnlyAgain ==
    ASSUME NEW c, NEW e, NEW f, DropsOnly(c, e), DropsOnly(e, f)
    PROVE  DropsOnly(c, f)
  BY DEF DropsOnly

\* The same of operations on the link.
LEMMA LeavesAgain ==
    ASSUME NEW w, NEW v, NEW u, Leaves(w, v), Leaves(v, u)
    PROVE  Leaves(w, u)
  BY DropsOnlyAgain DEF Leaves

\* A link itself carries no more than itself.
LEMMA LeavesSelf == ASSUME NEW w, IsLink(w) PROVE Leaves(w, w)
  BY DEF Leaves, DropsOnly, IsLink

\* Whatever is done to the fields of the driver and the count of failures.
LEMMA DriverOnly ==
    ASSUME NEW w, IsLink(w), NEW v, v = [d |-> v.d, c |-> w.c, n |-> v.n]
    PROVE  Leaves(w, v)
<1>1. v.c = w.c
  OBVIOUS
<1>2. QED
  BY <1>1 DEF Leaves, DropsOnly, IsLink

\* What the frames are, and which of them are DATA.
LEMMA FramesKinds ==
    /\ \A cmd \in {"none", "deactivate", "discover"}, ok \in BOOLEAN :
         Rsp(cmd, ok) \in Frames /\ \A x \in Names : Rsp(cmd, ok) # Data(x)
    /\ \A kind \in {"auto", "plain"} : Tag(kind) \in Frames /\ \A x \in Names : Tag(kind) # Data(x)
    /\ LinkLost \in Frames /\ \A x \in Names : LinkLost # Data(x)
    /\ \A x \in Names : Data(x) \in Frames /\ Data(x).f = "data" /\ Data(x).of = x
    /\ \A f \in Frames : f.f = "data" => f.of \in Names /\ f = Data(f.of)
<1>1. \A cmd \in {"none", "deactivate", "discover"}, ok \in BOOLEAN : Rsp(cmd, ok).f = "rsp"
  BY DEF Rsp
<1>2. \A kind \in {"auto", "plain"} : Tag(kind).f = "tag"
  BY DEF Tag
<1>3. LinkLost.f = "lost"
  BY DEF LinkLost
<1>4. \A x \in Names : Data(x).f = "data" /\ Data(x).of = x
  BY DEF Data
<1>5. \A f \in Frames : f.f = "data" => f.of \in Names /\ f = Data(f.of)
  BY <1>1, <1>2, <1>3, <1>4 DEF Frames
<1>6. QED
  BY <1>1, <1>2, <1>3, <1>4, <1>5 DEF Frames

\* The end of a queue.
LEMMA Slice ==
    ASSUME NEW q, NEW n \in Nat, NEW i \in 0..n
    PROVE  SubSeq(q, i + 1, n) = [k \in 1..(n - i) |-> q[i + k]]
<1>1. SubSeq(q, i + 1, n) = [k \in 1..(1 + n - (i + 1)) |-> q[i + 1 + k - 1]]
  OBVIOUS
<1>2. 1 + n - (i + 1) = n - i /\ \A k \in 1..(n - i) : i + 1 + k - 1 = i + k
  OBVIOUS
<1>3. QED
  BY <1>1, <1>2

\* A queue that is emptied, loses its first frames or gains one without DATA.
LEMMA QueueDrops ==
    ASSUME NEW c \in Chips, NEW e \in Chips, e.owed = c.owed \/ e.owed = "none",
           \/ e.q = c.q \/ e.q = <<>>
           \/ \E f \in Frames : e.q = Append(c.q, f) /\ \A x \in Names : f # Data(x)
           \/ \E i \in 0..Len(c.q) : e.q = SubSeq(c.q, i + 1, Len(c.q))
    PROVE  DropsOnly(c, e)
<1>1. SUFFICES ASSUME NEW x \in Names, NEW j \in DOMAIN e.q, e.q[j] = Data(x)
               PROVE  \E i \in DOMAIN c.q : c.q[i] = Data(x)
  BY DEF DropsOnly, Carries, Names
<1>2. c.q \in Seq(Frames)
  BY DEF Chips
<1>3. CASE e.q = c.q
  BY <1>1, <1>3
<1>4. CASE e.q = <<>>
  BY <1>1, <1>4
<1>5. ASSUME NEW f \in Frames, e.q = Append(c.q, f), \A y \in Names : f # Data(y)
      PROVE  \E i \in DOMAIN c.q : c.q[i] = Data(x)
  <2>1. DOMAIN e.q = 1..(Len(c.q) + 1) /\ \A k \in 1..Len(c.q) : e.q[k] = c.q[k]
    BY <1>2, <1>5
  <2>2. e.q[Len(c.q) + 1] = f /\ Len(c.q) \in Nat
    BY <1>2, <1>5
  <2>3. j \in 1..Len(c.q)
    BY <1>1, <1>5, <2>1, <2>2
  <2>4. QED
    BY <1>1, <1>2, <2>1, <2>3
<1>6. ASSUME NEW i \in 0..Len(c.q), e.q = SubSeq(c.q, i + 1, Len(c.q))
      PROVE  \E k \in DOMAIN c.q : c.q[k] = Data(x)
  <2>1. /\ DOMAIN e.q = 1..(Len(c.q) - i)
        /\ \A k \in 1..(Len(c.q) - i) : e.q[k] = c.q[i + k] /\ i + k \in DOMAIN c.q
    <3>1. PICK n \in Nat : n = Len(c.q) /\ DOMAIN c.q = 1..n
      BY <1>2
    <3>2. e.q = [k \in 1..(n - i) |-> c.q[i + k]]
      <4>1. i \in 0..n /\ e.q = SubSeq(c.q, i + 1, n)
        BY <1>6, <3>1
      <4>2. SubSeq(c.q, i + 1, n) = [k \in 1..(n - i) |-> c.q[i + k]]
        BY <4>1, Slice
      <4>3. QED
        BY <4>1, <4>2
    <3>3. \A k \in 1..(n - i) : i + k \in 1..n
      BY <3>1
    <3>4. QED
      BY <3>1, <3>2, <3>3
  <2>2. QED
    BY <1>1, <2>1
<1>7. QED
  BY <1>3, <1>4, <1>5, <1>6

-----------------------------------------------------------------------------
(* The controller and the operations of lib.rs only drop DATA *)

Cmds == {"none", "deactivate", "discover"}

\* A command ends what an active interface owes.
LEMMA ExecuteDrops ==
    ASSUME NEW c \in Chips, NEW cmd \in Cmds, NEW e \in Execute(c, cmd)
    PROVE  /\ DropsOnly(c, e) /\ e.fault = c.fault
           /\ cmd = "deactivate" \/ c.owed = "none" => e.owed = "none"
<1>1. /\ c.q \in Seq(Frames) /\ \A ok \in BOOLEAN : Rsp(cmd, ok) \in Frames /\ \A x \in Names : Rsp(cmd, ok) # Data(x)
      /\ \A ok \in BOOLEAN : Append(c.q, Rsp(cmd, ok)) \in Seq(Frames)
  BY FramesKinds DEF Chips, Cmds
<1>2. c.mode \in {"idle", "seated"} => c.mode # "activated"
  OBVIOUS
<1>3. CASE c.fault = "refusing" /\ cmd # "none"
  <2>1. e = [c EXCEPT !.cmd = "none", !.q = IF cmd = "deactivate" THEN Append(@, Rsp(cmd, FALSE)) ELSE @]
    BY <1>3 DEF Execute
  <2>2. e \in Chips /\ e.owed = c.owed /\ e.fault = c.fault /\ c.owed = "none"
    BY <1>1, <1>3, <2>1 DEF Chips
  <2>3. e.q = c.q \/ e.q = Append(c.q, Rsp(cmd, FALSE))
    BY <2>1 DEF Chips
  <2>4. QED
    BY <1>1, <2>2, <2>3, QueueDrops
<1>4. CASE c.fault # "refusing" /\ cmd = "deactivate" /\ c.mode \in {"idle", "seated"}
  <2>1. PICK ok \in BOOLEAN : e = [c EXCEPT !.cmd = "none", !.q = Append(@, Rsp(cmd, ok))]
    BY <1>4 DEF Execute
  <2>2. e \in Chips /\ e.owed = c.owed /\ e.fault = c.fault /\ c.owed = "none"
    BY <1>1, <1>2, <1>4, <2>1 DEF Chips
  <2>3. e.q = Append(c.q, Rsp(cmd, ok))
    BY <2>1 DEF Chips
  <2>4. QED
    BY <1>1, <2>2, <2>3, QueueDrops
<1>5. CASE c.fault # "refusing" /\ cmd = "deactivate" /\ c.mode \notin {"idle", "seated"}
  <2>1. PICK m \in AfterTeardown(c) :
           e = [c EXCEPT !.cmd = "none", !.mode = m, !.used = FALSE, !.owed = "none",
                         !.q = Append(@, Rsp(cmd, TRUE))]
    BY <1>5 DEF Execute
  <2>2. m \in {"discovery", "seated"}
    BY DEF AfterTeardown
  <2>3. e \in Chips /\ e.owed = "none" /\ e.fault = c.fault
    BY <1>1, <2>1, <2>2 DEF Chips
  <2>4. e.q = Append(c.q, Rsp(cmd, TRUE))
    BY <2>1 DEF Chips
  <2>5. QED
    BY <1>1, <2>3, <2>4, QueueDrops
<1>6. CASE c.fault # "refusing" /\ cmd = "discover"
  <2>1. PICK ok \in BOOLEAN :
           e = [c EXCEPT !.cmd = "none", !.mode = IF @ \in {"idle", "seated"} THEN "discovery" ELSE @,
                         !.q = Append(@, Rsp(cmd, ok))]
    <3>1. e = [c EXCEPT !.cmd = "none", !.mode = IF @ \in {"idle", "seated"} THEN "discovery" ELSE @,
                        !.q = Append(@, Rsp(cmd, c.mode \in {"idle", "seated"}))]
      BY <1>6 DEF Execute
    <3>2. PICK ok : ok = (c.mode \in {"idle", "seated"})
      OBVIOUS
    <3>3. ok \in BOOLEAN
      BY <3>2
    <3>4. QED
      BY <3>1, <3>2, <3>3, Zenon
  <2>2. e \in Chips /\ e.owed = c.owed /\ e.fault = c.fault
    BY <1>1, <2>1 DEF Chips
  <2>3. e.q = Append(c.q, Rsp(cmd, ok))
    BY <2>1 DEF Chips
  <2>4. QED
    BY <1>1, <1>6, <2>2, <2>3, QueueDrops
<1>7. CASE cmd = "none"
  <2>1. e = c
    BY <1>7 DEF Execute
  <2>2. QED
    BY <1>7, <2>1, QueueDrops
<1>8. QED
  BY <1>3, <1>4, <1>5, <1>6, <1>7 DEF Cmds

\* Only the field of the pending command, or the queue, changes.
LEMMA FieldsDrop ==
    ASSUME NEW c \in Chips
    PROVE  /\ \A cmd \in Cmds : DropsOnly(c, [c EXCEPT !.cmd = cmd])
           /\ DropsOnly(c, [c EXCEPT !.q = <<>>])
           /\ DropsOnly(c, [c EXCEPT !.owed = "none"])
           /\ \A i \in 0..Len(c.q) : DropsOnly(c, [c EXCEPT !.q = SubSeq(@, i + 1, Len(@))])
<1>1. c.q \in Seq(Frames) /\ <<>> \in Seq(Frames)
  BY EmptySeq DEF Chips
<1>2. ASSUME NEW cmd \in Cmds PROVE DropsOnly(c, [c EXCEPT !.cmd = cmd])
  BY QueueDrops DEF Chips, Cmds
<1>3. DropsOnly(c, [c EXCEPT !.q = <<>>])
  <2>1. PICK e : e = [c EXCEPT !.q = <<>>]
    OBVIOUS
  <2>2. e \in Chips /\ e.owed = c.owed /\ e.q = <<>>
    BY <1>1, <2>1 DEF Chips
  <2>3. QED
    BY <2>1, <2>2, QueueDrops
<1>4. DropsOnly(c, [c EXCEPT !.owed = "none"])
  BY QueueDrops DEF Chips
<1>5. ASSUME NEW i \in 0..Len(c.q) PROVE DropsOnly(c, [c EXCEPT !.q = SubSeq(@, i + 1, Len(@))])
  <2>1. SubSeq(c.q, i + 1, Len(c.q)) \in Seq(Frames)
    <3>1. PICK n \in Nat : n = Len(c.q)
      BY <1>1
    <3>2. \A k \in (i + 1)..n : c.q[k] \in Frames
      BY <1>1, <3>1
    <3>3. QED
      BY <1>1, <3>1, <3>2, SubSeqProperties
  <2>2. PICK e : e = [c EXCEPT !.q = SubSeq(@, i + 1, Len(@))]
    OBVIOUS
  <2>3. e \in Chips /\ e.owed = c.owed /\ e.q = SubSeq(c.q, i + 1, Len(c.q))
    BY <2>1, <2>2 DEF Chips
  <2>4. QED
    BY <2>2, <2>3, QueueDrops
<1>6. QED
  BY <1>2, <1>3, <1>4, <1>5

\* Transport::send.
LEMMA SendDrops ==
    ASSUME NEW w, IsLink(w), NEW cmd \in Cmds, NEW s \in Send(w, cmd)
    PROVE  /\ Leaves(w, s.w) /\ s.ok \in BOOLEAN /\ s = [w |-> s.w, ok |-> s.ok]
           /\ s.w.c.fault = w.c.fault
           /\ w.c.fault \notin {"nak", "silent"} => s.ok /\ s.w.c.cmd = cmd
           /\ w.c.cmd = "deactivate" \/ w.c.owed = "none" => s.w.c.owed = "none"
<1>1. w.c \in Chips /\ w = [d |-> w.d, c |-> w.c, n |-> w.n] /\ w.c.cmd \in Cmds
  BY DEF IsLink, Chips, Cmds
<1>2. CASE w.c.fault = "nak"
  <2>1. PICK n : s = [w |-> [w EXCEPT !.n = n], ok |-> FALSE]
    BY <1>2 DEF Send
  <2>2. s.w = [d |-> w.d, c |-> w.c, n |-> n] /\ s.ok = FALSE /\ s.w.n = n /\ s.w.c = w.c /\ s.w.d = w.d
    BY <1>1, <2>1
  <2>3. w.c.owed = "none"
    BY <1>1, <1>2 DEF Chips
  <2>4. QED
    BY <1>2, <2>1, <2>2, <2>3, DriverOnly
<1>3. CASE w.c.fault # "nak"
  <2>1. PICK c \in Taken(w.c, cmd) : s = [w |-> [w EXCEPT !.n = 0, !.c = c], ok |-> TRUE]
    BY <1>3 DEF Send
  <2>2. s.w = [d |-> w.d, c |-> c, n |-> 0] /\ s.ok = TRUE /\ s.w.n = 0 /\ s.w.c = c /\ s.w.d = w.d
    BY <1>1, <2>1
  <2>3. /\ DropsOnly(w.c, c) /\ c.fault = w.c.fault /\ (w.c.cmd = "deactivate" \/ w.c.owed = "none" => c.owed = "none")
        /\ w.c.fault # "silent" => c.cmd = cmd
    <3>1. CASE w.c.fault = "silent"
      <4>1. c = [w.c EXCEPT !.cmd = "none"] /\ w.c.owed = "none"
        BY <1>1, <3>1 DEF Taken, Chips
      <4>2. QED
        BY <1>1, <3>1, <4>1, FieldsDrop DEF Cmds, Chips
    <3>2. CASE w.c.fault # "silent"
      <4>1. PICK e \in Execute(w.c, w.c.cmd) : c = [e EXCEPT !.cmd = cmd]
        BY <3>2 DEF Taken
      <4>2. DropsOnly(w.c, e) /\ e.fault = w.c.fault /\ (w.c.cmd = "deactivate" \/ w.c.owed = "none" => e.owed = "none")
        BY <1>1, ExecuteDrops
      <4>3. DropsOnly(e, c) /\ c.fault = e.fault /\ c.owed = e.owed /\ c.cmd = cmd
        BY <4>1, <4>2, FieldsDrop, ZenonT(40) DEF DropsOnly, Chips
      <4>4. QED
        BY <4>2, <4>3, DropsOnlyAgain
    <3>3. QED
      BY <3>1, <3>2
  <2>4. QED
    BY <2>1, <2>2, <2>3 DEF Leaves, IsLink, DropsOnly
<1>4. QED
  BY <1>2, <1>3

\* A queue whose first frame is read.
LEMMA TailDrops ==
    ASSUME NEW c \in Chips, NEW e \in Chips, e.owed = c.owed, c.q # <<>>, e.q = Tail(c.q)
    PROVE  DropsOnly(c, e)
<1>1. PICK n \in Nat : n = Len(c.q) /\ n # 0 /\ c.q \in Seq(Frames)
  BY DEF Chips
<1>2. Tail(c.q) = SubSeq(c.q, 1 + 1, n) /\ 1 \in 0..n
  BY <1>1
<1>3. QED
  BY <1>1, <1>2, QueueDrops

\* wait_for_event.
LEMMA WaitDrops ==
    ASSUME NEW w, IsLink(w)
    PROVE  /\ Leaves(w, WaitForEvent(w).w)
           /\ WaitForEvent(w) = [w |-> WaitForEvent(w).w, ev |-> WaitForEvent(w).ev]
<1>1. w.c \in Chips /\ w = [d |-> w.d, c |-> w.c, n |-> w.n] /\ w.c.q \in Seq(Frames)
  BY DEF IsLink, Chips
<1>2. CASE Events(w.c.q) = {}
  <2>1. PICK c : c = [w.c EXCEPT !.q = <<>>]
    OBVIOUS
  <2>2. WaitForEvent(w) = [w |-> [d |-> w.d, c |-> c, n |-> w.n], ev |-> [f |-> "none"]]
    BY <1>1, <1>2, <2>1 DEF WaitForEvent
  <2>3. DropsOnly(w.c, c)
    BY <1>1, <2>1, FieldsDrop
  <2>4. QED
    BY <2>2, <2>3 DEF Leaves, IsLink, DropsOnly
<1>3. CASE Events(w.c.q) # {}
  <2>1. PICK i : i = CHOOSE j \in Events(w.c.q) : \A k \in Events(w.c.q) : j <= k
    OBVIOUS
  <2>2. \E j \in Events(w.c.q) : \A k \in Events(w.c.q) : j <= k
    <3>1. Events(w.c.q) \subseteq Nat
      BY <1>1 DEF Events
    <3>2. PICK j \in Events(w.c.q) : \A k \in Events(w.c.q) : <<k, j>> \notin OpToRel(<, Nat)
      BY <1>3, <3>1, NatLessThanWellFounded, WFMin
    <3>3. \A k \in Events(w.c.q) : k < j => <<k, j>> \in OpToRel(<, Nat)
      BY <3>1 DEF OpToRel
    <3>4. \A k \in Events(w.c.q) : ~(k < j)
      BY <3>2, <3>3
    <3>5. QED
      BY <3>1, <3>4
  <2>3. i \in Events(w.c.q)
    BY <2>1, <2>2
  <2>4. i \in 0..Len(w.c.q)
    BY <1>1, <2>3 DEF Events
  <2>5. PICK c : c = [w.c EXCEPT !.q = SubSeq(@, i + 1, Len(@))]
    OBVIOUS
  <2>6. WaitForEvent(w) = [w |-> [d |-> w.d, c |-> c, n |-> w.n], ev |-> w.c.q[i]]
    BY <1>1, <1>3, <2>1, <2>5 DEF WaitForEvent
  <2>7. DropsOnly(w.c, c)
    BY <1>1, <2>4, <2>5, FieldsDrop
  <2>8. QED
    BY <2>6, <2>7 DEF Leaves, IsLink, DropsOnly
<1>4. QED
  BY <1>2, <1>3

\* poll_frame.
LEMMA PollDrops ==
    ASSUME NEW w, IsLink(w)
    PROVE  /\ Leaves(w, PollFrame(w).w)
           /\ PollFrame(w) = [w |-> PollFrame(w).w, f |-> PollFrame(w).f]
           /\ PollFrame(w).f.f = "data" =>
                PollFrame(w).f.of \in Names /\ Carries(w.c, PollFrame(w).f.of)
<1>1. w.c \in Chips /\ w = [d |-> w.d, c |-> w.c, n |-> w.n] /\ w.c.q \in Seq(Frames)
  BY DEF IsLink, Chips
<1>2. CASE w.c.q = <<>>
  <2>1. PollFrame(w) = [w |-> w, f |-> [f |-> "none"]]
    BY <1>2 DEF PollFrame
  <2>2. QED
    BY <2>1, LeavesSelf
<1>3. CASE w.c.q # <<>>
  <2>1. PICK c : c = [w.c EXCEPT !.q = Tail(@)]
    OBVIOUS
  <2>2. PollFrame(w) = [w |-> [d |-> w.d, c |-> c, n |-> w.n], f |-> Head(w.c.q)]
    BY <1>1, <1>3, <2>1 DEF PollFrame
  <2>3. c \in Chips /\ c.owed = w.c.owed /\ c.q = Tail(w.c.q)
    <3>1. Tail(w.c.q) \in Seq(Frames)
      BY <1>1, <1>3
    <3>2. QED
      BY <1>1, <2>1, <3>1 DEF Chips
  <2>4. DropsOnly(w.c, c)
    BY <1>1, <1>3, <2>3, TailDrops
  <2>5. 1 \in DOMAIN w.c.q /\ w.c.q[1] = Head(w.c.q) /\ Head(w.c.q) \in Frames
    BY <1>1, <1>3
  <2>6. PollFrame(w).f = Head(w.c.q)
    BY <2>2
  <2>7. Head(w.c.q).f = "data" => Head(w.c.q).of \in Names /\ Carries(w.c, Head(w.c.q).of)
    BY <2>5, FramesKinds DEF Carries
  <2>8. Leaves(w, PollFrame(w).w)
    BY <2>2, <2>4 DEF Leaves, IsLink, DropsOnly
  <2>9. QED
    BY <2>2, <2>6, <2>7, <2>8
<1>4. QED
  BY <1>2, <1>3

\* transact_strict; a deactivation of a healthy controller either was executed
\* or is the command it executes next.
LEMMA TransactDrops ==
    ASSUME NEW w, IsLink(w), NEW cmd \in Cmds \ {"none"}, NEW r \in TransactStrict(w, cmd)
    PROVE  /\ Leaves(w, r.w)
           /\ w.c.cmd = "deactivate" \/ w.c.owed = "none" => r.w.c.owed = "none"
           /\ cmd = "deactivate" => r.w.c.owed = "none" \/ (~r.ok /\ r.w.c.cmd = "deactivate")
<1>1. PICK s \in Send(w, cmd) :
        r \in IF ~s.ok THEN {s}
              ELSE {[w |-> [s.w EXCEPT !.c.q = <<>>], ok |-> FALSE]}
                   \cup (IF s.w.c.fault # "none" THEN {}
                         ELSE {[w |-> [s.w EXCEPT !.c = [c EXCEPT !.q = <<>>]], ok |-> c.q[Len(c.q)].ok]
                                  : c \in Execute(s.w.c, cmd)})
  BY DEF TransactStrict
<1>2. /\ Leaves(w, s.w) /\ s.w.c.fault = w.c.fault
      /\ w.c.fault \notin {"nak", "silent"} => s.ok /\ s.w.c.cmd = cmd
      /\ w.c.cmd = "deactivate" \/ w.c.owed = "none" => s.w.c.owed = "none"
  BY SendDrops
<1>3. s.w = [d |-> s.w.d, c |-> s.w.c, n |-> s.w.n] /\ s.w.c \in Chips /\ w.c \in Chips
  BY <1>2 DEF Leaves, IsLink
<1>4. s.w.c.fault # "none" => s.w.c.owed = "none"
  BY <1>3 DEF Chips
<1>5. CASE ~s.ok /\ r = s
  BY <1>2, <1>4, <1>5
<1>6. CASE r = [w |-> [s.w EXCEPT !.c.q = <<>>], ok |-> FALSE]
  <2>1. PICK c : c = [s.w.c EXCEPT !.q = <<>>]
    OBVIOUS
  <2>2. r.w = [d |-> s.w.d, c |-> c, n |-> s.w.n] /\ r.ok = FALSE
    BY <1>3, <1>6, <2>1
  <2>3. DropsOnly(s.w.c, c) /\ c.owed = s.w.c.owed /\ c.cmd = s.w.c.cmd
    BY <1>3, <2>1, FieldsDrop DEF Chips
  <2>4. Leaves(s.w, r.w)
    BY <2>2, <2>3 DEF Leaves, IsLink, DropsOnly
  <2>5. Leaves(w, r.w)
    BY <1>2, <2>4, LeavesAgain
  <2>6. r.w.c.owed = s.w.c.owed /\ r.w.c.cmd = s.w.c.cmd
    BY <2>2, <2>3
  <2>7. QED
    BY <1>2, <1>4, <2>2, <2>5, <2>6
<1>7. ASSUME NEW e \in Execute(s.w.c, cmd), r.w = [s.w EXCEPT !.c = [e EXCEPT !.q = <<>>]]
      PROVE  /\ Leaves(w, r.w)
             /\ w.c.cmd = "deactivate" \/ w.c.owed = "none" \/ cmd = "deactivate" => r.w.c.owed = "none"
  <2>1. PICK c : c = [e EXCEPT !.q = <<>>]
    OBVIOUS
  <2>2. r.w = [d |-> s.w.d, c |-> c, n |-> s.w.n]
    BY <1>3, <1>7, <2>1
  <2>3. DropsOnly(s.w.c, e) /\ (cmd = "deactivate" => e.owed = "none") /\ e \in Chips
    BY <1>3, ExecuteDrops DEF DropsOnly
  <2>4. DropsOnly(e, c) /\ c.owed = e.owed
    BY <2>1, <2>3, FieldsDrop DEF Chips
  <2>5. DropsOnly(s.w.c, c) /\ (s.w.c.owed = "none" => c.owed = "none")
    <3>1. s.w.c.owed = "none" => e.owed = "none"
      BY <1>3, <1>7, ExecuteDrops
    <3>2. QED
      BY <2>3, <2>4, <3>1, DropsOnlyAgain
  <2>6. Leaves(s.w, r.w) /\ r.w.c = c
    BY <2>2, <2>5 DEF Leaves, IsLink, DropsOnly
  <2>7. QED
    BY <1>2, <2>3, <2>4, <2>5, <2>6, LeavesAgain
<1>8. CASE s.ok /\ \E e \in Execute(s.w.c, cmd) :
              r = [w |-> [s.w EXCEPT !.c = [e EXCEPT !.q = <<>>]], ok |-> e.q[Len(e.q)].ok]
  <2>1. PICK e \in Execute(s.w.c, cmd) :
           r = [w |-> [s.w EXCEPT !.c = [e EXCEPT !.q = <<>>]], ok |-> e.q[Len(e.q)].ok]
    BY <1>8
  <2>2. r.w = [s.w EXCEPT !.c = [e EXCEPT !.q = <<>>]]
    BY <2>1, Zenon
  <2>3. QED
    BY <1>7, <2>2
<1>9. QED
  BY <1>1, <1>5, <1>6, <1>8

\* deactivate_to_discovery with its fall-back: nothing is owed any more.
LEMMA TeardownDrops ==
    ASSUME NEW w, IsLink(w), NEW v \in Teardown(w)
    PROVE  Leaves(w, v) /\ v.c.owed = "none"
<1>1. PICK r \in DeactivateToDiscovery(w) :
        v \in IF r.ok THEN {r.w} ELSE {s.w : s \in TransactStrict(r.w, "discover")}
  BY DEF Teardown
<1>2. r \in TransactStrict(w, "deactivate")
  BY <1>1 DEF DeactivateToDiscovery
<1>3. Leaves(w, r.w) /\ (r.w.c.owed = "none" \/ (~r.ok /\ r.w.c.cmd = "deactivate"))
  BY <1>2, TransactDrops DEF Cmds
<1>4. CASE r.ok
  <2>1. v = r.w
    BY <1>1, <1>4
  <2>2. QED
    BY <1>3, <1>4, <2>1
<1>5. CASE ~r.ok
  <2>1. PICK s \in TransactStrict(r.w, "discover") : v = s.w
    BY <1>1, <1>5
  <2>2. IsLink(r.w)
    BY <1>3 DEF Leaves
  <2>3. Leaves(r.w, v) /\ (r.w.c.cmd = "deactivate" \/ r.w.c.owed = "none" => v.c.owed = "none")
    BY <2>1, <2>2, TransactDrops DEF Cmds
  <2>4. QED
    BY <1>3, <2>3, LeavesAgain
<1>6. QED
  BY <1>4, <1>5

\* settle_drain: the queue is empty, and nothing begins to be owed.
LEMMA SettleDrops ==
    ASSUME NEW w, IsLink(w), NEW v \in SettleDrain(w)
    PROVE  Leaves(w, v) /\ v.c.q = <<>> /\ (w.c.owed = "none" => v.c.owed = "none")
<1>1. w.c \in Chips /\ w = [d |-> w.d, c |-> w.c, n |-> w.n]
  BY DEF IsLink
<1>2. PICK c : c = [w.c EXCEPT !.q = <<>>]
  OBVIOUS
<1>3. DropsOnly(w.c, c) /\ c \in Chips /\ c.q = <<>> /\ c.owed = w.c.owed /\ c.mode = w.c.mode
  BY <1>1, <1>2, FieldsDrop, ZenonT(40) DEF Chips, DropsOnly
<1>4. PICK e : e = [w EXCEPT !.c.q = <<>>]
  OBVIOUS
<1>5. e = [d |-> w.d, c |-> c, n |-> w.n] /\ e.c = c
  BY <1>1, <1>2, <1>4
<1>6. \/ v = e
      \/ w.c.mode = "discovery" /\ v = [e EXCEPT !.c.mode = "activated", !.c.used = FALSE]
      \/ v = [e EXCEPT !.c.owed = "none"]
  BY <1>4 DEF SettleDrain
<1>7. PICK g : v.c = g /\ v = [d |-> w.d, c |-> g, n |-> w.n] /\ g \in Chips /\ g.q = <<>>
               /\ (g.owed = c.owed \/ g.owed = "none")
  <2>1. CASE v = e
    BY <1>3, <1>5, <2>1
  <2>2. CASE w.c.mode = "discovery" /\ v = [e EXCEPT !.c.mode = "activated", !.c.used = FALSE]
    <3>1. PICK g : g = [c EXCEPT !.mode = "activated", !.used = FALSE]
      OBVIOUS
    <3>2. g \in Chips /\ g.q = <<>> /\ g.owed = c.owed
      BY <1>3, <2>2, <3>1 DEF Chips
    <3>3. v = [d |-> w.d, c |-> g, n |-> w.n] /\ v.c = g
      BY <1>5, <2>2, <3>1
    <3>4. QED
      BY <3>2, <3>3
  <2>3. CASE v = [e EXCEPT !.c.owed = "none"]
    <3>1. PICK g : g = [c EXCEPT !.owed = "none"]
      OBVIOUS
    <3>2. g \in Chips /\ g.q = <<>> /\ g.owed = "none"
      BY <1>3, <3>1 DEF Chips
    <3>3. v = [d |-> w.d, c |-> g, n |-> w.n] /\ v.c = g
      BY <1>5, <2>3, <3>1
    <3>4. QED
      BY <3>2, <3>3
  <2>4. QED
    BY <1>6, <2>1, <2>2, <2>3
<1>8. DropsOnly(w.c, g)
  BY <1>1, <1>3, <1>7, QueueDrops
<1>9. IsLink(v)
  BY <1>7 DEF IsLink
<1>10. QED
  BY <1>3, <1>7, <1>8, <1>9 DEF Leaves

\* The resynchronisation after a time-out: nothing of any exchange is under way.
LEMMA ResyncClears ==
    ASSUME NEW w, IsLink(w), NEW v \in Resync(w)
    PROVE  IsLink(v) /\ \A x \in Names : ~Carries(v.c, x)
<1>1. PICK t \in Teardown(w) :
        \E u \in SettleDrain(t) : v = [u EXCEPT !.d = [ClearTag(@) EXCEPT !.active = FALSE]]
  BY DEF Resync
<1>0. PICK u \in SettleDrain(t) : v = [u EXCEPT !.d = [ClearTag(@) EXCEPT !.active = FALSE]]
  BY <1>1
<1>2. IsLink(t) /\ t.c.owed = "none"
  BY TeardownDrops DEF Leaves
<1>3. IsLink(u) /\ u.c.owed = "none" /\ u.c.q = <<>>
  BY <1>2, SettleDrops DEF Leaves
<1>4. PICK d : d = [ClearTag(u.d) EXCEPT !.active = FALSE]
  OBVIOUS
<1>5. v = [d |-> d, c |-> u.c, n |-> u.n] /\ v.d = d /\ v.c = u.c /\ v.n = u.n
  BY <1>0, <1>3, <1>4 DEF IsLink
<1>6. IsLink(v)
  BY <1>3, <1>5 DEF IsLink
<1>7. \A x \in Names : ~Carries(v.c, x)
  BY <1>3, <1>5 DEF Carries, Names
<1>8. QED
  BY <1>6, <1>7

\* A link whose driver changed.
LEMMA DriverChanged ==
    ASSUME NEW w, NEW u, Leaves(w, u), NEW d, NEW v, v = [u EXCEPT !.d = d]
    PROVE  Leaves(w, v) /\ v.d = d /\ v.c = u.c
<1>1. u = [d |-> u.d, c |-> u.c, n |-> u.n] /\ IsLink(u)
  BY DEF Leaves, IsLink
<1>2. v = [d |-> d, c |-> u.c, n |-> u.n] /\ v.d = d /\ v.n = u.n /\ v.c = u.c
  BY <1>1
<1>3. Leaves(u, v)
  BY <1>1, <1>2, DriverOnly
<1>4. QED
  BY <1>2, <1>3, LeavesAgain

\* power_off.
LEMMA PowerOffDrops ==
    ASSUME NEW w, IsLink(w), NEW v \in PowerOff(w)
    PROVE  Leaves(w, v)
<1>1. PICK u, d : Leaves(w, u) /\ v = [u EXCEPT !.d = d]
  <2>1. CASE w.d.tag = "auto"
    <3>1. PICK d : v = [w EXCEPT !.d = d]
      BY <2>1 DEF PowerOff
    <3>2. QED
      BY <3>1, LeavesSelf
  <2>2. CASE w.d.tag # "auto"
    <3>1. PICK u \in IF w.d.active THEN Teardown(w) ELSE {w} :
             v = [u EXCEPT !.d.active = FALSE, !.d.tag = "none", !.d.rearm = NoRearm, !.d.probe = TRUE,
                           !.d.parked = FALSE, !.d.silent = 0]
      BY <2>2 DEF PowerOff
    <3>2. \E d : v = [u EXCEPT !.d = d]
      BY <3>1
    <3>3. Leaves(w, u)
      BY TeardownDrops, LeavesSelf
    <3>4. QED
      BY <3>2, <3>3
  <2>3. QED
    BY <2>1, <2>2
<1>2. QED
  BY <1>1, DriverChanged

-----------------------------------------------------------------------------
(* Presence, power-on and recovery *)

\* A write of the re-arm.
LEMMA RearmDrops ==
    ASSUME NEW w, NEW u, Leaves(w, u), NEW cmd \in Cmds, NEW phase, NEW v \in RearmWrite(u, cmd, phase)
    PROVE  Leaves(w, v)
<1>1. PICK s \in Send(u, cmd) :
        v = IF s.ok THEN [s.w EXCEPT !.d.rearm = [phase |-> phase, polls |-> 0]] ELSE s.w
  BY DEF RearmWrite
<1>2. Leaves(u, s.w)
  BY SendDrops DEF Leaves
<1>3. Leaves(w, s.w)
  BY <1>2, LeavesAgain
<1>4. v = s.w \/ \E d : v = [s.w EXCEPT !.d = d]
  BY <1>1
<1>5. QED
  BY <1>3, <1>4, DriverChanged

\* step_rearm, one lemma for each state of the machine.
LEMMA AwaitRspDrops == ASSUME NEW w, IsLink(w), NEW v \in AwaitRsp(w) PROVE Leaves(w, v)
<1>1. PICK p : p = PollFrame(w)
  OBVIOUS
<1>2. Leaves(w, p.w)
  BY <1>1, PollDrops
<1>3. \/ \E d : v = [p.w EXCEPT !.d = d]
      \/ \E d : v \in RearmWrite([p.w EXCEPT !.d = d], "discover", "probe")
  BY <1>1 DEF AwaitRsp
<1>4. ASSUME NEW d, v \in RearmWrite([p.w EXCEPT !.d = d], "discover", "probe") PROVE Leaves(w, v)
  <2>1. Leaves(w, [p.w EXCEPT !.d = d])
    BY <1>2, DriverChanged
  <2>2. QED
    BY <1>4, <2>1, RearmDrops DEF Cmds
<1>5. QED
  BY <1>2, <1>3, <1>4, DriverChanged

\* The window for a notification.
LEMMA AwaitNtfDrops == ASSUME NEW w, IsLink(w), NEW v \in AwaitNtf(w) PROVE Leaves(w, v)
<1>1. \/ \E d : v = [w EXCEPT !.d = d]
      \/ \E d : \E s \in Send([w EXCEPT !.d = d], "discover") : v = s.w \/ \E g : v = [s.w EXCEPT !.d = g]
  <2>1. CASE w.d.rearm.polls + 1 < RearmNtfPolls
    <3>1. v = [w EXCEPT !.d.rearm.polls = @ + 1]
      BY <2>1 DEF AwaitNtf
    <3>2. QED
      BY <3>1
  <2>2. CASE ~(w.d.rearm.polls + 1 < RearmNtfPolls)
    <3>1. PICK d : d = [w.d EXCEPT !.rearm = NoRearm, !.polls = 0,
                              !.absent = IF w.d.absent + 1 >= AbsentRearmsToClear THEN 0 ELSE @ + 1,
                              !.tag = IF w.d.absent + 1 >= AbsentRearmsToClear THEN "none" ELSE @,
                              !.parked = @ \/ w.d.absent + 1 >= AbsentRearmsToClear]
      OBVIOUS
    <3>2. v \in IF w.d.probe
                THEN {IF s.ok THEN [s.w EXCEPT !.d.probe = FALSE, !.d.rearm = [phase |-> "probe", polls |-> 0]]
                      ELSE s.w : s \in Send([w EXCEPT !.d = d], "discover")}
                ELSE {[w EXCEPT !.d = d]}
      BY <2>2, <3>1, Zenon DEF AwaitNtf
    <3>3. QED
      BY <3>2, ZenonT(40)
  <2>3. QED
    BY <2>1, <2>2
<1>2. ASSUME NEW d, NEW s \in Send([w EXCEPT !.d = d], "discover"),
             v = s.w \/ \E g : v = [s.w EXCEPT !.d = g]
      PROVE  Leaves(w, v)
  <2>1. PICK u : u = [w EXCEPT !.d = d]
    OBVIOUS
  <2>2. Leaves(w, u)
    BY <2>1, LeavesSelf, DriverChanged
  <2>3. Leaves(u, s.w)
    BY <2>1, <2>2, SendDrops DEF Leaves, Cmds
  <2>4. Leaves(w, s.w)
    BY <2>2, <2>3, LeavesAgain
  <2>5. QED
    BY <1>2, <2>4, DriverChanged
<1>3. QED
  BY <1>1, <1>2, LeavesSelf, DriverChanged

\* The response to the probe.
LEMMA AwaitProbeDrops == ASSUME NEW w, IsLink(w), NEW v \in AwaitProbeRsp(w) PROVE Leaves(w, v)
<1>1. PICK p : p = PollFrame(w)
  OBVIOUS
<1>2. Leaves(w, p.w)
  BY <1>1, PollDrops
<1>3. \E d : v = [p.w EXCEPT !.d = d]
  BY <1>1 DEF AwaitProbeRsp
<1>4. QED
  BY <1>2, <1>3, DriverChanged

\* The machine as a whole.
LEMMA StepRearmDrops == ASSUME NEW w, IsLink(w), NEW v \in StepRearm(w) PROVE Leaves(w, v)
<1>1. v \in AwaitRsp(w) \/ v \in AwaitNtf(w) \/ v \in AwaitProbeRsp(w) \/ v = w
  BY DEF StepRearm
<1>2. QED
  BY <1>1, AwaitRspDrops, AwaitNtfDrops, AwaitProbeDrops, LeavesSelf

\* The cadence of is_card_present.
LEMMA CadenceDrops ==
    ASSUME NEW w, NEW u, Leaves(w, u), NEW v \in Cadence(u) PROVE Leaves(w, v)
<1>1. \/ v = u \/ \E d : v = [u EXCEPT !.d = d]
      \/ \E d : v \in RearmWrite([u EXCEPT !.d = d], "deactivate", "rsp")
  BY DEF Cadence
<1>2. ASSUME NEW d, v \in RearmWrite([u EXCEPT !.d = d], "deactivate", "rsp") PROVE Leaves(w, v)
  <2>1. Leaves(w, [u EXCEPT !.d = d])
    BY DriverChanged
  <2>2. QED
    BY <1>2, <2>1, RearmDrops DEF Cmds
<1>3. QED
  BY <1>1, <1>2, DriverChanged

\* is_card_present.
LEMMA PresentDrops == ASSUME NEW w, IsLink(w), NEW r \in IsCardPresent(w) PROVE Leaves(w, r.w)
<1>1. CASE w.d.active
  <2>1. PICK e : e = WaitForEvent(w)
    OBVIOUS
  <2>2. Leaves(w, e.w)
    BY <2>1, WaitDrops
  <2>3. PICK d, t : r = [w |-> e.w, told |-> t] \/ r = [w |-> [e.w EXCEPT !.d = d], told |-> t]
    BY <1>1, <2>1 DEF IsCardPresent, PresentInSession
  <2>4. r.w = e.w \/ r.w = [e.w EXCEPT !.d = d]
    BY <2>3
  <2>5. QED
    BY <2>2, <2>4, DriverChanged
<1>2. CASE ~w.d.active
  <2>1. PICK u \in StepRearm(w) : \E e :
           /\ e = WaitForEvent(u)
           /\ \/ \E d, t : r = [w |-> [e.w EXCEPT !.d = d], told |-> t]
              \/ r = [w |-> e.w, told |-> TRUE]
              \/ \E v \in Cadence(e.w) : r = [w |-> v, told |-> v.d.tag # "none"]
    <3>1. PICK u \in StepRearm(w) : \E e :
             /\ e = WaitForEvent(u)
             /\ r \in CASE e.ev.f = "tag" -> {[w |-> [e.w EXCEPT !.d = LatchTag(@, e.ev.kind)], told |-> TRUE]}
                        [] e.ev.f = "lost" -> {[w |-> [e.w EXCEPT !.d = ClearTag(@)], told |-> FALSE]}
                        [] e.ev.f = "none" /\ e.w.d.tag = "auto" -> {[w |-> e.w, told |-> TRUE]}
                        [] OTHER -> {[w |-> v, told |-> v.d.tag # "none"] : v \in Cadence(e.w)}
      BY <1>2, Zenon DEF IsCardPresent, PresentIdle
    <3>2. QED
      BY <3>1
  <2>0. PICK e :
           /\ e = WaitForEvent(u)
           /\ \/ \E d, t : r = [w |-> [e.w EXCEPT !.d = d], told |-> t]
              \/ r = [w |-> e.w, told |-> TRUE]
              \/ \E v \in Cadence(e.w) : r = [w |-> v, told |-> v.d.tag # "none"]
    BY <2>1, Zenon
  <2>2. Leaves(w, u)
    BY StepRearmDrops
  <2>3. Leaves(u, e.w)
    BY <2>0, <2>2, WaitDrops DEF Leaves
  <2>4. Leaves(w, e.w)
    BY <2>2, <2>3, LeavesAgain
  <2>5. CASE \E v \in Cadence(e.w) : r = [w |-> v, told |-> v.d.tag # "none"]
    <3>1. PICK v \in Cadence(e.w) : r = [w |-> v, told |-> v.d.tag # "none"]
      BY <2>5
    <3>2. r.w = v
      BY <3>1, Zenon
    <3>3. QED
      BY <2>4, <3>2, CadenceDrops
  <2>6. CASE \E d, t : r = [w |-> [e.w EXCEPT !.d = d], told |-> t]
    <3>1. PICK d, t : r = [w |-> [e.w EXCEPT !.d = d], told |-> t]
      BY <2>6
    <3>2. r.w = [e.w EXCEPT !.d = d]
      BY <3>1, Zenon
    <3>3. QED
      BY <2>4, <3>2, DriverChanged
  <2>7. QED
    BY <2>0, <2>4, <2>5, <2>6
<1>3. QED
  BY <1>1, <1>2

\* poll_maintenance.
LEMMA MaintenanceDrops ==
    ASSUME NEW w, IsLink(w), NEW due, NEW v \in PollMaintenance(w, due) PROVE Leaves(w, v)
<1>1. PICK u \in StepRearm(w) : \E e, g :
         /\ e = WaitForEvent(u)
         /\ g = IF e.ev.f = "none" THEN e.w ELSE [e.w EXCEPT !.d = Absorb(@, e.ev)]
         /\ v \in IF ~g.d.parked \/ g.d.rearm # NoRearm \/ ~due THEN {g}
                  ELSE {IF s.ok THEN [s.w EXCEPT !.d.rearm = [phase |-> "rsp", polls |-> 0],
                                                 !.d.wakes = 0]
                        ELSE s.w : s \in Send(g, "deactivate")}
  BY Zenon DEF PollMaintenance
<1>0. PICK e, g :
         /\ e = WaitForEvent(u)
         /\ g = IF e.ev.f = "none" THEN e.w ELSE [e.w EXCEPT !.d = Absorb(@, e.ev)]
         /\ v \in IF ~g.d.parked \/ g.d.rearm # NoRearm \/ ~due THEN {g}
                  ELSE {IF s.ok THEN [s.w EXCEPT !.d.rearm = [phase |-> "rsp", polls |-> 0],
                                                 !.d.wakes = 0]
                        ELSE s.w : s \in Send(g, "deactivate")}
  BY <1>1, Zenon
<1>2. Leaves(w, u)
  BY StepRearmDrops
<1>3. Leaves(u, e.w)
  BY <1>0, <1>2, WaitDrops DEF Leaves
<1>4. Leaves(w, e.w)
  BY <1>2, <1>3, LeavesAgain
<1>5. Leaves(w, g)
  BY <1>0, <1>4, DriverChanged
<1>6. v = g \/ \E s \in Send(g, "deactivate") : v = s.w \/ \E d : v = [s.w EXCEPT !.d = d]
  <2>1. CASE v = g
    BY <2>1
  <2>2. CASE v # g
    <3>1. PICK s \in Send(g, "deactivate") :
             v = IF s.ok THEN [s.w EXCEPT !.d.rearm = [phase |-> "rsp", polls |-> 0], !.d.wakes = 0]
                 ELSE s.w
      BY <1>0, <2>2
    <3>2. v = s.w \/ \E d : v = [s.w EXCEPT !.d = d]
      BY <3>1
    <3>3. QED
      BY <3>2
  <2>3. QED
    BY <2>1, <2>2
<1>7. ASSUME NEW s \in Send(g, "deactivate"), v = s.w \/ \E d : v = [s.w EXCEPT !.d = d]
      PROVE  Leaves(w, v)
  <2>1. Leaves(g, s.w)
    BY <1>5, SendDrops DEF Leaves, Cmds
  <2>2. Leaves(w, s.w)
    BY <1>5, <2>1, LeavesAgain
  <2>3. QED
    BY <1>7, <2>2, DriverChanged
<1>8. QED
  BY <1>5, <1>6, <1>7

\* select_tag.
LEMMA SelectDrops == ASSUME NEW w, IsLink(w) PROVE Leaves(w, SelectTag(w).w)
<1>1. w.c \in Chips /\ w = [d |-> w.d, c |-> w.c, n |-> w.n] /\ w.c.q \in Seq(Frames)
  BY DEF IsLink, Chips
<1>2. CASE ~(w.c.fault = "none" /\ w.c.mode = "select")
  <2>1. SelectTag(w) = [w |-> w, ok |-> FALSE]
    BY <1>2 DEF SelectTag
  <2>2. QED
    BY <2>1, LeavesSelf
<1>3. CASE w.c.fault = "none" /\ w.c.mode = "select"
  <2>1. PICK b : b = [w.c EXCEPT !.q = Append(@, Tag("auto"))]
    OBVIOUS
  <2>2. Tag("auto") \in Frames /\ (\A x \in Names : Tag("auto") # Data(x)) /\ Append(w.c.q, Tag("auto")) \in Seq(Frames)
    BY <1>1, FramesKinds
  <2>3. b \in Chips /\ b.q = Append(w.c.q, Tag("auto")) /\ b.owed = w.c.owed
    BY <1>1, <2>1, <2>2 DEF Chips
  <2>4. DropsOnly(w.c, b)
    BY <1>1, <2>2, <2>3, QueueDrops
  <2>5. PICK c : c = [w.c EXCEPT !.mode = "activated", !.used = FALSE, !.q = Tail(Append(@, Tag("auto")))]
    OBVIOUS
  <2>6. b.q # <<>> /\ Tail(b.q) \in Seq(Frames)
    BY <1>1, <2>2, <2>3
  <2>7. c \in Chips /\ c.q = Tail(b.q) /\ c.owed = b.owed
    BY <1>1, <1>3, <2>3, <2>5, <2>6 DEF Chips
  <2>8. DropsOnly(b, c)
    BY <2>3, <2>6, <2>7, TailDrops
  <2>9. SelectTag(w).w = [d |-> w.d, c |-> c, n |-> w.n]
    BY <1>1, <1>3, <2>5 DEF SelectTag
  <2>10. DropsOnly(w.c, c)
    BY <2>4, <2>8, DropsOnlyAgain
  <2>11. QED
    BY <2>9, <2>10 DEF Leaves, IsLink, DropsOnly
<1>4. QED
  BY <1>2, <1>3

\* A controller out of reset has nothing for the driver; nor after init.
LEMMA InitialisedDrops ==
    ASSUME NEW w, w = [d |-> w.d, c |-> w.c, n |-> w.n], NEW x, w.c = VenCycle(x), NEW v \in Initialised(w)
    PROVE  IsLink(v) /\ \A y \in Names : ~Carries(v.c, y)
<1>1. w.c \in Chips /\ w.c.q = <<>> /\ w.c.owed = "none"
  BY EmptySeq DEF VenCycle, Chips
<1>2. PICK up : up = [w EXCEPT !.c.mode = "discovery", !.d.polls = PresenceRearmPolls]
  OBVIOUS
<1>3. v = w \/ v = up \/ v = [up EXCEPT !.c.mode = "activated"]
  BY <1>2 DEF Initialised
<1>4. up = [d |-> up.d, c |-> up.c, n |-> up.n] /\ up.c = [w.c EXCEPT !.mode = "discovery"]
  BY <1>2
<1>5. up.c \in Chips /\ up.c.q = <<>> /\ up.c.owed = "none"
  BY <1>1, <1>4 DEF Chips
<1>6. ASSUME v = [up EXCEPT !.c.mode = "activated"]
      PROVE  v = [d |-> v.d, c |-> v.c, n |-> v.n] /\ v.c = [up.c EXCEPT !.mode = "activated"]
  BY <1>4, <1>6
<1>7. ASSUME v = [up EXCEPT !.c.mode = "activated"]
      PROVE  v.c \in Chips /\ v.c.q = <<>> /\ v.c.owed = "none"
  BY <1>5, <1>6, <1>7 DEF Chips
<1>8. /\ v = [d |-> v.d, c |-> v.c, n |-> v.n]
      /\ v.c \in Chips /\ v.c.q = <<>> /\ v.c.owed = "none"
  BY <1>1, <1>3, <1>4, <1>5, <1>6, <1>7
<1>9. QED
  BY <1>8 DEF IsLink, Carries, Names

\* mute_recovery.
LEMMA RecoveredDrops == ASSUME NEW w, IsLink(w), NEW v \in Recovered(w) PROVE Leaves(w, v)
<1>1. CASE ~Muted(w)
  BY <1>1, LeavesSelf DEF Recovered
<1>2. CASE Muted(w)
  <2>1. PICK u \in PowerOff(w) : v \in Initialised([u EXCEPT !.c = VenCycle(@)])
    BY <1>2 DEF Recovered
  <2>2. IsLink(u)
    BY PowerOffDrops DEF Leaves
  <2>3. PICK g : g = [u EXCEPT !.c = VenCycle(@)]
    OBVIOUS
  <2>4. g = [d |-> g.d, c |-> g.c, n |-> g.n] /\ g.c = VenCycle(u.c)
    BY <2>2, <2>3 DEF IsLink
  <2>5. IsLink(v) /\ \A y \in Names : ~Carries(v.c, y)
    BY <2>1, <2>3, <2>4, InitialisedDrops
  <2>6. QED
    BY <2>5 DEF Leaves, DropsOnly, IsLink
<1>3. QED
  BY <1>1, <1>2

-----------------------------------------------------------------------------
(* Late answers *)

Ops == [kind : {"none", "collect", "recollect", "exchange"}, rounds : Nat, by : {"host", "atr"}]

\* Nothing of the exchange that timed out is under way, and an exchange under
\* way has not been given an answer.
LateInv ==
    /\ chip \in Chips /\ op \in Ops /\ tag \in {"auto", "plain", "none"}
    /\ apdu \in Names /\ {timed_out, reply} \subseteq Names \cup {"none"}
    /\ timed_out # "none" => ~Carries(chip, timed_out)
    /\ op.kind = "exchange" => reply = "none"
    /\ LateAnswerIsDropped

\* A step that only drops DATA.
LEMMA DroppingKeeps ==
    ASSUME LateInv, DropsOnly(chip, chip'), op' \in Ops, op'.kind = "exchange" => op.kind = "exchange",
           apdu' = apdu, reply' = reply, timed_out' = timed_out, tag' \in {"auto", "plain", "none"}
    PROVE  LateInv'
<1>1. chip' \in Chips /\ \A x \in Names : Carries(chip', x) => Carries(chip, x)
  BY DEF DropsOnly
<1>2. timed_out' # "none" => ~Carries(chip', timed_out')
  BY <1>1 DEF LateInv
<1>3. LateAnswerIsDropped'
  BY DEF LateInv, LateAnswerIsDropped
<1>4. QED
  BY <1>1, <1>2, <1>3 DEF LateInv

\* A step of the driver that does.
LEMMA BecomesDrops ==
    ASSUME NEW w, Leaves(Link, w), Becomes(w)
    PROVE  DropsOnly(chip, chip')
<1>1. Link.c = chip /\ chip' = w.c
  BY DEF Link, Becomes
<1>2. QED
  BY <1>1 DEF Leaves

\* The state of driver and controller is a link in that sense.
LEMMA LinkIsLink == ASSUME LateInv PROVE IsLink(Link)
<1>1. Link.d = drv /\ Link.c = chip /\ Link.n = naks
  BY DEF Link
<1>2. QED
  BY <1>1 DEF Link, IsLink, LateInv

\* The steps of op that start and end a power-on.
LEMMA OpSteps ==
    ASSUME LateInv
    PROVE  /\ NoOp \in Ops /\ NoOp.kind # "exchange"
           /\ \A by \in {"host", "atr"} : StartPowerOn(by) => op' \in Ops /\ op'.kind # "exchange"
           /\ op' = [op EXCEPT !.rounds = @ + 1] => op' \in Ops /\ op'.kind = op.kind
           /\ op' = [op EXCEPT !.kind = "recollect", !.rounds = 0] => op' \in Ops /\ op'.kind # "exchange"
           /\ \A ok : PoweredOn(ok) => op' = NoOp
<1>1. NoOp \in Ops /\ NoOp.kind # "exchange"
  BY DEF Ops, NoOp
<1>2. \A by \in {"host", "atr"} : StartPowerOn(by) => op' \in Ops /\ op'.kind # "exchange"
  BY DEF Ops, StartPowerOn
<1>3. op' = [op EXCEPT !.rounds = @ + 1] => op' \in Ops /\ op'.kind = op.kind
  BY DEF LateInv, Ops
<1>4. op' = [op EXCEPT !.kind = "recollect", !.rounds = 0] => op' \in Ops /\ op'.kind # "exchange"
  <2>1. op \in Ops /\ 0 \in Nat
    BY DEF LateInv
  <2>2. QED
    BY <2>1 DEF Ops
<1>5. \A ok : PoweredOn(ok) => op' = NoOp
  BY Zenon DEF PoweredOn
<1>6. QED
  BY <1>1, <1>2, <1>3, <1>4, <1>5

\* A session that opens, or does not: no DATA comes of it.
LEMMA OpensDrops ==
    ASSUME NEW w, Leaves(Link, w), NEW a, Opens(w, a)
    PROVE  DropsOnly(chip, chip') /\ op' = NoOp
<1>1. PICK ok \in BOOLEAN :
          /\ Becomes([w EXCEPT !.d.active = @ \/ ok, !.c.used = @ \/ (ok /\ w.c.mode = "activated")])
          /\ PoweredOn(ok)
  BY Zenon DEF Opens
<1>2. w = [d |-> w.d, c |-> w.c, n |-> w.n] /\ w.c \in Chips /\ DropsOnly(chip, w.c)
  BY DEF Leaves, IsLink, Link
<1>3. w.c.used \in BOOLEAN /\ (w.c.used \/ (ok /\ w.c.mode = "activated")) \in BOOLEAN
  BY <1>2, Zenon DEF Chips
<1>4. PICK u \in BOOLEAN : u = (w.c.used \/ (ok /\ w.c.mode = "activated"))
  BY <1>3, Zenon
<1>5. chip' = [w EXCEPT !.d.active = @ \/ ok, !.c.used = @ \/ (ok /\ w.c.mode = "activated")].c
  BY <1>1, Zenon DEF Becomes
<1>6. chip' = [w.c EXCEPT !.used = u]
  BY <1>2, <1>4, <1>5
<1>7. chip' \in Chips /\ chip'.owed = w.c.owed /\ chip'.q = w.c.q
  BY <1>2, <1>6 DEF Chips
<1>8. DropsOnly(w.c, chip')
  BY <1>7 DEF DropsOnly, Carries
<1>9. op' = NoOp
  BY <1>1, Zenon DEF PoweredOn
<1>10. QED
  BY <1>2, <1>8, <1>9, DropsOnlyAgain

\* power_on.
LEMMA CollectKeeps == ASSUME LateInv, CollectTag PROVE LateInv'
<1>1. PICK e : e = WaitForEvent(Link)
  OBVIOUS
<1>2. IsLink(Link) /\ Leaves(Link, e.w)
  BY <1>1, LinkIsLink, WaitDrops
<1>3. PICK fresh : fresh = [e.w EXCEPT !.d.tag = e.ev.kind]
  OBVIOUS
<1>4. Leaves(Link, fresh)
  BY <1>2, <1>3, DriverChanged
<1>5. /\ apdu' = apdu /\ reply' = reply /\ timed_out' = timed_out /\ op.kind # "exchange"
      /\ tag' \in {"auto", "plain", "none"}
  BY DEF CollectTag, LateInv
<1>6. \/ Opens(fresh, TRUE) \/ Opens(SelectTag(fresh).w, SelectTag(fresh).ok) \/ Opens(e.w, TRUE)
      \/ \E d : Becomes([e.w EXCEPT !.d = d]) /\ op' = NoOp
      \/ Becomes(e.w) /\ op' = [op EXCEPT !.rounds = @ + 1]
      \/ \E r \in DeactivateToDiscovery(e.w) :
            Becomes(r.w) /\ op' = [op EXCEPT !.kind = "recollect", !.rounds = 0]
  <2>1. \/ Opens(fresh, TRUE) \/ Opens(SelectTag(fresh).w, SelectTag(fresh).ok) \/ Opens(e.w, TRUE)
        \/ Becomes([e.w EXCEPT !.d = ClearTag(@)]) /\ PoweredOn(FALSE)
        \/ Becomes(e.w) /\ op' = [op EXCEPT !.rounds = @ + 1]
        \/ \E r \in DeactivateToDiscovery(e.w) :
              Becomes(r.w) /\ op' = [op EXCEPT !.kind = "recollect", !.rounds = 0]
    BY <1>1, <1>3, Zenon DEF CollectTag
  <2>2. \A ok : PoweredOn(ok) => op' = NoOp
    BY OpSteps
  <2>3. QED
    BY <2>1, <2>2
<1>7. ASSUME NEW d, Becomes([e.w EXCEPT !.d = d]) PROVE DropsOnly(chip, chip')
  <2>1. Leaves(Link, [e.w EXCEPT !.d = d])
    BY <1>2, DriverChanged
  <2>2. QED
    BY <1>7, <2>1, BecomesDrops
<1>8. Leaves(Link, SelectTag(fresh).w)
  <2>1. Leaves(fresh, SelectTag(fresh).w)
    BY <1>4, SelectDrops DEF Leaves
  <2>2. QED
    BY <1>4, <2>1, LeavesAgain
<1>9. ASSUME NEW r \in DeactivateToDiscovery(e.w), Becomes(r.w) PROVE DropsOnly(chip, chip')
  <2>1. Leaves(e.w, r.w)
    BY <1>2, TransactDrops DEF DeactivateToDiscovery, Leaves, Cmds
  <2>2. Leaves(Link, r.w)
    BY <1>2, <2>1, LeavesAgain
  <2>3. QED
    BY <1>9, <2>2, BecomesDrops
<1>10. DropsOnly(chip, chip')
  BY <1>2, <1>4, <1>6, <1>7, <1>8, <1>9, BecomesDrops, OpensDrops
<1>11. op' \in Ops /\ op'.kind # "exchange"
  BY <1>2, <1>4, <1>5, <1>6, <1>8, OpensDrops, OpSteps
<1>12. QED
  BY <1>5, <1>10, <1>11, DroppingKeeps

\* Its second collection.
LEMMA RecollectKeeps == ASSUME LateInv, RecollectTag PROVE LateInv'
<1>1. PICK e : e = WaitForEvent(Link)
  OBVIOUS
<1>2. IsLink(Link) /\ Leaves(Link, e.w)
  BY <1>1, LinkIsLink, WaitDrops
<1>3. /\ apdu' = apdu /\ reply' = reply /\ timed_out' = timed_out /\ op.kind # "exchange"
      /\ tag' \in {"auto", "plain", "none"}
  BY DEF RecollectTag, LateInv
<1>4. \/ \E a : Opens([e.w EXCEPT !.d.tag = e.ev.kind], a)
      \/ /\ Becomes(e.w) \/ \E d : Becomes([e.w EXCEPT !.d = d])
         /\ op' = NoOp \/ op' = [op EXCEPT !.rounds = @ + 1]
  <2>1. \/ Opens([e.w EXCEPT !.d.tag = e.ev.kind], e.ev.kind = "auto")
        \/ Becomes([e.w EXCEPT !.d = ClearTag(@)]) /\ PoweredOn(FALSE)
        \/ op' = [op EXCEPT !.rounds = @ + 1] /\ Becomes(e.w)
        \/ Becomes(e.w) /\ PoweredOn(FALSE)
    BY <1>1, Zenon DEF RecollectTag
  <2>2. \A ok : PoweredOn(ok) => op' = NoOp
    BY OpSteps
  <2>3. (\E a : Opens([e.w EXCEPT !.d.tag = e.ev.kind], a))
            \/ ~Opens([e.w EXCEPT !.d.tag = e.ev.kind], e.ev.kind = "auto")
    BY Zenon
  <2>4. (\E d : Becomes([e.w EXCEPT !.d = d])) \/ ~Becomes([e.w EXCEPT !.d = ClearTag(@)])
    OBVIOUS
  <2>5. QED
    BY <2>1, <2>2, <2>3, <2>4, Zenon
<1>5. ASSUME NEW d, Becomes([e.w EXCEPT !.d = d]) PROVE DropsOnly(chip, chip')
  <2>1. Leaves(Link, [e.w EXCEPT !.d = d])
    BY <1>2, DriverChanged
  <2>2. QED
    BY <1>5, <2>1, BecomesDrops
<1>6. Leaves(Link, [e.w EXCEPT !.d.tag = e.ev.kind])
  BY <1>2, DriverChanged
<1>7. DropsOnly(chip, chip')
  BY <1>2, <1>4, <1>5, <1>6, BecomesDrops, OpensDrops
<1>8. op' \in Ops /\ op'.kind # "exchange"
  BY <1>3, <1>4, <1>6, OpensDrops, OpSteps
<1>9. QED
  BY <1>3, <1>7, <1>8, DroppingKeeps

\* After the resynchronisation no answer is under way, so none is late.
LEMMA ResyncKeeps ==
    ASSUME LateInv, NEW w, IsLink(w), NEW v \in Resync(w), Becomes(v), timed_out' = apdu', apdu' \in Names,
           reply' = "none", op' \in Ops, tag' = tag
    PROVE  LateInv'
<1>1. chip' \in Chips /\ \A x \in Names : ~Carries(chip', x)
  BY ResyncClears DEF Becomes, IsLink
<1>2. LateAnswerIsDropped'
  BY DEF LateAnswerIsDropped
<1>3. QED
  BY <1>1, <1>2 DEF LateInv

\* exchange_detailed.
LEMMA ExchangeKeeps == ASSUME LateInv, ExchangeRound PROVE LateInv'
<1>1. PICK p : p = PollFrame(Link)
  OBVIOUS
<1>2. /\ Leaves(Link, p.w) /\ IsLink(p.w)
      /\ p.f.f = "data" => p.f.of \in Names /\ Carries(Link.c, p.f.of)
  BY <1>1, LinkIsLink, PollDrops DEF Leaves
<1>3. apdu' = apdu /\ tag' = tag /\ op.kind = "exchange" /\ reply = "none" /\ apdu \in Names
      /\ tag \in {"auto", "plain", "none"}
  BY DEF ExchangeRound, LateInv
<1>4. CASE /\ Becomes([p.w EXCEPT !.d = TeardownOnLinkLoss(@)])
           /\ op' = NoOp /\ reply' = reply /\ timed_out' = timed_out
  <2>1. PICK d : Becomes([p.w EXCEPT !.d = d])
    BY <1>4
  <2>2. Leaves(Link, [p.w EXCEPT !.d = d])
    BY <1>2, DriverChanged
  <2>3. DropsOnly(chip, chip')
    BY <2>1, <2>2, BecomesDrops
  <2>4. QED
    BY <1>3, <1>4, <2>3, OpSteps, DroppingKeeps
<1>5. CASE /\ p.f.f = "data" /\ Becomes(p.w)
           /\ reply' = p.f.of /\ op' = NoOp /\ timed_out' = timed_out
  <2>1. DropsOnly(chip, chip') /\ Link.c = chip
    BY <1>2, <1>5, BecomesDrops DEF Link
  <2>2. reply' \in Names /\ Carries(chip, reply')
    BY <1>2, <1>5, <2>1
  <2>3. reply' # timed_out
    BY <2>2 DEF LateInv, Names
  <2>4. timed_out' # "none" => ~Carries(chip', timed_out')
    BY <1>5, <2>1 DEF LateInv, DropsOnly
  <2>5. LateAnswerIsDropped'
    BY <1>5, <2>3 DEF LateAnswerIsDropped
  <2>6. QED
    BY <1>3, <1>5, <2>1, <2>2, <2>4, <2>5, OpSteps DEF LateInv, DropsOnly
<1>6. CASE /\ Becomes(p.w) /\ op' = [op EXCEPT !.rounds = @ + 1]
           /\ reply' = reply /\ timed_out' = timed_out
  BY <1>2, <1>3, <1>6, BecomesDrops, OpSteps, DroppingKeeps
<1>7. CASE /\ \E w \in Resync(p.w) : Becomes(w)
           /\ op' = NoOp /\ timed_out' = apdu /\ reply' = reply
  BY <1>2, <1>3, <1>7, OpSteps, ResyncKeeps
<1>8. QED
  BY <1>1, <1>4, <1>5, <1>6, <1>7, Zenon DEF ExchangeRound

\* transmit_apdu.
LEMMA TransmitKeeps == ASSUME LateInv, op = NoOp, TransmitApdu, tag' = tag PROVE LateInv'
<1>1. reply' = "none" /\ NoOp \in Ops
  BY OpSteps DEF TransmitApdu
<1>2. CASE UNCHANGED <<drv, chip, naks, op, apdu, timed_out>>
  <2>1. Carries(chip', timed_out') <=> Carries(chip, timed_out)
    BY <1>2 DEF Carries
  <2>2. QED
    BY <1>1, <1>2, <2>1 DEF LateInv, LateAnswerIsDropped
<1>3. CASE drv.active
  <2>1. apdu' = Other(apdu) /\ apdu' \in Names
    BY <1>3 DEF TransmitApdu, Other, Names
  <2>2. CASE chip.fault = "nak"
    <3>1. PICK l : l = [Link EXCEPT !.n = IF @ < MuteThreshold THEN @ + 1 ELSE @]
      OBVIOUS
    <3>2. IsLink(l)
      <4>1. IsLink(Link)
        BY LinkIsLink
      <4>2. l = [d |-> Link.d, c |-> Link.c, n |-> l.n] /\ l.d = Link.d /\ l.c = Link.c
        BY <3>1, <4>1 DEF IsLink
      <4>3. QED
        BY <4>1, <4>2 DEF IsLink
    <3>3. PICK v \in Resync(l) : Becomes(v)
      BY <1>3, <2>2, <3>1 DEF TransmitApdu
    <3>4. timed_out' = apdu' /\ op' = op
      BY <1>3, <2>2 DEF TransmitApdu
    <3>5. QED
      BY <1>1, <2>1, <3>2, <3>3, <3>4, ResyncKeeps
  <2>3. CASE chip.fault # "nak"
    <3>1. /\ op' = [kind |-> "exchange", rounds |-> 0, by |-> "host"]
          /\ Becomes([Link EXCEPT !.n = 0, !.c.used = @ \/ chip.mode = "activated",
                            !.c.owed = IF Healthy /\ chip.mode = "activated" THEN apdu' ELSE @])
          /\ timed_out' = IF timed_out = apdu' THEN "none" ELSE timed_out
      BY <1>3, <2>3 DEF TransmitApdu
    <3>2. chip' = [chip EXCEPT !.used = @ \/ chip.mode = "activated",
                            !.owed = IF Healthy /\ chip.mode = "activated" THEN apdu' ELSE @]
      BY <3>1 DEF Becomes, Link
    <3>3. chip' \in Chips /\ chip'.q = chip.q /\ (chip'.owed = chip.owed \/ chip'.owed = apdu')
      <4>1. PICK u : u = (chip.used \/ chip.mode = "activated")
        OBVIOUS
      <4>2. u \in BOOLEAN
        BY <4>1
      <4>3. chip' = [chip EXCEPT !.used = u,
                            !.owed = IF Healthy /\ chip.mode = "activated" THEN apdu' ELSE @]
        BY <3>2, <4>1, Zenon
      <4>4. QED
        BY <2>1, <4>2, <4>3 DEF LateInv, Chips, Healthy
    <3>4. timed_out' # "none" => timed_out' = timed_out /\ timed_out' # apdu'
      BY <3>1
    <3>5. timed_out' # "none" => ~Carries(chip', timed_out')
      BY <3>3, <3>4 DEF LateInv, Carries
    <3>6. op' \in Ops
      BY <3>1 DEF Ops
    <3>7. LateAnswerIsDropped'
      BY <1>1 DEF LateAnswerIsDropped
    <3>8. QED
      BY <1>1, <2>1, <3>1, <3>3, <3>5, <3>6, <3>7 DEF LateInv
  <2>4. QED
    BY <2>2, <2>3
<1>4. QED
  BY <1>2, <1>3 DEF TransmitApdu

\* The loop of the TCP reader.
LEMMA TcpKeeps ==
    ASSUME LateInv, TcpCommand \/ TcpTimeout \/ TcpTail \/ TcpPoll PROVE LateInv'
<1>0. tag' = tag /\ IsLink(Link) /\ op \in Ops /\ tag' \in {"auto", "plain", "none"}
  BY LinkIsLink DEF TcpCommand, TcpTimeout, TcpTail, TcpPoll, LateInv
<1>1. CASE TcpCommand
  <2>1. op = NoOp
    BY <1>1 DEF TcpCommand, TcpTurn
  <2>2. CASE StartPowerOn("host") /\ UNCHANGED <<drv, chip, naks, apdu, reply, timed_out>>
    BY <1>0, <2>2, OpSteps, LinkIsLink, DroppingKeeps DEF DropsOnly, LateInv
  <2>3. CASE \E w \in PowerOff(Link) : Becomes(w) /\ UNCHANGED <<op, apdu, reply, timed_out>>
    BY <1>0, <2>3, PowerOffDrops, BecomesDrops, DroppingKeeps
  <2>4. CASE TransmitApdu
    BY <1>0, <2>1, <2>4, TransmitKeeps
  <2>5. QED
    BY <1>1, <2>2, <2>3, <2>4 DEF TcpCommand
<1>2. CASE TcpTimeout
  BY <1>0, <1>2, DroppingKeeps DEF TcpTimeout, DropsOnly, LateInv
<1>3. CASE TcpTail
  BY <1>0, <1>3, RecoveredDrops, BecomesDrops, DroppingKeeps DEF TcpTail
<1>4. CASE TcpPoll
  <2>1. PICK w \in Recovered(Link) :
           Becomes(w) \/ \E r \in IsCardPresent(w) : Rearms(r.w) /\ told' = r.told
    BY <1>4 DEF TcpPoll
  <2>2. Leaves(Link, w)
    BY <1>0, RecoveredDrops
  <2>3. ASSUME NEW r \in IsCardPresent(w), Rearms(r.w) PROVE DropsOnly(chip, chip')
    <3>1. Leaves(w, r.w)
      BY <2>2, PresentDrops DEF Leaves
    <3>2. Leaves(Link, r.w)
      BY <2>2, <3>1, LeavesAgain
    <3>3. QED
      BY <2>3, <3>2, BecomesDrops DEF Rearms
  <2>4. DropsOnly(chip, chip')
    BY <2>1, <2>2, <2>3, BecomesDrops
  <2>5. QED
    BY <1>0, <1>4, <2>4, DroppingKeeps DEF TcpPoll
<1>5. QED
  BY <1>1, <1>2, <1>3, <1>4

\* The vpcd client.
LEMMA VpcdKeeps ==
    ASSUME LateInv, HostAtr \/ VpcdCommand \/ IdleWake \/ Reconnect PROVE LateInv'
<1>0. tag' = tag /\ IsLink(Link) /\ op \in Ops /\ tag' \in {"auto", "plain", "none"}
  BY LinkIsLink DEF HostAtr, VpcdCommand, IdleWake, Reconnect, LateInv
<1>1. CASE HostAtr
  <2>1. PICK r \in IsCardPresent(Link) : Rearms(r.w) /\ (op' = op \/ StartPowerOn("atr"))
    BY <1>1 DEF HostAtr
  <2>2. DropsOnly(chip, chip')
    BY <1>0, <2>1, PresentDrops, BecomesDrops DEF Rearms
  <2>3. op' \in Ops /\ (op'.kind = "exchange" => op.kind = "exchange")
    BY <1>0, <2>1, OpSteps
  <2>4. QED
    BY <1>0, <1>1, <2>2, <2>3, DroppingKeeps DEF HostAtr
<1>2. CASE VpcdCommand
  <2>1. op = NoOp
    BY <1>2 DEF VpcdCommand, VpcdFree
  <2>2. CASE StartPowerOn("host") /\ UNCHANGED <<drv, chip, naks, cached_atr, apdu, reply, timed_out>>
    BY <1>0, <2>2, OpSteps, DroppingKeeps DEF DropsOnly, LateInv
  <2>3. CASE /\ \E w \in PowerOff(Link) : Becomes(w)
             /\ op' = op \/ StartPowerOn("host")
             /\ UNCHANGED <<apdu, reply, timed_out>>
    <3>1. DropsOnly(chip, chip')
      BY <1>0, <2>3, PowerOffDrops, BecomesDrops
    <3>2. op' \in Ops /\ (op'.kind = "exchange" => op.kind = "exchange")
      BY <1>0, <2>3, OpSteps
    <3>3. QED
      BY <1>0, <2>3, <3>1, <3>2, DroppingKeeps
  <2>4. CASE TransmitApdu
    BY <1>0, <2>1, <2>4, TransmitKeeps
  <2>5. QED
    BY <1>2, <2>2, <2>3, <2>4 DEF VpcdCommand
<1>3. CASE IdleWake
  <2>1. PICK l, due : /\ l = [Link EXCEPT !.d.wakes = IF @ < ParkedRearmWakes THEN @ + 1 ELSE @]
                      /\ \E w \in PollMaintenance(l, due) : Rearms(w)
    BY <1>3 DEF IdleWake
  <2>2. Leaves(Link, l)
    <3>1. PICK d : l = [Link EXCEPT !.d = d]
      BY <2>1
    <3>2. QED
      BY <1>0, <3>1, LeavesSelf, DriverChanged
  <2>3. PICK w \in PollMaintenance(l, due) : Becomes(w)
    BY <2>1 DEF Rearms
  <2>4. Leaves(l, w)
    BY <2>2, MaintenanceDrops DEF Leaves
  <2>5. DropsOnly(chip, chip')
    BY <2>2, <2>3, <2>4, LeavesAgain, BecomesDrops
  <2>6. QED
    BY <1>0, <1>3, <2>5, DroppingKeeps DEF IdleWake
<1>4. CASE Reconnect
  BY <1>0, <1>4, DroppingKeeps DEF Reconnect, DropsOnly, LateInv
<1>5. QED
  BY <1>1, <1>2, <1>3, <1>4

\* The controller and the coil: an answer of the card moves from what is owed
\* into the queue.
LEMMA WorldKeeps == ASSUME LateInv, PnWorld PROVE LateInv'
<1>0. chip \in Chips /\ chip.q \in Seq(Frames) /\ op \in Ops /\ tag \in {"auto", "plain", "none"}
  BY DEF LateInv, Chips
<1>1. op' = op /\ apdu' = apdu /\ reply' = reply /\ timed_out' = timed_out
  BY DEF PnWorld, Couple, Remove, Find, Doze, Answer, CardAnswers, Break, rest
<1>2. tag' \in {"auto", "plain", "none"}
  BY <1>0, Pn7160Assumption DEF PnWorld, Couple, Remove, Find, Doze, Answer, CardAnswers, Break
<1>3. SUFFICES DropsOnly(chip, chip')
  BY <1>0, <1>1, <1>2, DroppingKeeps
<1>4. ASSUME NEW k \in Tags, Couple(k) PROVE DropsOnly(chip, chip')
  BY <1>0, <1>4 DEF Couple, DropsOnly
<1>5. CASE Remove
  <2>1. ASSUME NEW m \in AfterTeardown(chip),
               chip' = [chip EXCEPT !.mode = m, !.used = FALSE, !.owed = "none",
                                    !.q = IF Healthy THEN Append(@, LinkLost) ELSE @]
        PROVE  DropsOnly(chip, chip')
    <3>1. m \in {"discovery", "seated"} /\ LinkLost \in Frames /\ \A x \in Names : LinkLost # Data(x)
      BY FramesKinds DEF AfterTeardown
    <3>2. Append(chip.q, LinkLost) \in Seq(Frames)
      BY <1>0, <3>1
    <3>3. /\ chip' \in Chips /\ chip'.owed = "none"
          /\ chip'.q = chip.q \/ chip'.q = Append(chip.q, LinkLost)
      BY <1>0, <2>1, <3>1, <3>2 DEF Chips
    <3>4. QED
      BY <1>0, <3>1, <3>3, QueueDrops
  <2>2. CASE chip.mode # "activated" /\ chip' = [chip EXCEPT !.mode = IF @ = "select" THEN "discovery" ELSE @]
    <3>1. chip' \in Chips /\ chip'.owed = chip.owed /\ chip'.q = chip.q
      BY <1>0, <2>2 DEF Chips
    <3>2. QED
      BY <1>0, <3>1, QueueDrops
  <2>3. QED
    BY <1>5, <2>1, <2>2 DEF Remove
<1>6. CASE Find
  <2>1. /\ tag \in {"auto", "plain"} /\ chip.mode = "discovery"
        /\ chip' = [chip EXCEPT !.mode = IF tag = "auto" THEN "activated" ELSE "select",
                                 !.used = FALSE, !.q = Append(@, Tag(tag))]
    BY <1>0, <1>6 DEF Find, Findable
  <2>2. /\ Tag(tag) \in Frames /\ \A x \in Names : Tag(tag) # Data(x)
    BY <2>1, FramesKinds
  <2>3. Append(chip.q, Tag(tag)) \in Seq(Frames)
    BY <1>0, <2>2
  <2>4. chip' \in Chips /\ chip'.owed = chip.owed /\ chip'.q = Append(chip.q, Tag(tag))
    BY <1>0, <2>1, <2>3 DEF Chips
  <2>5. QED
    BY <1>0, <2>2, <2>4, QueueDrops
<1>7. CASE Doze
  <2>1. chip' \in Chips /\ chip'.owed = chip.owed /\ chip'.q = chip.q
    BY <1>0, <1>7 DEF Doze, Chips
  <2>2. QED
    BY <1>0, <2>1, QueueDrops
<1>8. CASE Answer
  <2>1. chip' \in Execute(chip, chip.cmd) /\ chip.cmd \in Cmds
    BY <1>0, <1>8 DEF Answer, Chips, Cmds
  <2>2. QED
    BY <1>0, <2>1, ExecuteDrops
<1>9. CASE CardAnswers
  <2>1. /\ chip.owed \in Names
        /\ chip' = [chip EXCEPT !.q = Append(@, Data(chip.owed)), !.owed = "none"]
    BY <1>0, <1>9 DEF CardAnswers, Chips
  <2>2. Data(chip.owed) \in Frames /\ Data(chip.owed).of = chip.owed
    BY <2>1, FramesKinds
  <2>3. Append(chip.q, Data(chip.owed)) \in Seq(Frames)
    BY <1>0, <2>2
  <2>4. chip' \in Chips /\ chip'.owed = "none" /\ chip'.q = Append(chip.q, Data(chip.owed))
    BY <1>0, <2>1, <2>3 DEF Chips
  <2>5. ASSUME NEW x \in Names, NEW i \in DOMAIN chip'.q, chip'.q[i] = Data(x) PROVE Carries(chip, x)
    <3>1. /\ DOMAIN chip'.q = 1..(Len(chip.q) + 1) /\ DOMAIN chip.q = 1..Len(chip.q) /\ Len(chip.q) \in Nat
          /\ \A k \in 1..Len(chip.q) : chip'.q[k] = chip.q[k]
          /\ chip'.q[Len(chip.q) + 1] = Data(chip.owed)
      BY <1>0, <2>4
    <3>2. CASE i = Len(chip.q) + 1
      <4>1. Data(x).of = x
        BY FramesKinds
      <4>2. QED
        BY <2>2, <2>5, <3>1, <3>2, <4>1 DEF Carries
    <3>3. CASE i # Len(chip.q) + 1
      <4>1. i \in 1..Len(chip.q)
        BY <3>1, <3>3
      <4>2. QED
        BY <2>5, <3>1, <4>1 DEF Carries
    <3>4. QED
      BY <3>2, <3>3
  <2>6. "none" \notin Names
    BY DEF Names
  <2>7. QED
    BY <2>4, <2>5, <2>6 DEF DropsOnly, Carries
<1>10. ASSUME NEW f \in Faults, Break(f) PROVE DropsOnly(chip, chip')
  <2>1. f \in {"silent", "refusing", "nak"} /\ <<>> \in Seq(Frames)
    BY Pn7160Assumption, EmptySeq
  <2>2. chip' = [chip EXCEPT !.fault = f, !.cmd = "none", !.owed = "none",
                            !.q = IF f = "nak" THEN <<>> ELSE @]
    BY <1>10 DEF Break
  <2>3. chip' \in Chips /\ chip'.owed = "none" /\ (chip'.q = <<>> \/ chip'.q = chip.q)
    BY <1>0, <2>1, <2>2 DEF Chips
  <2>4. QED
    BY <1>0, <2>3, QueueDrops
<1>11. QED
  BY <1>4, <1>5, <1>6, <1>7, <1>8, <1>9, <1>10 DEF PnWorld

\* The exchange that timed out leaves nothing behind: inductive, for any tags
\* and faults of the controller and any limits of the driver (transmit_apdu,
\* deactivate_to_discovery, restart_discovery, settle_drain).
THEOREM LateInductive == PnSpec => []LateInv
<1>1. PnInit => LateInv
  <2> SUFFICES ASSUME PnInit PROVE LateInv
    OBVIOUS
  <2>1. PICK w \in Initialised([d |-> NewDriver, c |-> VenCycle("off"), n |-> 0]) : drv = w.d /\ chip = w.c
    BY DEF PnInit
  <2>2. PICK l : l = [d |-> NewDriver, c |-> VenCycle("off"), n |-> 0]
    OBVIOUS
  <2>3. l = [d |-> l.d, c |-> l.c, n |-> l.n] /\ l.c = VenCycle("off")
    BY <2>2
  <2>4. chip \in Chips
    BY <2>1, <2>2, <2>3, InitialisedDrops DEF IsLink
  <2>5. op \in Ops /\ op.kind # "exchange"
    BY DEF PnInit, NoOp, Ops
  <2>6. tag \in {"auto", "plain", "none"}
    BY Pn7160Assumption DEF PnInit
  <2>7. apdu = "a" /\ reply = "none" /\ timed_out = "none"
    BY DEF PnInit
  <2>8. QED
    BY <2>4, <2>5, <2>6, <2>7 DEF LateInv, LateAnswerIsDropped, Names
<1>2. LateInv /\ [PnNext]_pnVars => LateInv'
  <2> SUFFICES ASSUME LateInv, [PnNext]_pnVars PROVE LateInv'
    OBVIOUS
  <2>1. CASE PnNext
    BY <2>1, CollectKeeps, RecollectKeeps, ExchangeKeeps, TcpKeeps, VpcdKeeps, WorldKeeps DEF PnNext, PnServe
  <2>2. CASE UNCHANGED pnVars
    BY <2>2, DroppingKeeps DEF pnVars, DropsOnly, LateInv
  <2>3. QED
    BY <2>1, <2>2
<1>3. QED
  BY <1>1, <1>2, PTL DEF PnSpec

\* The answer to an exchange that timed out never lands in the window of a
\* later one, whatever the controller does and whenever the tag moves
\* (Pn7160Driver::transmit_apdu).
THEOREM LateAnswersAreDropped == PnSpec => []LateAnswerIsDropped
<1>1. LateInv => LateAnswerIsDropped
  BY DEF LateInv
<1>2. QED
  BY <1>1, LateInductive, PTL
=============================================================================
