------------------------------- MODULE SppLink -------------------------------
(***************************************************************************)
(* The Bluetooth SPP reader: SppRxRing, SppLink and SppPump of crates/     *)
(* ccid-service/src/spp_server.rs and the shell around them in firmware/   *)
(* esp32-ccid/src/spp_shell.rs.  Two tasks share the ring and the link     *)
(* under a lock: the Bluedroid callback, and the serve loop, which takes   *)
(* the lock for single steps only and works outside it.  One action of the *)
(* loop is one critical section or one stretch of work between two.        *)
(*                                                                         *)
(* A command is a number; its age tells whether the server's window for it *)
(* is open (0), past (1), or the host has given it up (2).                 *)
(***************************************************************************)
EXTENDS Naturals, Sequences, FiniteSets

CONSTANTS
    MaxCmds,        \* bound: commands sent
    MaxConns,       \* bound: connections
    RingCap,        \* SPP_RX_RING_ENTRIES, in chunks
    TxCap,          \* SPP_TX_BUF_SIZE, in responses
    BatchMax        \* SPP_POP_BATCH, in chunks

ASSUME SppAssumption ==
    /\ {MaxCmds, MaxConns, RingCap, TxCap, BatchMax} \subseteq Nat \ {0}

VARIABLES
    cmds,           \* the commands sent so far: class, connection, age
    conns,          \* connections so far
    handle,         \* SppLink: the connection, 0 = none
    congested,
    pending,        \* SppLink: the parked packet, oldest first
    pending_snapshot,
    ring, overflow, \* SppRxRing: chunks [cmd, whole]
    pc,             \* where the serve loop is
    batch,          \* chunks popped and not yet fed
    partial,        \* the command whose first part the parser holds, or 0
    tx,             \* SppPump: the packet being built
    served,         \* PumpOutcome of this round: something responded
    plan, target,   \* what the loop decided under the lock
    latched,        \* the handler's snapshot request
    written,        \* history: <<command, handle>> in the order written
    proven,         \* history: note_serve_evidence was called
    swallowed       \* history: a frame was lost to another connection's
                    \* partial frame

linkVars == <<handle, congested, pending, pending_snapshot>>
ringVars == <<ring, overflow>>
hostVars == <<cmds, conns>>
pumpVars == <<batch, partial, tx, served, latched>>
sppVars == <<hostVars, linkVars, ringVars, pc, pumpVars, plan, target, written,
             proven, swallowed>>

SppInit ==
    /\ cmds = <<>> /\ conns = 0
    /\ handle = 0 /\ congested = FALSE /\ pending = <<>> /\ pending_snapshot = FALSE
    /\ ring = <<>> /\ overflow = FALSE
    /\ pc = "rx" /\ batch = <<>> /\ partial = 0 /\ tx = <<>> /\ served = FALSE
    /\ plan = "Drop" /\ target = 0 /\ latched = FALSE
    /\ written = <<>> /\ proven = FALSE /\ swallowed = FALSE

Past(c) == cmds[c].age >= 1

-----------------------------------------------------------------------------
(* The Bluedroid callback *)

\* ServerOpen, Close: parked bytes of a dead connection go, and the ring.
OnOpen ==
    /\ handle = 0 /\ conns < MaxConns
    /\ conns' = conns + 1 /\ handle' = conns + 1
    /\ congested' = FALSE /\ pending' = <<>> /\ pending_snapshot' = FALSE
    /\ ring' = <<>> /\ overflow' = FALSE
    /\ UNCHANGED <<cmds, pc, pumpVars, plan, target, written, proven, swallowed>>

OnClose ==
    /\ handle # 0
    /\ handle' = 0
    /\ congested' = FALSE /\ pending' = <<>> /\ pending_snapshot' = FALSE
    /\ ring' = <<>> /\ overflow' = FALSE
    /\ UNCHANGED <<hostVars, pc, pumpVars, plan, target, written, proven, swallowed>>

OnCong ==
    /\ handle # 0 /\ congested' = ~congested
    /\ UNCHANGED <<hostVars, handle, pending, pending_snapshot, ringVars, pc, pumpVars,
                   plan, target, written, proven, swallowed>>

HostWaitsFor(c) ==
    /\ cmds[c].conn = handle /\ cmds[c].age < 2
    /\ \A i \in DOMAIN written : written[i] # <<c, handle>>

\* push_chunk: a chunk that does not fit is dropped whole.
PushRing(chunk) ==
    IF Len(ring) < RingCap
    THEN ring' = Append(ring, chunk) /\ UNCHANGED overflow
    ELSE overflow' = TRUE /\ UNCHANGED ring

\* DataInd: a whole command, or the first part of one that is never
\* finished.
OnData ==
    /\ handle # 0 /\ Len(cmds) < MaxCmds
    /\ \A c \in DOMAIN cmds : ~HostWaitsFor(c)
    /\ \E class \in {"Snapshot", "Other"}, whole \in BOOLEAN :
          /\ cmds' = Append(cmds, [class |-> class, conn |-> handle, age |-> 0])
          /\ PushRing([cmd |-> Len(cmds) + 1, whole |-> whole])
    /\ UNCHANGED <<conns, linkVars, pc, pumpVars, plan, target, written, proven, swallowed>>

\* Time: a window passes, a host gives up.  From the verdict on a response
\* to its write takes less than the margin between the two: a host has one
\* command at a time, so no other handler runs in between.
Delivering(c) ==
    \/ \E i \in DOMAIN tx : tx[i] = c
    \/ pc = "rewrite" /\ \E i \in DOMAIN pending : pending[i] = c
WindowPasses ==
    /\ \E c \in DOMAIN cmds :
          /\ cmds[c].age < 2 /\ (cmds[c].age = 1 => ~Delivering(c))
          /\ cmds' = [cmds EXCEPT ![c].age = @ + 1]
    /\ UNCHANGED <<conns, linkVars, ringVars, pc, pumpVars, plan, target, written,
                   proven, swallowed>>

-----------------------------------------------------------------------------
(* The serve loop *)

PopBatch ==
    /\ pc = "rx" /\ ring # <<>>
    /\ LET n == IF Len(ring) < BatchMax THEN Len(ring) ELSE BatchMax
       IN batch' = SubSeq(ring, 1, n) /\ ring' = SubSeq(ring, n + 1, Len(ring))
    /\ pc' = "pump"
    /\ UNCHANGED <<hostVars, linkVars, overflow, partial, tx, served, latched, plan,
                   target, written, proven, swallowed>>

RingDrained ==
    /\ pc = "rx" /\ ring = <<>>
    /\ pc' = IF served THEN "plan" ELSE "retry"
    /\ UNCHANGED <<hostVars, linkVars, ringVars, pumpVars, plan, target, written, proven,
                   swallowed>>

\* Mutant: an expired response is appended all the same.
BadServe(c) ==
    /\ tx' = IF Len(tx) < TxCap THEN Append(tx, c) ELSE tx
    /\ latched' = (latched \/ cmds[c].class = "Snapshot")
    /\ served' = TRUE /\ proven' = (proven \/ Len(tx) < TxCap)

\* pump_rx for a completed command: late, or appended whole, or dropped
\* because the packet is full.  The request for a snapshot dies with a late
\* response only.
Serve(c) ==
    IF Past(c)
    THEN latched' = FALSE /\ UNCHANGED <<tx, served, proven>>
    ELSE /\ latched' = (latched \/ cmds[c].class = "Snapshot")
         /\ IF Len(tx) < TxCap
            THEN tx' = Append(tx, c) /\ served' = TRUE /\ proven' = TRUE
            ELSE UNCHANGED <<tx, served, proven>>

\* The NAK of a malformed frame: bytes of no command, left out of tx.
Malformed == served' = TRUE /\ UNCHANGED <<tx, latched, proven>>

\* Feed one chunk.  A gap since the byte before it resets the parser.
PumpOne ==
    /\ pc = "pump" /\ batch # <<>>
    /\ LET c == Head(batch)
       IN \E gap \in BOOLEAN :
             LET held == IF gap THEN 0 ELSE partial
             IN /\ partial' = IF ~c.whole /\ held = 0 THEN c.cmd ELSE 0
                /\ swallowed' = (swallowed \/ (c.whole /\ held # 0
                                    /\ cmds[held].conn # cmds[c.cmd].conn))
                /\ IF held # 0 THEN Malformed
                   ELSE IF c.whole THEN Serve(c.cmd)
                   ELSE UNCHANGED <<tx, served, latched, proven>>
    /\ batch' = Tail(batch)
    /\ UNCHANGED <<hostVars, linkVars, ringVars, pc, plan, target, written>>

BatchFed ==
    /\ pc = "pump" /\ batch = <<>> /\ pc' = "rx"
    /\ UNCHANGED <<hostVars, linkVars, ringVars, pumpVars, plan, target, written, proven,
                   swallowed>>

\* Mutant: fresh bytes are written past the parked ones.
OvertakingPlan == IF handle = 0 THEN "Drop" ELSE IF congested THEN "Park" ELSE "Write"

\* delivery_plan
DeliveryPlan ==
    IF handle = 0 THEN "Drop"
    ELSE IF congested \/ pending # <<>> THEN "Park" ELSE "Write"

Plan ==
    /\ pc = "plan" /\ pc' = "act"
    /\ plan' = DeliveryPlan /\ target' = handle
    /\ UNCHANGED <<hostVars, linkVars, ringVars, pumpVars, written, proven, swallowed>>

\* esp_spp_write accepts a packet only for the connection that is open.
Accepted(packet) ==
    /\ target = handle
    /\ written' = written \o [i \in DOMAIN packet |-> <<packet[i], target>>]

Deliver ==
    /\ pc = "act" /\ plan = "Write" /\ pc' = "post"
    /\ Accepted(tx)
    /\ UNCHANGED <<hostVars, linkVars, ringVars, pumpVars, plan, target, proven, swallowed>>

WriteBusy ==
    /\ pc = "act" /\ plan = "Write" /\ plan' = "Park"
    /\ UNCHANGED <<hostVars, linkVars, ringVars, pc, pumpVars, target, written, proven,
                   swallowed>>

\* Mutant: the snapshot request stays behind in the handler.
ForgetfulPark ==
    /\ pc = "act" /\ plan = "Park" /\ pc' = "retry"
    /\ pending' = tx /\ pending_snapshot' = FALSE
    /\ tx' = <<>> /\ served' = FALSE
    /\ UNCHANGED <<hostVars, handle, congested, ringVars, batch, partial, latched, plan,
                   target, written, proven, swallowed>>

\* park: what was parked before is dropped; the snapshot request moves into
\* the packet.
Park ==
    /\ pc = "act" /\ plan = "Park" /\ pc' = "retry"
    /\ pending' = tx /\ pending_snapshot' = latched /\ latched' = FALSE
    /\ tx' = <<>> /\ served' = FALSE
    /\ UNCHANGED <<hostVars, handle, congested, ringVars, batch, partial, plan, target,
                   written, proven, swallowed>>

DropTx ==
    /\ pc = "act" /\ plan = "Drop" /\ pc' = "retry"
    /\ tx' = <<>> /\ latched' = FALSE /\ served' = FALSE
    /\ UNCHANGED <<hostVars, linkVars, ringVars, batch, partial, plan, target, written,
                   proven, swallowed>>

\* After a delivery: the polls, and the panic a snapshot asked for.
PostDelivery ==
    /\ pc = "post"
    /\ pc' = IF latched THEN "down" ELSE "retry"
    /\ tx' = <<>> /\ served' = FALSE /\ latched' = FALSE
    /\ UNCHANGED <<hostVars, linkVars, ringVars, batch, partial, plan, target, written,
                   proven, swallowed>>

\* Mutant: the retry waits for the congestion to end.
BlockingRetry ==
    /\ pc = "retry" /\ target' = handle
    /\ pc' = IF handle = 0 \/ pending = <<>> THEN "idle"
             ELSE IF congested THEN "retry"
             ELSE IF Past(pending[1]) THEN "expire" ELSE "rewrite"
    /\ UNCHANGED <<hostVars, linkVars, ringVars, pumpVars, plan, written, proven, swallowed>>

\* The retry of a parked packet, unless the window of its oldest response
\* passed (pending_expired).
PlanRetry ==
    /\ pc = "retry" /\ target' = handle
    /\ pc' = IF handle = 0 \/ congested \/ pending = <<>> THEN "idle"
             ELSE IF Past(pending[1]) THEN "expire" ELSE "rewrite"
    /\ UNCHANGED <<hostVars, linkVars, ringVars, pumpVars, plan, written, proven, swallowed>>

ClearPending ==
    /\ pending' = <<>> /\ pending_snapshot' = FALSE
    /\ UNCHANGED <<hostVars, handle, congested, ringVars, pumpVars, plan, target, written,
                   proven, swallowed>>

ExpirePending == pc = "expire" /\ pc' = "idle" /\ ClearPending

\* The copy made under the lock is written outside it.
Rewrite ==
    /\ pc = "rewrite"
    /\ \/ pc' = "reclear" /\ Accepted(pending)
       \/ pc' = "idle" /\ UNCHANGED written
    /\ UNCHANGED <<hostVars, linkVars, ringVars, pumpVars, plan, target, proven, swallowed>>

Reclear ==
    /\ pc = "reclear"
    /\ pc' = IF pending_snapshot THEN "down" ELSE "idle"
    /\ ClearPending

\* Read idle (no byte for the timeout) or an overflow: the parser starts
\* over and presence is polled.
IdleCheck ==
    /\ pc = "idle" /\ pc' = "rx"
    /\ \E idle \in BOOLEAN : partial' = IF idle \/ overflow THEN 0 ELSE partial
    /\ overflow' = FALSE
    /\ UNCHANGED <<hostVars, linkVars, ring, batch, tx, served, latched, plan, target,
                   written, proven, swallowed>>

Callback == OnOpen \/ OnClose \/ OnCong \/ OnData
Loop ==
    \/ PopBatch \/ RingDrained \/ PumpOne \/ BatchFed \/ Plan \/ Deliver \/ WriteBusy
    \/ Park \/ DropTx \/ PostDelivery \/ PlanRetry \/ ExpirePending \/ Rewrite
    \/ Reclear \/ IdleCheck

SppNext == Callback \/ WindowPasses \/ Loop

\* The loop runs for ever; the callback and time do what they like.
SppSpec == SppInit /\ [][SppNext]_sppVars /\ WF_sppVars(Loop)

-----------------------------------------------------------------------------
(* Properties *)

SppTypeOK ==
    /\ Len(cmds) <= MaxCmds /\ conns \in 0..MaxConns /\ handle \in 0..conns
    /\ Len(ring) <= RingCap /\ Len(tx) <= TxCap /\ Len(pending) <= TxCap
    /\ partial \in 0..Len(cmds)
    /\ {congested, overflow, pending_snapshot, latched, served} \subseteq BOOLEAN
    /\ plan \in {"Write", "Park", "Drop"}

\* No response reaches the wire after the host has given the command up,
\* although it may have been parked for any time in between.  The deadline is
\* that of the packet's first response, which says nothing of the others when
\* the packet mixes connections (see CleanWire).
NothingWrittenLate ==
    [][LET new == DOMAIN written' \ DOMAIN written
           cmd(i) == cmds[written'[i][1]]
       IN (\A i, j \in new : cmd(i).conn = cmd(j).conn)
             => \A i \in new : cmd(i).age < 2]_sppVars

\* Parking, replacing and retrying never reorder what is delivered.
DeliveredInOrder ==
    \A i, j \in DOMAIN written : i < j => written[i][1] < written[j][1]

SnapshotAcked == \E i \in DOMAIN written : cmds[written[i][1]].class = "Snapshot"

\* The panic of a snapshot comes after an acknowledgement of a snapshot was
\* written, wherever the bytes waited: the request never outlives them.
PanicAfterAck == pc = "down" => SnapshotAcked

\* Everything popped is answered, parked or dropped, and the loop is back at
\* the ring, unless it panicked: no step of it waits for the callback.
LoopReturns == (pc # "rx") ~> (pc = "rx" \/ pc = "down")

\* "Clean-wire per connection": what a connection receives answers commands
\* of that connection.
CleanWire == \A i \in DOMAIN written : cmds[written[i][1]].conn = written[i][2]

\* "Each new connection starts with ... a reset parser".
FreshParser == ~swallowed

\* "the evidence signal lives at TRANSPORT COMPLETION": an image is proven to
\* serve only by a response that was written.
ProvenByDelivery ==
    proven /\ pc = "rx" /\ tx = <<>> /\ pending = <<>> => written # <<>>
=============================================================================
