---------------------------- MODULE NciTransport ----------------------------
(***************************************************************************)
(* The blocking half of the PN7160 link: transact and drain of             *)
(* crates/pn7160-nci esp_transport.rs (hal_transport.rs does the same with *)
(* a deque).  A command is written; the frames that come back are read     *)
(* until the first one that is not a notification; the notifications read  *)
(* on the way go into a ring of NtfSlots that drops its oldest, which only *)
(* drain empties.  poll_frame reads the line and never the ring.           *)
(***************************************************************************)
EXTENDS Integers, Sequences

CONSTANTS NtfSlots,     \* NTF_STASH_SLOTS
          WaitTicks,    \* IRQ_WAIT_BUDGET_US in ticks
          MaxFrames     \* frames the controller sends

ASSUME NciAssumption == NtfSlots \in Nat \ {0} /\ WaitTicks \in Nat /\ MaxFrames \in Nat

VARIABLES ring,   \* ntf: the slots
          first,  \* ntf_head
          held,   \* ntf_count
          call,   \* the transact under way
          irq,    \* the frames that hold the interrupt line up
          told    \* the number of frames sent so far

ntVars == <<ring, first, held, call, irq, told>>

Empty == 0
RingSlots == 0..(NtfSlots - 1)

NtInit == /\ ring = [i \in RingSlots |-> Empty]
          /\ first = 0 /\ held = 0
          /\ call = [at |-> "free", waited |-> 0]
          /\ irq = <<>> /\ told = 0

-----------------------------------------------------------------------------
Evicting == held = NtfSlots

(* An eviction that frees a place without moving the head. *)
StuckPushNtf(f) ==
    LET n == IF Evicting THEN held - 1 ELSE held
    IN  /\ ring' = [ring EXCEPT ![(first + n) % NtfSlots] = f]
        /\ UNCHANGED first
        /\ held' = n + 1

(* push_ntf: a full ring gives up the slot at its head first. *)
PushNtf(f) ==
    LET h == IF Evicting THEN (first + 1) % NtfSlots ELSE first
        n == IF Evicting THEN held - 1 ELSE held
        r == IF Evicting THEN [ring EXCEPT ![first] = Empty] ELSE ring
    IN  /\ ring' = [r EXCEPT ![(h + n) % NtfSlots] = f]
        /\ first' = h
        /\ held' = n + 1

PopNtf == /\ held > 0
          /\ ring' = [ring EXCEPT ![first] = Empty]
          /\ first' = (first + 1) % NtfSlots
          /\ held' = held - 1

Same == UNCHANGED <<ring, first, held>>

-----------------------------------------------------------------------------
(* A write that fails returns at once: the call never opens. *)
Transact == /\ call.at = "free" /\ told < MaxFrames
            /\ call' = [at |-> "wait", waited |-> 0]
            /\ UNCHANGED <<ring, first, held, irq, told>>

(* is_transact_reply *)
IsReply(f) == f.k # "ntf"

(* A turn of the loop with the line up: the read may fail. *)
ReadTurn ==
    /\ call.at = "wait" /\ irq # <<>>
    /\ irq' = Tail(irq) /\ UNCHANGED told
    /\ \/ IsReply(Head(irq)) /\ call' = [call EXCEPT !.at = "free"] /\ Same
       \/ ~IsReply(Head(irq)) /\ PushNtf(Head(irq).id) /\ UNCHANGED call
       \/ call' = [call EXCEPT !.at = "free"] /\ Same

(* ... and with it down: a tick, until the budget is spent. *)
WaitTurn ==
    /\ call.at = "wait" /\ irq = <<>>
    /\ call' = IF call.waited >= WaitTicks THEN [call EXCEPT !.at = "free"]
                                           ELSE [call EXCEPT !.waited = @ + 1]
    /\ Same /\ UNCHANGED <<irq, told>>

(* drain: the ring before the line. *)
Drain == /\ call.at = "free" /\ UNCHANGED <<call, told>>
         /\ \/ PopNtf /\ UNCHANGED irq
            \/ held = 0 /\ irq # <<>> /\ irq' = Tail(irq) /\ Same

PollFrame == /\ call.at = "free" /\ irq # <<>> /\ irq' = Tail(irq) /\ Same
             /\ UNCHANGED <<call, told>>

(* The controller raises the line. *)
Raise(k) == /\ told < MaxFrames /\ told' = told + 1
            /\ irq' = Append(irq, [k |-> k, id |-> told + 1])
            /\ Same /\ UNCHANGED call

NtNext == \/ Transact \/ ReadTurn \/ WaitTurn \/ Drain \/ PollFrame
          \/ \E k \in {"ntf", "rsp", "data"} : Raise(k)

NtSpec == NtInit /\ [][NtNext]_ntVars

-----------------------------------------------------------------------------
(* The stash as its users see it. *)
Stash == [i \in 1..held |-> ring[(first + i - 1) % NtfSlots]]

Newest(s) == IF Len(s) > NtfSlots THEN Tail(s) ELSE s

(* Wherever the head has wandered, the ring is a queue that drops its      *)
(* oldest: a notification is added at the end, taken from the front, never *)
(* lost but by the one that needs its place.                               *)
StashIsQueue ==
    [][\/ Stash' = Stash
       \/ irq # <<>> /\ Stash' = Newest(Append(Stash, Head(irq).id)) /\ irq' = Tail(irq)
       \/ Stash # <<>> /\ Stash' = Tail(Stash) /\ UNCHANGED irq]_ntVars
=============================================================================
