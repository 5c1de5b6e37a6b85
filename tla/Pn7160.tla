------------------------------- MODULE Pn7160 -------------------------------
(***************************************************************************)
(* Pn7160Driver (crates/pn7160-nci/src/driver.rs) and the reader           *)
(* operations of lib.rs it is built from, against the NFC controller, and  *)
(* the two loops that drive it: the TCP reader of wifi_ccid.rs (presence   *)
(* polls, mute recovery) and the vpcd client of                            *)
(* crates/ccid-service/src/vpcd.rs (ATR probes, time-driven maintenance).  *)
(*                                                                         *)
(* Frames are abstracted to what event_of and is_rsp_to tell apart.  A tag *)
(* is found by an activation ("auto": the interface is up, the ATS is      *)
(* known) or by a discovery notification ("plain": it must be selected).   *)
(* last_ntf and last_auto_ats always change together: both are drv.tag.    *)
(* The controller is external: it is what the comments of the code report. *)
(***************************************************************************)
EXTENDS Naturals, Sequences

CONSTANTS
    Paths,              \* subset of {"tcp", "vpcd"}
    Tags,               \* subset of {"auto", "plain"}: how tags on the coil are reported
    Faults,             \* subset of {"silent", "refusing", "nak"}: how the controller fails
    PresenceRearmPolls, ParkedRearmPolls, ParkedRearmWakes,
    AbsentRearmsToClear, RearmRspPolls, RearmNtfPolls,
    CollectRounds,      \* collect_rounds of power_on
    DataRounds,         \* DATA_COLLECT_ROUNDS
    MuteThreshold,      \* I2C_MUTE_THRESHOLD
    MaxOps, MaxMoves, MaxFaults,    \* bounds: host operations and reconnections, tag moves, faults
    FaultyPaths         \* bound: the paths on which faults happen

ASSUME Pn7160Assumption ==
    /\ Paths \subseteq {"tcp", "vpcd"} /\ Tags \subseteq {"auto", "plain"}
    /\ Faults \subseteq {"silent", "refusing", "nak"}
    /\ \A n \in {PresenceRearmPolls, ParkedRearmPolls, ParkedRearmWakes, AbsentRearmsToClear,
                 RearmRspPolls, RearmNtfPolls, DataRounds, MuteThreshold} : n \in Nat \ {0}
    /\ {CollectRounds, MaxOps, MaxMoves, MaxFaults} \subseteq Nat /\ FaultyPaths \subseteq Paths

VARIABLES
    path,       \* which loop serves the reader
    drv,        \* the driver's fields
    chip,       \* the controller: mode, fault, pending command, frames to read
    naks,       \* I2C_SEND_FAILURES, up to the threshold
    tag,        \* the tag on the coil, or "none"
    op,         \* the blocking operation under way: kind, rounds, who asked
    told,       \* TCP loop: what is_card_present last returned
    turn,       \* TCP loop: read a command, or the tail of the iteration
    cached_atr, \* vpcd: an ATR is cached
    apdu, reply,        \* the last exchange, and the one whose DATA it was given
    timed_out,          \* history: the last exchange that timed out, while its name is not used again
    disturbed,          \* history: a re-arm wrote to a live tag's interface
    ops, moves, faults  \* what is left of the bounds

pnVars == <<path, drv, chip, naks, tag, op, told, turn, cached_atr, apdu, reply, timed_out, disturbed,
            ops, moves, faults>>

NoOp == [kind |-> "none", rounds |-> 0, by |-> "host"]
NoRearm == [phase |-> "none", polls |-> 0]
Rsp(cmd, ok) == [f |-> "rsp", cmd |-> cmd, ok |-> ok]
Tag(kind) == [f |-> "tag", kind |-> kind]
Other(a) == IF a = "a" THEN "b" ELSE "a"
LinkLost == [f |-> "lost"]
Data(of) == [f |-> "data", of |-> of]

NewDriver ==
    [active |-> FALSE, tag |-> "none", rearm |-> NoRearm, parked |-> FALSE, probe |-> FALSE,
     polls |-> 0, absent |-> 0, silent |-> 0, wakes |-> ParkedRearmWakes]

-----------------------------------------------------------------------------
(* The controller (external) *)

Healthy == chip.fault = "none"

\* An interface that carried a session may leave the controller sitting: it
\* acknowledges a deactivation and does not poll again.
AfterTeardown(c) == IF c.used THEN {"discovery", "seated"} ELSE {"discovery"}

\* It executes a command: what it then does, and its response.  One that is
\* "refusing" refuses the deactivation and is silent on the discovery.
Execute(c, cmd) ==
    CASE c.fault = "refusing" /\ cmd # "none" ->
            {[c EXCEPT !.cmd = "none", !.q = IF cmd = "deactivate" THEN Append(@, Rsp(cmd, FALSE)) ELSE @]}
      [] c.fault # "refusing" /\ cmd = "deactivate" /\ c.mode = "idle" -> {[c EXCEPT !.cmd = "none", !.q = Append(@, Rsp(cmd, FALSE))]}
      [] c.fault # "refusing" /\ cmd = "deactivate" /\ c.mode = "seated" -> {[c EXCEPT !.cmd = "none", !.q = Append(@, Rsp(cmd, TRUE))]}
      [] c.fault # "refusing" /\ cmd = "deactivate" /\ c.mode \notin {"idle", "seated"} ->
            {[c EXCEPT !.cmd = "none", !.mode = m, !.used = FALSE, !.owed = "none",
                       !.q = Append(@, Rsp(cmd, TRUE))] : m \in AfterTeardown(c)}
      [] c.fault # "refusing" /\ cmd = "discover" ->
            {[c EXCEPT !.cmd = "none", !.mode = IF @ \in {"idle", "seated"} THEN "discovery" ELSE @,
                       !.q = Append(@, Rsp(cmd, c.mode \in {"idle", "seated"}))]}
      [] OTHER -> {c}

\* A command is taken when the one before it has been executed; a controller
\* that has gone silent swallows it.
Taken(c, cmd) ==
    IF c.fault = "silent" THEN {[c EXCEPT !.cmd = "none"]}
    ELSE {[e EXCEPT !.cmd = cmd] : e \in Execute(c, c.cmd)}

-----------------------------------------------------------------------------
(* The reader operations of lib.rs.  A state of the link is                  *)
(* [d |-> driver, c |-> controller, n |-> failed writes].                    *)

\* Transport::send, the outcomes of the write.
Send(w, cmd) ==
    IF w.c.fault = "nak"
    THEN {[w |-> [w EXCEPT !.n = IF @ < MuteThreshold THEN @ + 1 ELSE @], ok |-> FALSE]}
    ELSE {[w |-> [w EXCEPT !.n = 0, !.c = c], ok |-> TRUE] : c \in Taken(w.c, cmd)}

\* event_of, wait_for_event: everything before the first presence signal is
\* dropped.
IsEvent(f) == f.f \in {"tag", "lost"}
Events(q) == {i \in DOMAIN q : IsEvent(q[i])}
WaitForEvent(w) ==
    IF Events(w.c.q) = {} THEN [w |-> [w EXCEPT !.c.q = <<>>], ev |-> [f |-> "none"]]
    ELSE LET i == CHOOSE j \in Events(w.c.q) : \A k \in Events(w.c.q) : j <= k
         IN [w |-> [w EXCEPT !.c.q = SubSeq(@, i + 1, Len(@))], ev |-> w.c.q[i]]

\* poll_frame.
PollFrame(w) ==
    IF w.c.q = <<>> THEN [w |-> w, f |-> [f |-> "none"]]
    ELSE [w |-> [w EXCEPT !.c.q = Tail(@)], f |-> Head(w.c.q)]

\* transact_strict: frames that do not answer the command are dropped; the
\* controller answers within the budget, or later.
TransactStrict(w, cmd) ==
    UNION {IF ~s.ok THEN {s}
           ELSE {[w |-> [s.w EXCEPT !.c.q = <<>>], ok |-> FALSE]}
                \cup (IF s.w.c.fault # "none" THEN {}
                      ELSE {[w |-> [s.w EXCEPT !.c = [c EXCEPT !.q = <<>>]], ok |-> c.q[Len(c.q)].ok]
                               : c \in Execute(s.w.c, cmd)})
           : s \in Send(w, cmd)}

\* deactivate_to_discovery (drains the link when it succeeds) and
\* restart_discovery, the fall-back.
DeactivateToDiscovery(w) == TransactStrict(w, "deactivate")
Teardown(w) ==
    UNION {IF r.ok THEN {r.w} ELSE {s.w : s \in TransactStrict(r.w, "discover")}
           : r \in DeactivateToDiscovery(w)}

\* settle_drain: whatever arrives during its beats is dropped too, the
\* notification of a tag found meanwhile included.
SettleDrain(w) ==
    LET empty == [w EXCEPT !.c.q = <<>>]
    IN {empty}
       \cup (IF w.c.mode = "discovery" /\ w.c.fault = "none" /\ tag = "auto"
             THEN {[empty EXCEPT !.c.mode = "activated", !.c.used = FALSE]} ELSE {})
       \cup (IF w.c.owed = "none" THEN {} ELSE {[empty EXCEPT !.c.owed = "none"]})

-----------------------------------------------------------------------------
(* Presence *)

ClearTag(d) ==
    [d EXCEPT !.tag = "none", !.polls = 0, !.absent = 0, !.rearm = NoRearm,
              !.probe = TRUE, !.parked = FALSE]
LatchTag(d, kind) == [ClearTag(d) EXCEPT !.tag = kind, !.silent = 0]
TeardownOnLinkLoss(d) == [ClearTag(d) EXCEPT !.active = FALSE]

\* absorb_event.
Absorb(d, ev) == IF ev.f = "tag" THEN LatchTag(d, ev.kind) ELSE ClearTag(d)

Silent(d) == [d EXCEPT !.silent = IF @ < MuteThreshold THEN @ + 1 ELSE @, !.rearm = NoRearm]

\* advance_or_give_up, advance_probe_or_give_up.
AdvanceOrGiveUp(d) ==
    IF d.rearm.polls + 1 >= RearmRspPolls THEN Silent(d) ELSE [d EXCEPT !.rearm.polls = @ + 1]

\* A write of the re-arm: on success the machine waits for its response.
RearmWrite(w, cmd, phase) ==
    {IF s.ok THEN [s.w EXCEPT !.d.rearm = [phase |-> phase, polls |-> 0]] ELSE s.w
     : s \in Send(w, cmd)}

\* Mutant: any answer to the deactivation ends the silent streak.
ForgivingAwaitRsp(w) ==
    LET p == PollFrame(w)
        quiet == [p.w EXCEPT !.d.rearm = NoRearm, !.d.silent = 0]
    IN IF p.f.f = "rsp" /\ p.f.cmd = "deactivate"
       THEN IF p.f.ok
            THEN {[p.w EXCEPT !.d.silent = 0, !.d.rearm = [phase |-> "ntf", polls |-> 0]]}
            ELSE RearmWrite(quiet, "discover", "probe")
       ELSE IF IsEvent(p.f) THEN {[p.w EXCEPT !.d = Absorb(@, p.f)]}
       ELSE {[p.w EXCEPT !.d = AdvanceOrGiveUp(@)]}

\* step_rearm, AwaitRsp.
AwaitRsp(w) ==
    LET p == PollFrame(w)
    IN IF p.f.f = "rsp" /\ p.f.cmd = "deactivate"
       THEN IF p.f.ok
            THEN {[p.w EXCEPT !.d.silent = 0, !.d.rearm = [phase |-> "ntf", polls |-> 0]]}
            ELSE RearmWrite([p.w EXCEPT !.d.rearm = NoRearm], "discover", "probe")
       ELSE IF IsEvent(p.f) THEN {[p.w EXCEPT !.d = Absorb(@, p.f)]}
       ELSE {[p.w EXCEPT !.d = AdvanceOrGiveUp(@)]}

\* Mutant: an empty window says nothing about the tag.
StickyAwaitNtf(w) ==
    IF w.d.rearm.polls + 1 < RearmNtfPolls THEN {[w EXCEPT !.d.rearm.polls = @ + 1]}
    ELSE {[w EXCEPT !.d.rearm = NoRearm, !.d.polls = 0]}

\* step_rearm, AwaitNtf: the window closes with one more empty cycle; the
\* last one clears the tag and parks; the one-shot probe restarts discovery.
AwaitNtf(w) ==
    LET gone == w.d.absent + 1 >= AbsentRearmsToClear
        closed == [w.d EXCEPT !.rearm = NoRearm, !.polls = 0,
                              !.absent = IF gone THEN 0 ELSE @ + 1,
                              !.tag = IF gone THEN "none" ELSE @,
                              !.parked = @ \/ gone]
        probing == {IF s.ok THEN [s.w EXCEPT !.d.probe = FALSE,
                                             !.d.rearm = [phase |-> "probe", polls |-> 0]]
                    ELSE s.w : s \in Send([w EXCEPT !.d = closed], "discover")}
    IN IF w.d.rearm.polls + 1 < RearmNtfPolls THEN {[w EXCEPT !.d.rearm.polls = @ + 1]}
       ELSE IF w.d.probe THEN probing
       ELSE {[w EXCEPT !.d = closed]}

\* step_rearm, DiscoverProbeRsp.
AwaitProbeRsp(w) ==
    LET p == PollFrame(w)
    IN IF p.f.f = "rsp" /\ p.f.cmd = "discover"
       THEN {[p.w EXCEPT !.d.rearm = IF p.f.ok THEN [phase |-> "ntf", polls |-> 0] ELSE NoRearm]}
       ELSE IF IsEvent(p.f) THEN {[p.w EXCEPT !.d = Absorb(@, p.f)]}
       ELSE {[p.w EXCEPT !.d = AdvanceOrGiveUp(@)]}

StepRearm(w) ==
    CASE w.d.rearm.phase = "rsp" -> AwaitRsp(w)
      [] w.d.rearm.phase = "ntf" -> AwaitNtf(w)
      [] w.d.rearm.phase = "probe" -> AwaitProbeRsp(w)
      [] OTHER -> {w}

\* The cadence of is_card_present: fast, and slow when parked.
Cadence(w) ==
    LET cadence == IF w.d.parked THEN ParkedRearmPolls ELSE PresenceRearmPolls
    IN IF w.d.rearm # NoRearm THEN {w}
       ELSE IF w.d.polls + 1 < cadence THEN {[w EXCEPT !.d.polls = @ + 1]}
       ELSE RearmWrite([w EXCEPT !.d.polls = 0], "deactivate", "rsp")

\* is_card_present with a session: no writes, the link loss ends it.
PresentInSession(w) ==
    LET e == WaitForEvent(w)
    IN CASE e.ev.f = "lost" -> {[w |-> [e.w EXCEPT !.d = TeardownOnLinkLoss(@)], told |-> FALSE]}
         [] e.ev.f = "tag" -> {[w |-> [e.w EXCEPT !.d = LatchTag(@, e.ev.kind)], told |-> TRUE]}
         [] OTHER -> {[w |-> e.w, told |-> TRUE]}

\* is_card_present without one.
PresentIdle(w) ==
    LET afterEvent(e) ==
            CASE e.ev.f = "tag" -> {[w |-> [e.w EXCEPT !.d = LatchTag(@, e.ev.kind)], told |-> TRUE]}
              [] e.ev.f = "lost" -> {[w |-> [e.w EXCEPT !.d = ClearTag(@)], told |-> FALSE]}
              [] e.ev.f = "none" /\ e.w.d.tag = "auto" -> {[w |-> e.w, told |-> TRUE]}
              [] OTHER -> {[w |-> v, told |-> v.d.tag # "none"] : v \in Cadence(e.w)}
    IN UNION {afterEvent(WaitForEvent(v)) : v \in StepRearm(w)}

IsCardPresent(w) == IF w.d.active THEN PresentInSession(w) ELSE PresentIdle(w)

\* Mutant: the idle wake takes the re-arm under way a step further and starts
\* none.
PollsOnly(w, due) ==
    LET drained(v) == LET e == WaitForEvent(v)
                      IN IF e.ev.f = "none" THEN e.w ELSE [e.w EXCEPT !.d = Absorb(@, e.ev)]
    IN {drained(v) : v \in StepRearm(w)}

\* poll_maintenance: `due` says that PARKED_REARM_MS have passed.
PollMaintenance(w, due) ==
    LET drained(v) == LET e == WaitForEvent(v)
                      IN IF e.ev.f = "none" THEN e.w ELSE [e.w EXCEPT !.d = Absorb(@, e.ev)]
        rearmed(v) == IF ~v.d.parked \/ v.d.rearm # NoRearm \/ ~due THEN {v}
                      ELSE {IF s.ok THEN [s.w EXCEPT !.d.rearm = [phase |-> "rsp", polls |-> 0],
                                                     !.d.wakes = 0]
                            ELSE s.w : s \in Send(v, "deactivate")}
    IN UNION {rearmed(drained(v)) : v \in StepRearm(w)}

-----------------------------------------------------------------------------
(* Sessions *)

Link == [d |-> drv, c |-> chip, n |-> naks]
Becomes(w) == drv' = w.d /\ chip' = w.c /\ naks' = w.n

\* The driver trusts an activation or a session.
Trusting == drv.tag = "auto" \/ drv.active

\* A step of the re-arm: does it disturb a tag in a live interface?
Rearms(w) ==
    /\ Becomes(w)
    /\ disturbed' = (disturbed \/ (w.c.cmd \notin {"none", chip.cmd} /\ Trusting))

\* power_off: an activation is kept for the next power_on, a selected session
\* is torn down.
PowerOff(w) ==
    IF w.d.tag = "auto"
    THEN {[w EXCEPT !.d.active = FALSE, !.d.probe = TRUE, !.d.parked = FALSE]}
    ELSE {[v EXCEPT !.d.active = FALSE, !.d.tag = "none", !.d.rearm = NoRearm, !.d.probe = TRUE,
                    !.d.parked = FALSE, !.d.silent = 0]
          : v \in IF w.d.active THEN Teardown(w) ELSE {w}}

\* select_tag: the frame read after the response must be the activation.
SelectTag(w) ==
    LET answers == w.c.fault = "none" /\ w.c.mode = "select"
        selected == [w EXCEPT !.c.mode = "activated", !.c.used = FALSE,
                              !.c.q = Tail(Append(@, Tag("auto")))]
    IN IF ~answers THEN [w |-> w, ok |-> FALSE]
       ELSE [w |-> selected, ok |-> w.c.q = <<>>]

\* power_on ends: the vpcd client caches the ATR, or drops the cached one when
\* the host had not asked for it.
PoweredOn(ok) ==
    /\ op' = NoOp
    /\ cached_atr' = (path = "vpcd" /\ (ok \/ (op.by = "atr" /\ cached_atr)))

\* An activation opens the session when its ATS makes an ATR that fits.
Opens(w, activated) ==
    \E ok \in IF activated THEN BOOLEAN ELSE {FALSE} :
        /\ Becomes([w EXCEPT !.d.active = @ \/ ok, !.c.used = @ \/ (ok /\ w.c.mode = "activated")])
        /\ PoweredOn(ok)

StartPowerOn(by) == op' = [kind |-> "collect", rounds |-> 0, by |-> by]

\* One round of power_on's collection.
CollectTag ==
    /\ op.kind = "collect"
    /\ LET e == WaitForEvent(Link)
           fresh == [e.w EXCEPT !.d.tag = e.ev.kind]
       IN \/ /\ e.ev.f = "tag" /\ e.ev.kind = "auto"
             /\ Opens(fresh, TRUE)
          \/ /\ e.ev.f = "tag" /\ e.ev.kind = "plain"
             /\ LET s == SelectTag(fresh) IN Opens(s.w, s.ok)
          \/ /\ e.ev.f = "lost"
             /\ Becomes([e.w EXCEPT !.d = ClearTag(@)]) /\ PoweredOn(FALSE)
          \/ /\ e.ev.f = "none" /\ op.rounds < CollectRounds
             /\ op' = [op EXCEPT !.rounds = @ + 1]
             /\ Becomes(e.w) /\ UNCHANGED cached_atr
          \/ /\ e.ev.f = "none" /\ op.rounds = CollectRounds /\ drv.tag = "auto"
             /\ Opens(e.w, TRUE)
          \/ /\ e.ev.f = "none" /\ op.rounds = CollectRounds /\ drv.tag = "plain"
             /\ Becomes([e.w EXCEPT !.d = ClearTag(@)]) /\ PoweredOn(FALSE)
          \/ /\ e.ev.f = "none" /\ op.rounds = CollectRounds /\ drv.tag = "none"
             /\ \E r \in DeactivateToDiscovery(e.w) : Becomes(r.w)
             /\ op' = [op EXCEPT !.kind = "recollect", !.rounds = 0]
             /\ UNCHANGED cached_atr
    /\ UNCHANGED <<path, tag, told, turn, apdu, reply, timed_out, disturbed, ops, moves, faults>>

\* One round of the second collection; a tag without an ATS is not selected.
RecollectTag ==
    /\ op.kind = "recollect"
    /\ LET e == WaitForEvent(Link)
       IN \/ /\ e.ev.f = "tag"
             /\ Opens([e.w EXCEPT !.d.tag = e.ev.kind], e.ev.kind = "auto")
          \/ /\ e.ev.f = "lost"
             /\ Becomes([e.w EXCEPT !.d = ClearTag(@)]) /\ PoweredOn(FALSE)
          \/ /\ e.ev.f = "none" /\ op.rounds < CollectRounds
             /\ op' = [op EXCEPT !.rounds = @ + 1]
             /\ Becomes(e.w) /\ UNCHANGED cached_atr
          \/ /\ e.ev.f = "none" /\ op.rounds = CollectRounds
             /\ Becomes(e.w) /\ PoweredOn(FALSE)
    /\ UNCHANGED <<path, tag, told, turn, apdu, reply, timed_out, disturbed, ops, moves, faults>>

\* Mutant: the time-out empties the link and keeps the session.
SessionKept(w) == SettleDrain(w)

\* The exchange timed out: tear down, empty the link, end the session.
Resync(w) ==
    {[v EXCEPT !.d = [ClearTag(@) EXCEPT !.active = FALSE]]
     : v \in UNION {SettleDrain(t) : t \in Teardown(w)}}

\* transmit_apdu: the DATA packets go out; without a session nothing does.
TransmitApdu ==
    /\ reply' = "none"
    /\ IF ~drv.active THEN UNCHANGED <<drv, chip, naks, op, apdu, timed_out>>
       ELSE /\ apdu' = Other(apdu)
            /\ IF chip.fault = "nak"
               THEN /\ \E w \in Resync([Link EXCEPT !.n = IF @ < MuteThreshold THEN @ + 1 ELSE @]) : Becomes(w)
                    /\ timed_out' = apdu' /\ UNCHANGED op
               ELSE /\ op' = [kind |-> "exchange", rounds |-> 0, by |-> "host"]
                    /\ Becomes([Link EXCEPT !.n = 0,
                            !.c.used = @ \/ chip.mode = "activated",
                            !.c.owed = IF Healthy /\ chip.mode = "activated" THEN apdu' ELSE @])
                    /\ timed_out' = IF timed_out = apdu' THEN "none" ELSE timed_out

\* One round of exchange_detailed.  An empty DATA packet is a tag that faded.
ExchangeRound ==
    /\ op.kind = "exchange"
    /\ LET p == PollFrame(Link)
       IN \/ /\ p.f.f \in {"lost", "data"}
             /\ Becomes([p.w EXCEPT !.d = TeardownOnLinkLoss(@)])
             /\ op' = NoOp /\ UNCHANGED <<reply, timed_out>>
          \/ /\ p.f.f = "data"
             /\ Becomes(p.w) /\ reply' = p.f.of /\ op' = NoOp /\ UNCHANGED timed_out
          \/ /\ p.f.f \notin {"lost", "data"} /\ op.rounds < DataRounds
             /\ Becomes(p.w) /\ op' = [op EXCEPT !.rounds = @ + 1]
             /\ UNCHANGED <<reply, timed_out>>
          \/ /\ p.f.f \notin {"lost", "data"} /\ op.rounds = DataRounds
             /\ \E w \in Resync(p.w) : Becomes(w)
             /\ op' = NoOp /\ timed_out' = apdu /\ UNCHANGED reply
    /\ UNCHANGED <<path, tag, told, turn, cached_atr, apdu, disturbed, ops, moves, faults>>

-----------------------------------------------------------------------------
(* Bring-up and recovery *)

\* ven_cycle.
VenCycle(c) == [mode |-> "idle", fault |-> "none", cmd |-> "none", q |-> <<>>,
                used |-> FALSE, owed |-> "none"]

\* init: run_ladder on a controller out of reset.  It may fail; the
\* notification of a tag on the coil may be lost to it.
Initialised(w) ==
    LET up == [w EXCEPT !.c.mode = "discovery", !.d.polls = PresenceRearmPolls]
    IN {w, up} \cup (IF tag = "auto" THEN {[up EXCEPT !.c.mode = "activated"]} ELSE {})

\* mute_recovery.
Muted(w) == w.n >= MuteThreshold \/ w.d.silent >= MuteThreshold
Recovered(w) ==
    IF ~Muted(w) THEN {w}
    ELSE UNION {Initialised([v EXCEPT !.c = VenCycle(@)]) : v \in PowerOff(w)}

\* The timing of a healthy controller: a command is answered, and a tag found,
\* within the polls the re-arm waits for them.  Being late counts as a fault.
Findable == Healthy /\ chip.mode = "discovery" /\ tag # "none"
Timely ==
    \/ ~Healthy
    \/ drv.rearm.phase = "ntf" /\ (drv.rearm.polls + 1 < RearmNtfPolls \/ ~Findable)
    \/ drv.rearm.phase # "ntf" /\ (drv.rearm.polls + 1 < RearmRspPolls \/ chip.cmd = "none")
InTime ==
    \/ Timely /\ UNCHANGED faults
    \/ ~Timely /\ faults > 0 /\ faults' = faults - 1

-----------------------------------------------------------------------------
(* The TCP reader *)

TcpTurn(t) == path = "tcp" /\ turn = t /\ op = NoOp

\* A host command that reaches the driver.  IccPowerOn trusts the presence
\* polled last.
TcpCommand ==
    /\ TcpTurn("read") /\ ops > 0 /\ ops' = ops - 1
    /\ turn' = "tail"
    /\ \/ told /\ StartPowerOn("host") /\ UNCHANGED <<drv, chip, naks, apdu, reply, timed_out>>
       \/ \E w \in PowerOff(Link) : Becomes(w) /\ UNCHANGED <<op, apdu, reply, timed_out>>
       \/ TransmitApdu
    /\ UNCHANGED <<path, tag, told, cached_atr, disturbed, moves, faults>>

TcpTimeout ==
    /\ TcpTurn("read") /\ turn' = "tail"
    /\ UNCHANGED <<path, drv, chip, naks, tag, op, told, cached_atr, apdu, reply, timed_out, disturbed, ops, moves, faults>>

\* The tail of an iteration without a presence poll, and with one: a driver
\* with a session is not asked (check_card_change).
TcpTail ==
    /\ TcpTurn("tail") /\ turn' = "read"
    /\ \E w \in Recovered(Link) : Becomes(w)
    /\ UNCHANGED <<path, tag, op, told, cached_atr, apdu, reply, timed_out, disturbed, ops, moves, faults>>

TcpPoll ==
    /\ TcpTurn("tail") /\ turn' = "read" /\ InTime
    /\ \E w \in Recovered(Link) :
         \/ /\ w.d.active /\ Becomes(w) /\ told' = TRUE /\ UNCHANGED disturbed
         \/ /\ ~w.d.active
            /\ \E r \in IsCardPresent(w) : Rearms(r.w) /\ told' = r.told
    /\ UNCHANGED <<path, tag, op, cached_atr, apdu, reply, timed_out, ops, moves>>

-----------------------------------------------------------------------------
(* The vpcd client *)

VpcdFree == path = "vpcd" /\ op = NoOp

\* VPCD_CTRL_ATR: answered from the cache while a session lives.
HostAtr ==
    /\ VpcdFree /\ InTime
    /\ \E r \in IsCardPresent(Link) :
         /\ Rearms(r.w)
         /\ \/ /\ ~r.told /\ cached_atr' = FALSE /\ UNCHANGED op
            \/ /\ r.told /\ r.w.d.active /\ cached_atr /\ UNCHANGED <<op, cached_atr>>
            \/ /\ r.told /\ ~(r.w.d.active /\ cached_atr)
               /\ StartPowerOn("atr") /\ UNCHANGED cached_atr
    /\ UNCHANGED <<path, tag, told, turn, apdu, reply, timed_out, ops, moves>>

\* VPCD_CTRL_ON, OFF, RESET and an APDU.
VpcdCommand ==
    /\ VpcdFree /\ ops > 0 /\ ops' = ops - 1
    /\ \/ StartPowerOn("host") /\ UNCHANGED <<drv, chip, naks, cached_atr, apdu, reply, timed_out>>
       \/ /\ \E w \in PowerOff(Link) : Becomes(w)
          /\ cached_atr' = FALSE /\ UNCHANGED <<op, apdu, reply, timed_out>>
       \/ /\ \E w \in PowerOff(Link) : Becomes(w)
          /\ StartPowerOn("host") /\ UNCHANGED <<cached_atr, apdu, reply, timed_out>>
       \/ TransmitApdu /\ UNCHANGED cached_atr
    /\ UNCHANGED <<path, tag, told, turn, disturbed, moves, faults>>

\* The read timed out on an idle link: the maintenance of a driver whose host
\* is silent, as often as it is.
IdleWake ==
    /\ VpcdFree /\ InTime
    /\ \E due \in IF drv.wakes = ParkedRearmWakes THEN {TRUE} ELSE BOOLEAN :
         \E w \in PollMaintenance([Link EXCEPT !.d.wakes = IF @ < ParkedRearmWakes THEN @ + 1 ELSE @], due) :
            Rearms(w)
    /\ UNCHANGED <<path, tag, op, told, turn, cached_atr, apdu, reply, timed_out, ops, moves>>

\* The link to the host is lost; serve_connection starts over.
Reconnect ==
    /\ VpcdFree /\ cached_atr /\ cached_atr' = FALSE
    /\ ops > 0 /\ ops' = ops - 1
    /\ UNCHANGED <<path, drv, chip, naks, tag, op, told, turn, apdu, reply, timed_out, disturbed, moves, faults>>

-----------------------------------------------------------------------------
(* The controller and the coil (external) *)

rest == <<path, drv, naks, op, told, turn, cached_atr, apdu, reply, timed_out, disturbed, ops>>

Couple(k) ==
    /\ tag = "none" /\ moves > 0
    /\ tag' = k /\ moves' = moves - 1
    /\ UNCHANGED <<rest, chip, faults>>

\* A lost link is announced; a tag resting in discovery leaves no trace.
Remove ==
    /\ tag # "none" /\ moves > 0
    /\ tag' = "none" /\ moves' = moves - 1
    /\ \/ /\ chip.mode = "activated"
          /\ \E m \in AfterTeardown(chip) :
               chip' = [chip EXCEPT !.mode = m, !.used = FALSE, !.owed = "none",
                                    !.q = IF Healthy THEN Append(@, LinkLost) ELSE @]
       \/ /\ chip.mode # "activated"
          /\ chip' = [chip EXCEPT !.mode = IF @ = "select" THEN "discovery" ELSE @]
    /\ UNCHANGED <<rest, faults>>

Find ==
    /\ Findable
    /\ chip' = [chip EXCEPT !.mode = IF tag = "auto" THEN "activated" ELSE "select",
                            !.used = FALSE, !.q = Append(@, Tag(tag))]
    /\ UNCHANGED <<rest, tag, moves, faults>>

\* An empty coil: a discovery that ran its course leaves the controller idle.
Doze ==
    /\ Healthy /\ chip.mode = "discovery" /\ tag = "none" /\ chip.cmd = "none"
    /\ chip' = [chip EXCEPT !.mode = "idle"]
    /\ UNCHANGED <<rest, tag, moves, faults>>

Answer ==
    /\ chip.fault \in {"none", "refusing"} /\ chip.cmd # "none" /\ chip' \in Execute(chip, chip.cmd)
    /\ UNCHANGED <<rest, tag, moves, faults>>

CardAnswers ==
    /\ Healthy /\ chip.owed # "none" /\ chip.mode = "activated"
    /\ chip' = [chip EXCEPT !.q = Append(@, Data(chip.owed)), !.owed = "none"]
    /\ UNCHANGED <<rest, tag, moves, faults>>

\* The controller wedges: it stops answering, or answering its address.
Break(f) ==
    /\ Healthy /\ faults > 0 /\ faults' = faults - 1
    /\ chip' = [chip EXCEPT !.fault = f, !.cmd = "none", !.owed = "none",
                            !.q = IF f = "nak" THEN <<>> ELSE @]
    /\ UNCHANGED <<rest, tag, moves>>

-----------------------------------------------------------------------------

\* bring_up: the ladder ran, or the frontend is served degraded.
PnInit ==
    /\ path \in Paths /\ tag \in Tags \cup {"none"}
    /\ naks = 0 /\ op = NoOp /\ told = FALSE /\ turn = "read" /\ cached_atr = FALSE
    /\ apdu = "a" /\ reply = "none" /\ timed_out = "none" /\ disturbed = FALSE
    /\ ops = MaxOps /\ moves = MaxMoves /\ faults = IF path \in FaultyPaths THEN MaxFaults ELSE 0
    /\ \E w \in Initialised([d |-> NewDriver, c |-> VenCycle("off"), n |-> 0]) :
          drv = w.d /\ chip = w.c

PnServe == TcpCommand \/ TcpTimeout \/ TcpTail \/ TcpPoll
           \/ HostAtr \/ VpcdCommand \/ IdleWake \/ Reconnect

PnWorld == (\E k \in Tags : Couple(k)) \/ Remove \/ Find \/ Doze \/ Answer \/ CardAnswers
           \/ (\E f \in Faults : Break(f))

PnNext == CollectTag \/ RecollectTag \/ ExchangeRound \/ PnServe \/ PnWorld

\* One thread serves the reader and none of its waits is unbounded.  Nothing is
\* said of the vpcd host: it may ask for ever or fall silent for ever (Asked,
\* TimePasses).
PnStep == CollectTag \/ RecollectTag \/ ExchangeRound \/ TcpTimeout \/ TcpTail \/ TcpPoll

PnSpec ==
    /\ PnInit /\ [][PnNext]_pnVars
    /\ WF_pnVars(PnStep) /\ SF_pnVars(TcpPoll)
    /\ WF_pnVars(Find) /\ WF_pnVars(Answer)

-----------------------------------------------------------------------------
(* Properties *)

\* The driver goes on being asked whether a card is there: by the TCP loop, or
\* by a vpcd host that has not fallen silent.
Asked == []<><<TcpPoll \/ HostAtr>>_pnVars

\* The vpcd client's read goes on timing out: "pcscd STOPS polling entirely once
\* it marks a reader dead" (PARKED_REARM_MS).
TimePasses == WF_pnVars(IdleWake)

\* A tag that stays on the coil is found, whatever became of discovery
\* meanwhile: swallowed notifications, a controller that sat down after a
\* session, a parked driver.  A parked driver finds it with no host at all:
\* "the parked re-arm must advance by TIME" (poll_maintenance).  One that is
\* not parked relies on being asked.  (A re-arm that outlives power_on may
\* undo it: LiveTagIsLeftAlone.)
Found == drv.tag # "none" \/ drv.active \/ tag = "none" \/ ~Healthy \/ disturbed
TagIsFound ==
    /\ TimePasses => []<>(Found \/ ~drv.parked)
    /\ Asked => []<>Found

\* Without a session, a tag is no longer reported once the controller has
\* announced its loss; one that was only discovered leaves unannounced, and an
\* asking host finds out.
Missing == tag = "none" /\ Healthy /\ ~drv.active
Announced == \E i \in DOMAIN chip.q : chip.q[i] = LinkLost
Noticed == drv.tag = "none" \/ drv.active \/ tag # "none" \/ ~Healthy
RemovalIsNoticed ==
    Asked => ((Missing /\ (Announced \/ drv.tag = "plain")) ~> Noticed)

\* The TCP reader heals a controller that no longer answers it, unless it
\* trusts an activation and has nothing to ask.
MuteIsHealed ==
    path = "tcp" => []<>(Healthy \/ Trusting)

\* The answer to an exchange that timed out never lands in the window of a
\* later one: the teardown emptied the link (transmit_apdu, settle_drain).
LateAnswerIsDropped == reply \notin {"none", apdu} => reply # timed_out

\* "so no late DATA response pollutes the next command window", and "LINK LOSS
\* needs none of that" (transmit_apdu): no exchange gets another's DATA.
NoForeignData == reply \in {"none", apdu}

\* "NO re-arm cycling in this state", "an active RF interface must not be
\* torn down behind the session's back" (is_card_present).
LiveTagIsLeftAlone ==
    ~disturbed

\* "presence is physical fact, and removal announces itself" (is_card_present).
PresenceIsPhysical ==
    Asked => (Missing ~> Noticed)

\* "a live session must not blind the driver ... this poll turns it into the
\* presence transition the serve layer announces" (is_card_present).
SessionEndsWithTag ==
    Asked => []<>(~drv.active \/ tag # "none" \/ ~Healthy)
=============================================================================
