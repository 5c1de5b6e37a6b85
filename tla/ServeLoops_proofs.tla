-------------------------- MODULE ServeLoops_proofs --------------------------
(***************************************************************************)
(* Proofs about the serial server under its three serve loops, for any     *)
(* windows, poll interval, read timeout, handler time, number of interim   *)
(* frames and queued commands, and for any modulus of the tick counter.    *)
(***************************************************************************)
EXTENDS ServeLoops, SequenceTheorems, TLAPS

-----------------------------------------------------------------------------
(* The inductive invariant *)

Stamps == 0..(Modulus - 1)
Presences == {None, "present", "absent"}
Servers == [frame_age : Stamps, window : Nat, poll_age : Stamps, echo : BOOLEAN,
            notify : Presences, resp : Classes \cup {None}, pending_notify : Presences,
            late_drops : Nat, known : BOOLEAN, snapshot : BOOLEAN, baud : BOOLEAN]
Commands == [class : Classes, age : Nat, grown : Nat \ {0}]
Frames == {"echo", "notify", "interim", "response"}

\* The part of the state that the server's own steps touch, and the loops'.
FrameTypes ==
    /\ transport \in {"uart", "tcp", "cdc"} /\ srv \in Servers /\ card \in BOOLEAN
    /\ te \in [armed : BOOLEAN, flushed : BOOLEAN, written : Nat]
    /\ cur \in Commands \cup {NoCmd} /\ wire \in Seq(Frames)
    /\ phase \in {"read", "work", "flush", "post", "down"}

LoopTypes ==
    /\ rx \in Seq(Commands) /\ worked \in 0..MaxWork
    /\ origin \in Stamps /\ pre \in Stamps /\ floor \in Stamps /\ read_end \in Stamps
    /\ garbled \in BOOLEAN /\ full \in BOOLEAN
    /\ taken \in 0..Len(rx) /\ (phase = "read" \/ transport = "uart" => taken = 0)

\* An exchange that the stall hook opened: one echo, then interim frames.
Opened(w) == w # <<>> /\ w[1] = "echo" /\ \A i \in 2..Len(w) : w[i] = "interim"

\* What the wire holds is told by the echo the server still owes and by the
\* hook's own record.
WireInv ==
    /\ WireOrder
    /\ transport # "uart" => srv.notify = None
    /\ phase # "work" => te = Disarmed
    /\ phase = "work" =>
          /\ srv.echo /\ cur \in Commands /\ srv.window = WindowOf[cur.class]
          /\ IF te.armed THEN transport # "uart" ELSE te = Disarmed
          /\ te.flushed <=> te.armed /\ te.written > 0
          /\ IF te.flushed THEN Opened(wire) ELSE wire = <<>>
    /\ phase = "flush" =>
          /\ cur \in Commands /\ srv.window = WindowOf[cur.class]
          /\ IF srv.echo THEN wire = <<>> ELSE Opened(wire) /\ transport # "uart"

\* A latch lives no longer than the response of the command that set it; only
\* a failed TCP write leaves the snapshot request behind.
LatchInv ==
    /\ srv.snapshot => transport = "tcp" \/ (phase = "flush" /\ cur.class = "Snapshot")
    /\ srv.baud => transport = "uart" /\ phase = "flush" /\ cur.class = "Baud"
    /\ PanicForOwnCommand

\* Where the next poll can be at the latest, phase by phase.
PollInv ==
    transport = "uart" =>
       /\ phase = "read" => origin <= ReadTimeout
       /\ ~garbled =>
            /\ phase = "read" => srv.poll_age < PollInterval + origin
            /\ phase = "work" => srv.poll_age < PollInterval + ReadTimeout + worked
            /\ phase = "flush" => srv.poll_age < PollInterval + ReadTimeout + MaxWork
            /\ phase \in {"post", "down"} => srv.poll_age < PollInterval

\* The stamp a response is judged from is never younger than the command.
UartAges ==
    transport = "uart" =>
       /\ phase = "read" => \A i \in DOMAIN rx : rx[i].age = 0
       /\ phase \in {"work", "flush", "post"} =>
             pre <= origin /\ \A i \in DOMAIN rx : rx[i].age <= pre
       /\ phase \in {"work", "flush"} => cur.age <= origin

BurstAges ==
    transport # "uart" =>
       /\ \A i \in DOMAIN rx : rx[i].age <= floor
       /\ phase \in {"work", "flush"} => cur.age <= floor
       /\ phase \in {"work", "flush", "post"} /\ ~full =>
             \A i \in DOMAIN rx : i > taken => rx[i].age <= read_end

FrameInv == FrameTypes /\ WireInv /\ LatchInv
LoopInv == LoopTypes /\ PollInv /\ UartAges /\ BurstAges
ServeInv == FrameInv /\ LoopInv

-----------------------------------------------------------------------------
(* The calls of the server *)

\* A wrapped number is a stamp.
LEMMA ModStamp == ASSUME NEW a \in Nat PROVE a % Modulus \in Stamps
BY ServerAssumption DEF Stamps

\* So is the current tick.
LEMMA ZeroStamp == 0 \in Stamps
BY ServerAssumption DEF Stamps

\* A stamp one tick older, as long as it does not wrap.
LEMMA OlderStamp ==
    ASSUME NEW a \in Stamps
    PROVE  Older(a) \in Stamps /\ (a < Modulus - 1 => Older(a) = a + 1)
<1>1. a \in Nat /\ a + 1 \in Nat
  BY ServerAssumption DEF Stamps
<1>2. Older(a) \in Stamps
  BY <1>1, ModStamp DEF Older
<1>3. ASSUME a < Modulus - 1 PROVE (a + 1) % Modulus = a + 1
  BY <1>1, <1>3, ServerAssumption
<1>4. QED
  BY <1>2, <1>3 DEF Older

\* What a presence poll leaves alone.
SameLatches(s, t) ==
    /\ t.echo = s.echo /\ t.notify = s.notify /\ t.window = s.window
    /\ t.snapshot = s.snapshot /\ t.baud = s.baud

\* What a tick does to the server.
LEMMA ElapseFacts ==
    ASSUME NEW s \in Servers
    PROVE  Elapse(s) \in Servers /\ SameLatches(s, Elapse(s)) /\ Elapse(s).poll_age = Older(s.poll_age)
<1>1. s.frame_age \in Stamps /\ s.poll_age \in Stamps
  BY DEF Servers
<1>2. Older(s.frame_age) \in Stamps /\ Older(s.poll_age) \in Stamps
  BY <1>1, OlderStamp
<1>3. QED
  BY <1>2 DEF Elapse, Servers, SameLatches

\* What poll_if_due returns.
LEMMA PollIfDueFacts ==
    ASSUME NEW s \in Servers, card \in BOOLEAN
    PROVE  /\ PollIfDue(s) \in Servers /\ SameLatches(s, PollIfDue(s))
           /\ PollIfDue(s).poll_age < PollInterval
           /\ PollIfDue(s).poll_age \in {0, s.poll_age}
<1> DEFINE v == [CheckCardChange(s) EXCEPT !.poll_age = 0]
<1>1. v \in Servers /\ SameLatches(s, v) /\ v.poll_age = 0
  BY ZeroStamp DEF CheckCardChange, Servers, SameLatches
<1>2. s.poll_age \in Nat /\ PollInterval \in Nat \ {0}
  BY ServerAssumption DEF Servers, Stamps
<1> HIDE DEF v
<1>3. CASE PollDue(s)
  <2>1. PollIfDue(s) = v
    BY <1>3 DEF PollIfDue, v
  <2>2. QED
    BY <1>1, <1>2, <2>1
<1>4. CASE ~PollDue(s)
  <2>1. PollIfDue(s) = s
    BY <1>4 DEF PollIfDue
  <2>2. s.poll_age < PollInterval
    BY <1>2, <1>4 DEF PollDue
  <2>3. QED
    BY <2>1, <2>2 DEF SameLatches
<1>5. QED
  BY <1>3, <1>4

\* What poll_and_stash returns.
LEMMA PollAndStashFacts ==
    ASSUME NEW s \in Servers, card \in BOOLEAN
    PROVE  /\ PollAndStash(s) \in Servers /\ SameLatches(s, PollAndStash(s))
           /\ PollAndStash(s).poll_age < PollInterval
           /\ PollAndStash(s).poll_age \in {0, s.poll_age}
<1> DEFINE told == IF Transition(s) THEN Presence ELSE s.pending_notify
           v == [CheckCardChange(s) EXCEPT !.poll_age = 0, !.pending_notify = told]
<1>1. told \in Presences
  BY DEF Presence, Presences, Servers
<1> HIDE DEF told
<1>2. v \in Servers /\ SameLatches(s, v) /\ v.poll_age = 0
  BY <1>1, ZeroStamp DEF CheckCardChange, Servers, SameLatches
<1>3. s.poll_age \in Nat /\ PollInterval \in Nat \ {0}
  BY ServerAssumption DEF Servers, Stamps
<1>4. CASE PollDue(s)
  <2>1. CheckCardChange(s).pending_notify = s.pending_notify
    BY DEF CheckCardChange, Servers
  <2>2. PollAndStash(s) = v
    BY <1>4, <2>1 DEF PollAndStash, told
  <2> HIDE DEF v
  <2>3. QED
    BY <1>2, <1>3, <2>2
<1>5. CASE ~PollDue(s)
  <2>1. PollAndStash(s) = s
    BY <1>5 DEF PollAndStash
  <2>2. s.poll_age < PollInterval
    BY <1>3, <1>5 DEF PollDue
  <2>3. QED
    BY <2>1, <2>2 DEF SameLatches
<1>6. QED
  BY <1>4, <1>5

\* What dispatching a command does to the server.
LEMMA DispatchFacts ==
    ASSUME NEW s \in Servers, NEW c \in Classes, card \in BOOLEAN
    PROVE  /\ Dispatch(s, c) \in Servers
           /\ Dispatch(s, c).echo /\ Dispatch(s, c).window = WindowOf[c]
           /\ Dispatch(s, c).snapshot = s.snapshot /\ Dispatch(s, c).baud = s.baud
           /\ transport # "uart" => Dispatch(s, c).notify = None
           /\ transport = "uart" => Dispatch(s, c).poll_age = s.poll_age
<1>1. WindowOf[c] \in Nat /\ 0 \in Stamps
  BY ServerAssumption DEF Stamps
<1> DEFINE t == [s EXCEPT !.frame_age = 0, !.window = WindowOf[c],
                          !.echo = TRUE, !.notify = None, !.resp = None]
           polls == InlinePoll /\ PollDue(s)
           told == IF polls /\ Transition(s) THEN Presence ELSE s.pending_notify
           u == [t EXCEPT !.pending_notify = None,
                          !.notify = IF NotifySlotChange THEN told ELSE None]
           v == [CheckCardChange(u) EXCEPT !.poll_age = 0]
<1>2. told \in Presences
  BY DEF Presence, Presences, Servers
<1>3. /\ t \in Servers /\ t.echo /\ t.window = WindowOf[c] /\ t.snapshot = s.snapshot
      /\ t.baud = s.baud /\ t.notify = None /\ t.poll_age = s.poll_age
  BY <1>1 DEF Servers, Presences
<1> HIDE DEF told, t
<1>4. /\ u \in Servers /\ u.echo /\ u.window = WindowOf[c] /\ u.snapshot = s.snapshot
      /\ u.baud = s.baud /\ u.poll_age = s.poll_age
      /\ transport # "uart" => u.notify = None
  BY <1>2, <1>3 DEF Servers, Presences, NotifySlotChange
<1> HIDE DEF u
<1>5. /\ v \in Servers /\ v.echo /\ v.window = WindowOf[c] /\ v.snapshot = s.snapshot
      /\ v.baud = s.baud /\ v.notify = u.notify
  BY <1>1, <1>4 DEF Servers, CheckCardChange
<1>6. polls => transport # "uart"
  BY DEF InlinePoll
<1> HIDE DEF v, polls
<1>7. Dispatch(s, c) = IF c # "GetSlotStatus" THEN t ELSE IF polls THEN v ELSE u
  BY DEF Dispatch, t, u, v, polls, told
<1>8. QED
  BY <1>3, <1>4, <1>5, <1>6, <1>7

\* What the end of a command does to the server and its latches.
LEMMA CompleteFacts ==
    ASSUME NEW s \in Servers, NEW c \in Classes, NEW n \in Nat
    PROVE  /\ Complete(s, c, n) \in Servers
           /\ Complete(s, c, n).echo = (s.echo /\ n = 0)
           /\ Complete(s, c, n).window = s.window /\ Complete(s, c, n).notify = s.notify
           /\ Complete(s, c, n).poll_age = s.poll_age
           /\ Complete(s, c, n).snapshot = (s.snapshot \/ c = "Snapshot")
           /\ Complete(s, c, n).baud = (s.baud \/ (c = "Baud" /\ transport = "uart"))
<1> DEFINE back == (s.window * n) % Modulus
           stamp == (s.frame_age + Modulus - back) % Modulus
<1>1. s.window * n \in Nat
  BY DEF Servers
<1>2. back \in Stamps
  BY <1>1, ModStamp
<1>3. s.frame_age + Modulus - back \in Nat
  BY <1>2, ServerAssumption DEF Servers, Stamps
<1>4. stamp \in Stamps
  BY <1>3, ModStamp
<1> HIDE DEF stamp
<1>5. Complete(s, c, n) =
        [s EXCEPT !.resp = c, !.snapshot = s.snapshot \/ c = "Snapshot",
                  !.baud = s.baud \/ (c = "Baud" /\ BaudEscapeEnabled),
                  !.echo = s.echo /\ n = 0, !.frame_age = stamp]
  BY DEF Complete, stamp, Servers
<1>6. QED
  BY <1>4, <1>5 DEF Servers, BaudEscapeEnabled

\* What refresh_host_deadline does to the server.
LEMMA RefreshFacts ==
    ASSUME NEW s \in Servers, NEW a \in Stamps
    PROVE  /\ RefreshHostDeadline(s, a) \in Servers
           /\ SameLatches(s, RefreshHostDeadline(s, a))
           /\ RefreshHostDeadline(s, a).poll_age = s.poll_age
           /\ ResponseExpired(RefreshHostDeadline(s, a)) <=> a > s.window
BY DEF RefreshHostDeadline, ResponseExpired, Servers, SameLatches

\* What record_late_response does to the server.
LEMMA RecordLateFacts ==
    ASSUME NEW s \in Servers
    PROVE  /\ RecordLateResponse(s) \in Servers
           /\ ~RecordLateResponse(s).snapshot /\ ~RecordLateResponse(s).baud
           /\ RecordLateResponse(s).notify = None
           /\ RecordLateResponse(s).poll_age = s.poll_age
<1> DEFINE drops == IF s.late_drops < 1 THEN s.late_drops + 1 ELSE s.late_drops
<1>1. drops \in Nat
  BY DEF Servers
<1> HIDE DEF drops
<1>2. RecordLateResponse(s) =
        [s EXCEPT !.echo = FALSE, !.notify = None, !.resp = None, !.late_drops = drops,
                  !.snapshot = FALSE, !.baud = FALSE]
  BY DEF RecordLateResponse, drops
<1>3. QED
  BY <1>1, <1>2 DEF Servers, Presences

-----------------------------------------------------------------------------
(* The kinds of step the server takes, whatever loop drives it *)

SameFrames == UNCHANGED <<transport, te, cur, card>>

StartStep == /\ phase \in {"read", "post"} /\ card' = card
             /\ \E c \in Commands : StartCommand(c)

StallStep == StallHook /\ transport # "uart"

\* The stamp the response is judged from.
Anchor == IF transport = "uart" THEN origin ELSE floor

LateStep ==
    /\ phase = "flush" /\ phase' = "post" /\ SameFrames /\ wire' = wire
    /\ srv' \in Servers /\ ~srv'.snapshot /\ ~srv'.baud /\ srv'.notify = None

WriteStep ==
    /\ phase = "flush" /\ phase' \in {"post", "down"} /\ (phase' = "down" => srv.snapshot)
    /\ SameFrames /\ Anchor <= srv.window
    /\ srv' \in Servers /\ srv'.notify = srv.notify
    /\ srv'.snapshot => transport = "tcp"
    /\ srv'.baud => srv.baud /\ transport # "uart"
    /\ IF transport = "uart"
       THEN \E lost \in SUBSET Pieces : wire' = wire \o Written(srv, lost)
       ELSE \E n \in 0..Len(Output(srv)) : wire' = wire \o SubSeq(Output(srv), 1, n)

QuietStep ==
    /\ transport' = transport /\ te' = te /\ card' \in BOOLEAN
    /\ srv' \in Servers /\ SameLatches(srv, srv')
    /\ cur' \in Commands \cup {NoCmd}
    /\ \/ phase' = phase /\ cur'.class = cur.class /\ wire' = wire
       \/ phase \in {"read", "post"} /\ phase' \in {"read", "post"} /\ (wire' = wire \/ wire' = <<>>)

KindStep == StartStep \/ FinishCommand \/ StallStep \/ LateStep \/ WriteStep \/ QuietStep

-----------------------------------------------------------------------------
(* What each kind does to the wire *)

OrderedWire(w, loop) ==
    /\ w # <<>> => w[1] = "echo" \/ loop = "uart"
    /\ \A i \in DOMAIN w :
          /\ w[i] = "echo" => i = 1
          /\ w[i] = "notify" => i = 1 \/ w[i - 1] = "echo"
          /\ w[i] = "response" => i = Len(w)

\* WireOrder of the wire and the transport alone.
LEMMA OrderIs == WireOrder <=> OrderedWire(wire, transport)
BY DEF WireOrder, OrderedWire

\* A wire opened by interim frames is in order.
LEMMA OpenedOrder ==
    ASSUME NEW w \in Seq(Frames), NEW loop, Opened(w)
    PROVE  /\ OrderedWire(w, loop) /\ w[Len(w)] # "response"
           /\ Append(w, "response") \in Seq(Frames) /\ OrderedWire(Append(w, "response"), loop)
           /\ Append(w, "interim") \in Seq(Frames) /\ Opened(Append(w, "interim"))
<1>1. Len(w) \in Nat /\ Len(w) > 0 /\ DOMAIN w = 1..Len(w)
  BY DEF Opened
<1>2. w[1] = "echo" /\ \A i \in 2..Len(w) : w[i] = "interim"
  BY DEF Opened
<1>3. OrderedWire(w, loop) /\ w[Len(w)] # "response"
  BY <1>1, <1>2 DEF OrderedWire
<1>4. ASSUME NEW f \in Frames
      PROVE  /\ Append(w, f) \in Seq(Frames) /\ Len(Append(w, f)) = Len(w) + 1
             /\ DOMAIN Append(w, f) = 1..(Len(w) + 1) /\ Append(w, f)[Len(w) + 1] = f
             /\ \A i \in 1..Len(w) : Append(w, f)[i] = w[i]
             /\ Append(w, f) # <<>>
  BY <1>1
<1>5. "response" \in Frames /\ "interim" \in Frames
  BY DEF Frames
<1>6. Opened(Append(w, "interim"))
  BY <1>1, <1>2, <1>4, <1>5 DEF Opened
<1>7. OrderedWire(Append(w, "response"), loop)
  <2> DEFINE v == Append(w, "response")
  <2>1. /\ v \in Seq(Frames) /\ Len(v) = Len(w) + 1
        /\ DOMAIN v = 1..(Len(w) + 1) /\ v[Len(w) + 1] = "response"
        /\ \A i \in 1..Len(w) : v[i] = w[i]
        /\ v # <<>>
    BY <1>4, <1>5
  <2> HIDE DEF v
  <2>2. OrderedWire(v, loop)
    BY <1>1, <1>2, <2>1 DEF OrderedWire
  <2>3. QED
    BY <2>2 DEF v
<1>8. QED
  BY <1>3, <1>4, <1>5, <1>6, <1>7

\* Two frames joined.
LEMMA PairIs == ASSUME NEW a \in Frames, NEW b \in Frames PROVE <<a>> \o <<b>> = <<a, b>>
<1> DEFINE l == <<a>> \o <<b>>
           r == <<a, b>>
<1>1. <<a>> \in Seq(Frames) /\ Len(<<a>>) = 1 /\ <<b>> \in Seq(Frames) /\ Len(<<b>>) = 1
  OBVIOUS
<1>2. l \in Seq(Frames) /\ Len(l) = 2 /\ l[1] = a /\ l[2] = b
  BY <1>1, ConcatProperties
<1>3. r \in Seq(Frames) /\ Len(r) = 2 /\ r[1] = a /\ r[2] = b
  OBVIOUS
<1> HIDE DEF l, r
<1>4. l = r
  BY <1>2, <1>3, SeqEqual
<1>5. QED
  BY <1>4 DEF l, r

\* Three frames joined.
LEMMA TripleIs ==
    ASSUME NEW a \in Frames, NEW b \in Frames, NEW c \in Frames
    PROVE  <<a, b>> \o <<c>> = <<a, b, c>>
<1> DEFINE l == <<a, b>> \o <<c>>
           r == <<a, b, c>>
<1>1. <<a, b>> \in Seq(Frames) /\ Len(<<a, b>>) = 2 /\ <<c>> \in Seq(Frames) /\ Len(<<c>>) = 1
  OBVIOUS
<1>2. l \in Seq(Frames) /\ Len(l) = 3 /\ l[1] = a /\ l[2] = b /\ l[3] = c
  BY <1>1, ConcatProperties
<1>3. r \in Seq(Frames) /\ Len(r) = 3 /\ r[1] = a /\ r[2] = b /\ r[3] = c
  OBVIOUS
<1> HIDE DEF l, r
<1>4. l = r
  BY <1>2, <1>3, SeqEqual
<1>5. QED
  BY <1>4 DEF l, r

\* The first of two frames.
LEMMA FirstIs == ASSUME NEW a \in Frames, NEW b \in Frames PROVE SubSeq(<<a, b>>, 1, 1) = <<a>>
<1> DEFINE s == SubSeq(<<a, b>>, 1, 1)
<1>1. <<a, b>> \in Seq(Frames) /\ Len(<<a, b>>) = 2 /\ <<a>> \in Seq(Frames)
  OBVIOUS
<1>2. s \in Seq(Frames) /\ Len(s) = 1 /\ s[1] = a
  BY <1>1, SubSeqProperties
<1> HIDE DEF s
<1>3. s = <<a>>
  BY <1>1, <1>2, SeqEqual
<1>4. QED
  BY <1>3 DEF s

\* The pieces of one answer, each written or lost.
Answers == {<<>>, <<"echo">>, <<"notify">>, <<"response">>, <<"echo", "notify">>,
            <<"echo", "response">>, <<"notify", "response">>, <<"echo", "notify", "response">>}

\* A whole answer is in order.
LEMMA AnswersAreOrdered ==
    ASSUME NEW w \in Answers PROVE w \in Seq(Frames) /\ OrderedWire(w, "uart")
<1>1. CASE w = <<>>
  BY <1>1 DEF OrderedWire
<1>2. ASSUME NEW a \in Frames, w = <<a>> PROVE w \in Seq(Frames) /\ OrderedWire(w, "uart")
  BY <1>2 DEF OrderedWire
<1>3. ASSUME NEW a \in {"echo", "notify"}, NEW b \in {"notify", "response"}, w = <<a, b>>, a # b
      PROVE  w \in Seq(Frames) /\ OrderedWire(w, "uart")
  <2>1. w \in Seq(Frames) /\ Len(w) = 2 /\ w[1] = a /\ w[2] = b /\ DOMAIN w = 1..2
    BY <1>3 DEF Frames
  <2>2. QED
    BY <1>3, <2>1 DEF OrderedWire
<1>4. CASE w = <<"echo", "notify", "response">>
  <2>1. /\ w \in Seq(Frames) /\ Len(w) = 3 /\ w[1] = "echo" /\ w[2] = "notify"
        /\ w[3] = "response" /\ DOMAIN w = 1..3
    BY <1>4 DEF Frames
  <2>2. QED
    BY <2>1 DEF OrderedWire
<1>5. QED
  BY <1>1, <1>2, <1>3, <1>4 DEF Answers, Frames

\* What write_answer puts on the wire in each case.
LEMMA WrittenIs ==
    ASSUME NEW s \in Servers, NEW lost
    PROVE  /\ Written(s, lost) \in Answers
           /\ lost = {} => Written(s, lost) # <<>>
                           /\ Written(s, lost)[Len(Written(s, lost))] = "response"
<1> DEFINE a == IF s.echo /\ "echo" \notin lost THEN <<"echo">> ELSE <<>>
           b == IF s.notify # None /\ "notify" \notin lost THEN <<"notify">> ELSE <<>>
           c == IF "response" \notin lost THEN <<"response">> ELSE <<>>
<1>1. Written(s, lost) = a \o b \o c
  BY DEF Written, Piece
<1>2. a \in {<<>>, <<"echo">>} /\ b \in {<<>>, <<"notify">>} /\ c \in {<<>>, <<"response">>}
  OBVIOUS
<1>3. lost = {} => c = <<"response">>
  OBVIOUS
<1> HIDE DEF a, b, c
<1>f. "echo" \in Frames /\ "notify" \in Frames /\ "response" \in Frames
  BY DEF Frames
<1>q. a \in Seq(Frames) /\ b \in Seq(Frames)
  <2>1. <<>> \in Seq(Frames) /\ <<"echo">> \in Seq(Frames) /\ <<"notify">> \in Seq(Frames)
    BY <1>f
  <2>2. QED
    BY <1>2, <2>1
<1>4. a \o b \in {<<>>, <<"echo">>, <<"notify">>, <<"echo", "notify">>}
  <2>1. CASE a = <<>>
    BY <1>2, <1>q, <2>1, ConcatEmptySeq
  <2>2. CASE b = <<>>
    BY <1>2, <1>q, <2>2, ConcatEmptySeq
  <2>3. CASE a = <<"echo">> /\ b = <<"notify">>
    BY <2>3, <1>f, PairIs
  <2>4. QED
    BY <1>2, <2>1, <2>2, <2>3
<1>5. CASE c = <<>>
  <2>1. a \o b \in Seq(Frames)
    BY <1>q
  <2>2. (a \o b) \o c = a \o b
    BY <1>5, <2>1, ConcatEmptySeq
  <2>3. QED
    BY <1>1, <1>3, <1>4, <1>5, <2>2 DEF Answers
<1>6. CASE c = <<"response">>
  <2> DEFINE w == (a \o b) \o <<"response">>
  <2>1. CASE a \o b = <<>>
    BY <1>1, <1>6, <2>1 DEF Answers
  <2>2. CASE a \o b = <<"echo">> \/ a \o b = <<"notify">>
    <3>1. w = <<"echo", "response">> \/ w = <<"notify", "response">>
      BY <2>2, <1>f, PairIs
    <3>2. QED
      BY <1>1, <1>6, <3>1 DEF Answers
  <2>3. CASE a \o b = <<"echo", "notify">>
    <3>1. w = <<"echo", "notify", "response">>
      BY <2>3, <1>f, TripleIs
    <3>2. QED
      BY <1>1, <1>6, <3>1 DEF Answers
  <2>4. QED
    BY <1>4, <2>1, <2>2, <2>3
<1>7. QED
  BY <1>2, <1>5, <1>6

\* Where nothing is notified a prefix of the answer is the echo, the response
\* or both.
LEMMA PrefixIs ==
    ASSUME NEW s \in Servers, s.notify = None, NEW n \in 0..Len(Output(s))
    PROVE  SubSeq(Output(s), 1, n) \in IF s.echo THEN {<<>>, <<"echo">>, <<"echo", "response">>}
                                                 ELSE {<<>>, <<"response">>}
<1>f. "echo" \in Frames /\ "response" \in Frames
  BY DEF Frames
<1>n. Output(s) = (IF s.echo THEN <<"echo">> ELSE <<>>) \o <<>> \o <<"response">>
  BY DEF Output, Written, Piece
<1>1. CASE s.echo
  <2>1. Output(s) = <<"echo", "response">>
    <3>1. Output(s) = (<<"echo">> \o <<>>) \o <<"response">>
      BY <1>1, <1>n
    <3>2. <<"echo">> \o <<>> = <<"echo">>
      OBVIOUS
    <3>3. QED
      BY <3>1, <3>2, <1>f, PairIs
  <2>2. n = 0 \/ n = 1 \/ n = 2
    BY <2>1
  <2>3. SubSeq(<<"echo", "response">>, 1, 0) = <<>>
    BY SubSeqEmpty
  <2>4. SubSeq(<<"echo", "response">>, 1, 1) = <<"echo">>
    BY <1>f, FirstIs
  <2>5. SubSeq(<<"echo", "response">>, 1, 2) = <<"echo", "response">>
    <3>1. <<"echo", "response">> \in Seq(Frames) /\ Len(<<"echo", "response">>) = 2
      BY <1>f
    <3>2. QED
      BY <3>1, SubSeqFull
  <2>6. QED
    BY <1>1, <2>1, <2>2, <2>3, <2>4, <2>5
<1>2. CASE ~s.echo
  <2>1. Output(s) = <<"response">>
    BY <1>2, <1>n
  <2>2. n = 0 \/ n = 1
    BY <2>1
  <2>3. SubSeq(<<"response">>, 1, 0) = <<>>
    BY SubSeqEmpty
  <2>4. SubSeq(<<"response">>, 1, 1) = <<"response">>
    <3>1. <<"response">> \in Seq(Frames) /\ Len(<<"response">>) = 1
      BY <1>f
    <3>2. QED
      BY <3>1, SubSeqFull
  <2>5. QED
    BY <1>2, <2>1, <2>2, <2>3, <2>4
<1>3. QED
  BY <1>1, <1>2

-----------------------------------------------------------------------------
(* Each kind of step keeps the order of the wire and the latches *)

\* A command is not the mark for none.
LEMMA CommandIsNotNone ==
    ASSUME NEW c \in Commands PROVE c.class \in Classes /\ c.class # None /\ c # NoCmd
BY DEF Commands, Classes, None, NoCmd

\* The start of a command keeps the frame invariant.
LEMMA StartKeeps == ASSUME FrameInv, StartStep PROVE FrameInv'
<1> PICK c \in Commands : StartCommand(c)
  BY DEF StartStep
<1>1. /\ transport' = transport /\ cur' = c /\ phase' = "work" /\ wire' = <<>>
      /\ srv' = Dispatch(srv, c.class) /\ te' = Arm(c.class) /\ card' = card
      /\ phase \in {"read", "post"}
  BY DEF StartCommand, StartStep
<1>2. te = Disarmed
  BY <1>1 DEF FrameInv, WireInv
<1>3. c.class \in Classes
  BY CommandIsNotNone
<1>4. /\ srv' \in Servers /\ srv'.echo /\ srv'.window = WindowOf[c.class]
      /\ srv'.snapshot = srv.snapshot /\ srv'.baud = srv.baud
      /\ transport # "uart" => srv'.notify = None
  BY <1>1, <1>3, DispatchFacts DEF FrameInv, FrameTypes
<1>5. /\ te' \in [armed : BOOLEAN, flushed : BOOLEAN, written : Nat]
      /\ IF te'.armed THEN transport # "uart" ELSE te' = Disarmed
      /\ te'.flushed = FALSE /\ te'.written = 0
  BY <1>1, <1>2 DEF Arm, Disarmed, HasWriter
<1>6. FrameTypes'
  BY <1>1, <1>4, <1>5 DEF FrameTypes, FrameInv
<1>7. WireInv'
  <2>1. WireOrder'
    BY <1>1 DEF WireOrder
  <2>2. QED
    BY <1>1, <1>4, <1>5, <2>1 DEF WireInv
<1>8. LatchInv'
  BY <1>1, <1>4 DEF LatchInv, FrameInv, PanicForOwnCommand
<1>9. QED
  BY <1>6, <1>7, <1>8 DEF FrameInv

\* The end of a command keeps it.
LEMMA FinishKeeps == ASSUME FrameInv, FinishCommand PROVE FrameInv'
<1> DEFINE n == IF te.armed THEN te.written ELSE 0
<1>1. /\ phase = "work" /\ phase' = "flush" /\ srv' = Complete(srv, cur.class, n)
      /\ UNCHANGED <<transport, card, cur, wire>>
      /\ te' = IF te.armed THEN Disarmed ELSE te
  BY DEF FinishCommand
<1>2. /\ srv.echo /\ cur \in Commands /\ srv.window = WindowOf[cur.class]
      /\ IF te.armed THEN transport # "uart" ELSE te = Disarmed
      /\ te.flushed <=> te.armed /\ te.written > 0
      /\ IF te.flushed THEN Opened(wire) ELSE wire = <<>>
  BY <1>1 DEF FrameInv, WireInv
<1>3. cur.class \in Classes /\ n \in Nat
  BY <1>2, CommandIsNotNone DEF FrameInv, FrameTypes
<1>4. n = 0 <=> ~te.flushed
  BY <1>2 DEF FrameInv, FrameTypes
<1> HIDE DEF n
<1>5. /\ srv' \in Servers /\ srv'.echo = (n = 0) /\ srv'.window = srv.window
      /\ srv'.notify = srv.notify
      /\ srv'.snapshot = (srv.snapshot \/ cur.class = "Snapshot")
      /\ srv'.baud = (srv.baud \/ (cur.class = "Baud" /\ transport = "uart"))
  <2>1. srv \in Servers
    BY DEF FrameInv, FrameTypes
  <2>2. srv.echo = TRUE
    BY <1>2, <2>1 DEF Servers
  <2>3. srv' = Complete(srv, cur.class, n)
    BY <1>1
  <2>4. QED
    BY <1>3, <2>1, <2>2, <2>3, CompleteFacts
<1>6. te' = Disarmed
  <2>1. CASE te.armed
    BY <1>1, <2>1
  <2>2. CASE ~te.armed
    BY <1>1, <1>2, <2>2
  <2>3. QED
    BY <2>1, <2>2
<1>7. FrameTypes'
  BY <1>1, <1>5, <1>6 DEF FrameTypes, FrameInv, Disarmed
<1>8. WireInv'
  <2>1. WireOrder'
    BY <1>1 DEF WireOrder, WireInv, FrameInv
  <2>2. IF srv'.echo THEN wire' = <<>> ELSE Opened(wire') /\ transport' # "uart"
    BY <1>1, <1>2, <1>4, <1>5
  <2>3. QED
    BY <1>1, <1>2, <1>5, <1>6, <2>1, <2>2 DEF WireInv, FrameInv
<1>9. LatchInv'
  BY <1>1, <1>5 DEF LatchInv, FrameInv, PanicForOwnCommand
<1>10. QED
  BY <1>7, <1>8, <1>9 DEF FrameInv

\* So does the time-extension hook, and it answers nothing.
LEMMA StallKeeps == ASSUME FrameInv, StallStep PROVE FrameInv' /\ ~Answered'
<1>1. /\ phase = "work" /\ te.armed /\ transport # "uart"
      /\ te' = [te EXCEPT !.flushed = TRUE, !.written = @ + 1]
      /\ wire' = wire \o (IF te.flushed THEN <<>> ELSE <<"echo">>) \o <<"interim">>
      /\ cur' = IF HostWaits(cur) THEN [cur EXCEPT !.grown = 2 * @] ELSE cur
      /\ UNCHANGED <<transport, srv, card, phase>>
  BY DEF StallStep, StallHook
<1>2. /\ srv.echo /\ cur \in Commands /\ srv.window = WindowOf[cur.class]
      /\ IF te.flushed THEN Opened(wire) ELSE wire = <<>>
  BY <1>1 DEF FrameInv, WireInv
<1>3. cur' \in Commands /\ cur'.class = cur.class
  BY <1>1, <1>2 DEF Commands
<1>4. /\ te' \in [armed : BOOLEAN, flushed : BOOLEAN, written : Nat]
      /\ te'.armed /\ te'.flushed /\ te'.written > 0
  <2>1. te \in [armed : BOOLEAN, flushed : BOOLEAN, written : Nat]
    BY DEF FrameInv, FrameTypes
  <2>2. te.written + 1 \in Nat /\ te.written + 1 > 0
    BY <2>1
  <2>3. te' = [te EXCEPT !.flushed = TRUE, !.written = te.written + 1] /\ te.armed
    BY <1>1
  <2>4. QED
    BY <2>1, <2>2, <2>3
<1>5. wire' \in Seq(Frames) /\ Opened(wire')
  <2>f. "echo" \in Frames /\ "interim" \in Frames /\ wire \in Seq(Frames)
    BY DEF Frames, FrameInv, FrameTypes
  <2>1. CASE te.flushed
    <3>1. wire' = Append(wire, "interim")
      BY <1>1, <2>1, <2>f
    <3>2. QED
      BY <1>2, <2>1, <2>f, <3>1, OpenedOrder
  <2>2. CASE ~te.flushed
    <3>1. wire' = <<"echo">> \o <<"interim">>
      BY <1>1, <1>2, <2>2
    <3>2. wire' = <<"echo", "interim">>
      BY <3>1, <2>f, PairIs
    <3>3. QED
      BY <3>2, <2>f DEF Opened
  <2>3. QED
    BY <2>1, <2>2
<1>6. OrderedWire(wire', transport') /\ wire'[Len(wire')] # "response"
  BY <1>5, OpenedOrder
<1>7. FrameTypes'
  BY <1>1, <1>3, <1>4, <1>5 DEF FrameTypes, FrameInv
<1>8. WireInv'
  <2>1. WireOrder'
    BY <1>6 DEF WireOrder, OrderedWire
  <2>2. QED
    BY <1>1, <1>2, <1>3, <1>4, <1>5, <2>1 DEF WireInv, FrameInv
<1>9. LatchInv'
  BY <1>1, <1>3 DEF LatchInv, FrameInv, PanicForOwnCommand
<1>10. ~Answered'
  BY <1>6 DEF Answered
<1>11. QED
  BY <1>7, <1>8, <1>9, <1>10 DEF FrameInv

\* So does a response that is dropped as late.
LEMMA LateKeeps == ASSUME FrameInv, LateStep PROVE FrameInv'
<1>1. /\ phase = "flush" /\ phase' = "post" /\ wire' = wire /\ te = Disarmed
      /\ UNCHANGED <<transport, te, cur, card>>
      /\ srv' \in Servers /\ ~srv'.snapshot /\ ~srv'.baud /\ srv'.notify = None
  BY DEF LateStep, SameFrames, FrameInv, WireInv
<1>2. FrameTypes'
  BY <1>1 DEF FrameTypes, FrameInv
<1>3. WireInv'
  BY <1>1 DEF WireInv, FrameInv, WireOrder
<1>4. LatchInv'
  BY <1>1 DEF LatchInv, FrameInv, PanicForOwnCommand
<1>5. QED
  BY <1>2, <1>3, <1>4 DEF FrameInv

\* What stands on the wire after a write site, failed writes included.
LEMMA WrittenWire ==
    ASSUME FrameInv, WriteStep
    PROVE  wire' \in Seq(Frames) /\ OrderedWire(wire', transport)
<1> USE DEF FrameInv
<1>1. srv \in Servers /\ wire \in Seq(Frames)
  BY DEF FrameTypes
<1>2. /\ cur \in Commands
      /\ IF srv.echo THEN wire = <<>> ELSE Opened(wire) /\ transport # "uart"
      /\ transport # "uart" => srv.notify = None
  BY DEF WireInv, WriteStep
<1>3. CASE transport = "uart"
  <2> PICK lost : wire' = wire \o Written(srv, lost)
    BY <1>3 DEF WriteStep
  <2>1. Written(srv, lost) \in Answers
    BY <1>1, WrittenIs
  <2>2. Written(srv, lost) \in Seq(Frames) /\ OrderedWire(Written(srv, lost), "uart")
    BY <2>1, AnswersAreOrdered
  <2>3. wire' = Written(srv, lost)
    BY <1>2, <1>3, <2>2, ConcatEmptySeq
  <2>4. QED
    BY <1>3, <2>2, <2>3
<1>4. CASE transport # "uart"
  <2> PICK n \in 0..Len(Output(srv)) : wire' = wire \o SubSeq(Output(srv), 1, n)
    BY <1>4 DEF WriteStep
  <2> DEFINE w == SubSeq(Output(srv), 1, n)
  <2>1. w \in IF srv.echo THEN {<<>>, <<"echo">>, <<"echo", "response">>} ELSE {<<>>, <<"response">>}
    BY <1>1, <1>2, <1>4, PrefixIs
  <2>2. wire' = wire \o w
    OBVIOUS
  <2> HIDE DEF w
  <2>3. CASE srv.echo
    <3>1. w \in Answers
      BY <2>1, <2>3 DEF Answers
    <3>2. w \in Seq(Frames)
      BY <3>1, AnswersAreOrdered
    <3>3. wire' = w
      BY <1>2, <2>2, <2>3, <3>2, ConcatEmptySeq
    <3>4. OrderedWire(w, transport)
      <4>1. OrderedWire(w, "uart")
        BY <3>1, AnswersAreOrdered
      <4>2. w # <<>> => w[1] = "echo"
        BY <2>1, <2>3
      <4>3. QED
        BY <4>1, <4>2 DEF OrderedWire
    <3>5. QED
      BY <3>2, <3>3, <3>4
  <2>4. CASE ~srv.echo
    <3>1. CASE w = <<>>
      <4>1. wire' = wire
        BY <1>1, <2>2, <3>1, ConcatEmptySeq
      <4>2. QED
        BY <1>1, <1>2, <2>4, <4>1, OpenedOrder
    <3>2. CASE w = <<"response">>
      <4>1. wire' = Append(wire, "response")
        BY <1>1, <2>2, <3>2
      <4>2. QED
        BY <1>1, <1>2, <2>4, <4>1, OpenedOrder
    <3>3. QED
      BY <2>1, <2>4, <3>1, <3>2
  <2>5. QED
    BY <2>3, <2>4
<1>5. QED
  BY <1>3, <1>4

\* So does the write of a response.
LEMMA WriteKeeps == ASSUME FrameInv, WriteStep PROVE FrameInv'
<1>1. /\ phase = "flush" /\ phase' \in {"post", "down"} /\ (phase' = "down" => srv.snapshot)
      /\ UNCHANGED <<transport, te, cur, card>> /\ te = Disarmed
      /\ srv' \in Servers /\ srv'.notify = srv.notify
      /\ srv'.snapshot => transport = "tcp"
      /\ srv'.baud => srv.baud /\ transport # "uart"
  BY DEF WriteStep, SameFrames, FrameInv, WireInv
<1>2. wire' \in Seq(Frames) /\ OrderedWire(wire', transport)
  BY WrittenWire
<1>3. FrameTypes'
  BY <1>1, <1>2 DEF FrameTypes, FrameInv
<1>4. WireInv'
  <2>1. WireOrder'
    BY <1>1, <1>2 DEF WireOrder, OrderedWire
  <2>2. QED
    BY <1>1, <2>1 DEF WireInv, FrameInv
<1>5. LatchInv'
  BY <1>1 DEF LatchInv, FrameInv, PanicForOwnCommand
<1>6. QED
  BY <1>3, <1>4, <1>5 DEF FrameInv

\* So do the steps that touch neither wire nor latch.
LEMMA QuietKeeps == ASSUME FrameInv, QuietStep PROVE FrameInv'
<1>1. /\ transport' = transport /\ te' = te /\ card' \in BOOLEAN /\ srv' \in Servers
      /\ cur' \in Commands \cup {NoCmd}
      /\ srv'.echo = srv.echo /\ srv'.notify = srv.notify /\ srv'.window = srv.window
      /\ srv'.snapshot = srv.snapshot /\ srv'.baud = srv.baud
      /\ wire' = wire \/ wire' = <<>>
  BY DEF QuietStep, SameLatches
<1>2. WireOrder'
  BY <1>1 DEF WireOrder, WireInv, FrameInv
<1>3. CASE phase' = phase /\ cur'.class = cur.class /\ wire' = wire
  <2>1. cur \in Commands => cur' \in Commands
    BY <1>1, <1>3, CommandIsNotNone DEF NoCmd
  <2>2. FrameTypes'
    BY <1>1, <1>3 DEF FrameTypes, FrameInv
  <2>3. WireInv'
    <3>1. CASE phase = "work"
      BY <1>1, <1>2, <1>3, <2>1, <3>1 DEF WireInv, FrameInv
    <3>2. CASE phase = "flush"
      BY <1>1, <1>2, <1>3, <2>1, <3>2 DEF WireInv, FrameInv
    <3>3. CASE phase \notin {"work", "flush"}
      BY <1>1, <1>2, <1>3, <3>3 DEF WireInv, FrameInv
    <3>4. QED
      BY <3>1, <3>2, <3>3
  <2>4. LatchInv'
    BY <1>1, <1>3 DEF LatchInv, FrameInv, PanicForOwnCommand
  <2>5. QED
    BY <2>2, <2>3, <2>4 DEF FrameInv
<1>4. CASE phase \in {"read", "post"} /\ phase' \in {"read", "post"}
  <2>1. FrameTypes'
    <3>1. wire' \in Seq(Frames)
      BY <1>1, EmptySeq DEF FrameTypes, FrameInv
    <3>2. QED
      BY <1>1, <1>4, <3>1 DEF FrameTypes, FrameInv
  <2>2. WireInv'
    BY <1>1, <1>2, <1>4 DEF WireInv, FrameInv
  <2>3. LatchInv'
    BY <1>1, <1>4 DEF LatchInv, FrameInv, PanicForOwnCommand
  <2>4. QED
    BY <2>1, <2>2, <2>3 DEF FrameInv
<1>5. QED
  BY <1>3, <1>4 DEF QuietStep

\* Whatever loop drives it, a step of the server keeps the order of the wire
\* and lets no latch outlive its response.
LEMMA KindKeeps == FrameInv /\ KindStep => FrameInv'
BY StartKeeps, FinishKeeps, StallKeeps, LateKeeps, WriteKeeps, QuietKeeps DEF KindStep

\* Only a write site answers, and only from a stamp within the window.
LEMMA AnswerIsWritten ==
    ASSUME FrameInv, KindStep, Answered', ~Answered PROVE WriteStep
<1>1. ~StartStep
  BY DEF StartStep, StartCommand, Answered
<1>2. ~FinishCommand
  BY DEF FinishCommand, Answered
<1>3. ~StallStep
  BY StallKeeps
<1>4. ~LateStep
  BY DEF LateStep, Answered
<1>5. ~QuietStep
  BY DEF QuietStep, Answered
<1>6. QED
  BY <1>1, <1>2, <1>3, <1>4, <1>5 DEF KindStep

-----------------------------------------------------------------------------
(* The receive buffer and the clock *)

\* The types the invariant gives.
LEMMA ServeFacts ==
    ASSUME ServeInv
    PROVE  /\ srv \in Servers /\ card \in BOOLEAN /\ rx \in Seq(Commands)
           /\ cur \in Commands \cup {NoCmd} /\ worked \in 0..MaxWork
           /\ origin \in Stamps /\ pre \in Stamps /\ floor \in Stamps /\ read_end \in Stamps
           /\ garbled \in BOOLEAN /\ full \in BOOLEAN /\ srv.poll_age \in Stamps
           /\ taken \in 0..Len(rx)
BY DEF ServeInv, FrameInv, FrameTypes, LoopInv, LoopTypes, Servers

\* The commands behind the first.
LEMMA TailFacts ==
    ASSUME NEW q \in Seq(Commands), q # <<>>
    PROVE  /\ Head(q) \in Commands /\ Head(q) = q[1] /\ 1 \in DOMAIN q
           /\ Tail(q) \in Seq(Commands) /\ Len(Tail(q)) = Len(q) - 1
           /\ \A i \in DOMAIN Tail(q) : i + 1 \in DOMAIN q /\ Tail(q)[i] = q[i + 1]
<1>1. Len(q) \in Nat \ {0} /\ DOMAIN q = 1..Len(q)
  BY EmptySeq, LenProperties
<1>2. /\ Head(q) \in Commands /\ Tail(q) \in Seq(Commands) /\ Len(Tail(q)) = Len(q) - 1
      /\ \A i \in 1..Len(Tail(q)) : Tail(q)[i] = q[i + 1]
  BY HeadTailProperties
<1>3. DOMAIN Tail(q) = 1..(Len(q) - 1)
  BY <1>2, LenProperties
<1>4. QED
  BY <1>1, <1>2, <1>3

\* A command that the host queues.
LEMMA SendFacts ==
    ASSUME ServeInv, HostSends
    PROVE  /\ QuietStep /\ UNCHANGED <<srv, cur, phase, worked, transport>>
           /\ rx' \in Seq(Commands) /\ Len(rx') = Len(rx) + 1
           /\ \A i \in DOMAIN rx' : IF i \in DOMAIN rx THEN rx'[i] = rx[i] ELSE rx'[i].age = 0
<1> PICK class \in HostClasses : rx' = Append(rx, Cmd(class))
  BY DEF HostSends
<1>1. Cmd(class) \in Commands /\ Cmd(class).age = 0
  BY ServerAssumption DEF Cmd, Commands
<1>2. /\ rx' \in Seq(Commands) /\ Len(rx') = Len(rx) + 1
      /\ \A i \in DOMAIN rx' : IF i \in DOMAIN rx THEN rx'[i] = rx[i] ELSE rx'[i].age = 0
  BY <1>1, ServeFacts
<1>3. QED
  BY <1>2, ServeFacts DEF HostSends, QuietStep, SameLatches

\* A movement of the card.
LEMMA CardFacts ==
    ASSUME ServeInv, CardMoves
    PROVE  QuietStep /\ UNCHANGED <<srv, cur, phase, worked, transport, rx>>
BY ServeFacts DEF CardMoves, QuietStep, SameLatches

\* A queued command one tick older.
LEMMA AgeFacts ==
    ASSUME NEW c \in Commands
    PROVE  Age(c) \in Commands /\ Age(c).class = c.class /\ Age(c).age <= c.age + 1
BY DEF Age, Commands

\* What a tick changes.
LEMMA TickFacts ==
    ASSUME ServeInv, Tick
    PROVE  /\ QuietStep /\ phase' = phase /\ transport' = transport
           /\ srv'.poll_age = Older(srv.poll_age)
           /\ worked' = IF phase = "work" THEN worked + 1 ELSE worked
           /\ worked' \in 0..MaxWork
           /\ rx' \in Seq(Commands) /\ Len(rx') = Len(rx) /\ DOMAIN rx' = DOMAIN rx
           /\ \A i \in DOMAIN rx : rx'[i].age <= rx[i].age + 1
           /\ cur \in Commands => cur'.age <= cur.age + 1
<1>1. /\ phase = "read" \/ (phase = "work" /\ worked < MaxWork)
      /\ worked' = IF phase = "work" THEN worked + 1 ELSE worked
      /\ srv' = Elapse(srv) /\ rx' = [i \in DOMAIN rx |-> Age(rx[i])] /\ cur' = Age(cur)
      /\ UNCHANGED <<transport, te, card, phase, wire>>
  BY DEF Tick
<1>2. srv' \in Servers /\ SameLatches(srv, srv') /\ srv'.poll_age = Older(srv.poll_age)
  BY <1>1, ServeFacts, ElapseFacts
<1>3. worked' \in 0..MaxWork
  BY <1>1, ServeFacts, ServerAssumption
<1>4. /\ rx' \in Seq(Commands) /\ Len(rx') = Len(rx) /\ DOMAIN rx' = DOMAIN rx
      /\ \A i \in DOMAIN rx : rx'[i].age <= rx[i].age + 1
  <2>1. Len(rx) \in Nat /\ DOMAIN rx = 1..Len(rx) /\ \A i \in DOMAIN rx : rx[i] \in Commands
    BY ServeFacts, LenProperties, ElementOfSeq
  <2>2. \A i \in DOMAIN rx : Age(rx[i]) \in Commands /\ Age(rx[i]).age <= rx[i].age + 1
    BY <2>1, AgeFacts
  <2>3. rx' = [i \in 1..Len(rx) |-> Age(rx[i])]
    BY <1>1, <2>1
  <2>4. rx' \in Seq(Commands) /\ Len(rx') = Len(rx)
    BY <2>1, <2>2, <2>3
  <2>5. QED
    BY <2>1, <2>2, <2>3, <2>4
<1>5. /\ cur' \in Commands \cup {NoCmd} /\ cur'.class = cur.class
      /\ cur \in Commands => cur'.age <= cur.age + 1
  <2>1. CASE cur \in Commands
    BY <1>1, <2>1, AgeFacts
  <2>2. CASE cur = NoCmd
    <3>1. cur' = NoCmd
      BY <1>1, <2>2 DEF Age, NoCmd
    <3>2. QED
      BY <2>2, <3>1, CommandIsNotNone
  <2>3. QED
    BY <2>1, <2>2, ServeFacts
<1>6. QuietStep
  BY <1>1, <1>2, <1>5, ServeFacts DEF QuietStep
<1>7. QED
  BY <1>1, <1>2, <1>3, <1>4, <1>5, <1>6

-----------------------------------------------------------------------------
(* The UART loop *)

\* Everything an action of the UART loop owes, in one formula.
UartOwes == KindStep /\ LoopInv' /\ (switched' # switched => cur.class = "Baud" /\ Answered')

\* The invariant as the UART loop sees it.
UartState ==
    /\ LoopTypes
    /\ phase = "read" => origin <= ReadTimeout /\ \A i \in DOMAIN rx : rx[i].age = 0
    /\ ~garbled =>
         /\ phase = "read" => srv.poll_age < PollInterval + origin
         /\ phase = "work" => srv.poll_age < PollInterval + ReadTimeout + worked
         /\ phase = "flush" => srv.poll_age < PollInterval + ReadTimeout + MaxWork
         /\ phase \in {"post", "down"} => srv.poll_age < PollInterval
    /\ phase \in {"work", "flush", "post"} =>
          pre <= origin /\ \A i \in DOMAIN rx : rx[i].age <= pre
    /\ phase \in {"work", "flush"} => cur.age <= origin

\* The loops' invariant under the UART.
LEMMA UartStateIs == transport = "uart" => (LoopInv <=> UartState)
BY DEF LoopInv, UartState, PollInv, UartAges, BurstAges

\* The same after a step.
LEMMA UartStateNext == transport' = "uart" => (LoopInv' <=> UartState')
<1>1. (transport = "uart")' => (LoopInv' <=> UartState')
  BY UartStateIs, PTL
<1>2. QED
  BY <1>1

\* A malformed frame is forgotten with the poll that follows it.
LEMMA GarbageFacts ==
    ASSUME garbled \in BOOLEAN, NoteGarbage
    PROVE  /\ garbled' \in BOOLEAN
           /\ srv'.poll_age = srv.poll_age => garbled' = garbled
           /\ ~garbled' => ~garbled \/ srv'.poll_age = 0
BY DEF NoteGarbage, Polled

\* serve_uart reads a command and starts it.
LEMMA UartTakes ==
    ASSUME ServeInv, transport = "uart", UNCHANGED burstVars, ReadFirst \/ Drain
    PROVE  UartOwes
<1> DEFINE c == Head(rx)
<1>1. /\ phase \in {"read", "post"} /\ rx # <<>> /\ StartCommand(c) /\ rx' = Tail(rx)
      /\ NoteGarbage /\ card' = card /\ switched' = switched
      /\ phase = "read" => origin' \in {origin, 0} /\ pre' = 0
      /\ phase = "post" => origin' = pre /\ pre' = pre
  BY DEF ReadFirst, Drain
<1>2. /\ c \in Commands /\ c = rx[1] /\ 1 \in DOMAIN rx /\ rx' \in Seq(Commands)
      /\ \A i \in DOMAIN rx' : i + 1 \in DOMAIN rx /\ rx'[i] = rx[i + 1]
  BY <1>1, ServeFacts, TailFacts
<1>3. /\ phase' = "work" /\ worked' = 0 /\ cur' = c /\ transport' = "uart"
      /\ srv' = Dispatch(srv, c.class)
  BY <1>1 DEF StartCommand
<1> HIDE DEF c
<1>4. srv'.poll_age = srv.poll_age
  BY <1>2, <1>3, ServeFacts, DispatchFacts, CommandIsNotNone
<1>5. KindStep
  BY <1>1, <1>2 DEF StartStep, KindStep
<1>6. garbled' = garbled
  BY <1>1, <1>4, ServeFacts, GarbageFacts
<1>7. UartState
  BY UartStateIs DEF ServeInv
<1>8. LoopTypes'
  BY <1>1, <1>2, <1>3, <1>6, <1>7, ServerAssumption, ZeroStamp
     DEF LoopTypes, UartState, burstVars
<1>9. UartState'
  <2>1. CASE phase = "read"
    <3>1. pre' = 0 /\ origin' \in Nat /\ \A i \in DOMAIN rx' : rx'[i].age = 0
      BY <1>1, <1>2, <1>7, <2>1 DEF UartState, LoopTypes, Stamps
    <3>2. cur'.age = 0
      BY <1>2, <1>3, <1>7, <2>1 DEF UartState
    <3>3. ~garbled => srv'.poll_age < PollInterval + ReadTimeout + worked'
      BY <1>3, <1>4, <1>7, <2>1, ServeFacts, ServerAssumption DEF UartState, Stamps
    <3>4. QED
      BY <1>3, <1>6, <1>8, <3>1, <3>2, <3>3 DEF UartState
  <2>2. CASE phase = "post"
    <3>1. pre' = pre /\ origin' = pre /\ \A i \in DOMAIN rx' : rx'[i].age <= pre'
      BY <1>1, <1>2, <1>7, <2>2 DEF UartState
    <3>2. cur'.age <= origin'
      BY <1>2, <1>3, <1>7, <2>2, <3>1 DEF UartState
    <3>3. ~garbled => srv'.poll_age < PollInterval + ReadTimeout + worked'
      BY <1>3, <1>4, <1>7, <2>2, ServeFacts, ServerAssumption DEF UartState, Stamps
    <3>4. pre \in Nat
      BY ServeFacts DEF Stamps
    <3>5. QED
      BY <1>3, <1>6, <1>8, <3>1, <3>2, <3>3, <3>4 DEF UartState
  <2>3. QED
    BY <1>1, <2>1, <2>2
<1>10. QED
  BY <1>1, <1>3, <1>5, <1>9, UartStateNext DEF UartOwes

\* A read that times out or brings a malformed frame.
LEMMA UartEndsRead ==
    ASSUME ServeInv, transport = "uart", UNCHANGED burstVars, DrainEnds \/ BadFrame
    PROVE  UartOwes
<1>1. /\ phase \in {"read", "post"} /\ phase' = "read" /\ origin' = 0 /\ switched' = switched
      /\ UNCHANGED <<transport, srv, te, card, rx, cur, worked, wire, pre>>
      /\ garbled' = TRUE \/ (garbled' = garbled /\ rx = <<>> /\ phase = "post")
      /\ rx = <<>> \/ phase = "read"
  BY DEF DrainEnds, BadFrame, serverVars
<1>2. UartState
  BY UartStateIs DEF ServeInv
<1>3. KindStep
  BY <1>1, ServeFacts DEF KindStep, QuietStep, SameLatches
<1>4. LoopTypes'
  BY <1>1, <1>2, ZeroStamp DEF LoopTypes, UartState, burstVars
<1>5. \A i \in DOMAIN rx' : rx'[i].age = 0
  BY <1>1, <1>2 DEF UartState
<1>6. UartState'
  BY <1>1, <1>2, <1>4, <1>5, ServeFacts, ServerAssumption DEF UartState, Stamps
<1>7. QED
  BY <1>1, <1>3, <1>6, UartStateNext DEF UartOwes

\* After a poll on the way out of an exchange the next one is not due.
LEMMA UartLeaves ==
    ASSUME ServeInv, transport = "uart", UNCHANGED burstVars, NoteGarbage, phase = "flush",
           phase' \in {"post", "down"}, srv' \in Servers, srv'.poll_age < PollInterval,
           UNCHANGED <<transport, rx, cur, worked, origin, pre>>
    PROVE  LoopInv'
<1>1. UartState
  BY UartStateIs DEF ServeInv
<1>2. garbled' \in BOOLEAN
  BY ServeFacts, GarbageFacts
<1>3. LoopTypes'
  BY <1>1, <1>2 DEF LoopTypes, UartState, burstVars
<1>4. UartState'
  BY <1>1, <1>3 DEF UartState
<1>5. QED
  BY <1>4, UartStateNext

\* A late response is dropped.
LEMMA UartDrops ==
    ASSUME ServeInv, transport = "uart", UNCHANGED burstVars, DropLate
    PROVE  UartOwes
<1> DEFINE s == RefreshHostDeadline(srv, origin)
           t == RecordLateResponse(s)
<1>1. /\ phase = "flush" /\ srv' = PollAndStash(t) /\ phase' = "post" /\ NoteGarbage
      /\ UNCHANGED <<transport, te, card, rx, cur, worked, wire, origin, pre, switched>>
  BY DEF DropLate
<1>2. s \in Servers
  BY ServeFacts, RefreshFacts
<1> HIDE DEF s
<1>3. t \in Servers /\ ~t.snapshot /\ ~t.baud /\ t.notify = None
  BY <1>2, RecordLateFacts
<1> HIDE DEF t
<1>4. srv' \in Servers /\ SameLatches(t, srv') /\ srv'.poll_age < PollInterval
  BY <1>1, <1>3, ServeFacts, PollAndStashFacts
<1>5. KindStep
  BY <1>1, <1>3, <1>4 DEF KindStep, LateStep, SameFrames, SameLatches
<1>6. LoopInv'
  BY <1>1, <1>4, UartLeaves
<1>7. QED
  BY <1>1, <1>5, <1>6 DEF UartOwes

\* The answer is written, and what queued behind the handler drained.
LEMMA UartFlushes ==
    ASSUME ServeInv, transport = "uart", UNCHANGED burstVars, Flush
    PROVE  UartOwes
<1> DEFINE s == RefreshHostDeadline(srv, origin)
           a == [s EXCEPT !.baud = FALSE]
           b == PollIfDue(a)
           d == [b EXCEPT !.snapshot = FALSE]
<1>1. /\ phase = "flush" /\ ~ResponseExpired(s) /\ NoteGarbage
      /\ UNCHANGED <<transport, te, card, rx, cur, worked, origin, pre>>
  BY DEF Flush
<1>2. PICK lost \in SUBSET Pieces, drained \in BOOLEAN :
         /\ wire' = wire \o Written(s, lost)
         /\ AfterWrite(s, lost = {} /\ drained)
  BY DEF Flush
<1>3. /\ switched' = (IF s.baud /\ lost = {} /\ drained THEN ~switched ELSE switched)
      /\ srv' = PollAndStash(d) /\ phase' = IF s.snapshot THEN "down" ELSE "post"
  BY <1>2 DEF AfterWrite
<1>4. s \in Servers /\ SameLatches(srv, s) /\ origin <= srv.window
  <2>1. /\ s \in Servers /\ SameLatches(srv, s)
        /\ ResponseExpired(s) <=> origin > srv.window
    BY ServeFacts, RefreshFacts
  <2>2. origin \in Nat /\ srv.window \in Nat
    BY ServeFacts DEF Servers, Stamps
  <2>3. QED
    BY <1>1, <2>1, <2>2
<1>5. Written(s, lost) = Written(srv, lost)
  BY <1>4 DEF Written, SameLatches
<1> HIDE DEF s
<1>6. /\ a \in Servers /\ a.baud = FALSE /\ a.notify = s.notify
  BY <1>4 DEF Servers
<1> HIDE DEF a
<1>7. b \in Servers /\ b.baud = FALSE /\ b.notify = s.notify
  BY <1>6, ServeFacts, PollIfDueFacts DEF SameLatches
<1> HIDE DEF b
<1>8. d \in Servers /\ d.baud = FALSE /\ d.notify = s.notify /\ d.snapshot = FALSE
  BY <1>7 DEF Servers
<1> HIDE DEF d
<1>9. /\ srv' \in Servers /\ srv'.baud = FALSE /\ srv'.notify = srv.notify
      /\ srv'.snapshot = FALSE /\ srv'.poll_age < PollInterval
  BY <1>3, <1>4, <1>8, ServeFacts, PollAndStashFacts DEF SameLatches
<1>10. phase' \in {"post", "down"} /\ (phase' = "down" => srv.snapshot)
  BY <1>3, <1>4 DEF SameLatches
<1>11. WriteStep
  BY <1>1, <1>2, <1>4, <1>5, <1>9, <1>10 DEF WriteStep, SameFrames, Anchor
<1>12. LoopInv'
  BY <1>1, <1>9, <1>10, UartLeaves
<1>13. ASSUME switched' # switched PROVE cur.class = "Baud" /\ Answered'
  <2>1. s.baud /\ lost = {}
    BY <1>3, <1>13
  <2>2. srv.baud
    BY <1>4, <2>1 DEF SameLatches
  <2>3. cur.class = "Baud"
    BY <2>2 DEF ServeInv, FrameInv, LatchInv
  <2>4. wire = <<>>
    BY <1>1 DEF ServeInv, FrameInv, WireInv
  <2>5. /\ Written(srv, lost) \in Answers /\ Written(srv, lost) # <<>>
        /\ Written(srv, lost)[Len(Written(srv, lost))] = "response"
    BY <2>1, ServeFacts, WrittenIs
  <2>6. wire' = Written(srv, lost)
    BY <1>2, <1>5, <2>4, <2>5, AnswersAreOrdered, ConcatEmptySeq
  <2>7. QED
    BY <2>3, <2>5, <2>6 DEF Answered
<1>14. QED
  BY <1>11, <1>12, <1>13 DEF UartOwes, KindStep

\* The poll at the end of a pass.
LEMMA UartIdles ==
    ASSUME ServeInv, transport = "uart", UNCHANGED burstVars, ReadIdle
    PROVE  UartOwes
<1>1. /\ phase = "read" /\ rx = <<>> /\ srv' = PollAndStash(srv) /\ origin' = 0 /\ NoteGarbage
      /\ UNCHANGED <<transport, te, card, rx, cur, phase, worked, wire, pre, switched>>
  BY DEF ReadIdle
<1>2. UartState
  BY UartStateIs DEF ServeInv
<1>3. srv' \in Servers /\ SameLatches(srv, srv') /\ srv'.poll_age < PollInterval
  BY <1>1, ServeFacts, PollAndStashFacts
<1>4. KindStep
  BY <1>1, <1>3, ServeFacts DEF KindStep, QuietStep
<1>5. garbled' \in BOOLEAN
  BY <1>1, ServeFacts, GarbageFacts
<1>6. LoopTypes'
  BY <1>1, <1>2, <1>5, ZeroStamp DEF LoopTypes, UartState, burstVars
<1>7. UartState'
  BY <1>1, <1>2, <1>3, <1>6, ServerAssumption DEF UartState, Servers, Stamps
<1>8. QED
  BY <1>1, <1>4, <1>7, UartStateNext DEF UartOwes

\* Time passes within the bounds of each phase.
LEMMA UartTicks ==
    ASSUME ServeInv, transport = "uart", UNCHANGED burstVars, UartTick
    PROVE  UartOwes
<1>1. /\ Tick /\ origin' = Older(origin) /\ pre' = Older(pre)
      /\ phase = "read" => rx = <<>> /\ origin < ReadTimeout
      /\ phase = "work" => origin < Modulus - 1
      /\ UNCHANGED <<switched, garbled>>
  BY DEF UartTick
<1>2. UartState
  BY UartStateIs DEF ServeInv
<1>3. /\ QuietStep /\ phase' = phase /\ transport' = transport
      /\ srv'.poll_age = Older(srv.poll_age)
      /\ worked' = IF phase = "work" THEN worked + 1 ELSE worked
      /\ worked' \in 0..MaxWork
      /\ rx' \in Seq(Commands) /\ Len(rx') = Len(rx) /\ DOMAIN rx' = DOMAIN rx
      /\ \A i \in DOMAIN rx : rx'[i].age <= rx[i].age + 1
      /\ cur \in Commands => cur'.age <= cur.age + 1
  BY <1>1, TickFacts
<1>4. phase \in {"read", "work"}
  BY <1>1 DEF Tick
<1>5. origin' \in Stamps /\ pre' \in Stamps
  BY <1>1, ServeFacts, OlderStamp
<1>6. LoopTypes'
  BY <1>1, <1>2, <1>3, <1>5 DEF LoopTypes, UartState, burstVars
<1>7. ReadTimeout < Modulus - 1 /\ PollInterval + ReadTimeout + MaxWork < Modulus
  BY ServerAssumption, UartAssumption
<1>8. origin' = origin + 1
  <2>1. origin < Modulus - 1
    BY <1>1, <1>4, <1>7, ServeFacts, ServerAssumption DEF Stamps
  <2>2. QED
    BY <1>1, <2>1, ServeFacts, OlderStamp
<1>9. ASSUME srv.poll_age < PollInterval + ReadTimeout + MaxWork
      PROVE  srv'.poll_age = srv.poll_age + 1
  <2>1. srv.poll_age < Modulus - 1
    BY <1>7, <1>9, ServeFacts, ServerAssumption DEF Stamps
  <2>2. QED
    BY <1>3, <2>1, ServeFacts, OlderStamp
<1>10. CASE phase = "read"
  <2>1. \A i \in DOMAIN rx' : rx'[i].age = 0
    BY <1>1, <1>3, <1>10
  <2>2. origin' <= ReadTimeout
    BY <1>1, <1>8, <1>10, ServeFacts, ServerAssumption DEF Stamps
  <2>3. ~garbled' => srv'.poll_age < PollInterval + origin'
    BY <1>1, <1>2, <1>8, <1>9, <1>10, ServeFacts, ServerAssumption, SMTT(20) DEF UartState, Stamps
  <2>4. UartState'
    BY <1>3, <1>6, <1>10, <2>1, <2>2, <2>3 DEF UartState
  <2>5. QED
    BY <1>1, <1>3, <2>4, UartStateNext DEF UartOwes, KindStep
<1>11. CASE phase = "work"
  <2>1. worked < MaxWork
    BY <1>1, <1>11 DEF Tick
  <2>2. pre <= origin /\ cur.age <= origin /\ \A i \in DOMAIN rx : rx[i].age <= pre
    BY <1>2, <1>11 DEF UartState
  <2>3. pre' = pre + 1
    <3>1. pre < Modulus - 1
      BY <1>1, <1>11, <2>2, ServeFacts, ServerAssumption DEF Stamps
    <3>2. QED
      BY <1>1, <3>1, ServeFacts, OlderStamp
  <2>4. cur \in Commands
    BY <1>11 DEF ServeInv, FrameInv, WireInv
  <2>5. cur'.age <= origin'
    <3>1. cur'.age \in Nat /\ cur.age \in Nat /\ origin \in Nat
      BY <1>3, <2>4, ServeFacts DEF QuietStep, Commands, NoCmd, Stamps
    <3>2. QED
      BY <1>3, <1>8, <2>2, <2>4, <3>1
  <2>6. \A i \in DOMAIN rx' : rx'[i].age <= pre'
    <3> SUFFICES ASSUME NEW i \in DOMAIN rx' PROVE rx'[i].age <= pre'
      OBVIOUS
    <3>1. rx'[i].age \in Nat /\ rx[i].age \in Nat /\ pre \in Nat
      <4>1. rx' \in Seq(Commands) /\ rx \in Seq(Commands) /\ i \in DOMAIN rx
        BY <1>3, ServeFacts
      <4>2. rx'[i] \in Commands /\ rx[i] \in Commands
        BY <4>1
      <4>3. QED
        BY <4>2, ServeFacts DEF Commands, Stamps
    <3>2. QED
      BY <1>3, <2>2, <2>3, <3>1
  <2>7. ~garbled' => srv'.poll_age < PollInterval + ReadTimeout + worked'
    <3> SUFFICES ASSUME ~garbled' PROVE srv'.poll_age < PollInterval + ReadTimeout + worked'
      OBVIOUS
    <3>1. srv.poll_age < PollInterval + ReadTimeout + worked
      BY <1>1, <1>2, <1>11 DEF UartState
    <3>2. srv.poll_age \in Nat /\ worked \in Nat /\ worked' = worked + 1
      BY <1>3, <1>11, ServeFacts, ServerAssumption DEF Stamps
    <3>3. srv'.poll_age = srv.poll_age + 1
      BY <1>9, <2>1, <3>1, <3>2, ServerAssumption
    <3>4. QED
      BY <3>1, <3>2, <3>3, ServerAssumption
  <2>8. pre' <= origin'
    BY <1>8, <2>2, <2>3, ServeFacts DEF Stamps
  <2>9. UartState'
    BY <1>3, <1>6, <1>11, <2>5, <2>6, <2>7, <2>8 DEF UartState
  <2>10. QED
    BY <1>1, <1>3, <2>9, UartStateNext DEF UartOwes, KindStep
<1>12. QED
  BY <1>4, <1>10, <1>11

\* The host and the card move.
LEMMA UartSurrounds ==
    ASSUME ServeInv, transport = "uart", UNCHANGED burstVars, UartSurroundings
    PROVE  UartOwes
<1>1. UNCHANGED <<origin, pre, switched, garbled>>
  BY DEF UartSurroundings, uartOwn
<1>2. UartState
  BY UartStateIs DEF ServeInv
<1>3. CASE HostSends
  <2>1. /\ QuietStep /\ UNCHANGED <<srv, cur, phase, worked, transport>>
        /\ rx' \in Seq(Commands) /\ Len(rx') = Len(rx) + 1
        /\ \A i \in DOMAIN rx' : IF i \in DOMAIN rx THEN rx'[i] = rx[i] ELSE rx'[i].age = 0
    BY <1>3, SendFacts
  <2>2. LoopTypes'
    BY <1>1, <1>2, <2>1 DEF LoopTypes, UartState, burstVars
  <2>3. pre \in Nat
    BY ServeFacts DEF Stamps
  <2>4. UartState'
    BY <1>1, <1>2, <2>1, <2>2, <2>3 DEF UartState
  <2>5. QED
    BY <1>1, <2>1, <2>4, UartStateNext DEF UartOwes, KindStep
<1>4. CASE CardMoves
  <2>1. QuietStep /\ UNCHANGED <<srv, cur, phase, worked, transport, rx>>
    BY <1>4, CardFacts
  <2>2. UartState'
    BY <1>1, <1>2, <2>1 DEF UartState, LoopTypes, burstVars
  <2>3. QED
    BY <1>1, <2>1, <2>2, UartStateNext DEF UartOwes, KindStep
<1>5. CASE FinishCommand
  <2>1. /\ phase = "work" /\ phase' = "flush" /\ UNCHANGED <<transport, rx, cur, worked>>
        /\ srv' = Complete(srv, cur.class, IF te.armed THEN te.written ELSE 0)
    BY <1>5 DEF FinishCommand
  <2>2. cur \in Commands /\ (IF te.armed THEN te.written ELSE 0) \in Nat
    BY <2>1 DEF ServeInv, FrameInv, WireInv, FrameTypes
  <2>3. srv'.poll_age = srv.poll_age
    BY <2>1, <2>2, ServeFacts, CompleteFacts, CommandIsNotNone, SMTT(20)
  <2>4. LoopTypes'
    BY <1>1, <1>2, <2>1 DEF LoopTypes, UartState, burstVars
  <2>5. UartState'
    BY <1>1, <1>2, <2>1, <2>3, <2>4, ServeFacts, ServerAssumption DEF UartState, Stamps
  <2>6. QED
    BY <1>1, <1>5, <2>1, <2>5, UartStateNext DEF UartOwes, KindStep
<1>6. QED
  BY <1>3, <1>4, <1>5 DEF UartSurroundings

\* Every step under the UART keeps the loops' invariant.
LEMMA UartStep ==
    ASSUME ServeInv, transport = "uart", UNCHANGED burstVars, UartNext PROVE UartOwes
BY UartTakes, UartEndsRead, UartDrops, UartFlushes, UartIdles, UartTicks, UartSurrounds DEF UartNext

-----------------------------------------------------------------------------
(* The burst loops: TCP and USB-CDC *)

BurstOwes == KindStep /\ LoopInv'

\* The invariant as the burst loops see it.
BurstState ==
    /\ LoopTypes
    /\ \A i \in DOMAIN rx : rx[i].age <= floor
    /\ phase \in {"work", "flush"} => cur.age <= floor
    /\ phase \in {"work", "flush", "post"} /\ ~full =>
          \A i \in DOMAIN rx : i > taken => rx[i].age <= read_end

\* The loops' invariant under TCP and CDC.
LEMMA BurstStateIs == transport # "uart" => (LoopInv <=> BurstState)
BY DEF LoopInv, BurstState, PollInv, UartAges, BurstAges

\* The same after a step.
LEMMA BurstStateNext == transport' # "uart" => (LoopInv' <=> BurstState')
<1>1. (transport # "uart")' => (LoopInv' <=> BurstState')
  BY BurstStateIs, PTL
<1>2. QED
  BY <1>1

\* The age of a queued command is a number.
LEMMA AgesAreNat ==
    ASSUME NEW q \in Seq(Commands) PROVE \A i \in DOMAIN q : q[i] \in Commands /\ q[i].age \in Nat
<1>1. DOMAIN q = 1..Len(q)
  BY LenProperties
<1>2. \A i \in DOMAIN q : q[i] \in Commands
  BY <1>1, ElementOfSeq
<1>3. QED
  BY <1>2 DEF Commands

\* A read returns a burst.
LEMMA BurstReads ==
    ASSUME ServeInv, transport # "uart", UNCHANGED uartOwn, ReadBurst
    PROVE  BurstOwes
<1>1. /\ phase = "read" /\ phase' = "post" /\ taken' \in 1..Len(rx) /\ read_end' = 0
      /\ full' \in BOOLEAN /\ (taken' < Len(rx) => full')
      /\ UNCHANGED <<transport, srv, te, card, rx, cur, worked, wire, floor>>
  BY DEF ReadBurst
<1>2. BurstState
  BY BurstStateIs DEF ServeInv
<1>3. rx \in Seq(Commands) /\ Len(rx) \in Nat /\ DOMAIN rx = 1..Len(rx)
  BY ServeFacts, LenProperties
<1>4. LoopTypes'
  BY <1>1, <1>2, <1>3, ZeroStamp DEF LoopTypes, BurstState, uartOwn
<1>5. ~full' => \A i \in DOMAIN rx' : ~(i > taken')
  BY <1>1, <1>3
<1>6. BurstState'
  BY <1>1, <1>2, <1>4, <1>5 DEF BurstState
<1>7. KindStep
  BY <1>1, ServeFacts DEF KindStep, QuietStep, SameLatches
<1>8. QED
  BY <1>1, <1>6, <1>7, BurstStateNext DEF BurstOwes

\* A command of the burst is started.
LEMMA BurstFeeds ==
    ASSUME ServeInv, transport # "uart", UNCHANGED uartOwn, FeedNext
    PROVE  BurstOwes
<1> DEFINE c == Head(rx)
<1>1. /\ phase = "post" /\ taken > 0 /\ StartCommand(c) /\ rx' = Tail(rx) /\ taken' = taken - 1
      /\ UNCHANGED <<card, floor, read_end, full>>
  BY DEF FeedNext
<1>2. BurstState
  BY BurstStateIs DEF ServeInv
<1>3. rx # <<>> /\ Len(rx) \in Nat /\ DOMAIN rx = 1..Len(rx) /\ taken \in 1..Len(rx)
  BY <1>1, ServeFacts, LenProperties
<1>4. /\ c \in Commands /\ c = rx[1] /\ 1 \in DOMAIN rx /\ rx' \in Seq(Commands)
      /\ Len(rx') = Len(rx) - 1
      /\ \A i \in DOMAIN rx' : i + 1 \in DOMAIN rx /\ rx'[i] = rx[i + 1]
  BY <1>1, <1>3, ServeFacts, TailFacts
<1>5. phase' = "work" /\ worked' = 0 /\ cur' = c /\ transport' = transport
  BY <1>1 DEF StartCommand
<1> HIDE DEF c
<1>6. KindStep
  BY <1>1, <1>4 DEF StartStep, KindStep
<1>7. LoopTypes'
  BY <1>1, <1>2, <1>3, <1>4, <1>5, ServerAssumption DEF LoopTypes, BurstState, uartOwn
<1>8. cur'.age <= floor' /\ \A i \in DOMAIN rx' : rx'[i].age <= floor'
  BY <1>1, <1>2, <1>4, <1>5 DEF BurstState
<1>9. ~full' => \A i \in DOMAIN rx' : i > taken' => rx'[i].age <= read_end'
  <2> SUFFICES ASSUME ~full', NEW i \in DOMAIN rx', i > taken' PROVE rx'[i].age <= read_end'
    OBVIOUS
  <2>1. i + 1 \in DOMAIN rx /\ rx'[i] = rx[i + 1]
    BY <1>4
  <2>2. i \in Nat
    BY <1>4, LenProperties
  <2>3. i + 1 > taken
    BY <1>1, <1>3, <2>2
  <2>4. QED
    BY <1>1, <1>2, <2>1, <2>3 DEF BurstState
<1>10. BurstState'
  BY <1>5, <1>7, <1>8, <1>9 DEF BurstState
<1>11. QED
  BY <1>5, <1>6, <1>10, BurstStateNext DEF BurstOwes

\* A step that ends in a read, having emptied the buffer or advanced the floor
\* as far as the last read proves it empty.
LEMMA BurstRests ==
    ASSUME ServeInv, transport # "uart", UNCHANGED uartOwn, transport' = transport, taken = 0,
           taken' = 0, phase' = "read", worked' = worked, read_end' \in Stamps, full' \in BOOLEAN,
           floor' \in Stamps,
           \/ rx' = <<>>
           \/ rx' = rx /\ phase = "read" /\ floor' = floor
           \/ rx' = rx /\ phase = "post" /\ floor' = IF full THEN floor ELSE read_end
    PROVE  LoopInv'
<1>1. BurstState
  BY BurstStateIs DEF ServeInv
<1>2. rx \in Seq(Commands) /\ Len(rx) \in Nat /\ DOMAIN rx = 1..Len(rx)
  BY ServeFacts, LenProperties
<1>3. rx' \in Seq(Commands)
  BY <1>2, EmptySeq
<1>4. LoopTypes'
  BY <1>1, <1>3 DEF LoopTypes, BurstState, uartOwn
<1>5. \A i \in DOMAIN rx' : rx'[i].age <= floor'
  <2>1. CASE rx' = <<>>
    BY <2>1
  <2>2. CASE rx' = rx /\ floor' = floor
    BY <1>1, <2>2 DEF BurstState
  <2>3. CASE rx' = rx /\ phase = "post" /\ ~full /\ floor' = read_end
    BY <1>1, <1>2, <2>3 DEF BurstState
  <2>4. QED
    BY <2>1, <2>2, <2>3
<1>6. BurstState'
  BY <1>4, <1>5 DEF BurstState
<1>7. QED
  BY <1>6, BurstStateNext

\* The burst is served.
LEMMA BurstEnds ==
    ASSUME ServeInv, transport # "uart", UNCHANGED uartOwn, CdcBurstEnds \/ TcpBurstEnds
    PROVE  BurstOwes
<1>1. /\ phase = "post" /\ taken = 0 /\ floor' = (IF full THEN floor ELSE read_end)
      /\ phase' = "read" /\ srv' \in {srv, PollIfDue(srv)}
      /\ UNCHANGED <<transport, te, card, rx, cur, worked, wire, read_end, taken, full>>
  BY DEF CdcBurstEnds, TcpBurstEnds, AdvanceFloor, LoopTail
<1>2. srv' \in Servers /\ SameLatches(srv, srv')
  BY <1>1, ServeFacts, PollIfDueFacts DEF SameLatches
<1>3. KindStep
  BY <1>1, <1>2, ServeFacts DEF KindStep, QuietStep
<1>4. LoopInv'
  BY <1>1, ServeFacts, BurstRests
<1>5. QED
  BY <1>3, <1>4 DEF BurstOwes

\* An idle read polls.
LEMMA BurstIdles ==
    ASSUME ServeInv, transport # "uart", UNCHANGED uartOwn, CdcIdle \/ TcpIdle
    PROVE  BurstOwes
<1>1. /\ phase = "read" /\ rx = <<>> /\ floor' \in {floor, 0}
      /\ phase' = "read" /\ srv' \in {srv, PollIfDue(srv)}
      /\ UNCHANGED <<transport, te, card, rx, cur, worked, wire, read_end, taken, full>>
  BY DEF CdcIdle, TcpIdle, LoopTail
<1>2. srv' \in Servers /\ SameLatches(srv, srv')
  BY <1>1, ServeFacts, PollIfDueFacts DEF SameLatches
<1>3. KindStep
  BY <1>1, <1>2, ServeFacts DEF KindStep, QuietStep
<1>4. taken = 0 /\ floor' \in Stamps
  BY <1>1, ServeFacts, ZeroStamp DEF ServeInv, LoopInv, LoopTypes
<1>5. LoopInv'
  BY <1>1, <1>4, ServeFacts, BurstRests
<1>6. QED
  BY <1>3, <1>5 DEF BurstOwes

\* A TCP session is closed, lost or accepted.
LEMMA SessionsChange ==
    ASSUME ServeInv, transport # "uart", UNCHANGED uartOwn, Accept \/ SessionLost
    PROVE  BurstOwes
<1>1. /\ phase = "read" /\ phase' = "read" /\ rx' = <<>> /\ cur' = NoCmd /\ wire' = <<>>
      /\ UNCHANGED <<transport, srv, te, card, worked>>
      /\ floor' \in {floor, 0} /\ read_end' \in {read_end, 0} /\ taken' \in {taken, 0}
      /\ full' \in {full, FALSE}
  BY DEF Accept, SessionLost
<1>2. KindStep
  BY <1>1, ServeFacts DEF KindStep, QuietStep, SameLatches
<1>3. /\ taken = 0 /\ taken' = 0 /\ floor' \in Stamps /\ read_end' \in Stamps
      /\ full' \in BOOLEAN
  BY <1>1, ServeFacts, ZeroStamp DEF ServeInv, LoopInv, LoopTypes
<1>4. LoopInv'
  BY <1>1, <1>3, BurstRests
<1>5. QED
  BY <1>2, <1>4 DEF BurstOwes

\* A step that leaves the exchange: the burst goes on, or a failed write has
\* thrown the rest of it away.
LEMMA BurstLeaves ==
    ASSUME ServeInv, transport # "uart", UNCHANGED uartOwn, phase = "flush",
           phase' \in {"post", "down"}, UNCHANGED <<transport, worked, floor, read_end, full>>,
           \/ UNCHANGED <<rx, taken>>
           \/ rx' = SubSeq(rx, taken + 1, Len(rx)) /\ taken' = 0
    PROVE  LoopInv'
<1>1. BurstState
  BY BurstStateIs DEF ServeInv
<1>2. CASE UNCHANGED <<rx, taken>>
  <2>1. BurstState'
    BY <1>1, <1>2 DEF BurstState, LoopTypes, uartOwn
  <2>2. QED
    BY <2>1, BurstStateNext
<1>3. CASE rx' = SubSeq(rx, taken + 1, Len(rx)) /\ taken' = 0
  <2>1. rx \in Seq(Commands) /\ Len(rx) \in Nat /\ DOMAIN rx = 1..Len(rx) /\ taken \in 0..Len(rx)
    BY ServeFacts, LenProperties
  <2>2. \A i \in (taken + 1)..Len(rx) : rx[i] \in Commands
    BY <2>1, AgesAreNat
  <2> DEFINE q == SubSeq(rx, taken + 1, Len(rx))
  <2>3. taken + 1 \in Int /\ Len(rx) \in Int
    BY <2>1
  <2>4. /\ q \in Seq(Commands)
        /\ Len(q) = IF taken + 1 <= Len(rx) THEN Len(rx) - (taken + 1) + 1 ELSE 0
        /\ \A i \in 1..(Len(rx) - (taken + 1) + 1) : q[i] = rx[(taken + 1) + i - 1]
    BY <2>2, <2>3, SubSeqProperties
  <2> HIDE DEF q
  <2>5. rx' = q
    BY <1>3 DEF q
  <2>6. DOMAIN q = 1..(Len(rx) - taken)
    <3>0. q \in Seq(Commands)
      BY <2>4
    <3>1. DOMAIN q = 1..Len(q)
      BY <3>0, LenProperties
    <3>2. Len(q) = Len(rx) - taken
      <4>1. CASE taken < Len(rx)
        <5>1. taken + 1 <= Len(rx) /\ Len(rx) - (taken + 1) + 1 = Len(rx) - taken
          BY <2>1, <4>1
        <5>2. QED
          BY <2>4, <5>1
      <4>2. CASE taken = Len(rx)
        <5>1. ~(taken + 1 <= Len(rx)) /\ Len(rx) - taken = 0
          BY <2>1, <4>2
        <5>2. QED
          BY <2>4, <5>1
      <4>3. Len(rx) \in Nat /\ taken \in 0..Len(rx)
        BY <2>1
      <4>4. taken < Len(rx) \/ taken = Len(rx)
        BY <4>3
      <4>5. QED
        BY <4>1, <4>2, <4>4
    <3>3. QED
      BY <3>1, <3>2
  <2>7. \A i \in DOMAIN q : i + taken \in DOMAIN rx /\ i + taken > taken /\ q[i] = rx[i + taken]
    <3> SUFFICES ASSUME NEW i \in DOMAIN q
                 PROVE  i + taken \in DOMAIN rx /\ i + taken > taken /\ q[i] = rx[i + taken]
      OBVIOUS
    <3>1. i \in 1..(Len(rx) - (taken + 1) + 1) /\ (taken + 1) + i - 1 = i + taken
      BY <2>1, <2>6
    <3>2. q[i] = rx[(taken + 1) + i - 1]
      BY <2>4, <3>1
    <3>3. i + taken \in DOMAIN rx /\ i + taken > taken
      BY <2>1, <2>6
    <3>4. QED
      BY <3>1, <3>2, <3>3
  <2>8. LoopTypes'
    BY <1>1, <1>3, <2>4, <2>5, LenProperties DEF LoopTypes, BurstState, uartOwn
  <2>9. \A i \in DOMAIN rx' : rx'[i].age <= floor'
    BY <1>1, <2>5, <2>7 DEF BurstState
  <2>10. ~full' => \A i \in DOMAIN rx' : rx'[i].age <= read_end'
    BY <1>1, <2>5, <2>7 DEF BurstState
  <2>11. BurstState'
    BY <2>8, <2>9, <2>10 DEF BurstState
  <2>12. QED
    BY <2>11, BurstStateNext
<1>4. QED
  BY <1>2, <1>3

\* The age a response is judged by covers the age of its command.
LEMMA JudgedFacts ==
    ASSUME ServeInv
    PROVE  /\ Judged \in Servers /\ SameLatches(srv, Judged) /\ Output(Judged) = Output(srv)
           /\ ResponseExpired(Judged) <=> floor > srv.window
           /\ floor \in Nat /\ srv.window \in Nat
<1>1. /\ Judged \in Servers /\ SameLatches(srv, Judged)
      /\ ResponseExpired(Judged) <=> floor > srv.window
  BY ServeFacts, RefreshFacts DEF Judged
<1>2. Output(Judged) = Output(srv)
  BY <1>1 DEF Output, Written, SameLatches
<1>3. floor \in Nat /\ srv.window \in Nat
  BY ServeFacts DEF Servers, Stamps
<1>4. QED
  BY <1>1, <1>2, <1>3

\* A late response is dropped.
LEMMA BurstDrops ==
    ASSUME ServeInv, transport # "uart", UNCHANGED uartOwn, DropLateBurst
    PROVE  BurstOwes
<1>1. /\ phase = "flush" /\ srv' = RecordLateResponse(Judged) /\ phase' = "post"
      /\ UNCHANGED <<transport, te, card, rx, cur, worked, wire, floor, read_end, taken, full>>
  BY DEF DropLateBurst
<1>2. srv' \in Servers /\ ~srv'.snapshot /\ ~srv'.baud /\ srv'.notify = None
  BY <1>1, JudgedFacts, RecordLateFacts
<1>3. KindStep
  BY <1>1, <1>2 DEF KindStep, LateStep, SameFrames
<1>4. LoopInv'
  BY <1>1, BurstLeaves
<1>5. QED
  BY <1>3, <1>4 DEF BurstOwes

\* A response is written.
LEMMA BurstWrites ==
    ASSUME ServeInv, transport # "uart", UNCHANGED uartOwn, CdcFlush \/ TcpFlush
    PROVE  BurstOwes
<1> DEFINE t == [Judged EXCEPT !.snapshot = FALSE]
<1>1. /\ phase = "flush" /\ ~ResponseExpired(Judged) /\ srv' = t
      /\ phase' = (IF srv.snapshot THEN "down" ELSE "post")
      /\ UNCHANGED <<transport, te, card, rx, cur, worked, floor, read_end, taken, full>>
  BY DEF CdcFlush, TcpFlush
<1>2. \E n \in 0..Len(Output(srv)) : wire' = wire \o SubSeq(Output(srv), 1, n)
  <2>1. CASE CdcFlush
    BY <2>1, JudgedFacts DEF CdcFlush
  <2>2. CASE TcpFlush
    <3>1. Output(srv) \in Seq(Frames)
      BY ServeFacts, WrittenIs, AnswersAreOrdered DEF Output
    <3>2. SubSeq(Output(srv), 1, Len(Output(srv))) = Output(srv) /\ Len(Output(srv)) \in Nat
      BY <3>1, SubSeqFull, LenProperties
    <3>3. wire' = wire \o Output(srv)
      BY <2>2, JudgedFacts DEF TcpFlush
    <3>4. Len(Output(srv)) \in 0..Len(Output(srv))
      BY <3>2
    <3>5. QED
      BY <3>2, <3>3, <3>4
  <2>3. QED
    BY <2>1, <2>2
<1>3. Judged \in Servers /\ SameLatches(srv, Judged)
  BY JudgedFacts
<1>4. t \in Servers /\ t.snapshot = FALSE /\ t.notify = srv.notify /\ t.baud = srv.baud
  BY <1>3 DEF Servers, SameLatches
<1> HIDE DEF t
<1>5. floor <= srv.window
  BY <1>1, JudgedFacts
<1>6. WriteStep
  BY <1>1, <1>2, <1>4, <1>5 DEF WriteStep, SameFrames, Anchor
<1>7. LoopInv'
  BY <1>1, BurstLeaves
<1>8. QED
  BY <1>6, <1>7 DEF BurstOwes, KindStep

\* A write fails and the session ends.
LEMMA TcpWriteFails ==
    ASSUME ServeInv, transport = "tcp", UNCHANGED uartOwn, TcpFlushFails
    PROVE  BurstOwes
<1>1. /\ phase = "flush" /\ ~ResponseExpired(Judged) /\ srv' = Judged /\ phase' = "post"
      /\ rx' = SubSeq(rx, taken + 1, Len(rx)) /\ taken' = 0
      /\ UNCHANGED <<transport, te, card, cur, worked, floor, read_end, full>>
  BY DEF TcpFlushFails
<1>2. PICK n \in 0..(Len(Output(Judged)) - 1) : wire' = wire \o SubSeq(Output(Judged), 1, n)
  BY DEF TcpFlushFails
<1>3. Output(srv) \in Seq(Frames) /\ Len(Output(srv)) \in Nat
  BY ServeFacts, WrittenIs, AnswersAreOrdered, LenProperties DEF Output
<1>4. n \in 0..Len(Output(srv)) /\ wire' = wire \o SubSeq(Output(srv), 1, n)
  BY <1>2, <1>3, JudgedFacts
<1>5. Judged \in Servers /\ SameLatches(srv, Judged) /\ floor <= srv.window
  BY <1>1, JudgedFacts
<1>6. ~srv.baud
  BY DEF ServeInv, FrameInv, LatchInv
<1>7. WriteStep
  BY <1>1, <1>4, <1>5, <1>6 DEF WriteStep, SameFrames, Anchor, SameLatches
<1>8. LoopInv'
  BY <1>1, BurstLeaves
<1>9. QED
  BY <1>7, <1>8 DEF BurstOwes, KindStep

\* Time passes.
LEMMA BurstTicks ==
    ASSUME ServeInv, transport # "uart", UNCHANGED uartOwn, BurstTick
    PROVE  BurstOwes
<1>1. Tick
  BY DEF BurstTick
<1>2. /\ floor < Modulus - 1 /\ floor' = Older(floor) /\ read_end' = Older(read_end)
      /\ phase = "read" => rx = <<>>
      /\ phase = "work" /\ ~full => read_end < Modulus - 1
      /\ UNCHANGED <<taken, full>>
  BY DEF BurstTick
<1>3. BurstState
  BY BurstStateIs DEF ServeInv
<1>4. /\ QuietStep /\ phase' = phase /\ transport' = transport
      /\ worked' \in 0..MaxWork
      /\ rx' \in Seq(Commands) /\ Len(rx') = Len(rx) /\ DOMAIN rx' = DOMAIN rx
      /\ \A i \in DOMAIN rx : rx'[i].age <= rx[i].age + 1
      /\ cur \in Commands => cur'.age <= cur.age + 1
  BY <1>1, TickFacts
<1>5. phase \in {"read", "work"}
  BY <1>1 DEF Tick
<1>6. /\ floor' \in Stamps /\ floor' = floor + 1 /\ read_end' \in Stamps
      /\ read_end < Modulus - 1 => read_end' = read_end + 1
  BY <1>2, ServeFacts, OlderStamp
<1>7. LoopTypes'
  BY <1>2, <1>3, <1>4, <1>6 DEF LoopTypes, BurstState, uartOwn
<1>8. \A i \in DOMAIN rx' : rx'[i].age \in Nat /\ rx[i].age \in Nat
  BY <1>4, ServeFacts, AgesAreNat
<1>9. floor \in Nat /\ read_end \in Nat
  BY ServeFacts DEF Stamps
<1>10. \A i \in DOMAIN rx' : rx'[i].age <= floor'
  BY <1>3, <1>4, <1>6, <1>8, <1>9 DEF BurstState
<1>11. phase = "work" => cur'.age <= floor'
  <2> SUFFICES ASSUME phase = "work" PROVE cur'.age <= floor'
    OBVIOUS
  <2>1. cur \in Commands
    BY DEF ServeInv, FrameInv, WireInv
  <2>2. cur'.age \in Nat /\ cur.age \in Nat
    BY <1>4, <2>1 DEF QuietStep, Commands, NoCmd
  <2>3. QED
    BY <1>3, <1>4, <1>6, <1>9, <2>1, <2>2 DEF BurstState
<1>12. phase = "work" /\ ~full => \A i \in DOMAIN rx' : i > taken' => rx'[i].age <= read_end'
  <2> SUFFICES ASSUME phase = "work", ~full, NEW i \in DOMAIN rx', i > taken'
               PROVE  rx'[i].age <= read_end'
    OBVIOUS
  <2>1. rx[i].age <= read_end
    BY <1>2, <1>3, <1>4 DEF BurstState
  <2>2. QED
    BY <1>2, <1>4, <1>6, <1>8, <1>9, <2>1
<1>13. BurstState'
  BY <1>2, <1>4, <1>5, <1>7, <1>10, <1>11, <1>12 DEF BurstState
<1>14. QED
  BY <1>4, <1>13, BurstStateNext DEF BurstOwes, KindStep

\* The host and the card move.
LEMMA BurstSurrounds ==
    ASSUME ServeInv, transport # "uart", UNCHANGED uartOwn, BurstSurroundings
    PROVE  BurstOwes
<1>1. UNCHANGED <<floor, read_end, taken, full>>
  BY DEF BurstSurroundings, burstVars
<1>2. BurstState
  BY BurstStateIs DEF ServeInv
<1>3. rx \in Seq(Commands) /\ Len(rx) \in Nat /\ DOMAIN rx = 1..Len(rx)
  BY ServeFacts, LenProperties
<1>4. CASE HostSends
  <2>1. /\ QuietStep /\ UNCHANGED <<srv, cur, phase, worked, transport>>
        /\ rx' \in Seq(Commands) /\ Len(rx') = Len(rx) + 1
        /\ \A i \in DOMAIN rx' : IF i \in DOMAIN rx THEN rx'[i] = rx[i] ELSE rx'[i].age = 0
    BY <1>4, SendFacts
  <2>2. LoopTypes'
    BY <1>1, <1>2, <1>3, <2>1 DEF LoopTypes, BurstState, uartOwn
  <2>3. floor \in Nat /\ read_end \in Nat
    BY ServeFacts DEF Stamps
  <2>4. BurstState'
    BY <1>1, <1>2, <2>1, <2>2, <2>3 DEF BurstState
  <2>5. QED
    BY <2>1, <2>4, BurstStateNext DEF BurstOwes, KindStep
<1>5. CASE CardMoves
  <2>1. QuietStep /\ UNCHANGED <<srv, cur, phase, worked, transport, rx>>
    BY <1>5, CardFacts
  <2>2. BurstState'
    BY <1>1, <1>2, <2>1 DEF BurstState, LoopTypes, uartOwn
  <2>3. QED
    BY <2>1, <2>2, BurstStateNext DEF BurstOwes, KindStep
<1>6. CASE StallHook
  <2>1. /\ phase = "work" /\ UNCHANGED <<transport, rx, phase, worked>>
        /\ cur' = IF HostWaits(cur) THEN [cur EXCEPT !.grown = 2 * @] ELSE cur
    BY <1>6 DEF StallHook
  <2>2. cur \in Commands
    BY <2>1 DEF ServeInv, FrameInv, WireInv
  <2>3. cur'.age = cur.age
    BY <2>1, <2>2 DEF Commands
  <2>4. BurstState'
    BY <1>1, <1>2, <2>1, <2>3 DEF BurstState, LoopTypes, uartOwn
  <2>5. QED
    BY <1>6, <2>1, <2>4, BurstStateNext DEF BurstOwes, KindStep, StallStep
<1>7. CASE FinishCommand
  <2>1. phase = "work" /\ phase' = "flush" /\ UNCHANGED <<transport, rx, cur, worked>>
    BY <1>7 DEF FinishCommand
  <2>2. BurstState'
    BY <1>1, <1>2, <2>1 DEF BurstState, LoopTypes, uartOwn
  <2>3. QED
    BY <1>7, <2>1, <2>2, BurstStateNext DEF BurstOwes, KindStep
<1>8. QED
  BY <1>4, <1>5, <1>6, <1>7 DEF BurstSurroundings

\* Every step under CDC keeps the loops' invariant.
LEMMA CdcStep ==
    ASSUME ServeInv, transport = "cdc", UNCHANGED uartOwn, CdcNext PROVE BurstOwes
<1>1. transport # "uart"
  OBVIOUS
<1>2. QED
  BY <1>1, BurstReads, BurstFeeds, BurstEnds, BurstIdles, BurstDrops, BurstWrites, BurstTicks,
     BurstSurrounds DEF CdcNext

\* Every step under TCP keeps it.
LEMMA TcpStep ==
    ASSUME ServeInv, transport = "tcp", UNCHANGED uartOwn, TcpNext PROVE BurstOwes
<1>1. transport # "uart"
  OBVIOUS
<1>2. QED
  BY <1>1, BurstReads, BurstFeeds, BurstEnds, BurstIdles, BurstDrops, BurstWrites, BurstTicks,
     BurstSurrounds, SessionsChange, TcpWriteFails
     DEF TcpNext, TcpRead, TcpFeed, TcpDropLate, TcpTick, TcpSurroundings

-----------------------------------------------------------------------------
(* The serve loops *)

\* A server that was just built is in the invariant.
LEMMA ServeInitial == ServeInit => ServeInv
<1> SUFFICES ASSUME ServeInit PROVE ServeInv
  OBVIOUS
<1> USE DEF ServeInit, ServerInit, UartInit, BurstInit, TcpInit
<1>1. NewServer \in Servers /\ NewServer.notify = None /\ ~NewServer.snapshot /\ ~NewServer.baud
      /\ NewServer.poll_age = 0
  <2>1. WindowOf["Baud"] \in Nat
    BY ServerAssumption DEF Classes
  <2>2. QED
    BY <2>1, ZeroStamp DEF NewServer, Servers, Presences
<1>2. FrameTypes
  BY <1>1, EmptySeq DEF FrameTypes, Disarmed
<1>3. WireInv
  BY <1>1 DEF WireInv, WireOrder
<1>4. LatchInv
  BY <1>1 DEF LatchInv, PanicForOwnCommand
<1>5. LoopTypes
  <2>1. 0 \in 0..MaxWork /\ rx \in Seq(Commands) /\ 0 \in 0..Len(rx)
    BY EmptySeq, ServerAssumption
  <2>2. QED
    BY <2>1, ZeroStamp DEF LoopTypes
<1>6. PollInv /\ UartAges /\ BurstAges
  BY <1>1, ServerAssumption DEF PollInv, UartAges, BurstAges
<1>7. QED
  BY <1>2, <1>3, <1>4, <1>5, <1>6 DEF ServeInv, FrameInv, LoopInv

\* Every step of every loop is one of the server's kinds and keeps the
\* invariant.
LEMMA ServeStep ==
    ServeInv /\ [ServeNext]_loopVars
       => /\ ServeInv' /\ (KindStep \/ UNCHANGED loopVars)
          /\ switched' # switched => cur.class = "Baud" /\ Answered'
<1> SUFFICES ASSUME ServeInv, [ServeNext]_loopVars
             PROVE  /\ ServeInv' /\ (KindStep \/ UNCHANGED loopVars)
                    /\ switched' # switched => cur.class = "Baud" /\ Answered'
  OBVIOUS
<1>1. ASSUME KindStep PROVE FrameInv'
  BY <1>1, KindKeeps DEF ServeInv
<1>2. CASE transport = "uart" /\ UartNext /\ UNCHANGED <<burstVars, tcpOwn>>
  BY <1>1, <1>2, UartStep DEF UartOwes, ServeInv
<1>3. CASE transport = "tcp" /\ TcpNext /\ UNCHANGED uartOwn
  BY <1>1, <1>3, TcpStep DEF BurstOwes, ServeInv, uartOwn
<1>4. CASE transport = "cdc" /\ CdcNext /\ UNCHANGED <<uartOwn, tcpOwn>>
  BY <1>1, <1>4, CdcStep DEF BurstOwes, ServeInv, uartOwn
<1>5. CASE UNCHANGED loopVars
  <2>1. UNCHANGED <<transport, srv, te, card, rx, cur, phase, worked, wire, origin, pre, switched,
                    garbled, floor, read_end, taken, full>>
    BY <1>5 DEF loopVars, serverVars, uartOwn, burstVars
  <2>2. FrameInv'
    BY <2>1 DEF ServeInv, FrameInv, FrameTypes, WireInv, WireOrder, LatchInv, PanicForOwnCommand
  <2>3. LoopInv'
    BY <2>1 DEF ServeInv, LoopInv, LoopTypes, PollInv, UartAges, BurstAges
  <2>4. QED
    BY <1>5, <2>1, <2>2, <2>3 DEF ServeInv
<1>6. QED
  BY <1>2, <1>3, <1>4, <1>5 DEF ServeNext

\* The inductive invariant of the server under every serve loop.
THEOREM ServeInductive == ServeSpec => []ServeInv
<1>1. ServeInv /\ [ServeNext]_loopVars => ServeInv'
  BY ServeStep
<1>2. QED
  BY ServeInitial, <1>1, PTL DEF ServeSpec

\* feed_byte, the stall hook and the write sites of serve_byte, serve_session
\* and serve_once: an exchange begins with exactly one echo, notifies right
\* after it and ends with its response, whatever writes fail.
THEOREM WireIsOrdered == ServeSpec => []WireOrder
<1>1. ServeInv => WireOrder
  BY DEF ServeInv, FrameInv, WireInv
<1>2. QED
  BY ServeInductive, <1>1, PTL

\* record_late_response and the write sites: the panic of a 0xD1 escape is
\* taken for that command, on every loop but TCP.
THEOREM PanicIsOwn == ServeSpec => []PanicForOwnCommand
<1>1. ServeInv => PanicForOwnCommand
  BY DEF ServeInv, FrameInv, LatchInv
<1>2. QED
  BY ServeInductive, <1>1, PTL

\* serve_byte and on_read_idle: well-formed traffic never holds the presence
\* poll off for more than its interval, one read and one command.
THEOREM PollsAreKept == ServeSpec => []PresenceIsPolled
<1>1. ServeInv => PresenceIsPolled
  <2> SUFFICES ASSUME ServeInv, transport = "uart", ~garbled
               PROVE  ~(srv.poll_age > PollInterval + ReadTimeout + MaxWork)
    BY DEF PresenceIsPolled
  <2>1. UartState
    BY UartStateIs DEF ServeInv
  <2>2. /\ srv.poll_age \in Nat /\ worked \in 0..MaxWork /\ origin \in Nat
        /\ PollInterval \in Nat /\ ReadTimeout \in Nat /\ MaxWork \in Nat
    BY ServeFacts, ServerAssumption DEF Stamps
  <2>3. phase \in {"read", "work", "flush", "post", "down"}
    BY DEF ServeInv, FrameInv, FrameTypes
  <2>4. QED
    BY <2>1, <2>2, <2>3 DEF UartState
<1>2. QED
  BY ServeInductive, <1>1, PTL

\* refresh_host_deadline and response_expired: whatever queued behind a slow
\* handler, in the driver's buffer or in a burst, a response is written only
\* while the host still waits for that very command.
THEOREM AnswersReachTheirHost == ServeSpec => AnswersAreAwaited
<1>1. ServeInv /\ [ServeNext]_loopVars => [Answered' /\ ~Answered => HostWaits(cur)]_serverVars
  <2> SUFFICES ASSUME ServeInv, [ServeNext]_loopVars, Answered', ~Answered PROVE HostWaits(cur)
    OBVIOUS
  <2>1. CASE UNCHANGED loopVars
    BY <2>1 DEF loopVars, serverVars, Answered
  <2>2. CASE KindStep
    <3>1. phase = "flush" /\ Anchor <= srv.window
      BY <2>2, AnswerIsWritten DEF WriteStep, ServeInv
    <3>2. cur \in Commands /\ srv.window = WindowOf[cur.class]
      BY <3>1 DEF ServeInv, FrameInv, WireInv
    <3>3. cur.age <= Anchor
      BY <3>1 DEF ServeInv, LoopInv, UartAges, BurstAges, Anchor
    <3>4. cur.class \in Classes /\ cur.class # None /\ cur.age \in Nat /\ cur.grown \in Nat \ {0}
      BY <3>2, CommandIsNotNone DEF Commands
    <3>5. /\ WindowOf[cur.class] \in Nat /\ HostWindow[cur.class] \in Nat
          /\ WindowOf[cur.class] < HostWindow[cur.class]
      BY <3>4, ServerAssumption
    <3>6. Anchor \in Nat
      BY ServeFacts DEF Anchor, Stamps
    <3>7. cur.age <= HostWindow[cur.class]
      BY <3>1, <3>2, <3>3, <3>4, <3>5, <3>6
    <3>8. HostWindow[cur.class] <= HostWindow[cur.class] * cur.grown
      <4> DEFINE h == HostWindow[cur.class]
                 g == cur.grown
      <4>1. h \in Nat /\ g \in Nat /\ g >= 1
        BY <3>4, <3>5
      <4> HIDE DEF h, g
      <4>2. h <= h * g
        BY <4>1
      <4>3. QED
        BY <4>2 DEF h, g
    <3>9. HostWindow[cur.class] * cur.grown \in Nat
      BY <3>4, <3>5
    <3>10. QED
      BY <3>4, <3>5, <3>7, <3>8, <3>9 DEF HostWaits
  <2>3. QED
    BY <2>1, <2>2, ServeStep
<1>2. QED
  BY ServeInductive, <1>1, PTL DEF ServeSpec, AnswersAreAwaited

\* serve_byte and take_pending_baud: the line rate changes only with the
\* acknowledgement of the command that asked for it, written whole.
THEOREM RateWaitsForAck == ServeSpec => RateFollowsAck
<1>1. ServeInv /\ [ServeNext]_loopVars
        => [switched' # switched => cur.class = "Baud" /\ Answered']_<<serverVars, uartOwn>>
  BY ServeStep
<1>2. QED
  BY ServeInductive, <1>1, PTL DEF ServeSpec, RateFollowsAck

=============================================================================
