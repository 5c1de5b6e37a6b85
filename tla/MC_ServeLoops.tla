---------------------------- MODULE MC_ServeLoops ----------------------------
(* Windows of one tick; the host waits one tick longer.                     *)
EXTENDS ServeLoops

MC_Window == [c \in Classes |-> 1]
MC_HostWindow == [c \in Classes |-> MC_Window[c] + 1]

\* Left out of a state's identity: what the next dispatch overwrites before
\* anything reads it (stamps and buffers between commands), counters, and how
\* long ago the host gave up.
Awaited(c) == IF HostWaits(c) THEN c ELSE [c EXCEPT !.age = AgeCap, !.grown = 1]
Idle == phase = "read"
Waiting == HostWaits(cur) /\ ~Answered
Essential ==
    <<transport,
      [srv EXCEPT !.late_drops = 0,
                  !.frame_age = IF phase = "work" THEN @ ELSE 0,
                  !.window = IF Idle THEN 1 ELSE @,
                  !.echo = IF Idle THEN FALSE ELSE @,
                  !.resp = IF Idle THEN None ELSE @],
      te, card, [i \in DOMAIN rx |-> Awaited(rx[i])],
      IF Idle THEN Waiting ELSE Awaited(cur), IF Idle /\ Waiting THEN <<cur.age, cur.grown>> ELSE <<>>,
      phase, IF phase = "work" THEN worked ELSE 0, IF Idle THEN <<>> ELSE wire,
      origin, IF Idle THEN 0 ELSE pre, switched, garbled,
      floor, IF Idle \/ full THEN 0 ELSE read_end, taken, ~Idle /\ full, waited, session, idle_ticks, broken>>
=============================================================================
