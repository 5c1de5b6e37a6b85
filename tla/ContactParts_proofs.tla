------------------------- MODULE ContactParts_proofs -------------------------
(***************************************************************************)
(* Proofs about the parts of the STM32 reader below its USB transport, as  *)
(* MC_ContactParts puts them side by side: the wrapping counters tell the  *)
(* time, for any width of the counters and any speed of the loop, the PIN  *)
(* that is sent to the card is the one confirmed, what is taken from the   *)
(* wire is what the card put there, and what is read of an ATR, a Secure   *)
(* command and a bit-banged answer is what was written there.              *)
(***************************************************************************)
EXTENDS MC_ContactParts, SequenceTheorems, FiniteSetTheorems, WellFoundedInduction, TLAPS

-----------------------------------------------------------------------------
(* The waiting times, for every waiting-time integer and baud rate *)

\* A wait rounded up to milliseconds lasts as long as the etu count.
LEMMA CeilMsLasts ==
    ASSUME NEW etu \in Nat, NEW baud \in Nat \ {0}
    PROVE  CeilMs(etu, baud) \in Nat /\ Lasts(CeilMs(etu, baud), etu, baud)
<1> DEFINE n == etu * 1000 + baud - 1
<1>1. n \in Nat /\ n \div baud \in Nat /\ n % baud \in 0..(baud - 1)
  OBVIOUS
<1>2. n = baud * (n \div baud) + (n % baud)
  BY <1>1
<1>3. QED
  BY <1>1, <1>2 DEF CeilMs, Lasts

\* A longer wait lasts longer.
LEMMA LongerLasts ==
    ASSUME NEW etu \in Nat, NEW baud \in Nat, NEW a \in Nat, NEW b \in Nat, a <= b, Lasts(a, etu, baud)
    PROVE  Lasts(b, etu, baud)
<1>1. a * baud <= b * baud
  OBVIOUS
<1>2. QED
  BY <1>1 DEF Lasts

\* The powers of two of the four-bit waiting-time integers.
LEMMA Pow2Nat == ASSUME NEW wi \in 0..15 PROVE Pow2[wi + 1] \in Nat
  BY DEF Pow2

\* A clamped wait is between its bounds, and covers what it covered below
\* the upper one.
LEMMA ClampCovers ==
    ASSUME NEW ms \in Nat, NEW lo \in Nat, NEW hi \in Nat, lo <= hi,
           NEW etu \in Nat, NEW baud \in Nat, Lasts(ms, etu, baud)
    PROVE  /\ Clamp(ms, lo, hi) \in lo..hi
           /\ ms <= hi => Lasts(Clamp(ms, lo, hi), etu, baud)
<1> DEFINE w == Clamp(ms, lo, hi)
<1>1. w \in Nat /\ w \in lo..hi /\ (ms <= hi => ms <= w)
  BY DEF Clamp
<1>2. ASSUME ms <= hi PROVE Lasts(w, etu, baud)
  <2> HIDE DEF w
  <2>1. QED
    BY <1>1, <1>2, LongerLasts
<1>3. QED
  BY <1>1, <1>2

\* t1_first_byte_timeout_ms and t1_inter_byte_timeout_ms, for every
\* waiting-time integer and every baud rate on the wire.
THEOREM ReaderIsPatient == \A wi \in 0..15, baud \in Nat \ {0} : PatienceCovers(wi, baud)
<1> SUFFICES ASSUME NEW wi \in 0..15, NEW baud \in Nat \ {0} PROVE PatienceCovers(wi, baud)
  OBVIOUS
<1> DEFINE b == CeilMs(BwtEtu(wi), baud)
           c == CeilMs(CwtEtu(wi), baud)
<1>1. BwtEtu(wi) \in Nat /\ CwtEtu(wi) \in Nat
  BY Pow2Nat DEF BwtEtu, CwtEtu
<1>2. b \in Nat /\ Lasts(b, BwtEtu(wi), baud) /\ c \in Nat /\ Lasts(c, CwtEtu(wi), baud)
  BY <1>1, CeilMsLasts
<1>3. T1BwtMs(wi, baud) = b /\ T1CwtMs(wi, baud) = c
  BY DEF T1BwtMs, T1CwtMs
<1> HIDE DEF b, c
<1>4. /\ FirstByteFloor \in Nat /\ InterByteFloor \in Nat /\ FirstByteMax \in Nat
      /\ FirstByteFloor <= FirstByteMax /\ InterByteFloor <= FirstByteMax
  BY DEF FirstByteFloor, InterByteFloor, FirstByteMax
<1>5. /\ Clamp(b, FirstByteFloor, FirstByteMax) \in FirstByteFloor..FirstByteMax
      /\ b <= FirstByteMax => Lasts(Clamp(b, FirstByteFloor, FirstByteMax), BwtEtu(wi), baud)
  BY <1>1, <1>2, <1>4, ClampCovers
<1>6. /\ Clamp(c, InterByteFloor, FirstByteMax) \in InterByteFloor..FirstByteMax
      /\ c <= FirstByteMax => Lasts(Clamp(c, InterByteFloor, FirstByteMax), CwtEtu(wi), baud)
  BY <1>1, <1>2, <1>4, ClampCovers
<1>7. QED
  BY <1>3, <1>5, <1>6 DEF PatienceCovers, T1FirstByteTimeoutMs, T1InterByteTimeoutMs

\* The documented reach of the flat T=0 wait, for every WI a TC2 can hold.
THEOREM FlatWaitReach == \A wi \in 1..255 : FlatWaitCovers(wi)
  BY DEF FlatWaitCovers, Lasts, WwtEtu, FirstByteMax

-----------------------------------------------------------------------------
(* The cycle counter *)

\* One wrap of a counter.
LEMMA WrapsOnce ==
    ASSUME NEW M \in Nat \ {0}, NEW x \in Nat, x < 2 * M
    PROVE  x % M = IF x < M THEN x ELSE x - M
<1>1. CASE x < M
  <2>1. x % M \in 0..(M - 1) /\ x \div M \in Nat /\ x = M * (x \div M) + (x % M)
    OBVIOUS
  <2>2. x \div M = 0
    BY <1>1, <2>1
  <2>3. QED
    BY <1>1, <2>1, <2>2
<1>2. CASE x >= M
  <2>1. x % M \in 0..(M - 1) /\ x \div M \in Nat /\ x = M * (x \div M) + (x % M)
    OBVIOUS
  <2>2. x \div M = 1
    BY <1>2, <2>1
  <2>3. QED
    BY <1>2, <2>1, <2>2
<1>3. QED
  BY <1>1, <1>2

\* Products distribute over sums.
LEMMA Distributes == \A a, b, c \in Nat : (a + b) * c = a * c + b * c /\ a * c \in Nat
  OBVIOUS

\* What the counters hold: the poll's last value and the watchdog's start are
\* the cycles since then behind CYCCNT, less than a wrap of it, and the parts
\* of DwtUptime add up.
DwtInv ==
    /\ cyc \in Nat /\ cyc < CycleMod
    /\ up \in [last : Nat, accum : Nat, ticks : Nat]
    /\ up.last < CycleMod /\ up.accum < CyclesPerMs
    /\ wd \in Nat /\ wd < CycleMod
    /\ gap \in Nat /\ gap <= MaxGap
    /\ real \in [total : Nat, since : Nat]
    /\ cyc = up.last + gap \/ cyc = up.last + gap - CycleMod
    /\ cyc = wd + real.since \/ cyc = wd + real.since - CycleMod
    /\ real.since <= gap \/ real.since < WatchdogTimeout + gap
    /\ up.ticks * CyclesPerMs + up.accum + gap = real.total

\* The difference of two counter values is the time between them.
LEMMA DifferenceIsTime ==
    ASSUME NEW a \in Nat, NEW b \in Nat, NEW d \in Nat, a < CycleMod, b < CycleMod, d < CycleMod,
           a = b + d \/ a = b + d - CycleMod
    PROVE  WrappingSub(a, b) = d
<1>1. CycleMod \in Nat \ {0}
  BY DwtAssumption
<1>2. (a + CycleMod) - b \in Nat /\ (a + CycleMod) - b < 2 * CycleMod
  BY <1>1
<1>3. ((a + CycleMod) - b) % CycleMod
        = IF (a + CycleMod) - b < CycleMod THEN (a + CycleMod) - b ELSE ((a + CycleMod) - b) - CycleMod
  BY <1>1, <1>2, WrapsOnce
<1>4. QED
  BY <1>1, <1>3 DEF WrappingSub

\* DwtUptime and DwtWatchdog tell the time whenever the counters hold what
\* they should.
LEMMA ClocksFromInv == DwtInv => ClocksAreTrue /\ WrappingSub(cyc, up.last) = gap
<1> SUFFICES ASSUME DwtInv PROVE ClocksAreTrue /\ WrappingSub(cyc, up.last) = gap
  OBVIOUS
<1>1. up.last \in Nat /\ real.since \in Nat
  BY DEF DwtInv
<1>2. real.since < CycleMod /\ gap < CycleMod
  BY <1>1, DwtAssumption DEF DwtInv
<1>3. WrappingSub(cyc, up.last) = gap /\ WrappingSub(cyc, wd) = real.since
  BY <1>1, <1>2, DifferenceIsTime DEF DwtInv
<1>4. QED
  BY <1>3 DEF ClocksAreTrue, Expired, DwtInv

\* A cycle of the counter.
LEMMA CycleKeeps == DwtInv /\ CyclePasses => DwtInv'
<1> SUFFICES ASSUME DwtInv, CyclePasses PROVE DwtInv'
  OBVIOUS
<1>1. CycleMod \in Nat \ {0} /\ cyc + 1 \in Nat /\ cyc + 1 < 2 * CycleMod
  BY DwtAssumption DEF DwtInv
<1>2. cyc' = IF cyc + 1 < CycleMod THEN cyc + 1 ELSE cyc + 1 - CycleMod
  <2>1. PICK x \in Nat : x = cyc + 1
    BY <1>1
  <2>2. x < 2 * CycleMod /\ cyc' = x % CycleMod
    BY <1>1, <2>1 DEF CyclePasses
  <2>3. x % CycleMod = IF x < CycleMod THEN x ELSE x - CycleMod
    BY <1>1, <2>2, WrapsOnce
  <2>4. QED
    BY <1>1, <2>1, <2>2, <2>3 DEF DwtInv
<1>3. /\ real' = [total |-> real.total + 1, since |-> real.since + 1] /\ real.total \in Nat /\ real.since \in Nat
      /\ gap' = gap + 1 /\ up' = up /\ wd' = wd /\ gap < MaxGap
  BY DEF CyclePasses, DwtInv
<1>4. real'.total = real.total + 1 /\ real'.since = real.since + 1 /\ real' \in [total : Nat, since : Nat]
  BY <1>3
<1>5. cyc' \in Nat /\ cyc' < CycleMod
  BY <1>1, <1>2 DEF DwtInv
<1>6. cyc' = up.last + gap' \/ cyc' = up.last + gap' - CycleMod
  BY <1>1, <1>2, <1>3, DwtAssumption DEF DwtInv
<1>7. cyc' = wd + real'.since \/ cyc' = wd + real'.since - CycleMod
  <2>1. real.since + 1 < CycleMod
    BY <1>3, DwtAssumption DEF DwtInv
  <2>2. QED
    BY <1>1, <1>2, <1>4, <2>1 DEF DwtInv
<1>8. up.ticks * CyclesPerMs \in Nat /\ up.ticks * CyclesPerMs + up.accum + gap' = real'.total
  BY <1>3, <1>4, DwtAssumption DEF DwtInv
<1>9. gap' \in Nat /\ gap' <= MaxGap /\ (real'.since <= gap' \/ real'.since < WatchdogTimeout + gap')
  BY <1>3, <1>4, DwtAssumption DEF DwtInv
<1>10. QED
  BY <1>3, <1>4, <1>5, <1>6, <1>7, <1>8, <1>9 DEF DwtInv

\* A pass of the loop: the poll moves the gap into the uptime.
LEMMA PollKeeps == DwtInv /\ LoopPolls => DwtInv'
<1> SUFFICES ASSUME DwtInv, LoopPolls PROVE DwtInv'
  OBVIOUS
<1> DEFINE c == CyclesPerMs
           sum == up.accum + gap
<1>1. WrappingSub(cyc, up.last) = gap /\ ClocksAreTrue
  BY ClocksFromInv
<1>2. sum \in Nat /\ sum < CycleMod /\ sum % CycleMod = sum /\ CycleMod \in Nat \ {0} /\ c \in Nat \ {0}
  <2>1. sum \in Nat /\ sum < CycleMod /\ CycleMod \in Nat \ {0} /\ c \in Nat \ {0}
    BY DwtAssumption DEF DwtInv
  <2> HIDE DEF sum
  <2>2. sum % CycleMod = IF sum < CycleMod THEN sum ELSE sum - CycleMod
    BY <2>1, WrapsOnce
  <2>3. QED
    BY <2>1, <2>2
<1>3. up' = [last |-> cyc, accum |-> sum % c, ticks |-> up.ticks + (sum \div c)]
  BY <1>1, <1>2 DEF LoopPolls, UptimePoll
<1>4. sum \div c \in Nat /\ sum % c \in 0..(c - 1) /\ sum = (sum \div c) * c + (sum % c)
  BY <1>2
<1>5. up.ticks \in Nat /\ real.total \in Nat /\ real.since \in Nat
  BY DEF DwtInv
<1>6. (up.ticks + (sum \div c)) * c = up.ticks * c + (sum \div c) * c /\ up.ticks * c \in Nat
  <2> DEFINE a == up.ticks
             b == sum \div c
  <2>1. a \in Nat /\ b \in Nat /\ c \in Nat
    BY <1>2, <1>4, <1>5
  <2> HIDE DEF a, b, c
  <2>2. (a + b) * c = a * c + b * c /\ a * c \in Nat
    BY <2>1, Distributes
  <2>3. QED
    BY <2>2 DEF a, b
<1>7. up.ticks * c + sum = real.total
  BY <1>6, DwtAssumption DEF DwtInv
<1>8. (up.ticks + (sum \div c)) * c + (sum % c) = real.total
  <2> DEFINE q == (sum \div c) * c
             t == up.ticks * c
             m == sum % c
             s == sum
  <2>1. q \in Nat /\ t \in Nat /\ m \in Nat /\ s \in Nat /\ s = q + m /\ t + s = real.total
        /\ (up.ticks + (sum \div c)) * c = t + q
    <3>1. q \in Nat
      BY <1>2, <1>4, Distributes
    <3>2. QED
      BY <1>2, <1>4, <1>6, <1>7, <3>1
  <2> HIDE DEF q, t, m, s
  <2>2. t + q + m = real.total
    BY <2>1
  <2>3. QED
    BY <2>1, <2>2 DEF m
<1>9. gap' = 0 /\ cyc' = cyc
  BY DEF LoopPolls
<1>10. /\ up' \in [last : Nat, accum : Nat, ticks : Nat] /\ up'.last = cyc /\ up'.accum < c
       /\ up'.ticks * c + up'.accum = real.total
  <2> HIDE DEF sum
  <2>1. up.ticks + (sum \div c) \in Nat /\ sum % c \in Nat
    BY <1>4, <1>5
  <2>2. QED
    BY <1>2, <1>3, <1>4, <1>8, <2>1 DEF DwtInv
<1>11. /\ real' \in [total : Nat, since : Nat] /\ real'.total = real.total
       /\ wd' \in Nat /\ wd' < CycleMod
       /\ cyc = wd' + real'.since \/ cyc = wd' + real'.since - CycleMod
       /\ real'.since <= 0 \/ real'.since < WatchdogTimeout
  <2>1. CASE ~Expired /\ UNCHANGED <<wd, real>>
    BY <1>1, <1>5, <2>1, DwtAssumption DEF ClocksAreTrue, DwtInv
  <2>2. CASE wd' = cyc /\ real' = [real EXCEPT !.since = 0]
    <3>1. real'.total = real.total /\ real'.since = 0 /\ real' \in [total : Nat, since : Nat]
      BY <2>2 DEF DwtInv
    <3>2. QED
      BY <2>2, <3>1, <1>2 DEF DwtInv
  <2>3. QED
    BY <2>1, <2>2 DEF LoopPolls
<1>12. up'.ticks * c \in Nat /\ up'.accum \in Nat
  BY <1>2, <1>10
<1>13. QED
  BY <1>2, <1>9, <1>10, <1>11, <1>12, DwtAssumption DEF DwtInv

-----------------------------------------------------------------------------
(* The PIN pad *)

Steps == Active \cup {"Idle", "InvalidLength", "Mismatch", "Completed", "Cancelled", "Timeout"}

Contexts ==
    [step : Steps, modify : BOOLEAN, old : Seq(Digits), new : Seq(Digits), confirm : Seq(Digits),
     start : 0..(TickMod - 1), params : [min : Nat, max : Nat, timeout : Nat]]

PinTyped ==
    /\ ctx \in Contexts
    /\ tick \in 0..(TickMod - 1) /\ age \in Nat /\ pass \in Nat

\* A PIN of a length the host asked for.
Asked(c, pin) == Len(pin) \in c.params.min..c.params.max

\* What has been submitted on the way to each step, and what the buffers that
\* come later hold.  No buffer grows past the maximum.
Confirming(c, sub) ==
    /\ Len(c.old) <= c.params.max /\ Len(c.new) <= c.params.max /\ Len(c.confirm) <= c.params.max
    /\ c.step = "Pin" => ~c.modify /\ c.new = <<>> /\ c.confirm = <<>> /\ sub = <<>>
    /\ c.step = "OldPin" => c.modify /\ c.new = <<>> /\ c.confirm = <<>> /\ sub = <<>>
    /\ c.step = "NewPin" => c.modify /\ c.confirm = <<>> /\ sub = <<c.old>> /\ Asked(c, c.old)
    /\ c.step = "ConfirmPin" =>
          c.modify /\ sub = <<c.old, c.new>> /\ Asked(c, c.old) /\ Asked(c, c.new)
    /\ c.step = "Completed" =>
          /\ c.confirm = <<>> /\ Asked(c, c.old)
          /\ c.modify => Asked(c, c.new) /\ sub = <<c.old, c.new, c.new>>
          /\ ~c.modify => c.new = <<>> /\ sub = <<c.old>>

\* The tick counter against the time that has passed: while an entry with a
\* time-out runs, the counter is age behind its start, less than a wrap, and
\* the last pass of the loop was before the time-out.
Timed ==
    LET due == ctx.params.timeout * TicksPerSecond
    IN /\ pass <= MaxPass
       /\ ctx.step \notin Active => pass = 0
       /\ ctx.step = "Timeout" => age >= due
       /\ ctx.step \in Active /\ ctx.params.timeout # 0 =>
             /\ ctx.params.timeout \in Timeouts
             /\ age < due + pass
             /\ tick = ctx.start + age \/ tick = ctx.start + age - TickMod

PinInv == PinTyped /\ Confirming(ctx, submitted) /\ Timed

\* Shorter and longer buffers.
LEMMA BufferFacts ==
    ASSUME NEW s \in Seq(Digits), NEW d \in Digits
    PROVE  /\ Len(s) \in Nat
           /\ Append(s, d) \in Seq(Digits) /\ Len(Append(s, d)) = Len(s) + 1
           /\ s # <<>> => Front(s) \in Seq(Digits) /\ Len(Front(s)) = Len(s) - 1
           /\ <<>> \in Seq(Digits) /\ Len(<<>>) = 0
<1>1. Len(s) \in Nat /\ Append(s, d) \in Seq(Digits) /\ Len(Append(s, d)) = Len(s) + 1
  OBVIOUS
<1>2. ASSUME s # <<>> PROVE Front(s) \in Seq(Digits) /\ Len(Front(s)) = Len(s) - 1
  <2>1. Len(s) # 0
    BY <1>2, EmptySeq
  <2>2. Len(s) - 1 \in Nat /\ Len(s) - 1 <= Len(s)
    BY <1>1, <2>1
  <2>3. \A i \in 1..(Len(s) - 1) : s[i] \in Digits
    BY <1>1, ElementOfSeq
  <2>4. PICK n \in Nat : n = Len(s) - 1
    BY <2>2
  <2>5. SubSeq(s, 1, n) \in Seq(Digits) /\ Len(SubSeq(s, 1, n)) = n
    BY <1>1, <2>2, <2>3, <2>4, SubSeqProperties
  <2>6. QED
    BY <2>4, <2>5 DEF Front
<1>3. QED
  BY <1>1, <1>2, EmptySeq

\* The context with one of its buffers changed.
LEMMA Refilled ==
    ASSUME NEW c \in Contexts, NEW s \in Seq(Digits)
    PROVE  /\ LET d == [c EXCEPT !["old"] = s]
              IN d \in Contexts /\ d.old = s /\ d.new = c.new /\ d.confirm = c.confirm
                 /\ d.step = c.step /\ d.modify = c.modify /\ d.start = c.start /\ d.params = c.params
           /\ LET d == [c EXCEPT !["new"] = s]
              IN d \in Contexts /\ d.old = c.old /\ d.new = s /\ d.confirm = c.confirm
                 /\ d.step = c.step /\ d.modify = c.modify /\ d.start = c.start /\ d.params = c.params
           /\ LET d == [c EXCEPT !["confirm"] = s]
              IN d \in Contexts /\ d.old = c.old /\ d.new = c.new /\ d.confirm = s
                 /\ d.step = c.step /\ d.modify = c.modify /\ d.start = c.start /\ d.params = c.params
  BY DEF Contexts

\* The context at another step.
LEMMA Stepped ==
    ASSUME NEW c \in Contexts, NEW step \in Steps
    PROVE  LET d == [c EXCEPT !.step = step]
           IN d \in Contexts /\ d.old = c.old /\ d.new = c.new /\ d.confirm = c.confirm
              /\ d.step = step /\ d.modify = c.modify /\ d.start = c.start /\ d.params = c.params
  BY DEF Contexts

\* The buffer of a step.
LEMMA FieldOf ==
    ASSUME NEW c \in Contexts, c.step \in Active
    PROVE  /\ c.step \in {"Pin", "OldPin"} => Field(c.step) = "old" /\ c[Field(c.step)] = c.old
           /\ c.step = "NewPin" => Field(c.step) = "new" /\ c[Field(c.step)] = c.new
           /\ c.step = "ConfirmPin" => Field(c.step) = "confirm" /\ c[Field(c.step)] = c.confirm
           /\ c[Field(c.step)] \in Seq(Digits)
  BY DEF Contexts, Field, Active

\* Types of a context's parts.
LEMMA ContextTypes ==
    ASSUME NEW c \in Contexts
    PROVE  /\ c.old \in Seq(Digits) /\ c.new \in Seq(Digits) /\ c.confirm \in Seq(Digits)
           /\ Len(c.old) \in Nat /\ Len(c.new) \in Nat /\ Len(c.confirm) \in Nat
           /\ c.params.min \in Nat /\ c.params.max \in Nat /\ c.params.timeout \in Nat
           /\ c.start \in 0..(TickMod - 1) /\ c.step \in Steps /\ c.modify \in BOOLEAN
  BY DEF Contexts

\* A context that fits what was submitted, of the same entry.
Follows(d, c, sub) ==
    /\ d \in Contexts /\ d.start = c.start /\ d.params = c.params /\ d.step \notin {"Timeout", "Idle"}
    /\ Confirming(d, sub)

\* add_digit and backspace change the buffer of the step, within its limit.
LEMMA EditKeeps ==
    ASSUME NEW c \in Contexts, NEW sub, Confirming(c, sub), c.step \in Active,
           NEW s \in Seq(Digits), Len(s) <= c.params.max
    PROVE  Follows([c EXCEPT ![Field(c.step)] = s], c, sub)
<1>1. CASE c.step \in {"Pin", "OldPin"}
  <2>1. PICK d : d = [c EXCEPT !["old"] = s]
    OBVIOUS
  <2>2. d \in Contexts /\ d.old = s /\ d.new = c.new /\ d.confirm = c.confirm
        /\ d.step = c.step /\ d.modify = c.modify /\ d.start = c.start /\ d.params = c.params
    BY <2>1, Refilled
  <2>3. Confirming(d, sub)
    BY <1>1, <2>2 DEF Confirming
  <2>4. [c EXCEPT ![Field(c.step)] = s] = d
    BY <1>1, <2>1, FieldOf
  <2>5. Follows(d, c, sub)
    BY <1>1, <2>2, <2>3 DEF Follows
  <2>6. QED
    BY <2>4, <2>5
<1>2. CASE c.step = "NewPin"
  <2>1. PICK d : d = [c EXCEPT !["new"] = s]
    OBVIOUS
  <2>2. d \in Contexts /\ d.old = c.old /\ d.new = s /\ d.confirm = c.confirm
        /\ d.step = c.step /\ d.modify = c.modify /\ d.start = c.start /\ d.params = c.params
    BY <2>1, Refilled
  <2>3. Confirming(d, sub)
    BY <1>2, <2>2 DEF Confirming, Asked
  <2>4. [c EXCEPT ![Field(c.step)] = s] = d
    BY <1>2, <2>1, FieldOf
  <2>5. Follows(d, c, sub)
    BY <1>2, <2>2, <2>3 DEF Follows
  <2>6. QED
    BY <2>4, <2>5
<1>3. CASE c.step = "ConfirmPin"
  <2>1. PICK d : d = [c EXCEPT !["confirm"] = s]
    OBVIOUS
  <2>2. d \in Contexts /\ d.old = c.old /\ d.new = c.new /\ d.confirm = s
        /\ d.step = c.step /\ d.modify = c.modify /\ d.start = c.start /\ d.params = c.params
    BY <2>1, Refilled
  <2>3. Confirming(d, sub)
    BY <1>3, <2>2 DEF Confirming, Asked
  <2>4. [c EXCEPT ![Field(c.step)] = s] = d
    BY <1>3, <2>1, FieldOf
  <2>5. Follows(d, c, sub)
    BY <1>3, <2>2, <2>3 DEF Follows
  <2>6. QED
    BY <2>4, <2>5
<1>4. QED
  BY <1>1, <1>2, <1>3 DEF Active

\* The context unchanged.
LEMMA StillFollows ==
    ASSUME NEW c \in Contexts, NEW sub, Confirming(c, sub), c.step \in Active
    PROVE  Follows(c, c, sub)
  BY DEF Follows, Active

\* Cancel and the time-out clear the buffers.
LEMMA ClearedContext ==
    ASSUME NEW c \in Contexts, NEW step \in {"Cancelled", "Timeout"}, NEW sub
    PROVE  /\ Cleared(c, step) \in Contexts /\ Cleared(c, step).step = step
           /\ Cleared(c, step).start = c.start /\ Cleared(c, step).params = c.params
           /\ Confirming(Cleared(c, step), sub)
<1>1. <<>> \in Seq(Digits) /\ Len(<<>>) = 0
  BY EmptySeq
<1>2. PICK d : d = Cleared(c, step)
  OBVIOUS
<1>3. /\ d \in Contexts /\ d.step = step /\ d.start = c.start /\ d.params = c.params
      /\ d.old = <<>> /\ d.new = <<>> /\ d.confirm = <<>>
  BY <1>1, <1>2 DEF Contexts, Cleared, Steps
<1>4. Confirming(d, sub)
  BY <1>1, <1>3, ContextTypes DEF Confirming
<1>5. QED
  BY <1>2, <1>3, <1>4

\* Appending to a list of one or two.
LEMMA LongerTuple ==
    ASSUME NEW S, NEW a \in S, NEW b \in S, NEW x \in S
    PROVE  Append(<<a>>, x) = <<a, x>> /\ Append(<<a, b>>, x) = <<a, b, x>>
<1>1. Append(<<a>>, x) = <<a, x>>
  <2>1. <<a>> \in Seq(S) /\ <<a, x>> \in Seq(S) /\ Len(<<a>>) = 1 /\ Len(<<a, x>>) = 2
    OBVIOUS
  <2>2. Append(<<a>>, x) \in Seq(S) /\ Len(Append(<<a>>, x)) = 2
    BY <2>1, AppendProperties
  <2>3. \A i \in 1..2 : Append(<<a>>, x)[i] = <<a, x>>[i]
    BY <2>1, AppendProperties
  <2>4. QED
    BY <2>1, <2>2, <2>3, SeqEqual
<1>2. Append(<<a, b>>, x) = <<a, b, x>>
  <2>1. <<a, b>> \in Seq(S) /\ <<a, b, x>> \in Seq(S) /\ Len(<<a, b>>) = 2 /\ Len(<<a, b, x>>) = 3
    OBVIOUS
  <2>2. Append(<<a, b>>, x) \in Seq(S) /\ Len(Append(<<a, b>>, x)) = 3
    BY <2>1, AppendProperties
  <2>3. \A i \in 1..3 : Append(<<a, b>>, x)[i] = <<a, b, x>>[i]
    BY <2>1, AppendProperties
  <2>4. QED
    BY <2>1, <2>2, <2>3, SeqEqual
<1>3. QED
  BY <1>1, <1>2

\* submit at each step, with what it submits.
LEMMA SubmitKeeps ==
    ASSUME NEW c \in Contexts, NEW sub, Confirming(c, sub), c.step \in Active
    PROVE  Follows(Submit(c), c, Append(sub, c[Field(c.step)]))
<1> DEFINE after == Append(sub, c[Field(c.step)])
<1>0. Len(c[Field(c.step)]) \in Nat
  BY FieldOf
<1>1. ASSUME NEW step \in Steps \ {"Timeout", "Idle"}, Submit(c) = [c EXCEPT !.step = step],
             Confirming([c EXCEPT !.step = step], after)
      PROVE  Follows(Submit(c), c, after)
  BY <1>1, Stepped DEF Follows
<1>2. CASE Len(c[Field(c.step)]) < c.params.min
  <2>1. Submit(c) = [c EXCEPT !.step = "InvalidLength"]
    <3>1. /\ c.step = "OldPin" => ~(Len(c.old) >= c.params.min)
          /\ c.step = "NewPin" => ~(Len(c.new) >= c.params.min)
          /\ c.step = "ConfirmPin" => ~(Len(c.confirm) >= c.params.min)
      BY <1>2, FieldOf, ContextTypes
    <3>2. QED
      BY <1>2, <3>1 DEF Submit
  <2>2. PICK d : d = [c EXCEPT !.step = "InvalidLength"]
    OBVIOUS
  <2>3. "InvalidLength" \in Steps \ {"Timeout", "Idle"}
    BY DEF Steps
  <2>4. /\ d.old = c.old /\ d.new = c.new /\ d.confirm = c.confirm
        /\ d.step = "InvalidLength" /\ d.params = c.params
    BY <2>2, <2>3, Stepped
  <2>5. Confirming(d, after)
    BY <2>4 DEF Confirming
  <2>6. QED
    BY <1>1, <2>1, <2>2, <2>3, <2>5
<1>3. CASE Len(c[Field(c.step)]) >= c.params.min /\ c.step = "OldPin"
  <2>1. c[Field(c.step)] = c.old /\ Len(c.old) >= c.params.min /\ Asked(c, c.old)
    BY <1>3, FieldOf, ContextTypes DEF Asked, Confirming
  <2>2. Submit(c) = [c EXCEPT !.step = "NewPin"]
    BY <1>3, <2>1, ContextTypes DEF Submit
  <2>3. PICK d : d = [c EXCEPT !.step = "NewPin"]
    OBVIOUS
  <2>4. "NewPin" \in Steps \ {"Timeout", "Idle"}
    BY DEF Steps, Active
  <2>5. /\ d.old = c.old /\ d.new = c.new /\ d.confirm = c.confirm
        /\ d.step = "NewPin" /\ d.params = c.params /\ d.modify = c.modify
    BY <2>3, <2>4, Stepped
  <2>6. sub = <<>> /\ c.modify /\ c.confirm = <<>>
    BY <1>3 DEF Confirming
  <2>7. after = <<c.old>>
    BY <2>1, <2>6
  <2>8. Confirming(d, after)
    BY <2>1, <2>5, <2>6, <2>7 DEF Confirming, Asked
  <2>9. QED
    BY <1>1, <2>2, <2>3, <2>4, <2>8
<1>4. CASE Len(c[Field(c.step)]) >= c.params.min /\ c.step = "NewPin"
  <2>1. c[Field(c.step)] = c.new /\ Len(c.new) >= c.params.min /\ Asked(c, c.new)
    BY <1>4, FieldOf, ContextTypes DEF Asked, Confirming
  <2>2. Submit(c) = [c EXCEPT !.step = "ConfirmPin"]
    BY <1>4, <2>1, ContextTypes DEF Submit
  <2>3. PICK d : d = [c EXCEPT !.step = "ConfirmPin"]
    OBVIOUS
  <2>4. "ConfirmPin" \in Steps \ {"Timeout", "Idle"}
    BY DEF Steps, Active
  <2>5. /\ d.old = c.old /\ d.new = c.new /\ d.confirm = c.confirm
        /\ d.step = "ConfirmPin" /\ d.params = c.params /\ d.modify = c.modify
    BY <2>3, <2>4, Stepped
  <2>6. sub = <<c.old>> /\ c.modify /\ Asked(c, c.old)
    BY <1>4 DEF Confirming
  <2>7. after = <<c.old, c.new>>
    BY <2>1, <2>6, ContextTypes, LongerTuple, ZenonT(40)
  <2>8. Confirming(d, after)
    BY <2>1, <2>5, <2>6, <2>7 DEF Confirming, Asked
  <2>9. QED
    BY <1>1, <2>2, <2>3, <2>4, <2>8
<1>5. CASE Len(c[Field(c.step)]) >= c.params.min /\ c.step = "ConfirmPin" /\ c.new # c.confirm
  <2>1. c[Field(c.step)] = c.confirm /\ Len(c.confirm) >= c.params.min
    BY <1>5, FieldOf
  <2>2. Submit(c) = [c EXCEPT !.step = "Mismatch"]
    BY <1>5, <2>1, ContextTypes DEF Submit
  <2>3. PICK d : d = [c EXCEPT !.step = "Mismatch"]
    OBVIOUS
  <2>4. "Mismatch" \in Steps \ {"Timeout", "Idle"}
    BY DEF Steps
  <2>5. /\ d.old = c.old /\ d.new = c.new /\ d.confirm = c.confirm
        /\ d.step = "Mismatch" /\ d.params = c.params
    BY <2>3, <2>4, Stepped
  <2>6. Confirming(d, after)
    BY <2>5 DEF Confirming
  <2>7. QED
    BY <1>1, <2>2, <2>3, <2>4, <2>6
<1>6. CASE /\ Len(c[Field(c.step)]) >= c.params.min
           /\ c.step = "Pin" \/ (c.step = "ConfirmPin" /\ c.new = c.confirm)
  <2>1. Submit(c) = [c EXCEPT !.step = "Completed", !.confirm = <<>>]
    BY <1>0, <1>6, ContextTypes DEF Submit
  <2>2. PICK d : d = [c EXCEPT !.step = "Completed", !.confirm = <<>>]
    OBVIOUS
  <2>3. /\ d \in Contexts /\ d.old = c.old /\ d.new = c.new /\ d.confirm = <<>>
        /\ d.step = "Completed" /\ d.params = c.params /\ d.modify = c.modify /\ d.start = c.start
    BY <2>2, EmptySeq DEF Contexts, Steps
  <2>4. Len(<<>>) = 0 /\ c.params.max \in Nat
    BY ContextTypes, EmptySeq
  <2>5. Confirming(d, after)
    <3>1. CASE c.step = "Pin"
      <4>1. c[Field(c.step)] = c.old /\ Asked(c, c.old)
        BY <1>6, <3>1, FieldOf, ContextTypes DEF Asked, Confirming
      <4>2. sub = <<>> /\ ~c.modify /\ c.new = <<>>
        BY <3>1 DEF Confirming
      <4>3. after = <<c.old>>
        BY <4>1, <4>2
      <4>4. QED
        BY <2>3, <2>4, <4>1, <4>2, <4>3 DEF Confirming, Asked
    <3>2. CASE c.step = "ConfirmPin" /\ c.new = c.confirm
      <4>1. c[Field(c.step)] = c.new
        BY <3>2, FieldOf
      <4>2. sub = <<c.old, c.new>> /\ c.modify /\ Asked(c, c.old) /\ Asked(c, c.new)
        BY <3>2 DEF Confirming
      <4>3. after = <<c.old, c.new, c.new>>
        <5>1. c.old \in Seq(Digits) /\ c.new \in Seq(Digits)
          BY ContextTypes
        <5>2. Append(<<c.old, c.new>>, c.new) = <<c.old, c.new, c.new>>
          BY <5>1, LongerTuple
        <5>3. after = Append(<<c.old, c.new>>, c.new)
          BY <4>1, <4>2
        <5>4. QED
          BY <5>2, <5>3
      <4>4. QED
        BY <2>3, <2>4, <4>2, <4>3 DEF Confirming, Asked
    <3>3. QED
      BY <1>6, <3>1, <3>2
  <2>6. QED
    BY <2>1, <2>2, <2>3, <2>5 DEF Follows
<1>7. QED
  BY <1>0, <1>2, <1>3, <1>4, <1>5, <1>6, ContextTypes DEF Active

\* Every button.
LEMMA PressKeeps ==
    ASSUME NEW c \in Contexts, NEW sub, Confirming(c, sub), c.step \in Active, NEW button
    PROVE  Follows(Press(c, button), c,
                   IF button = "Ok" THEN Append(sub, c[Field(c.step)]) ELSE sub)
<1>0. c[Field(c.step)] \in Seq(Digits) /\ Len(c[Field(c.step)]) <= c.params.max
      /\ Len(c[Field(c.step)]) \in Nat /\ c.params.max \in Nat
  BY FieldOf, ContextTypes DEF Confirming, Active
<1>1. CASE button \in Digits
  <2>1. button # "Ok" /\ Press(c, button) = AddDigit(c, button)
    BY <1>1, PinPadAssumption DEF Press
  <2>2. CASE Len(c[Field(c.step)]) >= c.params.max
    BY <2>1, <2>2, StillFollows DEF AddDigit
  <2>3. CASE Len(c[Field(c.step)]) < c.params.max
    <3>1. PICK s : s = Append(c[Field(c.step)], button)
      OBVIOUS
    <3>2. s \in Seq(Digits) /\ Len(s) <= c.params.max
      BY <1>0, <1>1, <2>3, <3>1, BufferFacts
    <3>3. AddDigit(c, button) = [c EXCEPT ![Field(c.step)] = s]
      BY <1>0, <2>3, <3>1 DEF AddDigit
    <3>4. QED
      BY <2>1, <3>2, <3>3, EditKeeps
  <2>4. QED
    BY <1>0, <2>2, <2>3
<1>2. CASE button = "Backspace"
  <2>1. Press(c, button) = Backspace(c)
    BY <1>2, PinPadAssumption DEF Press
  <2>2. CASE c[Field(c.step)] = <<>>
    BY <1>2, <2>1, <2>2, StillFollows DEF Backspace
  <2>3. CASE c[Field(c.step)] # <<>>
    <3>1. PICK s : s = Front(c[Field(c.step)])
      OBVIOUS
    <3>2. s \in Seq(Digits) /\ Len(s) <= c.params.max
      <4>1. PICK b \in Seq(Digits) : b = c[Field(c.step)]
        BY <1>0
      <4>2. b # <<>> /\ Len(b) \in Nat
        BY <2>3, <4>1
      <4>3. Front(b) \in Seq(Digits) /\ Len(Front(b)) = Len(b) - 1
        <5>1. b[1] \in Digits
          BY <4>2, EmptySeq, ElementOfSeq
        <5>2. QED
          BY <4>2, <5>1, BufferFacts
      <4>4. QED
        BY <1>0, <3>1, <4>1, <4>2, <4>3
    <3>3. Backspace(c) = [c EXCEPT ![Field(c.step)] = s]
      BY <2>3, <3>1 DEF Backspace
    <3>4. QED
      BY <1>2, <2>1, <3>2, <3>3, EditKeeps
  <2>4. QED
    BY <2>2, <2>3
<1>3. CASE button = "Ok"
  <2>1. Press(c, button) = Submit(c)
    BY <1>3, PinPadAssumption DEF Press
  <2>2. QED
    BY <1>3, <2>1, SubmitKeeps
<1>4. CASE button = "Cancel"
  <2>1. Press(c, button) = Cleared(c, "Cancelled")
    BY <1>4, PinPadAssumption DEF Press
  <2>2. QED
    BY <1>4, <2>1, ClearedContext DEF Follows
<1>5. CASE button \notin Digits \cup {"Backspace", "Ok", "Cancel"}
  <2>1. Press(c, button) = c
    BY <1>5 DEF Press
  <2>2. QED
    BY <1>5, <2>1, StillFollows
<1>6. QED
  BY <1>1, <1>2, <1>3, <1>4, <1>5

\* A quotient reaches a count exactly when the dividend reaches its multiple.
LEMMA QuotientReaches ==
    ASSUME NEW e \in Nat, NEW t \in Nat, NEW s \in Nat \ {0}
    PROVE  (e \div s >= t) <=> (e >= t * s)
<1>1. PICK q \in Nat, r \in 0..(s - 1) : q = e \div s /\ r = e % s /\ e = s * q + r
  OBVIOUS
<1>2. CASE q >= t
  <2>1. s * q >= s * t /\ s * t = t * s
    BY <1>1, <1>2
  <2>2. QED
    BY <1>1, <1>2, <2>1
<1>3. CASE q < t
  <2>1. s * (q + 1) <= s * t /\ s * (q + 1) = s * q + s /\ s * t = t * s
    BY <1>1, <1>3
  <2>2. e < t * s
    BY <1>1, <2>1
  <2>3. QED
    BY <1>1, <1>3, <2>2
<1>4. QED
  BY <1>1, <1>2, <1>3

\* The tick counter tells the time of an entry that can time out.
LEMMA ElapsedIsAge ==
    ASSUME PinInv, ctx.step \in Active, ctx.params.timeout # 0
    PROVE  Elapsed(ctx) = age /\ age < TickMod
<1>1. /\ ctx.start \in Nat /\ ctx.start < TickMod /\ tick \in Nat /\ tick < TickMod /\ age \in Nat
      /\ pass \in Nat /\ TickMod \in Nat \ {0} /\ MaxPass \in Nat /\ pass <= MaxPass
  BY ContextTypes, PinPadAssumption DEF PinInv, PinTyped, Timed
<1>2. PICK due \in Nat : due = ctx.params.timeout * TicksPerSecond
  BY ContextTypes, PinPadAssumption DEF PinInv, PinTyped
<1>3. due + MaxPass < TickMod /\ age < due + pass
  BY <1>2, PinPadAssumption DEF PinInv, Timed
<1>4. age < TickMod
  BY <1>1, <1>2, <1>3
<1>5. tick = ctx.start + age \/ tick = ctx.start + age - TickMod
  BY DEF PinInv, Timed
<1>6. PICK x \in Nat : x = (tick + TickMod) - ctx.start
  BY <1>1
<1>7. x < 2 * TickMod
  BY <1>1, <1>6
<1>8. x % TickMod = IF x < TickMod THEN x ELSE x - TickMod
  BY <1>1, <1>7, WrapsOnce
<1>9. x % TickMod = age
  BY <1>1, <1>4, <1>5, <1>6, <1>8
<1>10. QED
  BY <1>4, <1>6, <1>9 DEF Elapsed

\* check_timeout ends an entry whose time has passed, and no other.
LEMMA TimeoutChecks ==
    ASSUME PinInv, ctx.step \in Active, NEW d, NEW sub, Follows(d, ctx, sub)
    PROVE  /\ CheckTimeout(d) \in Contexts /\ Confirming(CheckTimeout(d), sub)
           /\ CheckTimeout(d).params = ctx.params /\ CheckTimeout(d).start = ctx.start
           /\ CheckTimeout(d).step = "Timeout" => age >= ctx.params.timeout * TicksPerSecond
           /\ CheckTimeout(d).step \in Active /\ ctx.params.timeout # 0
                => age < ctx.params.timeout * TicksPerSecond
<1>1. /\ d \in Contexts /\ d.start = ctx.start /\ d.params = ctx.params /\ d.step \notin {"Timeout", "Idle"}
      /\ Confirming(d, sub) /\ Elapsed(d) = Elapsed(ctx)
  BY DEF Follows, Elapsed
<1>2. CASE d.step \notin Active \/ ctx.params.timeout = 0
  <2>1. CheckTimeout(d) = d
    BY <1>1, <1>2 DEF CheckTimeout
  <2>2. QED
    BY <1>1, <1>2, <2>1
<1>3. CASE d.step \in Active /\ ctx.params.timeout # 0
  <2>1. Elapsed(d) = age /\ age \in Nat /\ ctx.params.timeout \in Nat /\ TicksPerSecond \in Nat \ {0}
    BY <1>1, <1>3, ElapsedIsAge, ContextTypes, PinPadAssumption DEF PinInv, PinTyped
  <2>2. (age \div TicksPerSecond >= ctx.params.timeout) <=> (age >= ctx.params.timeout * TicksPerSecond)
    BY <2>1, QuotientReaches
  <2>3. PICK due \in Nat : due = ctx.params.timeout * TicksPerSecond
    BY <2>1
  <2>4. CASE age >= due
    <3>1. CheckTimeout(d) = Cleared(d, "Timeout")
      BY <1>1, <1>3, <2>1, <2>2, <2>3, <2>4 DEF CheckTimeout
    <3>2. /\ Cleared(d, "Timeout") \in Contexts /\ Cleared(d, "Timeout").step = "Timeout"
          /\ Cleared(d, "Timeout").start = d.start /\ Cleared(d, "Timeout").params = d.params
          /\ Confirming(Cleared(d, "Timeout"), sub)
      BY <1>1, ClearedContext
    <3>3. "Timeout" \notin Active
      BY DEF Active
    <3>4. QED
      BY <1>1, <2>3, <2>4, <3>1, <3>2, <3>3
  <2>5. CASE age < due
    <3>1. CheckTimeout(d) = d
      BY <1>1, <1>3, <2>1, <2>2, <2>3, <2>5 DEF CheckTimeout
    <3>2. QED
      BY <1>1, <2>3, <2>5, <3>1
  <2>6. QED
    BY <2>1, <2>3, <2>4, <2>5
<1>4. QED
  BY <1>2, <1>3

\* A pass of the loop: the touch, the button and the time-out.
LEMMA PassKeeps == PinInv /\ PinPass => PinInv'
<1> SUFFICES ASSUME PinInv, NEW touch \in Buttons \cup {"none"}, Pass(touch) PROVE PinInv'
  BY DEF PinPass
<1>1. PICK pressed : pressed = IF touch = "none" THEN touched ELSE "none"
  OBVIOUS
<1>2. /\ ctx.step \in Active /\ ctx \in Contexts /\ Confirming(ctx, submitted)
      /\ ctx' = CheckTimeout(IF pressed = "none" THEN ctx ELSE Press(ctx, pressed))
      /\ submitted' = IF pressed = "Ok" THEN Append(submitted, ctx[Field(ctx.step)]) ELSE submitted
      /\ pass' = 0 /\ tick' = tick /\ age' = age
  BY <1>1 DEF Pass, PinInv, PinTyped
<1>3. PICK d : d = IF pressed = "none" THEN ctx ELSE Press(ctx, pressed)
  OBVIOUS
<1>4. Follows(d, ctx, submitted')
  <2>1. CASE pressed = "none"
    BY <1>2, <1>3, <2>1, StillFollows
  <2>2. CASE pressed # "none"
    <3>1. Follows(Press(ctx, pressed), ctx,
                  IF pressed = "Ok" THEN Append(submitted, ctx[Field(ctx.step)]) ELSE submitted)
      BY <1>2, PressKeeps
    <3>2. QED
      BY <1>2, <1>3, <2>2, <3>1
  <2>3. QED
    BY <2>1, <2>2
<1>5. ctx' = CheckTimeout(d)
  BY <1>2, <1>3
<1>6. /\ ctx' \in Contexts /\ Confirming(ctx', submitted')
      /\ ctx'.params = ctx.params /\ ctx'.start = ctx.start
      /\ ctx'.step = "Timeout" => age >= ctx.params.timeout * TicksPerSecond
      /\ ctx'.step \in Active /\ ctx.params.timeout # 0 => age < ctx.params.timeout * TicksPerSecond
  BY <1>2, <1>4, <1>5, TimeoutChecks
<1>7. PinTyped'
  BY <1>2, <1>6 DEF PinInv, PinTyped
<1>8. Timed'
  <2>1. PICK due \in Nat : due = ctx.params.timeout * TicksPerSecond
    BY <1>2, ContextTypes, PinPadAssumption
  <2>2. due = ctx'.params.timeout * TicksPerSecond
    BY <1>6, <2>1
  <2>3. MaxPass \in Nat /\ age \in Nat
    BY PinPadAssumption DEF PinInv, PinTyped
  <2>4. 0 <= MaxPass
    BY <2>3
  <2>5. ctx'.step \in Active /\ ctx'.params.timeout # 0 =>
             /\ ctx'.params.timeout \in Timeouts
             /\ age' < due + pass'
             /\ tick' = ctx'.start + age' \/ tick' = ctx'.start + age' - TickMod
    BY <1>2, <1>6, <2>1, <2>3 DEF PinInv, Timed
  <2>6. QED
    BY <1>2, <1>6, <2>1, <2>2, <2>4, <2>5 DEF Timed
<1>9. QED
  BY <1>6, <1>7, <1>8 DEF PinInv

\* SysTick.
LEMMA TickKeeps == PinInv /\ Tick => PinInv'
<1> SUFFICES ASSUME PinInv, Tick PROVE PinInv'
  OBVIOUS
<1>1. ctx' = ctx /\ submitted' = submitted /\ tick' = (tick + 1) % TickMod
  BY DEF Tick
<1>2. TickMod \in Nat \ {0} /\ tick \in 0..(TickMod - 1) /\ age \in Nat /\ pass \in Nat /\ MaxPass \in Nat
      /\ ctx \in Contexts
  BY PinPadAssumption DEF PinInv, PinTyped
<1>3. PICK x \in Nat : x = tick + 1
  BY <1>2
<1>4. x < 2 * TickMod /\ x <= TickMod
  BY <1>2, <1>3
<1>5. x % TickMod = IF x < TickMod THEN x ELSE x - TickMod
  BY <1>2, <1>4, WrapsOnce
<1>6. tick' = x % TickMod
  BY <1>1, <1>3
<1>7. tick' \in 0..(TickMod - 1)
  BY <1>2, <1>4, <1>5, <1>6
<1>8. PICK due \in Nat : due = ctx.params.timeout * TicksPerSecond
  BY <1>2, ContextTypes, PinPadAssumption
<1>9. CASE ctx.step \notin Active
  <2>1. pass' = pass /\ age' = age
    BY <1>9 DEF Tick
  <2>2. Timed'
    BY <1>1, <1>9, <2>1 DEF PinInv, Timed
  <2>3. QED
    BY <1>1, <1>7, <2>1, <2>2 DEF PinInv, PinTyped
<1>10. CASE ctx.step \in Active
  <2>1. pass' = pass + 1 /\ pass < MaxPass /\ age' = (IF age < TickMod THEN age + 1 ELSE age)
    BY <1>10 DEF Tick
  <2>2. age' \in Nat /\ pass' \in Nat /\ pass' <= MaxPass
    BY <1>2, <2>1
  <2>3. ASSUME ctx.params.timeout # 0
        PROVE  /\ ctx.params.timeout \in Timeouts /\ age' < due + pass'
               /\ tick' = ctx.start + age' \/ tick' = ctx.start + age' - TickMod
    <3>1. age < TickMod /\ ctx.start \in Nat /\ ctx.start < TickMod
      BY <1>2, <1>10, <2>3, ElapsedIsAge, ContextTypes
    <3>2. age' = age + 1
      BY <2>1, <3>1
    <3>3. /\ ctx.params.timeout \in Timeouts /\ age < due + pass
          /\ tick = ctx.start + age \/ tick = ctx.start + age - TickMod
      BY <1>8, <1>10, <2>3 DEF PinInv, Timed
    <3>4. due + MaxPass < TickMod
      BY <1>8, <3>3, PinPadAssumption
    <3>5. QED
      BY <1>2, <1>3, <1>4, <1>5, <1>6, <1>8, <2>1, <3>1, <3>2, <3>3, <3>4
  <2>4. "Timeout" \notin Active
    BY DEF Active
  <2>5. Timed'
    BY <1>1, <1>8, <1>10, <2>2, <2>3, <2>4 DEF Timed
  <2>6. QED
    BY <1>1, <1>7, <2>2, <2>5 DEF PinInv, PinTyped
<1>11. QED
  BY <1>9, <1>10

\* A new entry.
LEMMA BeginKeeps == PinInv /\ Begin => PinInv'
<1> SUFFICES ASSUME PinInv, ctx.step \notin Active,
                    NEW modify \in BOOLEAN, NEW min \in MinLens, NEW max \in MaxLens, NEW timeout \in Timeouts,
                    ctx' = [step |-> IF modify THEN "OldPin" ELSE "Pin", modify |-> modify,
                            old |-> <<>>, new |-> <<>>, confirm |-> <<>>, start |-> tick,
                            params |-> [min |-> min, max |-> max, timeout |-> timeout]],
                    age' = 0, submitted' = <<>>, tick' = tick, pass' = pass
             PROVE  PinInv'
  BY DEF Begin
<1>1. min \in Nat /\ max \in Nat /\ timeout \in Nat /\ tick \in 0..(TickMod - 1) /\ pass = 0 /\ MaxPass \in Nat
      /\ TicksPerSecond \in Nat \ {0}
  BY PinPadAssumption DEF PinInv, PinTyped, Timed
<1>2. <<>> \in Seq(Digits) /\ Len(<<>>) = 0
  BY EmptySeq
<1>3. ctx' \in Contexts
  BY <1>1, <1>2 DEF Contexts, Steps, Active
<1>4. /\ ctx'.step = (IF modify THEN "OldPin" ELSE "Pin") /\ ctx'.modify = modify
      /\ ctx'.old = <<>> /\ ctx'.new = <<>> /\ ctx'.confirm = <<>> /\ ctx'.start = tick
      /\ ctx'.params.max = max /\ ctx'.params.timeout = timeout
  OBVIOUS
<1>5. Confirming(ctx', submitted')
  BY <1>1, <1>2, <1>4 DEF Confirming
<1>6. PICK due \in Nat : due = timeout * TicksPerSecond /\ (timeout # 0 => due > 0)
  BY <1>1
<1>7. Timed'
  BY <1>1, <1>4, <1>6 DEF Timed, Active
<1>8. QED
  BY <1>1, <1>3, <1>5, <1>7 DEF PinInv, PinTyped

\* The PINs one behind the other: FlattenSeq of one sequence and of two.
LEMMA FlattenOne ==
    ASSUME NEW a
    PROVE  FlattenSeq(<<a>>) = a
<1> DEFINE Solves(f) == f = [i \in 1..Len(<<a>>) |-> IF i = 1 THEN <<a>>[i] ELSE f[i - 1] \o <<a>>[i]]
<1>1. Len(<<a>>) = 1 /\ <<a>>[1] = a /\ Len(<<a>>) # 0
  OBVIOUS
<1>2. \E f : Solves(f)
  <2>1. Solves([i \in 1..1 |-> a])
    BY <1>1
  <2>2. QED
    BY <2>1
<1>3. Solves(CHOOSE f : Solves(f))
  BY <1>2, Zenon
<1>4. \A f : Solves(f) => f[1] = a
  BY <1>1
<1> HIDE DEF Solves
<1>5. (CHOOSE f : Solves(f))[Len(<<a>>)] = a
  BY <1>1, <1>3, <1>4
<1>6. QED
  BY <1>1, <1>5 DEF FlattenSeq, Solves

\* The two entries of a modification, joined.
LEMMA FlattenTwo ==
    ASSUME NEW a, NEW b
    PROVE  FlattenSeq(<<a, b>>) = a \o b
<1> DEFINE Solves(f) == f = [i \in 1..Len(<<a, b>>) |-> IF i = 1 THEN <<a, b>>[i] ELSE f[i - 1] \o <<a, b>>[i]]
<1>1. Len(<<a, b>>) = 2 /\ <<a, b>>[1] = a /\ <<a, b>>[2] = b /\ Len(<<a, b>>) # 0
  OBVIOUS
<1>2. \E f : Solves(f)
  <2>1. Solves([i \in 1..2 |-> IF i = 1 THEN a ELSE a \o b])
    BY <1>1
  <2>2. QED
    BY <2>1
<1>3. Solves(CHOOSE f : Solves(f))
  BY <1>2, Zenon
<1>4. \A f : Solves(f) => f[2] = a \o b
  <2> SUFFICES ASSUME NEW f, Solves(f) PROVE f[2] = a \o b
    OBVIOUS
  <2>1. \A i \in 1..Len(<<a, b>>) : f[i] = IF i = 1 THEN <<a, b>>[i] ELSE f[i - 1] \o <<a, b>>[i]
    BY Zenon
  <2>2. 1 \in 1..Len(<<a, b>>) /\ 2 \in 1..Len(<<a, b>>) /\ 2 # 1 /\ 2 - 1 = 1
    BY <1>1
  <2>3. f[1] = a
    BY <1>1, <2>1, <2>2, Zenon
  <2>4. f[2] = f[2 - 1] \o <<a, b>>[2]
    BY <2>1, <2>2, Zenon
  <2>5. QED
    BY <1>1, <2>2, <2>3, <2>4, Zenon
<1> HIDE DEF Solves
<1>5. (CHOOSE f : Solves(f))[Len(<<a, b>>)] = a \o b
  BY <1>1, <1>3, <1>4
<1>6. QED
  BY <1>1, <1>5 DEF FlattenSeq, Solves

\* The PIN that is sent is the one confirmed, and the time-out is true.
LEMMA PinFromInv == PinInv => PinAsConfirmed /\ TimeoutIsTrue
<1> SUFFICES ASSUME PinInv PROVE PinAsConfirmed /\ TimeoutIsTrue
  OBVIOUS
<1>0. ctx \in Contexts /\ Confirming(ctx, submitted) /\ age \in Nat /\ pass \in Nat
  BY DEF PinInv, PinTyped
<1>1. ASSUME ctx.step = "Completed"
      PROVE  /\ ctx.confirm = <<>>
             /\ submitted = IF ctx.modify THEN <<ctx.old, ctx.new, ctx.new>> ELSE <<ctx.old>>
             /\ \A i \in DOMAIN submitted : Len(submitted[i]) \in ctx.params.min..ctx.params.max
             /\ \A type \in PinTypes : Build(type, ctx).out = "apdu" => Build(type, ctx).data = ctx.old \o ctx.new
  <2>1. /\ ctx.confirm = <<>> /\ Asked(ctx, ctx.old)
        /\ ctx.modify => Asked(ctx, ctx.new) /\ submitted = <<ctx.old, ctx.new, ctx.new>>
        /\ ~ctx.modify => ctx.new = <<>> /\ submitted = <<ctx.old>>
    BY <1>0, <1>1 DEF Confirming
  <2>2. \A i \in DOMAIN submitted : Len(submitted[i]) \in ctx.params.min..ctx.params.max
    <3>1. CASE ctx.modify
      <4>1. DOMAIN submitted = 1..3 /\ submitted[1] = ctx.old /\ submitted[2] = ctx.new /\ submitted[3] = ctx.new
        BY <2>1, <3>1
      <4>2. QED
        BY <2>1, <3>1, <4>1 DEF Asked
    <3>2. CASE ~ctx.modify
      <4>1. DOMAIN submitted = 1..1 /\ submitted[1] = ctx.old
        BY <2>1, <3>2
      <4>2. QED
        BY <2>1, <4>1 DEF Asked
    <3>3. QED
      BY <1>0, <3>1, <3>2, ContextTypes
  <2>3. FlattenSeq(IF ctx.modify THEN <<ctx.old, ctx.new>> ELSE <<ctx.old>>) = ctx.old \o ctx.new
    <3>1. CASE ctx.modify
      BY <3>1, FlattenTwo
    <3>2. CASE ~ctx.modify
      <4>1. FlattenSeq(<<ctx.old>>) = ctx.old
        BY FlattenOne
      <4>2. ctx.old \o <<>> = ctx.old
        BY <1>0, ContextTypes
      <4>3. QED
        BY <2>1, <3>2, <4>1, <4>2
    <3>3. QED
      BY <1>0, <3>1, <3>2, ContextTypes
  <2>4. \A type \in PinTypes : Build(type, ctx).out = "apdu" => Build(type, ctx).data = ctx.old \o ctx.new
    BY <2>3 DEF Build
  <2>5. QED
    BY <2>1, <2>2, <2>4
<1>2. TimeoutIsTrue
  <2>1. PICK due \in Nat : due = ctx.params.timeout * TicksPerSecond
    BY <1>0, ContextTypes, PinPadAssumption
  <2>2. /\ ctx.step = "Timeout" => age >= due
        /\ ctx.step \in Active /\ ctx.params.timeout # 0 => age < due + pass
    BY <2>1 DEF PinInv, Timed
  <2>3. ctx.step \in Active /\ ctx.params.timeout # 0 => age - pass < due
    BY <1>0, <2>1, <2>2
  <2>4. QED
    BY <2>1, <2>2, <2>3 DEF TimeoutIsTrue
<1>3. QED
  BY <1>1, <1>2 DEF PinAsConfirmed

-----------------------------------------------------------------------------
(* The T=0 status word *)

\* The reader before it has stored anything.
T0At(at) ==
    [at |-> at, header |-> [ins |-> "ins", p3 |-> 0], response |-> <<>>,
     len |-> 0, count |-> 0, le |-> 0, sw1 |-> "90"]

\* A command without data: the reader and what the card still has to send, at
\* each point of the exchange.
T0Inv ==
    cmd.body /\ cmd.le = 0 =>
        \/ t0 = T0At("send")
        \/ t0 = T0At("procedure") /\ line \in {Ok, <<"ins", "90", "00">>}
        \/ t0 = T0At("ack") /\ line = Ok
        \/ t0 = T0At("status") /\ line = <<"00">>
        \/ t0.at = "done" /\ t0.response = Ok
        \/ t0.at = "error"

\* A short sequence is the tuple of its elements.
LEMMA ShortTuple ==
    ASSUME NEW S, NEW q \in Seq(S)
    PROVE  /\ Len(q) = 1 => q = <<q[1]>>
           /\ Len(q) = 2 => q = <<q[1], q[2]>>
           /\ Len(q) = 3 => q = <<q[1], q[2], q[3]>>
<1>1. ASSUME Len(q) = 1 PROVE q = <<q[1]>>
  <2>1. q[1] \in S
    BY <1>1, ElementOfSeq
  <2>2. <<q[1]>> \in Seq(S) /\ Len(<<q[1]>>) = 1 /\ \A i \in 1..1 : q[i] = <<q[1]>>[i]
    BY <2>1
  <2>3. QED
    BY <1>1, <2>2, SeqEqual
<1>2. ASSUME Len(q) = 2 PROVE q = <<q[1], q[2]>>
  <2>1. q[1] \in S /\ q[2] \in S
    BY <1>2, ElementOfSeq
  <2>2. <<q[1], q[2]>> \in Seq(S) /\ Len(<<q[1], q[2]>>) = 2 /\ \A i \in 1..2 : q[i] = <<q[1], q[2]>>[i]
    BY <2>1
  <2>3. QED
    BY <1>2, <2>2, SeqEqual
<1>3. ASSUME Len(q) = 3 PROVE q = <<q[1], q[2], q[3]>>
  <2>1. q[1] \in S /\ q[2] \in S /\ q[3] \in S
    <3>1. 1 \in 1..Len(q) /\ 2 \in 1..Len(q) /\ 3 \in 1..Len(q)
      BY <1>3
    <3>2. QED
      BY <3>1, ElementOfSeq
  <2>2. /\ <<q[1], q[2], q[3]>> \in Seq(S) /\ Len(<<q[1], q[2], q[3]>>) = 3
        /\ \A i \in 1..3 : q[i] = <<q[1], q[2], q[3]>>[i]
    BY <2>1
  <2>3. QED
    BY <1>3, <2>2, SeqEqual
<1>4. QED
  BY <1>1, <1>2, <1>3

\* The rest of a short answer.
LEMMA RestOfAnswer ==
    ASSUME NEW a, NEW b, NEW c
    PROVE  /\ SubSeq(<<a, b>>, 1 + 1, Len(<<a, b>>)) = <<b>>
           /\ <<a>> \o <<b, c>> = <<a, b, c>>
           /\ <<>> \o <<b, c>> = <<b, c>>
<1> DEFINE S == {a, b, c}
<1>0. /\ <<a, b>> \in Seq(S) /\ <<a, b, c>> \in Seq(S) /\ <<b>> \in Seq(S) /\ <<b, c>> \in Seq(S) /\ <<a>> \in Seq(S)
      /\ Len(<<a, b>>) = 2 /\ Len(<<a, b, c>>) = 3 /\ Len(<<b>>) = 1 /\ Len(<<b, c>>) = 2 /\ Len(<<a>>) = 1
      /\ 1 + 1 = 2
  OBVIOUS
<1>1. SubSeq(<<a, b>>, 2, 2) = <<b>>
  <2>1. \A i \in 2..2 : <<a, b>>[i] \in S
    OBVIOUS
  <2>2. /\ SubSeq(<<a, b>>, 2, 2) \in Seq(S) /\ Len(SubSeq(<<a, b>>, 2, 2)) = 1
        /\ \A i \in 1..1 : SubSeq(<<a, b>>, 2, 2)[i] = <<a, b>>[2 + i - 1]
    BY <2>1, SubSeqProperties
  <2>3. PICK q : q = SubSeq(<<a, b>>, 2, 2)
    OBVIOUS
  <2>4. q \in Seq(S) /\ Len(q) = 1 /\ q[1] = b
    BY <2>2, <2>3
  <2>5. q = <<b>>
    BY <2>4, ShortTuple
  <2>6. QED
    BY <2>3, <2>5
<1>3. <<a>> \o <<b, c>> = <<a, b, c>>
  <2>1. /\ <<a>> \o <<b, c>> \in Seq(S) /\ Len(<<a>> \o <<b, c>>) = 3
        /\ \A i \in 1..3 : (<<a>> \o <<b, c>>)[i] = IF i <= 1 THEN <<a>>[i] ELSE <<b, c>>[i - 1]
    BY <1>0, ConcatProperties
  <2>2. PICK q : q = <<a>> \o <<b, c>>
    OBVIOUS
  <2>3. q \in Seq(S) /\ Len(q) = 3 /\ q[1] = a /\ q[2] = b /\ q[3] = c
    BY <2>1, <2>2
  <2>4. q = <<a, b, c>>
    BY <2>3, ShortTuple
  <2>5. QED
    BY <2>2, <2>4
<1>4. <<>> \o <<b, c>> = <<b, c>>
  BY <1>0, ConcatEmptySeq
<1>5. QED
  BY <1>0, <1>1, <1>3, <1>4

\* The rest of three bytes.
LEMMA RestOfThree == \A a, b, c : SubSeq(<<a, b, c>>, 2, 3) = <<b, c>>
<1> SUFFICES ASSUME NEW a, NEW b, NEW c PROVE SubSeq(<<a, b, c>>, 2, 3) = <<b, c>>
  OBVIOUS
<1> DEFINE S == {a, b, c}
<1>1. SubSeq(<<a, b, c>>, 2, 3) = <<b, c>>
  <2>1. \A i \in 2..3 : <<a, b, c>>[i] \in S
    OBVIOUS
  <2>2. /\ SubSeq(<<a, b, c>>, 2, 3) \in Seq(S) /\ Len(SubSeq(<<a, b, c>>, 2, 3)) = 2
        /\ \A i \in 1..2 : SubSeq(<<a, b, c>>, 2, 3)[i] = <<a, b, c>>[2 + i - 1]
    BY <2>1, SubSeqProperties
  <2>3. PICK q : q = SubSeq(<<a, b, c>>, 2, 3)
    OBVIOUS
  <2>4. q \in Seq(S) /\ Len(q) = 2 /\ q[1] = b /\ q[2] = c
    BY <2>2, <2>3
  <2>5. q = <<b, c>>
    BY <2>4, ShortTuple
  <2>6. QED
    BY <2>3, <2>5
<1>2. QED
  BY <1>1

\* Two status bytes behind an empty response.
LEMMA StoresStatus ==
    ASSUME NEW at
    PROVE  [Store(T0At(at), "90", "00") EXCEPT !.at = "done"].at = "done"
           /\ [Store(T0At(at), "90", "00") EXCEPT !.at = "done"].response = Ok
<1>1. Room >= 2 /\ 0 + 2 <= Room
  BY T0Assumption
<1>2. <<>> \o <<"90", "00">> = Ok
  BY RestOfAnswer DEF Ok
<1>3. QED
  BY <1>1, <1>2 DEF Store, T0At

\* Every step of the exchange.
LEMMA T0Keeps == T0Inv /\ T0Next => T0Inv'
<1> SUFFICES ASSUME T0Inv, T0Next, cmd'.body, cmd'.le = 0 PROVE T0Inv'
  BY DEF T0Inv
<1>0. NewExchange = T0At("send") /\ \A a : T0At(a).at = a /\ T0At(a).header.ins = "ins" /\ T0At(a).sw1 = "90"
  BY DEF NewExchange, T0At
<1>1. CASE Again
  BY <1>0, <1>1 DEF Again, T0Inv
<1>2. CASE CardWaits
  BY <1>2 DEF CardWaits, T0Inv
<1>3. CASE Sends
  <2>1. t0 = T0At("send") /\ cmd' = cmd /\ cmd.body /\ cmd.le = 0
    BY <1>0, <1>3 DEF Sends, T0Inv
  <2>2. line' \in {Ok, <<"ins">> \o Ok}
    BY <1>0, <1>3, <2>1 DEF Sends, CardAnswers
  <2>3. <<"ins">> \o Ok = <<"ins", "90", "00">>
    BY RestOfAnswer DEF Ok
  <2>4. t0' = T0At("procedure")
    BY <1>3, <2>1 DEF Sends, T0At
  <2>5. QED
    BY <2>1, <2>2, <2>3, <2>4 DEF T0Inv
<1>4. CASE ReceivesProcedure
  <2>1. /\ t0 = T0At("procedure") /\ line \in {Ok, <<"ins", "90", "00">>}
    BY <1>0, <1>4 DEF ReceivesProcedure, T0Inv
  <2>2. t0' = Procedure(t0, line[1]) /\ line' = SubSeq(line, 1 + 1, Len(line))
    BY <1>4 DEF ReceivesProcedure, Takes
  <2>3. CASE line = Ok
    <3>1. line[1] = "90" /\ line' = <<"00">>
      BY <2>2, <2>3, RestOfAnswer DEF Ok
    <3>2. t0' = T0At("status")
      BY <2>1, <2>2, <3>1 DEF Procedure, T0At
    <3>3. QED
      BY <3>1, <3>2 DEF T0Inv
  <2>4. CASE line = <<"ins", "90", "00">>
    <3>1. line[1] = "ins" /\ line' = Ok
      <4>1. SubSeq(<<"ins", "90", "00">>, 2, 3) = <<"90", "00">>
        BY RestOfThree
      <4>2. Len(line) = 3 /\ 1 + 1 = 2 /\ line[1] = "ins"
        BY <2>4
      <4>3. line' = SubSeq(<<"ins", "90", "00">>, 2, 3)
        BY <2>2, <2>4, <4>2
      <4>4. QED
        BY <4>1, <4>2, <4>3 DEF Ok
    <3>2. t0' = T0At("ack")
      BY <2>1, <2>2, <3>1 DEF Procedure, T0At
    <3>3. QED
      BY <3>1, <3>2 DEF T0Inv
  <2>5. QED
    BY <2>1, <2>3, <2>4
<1>5. CASE ReceivesAck
  <2>1. /\ t0 = T0At("ack") /\ line = Ok
        /\ t0' = AfterAck(t0, line[1], line[2])
    BY <1>0, <1>5 DEF ReceivesAck, T0Inv
  <2>2. line[1] = "90" /\ line[2] = "00"
    BY <2>1 DEF Ok
  <2>3. t0' = [Store(T0At("ack"), "90", "00") EXCEPT !.at = "done"]
    BY <2>1, <2>2 DEF AfterAck
  <2>4. t0'.at = "done" /\ t0'.response = Ok
    BY <2>3, StoresStatus
  <2>5. QED
    BY <2>4 DEF T0Inv
<1>6. CASE ReceivesStatus
  <2>1. /\ t0 = T0At("status") /\ line = <<"00">>
        /\ t0' = [Store(t0, t0.sw1, line[1]) EXCEPT !.at = "done"]
    BY <1>0, <1>6 DEF ReceivesStatus, T0Inv
  <2>2. line[1] = "00" /\ t0.sw1 = "90"
    BY <1>0, <2>1
  <2>3. t0'.at = "done" /\ t0'.response = Ok
    BY <2>1, <2>2, StoresStatus
  <2>4. QED
    BY <2>3 DEF T0Inv
<1>7. CASE ReceivesMore \/ ReceivesWrongLe \/ GetsResponse
  <2>1. t0.at \in {"more", "wrong_le", "get_response"} /\ cmd' = cmd
    BY <1>7 DEF ReceivesMore, ReceivesWrongLe, GetsResponse
  <2>2. QED
    BY <1>0, <2>1 DEF T0Inv
<1>8. CASE Refuses \/ Fails
  <2>1. /\ t0.at \notin {"done", "error"} /\ t0' = [t0 EXCEPT !.at = "error"]
        /\ cmd' = cmd /\ cmd.body /\ cmd.le = 0
    BY <1>8 DEF Refuses, Fails
  <2>2. PICK a : t0 = T0At(a)
    BY <2>1 DEF T0Inv
  <2>3. t0'.at = "error"
    BY <2>1, <2>2 DEF T0At
  <2>4. QED
    BY <2>3 DEF T0Inv
<1>9. QED
  BY <1>1, <1>2, <1>3, <1>4, <1>5, <1>6, <1>7, <1>8 DEF T0Next

-----------------------------------------------------------------------------
(* The PPS echo *)

Present(bit, pps0) == IF bit \in pps0 THEN 1 ELSE 0

\* A request announces its own length and carries its own check byte.
Request(tx) ==
    /\ tx # <<>> /\ Len(tx) = 3 + Present("b5", tx[2]) + Present("b6", tx[2]) + Present("b7", tx[2])
    /\ \A s \in Seq(Bytes), x \in Bytes : tx = Append(s, x) => x = Check(s)

\* How much has been read in each waiting state.
Reading(state, rx) ==
    /\ state = "WaitPpsx" => rx = <<>>
    /\ state = "WaitPps0" => Len(rx) = 1
    /\ state = "WaitPps1" => Len(rx) = 2 /\ "b5" \in rx[2]
    /\ state = "WaitPps2" => Len(rx) = 2 + Present("b5", rx[2]) /\ "b6" \in rx[2]
    /\ state = "WaitPps3" => Len(rx) = 2 + Present("b5", rx[2]) + Present("b6", rx[2]) /\ "b7" \in rx[2]
    /\ state = "WaitPck" =>
          Len(rx) = 2 + Present("b5", rx[2]) + Present("b6", rx[2]) + Present("b7", rx[2])

PpsInv ==
    /\ pps = [state |-> pps.state, tx |-> pps.tx, rx |-> pps.rx]
    /\ pps.state \in Waiting \cup {"Init", "Done", "Failed"}
    /\ pps.rx \in Seq(Bytes) /\ sent \in Seq(Bytes) /\ Len(pps.rx) <= 6
    /\ pps.state = "Init" => pps.tx = <<>>
    /\ pps.state # "Init" => Request(pps.tx)
    /\ pps.state \in Waiting => pps.rx = sent /\ Reading(pps.state, pps.rx)
    /\ pps.state = "Done" => sent = pps.tx
    /\ pps.state = "Failed" => sent # pps.tx

\* The invariant of PpsFsm says that an accepted answer is the echo.
LEMMA PpsFromInv == PpsInv => PpsIsEcho
<1> SUFFICES ASSUME PpsInv PROVE PpsIsEcho
  OBVIOUS
<1>1. Len(pps.rx) <= PpsMaxLen
  BY PpsAssumption DEF PpsInv
<1>2. ASSUME pps.state \in Waiting PROVE sent # pps.tx
  <2>1. Request(pps.tx) /\ Reading(pps.state, pps.rx) /\ pps.rx = sent /\ Len(pps.rx) \in Nat
    BY <1>2 DEF PpsInv, Waiting
  <2>2. SUFFICES ASSUME pps.tx = pps.rx PROVE FALSE
    BY <2>1
  <2>3. Len(pps.rx) = 3 + Present("b5", pps.rx[2]) + Present("b6", pps.rx[2]) + Present("b7", pps.rx[2])
    BY <2>1, <2>2 DEF Request
  <2>4. Len(<<>>) = 0
    OBVIOUS
  <2>5. QED
    BY <1>2, <2>1, <2>3, <2>4 DEF Reading, Waiting, Present
<1>3. QED
  BY <1>1, <1>2 DEF PpsInv, PpsIsEcho, Request, Waiting

\* Every request the reader builds is one.
LEMMA RequestsAreWhole ==
    ASSUME NEW b \in Seq(Bytes), Len(b) >= 2,
           Len(b) = 2 + Present("b5", b[2]) + Present("b6", b[2]) + Present("b7", b[2])
    PROVE  Request(Checked(b))
<1> DEFINE S == Bytes \cup {Check(b)}
<1>1. PICK v : v = Check(b)
  OBVIOUS
<1>2. b \in Seq(S) /\ v \in S
  BY <1>1
<1>3. /\ Append(b, v) # <<>> /\ Len(Append(b, v)) = Len(b) + 1
      /\ \A i \in 1..Len(b) : Append(b, v)[i] = b[i]
  BY <1>2, AppendProperties
<1>4. Append(b, v)[2] = b[2]
  BY <1>3
<1>5. ASSUME NEW s \in Seq(Bytes), NEW x \in Bytes, Append(b, v) = Append(s, x) PROVE x = Check(s)
  <2>1. s \in Seq(S) /\ x \in S
    OBVIOUS
  <2>2. b = s /\ v = x
    BY <1>2, <1>5, <2>1, AppendInjective
  <2>3. QED
    BY <1>1, <2>2
<1>6. Len(Append(b, v)) = 3 + Present("b5", b[2]) + Present("b6", b[2]) + Present("b7", b[2])
  BY <1>3 DEF Present
<1>7. Request(Append(b, v))
  BY <1>3, <1>4, <1>5, <1>6 DEF Request
<1>8. QED
  BY <1>1, <1>7 DEF Checked

\* What PpsFsm::start leaves is a request with its answer to come.
LEMMA StartRequests ==
    ASSUME NEW protocol \in {{}, Bits \ {"b5", "b6", "b7"}}, NEW ta1 \in {PPSS, {"b6"}}
    PROVE  Request(BuildRequest(protocol, ta1)) /\ Request(BuildMinimalRequest(protocol))
<1>1. {"b5"} \cup protocol \in Bytes /\ protocol \in Bytes /\ PPSS \in Bytes /\ ta1 \in Bytes
  BY PpsAssumption DEF Bytes, PPSS
<1>2. Request(BuildRequest(protocol, ta1))
  <2>1. PICK b : b = <<PPSS, {"b5"} \cup protocol, ta1>>
    OBVIOUS
  <2>2. b \in Seq(Bytes) /\ Len(b) = 3 /\ b[2] = {"b5"} \cup protocol
    BY <1>1, <2>1
  <2>3. Present("b5", b[2]) = 1 /\ Present("b6", b[2]) = 0 /\ Present("b7", b[2]) = 0
    BY <2>2 DEF Present
  <2>4. Request(Checked(b))
    <3>1. Len(b) >= 2 /\ Len(b) = 2 + Present("b5", b[2]) + Present("b6", b[2]) + Present("b7", b[2])
      BY <2>2, <2>3
    <3>2. QED
      BY <2>2, <3>1, RequestsAreWhole
  <2>5. QED
    BY <2>1, <2>4 DEF BuildRequest
<1>3. Request(BuildMinimalRequest(protocol))
  <2>1. PICK b : b = <<PPSS, protocol>>
    OBVIOUS
  <2>2. b \in Seq(Bytes) /\ Len(b) = 2 /\ b[2] = protocol
    BY <1>1, <2>1
  <2>3. Present("b5", b[2]) = 0 /\ Present("b6", b[2]) = 0 /\ Present("b7", b[2]) = 0
    BY <2>2 DEF Present
  <2>4. Request(Checked(b))
    <3>1. Len(b) >= 2 /\ Len(b) = 2 + Present("b5", b[2]) + Present("b6", b[2]) + Present("b7", b[2])
      BY <2>2, <2>3
    <3>2. QED
      BY <2>2, <3>1, RequestsAreWhole
  <2>5. QED
    BY <2>1, <2>4 DEF BuildMinimalRequest
<1>4. QED
  BY <1>2, <1>3

\* A parameter byte moves the reader to the next one announced.
LEMMA AnnouncedNext ==
    ASSUME NEW rx \in Seq(Bytes), Len(rx) >= 2
    PROVE  /\ Len(rx) = 2 => Reading(NextAnnounced(rx[2], 0), rx)
           /\ Len(rx) = 3 /\ "b5" \in rx[2] => Reading(NextAnnounced(rx[2], 1), rx)
           /\ Len(rx) = 3 + Present("b5", rx[2]) /\ "b6" \in rx[2] => Reading(NextAnnounced(rx[2], 2), rx)
           /\ \A after \in {0, 1, 2} : NextAnnounced(rx[2], after) \in Waiting
<1>1. Len(rx) = 2 => Reading(NextAnnounced(rx[2], 0), rx)
  BY DEF Reading, NextAnnounced, Present
<1>2. Len(rx) = 3 /\ "b5" \in rx[2] => Reading(NextAnnounced(rx[2], 1), rx)
  BY DEF Reading, NextAnnounced, Present
<1>3. Len(rx) = 3 + Present("b5", rx[2]) /\ "b6" \in rx[2] => Reading(NextAnnounced(rx[2], 2), rx)
  BY DEF Reading, NextAnnounced, Present
<1>4. \A after \in {0, 1, 2} : NextAnnounced(rx[2], after) \in Waiting
  BY DEF NextAnnounced, Waiting
<1>5. QED
  BY <1>1, <1>2, <1>3, <1>4

\* A byte of the card.
LEMMA ByteKeeps == PpsInv /\ ReceiveByte => PpsInv'
<1> SUFFICES ASSUME PpsInv, pps.state \in Waiting, NEW byte \in Bytes,
                    pps' = ProcessByte(pps, byte), sent' = Append(sent, byte)
             PROVE  PpsInv'
  BY DEF ReceiveByte
<1>0. PICK state, tx, rx : state = pps.state /\ tx = pps.tx /\ rx = pps.rx
  OBVIOUS
<1>1. /\ pps = [state |-> state, tx |-> tx, rx |-> rx] /\ state \in Waiting
      /\ rx \in Seq(Bytes) /\ sent = rx /\ Len(rx) \in Nat /\ Request(tx) /\ Reading(state, rx)
  BY <1>0 DEF PpsInv, Waiting
<1>2. PICK got1 \in Seq(Bytes) : got1 = Append(rx, byte)
  BY <1>1
<1>3. /\ sent' = got1 /\ Len(got1) = Len(rx) + 1
      /\ \A i \in 1..Len(rx) : got1[i] = rx[i]
      /\ got1[Len(rx) + 1] = byte
  BY <1>1, <1>2, AppendProperties
<1>4. ASSUME NEW next, pps' = [state |-> next, tx |-> tx, rx |-> got1], next \in Waiting,
             Reading(next, got1), Len(got1) <= 6
      PROVE  PpsInv'
  <2>1. pps'.state = next /\ pps'.tx = tx /\ pps'.rx = got1
    BY <1>4
  <2>2. next \notin {"Init", "Done", "Failed"}
    BY <1>4 DEF Waiting
  <2>3. QED
    BY <1>1, <1>3, <1>4, <2>1, <2>2 DEF PpsInv
<1>5. CASE state = "WaitPpsx"
  <2>1. rx = <<>> /\ Len(rx) = 0
    BY <1>1, <1>5 DEF Reading
  <2>2. CASE byte # PPSS
    <3>1. pps' = [state |-> "Failed", tx |-> tx, rx |-> rx]
      BY <1>1, <1>5, <2>2 DEF ProcessByte
    <3>2. pps'.state = "Failed" /\ pps'.tx = tx /\ pps'.rx = rx
      BY <3>1
    <3>3. got1 # tx
      BY <1>1, <1>3, <2>1 DEF Request, Present
    <3>4. "Failed" \notin Waiting
      BY DEF Waiting
    <3>5. QED
      BY <1>1, <1>3, <2>1, <3>1, <3>2, <3>3, <3>4 DEF PpsInv
  <2>3. CASE byte = PPSS
    <3>1. pps' = [state |-> "WaitPps0", tx |-> tx, rx |-> got1]
      BY <1>1, <1>2, <1>5, <2>3 DEF ProcessByte
    <3>2. "WaitPps0" \in Waiting /\ Reading("WaitPps0", got1) /\ Len(got1) <= 6
      BY <1>3, <2>1 DEF Waiting, Reading
    <3>3. QED
      BY <1>4, <3>1, <3>2
  <2>4. QED
    BY <2>2, <2>3
<1>6. CASE state = "WaitPps0"
  <2>1. Len(rx) = 1 /\ Len(got1) = 2 /\ got1[2] = byte
    <3>1. Len(rx) = 1
      BY <1>1, <1>6, Zenon DEF Reading
    <3>2. Len(rx) + 1 = 2
      BY <3>1
    <3>3. QED
      BY <1>3, <3>1, <3>2
  <2>2. pps' = [state |-> NextAnnounced(byte, 0), tx |-> tx, rx |-> got1]
    BY <1>1, <1>2, <1>6 DEF ProcessByte
  <2>3. NextAnnounced(byte, 0) \in Waiting /\ Reading(NextAnnounced(byte, 0), got1)
    <3>1. Len(got1) >= 2 /\ 0 \in {0, 1, 2}
      BY <2>1
    <3>2. NextAnnounced(got1[2], 0) \in Waiting /\ Reading(NextAnnounced(got1[2], 0), got1)
      BY <2>1, <3>1, AnnouncedNext, Zenon
    <3>3. QED
      BY <2>1, <3>2, Zenon
  <2>4. QED
    BY <1>4, <2>1, <2>2, <2>3
<1>7. CASE state = "WaitPps1"
  <2>1. Len(rx) = 2 /\ "b5" \in rx[2] /\ Len(got1) = 3 /\ got1[2] = rx[2]
    <3>1. Len(rx) = 2 /\ "b5" \in rx[2] /\ 2 \in 1..Len(rx)
      BY <1>1, <1>7 DEF Reading
    <3>2. QED
      BY <1>3, <3>1
  <2>2. pps' = [state |-> NextAnnounced(rx[2], 1), tx |-> tx, rx |-> got1]
    BY <1>1, <1>2, <1>7 DEF ProcessByte
  <2>3. NextAnnounced(rx[2], 1) \in Waiting /\ Reading(NextAnnounced(rx[2], 1), got1)
    BY <2>1, AnnouncedNext
  <2>4. QED
    BY <1>4, <2>1, <2>2, <2>3
<1>8. CASE state = "WaitPps2"
  <2>1. /\ Len(rx) = 2 + Present("b5", rx[2]) /\ "b6" \in rx[2] /\ Present("b5", rx[2]) \in {0, 1}
        /\ got1[2] = rx[2] /\ Len(got1) = 3 + Present("b5", got1[2])
    BY <1>1, <1>3, <1>8 DEF Reading, Present
  <2>2. pps' = [state |-> NextAnnounced(rx[2], 2), tx |-> tx, rx |-> got1]
    BY <1>1, <1>2, <1>8 DEF ProcessByte
  <2>3. NextAnnounced(rx[2], 2) \in Waiting /\ Reading(NextAnnounced(rx[2], 2), got1) /\ Len(got1) <= 6
    BY <2>1, AnnouncedNext
  <2>4. QED
    BY <1>4, <2>2, <2>3
<1>9. CASE state = "WaitPps3"
  <2>1. /\ Len(rx) = 2 + Present("b5", rx[2]) + Present("b6", rx[2]) /\ "b7" \in rx[2]
        /\ Present("b5", rx[2]) \in {0, 1} /\ Present("b6", rx[2]) \in {0, 1} /\ Present("b7", rx[2]) = 1
    BY <1>1, <1>9 DEF Reading, Present
  <2>2. got1[2] = rx[2]
    BY <1>3, <2>1
  <2>3. pps' = [state |-> "WaitPck", tx |-> tx, rx |-> got1]
    BY <1>1, <1>2, <1>9 DEF ProcessByte
  <2>4. "WaitPck" \in Waiting /\ Reading("WaitPck", got1) /\ Len(got1) <= 6
    BY <1>3, <2>1, <2>2 DEF Waiting, Reading
  <2>5. QED
    BY <1>4, <2>3, <2>4
<1>10. CASE state = "WaitPck"
  <2>1. Len(got1) <= 6
    BY <1>1, <1>3, <1>10 DEF Reading, Present
  <2>2. CASE Check(rx) # byte
    <3>1. pps' = [state |-> "Failed", tx |-> tx, rx |-> got1]
      BY <1>1, <1>2, <1>10, <2>2 DEF ProcessByte, ProcessPck
    <3>2. pps'.state = "Failed" /\ pps'.tx = tx /\ pps'.rx = got1
      BY <3>1
    <3>3. got1 # tx
      BY <1>1, <1>2, <2>2 DEF Request
    <3>4. "Failed" \notin Waiting
      BY DEF Waiting
    <3>5. QED
      BY <1>1, <1>3, <2>1, <3>1, <3>2, <3>3, <3>4 DEF PpsInv
  <2>3. CASE Check(rx) = byte
    <3>1. pps' = [state |-> IF got1 = tx THEN "Done" ELSE "Failed", tx |-> tx, rx |-> got1]
      BY <1>1, <1>2, <1>10, <2>3 DEF ProcessByte, ProcessPck, VerifyResponse
    <3>2. pps'.state = (IF got1 = tx THEN "Done" ELSE "Failed") /\ pps'.tx = tx /\ pps'.rx = got1
      BY <3>1
    <3>3. "Failed" \notin Waiting /\ "Done" \notin Waiting
      BY DEF Waiting
    <3>4. QED
      BY <1>1, <1>3, <2>1, <3>1, <3>2, <3>3 DEF PpsInv
  <2>4. QED
    BY <2>2, <2>3
<1>11. QED
  BY <1>1, <1>5, <1>6, <1>7, <1>8, <1>9, <1>10 DEF Waiting

\* Every step of the negotiation.
LEMMA PpsKeeps == PpsInv /\ PpsNext => PpsInv'
<1> SUFFICES ASSUME PpsInv, PpsNext PROVE PpsInv'
  OBVIOUS
<1>1. CASE ReceiveByte
  BY <1>1, ByteKeeps
<1>2. CASE ByteTimesOut
  <2>1. pps' = [state |-> "Failed", tx |-> pps.tx, rx |-> pps.rx] /\ sent' = sent /\ pps.state \in Waiting
    BY <1>2 DEF ByteTimesOut, PpsInv
  <2>2. pps'.state = "Failed" /\ pps'.tx = pps.tx /\ pps'.rx = pps.rx
    BY <2>1
  <2>3. sent # pps.tx
    BY <2>1, PpsFromInv DEF PpsIsEcho, PpsInv, Waiting, Request
  <2>4. "Failed" \notin Waiting /\ Request(pps.tx)
    BY <2>1 DEF PpsInv, Waiting
  <2>5. QED
    BY <2>1, <2>2, <2>3, <2>4 DEF PpsInv
<1>3. CASE StartNegotiation
  <2>1. PICK tx : Request(tx) /\ pps' = [state |-> "WaitPpsx", tx |-> tx, rx |-> <<>>] /\ sent' = <<>>
    BY <1>3, StartRequests DEF StartNegotiation
  <2>2. pps'.state = "WaitPpsx" /\ pps'.tx = tx /\ pps'.rx = <<>>
    BY <2>1
  <2>3. "WaitPpsx" \in Waiting /\ Reading("WaitPpsx", <<>>)
    BY DEF Waiting, Reading
  <2>4. <<>> \in Seq(Bytes) /\ Len(<<>>) <= 6
    BY EmptySeq
  <2>5. QED
    BY <2>1, <2>2, <2>3, <2>4 DEF PpsInv
<1>4. QED
  BY <1>1, <1>2, <1>3 DEF PpsNext

-----------------------------------------------------------------------------
(* The card drivers *)

Drivers ==
    [powered : BOOLEAN, protocol : {0, 1}, baud : {"slow", "fast", "other"}, speedup : BOOLEAN,
     suppress : BOOLEAN, gt : {"T0", "atr", "host", "zero"}, nack : BOOLEAN, clock : BOOLEAN]
Cards == [kind : {"card"}, proto : {0, 1}, ta1 : BOOLEAN, on : BOOLEAN, speed : {"slow", "fast"}]

\* Without a negotiated speed the driver and the card stay at the default.
Slow(d) == ~NegotiateSpeed => ~d.speedup /\ d.baud = "slow"
SlowCard(c) == ~NegotiateSpeed => c.speed = "slow"

DrvInv ==
    /\ drv \in Drivers /\ icc \in Cards \cup {NoIcc}
    /\ core \in [active : BOOLEAN, present : BOOLEAN, protocol : {0, 1}]
    /\ healed \in BOOLEAN /\ ordered \in BOOLEAN
    /\ ProtocolsAgree
    /\ ~NegotiateSpeed => ~drv.speedup
    /\ ~ordered => Slow(drv)
    /\ icc # NoIcc => SlowCard(icc)

\* What an activation of a card leaves: a powered driver has the protocol of
\* the card.
Activated(r, c) ==
    /\ r = [d |-> r.d, c |-> r.c, ok |-> r.ok]
    /\ r.d \in Drivers /\ r.c \in Cards /\ r.ok \in BOOLEAN /\ r.c.proto = c.proto
    /\ r.d.powered => r.d.protocol = c.proto
    /\ Slow(r.d) /\ SlowCard(r.c)

\* An empty slot is no card.
LEMMA NoIccIsNoCard == NoIcc \notin Cards
  BY DEF NoIcc, Cards

\* negotiate_pps keeps power and protocol; it raises the speed of card and
\* driver only where the build applies negotiated speeds.
LEMMA PpsLeaves ==
    ASSUME NEW d \in Drivers, NEW c \in Cards, NEW suppress \in BOOLEAN, Slow(d), SlowCard(c),
           NEW r \in NegotiatePps(d, c, suppress)
    PROVE  /\ r.d \in Drivers /\ r.c \in Cards /\ r.c.proto = c.proto
           /\ r.d.powered = d.powered /\ r.d.protocol = d.protocol
           /\ Slow(r.d) /\ SlowCard(r.c)
<1>1. PICK switched : switched = [c EXCEPT !.speed = "fast"]
  OBVIOUS
<1>2. PICK sped : sped = [d EXCEPT !.speedup = TRUE, !.baud = "fast"]
  OBVIOUS
<1>3. switched \in Cards /\ switched.proto = c.proto
  BY <1>1 DEF Cards
<1>4. sped \in Drivers /\ sped.powered = d.powered /\ sped.protocol = d.protocol
  BY <1>2 DEF Drivers
<1>5. \/ r = [d |-> d, c |-> c]
      \/ NegotiateSpeed /\ (r = [d |-> sped, c |-> switched] \/ r = [d |-> d, c |-> switched])
  BY <1>1, <1>2 DEF NegotiatePps
<1>6. CASE r = [d |-> d, c |-> c]
  BY <1>6
<1>7. CASE NegotiateSpeed /\ (r = [d |-> sped, c |-> switched] \/ r = [d |-> d, c |-> switched])
  <2>1. r.c = switched /\ r.d \in {sped, d}
    BY <1>7
  <2>2. QED
    BY <1>3, <1>4, <1>7, <2>1 DEF Slow, SlowCard
<1>8. QED
  BY <1>5, <1>6, <1>7

\* One cold activation.
LEMMA ActivateLeaves ==
    ASSUME NEW d \in Drivers, NEW c \in Cards, NEW suppress \in BOOLEAN, NEW r \in Activate(d, c, suppress)
    PROVE  Activated(r, c)
<1>1. PICK cold : cold = [d EXCEPT !.powered = FALSE, !.speedup = FALSE, !.baud = "slow",
                                   !.suppress = FALSE, !.protocol = IF Uart THEN @ ELSE 0,
                                   !.clock = IF Uart THEN @ ELSE TRUE]
  OBVIOUS
<1>2. cold \in Drivers /\ ~cold.powered /\ ~cold.speedup /\ cold.baud = "slow"
  BY <1>1 DEF Drivers
<1>3. PICK reset : reset = [c EXCEPT !.on = TRUE, !.speed = "slow"]
  OBVIOUS
<1>4. reset \in Cards /\ reset.proto = c.proto /\ reset.speed = "slow" /\ c.proto \in {0, 1}
  BY <1>3 DEF Cards
<1>5. PICK known : known = [cold EXCEPT !.powered = TRUE, !.protocol = c.proto]
  OBVIOUS
<1>6. known \in Drivers /\ known.protocol = c.proto /\ ~known.speedup /\ known.baud = "slow"
  BY <1>2, <1>4, <1>5 DEF Drivers
<1>7. PICK dead : dead = [known EXCEPT !.powered = FALSE]
  OBVIOUS
<1>8. dead \in Drivers /\ ~dead.powered /\ ~dead.speedup /\ dead.baud = "slow"
  BY <1>6, <1>7 DEF Drivers
<1>9. \/ r = [d |-> cold, c |-> reset, ok |-> FALSE]
      \/ r = [d |-> dead, c |-> reset, ok |-> FALSE]
      \/ \E n \in NegotiatePps(known, reset, suppress) :
            r = [d |-> IF ~Uart THEN n.d
                       ELSE IF c.proto = 0 THEN [n.d EXCEPT !.nack = TRUE] ELSE [n.d EXCEPT !.gt = "atr"],
                 c |-> n.c, ok |-> TRUE]
  BY <1>1, <1>3, <1>5, <1>7 DEF Activate
<1>10. CASE r = [d |-> cold, c |-> reset, ok |-> FALSE] \/ r = [d |-> dead, c |-> reset, ok |-> FALSE]
  <2>1. r.d \in {cold, dead} /\ r.c = reset /\ r.ok = FALSE /\ r = [d |-> r.d, c |-> r.c, ok |-> r.ok]
    BY <1>10
  <2>2. QED
    BY <1>2, <1>4, <1>8, <2>1 DEF Activated, Slow, SlowCard
<1>11. ASSUME NEW n \in NegotiatePps(known, reset, suppress),
              r = [d |-> IF ~Uart THEN n.d
                         ELSE IF c.proto = 0 THEN [n.d EXCEPT !.nack = TRUE] ELSE [n.d EXCEPT !.gt = "atr"],
                   c |-> n.c, ok |-> TRUE]
       PROVE  Activated(r, c)
  <2>1. Slow(known) /\ SlowCard(reset)
    BY <1>4, <1>6 DEF Slow, SlowCard
  <2>2. /\ n.d \in Drivers /\ n.c \in Cards /\ n.c.proto = c.proto /\ n.d.protocol = c.proto
        /\ Slow(n.d) /\ SlowCard(n.c)
    BY <1>4, <1>6, <2>1, PpsLeaves
  <2>3. PICK f : f \in {n.d, [n.d EXCEPT !.nack = TRUE], [n.d EXCEPT !.gt = "atr"]}
                 /\ r = [d |-> f, c |-> n.c, ok |-> TRUE]
    BY <1>11
  <2>4. f \in Drivers /\ f.protocol = n.d.protocol /\ f.speedup = n.d.speedup /\ f.baud = n.d.baud
    BY <2>2, <2>3 DEF Drivers
  <2>5. r.d = f /\ r.c = n.c /\ r.ok = TRUE /\ r = [d |-> r.d, c |-> r.c, ok |-> r.ok]
    BY <2>3
  <2>6. QED
    BY <2>2, <2>4, <2>5 DEF Activated, Slow
<1>12. QED
  BY <1>9, <1>10, <1>11

\* Power off.
LEMMA PowerOffLeaves ==
    ASSUME NEW d \in Drivers
    PROVE  /\ PowerOff(d) \in Drivers /\ ~PowerOff(d).powered /\ PowerOff(d).protocol = 0
           /\ ~PowerOff(d).speedup /\ PowerOff(d).baud = "slow"
  BY DEF PowerOff, Drivers

\* A card that lost its power is a card at the first speed.
LEMMA UnpoweredCard ==
    ASSUME NEW c \in Cards
    PROVE  Unpowered(c) \in Cards /\ Unpowered(c).speed = "slow" /\ Unpowered(c).proto = c.proto
<1>1. Unpowered(c) = [c EXCEPT !.on = FALSE, !.speed = "slow"]
  BY NoIccIsNoCard DEF Unpowered
<1>2. QED
  BY <1>1 DEF Cards

\* The fall-back ladder, wherever it ends.
LEMMA LadderLeaves ==
    ASSUME NEW c \in Cards, NEW r, Activated(r, c), NEW q \in Ladder(r)
    PROVE  Activated(q, c)
<1> DEFINE slow == [r EXCEPT !.d.speedup = FALSE, !.d.baud = "slow"]
           retried == {[a EXCEPT !.ok = TRUE] : a \in Activate(PowerOff(slow.d), Unpowered(slow.c), TRUE)}
           again == UNION {IF ifs THEN {slow} ELSE retried : ifs \in IfsResults(slow)}
<1>1. Ladder(r) = UNION {IF first \/ second THEN {r} ELSE again
                         : first \in IfsResults(r), second \in IfsResults(r)}
  BY DEF Ladder
<1>2. PICK d : d = [r.d EXCEPT !.speedup = FALSE, !.baud = "slow"]
  OBVIOUS
<1>3. /\ d \in Drivers /\ d.powered = r.d.powered /\ d.protocol = r.d.protocol /\ ~d.speedup /\ d.baud = "slow"
  BY <1>2 DEF Activated, Drivers
<1>4. slow = [d |-> d, c |-> r.c, ok |-> r.ok]
  <2>1. PICK s : s = [r EXCEPT !.d.speedup = FALSE, !.d.baud = "slow"]
    OBVIOUS
  <2>2. s = [d |-> d, c |-> r.c, ok |-> r.ok]
    BY <1>2, <2>1 DEF Activated
  <2>3. QED
    BY <2>1, <2>2, Zenon
<1> HIDE DEF slow
<1>5. slow.d = d /\ slow.c = r.c /\ slow.ok = r.ok
  BY <1>4
<1>6. Activated(slow, c)
  BY <1>3, <1>4, <1>5 DEF Activated, Slow
<1>7. \/ q = r \/ q = slow
      \/ \E a \in Activate(PowerOff(slow.d), Unpowered(slow.c), TRUE) : q = [a EXCEPT !.ok = TRUE]
  <2> HIDE DEF again
  <2>1. q = r \/ q \in again
    BY <1>1
  <2>2. q \in again => q = slow \/ q \in retried
    <3> HIDE DEF retried
    <3>1. QED
      BY DEF again
  <2>3. QED
    BY <2>1, <2>2
<1>8. ASSUME NEW a \in Activate(PowerOff(slow.d), Unpowered(slow.c), TRUE), q = [a EXCEPT !.ok = TRUE]
      PROVE  Activated(q, c)
  <2>1. PowerOff(slow.d) \in Drivers
    BY <1>3, <1>5, PowerOffLeaves
  <2>2. Unpowered(slow.c) \in Cards /\ Unpowered(slow.c).proto = c.proto
    BY <1>5, UnpoweredCard DEF Activated
  <2>3. Activated(a, Unpowered(slow.c))
    BY <2>1, <2>2, ActivateLeaves
  <2>4. q = [d |-> a.d, c |-> a.c, ok |-> TRUE]
    BY <1>8, <2>3 DEF Activated
  <2>5. q.d = a.d /\ q.c = a.c /\ q.ok = TRUE
    BY <2>4
  <2>6. QED
    BY <2>2, <2>3, <2>4, <2>5 DEF Activated
<1>9. QED
  BY <1>6, <1>7, <1>8

\* power_on of a card.
LEMMA PowerOnLeaves ==
    ASSUME NEW d \in Drivers, NEW c \in Cards, NEW r \in PowerOn(d, c)
    PROVE  Activated(r, c)
<1>1. c # NoIcc /\ d.suppress \in BOOLEAN
  BY NoIccIsNoCard DEF Drivers
<1>2. PICK a \in Activate(d, c, d.suppress) : r = a \/ r \in Ladder(a)
  BY <1>1 DEF PowerOn
<1>3. Activated(a, c)
  BY <1>1, ActivateLeaves
<1>4. QED
  BY <1>2, <1>3, LadderLeaves

\* After power_on of the card in the slot, or of an empty slot, by a driver
\* that was switched off: the self-healing power cycle.
LEMMA HealingLeaves ==
    ASSUME NEW d \in Drivers, NEW c \in Cards \cup {NoIcc}, NEW r \in PowerOn(PowerOff(d), Unpowered(c))
    PROVE  /\ r.d \in Drivers /\ r.c \in Cards \cup {NoIcc}
           /\ Slow(r.d) /\ (r.c # NoIcc => SlowCard(r.c))
<1>1. PowerOff(d) \in Drivers /\ ~PowerOff(d).speedup /\ PowerOff(d).baud = "slow"
  BY PowerOffLeaves
<1>2. CASE c = NoIcc
  <2>1. Unpowered(c) = NoIcc
    BY <1>2 DEF Unpowered
  <2>2. r = [d |-> PowerOff(d), c |-> NoIcc, ok |-> FALSE]
    BY <2>1 DEF PowerOn
  <2>3. r.d = PowerOff(d) /\ r.c = NoIcc
    BY <2>2
  <2>4. QED
    BY <1>1, <2>3 DEF Slow
<1>3. CASE c \in Cards
  <2>1. Unpowered(c) \in Cards
    BY <1>3, UnpoweredCard
  <2>2. Activated(r, Unpowered(c))
    BY <1>1, <2>1, PowerOnLeaves
  <2>3. QED
    BY <2>2 DEF Activated
<1>4. QED
  BY <1>2, <1>3

\* The commands and events of the driver, one after the other.
LEMMA DriverKeeps == DrvInv /\ DriverNext => DrvInv'
<1> SUFFICES ASSUME DrvInv, DriverNext PROVE DrvInv'
  OBVIOUS
<1> USE DEF DrvInv
<1>0. core.protocol \in {0, 1} /\ core.active \in BOOLEAN
  OBVIOUS
<1>1. CASE IccPowerOn
  <2>1. icc \in Cards
    BY <1>1 DEF IccPowerOn
  <2>2. PICK r \in PowerOn(drv, icc) :
           /\ drv' = r.d /\ icc' = r.c
           /\ core' = IF r.ok THEN [core EXCEPT !.active = TRUE, !.present = TRUE, !.protocol = icc.proto]
                      ELSE [core EXCEPT !.active = FALSE]
    BY <1>1 DEF IccPowerOn
  <2>3. Activated(r, icc)
    BY <2>1, PowerOnLeaves
  <2>4. /\ core' \in [active : BOOLEAN, present : BOOLEAN, protocol : {0, 1}]
        /\ core'.active => core'.protocol = icc.proto
    <3>1. icc.proto \in {0, 1}
      BY <2>1 DEF Cards
    <3>2. CASE r.ok
      BY <2>2, <3>1, <3>2
    <3>3. CASE ~r.ok
      BY <2>2, <3>1, <3>3
    <3>4. QED
      BY <3>2, <3>3
  <2>5. healed' = FALSE /\ ordered' = FALSE
    BY <1>1 DEF IccPowerOn
  <2>6. ProtocolsAgree'
    BY <2>2, <2>3, <2>4 DEF Activated, ProtocolsAgree
  <2>7. QED
    BY <2>2, <2>3, <2>4, <2>5, <2>6 DEF Activated, Slow
<1>2. CASE IccPowerOff
  <2>1. /\ drv' = PowerOff(drv) /\ icc' = Unpowered(icc) /\ healed' = FALSE /\ ordered' = FALSE
        /\ core' = [core EXCEPT !.active = FALSE, !.protocol = 0]
    BY <1>2 DEF IccPowerOff
  <2>2. core' \in [active : BOOLEAN, present : BOOLEAN, protocol : {0, 1}] /\ ~core'.active
    BY <2>1
  <2>3. drv' \in Drivers /\ ~drv'.speedup /\ drv'.baud = "slow"
    BY <2>1, PowerOffLeaves
  <2>4. icc' \in Cards \cup {NoIcc} /\ (icc' # NoIcc => icc'.speed = "slow")
    <3>1. CASE icc = NoIcc
      BY <2>1, <3>1 DEF Unpowered
    <3>2. CASE icc \in Cards
      BY <2>1, <3>2, UnpoweredCard
    <3>3. QED
      BY <3>1, <3>2
  <2>5. QED
    BY <2>1, <2>2, <2>3, <2>4 DEF Slow, SlowCard, ProtocolsAgree
<1>3. CASE Xfr
  <2>1. PICK h : /\ \E r \in Healing(h) : drv' = r.d /\ icc' = r.c
                 /\ healed' = (healed \/ h.fired) /\ ordered' = (ordered /\ ~h.fired)
                 /\ core' = core
    BY <1>3 DEF Xfr
  <2>2. PICK r \in Healing(h) : drv' = r.d /\ icc' = r.c
    BY <2>1
  <2>3. healed' \in BOOLEAN /\ ordered' \in BOOLEAN
    BY <2>1
  <2>4. CASE h.fired
    <3>1. r \in PowerOn(PowerOff(drv), Unpowered(icc))
      BY <2>4 DEF Healing
    <3>2. /\ drv' \in Drivers /\ icc' \in Cards \cup {NoIcc} /\ Slow(drv') /\ (icc' # NoIcc => SlowCard(icc'))
      BY <2>2, <3>1, HealingLeaves
    <3>3. healed'
      BY <2>1, <2>4
    <3>4. ProtocolsAgree'
      BY <3>3 DEF ProtocolsAgree
    <3>5. QED
      BY <2>1, <2>3, <3>2, <3>4 DEF Slow
  <2>5. CASE ~h.fired
    <3>1. r = [d |-> drv, c |-> icc, ok |-> TRUE]
      BY <2>5 DEF Healing
    <3>2. drv' = drv /\ icc' = icc
      BY <2>2, <3>1
    <3>3. (healed' <=> healed) /\ (ordered' <=> ordered)
      BY <2>1, <2>5
    <3>4. ProtocolsAgree'
      BY <2>1, <3>2, <3>3 DEF ProtocolsAgree
    <3>5. QED
      BY <2>1, <2>3, <3>2, <3>3, <3>4
  <2>6. QED
    BY <2>4, <2>5
<1>4. ASSUME NEW protocol \in {0, 1}, NEW line1, line1.gt \in {"host", "zero"},
             ParametersAccepted(protocol, line1)
      PROVE  DrvInv'
  <2>1. PICK d : d = [drv EXCEPT !.protocol = protocol]
    OBVIOUS
  <2>2. d \in Drivers /\ d.protocol = protocol /\ d.speedup = drv.speedup /\ d.baud = drv.baud
    BY <2>1 DEF Drivers
  <2>3. /\ drv' = SetWireTiming(d, line1) /\ core' = [core EXCEPT !.protocol = protocol]
        /\ icc' = icc /\ healed' = healed /\ ordered' = ordered
    BY <1>4, <2>1 DEF ParametersAccepted
  <2>4. /\ drv' \in Drivers /\ drv'.protocol = protocol /\ drv'.speedup = drv.speedup
        /\ ~drv.speedup => drv'.baud = drv.baud
    <3>1. CASE ~Uart
      BY <2>2, <2>3, <3>1 DEF SetWireTiming
    <3>2. CASE Uart /\ drv' = [d EXCEPT !.gt = line1.gt]
      BY <1>4, <2>2, <3>2 DEF Drivers
    <3>3. CASE Uart /\ d.speedup /\ line1.speed = "fast" /\ drv' = [d EXCEPT !.gt = line1.gt, !.baud = "fast"]
      BY <1>4, <2>2, <3>3 DEF Drivers
    <3>4. QED
      <4>1. ASSUME Uart
            PROVE  \/ drv' = [d EXCEPT !.gt = line1.gt]
                   \/ d.speedup /\ line1.speed = "fast" /\ drv' = [d EXCEPT !.gt = line1.gt, !.baud = "fast"]
        <5>1. CASE d.speedup /\ line1.speed = "fast" /\ line1.speed # (IF d.speedup THEN "fast" ELSE "slow")
          BY <5>1
        <5>2. CASE ~(/\ line1.speed # (IF d.speedup THEN "fast" ELSE "slow")
                     /\ d.speedup /\ line1.speed = "fast")
          <6>1. drv' = [d EXCEPT !.gt = line1.gt, !.baud = @]
            BY <2>3, <4>1, <5>2 DEF SetWireTiming
          <6>2. [d EXCEPT !.gt = line1.gt, !.baud = @] = [d EXCEPT !.gt = line1.gt]
            BY <2>2 DEF Drivers
          <6>3. QED
            BY <6>1, <6>2
        <5>3. QED
          BY <5>1, <5>2
      <4>2. QED
        BY <3>1, <3>2, <3>3, <4>1
  <2>5. core' \in [active : BOOLEAN, present : BOOLEAN, protocol : {0, 1}] /\ core'.protocol = protocol
    BY <2>3
  <2>6. QED
    BY <2>3, <2>4, <2>5 DEF Slow, ProtocolsAgree
<1>5. CASE SetParameters
  <2>1. PICK protocol \in {0, 1}, speed \in {"slow", "fast"} :
           ParametersAccepted(protocol, [gt |-> "host", speed |-> speed])
    BY <1>5 DEF SetParameters
  <2>2. [gt |-> "host", speed |-> speed].gt \in {"host", "zero"}
    OBVIOUS
  <2>3. QED
    BY <1>4, <2>1, <2>2
<1>6. CASE ResetParameters
  <2>1. ParametersAccepted(0, [gt |-> "zero", speed |-> "keep"]) /\ [gt |-> "zero", speed |-> "keep"].gt \in {"host", "zero"}
    BY <1>6 DEF ResetParameters
  <2>2. QED
    BY <1>4, <2>1
<1>7. CASE SetDataRate
  <2>1. PICK rate \in {"slow", "other"} :
           /\ drv' = IF Uart THEN [drv EXCEPT !.baud = IF drv.speedup /\ rate = "slow" THEN "fast" ELSE rate]
                     ELSE drv
           /\ ordered' = (ordered \/ rate = "other")
    BY <1>7 DEF SetDataRate
  <2>2. core' = core /\ icc' = icc /\ healed' = healed
    BY <1>7 DEF SetDataRate
  <2>3. /\ drv' \in Drivers /\ drv'.speedup = drv.speedup /\ drv'.protocol = drv.protocol
        /\ drv'.powered = drv.powered
        /\ ~drv.speedup /\ rate = "slow" => drv'.baud \in {drv.baud, "slow"}
    BY <2>1 DEF Drivers
  <2>4. ordered' \in BOOLEAN /\ (~ordered' => ~ordered /\ rate = "slow")
    BY <2>1
  <2>5. QED
    BY <2>2, <2>3, <2>4 DEF Slow, ProtocolsAgree
<1>8. CASE IccClock
  <2>1. PICK enable \in BOOLEAN : drv' = IF Uart THEN [drv EXCEPT !.clock = enable] ELSE drv
    BY <1>8 DEF IccClock
  <2>2. core' = core /\ icc' = icc /\ healed' = healed /\ ordered' = ordered
    BY <1>8 DEF IccClock
  <2>3. /\ drv' \in Drivers /\ drv'.speedup = drv.speedup /\ drv'.protocol = drv.protocol
        /\ drv'.powered = drv.powered /\ drv'.baud = drv.baud
    BY <2>1 DEF Drivers
  <2>4. QED
    BY <2>2, <2>3 DEF Slow, ProtocolsAgree
<1>9. CASE PollPresence
  <2>1. icc' = icc /\ healed' = healed /\ ordered' = ordered
    BY <1>9 DEF PollPresence
  <2>2. core' \in [active : BOOLEAN, present : BOOLEAN, protocol : {0, 1}] /\ ~core'.active
    BY <1>9 DEF PollPresence
  <2>3. drv' = drv \/ drv' = PowerOff(drv)
    BY <1>9 DEF PollPresence
  <2>4. drv' \in Drivers /\ (~NegotiateSpeed => ~drv'.speedup) /\ (~ordered => Slow(drv'))
    BY <2>3, PowerOffLeaves DEF Slow
  <2>5. QED
    BY <2>1, <2>2, <2>4 DEF ProtocolsAgree
<1>10. CASE SwapCard
  <2>1. drv' = drv /\ core' = core /\ healed' = healed /\ ordered' = ordered
    BY <1>10 DEF SwapCard
  <2>2. icc' = NoIcc \/ (icc' \in Cards /\ icc'.speed = "slow")
    <3>1. CASE icc' = NoIcc
      BY <3>1
    <3>2. CASE \E proto \in {0, 1}, ta1 \in BOOLEAN : icc' = Icc(proto, ta1)
      BY <3>2 DEF Icc, Cards
    <3>3. QED
      BY <1>10, <3>1, <3>2 DEF SwapCard
  <2>3. QED
    BY <2>1, <2>2 DEF SlowCard, ProtocolsAgree
<1>11. QED
  BY <1>1, <1>2, <1>3, <1>5, <1>6, <1>7, <1>8, <1>9, <1>10 DEF DriverNext

\* What the drivers keep is what SessionsAgree asks.
LEMMA SessionsFromInv == DrvInv => SessionsAgree
  BY DEF DrvInv, SessionsAgree, SpeedsAgree, Slow, SlowCard

-----------------------------------------------------------------------------
(* Least elements *)

\* The least-number principle, on sets.
LEMMA LeastNumber ==
    ASSUME NEW T, T \subseteq Nat, T # {}
    PROVE  \E x \in T : \A y \in T : x <= y
<1>1. PICK x \in T : \A y \in T : ~(<<y, x>> \in OpToRel(<, Nat))
  BY WFMin, NatLessThanWellFounded, Zenon
<1>2. \A y \in T : <<y, x>> \in Nat \X Nat /\ ~(y < x)
  BY <1>1 DEF OpToRel
<1>3. x \in Nat /\ \A y \in T : y \in Nat
  OBVIOUS
<1>4. \A y \in T : ~(y < x)
  BY <1>2, Zenon
<1>5. QED
  BY <1>3, <1>4

-----------------------------------------------------------------------------
(* The PIN buffer of a Secure command *)

Typable == Digit9 \cup {Zero}
BufferType == [digits : [1..BufferSize -> Typable], len : Nat, max : Nat]

\* The buffer's first len digits are those typed; a wiped one holds none.
PinBufferOk(b, t, w) ==
    /\ b \in BufferType /\ t \in Seq(Typable)
    /\ Len(t) = b.len /\ b.len <= b.max /\ b.max <= BufferSize
    /\ \A i \in 1..b.len : b.digits[i] = t[i]
    /\ w => \A i \in 1..BufferSize : b.digits[i] = Zero

\* A new buffer is empty.
LEMMA BufferNew == ASSUME NEW m \in Nat PROVE PinBufferOk(NewBuffer(m), <<>>, TRUE)
<1>1. BufferSize \in Nat /\ Least(m, BufferSize) \in Nat /\ Least(m, BufferSize) <= BufferSize
  BY SecureAssumption DEF Least
<1>2. PICK z \in [1..BufferSize -> Typable] : z = [i \in 1..BufferSize |-> Zero]
  BY DEF Typable
<1>3. NewBuffer(m) = [digits |-> z, len |-> 0, max |-> Least(m, BufferSize)]
  BY <1>2 DEF NewBuffer
<1>4. <<>> \in Seq(Typable) /\ Len(<<>>) = 0
  BY EmptySeq
<1>5. NewBuffer(m) \in BufferType
  BY <1>1, <1>2, <1>3 DEF BufferType
<1>6. /\ NewBuffer(m).len = 0 /\ NewBuffer(m).max = Least(m, BufferSize)
      /\ \A i \in 1..BufferSize : NewBuffer(m).digits[i] = Zero
  BY <1>2, <1>3
<1>7. QED
  BY <1>1, <1>4, <1>5, <1>6 DEF PinBufferOk

BufferSet(b, h, k) == [b EXCEPT !.digits = h, !.len = k]

\* Other digits and another length.
LEMMA BufferSetIs ==
    ASSUME NEW b \in BufferType, NEW h \in [1..BufferSize -> Typable], NEW k \in Nat
    PROVE  /\ BufferSet(b, h, k) \in BufferType
           /\ BufferSet(b, h, k).digits = h /\ BufferSet(b, h, k).len = k /\ BufferSet(b, h, k).max = b.max
BY DEF BufferSet, BufferType

\* push: the digit after the last.
Pushed(b, d) == [b EXCEPT !.digits = [@ EXCEPT ![b.len + 1] = d], !.len = @ + 1]

\* The buffer still holds the digits typed.
LEMMA BufferPush ==
    ASSUME NEW b, NEW t, NEW w, PinBufferOk(b, t, w), NEW d \in Digit9, b.len < b.max
    PROVE  PinBufferOk(Pushed(b, d), Append(t, d), FALSE)
<1>1. /\ b \in BufferType /\ t \in Seq(Typable) /\ Len(t) = b.len /\ b.max <= BufferSize
      /\ BufferSize \in Nat /\ \A i \in 1..b.len : b.digits[i] = t[i]
  BY SecureAssumption DEF PinBufferOk
<1>2. d \in Typable
  BY DEF Typable
<1>3. /\ Pushed(b, d) \in BufferType /\ Pushed(b, d).digits = [b.digits EXCEPT ![b.len + 1] = d]
      /\ Pushed(b, d).len = b.len + 1 /\ Pushed(b, d).max = b.max
  <2>1. b \in BufferType
    BY <1>1
  <2>2. QED
    <3>1. /\ Pushed(b, d).digits = [b.digits EXCEPT ![b.len + 1] = d]
          /\ Pushed(b, d).len = b.len + 1 /\ Pushed(b, d).max = b.max
      BY <2>1 DEF Pushed, BufferType
    <3>2. PICK h \in [1..BufferSize -> Typable] : h = [b.digits EXCEPT ![b.len + 1] = d]
      BY <1>2, <2>1 DEF BufferType
    <3>3. b.len + 1 \in Nat
      BY <2>1 DEF BufferType
    <3>4. Pushed(b, d) = BufferSet(b, h, b.len + 1)
      BY <3>2, Zenon DEF Pushed, BufferSet
    <3>5. BufferSet(b, h, b.len + 1) \in BufferType
      BY <2>1, <3>3, BufferSetIs
    <3>6. QED
      BY <3>1, <3>4, <3>5
<1>4. PICK n \in Nat, m \in Nat, g \in [1..BufferSize -> Typable] : n = b.len /\ m = b.max /\ g = b.digits
  BY <1>1 DEF BufferType
<1>5. PICK s \in Seq(Typable) :
         s = Append(t, d) /\ Len(s) = n + 1 /\ s[n + 1] = d /\ \A i \in 1..n : s[i] = t[i]
  <2>1. /\ Append(t, d) \in Seq(Typable) /\ Len(Append(t, d)) = Len(t) + 1
        /\ Append(t, d)[Len(t) + 1] = d /\ \A i \in 1..Len(t) : Append(t, d)[i] = t[i]
    BY <1>1, <1>2, AppendProperties
  <2>2. Len(t) = n
    BY <1>1, <1>4
  <2>3. QED
    BY <2>1, <2>2, Zenon
<1>6. n < m /\ m <= BufferSize /\ \A i \in 1..n : g[i] = t[i]
  BY <1>1, <1>4
<1>7. \A i \in 1..(n + 1) : [g EXCEPT ![n + 1] = d][i] = s[i]
  BY <1>1, <1>5, <1>6
<1>8. \A i \in 1..Pushed(b, d).len : Pushed(b, d).digits[i] = s[i]
  BY <1>3, <1>4, <1>7
<1>9. Len(s) = Pushed(b, d).len /\ Pushed(b, d).len <= Pushed(b, d).max /\ Pushed(b, d).max <= BufferSize
  BY <1>3, <1>4, <1>5, <1>6
<1>10. QED
  BY <1>3, <1>5, <1>8, <1>9 DEF PinBufferOk

\* pop: all but the last.
Popped(b) == [b EXCEPT !.len = @ - 1]

\* The buffer still holds the digits left.
LEMMA BufferPop ==
    ASSUME NEW b, NEW t, NEW w, PinBufferOk(b, t, w), b.len > 0
    PROVE  PinBufferOk(Popped(b), Front(t), w)
<1>1. /\ b \in BufferType /\ t \in Seq(Typable) /\ Len(t) = b.len /\ b.len <= b.max /\ b.max <= BufferSize
      /\ \A i \in 1..b.len : b.digits[i] = t[i] /\ t[i] \in Typable
      /\ w => \A i \in 1..BufferSize : b.digits[i] = Zero
  BY ElementOfSeq DEF PinBufferOk
<1>2. PICK n \in Nat, m \in Nat : n = b.len /\ m = b.max
  BY <1>1 DEF BufferType
<1>3. PICK k \in Nat : k + 1 = n /\ n - 1 = k
  <2>1. n - 1 \in Nat /\ (n - 1) + 1 = n
    BY <1>2
  <2>2. QED
    BY <2>1
<1>4. /\ Popped(b) \in BufferType /\ Popped(b).digits = b.digits
      /\ Popped(b).len = k /\ Popped(b).max = m
  <2>1. /\ Popped(b).digits = b.digits /\ Popped(b).len = b.len - 1 /\ Popped(b).max = b.max
        /\ (b.len - 1 \in Nat => Popped(b) \in BufferType)
    BY <1>1 DEF Popped, BufferType
  <2>2. b.len - 1 = k
    BY <1>2, <1>3, Zenon
  <2>3. QED
    BY <1>2, <1>3, <2>1, <2>2
<1>5. Front(t) = SubSeq(t, 1, k)
  <2>1. Len(t) - 1 = k
    BY <1>1, <1>2, <1>3
  <2>2. QED
    BY <2>1 DEF Front
<1>6. \A i \in 1..k : t[i] \in Typable
  BY <1>1, <1>2, <1>3
<1>7. /\ SubSeq(t, 1, k) \in Seq(Typable) /\ Len(SubSeq(t, 1, k)) = IF 1 <= k THEN k - 1 + 1 ELSE 0
      /\ \A i \in 1..(k - 1 + 1) : SubSeq(t, 1, k)[i] = t[1 + i - 1]
  BY <1>6, SubSeqProperties
<1>8. PICK s \in Seq(Typable) : s = Front(t) /\ Len(s) = k /\ \A i \in 1..k : s[i] = t[i]
  <2>1. Len(SubSeq(t, 1, k)) = k
    BY <1>7
  <2>2. ASSUME NEW i \in 1..k PROVE SubSeq(t, 1, k)[i] = t[i]
    BY <1>7
  <2>3. QED
    BY <1>5, <1>7, <2>1, <2>2
<1>9. k <= m /\ m <= BufferSize /\ \A i \in 1..k : b.digits[i] = s[i]
  BY <1>1, <1>2, <1>3, <1>8, SMTT(60)
<1>10. QED
  BY <1>1, <1>4, <1>8, <1>9 DEF PinBufferOk

\* clear and the drop: nothing is left.
LEMMA BufferWiped ==
    ASSUME NEW b, NEW t, NEW w, PinBufferOk(b, t, w)
    PROVE  PinBufferOk(Wiped(b), <<>>, TRUE)
<1>1. b \in BufferType /\ b.max <= BufferSize
  BY DEF PinBufferOk
<1>2. PICK z \in [1..BufferSize -> Typable] : z = [i \in 1..BufferSize |-> Zero]
  BY DEF Typable
<1>3. Wiped(b) = BufferSet(b, z, 0)
  BY <1>2, Zenon DEF Wiped, BufferSet
<1>4. Wiped(b) \in BufferType /\ Wiped(b).digits = z /\ Wiped(b).len = 0 /\ Wiped(b).max = b.max
  BY <1>1, <1>3, BufferSetIs
<1>5. <<>> \in Seq(Typable) /\ Len(<<>>) = 0
  BY EmptySeq
<1>6. b.max \in Nat
  BY <1>1 DEF BufferType
<1>7. QED
  BY <1>1, <1>2, <1>4, <1>5, <1>6 DEF PinBufferOk

\* What a good buffer says.
LEMMA BufferSays == ASSUME PinBufferOk(buf, typed, wiped) PROVE PinIsTyped
<1>1. PICK n \in Nat : n = buf.len
  BY DEF PinBufferOk, BufferType
<1>2. typed \in Seq(Typable) /\ Len(typed) = n /\ \A i \in 1..n : buf.digits[i] = typed[i]
  BY <1>1 DEF PinBufferOk
<1>3. typed = [i \in 1..n |-> typed[i]]
  BY <1>2, LenProperties
<1>4. ToAscii(buf) = [i \in 1..n |-> buf.digits[i]]
  BY <1>1, Zenon DEF ToAscii
<1>5. ToAscii(buf) = typed
  BY <1>2, <1>3, <1>4
<1>6. QED
  BY <1>1, <1>5 DEF PinBufferOk, PinIsTyped

-----------------------------------------------------------------------------
(* The fields of a Secure command *)

\* The names of the fields.
FieldNames ==
    {"timeout", "format", "block", "lenfmt", "max", "min", "validation", "number", "langlo", "langhi",
     "msg1", "msg2", "msg3", "teo", "oldoff", "newoff", "confirm", "cla", "ins", "p1", "p2", "lc"}

\* The field of a block is the field of the host's whole one.
LEMMA CutBlock ==
    ASSUME NEW h \in Seq(FieldNames), NEW n \in 0..Len(h)
    PROVE  /\ SubSeq(h, 1, n) \in Seq(FieldNames) /\ Len(SubSeq(h, 1, n)) = n
           /\ \A i \in 1..n : SubSeq(h, 1, n)[i] = h[i]
<1>1. n \in Nat /\ \A i \in 1..n : h[i] \in FieldNames
  BY ElementOfSeq, LenProperties
<1>2. /\ SubSeq(h, 1, n) \in Seq(FieldNames) /\ Len(SubSeq(h, 1, n)) = IF 1 <= n THEN n - 1 + 1 ELSE 0
      /\ \A i \in 1..(n - 1 + 1) : SubSeq(h, 1, n)[i] = h[1 + i - 1]
  BY <1>1, SubSeqProperties
<1>3. ASSUME NEW i \in 1..n PROVE SubSeq(h, 1, n)[i] = h[i]
  BY <1>1, <1>2
<1>4. QED
  BY <1>1, <1>2, <1>3

\* The tuples the host's blocks are made of.
LEMMA BlockParts ==
    /\ VerifyHead \in Seq(FieldNames) /\ Len(VerifyHead) = 14
    /\ ModifyHead \in Seq(FieldNames) /\ Len(ModifyHead) = 14
    /\ Apdu \in Seq(FieldNames) /\ Len(Apdu) = 5
<1>1. VerifyHead \in Seq(FieldNames) /\ Len(VerifyHead) = 14
  BY DEF VerifyHead, FieldNames
<1>2. ModifyHead \in Seq(FieldNames) /\ Len(ModifyHead) = 14
  BY DEF ModifyHead, FieldNames
<1>3. Apdu \in Seq(FieldNames) /\ Len(Apdu) = 5
  BY DEF Apdu, FieldNames
<1>4. QED
  BY <1>1, <1>2, <1>3

\* One more piece at the end of a block.
LEMMA PieceAdded ==
    ASSUME NEW h \in Seq(FieldNames), NEW q \in Seq(FieldNames)
    PROVE  /\ h \o q \in Seq(FieldNames) /\ Len(h \o q) = Len(h) + Len(q)
           /\ \A i \in 1..Len(h) : (h \o q)[i] = h[i]
           /\ \A i \in 1..Len(q) : (h \o q)[Len(h) + i] = q[i]
<1>1. /\ h \o q \in Seq(FieldNames) /\ Len(h \o q) = Len(h) + Len(q)
      /\ \A i \in 1..(Len(h) + Len(q)) : (h \o q)[i] = IF i <= Len(h) THEN h[i] ELSE q[i - Len(h)]
  BY ConcatProperties
<1>2. Len(h) \in Nat /\ Len(q) \in Nat
  BY LenProperties
<1>3. ASSUME NEW i \in 1..Len(q) PROVE (h \o q)[Len(h) + i] = q[i]
  <2>1. Len(h) + i \in 1..(Len(h) + Len(q)) /\ ~(Len(h) + i <= Len(h)) /\ (Len(h) + i) - Len(h) = i
    BY <1>2
  <2>2. QED
    BY <1>1, <2>1
<1>4. QED
  BY <1>1, <1>2, <1>3

\* Where the fields of a verification are.
LEMMA VerifyPlaces ==
    /\ HostVerify \in Seq(FieldNames) /\ Len(HostVerify) = 19
    /\ \A i \in 1..14 : HostVerify[i] = VerifyHead[i]
    /\ \A i \in 1..5 : HostVerify[14 + i] = Apdu[i]
<1>1. 14 \in Nat /\ 5 \in Nat /\ 14 + 5 = 19
  OBVIOUS
<1>2. /\ HostVerify \in Seq(FieldNames) /\ Len(HostVerify) = 14 + 5
      /\ \A i \in 1..14 : HostVerify[i] = VerifyHead[i]
      /\ \A i \in 1..5 : HostVerify[14 + i] = Apdu[i]
  <2>1. VerifyHead \in Seq(FieldNames) /\ Apdu \in Seq(FieldNames) /\ Len(VerifyHead) = 14 /\ Len(Apdu) = 5
    BY BlockParts
  <2>2. /\ VerifyHead \o Apdu \in Seq(FieldNames)
        /\ Len(VerifyHead \o Apdu) = Len(VerifyHead) + Len(Apdu)
        /\ \A i \in 1..Len(VerifyHead) : (VerifyHead \o Apdu)[i] = VerifyHead[i]
        /\ \A i \in 1..Len(Apdu) : (VerifyHead \o Apdu)[Len(VerifyHead) + i] = Apdu[i]
    BY <2>1, PieceAdded
  <2>3. QED
    BY <2>1, <2>2, Zenon DEF HostVerify
<1>3. QED
  BY <1>1, <1>2, Zenon

\* How many message indices libccid adds to a modification.
Extra(n) == (IF n # 0 THEN 1 ELSE 0) + (IF n >= 3 THEN 1 ELSE 0)

\* Where the fields of a modification are.
LEMMA ModifyPlaces ==
    ASSUME NEW n \in Nat
    PROVE  /\ HostModify(n) \in Seq(FieldNames) /\ Len(HostModify(n)) = 22 + Extra(n)
           /\ \A i \in 1..14 : HostModify(n)[i] = ModifyHead[i]
           /\ n # 0 => HostModify(n)[15] = "msg2"
           /\ n >= 3 => HostModify(n)[16] = "msg3"
           /\ \A i \in 1..3 : HostModify(n)[(14 + Extra(n)) + i] = "teo"
           /\ \A i \in 1..5 : HostModify(n)[(17 + Extra(n)) + i] = Apdu[i]
<1> DEFINE a == IF n # 0 THEN 1 ELSE 0
           b == IF n >= 3 THEN 1 ELSE 0
           q == IF n # 0 THEN <<"msg2">> ELSE <<>>
           r == IF n >= 3 THEN <<"msg3">> ELSE <<>>
           t == <<"teo", "teo", "teo">>
           h1 == ModifyHead \o q
           h2 == h1 \o r
           h3 == h2 \o t
           h4 == h3 \o Apdu
<1>0. <<>> \in Seq(FieldNames) /\ Len(<<>>) = 0
  BY EmptySeq
<1>1. a \in Nat /\ q \in Seq(FieldNames) /\ Len(q) = a /\ (n # 0 => q[1] = "msg2")
  <2>1. CASE n # 0
    BY <2>1 DEF FieldNames
  <2>2. CASE n = 0
    BY <1>0, <2>2
  <2>3. QED
    BY <2>1, <2>2
<1>2. b \in Nat /\ r \in Seq(FieldNames) /\ Len(r) = b /\ (n >= 3 => r[1] = "msg3")
  <2>1. CASE n >= 3
    BY <2>1 DEF FieldNames
  <2>2. CASE ~(n >= 3)
    BY <1>0, <2>2
  <2>3. QED
    BY <2>1, <2>2
<1>3. t \in Seq(FieldNames) /\ Len(t) = 3 /\ \A i \in 1..3 : t[i] = "teo"
  <2>1. t \in Seq(FieldNames)
    BY DEF FieldNames
  <2>2. QED
    BY <2>1
<1>9. /\ Extra(n) = a + b /\ a \in 0..1 /\ b \in 0..1
      /\ n # 0 <=> a = 1
      /\ n >= 3 <=> (a = 1 /\ b = 1)
  BY DEF Extra
<1>8. HostModify(n) = h4
  BY DEF HostModify
<1> HIDE DEF a, b, q, r, t
<1>0a. 14 \in Nat /\ 3 \in Nat /\ 5 \in Nat /\ 14 + a \in Nat /\ (14 + a) + b \in Nat /\ ((14 + a) + b) + 3 \in Nat
  BY <1>1, <1>2
<1>4. /\ h1 \in Seq(FieldNames) /\ Len(h1) = 14 + a
      /\ \A i \in 1..14 : h1[i] = ModifyHead[i]
      /\ \A i \in 1..a : h1[14 + i] = q[i]
  <2>1. ModifyHead \in Seq(FieldNames) /\ q \in Seq(FieldNames) /\ Len(ModifyHead) = 14 /\ Len(q) = a
    BY <1>1, BlockParts
  <2>2. /\ h1 \in Seq(FieldNames) /\ Len(h1) = Len(ModifyHead) + Len(q)
        /\ \A i \in 1..Len(ModifyHead) : h1[i] = ModifyHead[i]
        /\ \A i \in 1..Len(q) : h1[Len(ModifyHead) + i] = q[i]
    BY <2>1, PieceAdded
  <2>3. QED
    BY <2>1, <2>2, Zenon
<1> HIDE DEF h1
<1>5. /\ h2 \in Seq(FieldNames) /\ Len(h2) = (14 + a) + b
      /\ \A i \in 1..(14 + a) : h2[i] = h1[i]
      /\ \A i \in 1..b : h2[(14 + a) + i] = r[i]
  <2>1. h1 \in Seq(FieldNames) /\ r \in Seq(FieldNames) /\ Len(h1) = 14 + a /\ Len(r) = b
    BY <1>2, <1>4
  <2>2. /\ h2 \in Seq(FieldNames) /\ Len(h2) = Len(h1) + Len(r)
        /\ \A i \in 1..Len(h1) : h2[i] = h1[i]
        /\ \A i \in 1..Len(r) : h2[Len(h1) + i] = r[i]
    BY <2>1, PieceAdded
  <2>3. QED
    BY <2>1, <2>2, Zenon
<1> HIDE DEF h2
<1>6. /\ h3 \in Seq(FieldNames) /\ Len(h3) = ((14 + a) + b) + 3
      /\ \A i \in 1..((14 + a) + b) : h3[i] = h2[i]
      /\ \A i \in 1..3 : h3[((14 + a) + b) + i] = t[i]
  <2>1. h2 \in Seq(FieldNames) /\ t \in Seq(FieldNames) /\ Len(h2) = (14 + a) + b /\ Len(t) = 3
    BY <1>3, <1>5
  <2>2. /\ h3 \in Seq(FieldNames) /\ Len(h3) = Len(h2) + Len(t)
        /\ \A i \in 1..Len(h2) : h3[i] = h2[i]
        /\ \A i \in 1..Len(t) : h3[Len(h2) + i] = t[i]
    BY <2>1, PieceAdded
  <2>3. QED
    BY <2>1, <2>2, Zenon
<1> HIDE DEF h3
<1>7. /\ h4 \in Seq(FieldNames) /\ Len(h4) = (((14 + a) + b) + 3) + 5
      /\ \A i \in 1..(((14 + a) + b) + 3) : h4[i] = h3[i]
      /\ \A i \in 1..5 : h4[(((14 + a) + b) + 3) + i] = Apdu[i]
  <2>1. h3 \in Seq(FieldNames) /\ Apdu \in Seq(FieldNames) /\ Len(h3) = ((14 + a) + b) + 3 /\ Len(Apdu) = 5
    BY <1>6, BlockParts
  <2>2. /\ h4 \in Seq(FieldNames) /\ Len(h4) = Len(h3) + Len(Apdu)
        /\ \A i \in 1..Len(h3) : h4[i] = h3[i]
        /\ \A i \in 1..Len(Apdu) : h4[Len(h3) + i] = Apdu[i]
    BY <2>1, PieceAdded
  <2>3. QED
    BY <2>1, <2>2, Zenon
<1> HIDE DEF h4
<1>10. \A i \in 1..14 : h4[i] = ModifyHead[i]
  <2>1. ASSUME NEW i \in 1..14 PROVE h4[i] = h3[i] /\ h3[i] = h2[i] /\ h2[i] = h1[i]
    <3>1. i \in 1..(14 + a) /\ i \in 1..((14 + a) + b) /\ i \in 1..(((14 + a) + b) + 3)
      BY <1>9
    <3>2. QED
      BY <1>5, <1>6, <1>7, <3>1
  <2>2. QED
    BY <1>4, <2>1
<1>11. n # 0 => h4[15] = "msg2"
  <2>1. ASSUME n # 0 PROVE h4[15] = h3[15] /\ h3[15] = h2[15] /\ h2[15] = h1[15] /\ h1[15] = q[1]
    <3>1. 1 \in 1..a /\ 14 + 1 = 15 /\ 15 \in 1..(14 + a) /\ 15 \in 1..((14 + a) + b) /\ 15 \in 1..(((14 + a) + b) + 3)
      BY <1>9, <2>1
    <3>2. h1[14 + 1] = q[1]
      BY <1>4, <3>1, Zenon
    <3>3. QED
      BY <1>5, <1>6, <1>7, <3>1, <3>2
  <2>2. QED
    BY <1>1, <2>1
<1>12. n >= 3 => h4[16] = "msg3"
  <2>1. ASSUME n >= 3 PROVE h4[16] = h3[16] /\ h3[16] = h2[16] /\ h2[16] = r[1]
    <3>1. 1 \in 1..b /\ (14 + a) + 1 = 16 /\ 16 \in 1..((14 + a) + b) /\ 16 \in 1..(((14 + a) + b) + 3)
      BY <1>9, <2>1
    <3>2. h2[(14 + a) + 1] = r[1]
      BY <1>5, <3>1, Zenon
    <3>3. QED
      BY <1>6, <1>7, <3>1, <3>2
  <2>2. QED
    BY <1>2, <2>1
<1>13. ASSUME NEW i \in 1..3 PROVE h4[(14 + Extra(n)) + i] = "teo"
  <2>1. (14 + Extra(n)) + i = ((14 + a) + b) + i /\ ((14 + a) + b) + i \in 1..(((14 + a) + b) + 3)
    BY <1>9
  <2>2. QED
    BY <1>3, <1>6, <1>7, <2>1, SMTT(60)
<1>14. ASSUME NEW i \in 1..5 PROVE h4[(17 + Extra(n)) + i] = Apdu[i]
  <2>1. (17 + Extra(n)) + i = (((14 + a) + b) + 3) + i
    BY <1>9
  <2>2. QED
    BY <1>7, <2>1
<1>15. Len(h4) = 22 + Extra(n)
  BY <1>7, <1>9
<1>16. QED
  BY <1>7, <1>8, <1>10, <1>11, <1>12, <1>13, <1>14, <1>15

-----------------------------------------------------------------------------
(* The Secure command *)

SecHost == IF op = "verify" THEN HostVerify ELSE HostModify(number)

\* The parts of the Secure command together.
SecInv ==
    /\ op \in {"verify", "modify"} /\ number \in Nat
    /\ \E n \in 0..Len(SecHost) : block = SubSeq(SecHost, 1, n)
    /\ PinBufferOk(buf, typed, wiped) /\ FieldsAreHosts

\* Of a verification the parser reads the host's fields.
LEMMA VerifyRead ==
    ASSUME NEW n \in 0..19, Len(block) = n, \A i \in 1..n : block[i] = HostVerify[i]
    PROVE  /\ ParseVerify.v = "some" => \A f \in DOMAIN ParseVerify \ {"v"} : ParseVerify[f] \in {f, Default}
           /\ ParseVerify.v = "none" => ~Contains(block, "p2")
<1>2. CASE n < 18
  <2>1. ParseVerify = [v |-> "none"]
    BY <1>2 DEF ParseVerify
  <2>2. \A i \in 1..14 : HostVerify[i] # "p2"
    BY VerifyPlaces DEF VerifyHead
  <2>3. \A i \in 1..3 : HostVerify[14 + i] # "p2"
    BY VerifyPlaces DEF Apdu
  <2>4. ASSUME NEW i \in 1..n PROVE block[i] # "p2"
    <3>1. CASE i <= 14
      BY <2>2, <3>1, SMTT(60)
    <3>2. CASE i > 14
      <4>1. i - 14 \in 1..3 /\ 14 + (i - 14) = i
        BY <1>2, <3>2
      <4>2. QED
        BY <2>3, <4>1
    <3>3. QED
      BY <3>1, <3>2
  <2>5. ~Contains(block, "p2")
    BY <2>4 DEF Contains
  <2>6. QED
    BY <2>1, <2>5
<1>3. CASE ~(n < 18)
  <2>1. \A i \in 1..14 : block[i] = VerifyHead[i]
    BY <1>3, VerifyPlaces
  <2>2. \A i \in 1..4 : block[14 + i] = Apdu[i]
    BY <1>3, VerifyPlaces
  <2>3. /\ At(0) = "timeout" /\ At(1) = "format" /\ At(2) = "block" /\ At(3) = "lenfmt" /\ At(4) = "max" /\ At(5) = "min"
        /\ At(6) = "validation" /\ At(7) = "number" /\ At(10) = "msg1" /\ At(11) = "teo"
    <3>1. \A i \in 0..13 : At(i) = VerifyHead[i + 1]
      BY <2>1 DEF At
    <3>2. /\ VerifyHead[0 + 1] = "timeout" /\ VerifyHead[1 + 1] = "format" /\ VerifyHead[2 + 1] = "block"
          /\ VerifyHead[3 + 1] = "lenfmt" /\ VerifyHead[4 + 1] = "max" /\ VerifyHead[5 + 1] = "min"
          /\ VerifyHead[6 + 1] = "validation" /\ VerifyHead[7 + 1] = "number" /\ VerifyHead[10 + 1] = "msg1"
          /\ VerifyHead[11 + 1] = "teo"
      BY DEF VerifyHead
    <3>3. QED
      BY <3>1, <3>2
  <2>4. At(14) = "cla" /\ At(15) = "ins" /\ At(16) = "p1" /\ At(17) = "p2"
    <3>1. At(14) = Apdu[1] /\ At(15) = Apdu[2] /\ At(16) = Apdu[3] /\ At(17) = Apdu[4]
      BY <2>2 DEF At
    <3>2. QED
      BY <3>1 DEF Apdu
  <2>5. ParseVerify =
            [v |-> "some", timeout |-> "timeout", format |-> "format", block |-> "block", lenfmt |-> "lenfmt",
             max |-> "max", min |-> "min", validation |-> "validation", number |-> "number", msg1 |-> "msg1",
             teo |-> "teo", cla |-> "cla", ins |-> "ins", p1 |-> "p1", p2 |-> "p2"]
    <3>1. ~(Len(block) < 18)
      BY <1>3
    <3>2. QED
      BY <2>3, <2>4, <3>1, Zenon DEF ParseVerify
  <2>6. /\ ParseVerify.v = "some"
        /\ DOMAIN ParseVerify = {"v", "timeout", "format", "block", "lenfmt", "max", "min", "validation", "number",
                                 "msg1", "teo", "cla", "ins", "p1", "p2"}
    BY <2>5
  <2>7. ASSUME NEW f \in DOMAIN ParseVerify \ {"v"} PROVE ParseVerify[f] = f
    BY <2>5, <2>6
  <2>8. QED
    BY <2>6, <2>7
<1>4. QED
  BY <1>2, <1>3

\* Of a modification too, however many messages it announces.
LEMMA ModifyRead ==
    ASSUME NEW k \in Nat, number = k, NEW n \in 0..(22 + Extra(k)), Len(block) = n,
           \A i \in 1..n : block[i] = HostModify(k)[i]
    PROVE  /\ ParseModify.v = "some" => \A f \in DOMAIN ParseModify \ {"v"} : ParseModify[f] \in {f, Default}
           /\ ParseModify.v = "none" => ~Contains(block, "p2")
<1>1. PICK x \in 0..2 : x = Extra(k) /\ (k # 0 => x >= 1) /\ (k >= 3 => x = 2) /\ (x = 0 <=> k = 0)
  BY DEF Extra
<1>2. PICK m \in {0, 14}, g \in {0, 15} :
         /\ m = 14 <=> k # 0
         /\ g = 15 <=> k >= 3
         /\ ModifyTail(k) = [msg2 |-> m, msg3 |-> g, teo |-> 14 + x, apdu |-> 17 + x]
  <2>1. (14 + (IF k # 0 THEN 1 ELSE 0)) + (IF k >= 3 THEN 1 ELSE 0) = 14 + x
    BY <1>1 DEF Extra
  <2>2. (14 + x) + 3 = 17 + x
    BY <1>1
  <2>3. ModifyTail(k) = [msg2 |-> IF k # 0 THEN 14 ELSE 0, msg3 |-> IF k >= 3 THEN 15 ELSE 0, teo |-> 14 + x, apdu |-> 17 + x]
    <3>1. PICK e : e = (14 + (IF k # 0 THEN 1 ELSE 0)) + (IF k >= 3 THEN 1 ELSE 0)
      OBVIOUS
    <3>2. ModifyTail(k) = [msg2 |-> IF k # 0 THEN 14 ELSE 0, msg3 |-> IF k >= 3 THEN 15 ELSE 0, teo |-> e, apdu |-> e + 3]
      BY <3>1, Zenon DEF ModifyTail
    <3>3. e = 14 + x /\ e + 3 = 17 + x
      BY <2>1, <2>2, <3>1
    <3>4. QED
      BY <3>2, <3>3, Zenon
  <2>4. CASE k = 0
    BY <2>3, <2>4
  <2>5. CASE k # 0 /\ ~(k >= 3)
    BY <2>3, <2>5
  <2>6. CASE k >= 3
    BY <2>3, <2>6
  <2>7. QED
    BY <2>4, <2>5, <2>6
<1>3. /\ \A i \in 1..14 : HostModify(k)[i] = ModifyHead[i]
      /\ k # 0 => HostModify(k)[15] = "msg2"
      /\ k >= 3 => HostModify(k)[16] = "msg3"
      /\ \A i \in 1..3 : HostModify(k)[(14 + x) + i] = "teo"
      /\ \A i \in 1..5 : HostModify(k)[(17 + x) + i] = Apdu[i]
  BY <1>1, ModifyPlaces
<1>4. n \in Nat /\ n <= 22 + x
  BY <1>1
<1>5. CASE n < 21 + x
  <2>1. \A i \in 1..14 : HostModify(k)[i] # "p2"
    <3>1. \A i \in 1..14 : ModifyHead[i] # "p2"
      BY DEF ModifyHead
    <3>2. QED
      BY <1>3, <3>1
  <2>2. \A i \in 1..3 : HostModify(k)[(17 + x) + i] # "p2"
    BY <1>3, SMTT(60) DEF Apdu
  <2>3. ASSUME NEW i \in 1..n PROVE HostModify(k)[i] # "p2"
    <3>1. CASE i <= 14
      BY <2>1, <3>1
    <3>2. CASE i = 15 /\ i <= 14 + x
      <4>1. k # 0
        BY <1>1, <3>2
      <4>2. QED
        BY <1>3, <3>2, <4>1
    <3>3. CASE i = 16 /\ i <= 14 + x
      <4>1. k >= 3
        BY <1>1, <3>3 DEF Extra
      <4>2. QED
        BY <1>3, <3>3, <4>1
    <3>4. CASE i > 14 + x /\ i <= 17 + x
      <4>1. i - (14 + x) \in 1..3 /\ (14 + x) + (i - (14 + x)) = i
        BY <1>1, <3>4
      <4>2. QED
        BY <1>3, <4>1
    <3>5. CASE i > 17 + x
      <4>1. i - (17 + x) \in 1..3 /\ (17 + x) + (i - (17 + x)) = i
        BY <1>1, <1>4, <1>5, <3>5
      <4>2. QED
        BY <2>2, <4>1
    <3>6. QED
      BY <1>1, <3>1, <3>2, <3>3, <3>4, <3>5
  <2>4. ~Contains(block, "p2")
    BY <2>3 DEF Contains
  <2>5. Len(block) < ModifyTail(number).apdu + 4
    BY <1>2, <1>5
  <2>6. ParseModify.v # "some"
    BY <2>5 DEF ParseModify
  <2>7. QED
    BY <2>4, <2>6
<1>6. CASE ~(n < 21 + x)
  <2>1. \A i \in 1..(21 + x) : block[i] = HostModify(k)[i]
    BY <1>1, <1>4, <1>6
  <2>2. \A i \in 0..13 : At(i) = ModifyHead[i + 1]
    <3>1. ASSUME NEW i \in 0..13 PROVE At(i) = ModifyHead[i + 1]
      <4>1. i + 1 \in 1..14 /\ i + 1 \in 1..(21 + x)
        BY <1>1
      <4>2. QED
        BY <1>3, <2>1, <4>1 DEF At
    <3>2. QED
      BY <3>1
  <2>3. /\ At(0) = "timeout" /\ At(1) = "format" /\ At(4) = "oldoff" /\ At(5) = "newoff"
        /\ At(6) = "max" /\ At(7) = "min" /\ At(9) = "validation" /\ At(13) = "msg1"
    <3>1. /\ ModifyHead[0 + 1] = "timeout" /\ ModifyHead[1 + 1] = "format" /\ ModifyHead[4 + 1] = "oldoff"
          /\ ModifyHead[5 + 1] = "newoff" /\ ModifyHead[6 + 1] = "max" /\ ModifyHead[7 + 1] = "min"
          /\ ModifyHead[9 + 1] = "validation" /\ ModifyHead[13 + 1] = "msg1"
      BY DEF ModifyHead
    <3>2. QED
      BY <2>2, <3>1
  <2>4. At(14) = HostModify(k)[15] /\ At(15) = HostModify(k)[16]
    <3>1. 14 + 1 = 15 /\ 15 + 1 = 16 /\ 15 \in 1..(21 + x) /\ 16 \in 1..(21 + x)
      BY <1>1
    <3>2. QED
      BY <2>1, <3>1, Zenon DEF At
  <2>5. (k # 0 => At(14) = "msg2") /\ (k >= 3 => At(15) = "msg3")
    BY <1>3, <2>4, Zenon
  <2>6. At(17 + x) = "cla" /\ At((17 + x) + 1) = "ins" /\ At((17 + x) + 2) = "p1" /\ At((17 + x) + 3) = "p2"
    <3>1. ASSUME NEW i \in 1..4 PROVE block[(17 + x) + i] = Apdu[i]
      <4>1. (17 + x) + i \in 1..(21 + x)
        BY <1>1
      <4>2. QED
        <5>1. i \in 1..5
          OBVIOUS
        <5>2. HostModify(k)[(17 + x) + i] = Apdu[i]
          BY <1>3, <5>1, Zenon
        <5>3. block[(17 + x) + i] = HostModify(k)[(17 + x) + i]
          BY <2>1, <4>1, Zenon
        <5>4. QED
          BY <5>2, <5>3, Zenon
    <3>2. /\ At(17 + x) = Apdu[1] /\ At((17 + x) + 1) = Apdu[2]
          /\ At((17 + x) + 2) = Apdu[3] /\ At((17 + x) + 3) = Apdu[4]
      <4>1. /\ block[(17 + x) + 1] = Apdu[1] /\ block[(17 + x) + 2] = Apdu[2]
            /\ block[(17 + x) + 3] = Apdu[3] /\ block[(17 + x) + 4] = Apdu[4]
        <5>1. 1 \in 1..4 /\ 2 \in 1..4 /\ 3 \in 1..4 /\ 4 \in 1..4
          OBVIOUS
        <5>2. QED
          BY <3>1, <5>1, Zenon
      <4>2. ((17 + x) + 1) + 1 = (17 + x) + 2 /\ ((17 + x) + 2) + 1 = (17 + x) + 3 /\ ((17 + x) + 3) + 1 = (17 + x) + 4
        BY <1>1
      <4>3. QED
        BY <4>1, <4>2, Zenon DEF At
    <3>3. QED
      BY <3>2 DEF Apdu
  <2>7. ~(Len(block) < 11) /\ ~(Len(block) < 14) /\ ~(Len(block) < (17 + x) + 4)
    BY <1>1, <1>4, <1>6
  <2>8. PICK y \in {Default, "msg2"}, z \in {Default, "msg3"} :
           /\ y = (IF m = 0 THEN Default ELSE At(m)) /\ z = (IF g = 0 THEN Default ELSE At(g))
    BY <1>2, <2>5
  <2>9. ParseModify =
            [v |-> "some", timeout |-> "timeout", format |-> "format", oldoff |-> "oldoff", newoff |-> "newoff",
             max |-> "max", min |-> "min", validation |-> "validation", msg1 |-> "msg1", msg2 |-> y, msg3 |-> z,
             cla |-> "cla", ins |-> "ins", p1 |-> "p1", p2 |-> "p2"]
    <3>1. /\ ModifyTail(number).msg2 = m /\ ModifyTail(number).msg3 = g /\ ModifyTail(number).apdu = 17 + x
      BY <1>2
    <3>2. QED
      BY <2>3, <2>6, <2>7, <2>8, <3>1, ZenonT(60) DEF ParseModify
  <2>10. /\ ParseModify.v = "some"
         /\ DOMAIN ParseModify = {"v", "timeout", "format", "oldoff", "newoff", "max", "min", "validation",
                                  "msg1", "msg2", "msg3", "cla", "ins", "p1", "p2"}
    BY <2>9
  <2>11. ASSUME NEW f \in DOMAIN ParseModify \ {"v"} PROVE ParseModify[f] \in {f, Default}
    BY <2>8, <2>9, <2>10
  <2>12. QED
    BY <2>10, <2>11
<1>7. QED
  BY <1>5, <1>6

\* The block keeps what the host sent, the parser reads its fields.
LEMMA SecureParsed == ASSUME SecInv, HandleSecure PROVE FieldsAreHosts'
<1>1. PICK n \in 0..Len(SecHost) : block = SubSeq(SecHost, 1, n)
  BY DEF SecInv
<1>2. fields' = (IF op = "verify" THEN ParseVerify ELSE ParseModify) /\ verdict1' = fields'.v /\ block' = block
  BY DEF HandleSecure
<1>3. CASE op = "verify"
  <2>1. SecHost = HostVerify /\ HostVerify \in Seq(FieldNames) /\ Len(HostVerify) = 19
    BY <1>3, VerifyPlaces DEF SecHost
  <2>2. n \in 0..19 /\ Len(block) = n /\ \A i \in 1..n : block[i] = HostVerify[i]
    BY <1>1, <2>1, CutBlock
  <2>3. /\ ParseVerify.v = "some" => \A f \in DOMAIN ParseVerify \ {"v"} : ParseVerify[f] \in {f, Default}
        /\ ParseVerify.v = "none" => ~Contains(block, "p2")
    BY <2>2, VerifyRead
  <2>4. fields' = ParseVerify
    BY <1>2, <1>3
  <2>5. QED
    BY <1>2, <2>3, <2>4, Zenon DEF FieldsAreHosts
<1>4. CASE op # "verify"
  <2>1. PICK k \in Nat : k = number
    BY DEF SecInv
  <2>2. SecHost = HostModify(k) /\ HostModify(k) \in Seq(FieldNames) /\ Len(HostModify(k)) = 22 + Extra(k)
    BY <1>4, <2>1, ModifyPlaces DEF SecHost
  <2>3. n \in 0..(22 + Extra(k)) /\ Len(block) = n /\ \A i \in 1..n : block[i] = HostModify(k)[i]
    <3>1. n \in 0..Len(HostModify(k)) /\ block = SubSeq(HostModify(k), 1, n)
      BY <1>1, <2>2, Zenon
    <3>2. Len(SubSeq(HostModify(k), 1, n)) = n /\ \A i \in 1..n : SubSeq(HostModify(k), 1, n)[i] = HostModify(k)[i]
      BY <2>2, <3>1, CutBlock
    <3>3. QED
      BY <2>2, <3>1, <3>2, Zenon
  <2>4. /\ ParseModify.v = "some" => \A f \in DOMAIN ParseModify \ {"v"} : ParseModify[f] \in {f, Default}
        /\ ParseModify.v = "none" => ~Contains(block, "p2")
    BY <2>1, <2>3, ModifyRead
  <2>5. fields' = ParseModify
    BY <1>2, <1>4
  <2>6. QED
    BY <1>2, <2>4, <2>5, Zenon DEF FieldsAreHosts
<1>5. QED
  BY <1>3, <1>4

\* A Secure command starts in its invariant.
LEMMA SecInitial == SecInit => SecInv
<1> SUFFICES ASSUME SecInit PROVE SecInv
  OBVIOUS
<1>1. op \in {"verify", "modify"} /\ number \in Nat /\ \E n \in 0..Len(SecHost) : block = SubSeq(SecHost, 1, n)
  BY SecureAssumption DEF SecInit, SecHost
<1>2. PICK m \in Nat : buf = NewBuffer(m) /\ typed = <<>> /\ wiped = TRUE
  BY SecureAssumption DEF SecInit
<1>3. PinBufferOk(buf, typed, wiped)
  BY <1>2, BufferNew
<1>4. FieldsAreHosts
  BY DEF SecInit, FieldsAreHosts
<1>5. QED
  BY <1>1, <1>3, <1>4 DEF SecInv

\* Every step of it keeps the invariant.
LEMMA SecStepSound == SecInv /\ [SecNext]_secVars => SecInv'
<1> SUFFICES ASSUME SecInv, [SecNext]_secVars PROVE SecInv'
  OBVIOUS
<1>0. PinBufferOk(buf, typed, wiped) /\ FieldsAreHosts
  BY DEF SecInv
<1>1. ASSUME UNCHANGED <<op, number, block>>, PinBufferOk(buf', typed', wiped'), FieldsAreHosts' PROVE SecInv'
  BY <1>1 DEF SecInv, SecHost
<1>2. ASSUME UNCHANGED <<fields, verdict1, block>> PROVE FieldsAreHosts'
  BY <1>0, <1>2 DEF FieldsAreHosts
<1>3. CASE HandleSecure
  BY <1>0, <1>1, <1>3, SecureParsed DEF HandleSecure
<1>4. ASSUME NEW d \in Digit9, Push(d) PROVE SecInv'
  <2>1. buf' = Pushed(buf, d) /\ typed' = Append(typed, d) /\ wiped' = FALSE /\ buf.len < buf.max
    BY <1>4 DEF Push, Pushed
  <2>2. PinBufferOk(buf', typed', wiped')
    BY <1>0, <2>1, BufferPush
  <2>3. QED
    BY <1>1, <1>2, <1>4, <2>2 DEF Push
<1>5. CASE Pop
  <2>1. buf' = Popped(buf) /\ typed' = Front(typed) /\ wiped' = wiped /\ buf.len > 0
    BY <1>5 DEF Pop, Popped
  <2>2. PinBufferOk(buf', typed', wiped')
    BY <1>0, <2>1, BufferPop
  <2>3. QED
    BY <1>1, <1>2, <1>5, <2>2 DEF Pop
<1>6. CASE Clear
  <2>1. buf' = Wiped(buf) /\ typed' = <<>> /\ wiped' = TRUE
    BY <1>6 DEF Clear
  <2>2. PinBufferOk(buf', typed', wiped')
    BY <1>0, <2>1, BufferWiped
  <2>3. QED
    BY <1>1, <1>2, <1>6, <2>2 DEF Clear
<1>7. CASE UNCHANGED secVars
  BY <1>0, <1>1, <1>2, <1>7 DEF secVars
<1>8. QED
  BY <1>3, <1>4, <1>5, <1>6, <1>7 DEF SecNext

-----------------------------------------------------------------------------
(* A character on the bit-banged line *)

\* Bits of a byte: the set of those that are 1.
LEMMA OnesCounted ==
    ASSUME NEW b \in Byte
    PROVE  IsFiniteSet({i \in 1..CharBits : b[i] = 1}) /\ Ones(b) \in Nat
<1>1. IsFiniteSet(1..CharBits)
  BY FS_Interval, BitBangAssumption
<1>2. IsFiniteSet({i \in 1..CharBits : b[i] = 1})
  BY <1>1, FS_Subset
<1>3. QED
  BY <1>2, FS_CardinalityType DEF Ones

\* The levels of a character: start bit, data bits, parity.
LEMMA FrameLevels ==
    ASSUME NEW b \in Byte
    PROVE  /\ SendByte(b) \in Seq(Bit) /\ Len(SendByte(b)) = CharBits + 2
           /\ \A i \in 1..CharBits : SendByte(b)[i + 1] = b[i]
           /\ SendByte(b)[CharBits + 2] = Ones(b) % 2
<1>1. PICK n \in Nat : n = CharBits
  BY BitBangAssumption
<1>2. PICK x \in Bit : x = Ones(b) % 2
  <2>1. PICK y \in Nat : y = Ones(b)
    BY OnesCounted
  <2>2. y % 2 \in Bit
    BY DEF Bit
  <2>3. QED
    BY <2>1, <2>2
<1>3. b \in Seq(Bit) /\ Len(b) = n
  <2>1. b \in [1..n -> Bit]
    BY <1>1 DEF Byte
  <2>2. b \in Seq(Bit)
    BY <2>1, SeqDef
  <2>3. Len(b) \in Nat /\ 1..Len(b) = 1..n
    BY <2>1, <2>2, LenProperties
  <2>4. QED
    BY <2>2, <2>3
<1>4. <<0>> \in Seq(Bit) /\ Len(<<0>>) = 1 /\ <<x>> \in Seq(Bit) /\ Len(<<x>>) = 1 /\ <<x>>[1] = x
  BY <1>2 DEF Bit
<1>5. /\ <<0>> \o b \in Seq(Bit) /\ Len(<<0>> \o b) = Len(<<0>>) + Len(b)
      /\ \A i \in 1..(Len(<<0>>) + Len(b)) :
             (<<0>> \o b)[i] = IF i <= Len(<<0>>) THEN <<0>>[i] ELSE b[i - Len(<<0>>)]
  BY <1>3, <1>4, ConcatProperties
<1>6. PICK h \in Seq(Bit) : /\ h = <<0>> \o b /\ Len(h) = 1 + n
                            /\ \A i \in 1..(1 + n) : h[i] = IF i <= 1 THEN <<0>>[i] ELSE b[i - 1]
  BY <1>3, <1>4, <1>5, Zenon
<1>7. /\ h \o <<x>> \in Seq(Bit) /\ Len(h \o <<x>>) = Len(h) + Len(<<x>>)
      /\ \A i \in 1..(Len(h) + Len(<<x>>)) :
             (h \o <<x>>)[i] = IF i <= Len(h) THEN h[i] ELSE <<x>>[i - Len(h)]
  BY <1>4, <1>6, ConcatProperties
<1>8. PICK f \in Seq(Bit) : /\ f = h \o <<x>> /\ Len(f) = (1 + n) + 1
                            /\ \A i \in 1..((1 + n) + 1) : f[i] = IF i <= 1 + n THEN h[i] ELSE <<x>>[i - (1 + n)]
  BY <1>4, <1>6, <1>7, ZenonT(60)
<1>9. SendByte(b) = f
  BY <1>2, <1>6, <1>8, Zenon DEF SendByte
<1>10. ASSUME NEW i \in 1..n PROVE f[i + 1] = b[i]
  <2>1. i + 1 \in 1..((1 + n) + 1) /\ i + 1 <= 1 + n /\ i + 1 \in 1..(1 + n) /\ ~(i + 1 <= 1) /\ (i + 1) - 1 = i
    BY <1>1
  <2>2. f[i + 1] = h[i + 1] /\ h[i + 1] = b[(i + 1) - 1]
    BY <1>6, <1>8, <2>1, Zenon
  <2>3. QED
    BY <2>1, <2>2
<1>11. f[n + 2] = x
  <2>1. n + 2 \in 1..((1 + n) + 1) /\ ~(n + 2 <= 1 + n) /\ (n + 2) - (1 + n) = 1
    BY <1>1
  <2>2. f[n + 2] = <<x>>[(n + 2) - (1 + n)]
    BY <1>8, <2>1, Zenon
  <2>3. QED
    BY <1>4, <2>1, <2>2
<1>12. Len(f) = n + 2
  BY <1>1, <1>8
<1>13. QED
  BY <1>1, <1>2, <1>8, <1>9, <1>10, <1>11, <1>12, Zenon

\* The middle of bit i, counted from a poll that saw the edge in time, is in bit i.
LEMMA MiddleOfBit ==
    ASSUME NEW d \in Late, NEW i \in 1..(CharBits + 1)
    PROVE  (d + Etu + (Etu \div 2) + Etu * (i - 1)) \div Etu = i
<1>1. PICK e \in Nat \ {0}, h \in Nat, c \in Nat : e = Etu /\ h = Etu \div 2 /\ c = d /\ c + h < e
  BY BitBangAssumption
<1>2. i \in Nat \ {0}
  BY BitBangAssumption
<1>3. e * (i - 1) + e = e * i
  BY <1>1, <1>2
<1>4. PICK k \in Nat : k = e * i
  BY <1>1, <1>2
<1>5. c + e + h + e * (i - 1) = e * i + (c + h)
  <2>1. PICK y \in Int : y = e * (i - 1)
    BY <1>1, <1>2
  <2>2. y + e = k
    BY <1>3, <1>4, <2>1
  <2>3. c + e + h + y = k + (c + h)
    BY <1>1, <1>4, <2>1, <2>2
  <2>4. QED
    BY <1>4, <2>1, <2>3
<1>6. (e * i + (c + h)) \div e = i
  <2>1. c + h \in Nat
    BY <1>1
  <2>2. QED
    BY <1>1, <1>2, <2>1
<1>7. QED
  BY <1>1, <1>5, <1>6, Zenon

\* So the receiver samples each bit.
LEMMA SamplesAreBits ==
    ASSUME NEW f \in Seq(Bit), Len(f) = CharBits + 2, NEW d \in Late
    PROVE  Samples(f, d) = [i \in 1..(CharBits + 1) |-> f[i + 1]]
<1>1. ASSUME NEW i \in 1..(CharBits + 1)
      PROVE  LevelAt(f, d + Etu + (Etu \div 2) + Etu * (i - 1)) = f[i + 1]
  <2>1. i < Len(f)
    BY BitBangAssumption
  <2>2. QED
    BY <2>1, MiddleOfBit, Zenon DEF LevelAt
<1>2. QED
  BY <1>1, Zenon DEF Samples

\* One bit turned over changes the parity.
LEMMA ParityTurns ==
    ASSUME NEW b \in Byte, NEW c \in Byte, NEW k \in 1..CharBits,
           c[k] = 1 - b[k], \A i \in 1..CharBits : i # k => c[i] = b[i]
    PROVE  (Ones(c) + (Ones(b) % 2)) % 2 = 1
<1> DEFINE B == {i \in 1..CharBits : b[i] = 1}
           C == {i \in 1..CharBits : c[i] = 1}
<1>1. IsFiniteSet(B) /\ IsFiniteSet(C) /\ Ones(b) = Cardinality(B) /\ Ones(c) = Cardinality(C)
  BY OnesCounted DEF Ones
<1>2. PICK x \in Nat, y \in Nat : x = Ones(b) /\ y = Ones(c)
  BY OnesCounted
<1>3. \A i \in 1..CharBits : b[i] \in {0, 1} /\ c[i] \in {0, 1}
  BY DEF Byte, Bit
<1>4. CASE b[k] = 1
  <2>1. k \in B /\ C = B \ {k}
    BY <1>3, <1>4
  <2>2. Cardinality(C) = Cardinality(B) - 1
    BY <1>1, <2>1, FS_RemoveElement, SMTT(60)
  <2>3. y = x - 1
    BY <1>1, <1>2, <2>2, Zenon
  <2>4. QED
    BY <1>2, <2>3
<1>5. CASE b[k] = 0
  <2>1. k \notin B /\ C = B \cup {k}
    BY <1>3, <1>5
  <2>2. Cardinality(C) = Cardinality(B) + 1
    BY <1>1, <2>1, FS_AddElement
  <2>3. y = x + 1
    BY <1>1, <1>2, <2>2, Zenon
  <2>4. QED
    BY <1>2, <2>3
<1>6. QED
  BY <1>3, <1>4, <1>5

\* A character read without a parity error is the one sent, although a bit may
\* have been turned over on the way.
LEMMA ReceivedTrue ==
    ASSUME NEW b \in Byte, NEW k \in 0..(CharBits + 1), NEW d \in Late,
           Received(Noisy(SendByte(b), k), d).ok
    PROVE  Received(Noisy(SendByte(b), k), d).byte = b
<1> DEFINE f == SendByte(b)
           g == Noisy(f, k)
<1>1. PICK n \in Nat \ {0} : n = CharBits
  BY BitBangAssumption
<1>2. /\ f \in Seq(Bit) /\ Len(f) = n + 2 /\ f[n + 2] = Ones(b) % 2
      /\ \A i \in 1..n : f[i + 1] = b[i]
  BY <1>1, FrameLevels
<1>3. b \in [1..n -> Bit]
  BY <1>1 DEF Byte
<1>4. /\ g \in Seq(Bit) /\ Len(g) = n + 2
      /\ \A j \in 1..(n + 2) : g[j] = IF k # 0 /\ j = k + 1 THEN 1 - f[j] ELSE f[j]
  <2>1. CASE k = 0
    BY <1>2, <2>1 DEF Noisy
  <2>2. CASE k # 0
    <3>1. k + 1 \in 1..Len(f)
      BY <1>1, <1>2, <2>2
    <3>2. PICK x \in Bit : x = 1 - f[k + 1]
      <4>1. f[k + 1] \in Bit
        BY <1>2, <3>1, ElementOfSeq
      <4>2. QED
        BY <4>1 DEF Bit
    <3>3. g = [f EXCEPT ![k + 1] = x]
      BY <2>2, <3>2, Zenon DEF Noisy
    <3>4. /\ [f EXCEPT ![k + 1] = x] \in Seq(Bit) /\ Len([f EXCEPT ![k + 1] = x]) = Len(f)
          /\ \A j \in 1..Len(f) : [f EXCEPT ![k + 1] = x][j] = IF j = k + 1 THEN x ELSE f[j]
      BY <1>2, <3>1, ExceptSeq
    <3>5. g \in Seq(Bit) /\ Len(g) = n + 2 /\ \A j \in 1..(n + 2) : g[j] = IF j = k + 1 THEN x ELSE f[j]
      BY <1>2, <3>3, <3>4, Zenon
    <3>6. ASSUME NEW j \in 1..(n + 2) PROVE g[j] = IF k # 0 /\ j = k + 1 THEN 1 - f[j] ELSE f[j]
      BY <2>2, <3>2, <3>5
    <3>7. QED
      BY <3>5, <3>6, Zenon
  <2>3. QED
    BY <2>1, <2>2
<1> DEFINE s == Samples(g, d)
           c == [i \in 1..CharBits |-> s[i]]
<1>5. s = [i \in 1..(n + 1) |-> g[i + 1]]
  BY <1>1, <1>4, SamplesAreBits, Zenon
<1>6. /\ Received(g, d).byte = c
      /\ Received(g, d).ok => (Ones(c) + s[CharBits + 1]) % 2 = 0
  BY DEF Received
<1> HIDE DEF f, g, s, c
<1>7. \A i \in 1..(n + 1) : s[i] = g[i + 1]
  BY <1>5
<1>8. c = [i \in 1..n |-> g[i + 1]]
  BY <1>1, <1>7 DEF c
<1>9. s[n + 1] = g[n + 2]
  <2>1. n + 1 \in 1..(n + 1) /\ (n + 1) + 1 = n + 2
    BY <1>1
  <2>2. QED
    BY <1>7, <2>1, Zenon
<1>10. c \in Byte
  <2>1. ASSUME NEW i \in 1..n PROVE g[i + 1] \in Bit
    <3>1. i + 1 \in 1..Len(g)
      BY <1>1, <1>4
    <3>2. QED
      BY <1>4, <3>1, ElementOfSeq
  <2>2. QED
    BY <1>1, <1>8, <2>1 DEF Byte
<1>11. CASE k = 0
  <2>1. \A i \in 1..n : g[i + 1] = b[i]
    BY <1>1, <1>2, <1>4, <1>11
  <2>2. c = b
    BY <1>3, <1>8, <2>1
  <2>3. QED
    BY <1>6, <2>2 DEF f, g
<1>12. CASE k = n + 1
  <2>1. \A i \in 1..n : g[i + 1] = b[i]
    BY <1>1, <1>2, <1>4, <1>12
  <2>2. c = b
    BY <1>3, <1>8, <2>1
  <2>3. QED
    BY <1>6, <2>2 DEF f, g
<1>13. CASE k \in 1..n
  <2>1. c[k] = 1 - b[k] /\ \A i \in 1..n : i # k => c[i] = b[i]
    <3>1. ASSUME NEW i \in 1..n PROVE c[i] = IF i = k THEN 1 - b[i] ELSE b[i]
      <4>1. i + 1 \in 1..(n + 2) /\ (i + 1 = k + 1 <=> i = k) /\ k # 0
        BY <1>1, <1>13
      <4>2. g[i + 1] = IF i = k THEN 1 - f[i + 1] ELSE f[i + 1]
        BY <1>4, <4>1
      <4>3. QED
        BY <1>2, <1>8, <4>2
    <3>2. QED
      BY <1>13, <3>1
  <2>2. s[n + 1] = Ones(b) % 2
    <3>1. n + 2 \in 1..(n + 2) /\ n + 2 # k + 1
      BY <1>1, <1>13
    <3>2. QED
      BY <1>2, <1>4, <1>9, <3>1, Zenon
  <2>3. (Ones(c) + (Ones(b) % 2)) % 2 = 1
    BY <1>1, <1>10, <1>13, <2>1, ParityTurns
  <2>4. (Ones(c) + s[CharBits + 1]) % 2 = 1
    <3>1. s[CharBits + 1] = Ones(b) % 2
      BY <1>1, <2>2, Zenon
    <3>2. QED
      BY <2>3, <3>1, Zenon
  <2>5. Received(g, d).ok
    BY DEF f, g
  <2>6. QED
    BY <1>6, <2>4, <2>5
<1>14. QED
  BY <1>1, <1>11, <1>12, <1>13

-----------------------------------------------------------------------------
(* The answer collected from the bit-banged line *)

Items == Chars \cup PauseItems

\* What an item of the card's answer is.
LEMMA ItemIs ==
    ASSUME NEW x \in Items
    PROVE  /\ IsPause(x) => x.ms \in Nat
           /\ ~IsPause(x) => x.byte \in Byte /\ x.flip \in 0..(CharBits + 1)
BY BitBangAssumption DEF Items, Chars, PauseItems, IsPause

\* Counting what is heard.
LEMMA HeardCount ==
    ASSUME NEW i \in Nat
    PROVE  /\ HeardUpTo(0) = 0 /\ HeardUpTo(i) \in Nat
           /\ HeardUpTo(i + 1) = IF Heard(i + 1) THEN HeardUpTo(i) + 1 ELSE HeardUpTo(i)
<1> DEFINE H(k) == {j \in 1..k : Heard(j)}
<1>1. ASSUME NEW k \in Nat PROVE IsFiniteSet(H(k)) /\ HeardUpTo(k) = Cardinality(H(k)) /\ Cardinality(H(k)) \in Nat
  <2>1. IsFiniteSet(1..k)
    BY FS_Interval
  <2>2. IsFiniteSet(H(k))
    BY <2>1, FS_Subset
  <2>3. QED
    BY <2>2, FS_CardinalityType DEF HeardUpTo
<1>2. HeardUpTo(0) = 0
  <2>1. H(0) = {}
    OBVIOUS
  <2>2. QED
    BY <1>1, <2>1, FS_EmptySet
<1>3. CASE Heard(i + 1)
  <2>1. H(i + 1) = H(i) \cup {i + 1} /\ i + 1 \notin H(i)
    BY <1>3
  <2>2. Cardinality(H(i + 1)) = Cardinality(H(i)) + 1
    BY <1>1, <2>1, FS_AddElement
  <2>3. QED
    BY <1>1, <1>2, <1>3, <2>2
<1>4. CASE ~Heard(i + 1)
  <2>1. H(i + 1) = H(i)
    BY <1>4
  <2>2. QED
    <3>1. i + 1 \in Nat
      OBVIOUS
    <3>2. HeardUpTo(i + 1) = Cardinality(H(i + 1)) /\ HeardUpTo(i) = Cardinality(H(i)) /\ HeardUpTo(i) \in Nat
      BY <1>1, <3>1
    <3>3. HeardUpTo(i + 1) = HeardUpTo(i)
      BY <2>1, <3>2
    <3>4. QED
      BY <1>2, <1>4, <3>2, <3>3
<1>5. QED
  BY <1>3, <1>4

\* More is heard up to a later place.
LEMMA HeardMore ==
    ASSUME NEW i \in Nat, NEW j \in Nat, i <= j
    PROVE  HeardUpTo(i) <= HeardUpTo(j)
<1> DEFINE H(k) == {m \in 1..k : Heard(m)}
<1>1. IsFiniteSet(H(j)) /\ H(i) \subseteq H(j)
  <2>1. IsFiniteSet(1..j)
    BY FS_Interval
  <2>2. IsFiniteSet(H(j))
    BY <2>1, FS_Subset
  <2>3. H(i) \subseteq H(j)
    OBVIOUS
  <2>4. QED
    BY <2>2, <2>3
<1>2. Cardinality(H(i)) <= Cardinality(H(j))
  BY <1>1, FS_Subset
<1>3. QED
  BY <1>2 DEF HeardUpTo

\* No two characters that are heard have the same number.
LEMMA HeardOnce ==
    ASSUME NEW i \in Nat \ {0}, NEW j \in Nat \ {0}, Heard(i), Heard(j), HeardUpTo(i) = HeardUpTo(j)
    PROVE  i = j
<1>1. ASSUME NEW k \in Nat \ {0}, NEW m \in Nat \ {0}, Heard(m), k < m PROVE HeardUpTo(k) # HeardUpTo(m)
  <2>1. PICK q \in Nat : q + 1 = m
    <3>1. m - 1 \in Nat /\ (m - 1) + 1 = m
      OBVIOUS
    <3>2. QED
      BY <3>1
  <2>2. PICK x \in Nat, y \in Nat, z \in Nat : x = HeardUpTo(k) /\ y = HeardUpTo(q) /\ z = HeardUpTo(m)
    BY HeardCount
  <2>3. z = y + 1
    BY <1>1, <2>1, <2>2, HeardCount
  <2>4. k <= q
    BY <1>1, <2>1
  <2>5. x <= y
    BY <2>2, <2>4, HeardMore
  <2>6. QED
    BY <2>2, <2>3, <2>5
<1>2. i < j \/ j < i \/ i = j
  OBVIOUS
<1>3. QED
  BY <1>1, <1>2

\* acc holds what is heard up to n.
Collected(n, a) ==
    /\ a \in Seq(Byte) /\ Len(a) = HeardUpTo(n)
    /\ \A j \in 1..Len(a) : \E i \in 1..n : Heard(i) /\ HeardUpTo(i) = j /\ a[j] = spoken[i].byte

\* Up to n no pause ended the answer, and a holds what was heard.
SoFar(n, a) ==
    /\ n \in 0..Len(spoken) /\ Collected(n, a)
    /\ \A i \in 1..n : IsPause(spoken[i]) => spoken[i].ms <= Patience(i)
    /\ job = "raw" => Len(a) <= ResponseMax

\* Where the answer ends.
LEMMA CutIs ==
    ASSUME spoken \in Seq(Items)
    PROVE  /\ Cut \in 1..(Len(spoken) + 1)
           /\ Cut <= Len(spoken) => IsPause(spoken[Cut]) /\ spoken[Cut].ms > Patience(Cut)
           /\ \A i \in 1..Len(spoken) : IsPause(spoken[i]) /\ spoken[i].ms > Patience(i) => Cut <= i
<1> DEFINE L == Len(spoken)
           S == {i \in DOMAIN spoken : IsPause(spoken[i]) /\ spoken[i].ms > Patience(i)} \cup {L + 1}
<1>1. L \in Nat /\ DOMAIN spoken = 1..L
  BY LenProperties
<1>2. S \subseteq Nat /\ S # {}
  BY <1>1
<1>3. \E x \in S : \A y \in S : x <= y
  BY <1>2, LeastNumber
<1>4. Cut = CHOOSE x \in S : \A y \in S : x <= y
  BY DEF Cut, Min
<1>5. Cut \in S /\ \A y \in S : Cut <= y
  BY <1>3, <1>4
<1>6. QED
  BY <1>1, <1>5

\* How long the answer is.
ExpectedLen == IF job = "raw" THEN Min({HeardUpTo(Cut - 1), ResponseMax}) ELSE HeardUpTo(Cut - 1)

\* It is a number, within the room of a response.
LEMMA ExpectedLenIs ==
    ASSUME spoken \in Seq(Items)
    PROVE  /\ ExpectedLen \in Nat /\ HeardUpTo(Cut - 1) \in Nat /\ ExpectedLen <= HeardUpTo(Cut - 1)
           /\ job # "raw" => ExpectedLen = HeardUpTo(Cut - 1)
           /\ job = "raw" => /\ ExpectedLen \in {HeardUpTo(Cut - 1), ResponseMax}
                             /\ ExpectedLen <= ResponseMax
<1>1. Cut - 1 \in Nat
  BY CutIs, LenProperties
<1>2. PICK x \in Nat, y \in Nat : x = HeardUpTo(Cut - 1) /\ y = ResponseMax
  BY <1>1, HeardCount, BitBangAssumption
<1>3. \E z \in {x, y} : \A w \in {x, y} : z <= w
  BY <1>2
<1>4. Min({x, y}) \in {x, y} /\ \A w \in {x, y} : Min({x, y}) <= w
  <2>1. Min({x, y}) = CHOOSE z \in {x, y} : \A w \in {x, y} : z <= w
    BY DEF Min
  <2>2. QED
    BY <1>3, <2>1
<1>5. ExpectedLen = IF job = "raw" THEN Min({x, y}) ELSE x
  BY <1>2, Zenon DEF ExpectedLen
<1>6. QED
  BY <1>2, <1>4, <1>5

\* What was collected is the beginning of what is expected, and all of it where the
\* answer ends or the buffer is full.
LEMMA SoFarIsPrefix ==
    ASSUME spoken \in Seq(Items), NEW n, NEW a, SoFar(n, a)
    PROVE  /\ IsPrefix(a, Expected)
           /\ n = Cut - 1 => a = Expected
           /\ job = "raw" /\ Len(a) = ResponseMax => a = Expected
<1>1. /\ n \in Nat /\ n <= Len(spoken) /\ a \in Seq(Byte) /\ Len(a) = HeardUpTo(n) /\ Len(a) \in Nat
      /\ Len(spoken) \in Nat /\ DOMAIN spoken = 1..Len(spoken)
  BY LenProperties DEF SoFar, Collected
<1>2. /\ Cut \in 1..(Len(spoken) + 1) /\ Cut - 1 \in Nat /\ n <= Cut - 1
  <2>1. /\ Cut \in 1..(Len(spoken) + 1)
        /\ Cut <= Len(spoken) => IsPause(spoken[Cut]) /\ spoken[Cut].ms > Patience(Cut)
    BY CutIs
  <2>2. ASSUME Cut <= n PROVE FALSE
    <3>1. Cut \in 1..n /\ Cut \in 1..Len(spoken)
      BY <1>1, <2>1, <2>2
    <3>2. spoken[Cut].ms <= Patience(Cut) /\ spoken[Cut].ms > Patience(Cut) /\ IsPause(spoken[Cut])
      BY <2>1, <3>1 DEF SoFar
    <3>3. spoken[Cut].ms \in Nat
      BY <3>1, <3>2, ItemIs, ElementOfSeq
    <3>4. Patience(Cut) \in Nat
      BY DEF Patience
    <3>5. QED
      BY <3>2, <3>3, <3>4
  <2>3. QED
    BY <1>1, <2>1, <2>2
<1>3. Len(a) <= ExpectedLen
  <2>1. HeardUpTo(n) <= HeardUpTo(Cut - 1)
    BY <1>1, <1>2, HeardMore
  <2>2. job = "raw" => Len(a) <= ResponseMax
    BY DEF SoFar
  <2>3. QED
    BY <1>1, <2>1, <2>2, ExpectedLenIs
<1>4. PICK m \in Nat : m = ExpectedLen /\ Len(a) <= m
  BY <1>3, ExpectedLenIs
<1>5. Expected = [j \in 1..m |-> spoken[CHOOSE i \in DOMAIN spoken : Heard(i) /\ HeardUpTo(i) = j].byte]
  BY <1>4, Zenon DEF Expected, ExpectedLen
<1>6. ASSUME NEW j \in 1..Len(a) PROVE Expected[j] = a[j]
  <2>1. PICK i \in 1..n : Heard(i) /\ HeardUpTo(i) = j /\ a[j] = spoken[i].byte
    BY DEF SoFar, Collected
  <2>2. i \in DOMAIN spoken
    BY <1>1
  <2>3. ASSUME NEW k \in DOMAIN spoken, Heard(k), HeardUpTo(k) = j PROVE k = i
    <3>1. k \in Nat \ {0} /\ i \in Nat \ {0}
      BY <1>1
    <3>2. QED
      BY <2>1, <2>3, <3>1, HeardOnce
  <2>4. (CHOOSE k \in DOMAIN spoken : Heard(k) /\ HeardUpTo(k) = j) = i
    BY <2>1, <2>2, <2>3
  <2>5. j \in 1..m
    BY <1>1, <1>4
  <2>6. QED
    BY <1>5, <2>1, <2>4, <2>5
<1> DEFINE T == {Expected[j] : j \in 1..m}
<1>7. Expected \in Seq(T) /\ Len(Expected) = m
  <2>1. Expected \in [1..m -> T]
    BY <1>5
  <2>2. Expected \in Seq(T)
    BY <2>1, SeqDef
  <2>3. Len(Expected) \in Nat /\ 1..Len(Expected) = 1..m
    BY <2>1, <2>2, LenProperties
  <2>4. QED
    BY <2>2, <2>3
<1> HIDE DEF T
<1>8. IsPrefix(a, Expected)
  <2>1. PICK x \in Nat : x = Len(a)
    BY <1>1
  <2>2. \A j \in 1..x : a[j] \in Byte /\ Expected[j] = a[j]
    BY <1>1, <1>6, <2>1, ElementOfSeq
  <2>3. /\ SubSeq(a, 1, x) \in Seq(Byte) /\ Len(SubSeq(a, 1, x)) = IF 1 <= x THEN x - 1 + 1 ELSE 0
        /\ \A i \in 1..(x - 1 + 1) : SubSeq(a, 1, x)[i] = a[1 + i - 1]
    BY <2>2, SubSeqProperties
  <2>4. /\ SubSeq(Expected, 1, x) \in Seq(Byte) /\ Len(SubSeq(Expected, 1, x)) = IF 1 <= x THEN x - 1 + 1 ELSE 0
        /\ \A i \in 1..(x - 1 + 1) : SubSeq(Expected, 1, x)[i] = Expected[1 + i - 1]
    <3>1. \A j \in 1..x : Expected[j] \in Byte
      BY <2>2
    <3>2. QED
      BY <3>1, SubSeqProperties
  <2>5. ASSUME NEW i \in 1..Len(SubSeq(a, 1, x)) PROVE SubSeq(a, 1, x)[i] = SubSeq(Expected, 1, x)[i]
    <3>1. i \in 1..x /\ i \in 1..(x - 1 + 1) /\ 1 + i - 1 = i
      BY <2>3
    <3>2. SubSeq(a, 1, x)[i] = a[i] /\ SubSeq(Expected, 1, x)[i] = Expected[i]
      BY <2>3, <2>4, <3>1
    <3>3. QED
      BY <2>2, <3>1, <3>2
  <2>6. SubSeq(a, 1, x) = SubSeq(Expected, 1, x)
    BY <2>3, <2>4, <2>5, SeqEqual
  <2>7. QED
    BY <1>4, <1>7, <2>1, <2>6 DEF IsPrefix
<1>9. ASSUME Len(a) = m PROVE a = Expected
  <2>1. a \in [1..m -> Byte]
    BY <1>1, <1>9, LenProperties
  <2>2. \A j \in 1..m : Expected[j] = a[j]
    BY <1>6, <1>9
  <2>3. a = [j \in 1..m |-> a[j]]
    BY <2>1
  <2>4. Expected = [j \in 1..m |-> Expected[j]]
    BY <1>5
  <2>5. QED
    BY <2>2, <2>3, <2>4
<1>10. n = Cut - 1 => a = Expected
  <2>1. n = Cut - 1 => HeardUpTo(Cut - 1) = Len(a)
    BY <1>1, Zenon
  <2>2. n = Cut - 1 => m <= Len(a)
    BY <1>4, <2>1, ExpectedLenIs
  <2>3. QED
    BY <1>1, <1>4, <1>9, <2>2
<1>11. job = "raw" /\ Len(a) = ResponseMax => a = Expected
  BY <1>1, <1>4, <1>9, ExpectedLenIs
<1>12. QED
  BY <1>8, <1>10, <1>11

\* What is not yet read of the answer: all after its first n items.
Where(n) == /\ ahead \in Seq(Items) /\ Len(ahead) = Len(spoken) - n
            /\ \A i \in 1..Len(ahead) : ahead[i] = spoken[n + i]

\* Nothing is collected as long as nothing is heard.
LEMMA NoneHeard ==
    ASSUME NEW n, NEW a, SoFar(n, a), spoken \in Seq(Items)
    PROVE  a = <<>> <=> \A k \in 1..n : ~Heard(k)
<1> DEFINE S == {k \in 1..n : Heard(k)}
<1>1. n \in Nat /\ a \in Seq(Byte) /\ Len(a) = Cardinality(S)
  BY LenProperties DEF SoFar, Collected, HeardUpTo
<1>2. IsFiniteSet(S)
  <2>1. IsFiniteSet(1..n)
    BY <1>1, FS_Interval
  <2>2. QED
    BY <2>1, FS_Subset
<1>3. Cardinality(S) = 0 <=> S = {}
  BY <1>2, FS_EmptySet
<1>4. a = <<>> <=> Len(a) = 0
  BY <1>1, EmptySeq
<1>5. S = {} <=> \A k \in 1..n : ~Heard(k)
  OBVIOUS
<1>6. QED
  BY <1>1, <1>3, <1>4, <1>5

\* The zeros skipped before an ATR are those before the first byte kept.
LEMMA SkippedIsLeading ==
    ASSUME NEW n, NEW a, SoFar(n, a), spoken \in Seq(Items), n < Len(spoken), ~IsPause(spoken[n + 1])
    PROVE  Heard(n + 1) <=> ~(job = "atr" /\ a = <<>> /\ spoken[n + 1].byte = ZeroByte)
<1>1. n \in Nat /\ n + 1 \in DOMAIN spoken /\ DOMAIN spoken = 1..Len(spoken) /\ n + 1 \in 1..(n + 1) /\ Len(spoken) \in Nat
  BY LenProperties DEF SoFar
<1>2. \A k \in 1..n : k \in 1..(n + 1) /\ k \in 1..k /\ k \in DOMAIN spoken
  BY <1>1
<1>3. ASSUME Leading(n + 1) PROVE job = "atr" /\ a = <<>> /\ spoken[n + 1].byte = ZeroByte
  <2>1. job = "atr" /\ spoken[n + 1].byte = ZeroByte
    BY <1>1, <1>3 DEF Leading
  <2>2. ASSUME NEW k \in 1..n PROVE ~Heard(k)
    <3>1. \A j \in 1..k : j \in 1..(n + 1)
      BY <1>1
    <3>2. Leading(k)
      BY <1>3, <3>1 DEF Leading
    <3>3. QED
      BY <3>2 DEF Heard
  <2>3. QED
    BY <2>1, <2>2, NoneHeard
<1>4. ASSUME job = "atr", a = <<>>, spoken[n + 1].byte = ZeroByte PROVE Leading(n + 1)
  <2>1. ASSUME NEW k \in 1..(n + 1), ~IsPause(spoken[k]) PROVE spoken[k].byte = ZeroByte
    <3>1. CASE k = n + 1
      BY <1>4, <3>1
    <3>2. CASE k # n + 1
      <4>1. k \in 1..n
        BY <1>1, <3>2
      <4>2. ~Heard(k) /\ k \in DOMAIN spoken /\ k \in 1..k
        BY <1>2, <1>4, <4>1, NoneHeard
      <4>3. Leading(k)
        BY <2>1, <4>2 DEF Heard
      <4>4. QED
        BY <2>1, <4>2, <4>3 DEF Leading
    <3>3. QED
      BY <3>1, <3>2
  <2>2. QED
    BY <1>4, <2>1 DEF Leading
<1>5. QED
  BY <1>1, <1>3, <1>4 DEF Heard

\* An item that is not heard adds nothing.
LEMMA PassOver ==
    ASSUME NEW n, NEW a, SoFar(n, a), spoken \in Seq(Items), n < Len(spoken), ~Heard(n + 1),
           IsPause(spoken[n + 1]) => spoken[n + 1].ms <= Patience(n + 1)
    PROVE  SoFar(n + 1, a)
<1>1. n \in Nat /\ n + 1 \in 0..Len(spoken) /\ Len(spoken) \in Nat
  BY LenProperties DEF SoFar
<1>2. HeardUpTo(n + 1) = HeardUpTo(n)
  BY <1>1, HeardCount
<1>3. \A i \in 1..n : i \in 1..(n + 1)
  BY <1>1
<1>4. \A i \in 1..(n + 1) : i \in 1..n \/ i = n + 1
  BY <1>1
<1>5. Collected(n + 1, a)
  <2>1. a \in Seq(Byte) /\ Len(a) = HeardUpTo(n + 1)
    BY <1>2 DEF SoFar, Collected
  <2>2. ASSUME NEW j \in 1..Len(a)
        PROVE  \E i \in 1..(n + 1) : Heard(i) /\ HeardUpTo(i) = j /\ a[j] = spoken[i].byte
    <3>1. PICK i \in 1..n : Heard(i) /\ HeardUpTo(i) = j /\ a[j] = spoken[i].byte
      BY DEF SoFar, Collected
    <3>2. QED
      BY <1>3, <3>1
  <2>3. QED
    BY <2>1, <2>2 DEF Collected
<1>6. \A i \in 1..(n + 1) : IsPause(spoken[i]) => spoken[i].ms <= Patience(i)
  BY <1>4 DEF SoFar
<1>7. QED
  BY <1>1, <1>5, <1>6 DEF SoFar

\* A character that is heard is kept.
LEMMA KeepHeard ==
    ASSUME NEW n, NEW a, SoFar(n, a), spoken \in Seq(Items), n < Len(spoken), Heard(n + 1),
           job = "raw" => Len(a) < ResponseMax
    PROVE  SoFar(n + 1, Append(a, spoken[n + 1].byte))
<1>1. /\ n \in Nat /\ n + 1 \in 0..Len(spoken) /\ n + 1 \in 1..Len(spoken) /\ Len(spoken) \in Nat
      /\ a \in Seq(Byte) /\ Len(a) \in Nat /\ Len(a) = HeardUpTo(n) /\ n + 1 \in 1..(n + 1)
  BY LenProperties DEF SoFar, Collected
<1>2. HeardUpTo(n + 1) = Len(a) + 1
  BY <1>1, HeardCount
<1>3. \A i \in 1..n : i \in 1..(n + 1)
  BY <1>1
<1>4. \A i \in 1..(n + 1) : i \in 1..n \/ i = n + 1
  BY <1>1
<1>5. PICK y : y = spoken[n + 1].byte
  OBVIOUS
<1>6. y \in Byte
  <2>1. spoken[n + 1] \in Items
    BY <1>1, ElementOfSeq
  <2>2. ~IsPause(spoken[n + 1])
    BY DEF Heard
  <2>3. QED
    BY <1>5, <2>1, <2>2, ItemIs
<1>7. PICK z : z = Append(a, y)
  OBVIOUS
<1>8. z \in Seq(Byte) /\ Len(z) = Len(a) + 1 /\ z[Len(a) + 1] = y /\ \A j \in 1..Len(a) : z[j] = a[j]
  BY <1>1, <1>6, <1>7, AppendProperties
<1>9. Collected(n + 1, z)
  <2>1. ASSUME NEW j \in 1..Len(z)
        PROVE  \E i \in 1..(n + 1) : Heard(i) /\ HeardUpTo(i) = j /\ z[j] = spoken[i].byte
    <3>1. CASE j = Len(a) + 1
      BY <1>1, <1>2, <1>5, <1>8, <3>1
    <3>2. CASE j # Len(a) + 1
      <4>1. j \in 1..Len(a)
        BY <1>1, <1>8, <3>2
      <4>2. PICK i \in 1..n : Heard(i) /\ HeardUpTo(i) = j /\ a[j] = spoken[i].byte
        BY <4>1 DEF SoFar, Collected
      <4>3. z[j] = spoken[i].byte /\ i \in 1..(n + 1)
        BY <1>3, <1>8, <4>1, <4>2
      <4>4. QED
        BY <4>2, <4>3
    <3>3. QED
      BY <3>1, <3>2
  <2>2. QED
    BY <1>2, <1>8, <2>1 DEF Collected
<1>10. \A i \in 1..(n + 1) : IsPause(spoken[i]) => spoken[i].ms <= Patience(i)
  BY <1>4 DEF SoFar, Heard
<1>11. job = "raw" => Len(z) <= ResponseMax
  BY <1>1, <1>8, BitBangAssumption
<1>12. QED
  BY <1>1, <1>5, <1>7, <1>9, <1>10, <1>11 DEF SoFar

\* How long the receiver waits for the next item.
LEMMA TimeoutIsPatience ==
    ASSUME NEW n, SoFar(n, acc), spoken \in Seq(Items), job \in {"atr", "raw"}
    PROVE  Awaits(Timeout) = Patience(n + 1) /\ Patience(n + 1) \in Nat
<1>1. n \in Nat /\ (n + 1) - 1 = n
  BY DEF SoFar
<1>2. acc = <<>> <=> ~\E k \in 1..((n + 1) - 1) : Heard(k)
  BY <1>1, NoneHeard
<1>3. Timeout = IF ~\E k \in 1..((n + 1) - 1) : Heard(k) THEN (IF job = "atr" THEN 4000 ELSE 9000)
                ELSE (IF job = "atr" THEN 40 ELSE 50)
  BY <1>2 DEF Timeout, AtrFirst, AtrNext1, RawFirst, RawNext
<1>4. Timeout = Patience(n + 1)
  BY <1>3 DEF Patience
<1>5. Patience(n + 1) \in {40, 50, 4000, 9000}
  BY DEF Patience
<1>6. QED
  BY <1>4, <1>5 DEF Awaits, HalfRange

\* An answer and what is collected of it.
AnswerInv ==
    /\ job \in {"atr", "raw"} /\ spoken \in Seq(Items)
    /\ \E n \in Nat : SoFar(n, acc)
    /\ outcome = "ok" => acc = Expected
    /\ outcome = "run" => \E n \in Nat : /\ SoFar(n, acc) /\ Where(n)
                                         /\ job = "raw" => Len(acc) < ResponseMax

\* The invariant says what the run checks.
LEMMA AnswerSays == ASSUME AnswerInv PROVE AnswerIsTheCards
BY SoFarIsPrefix DEF AnswerInv, AnswerIsTheCards

\* What is expected depends on the card only.
LEMMA SameAnswer ==
    ASSUME job' = job, spoken' = spoken, NEW n \in Nat, NEW a
    PROVE  SoFar(n, a)' = SoFar(n, a) /\ Expected' = Expected
<1>1. \A i : Leading(i)' = Leading(i)
  BY DEF Leading
<1>2. \A i : Heard(i)' = Heard(i)
  BY <1>1 DEF Heard
<1>3. \A i : HeardUpTo(i)' = HeardUpTo(i)
  BY <1>2 DEF HeardUpTo
<1>4. \A i : Patience(i)' = Patience(i)
  BY <1>2 DEF Patience
<1>5. Cut' = Cut
  BY <1>4 DEF Cut
<1>6. Expected' = Expected
  <2>1. ExpectedLen' = ExpectedLen
    BY <1>3, <1>5 DEF ExpectedLen
  <2>2. ASSUME NEW j PROVE (CHOOSE i \in DOMAIN spoken' : Heard(i)' /\ HeardUpTo(i)' = j)
                         = (CHOOSE i \in DOMAIN spoken : Heard(i) /\ HeardUpTo(i) = j)
    BY <1>2, <1>3
  <2>3. Expected = [j \in 1..ExpectedLen |-> spoken[CHOOSE i \in DOMAIN spoken : Heard(i) /\ HeardUpTo(i) = j].byte]
    BY Zenon DEF Expected, ExpectedLen
  <2>4. Expected' = [j \in 1..ExpectedLen' |-> spoken'[CHOOSE i \in DOMAIN spoken' : Heard(i)' /\ HeardUpTo(i)' = j].byte]
    BY Zenon DEF Expected, ExpectedLen
  <2>5. QED
    BY <2>1, <2>2, <2>3, <2>4
<1>7. Collected(n, a)' = Collected(n, a)
  BY <1>2, <1>3 DEF Collected
<1>8. SoFar(n, a)' = SoFar(n, a)
  BY <1>4, <1>7 DEF SoFar
<1>9. QED
  BY <1>6, <1>8

\* The next item of the answer, and what is ahead after it.
LEMMA NextItem ==
    ASSUME NEW n \in Nat, Where(n), spoken \in Seq(Items), n <= Len(spoken)
    PROVE  /\ ahead = <<>> <=> n = Len(spoken)
           /\ ahead # <<>> => /\ n < Len(spoken) /\ Head(ahead) = spoken[n + 1] /\ spoken[n + 1] \in Items
                             /\ Tail(ahead) \in Seq(Items) /\ Len(Tail(ahead)) = Len(spoken) - (n + 1)
                             /\ \A i \in 1..Len(Tail(ahead)) : Tail(ahead)[i] = spoken[(n + 1) + i]
<1>1. /\ ahead \in Seq(Items) /\ Len(ahead) = Len(spoken) - n /\ Len(ahead) \in Nat /\ Len(spoken) \in Nat
      /\ \A i \in 1..Len(ahead) : ahead[i] = spoken[n + i]
  BY LenProperties DEF Where
<1>2. ahead = <<>> <=> Len(ahead) = 0
  BY <1>1, EmptySeq
<1>3. ASSUME ahead # <<>>
      PROVE  /\ n < Len(spoken) /\ Head(ahead) = spoken[n + 1] /\ spoken[n + 1] \in Items
             /\ Tail(ahead) \in Seq(Items) /\ Len(Tail(ahead)) = Len(spoken) - (n + 1)
             /\ \A i \in 1..Len(Tail(ahead)) : Tail(ahead)[i] = spoken[(n + 1) + i]
  <2>1. n < Len(spoken) /\ 1 \in 1..Len(ahead) /\ n + 1 \in 1..Len(spoken)
    BY <1>1, <1>2, <1>3
  <2>2. Head(ahead) = ahead[1] /\ ahead[1] = spoken[n + 1] /\ spoken[n + 1] \in Items
    BY <1>1, <1>3, <2>1, ElementOfSeq
  <2>3. /\ Tail(ahead) \in Seq(Items) /\ Len(Tail(ahead)) = Len(ahead) - 1
        /\ \A i \in 1..Len(Tail(ahead)) : Tail(ahead)[i] = ahead[i + 1]
    BY <1>1, <1>3, HeadTailProperties
  <2>4. ASSUME NEW i \in 1..Len(Tail(ahead)) PROVE Tail(ahead)[i] = spoken[(n + 1) + i]
    <3>1. i + 1 \in 1..Len(ahead) /\ n + (i + 1) = (n + 1) + i
      BY <1>1, <2>3
    <3>2. QED
      BY <1>1, <2>3, <3>1
  <2>5. QED
    BY <1>1, <2>1, <2>2, <2>3, <2>4
<1>4. QED
  BY <1>1, <1>2, <1>3

\* Progress through the answer, as one fact about the next state.
LEMMA Proceeded ==
    ASSUME job' = job, spoken' = spoken, AnswerInv, NEW n \in Nat, NEW a, SoFar(n, a), acc' = a,
           outcome' = "ok" => a = Expected,
           outcome' = "run" => Where(n)' /\ (job = "raw" => Len(a) < ResponseMax)
    PROVE  AnswerInv'
<1>1. SoFar(n, a)' /\ Expected' = Expected
  BY SameAnswer
<1>2. SoFar(n, acc)'
  BY <1>1 DEF SoFar, Collected
<1>3. outcome' = "ok" => acc' = Expected'
  BY <1>1
<1>4. QED
  BY <1>2, <1>3 DEF AnswerInv

\* Silence ends the answer at its cut.
LEMMA SilenceIsCut ==
    ASSUME spoken \in Seq(Items), job \in {"atr", "raw"}, NEW n \in Nat, SoFar(n, acc), Where(n), Silent
    PROVE  n = Cut - 1
<1>1. /\ n <= Len(spoken) /\ Len(spoken) \in Nat
  BY LenProperties DEF SoFar
<1>2. /\ Cut \in 1..(Len(spoken) + 1)
      /\ Cut <= Len(spoken) => IsPause(spoken[Cut]) /\ spoken[Cut].ms > Patience(Cut)
      /\ \A i \in 1..Len(spoken) : IsPause(spoken[i]) /\ spoken[i].ms > Patience(i) => Cut <= i
  BY CutIs
<1>3. Cut > n
  <2>1. ASSUME Cut <= n PROVE FALSE
    <3>1. Cut \in 1..n /\ Cut \in 1..Len(spoken)
      BY <1>1, <1>2, <2>1
    <3>2. spoken[Cut].ms <= Patience(Cut) /\ spoken[Cut].ms > Patience(Cut) /\ IsPause(spoken[Cut])
      BY <1>1, <1>2, <2>1, <3>1 DEF SoFar
    <3>3. spoken[Cut].ms \in Nat /\ Patience(Cut) \in Nat
      <4>1. spoken[Cut].ms \in Nat
        BY <3>1, <3>2, ItemIs, ElementOfSeq
      <4>2. QED
        BY <4>1 DEF Patience
    <3>4. QED
      BY <3>2, <3>3
  <2>2. QED
    BY <1>1, <1>2, <2>1
<1>4. CASE ahead = <<>>
  BY <1>1, <1>2, <1>3, <1>4, NextItem
<1>5. CASE ahead # <<>>
  <2>1. n < Len(spoken) /\ Head(ahead) = spoken[n + 1]
    BY <1>1, <1>5, NextItem
  <2>2. IsPause(spoken[n + 1]) /\ spoken[n + 1].ms > Patience(n + 1)
    BY <1>5, <2>1, TimeoutIsPatience DEF Silent
  <2>3. n + 1 \in 1..Len(spoken)
    BY <1>1, <2>1
  <2>4. Cut <= n + 1
    BY <1>2, <2>2, <2>3
  <2>5. QED
    BY <1>1, <1>2, <1>3, <2>4
<1>6. QED
  BY <1>4, <1>5

\* Every step of the line keeps the answer the card's.
LEMMA AnswerStep ==
    ASSUME AnswerInv, [BbNext]_bbVars
    PROVE  AnswerInv'
<1>1. /\ job \in {"atr", "raw"} /\ spoken \in Seq(Items)
      /\ outcome = "ok" => acc = Expected
  BY DEF AnswerInv
<1>2. CASE UNCHANGED bbVars
  <2>1. UNCHANGED <<job, spoken, ahead, acc, outcome>>
    BY <1>2 DEF bbVars
  <2>2. PICK n \in Nat : SoFar(n, acc) /\ (outcome = "run" => Where(n) /\ (job = "raw" => Len(acc) < ResponseMax))
    BY DEF AnswerInv
  <2>3. PICK a : a = acc
    OBVIOUS
  <2>4. SoFar(n, a) /\ acc' = a /\ (outcome' = "ok" => a = Expected)
    BY <1>1, <2>1, <2>2, <2>3
  <2>5. outcome' = "run" => Where(n)' /\ (job = "raw" => Len(a) < ResponseMax)
    BY <2>1, <2>2, <2>3 DEF Where
  <2>6. QED
    BY <2>1, <2>4, <2>5, Proceeded
<1>3. CASE EndOfLine
  <2>1. job' = job /\ spoken' = spoken /\ acc' = acc /\ outcome' \in {"Timeout", "ok"} /\ outcome = "run" /\ Silent
    BY <1>3 DEF EndOfLine, Finish
  <2>2. PICK n \in Nat : SoFar(n, acc) /\ Where(n)
    BY <2>1 DEF AnswerInv
  <2>3. PICK a : a = acc
    OBVIOUS
  <2>4. n = Cut - 1
    BY <1>1, <2>1, <2>2, SilenceIsCut
  <2>5. SoFar(n, a) /\ acc' = a
    BY <2>1, <2>2, <2>3
  <2>6. a = Expected
    BY <1>1, <2>4, <2>5, SoFarIsPrefix
  <2>7. QED
    BY <2>1, <2>5, <2>6, Proceeded
<1>4. CASE ShortPause
  <2>1. /\ job' = job /\ spoken' = spoken /\ acc' = acc /\ outcome' = outcome /\ outcome = "run"
        /\ ahead # <<>> /\ IsPause(Head(ahead)) /\ ~Silent /\ ahead' = Tail(ahead)
    BY <1>4 DEF ShortPause
  <2>2. PICK n \in Nat : SoFar(n, acc) /\ Where(n) /\ (job = "raw" => Len(acc) < ResponseMax)
    BY <2>1 DEF AnswerInv
  <2>3. PICK a : a = acc
    OBVIOUS
  <2>4. /\ n < Len(spoken) /\ Head(ahead) = spoken[n + 1] /\ spoken[n + 1] \in Items
        /\ Tail(ahead) \in Seq(Items) /\ Len(Tail(ahead)) = Len(spoken) - (n + 1)
        /\ \A i \in 1..Len(Tail(ahead)) : Tail(ahead)[i] = spoken[(n + 1) + i]
    <3>1. n <= Len(spoken)
      BY <1>1, <2>2, LenProperties DEF SoFar
    <3>2. QED
      BY <1>1, <2>1, <2>2, <3>1, NextItem
  <2>5. IsPause(spoken[n + 1]) /\ spoken[n + 1].ms <= Patience(n + 1) /\ ~Heard(n + 1)
    <3>1. IsPause(spoken[n + 1]) /\ ~(spoken[n + 1].ms > Patience(n + 1)) /\ Patience(n + 1) \in Nat
      BY <1>1, <2>1, <2>2, <2>4, TimeoutIsPatience DEF Silent
    <3>2. spoken[n + 1].ms \in Nat
      BY <2>4, <3>1, ItemIs
    <3>3. QED
      BY <3>1, <3>2 DEF Heard
  <2>6. SoFar(n + 1, a) /\ n + 1 \in Nat
    <3>1. SoFar(n, a)
      BY <2>2, <2>3, Zenon
    <3>2. SoFar(n + 1, a)
      BY <1>1, <2>4, <2>5, <3>1, PassOver, Zenon
    <3>3. QED
      BY <3>2
  <2>7. Where(n + 1)'
    BY <2>1, <2>4 DEF Where
  <2>8. QED
    BY <2>1, <2>2, <2>3, <2>6, <2>7, Proceeded
<1>5. CASE RecvByte
  <2>1. /\ job' = job /\ spoken' = spoken /\ outcome = "run" /\ ahead # <<>> /\ ~IsPause(Head(ahead))
        /\ ahead' = Tail(ahead)
    BY <1>5 DEF RecvByte
  <2>2. PICK n \in Nat : SoFar(n, acc) /\ Where(n) /\ (job = "raw" => Len(acc) < ResponseMax)
    BY <2>1 DEF AnswerInv
  <2>4. /\ n < Len(spoken) /\ Head(ahead) = spoken[n + 1] /\ spoken[n + 1] \in Items
        /\ Tail(ahead) \in Seq(Items) /\ Len(Tail(ahead)) = Len(spoken) - (n + 1)
        /\ \A i \in 1..Len(Tail(ahead)) : Tail(ahead)[i] = spoken[(n + 1) + i]
    <3>1. n <= Len(spoken)
      BY <1>1, <2>2, LenProperties DEF SoFar
    <3>2. QED
      BY <1>1, <2>1, <2>2, <3>1, NextItem
  <2>5. PICK b : b = spoken[n + 1].byte
    OBVIOUS
  <2>6. PICK f : f = spoken[n + 1].flip
    OBVIOUS
  <2>7. b \in Byte /\ f \in 0..(CharBits + 1) /\ ~IsPause(spoken[n + 1])
    BY <2>1, <2>4, <2>5, <2>6, ItemIs
  <2>8. PICK d \in Late :
           LET r == Received(Noisy(SendByte(b), f), d)
           IN  IF ~r.ok THEN Finish("ParityError") /\ UNCHANGED acc
               ELSE IF job = "atr" THEN KeepAtr(r.byte) ELSE KeepRaw(r.byte)
    BY <1>5, <2>4, <2>5, <2>6 DEF RecvByte
  <2>9. PICK r : r = Received(Noisy(SendByte(b), f), d)
    OBVIOUS
  <2>10. r.ok => r.byte = b
    BY <2>7, <2>9, ReceivedTrue
  <2>11. IF ~r.ok THEN Finish("ParityError") /\ UNCHANGED acc
         ELSE IF job = "atr" THEN KeepAtr(b) ELSE KeepRaw(b)
    <3>1. IF ~r.ok THEN Finish("ParityError") /\ UNCHANGED acc
          ELSE IF job = "atr" THEN KeepAtr(r.byte) ELSE KeepRaw(r.byte)
      BY <2>8, <2>9, Zenon
    <3>2. QED
      BY <2>10, <3>1, Zenon
  <2>12. Where(n + 1)' /\ n + 1 \in Nat
    BY <2>1, <2>4 DEF Where
  <2>13. CASE acc' = acc /\ outcome' \notin {"run", "ok"}
    <3>1. PICK a : a = acc
      OBVIOUS
    <3>2. QED
      BY <2>1, <2>2, <2>13, <3>1, Proceeded
  <2>14. Heard(n + 1) <=> ~(job = "atr" /\ acc = <<>> /\ b = ZeroByte)
    BY <1>1, <2>2, <2>4, <2>5, <2>7, SkippedIsLeading
  <2>15. CASE job = "atr" /\ acc' = acc /\ outcome' = outcome /\ acc = <<>> /\ b = ZeroByte
    <3>1. PICK a : a = acc
      OBVIOUS
    <3>2. SoFar(n + 1, a)
      BY <1>1, <2>2, <2>4, <2>7, <2>14, <2>15, <3>1, PassOver
    <3>3. QED
      BY <2>1, <2>12, <2>15, <3>1, <3>2, Proceeded
  <2>16. PICK z : z = Append(acc, b)
    OBVIOUS
  <2>17. CASE job = "atr" /\ acc' = Append(acc, b) /\ outcome' = outcome /\ ~(acc = <<>> /\ b = ZeroByte)
    <3>1. SoFar(n + 1, z)
      BY <1>1, <2>2, <2>4, <2>5, <2>14, <2>16, <2>17, KeepHeard
    <3>2. QED
      BY <2>1, <2>12, <2>16, <2>17, <3>1, Proceeded
  <2>18. CASE job # "atr" /\ KeepRaw(b)
    <3>1. job = "raw" /\ acc' = z
      BY <1>1, <2>16, <2>18 DEF KeepRaw
    <3>2. SoFar(n + 1, z)
      BY <1>1, <2>2, <2>4, <2>5, <2>14, <2>16, <2>18, KeepHeard
    <3>3. Len(z) = Len(acc) + 1 /\ Len(acc) \in Nat
      <4>1. acc \in Seq(Byte)
        BY <2>2 DEF SoFar, Collected
      <4>2. QED
        BY <2>7, <2>16, <4>1, AppendProperties, LenProperties
    <3>4. CASE Len(acc) + 1 = ResponseMax
      <4>1. outcome' = "ok"
        BY <2>18, <3>4 DEF KeepRaw, Finish
      <4>2. z = Expected
        BY <1>1, <3>1, <3>2, <3>3, <3>4, SoFarIsPrefix
      <4>3. QED
        BY <2>1, <2>12, <3>1, <3>2, <4>1, <4>2, Proceeded
    <3>5. CASE Len(acc) + 1 # ResponseMax
      <4>1. outcome' = "run"
        BY <2>1, <2>18, <3>5 DEF KeepRaw
      <4>2. Len(z) < ResponseMax
        BY <2>2, <3>1, <3>3, <3>5, BitBangAssumption
      <4>3. QED
        BY <2>1, <2>12, <3>1, <3>2, <4>1, <4>2, Proceeded
    <3>6. QED
      BY <3>4, <3>5
  <2>19. QED
    BY <2>11, <2>13, <2>15, <2>17, <2>18 DEF KeepAtr, Finish
<1>6. CASE ReadbackFails
  <2>1. UNCHANGED <<job, spoken, ahead, acc, outcome>> /\ outcome = "run"
    BY <1>6 DEF ReadbackFails
  <2>2. PICK n \in Nat : SoFar(n, acc) /\ Where(n) /\ (job = "raw" => Len(acc) < ResponseMax)
    BY <2>1 DEF AnswerInv
  <2>3. PICK a : a = acc
    OBVIOUS
  <2>5. Where(n)'
    BY <2>1, <2>2 DEF Where
  <2>6. QED
    BY <2>1, <2>2, <2>3, <2>5, Proceeded
<1>7. QED
  BY <1>2, <1>3, <1>4, <1>5, <1>6 DEF BbNext

\* Before anything is read nothing is collected.
LEMMA AnswerFresh ==
    ASSUME job \in {"atr", "raw"}, spoken \in Seq(Items), ahead = spoken, acc = <<>>, outcome = "run"
    PROVE  AnswerInv
<1>1. Len(spoken) \in Nat /\ Len(spoken) = Len(spoken) - 0
  BY LenProperties
<1>2. acc \in Seq(Byte) /\ Len(acc) = 0 /\ HeardUpTo(0) = 0
  BY EmptySeq, HeardCount
<1>3. SoFar(0, acc)
  <2>1. 1..0 = {}
    OBVIOUS
  <2>2. QED
    BY <1>1, <1>2, <2>1, BitBangAssumption DEF SoFar, Collected
<1>4. Where(0)
  BY <1>1 DEF Where
<1>5. Len(acc) < ResponseMax
  BY <1>2, BitBangAssumption
<1>6. QED
  BY <1>3, <1>4, <1>5 DEF AnswerInv

\* g is F iterated from x0, N times.
IsRun(g, S, x0, F, N) == g \in [0..N -> S] /\ g[0] = x0 /\ \A k \in 1..N : g[k] = F[g[k - 1]]

\* A function may be iterated as often as wanted.
LEMMA Iterated ==
    ASSUME NEW S, NEW x0 \in S, NEW F \in [S -> S], NEW N \in Nat
    PROVE  \E g : IsRun(g, S, x0, F, N)
<1> DEFINE Fine(n) == \E g \in [0..n -> S] : g[0] = x0 /\ \A k \in 1..n : g[k] = F[g[k - 1]]
           T == {n \in Nat : ~Fine(n)}
<1>1. Fine(0)
  <2>1. PICK g : g = [k \in 0..0 |-> x0]
    OBVIOUS
  <2>2. g \in [0..0 -> S] /\ g[0] = x0 /\ 1..0 = {}
    BY <2>1
  <2>3. QED
    BY <2>2
<1>2. ASSUME NEW n \in Nat, Fine(n) PROVE Fine(n + 1)
  <2>1. PICK g \in [0..n -> S] : g[0] = x0 /\ \A k \in 1..n : g[k] = F[g[k - 1]]
    BY <1>2
  <2>2. PICK h : h = [k \in 0..(n + 1) |-> IF k = n + 1 THEN F[g[n]] ELSE g[k]]
    OBVIOUS
  <2>3. g[n] \in S /\ F[g[n]] \in S
    OBVIOUS
  <2>4. h \in [0..(n + 1) -> S]
    <3>1. ASSUME NEW k \in 0..(n + 1) PROVE (IF k = n + 1 THEN F[g[n]] ELSE g[k]) \in S
      <4>1. k = n + 1 \/ k \in 0..n
        OBVIOUS
      <4>2. QED
        BY <2>3, <4>1
    <3>2. QED
      BY <2>2, <3>1
  <2>5. h[0] = x0
    BY <2>1, <2>2
  <2>6. ASSUME NEW k \in 1..(n + 1) PROVE h[k] = F[h[k - 1]]
    <3>1. k \in 0..(n + 1) /\ k - 1 \in 0..(n + 1) /\ k - 1 # n + 1 /\ k - 1 \in 0..n
      OBVIOUS
    <3>2. h[k - 1] = g[k - 1]
      BY <2>2, <3>1
    <3>3. CASE k = n + 1
      <4>1. k - 1 = n
        BY <3>3
      <4>2. QED
        BY <2>2, <3>1, <3>2, <3>3, <4>1
    <3>4. CASE k # n + 1
      <4>1. k \in 1..n
        BY <3>4
      <4>2. h[k] = g[k]
        BY <2>2, <3>1, <3>4
      <4>3. QED
        BY <2>1, <3>2, <4>1, <4>2
    <3>5. QED
      BY <3>3, <3>4
  <2>7. QED
    BY <2>4, <2>5, <2>6
<1>3. SUFFICES ASSUME T # {} PROVE FALSE
  <2>1. T = {} => Fine(N)
    OBVIOUS
  <2>2. Fine(N) => \E g : IsRun(g, S, x0, F, N)
    BY DEF IsRun
  <2>3. QED
    BY <2>1, <2>2
<1> HIDE DEF Fine
<1>4. PICK n \in T : \A m \in T : n <= m
  BY <1>3, LeastNumber
<1>5. n \in Nat /\ ~Fine(n) /\ n # 0
  BY <1>1
<1>6. n - 1 \in Nat /\ (n - 1) + 1 = n /\ ~(n <= n - 1)
  BY <1>5
<1>7. Fine(n - 1)
  BY <1>4, <1>6
<1>8. Fine((n - 1) + 1)
  BY <1>2, <1>6, <1>7, Zenon
<1>9. QED
  BY <1>5, <1>6, <1>8

\* What a record holds.
Cells == RECORDS \cup {"d"} \cup Nat

\* E holds the starts of the records of g, and the place behind the last one.
Starts(E, g) ==
    /\ g \in Seq(Cells) /\ Len(g) <= DiagSize
    /\ E \subseteq Nat \ {0} /\ 1 \in E
    /\ \A e \in E : /\ e <= Len(g) => g[e] \in RECORDS
                    /\ e + 1 <= Len(g) => g[e + 1] \in Nat /\ (e + 2) + g[e + 1] \in E
    /\ Len(g) < DiagSize => /\ Len(g) + 1 \in E
                            /\ \A e \in E : e + 1 <= Len(g) \/ e = Len(g) + 1

\* What DiagTlv adds.
LEMMA TlvIs ==
    ASSUME NEW g \in Seq(Cells), Len(g) <= DiagSize, NEW n \in Nat, NEW tag \in RECORDS
    PROVE  LET h == DiagTlv(g, n, tag)
           IN  /\ h \in Seq(Cells)
               /\ Len(h) = IF Len(g) + 2 + n <= DiagSize THEN Len(g) + 2 + n ELSE DiagSize
               /\ \A i \in 1..Len(g) : h[i] = g[i]
               /\ Len(h) >= Len(g) + 1 => h[Len(g) + 1] = tag
               /\ Len(h) >= Len(g) + 2 => h[Len(g) + 2] = n
<1> DEFINE u == <<tag, n>>
           v == [i \in 1..n |-> "d"]
           gu == g \o u
           w == gu \o v
           h == DiagTlv(g, n, tag)
<1>1. PICK l \in Nat : l = Len(g)
  BY LenProperties
<1>2. u \in Seq(Cells) /\ Len(u) = 2 /\ u[1] = tag /\ u[2] = n
  BY DEF Cells
<1>3. v \in Seq(Cells) /\ Len(v) = n
  <2>1. v \in [1..n -> Cells]
    BY DEF Cells
  <2>2. v \in Seq(Cells)
    BY <2>1, SeqDef
  <2>3. Len(v) \in Nat /\ 1..Len(v) = 1..n
    BY <2>1, <2>2, LenProperties
  <2>4. QED
    BY <2>2, <2>3
<1> HIDE DEF u, v
<1>4. /\ gu \in Seq(Cells) /\ Len(gu) = l + 2
      /\ \A i \in 1..l : gu[i] = g[i]
      /\ gu[l + 1] = tag /\ gu[l + 2] = n
  <2>1. /\ gu \in Seq(Cells) /\ Len(gu) = Len(g) + Len(u)
        /\ \A i \in 1..(Len(g) + Len(u)) : gu[i] = IF i <= Len(g) THEN g[i] ELSE u[i - Len(g)]
    BY <1>2, ConcatProperties
  <2>2. \A i \in 1..(l + 2) : gu[i] = IF i <= l THEN g[i] ELSE u[i - l]
    BY <1>1, <1>2, <2>1
  <2>3. (l + 1) - l = 1 /\ (l + 2) - l = 2 /\ l + 1 \in 1..(l + 2) /\ l + 2 \in 1..(l + 2) /\ ~(l + 1 <= l) /\ ~(l + 2 <= l)
    BY <1>1
  <2>4. QED
    BY <1>1, <1>2, <2>1, <2>2, <2>3
<1> HIDE DEF gu
<1>5. /\ w \in Seq(Cells) /\ Len(w) = l + 2 + n
      /\ \A i \in 1..(l + 2) : w[i] = gu[i]
  <2>1. /\ w \in Seq(Cells) /\ Len(w) = Len(gu) + Len(v)
        /\ \A i \in 1..(Len(gu) + Len(v)) : w[i] = IF i <= Len(gu) THEN gu[i] ELSE v[i - Len(gu)]
    BY <1>3, <1>4, ConcatProperties
  <2>2. \A i \in 1..(l + 2) : i \in 1..(Len(gu) + Len(v)) /\ i <= Len(gu)
    BY <1>3, <1>4
  <2>3. QED
    BY <1>3, <1>4, <2>1, <2>2
<1>6. PICK e \in Nat : e = (IF l + 2 + n <= DiagSize THEN l + 2 + n ELSE DiagSize) /\ l <= e /\ e <= l + 2 + n
  BY <1>1, BitBangAssumption
<1>7. h = SubSeq(w, 1, e)
  BY <1>1, <1>6, Zenon DEF DiagTlv, u, v, gu
<1> HIDE DEF w, h
<1>8. \A i \in 1..e : w[i] \in Cells
  <2>1. \A i \in 1..e : i \in 1..Len(w)
    BY <1>1, <1>5, <1>6
  <2>2. QED
    BY <1>5, <2>1, ElementOfSeq
<1>9. /\ SubSeq(w, 1, e) \in Seq(Cells) /\ Len(SubSeq(w, 1, e)) = IF 1 <= e THEN e - 1 + 1 ELSE 0
      /\ \A i \in 1..(e - 1 + 1) : SubSeq(w, 1, e)[i] = w[1 + i - 1]
  BY <1>6, <1>8, SubSeqProperties
<1>10. h \in Seq(Cells) /\ Len(h) = e /\ \A i \in 1..e : h[i] = w[i]
  <2>1. h \in Seq(Cells) /\ Len(h) = e
    BY <1>6, <1>7, <1>9
  <2>2. ASSUME NEW i \in 1..e PROVE h[i] = w[i]
    <3>1. i \in 1..(e - 1 + 1) /\ 1 + i - 1 = i
      BY <1>6
    <3>2. QED
      BY <1>7, <1>9, <3>1
  <2>3. QED
    BY <2>1, <2>2
<1>11. \A i \in 1..l : h[i] = g[i]
  <2>1. ASSUME NEW i \in 1..l PROVE i \in 1..e /\ i \in 1..(l + 2)
    BY <1>1, <1>6
  <2>2. QED
    BY <1>4, <1>5, <1>10, <2>1
<1>12. e >= l + 1 => h[l + 1] = tag
  <2>1. e >= l + 1 => l + 1 \in 1..e
    BY <1>1, <1>6
  <2>2. l + 1 \in 1..(l + 2)
    BY <1>1
  <2>3. QED
    BY <1>4, <1>5, <1>10, <2>1, <2>2
<1>13. e >= l + 2 => h[l + 2] = n
  <2>1. e >= l + 2 => l + 2 \in 1..e
    BY <1>1, <1>6
  <2>2. l + 2 \in 1..(l + 2)
    BY <1>1
  <2>3. QED
    BY <1>4, <1>5, <1>10, <2>1, <2>2
<1>14. QED
  BY <1>1, <1>6, <1>10, <1>11, <1>12, <1>13 DEF h

\* A record more leaves the buffer a sequence of records.
DiagOk(g) == \E E \in SUBSET Nat : Starts(E, g)

\* DiagTlv keeps the record boundaries, also when the record does not fit.
LEMMA TlvKeeps ==
    ASSUME NEW g, DiagOk(g), NEW n \in Nat, NEW tag \in RECORDS
    PROVE  DiagOk(DiagTlv(g, n, tag))
<1>1. PICK E \in SUBSET Nat : Starts(E, g)
  BY DEF DiagOk
<1>2. g \in Seq(Cells) /\ Len(g) <= DiagSize
  BY <1>1 DEF Starts
<1>3. PICK h : h = DiagTlv(g, n, tag)
  OBVIOUS
<1>4. PICK l \in Nat : l = Len(g)
  BY <1>2, LenProperties
<1>5. PICK s \in Nat : s = DiagSize
  BY BitBangAssumption
<1>6. /\ h \in Seq(Cells)
      /\ Len(h) = IF l + 2 + n <= s THEN l + 2 + n ELSE s
      /\ \A i \in 1..l : h[i] = g[i]
      /\ Len(h) >= l + 1 => h[l + 1] = tag
      /\ Len(h) >= l + 2 => h[l + 2] = n
  BY <1>2, <1>3, <1>4, <1>5, TlvIs
<1>7. PICK m \in Nat : m = Len(h)
  BY <1>6, LenProperties
<1>8. /\ l <= s /\ E \subseteq Nat \ {0} /\ 1 \in E
      /\ \A e \in E : /\ e <= l => g[e] \in RECORDS
                      /\ e + 1 <= l => g[e + 1] \in Nat /\ (e + 2) + g[e + 1] \in E
      /\ l < s => l + 1 \in E /\ \A e \in E : e + 1 <= l \/ e = l + 1
  BY <1>1, <1>4, <1>5 DEF Starts
<1>9. CASE l = s
  <2>1. m = l
    BY <1>6, <1>7, <1>9
  <2>2. \A e \in E : (e <= l => h[e] = g[e]) /\ (e + 1 <= l => h[e + 1] = g[e + 1])
    <3>1. \A e \in E : (e <= l => e \in 1..l) /\ (e + 1 <= l => e + 1 \in 1..l)
      BY <1>8
    <3>2. QED
      BY <1>6, <3>1
  <2>3. Starts(E, h)
    <3>1. \A e \in E : /\ e <= m => h[e] \in RECORDS
                       /\ e + 1 <= m => h[e + 1] \in Nat /\ (e + 2) + h[e + 1] \in E
      BY <1>8, <2>1, <2>2
    <3>2. m <= s /\ ~(m < s)
      BY <1>9, <2>1
    <3>3. QED
      BY <1>5, <1>6, <1>7, <1>8, <3>1, <3>2 DEF Starts
  <2>4. QED
    BY <1>3, <2>3 DEF DiagOk
<1>10. CASE l < s
  <2>1. PICK z \in Nat : z = l + 3 + n
    OBVIOUS
  <2>2. PICK X : X = E \cup {z}
    OBVIOUS
  <2>3. m <= s /\ m >= l + 1 /\ (m < s => m = l + 2 + n) /\ m < z
    BY <1>6, <1>7, <1>10, <2>1
  <2>4. X \subseteq Nat \ {0} /\ 1 \in X /\ X \in SUBSET Nat
    BY <1>8, <2>1, <2>2
  <2>5. ASSUME NEW e \in X
        PROVE  /\ e <= m => h[e] \in RECORDS
               /\ e + 1 <= m => h[e + 1] \in Nat /\ (e + 2) + h[e + 1] \in X
               /\ m < s => e + 1 <= m \/ e = m + 1
    <3>1. CASE e = z
      BY <2>1, <2>3, <3>1
    <3>2. CASE e = l + 1
      <4>1. h[e] = tag
        BY <1>6, <1>7, <2>3, <3>2
      <4>2. e + 1 = l + 2 /\ (e + 2) + n = z
        BY <2>1, <3>2
      <4>3. e + 1 <= m => h[e + 1] = n
        BY <1>6, <1>7, <4>2
      <4>4. m < s => e + 1 <= m
        BY <2>3, <4>2
      <4>5. QED
        BY <2>2, <4>1, <4>2, <4>3, <4>4
    <3>3. CASE e \in E /\ e + 1 <= l
      <4>1. e \in 1..l /\ e + 1 \in 1..l /\ e + 1 <= m
        BY <1>8, <2>3, <3>3
      <4>2. h[e] = g[e] /\ h[e + 1] = g[e + 1] /\ e <= l
        BY <1>6, <4>1
      <4>3. QED
        BY <1>8, <2>2, <3>3, <4>1, <4>2
    <3>4. QED
      BY <1>8, <1>10, <2>2, <3>1, <3>2, <3>3
  <2>6. m < s => m + 1 \in X
    BY <2>1, <2>2, <2>3
  <2>7. Starts(X, h)
    BY <1>5, <1>6, <1>7, <2>3, <2>4, <2>5, <2>6 DEF Starts
  <2>8. QED
    BY <1>3, <2>4, <2>7 DEF DiagOk
<1>11. QED
  BY <1>8, <1>9, <1>10

\* The records parse.
LEMMA DiagSays == ASSUME DiagOk(diag) PROVE DiagParses
<1>1. PICK E \in SUBSET Nat : Starts(E, diag)
  BY DEF DiagOk
<1>2. PICK l \in Nat : l = Len(diag)
  BY <1>1, LenProperties DEF Starts
<1>3. /\ E \subseteq Nat \ {0} /\ 1 \in E
      /\ \A e \in E : /\ e <= l => diag[e] \in RECORDS
                      /\ e + 1 <= l => diag[e + 1] \in Nat /\ (e + 2) + diag[e + 1] \in E
  BY <1>1, <1>2 DEF Starts
<1> DEFINE Step(i) == IF i + 1 > l THEN i ELSE RecordEnd(i) + 1
           F == [i \in E |-> Step(i)]
           Body(g) == [k \in 0..Len(diag) |-> IF k = 0 THEN 1
                                              ELSE LET i == g[k - 1] IN IF i + 1 > Len(diag) THEN i ELSE RecordEnd(i) + 1]
           at == CHOOSE g : g = Body(g)
<1>4. ASSUME NEW e \in E PROVE Step(e) \in E
  <2>1. CASE e + 1 > l
    BY <2>1
  <2>2. CASE ~(e + 1 > l)
    <3>1. e + 1 <= l /\ e \in Nat
      BY <1>3, <2>2
    <3>2. PICK y \in Nat : y = diag[e + 1] /\ (e + 2) + y \in E
      BY <1>3, <3>1
    <3>3. RecordEnd(e) = e + 1 + y
      BY <3>2 DEF RecordEnd
    <3>4. Step(e) = (e + 2) + y
      BY <2>2, <3>1, <3>2, <3>3
    <3>5. QED
      BY <3>2, <3>4
  <2>3. QED
    BY <2>1, <2>2
<1>4a. ASSUME NEW g PROVE Body(g) = [k \in 0..l |-> IF k = 0 THEN 1 ELSE Step(g[k - 1])]
  BY <1>2, Zenon
<1> HIDE DEF Step, Body
<1>5. F \in [E -> E] /\ \A e \in E : F[e] = Step(e)
  BY <1>4
<1> HIDE DEF F
<1>6. PICK g \in [0..l -> E] : g[0] = 1 /\ \A k \in 1..l : g[k] = F[g[k - 1]]
  <2>1. 1 \in E
    BY <1>3
  <2>2. QED
    <3>1. PICK g : IsRun(g, E, 1, F, l)
      BY <1>5, <2>1, Iterated, ZenonT(60)
    <3>2. QED
      BY <3>1 DEF IsRun
<1>7. g = Body(g)
  <2>1. ASSUME NEW k \in 0..l PROVE g[k] = IF k = 0 THEN 1 ELSE Step(g[k - 1])
    <3>1. CASE k = 0
      BY <1>6, <3>1
    <3>2. CASE k # 0
      <4>1. k \in 1..l /\ k - 1 \in 0..l
        BY <3>2
      <4>2. g[k] = F[g[k - 1]] /\ g[k - 1] \in E
        BY <1>6, <4>1
      <4>3. QED
        BY <1>5, <3>2, <4>2
    <3>3. QED
      BY <3>1, <3>2
  <2>2. g = [k \in 0..l |-> g[k]]
    OBVIOUS
  <2>3. QED
    BY <1>4a, <2>1, <2>2
<1>8. at = Body(at)
  BY <1>7
<1>9. PICK q : q = at
  OBVIOUS
<1>10. \A k \in 0..l : q[k] = IF k = 0 THEN 1 ELSE Step(q[k - 1])
  BY <1>8, <1>9, <1>4a
<1>11. \A k \in 0..l : q[k] \in E
  <2> DEFINE T == {k \in 0..l : q[k] \notin E}
  <2>1. SUFFICES ASSUME T # {} PROVE FALSE
    OBVIOUS
  <2>2. PICK k \in T : \A m \in T : k <= m
    <3>1. T \subseteq Nat
      OBVIOUS
    <3>2. QED
      BY <2>1, <3>1, LeastNumber
  <2>3. k \in 0..l /\ q[k] \notin E
    OBVIOUS
  <2>4. CASE k = 0
    BY <1>3, <1>10, <2>3, <2>4
  <2>5. CASE k # 0
    <3>1. k - 1 \in 0..l /\ ~(k <= k - 1)
      BY <2>3, <2>5
    <3>2. q[k - 1] \in E
      BY <2>2, <3>1
    <3>3. q[k] = Step(q[k - 1])
      BY <1>10, <2>3, <2>5
    <3>4. QED
      BY <1>4, <2>3, <3>2, <3>3
  <2>6. QED
    BY <2>4, <2>5
<1>12. \A k \in 0..l : at[k] <= l => diag[at[k]] \in RECORDS
  BY <1>3, <1>9, <1>11
<1>13. QED
  BY <1>2, <1>12, Zenon DEF DiagParses, Body

\* The diagnostic buffer is empty or filled with records.
LEMMA DiagEmpty == DiagOk(<<>>)
<1>1. <<>> \in Seq(Cells) /\ Len(<<>>) = 0
  BY EmptySeq
<1>2. Starts({1}, <<>>)
  BY <1>1, BitBangAssumption DEF Starts
<1>3. {1} \in SUBSET Nat
  OBVIOUS
<1>4. QED
  BY <1>2, <1>3 DEF DiagOk

\* The invariant of the bit-banged line.
LineInv == AnswerInv /\ DiagOk(diag)

\* The records that close the diagnostics keep the boundaries.
LEMMA SealKeeps == ASSUME LineInv PROVE DiagOk(Sealed(diag))
<1>1. Len(acc) \in Nat
  <2>1. PICK n \in Nat : SoFar(n, acc)
    BY DEF LineInv, AnswerInv
  <2>2. QED
    BY <2>1, LenProperties DEF SoFar, Collected
<1>2. {"atr", "stamp", "end"} \subseteq RECORDS
  BY DEF RECORDS
<1>3. PICK g1 : g1 = DiagTlv(diag, Len(acc), "atr")
  OBVIOUS
<1>4. PICK g2 : g2 = DiagTlv(g1, 4, "stamp")
  OBVIOUS
<1>5. PICK g3 : g3 = DiagTlv(g2, 0, "end")
  OBVIOUS
<1>6. DiagOk(g1)
  BY <1>1, <1>2, <1>3, TlvKeeps DEF LineInv
<1>7. DiagOk(g2)
  BY <1>2, <1>4, <1>6, TlvKeeps
<1>8. DiagOk(g3)
  BY <1>2, <1>5, <1>7, TlvKeeps
<1>9. Sealed(diag) = IF job = "atr" THEN g3 ELSE diag
  BY <1>3, <1>4, <1>5, Zenon DEF Sealed
<1>10. QED
  BY <1>8, <1>9, Zenon DEF LineInv

\* Every step of the line keeps its invariant.
LEMMA LineStep == ASSUME LineInv, [BbNext]_bbVars PROVE LineInv'
<1>1. AnswerInv'
  BY AnswerStep DEF LineInv
<1>2. diag' \in {diag, Sealed(diag), DiagTlv(diag, 3, "tx")}
  <2>1. CASE UNCHANGED bbVars
    BY <2>1 DEF bbVars
  <2>2. ASSUME NEW o, Finish(o) PROVE diag' \in {diag, Sealed(diag)}
    BY <2>2, Zenon DEF Finish
  <2>3. CASE EndOfLine
    BY <2>2, <2>3, Zenon DEF EndOfLine
  <2>4. CASE ShortPause
    BY <2>4 DEF ShortPause
  <2>5. CASE RecvByte
    <3>1. ASSUME NEW b, KeepAtr(b) PROVE diag' \in {diag, Sealed(diag)}
      BY <2>2, <3>1, Zenon DEF KeepAtr
    <3>2. ASSUME NEW b, KeepRaw(b) PROVE diag' \in {diag, Sealed(diag)}
      BY <2>2, <3>2, Zenon DEF KeepRaw
    <3>3. QED
      BY <2>2, <2>5, <3>1, <3>2, Zenon DEF RecvByte
  <2>6. CASE ReadbackFails
    BY <2>6 DEF ReadbackFails
  <2>7. QED
    BY <2>1, <2>3, <2>4, <2>5, <2>6 DEF BbNext
<1>3. DiagOk(diag) /\ DiagOk(Sealed(diag)) /\ DiagOk(DiagTlv(diag, 3, "tx"))
  <2>1. "tx" \in RECORDS
    BY DEF RECORDS
  <2>2. QED
    BY <2>1, SealKeeps, TlvKeeps DEF LineInv
<1>4. DiagOk(diag')
  BY <1>2, <1>3, Zenon
<1>5. DiagOk(diag)'
  BY <1>4 DEF DiagOk, Starts
<1>6. QED
  BY <1>1, <1>5 DEF LineInv

\* The invariant holds before the first item.
LEMMA LineInitial == ASSUME BbInit PROVE LineInv
<1>1. spoken \in Seq(Items)
  <2>1. PICK n \in 1..MaxStream : spoken \in [1..n -> Items]
    BY DEF BbInit, Items
  <2>2. n \in Nat
    BY BitBangAssumption
  <2>3. QED
    BY <2>1, <2>2, SeqDef
<1>2. AnswerInv
  BY <1>1, AnswerFresh DEF BbInit
<1>3. DiagOk(DiagTlv(<<>>, 2, "io"))
  <2>1. "io" \in RECORDS
    BY DEF RECORDS
  <2>2. QED
    BY <2>1, DiagEmpty, TlvKeeps
<1>4. QED
  BY <1>2, <1>3 DEF LineInv, BbInit

\* It says what the run checks.
LEMMA LineSays == ASSUME LineInv PROVE AnswerIsTheCards /\ DiagParses
BY AnswerSays, DiagSays DEF LineInv

-----------------------------------------------------------------------------
(* The historical bytes of an ATS *)

\* What an ATS starts with.
AtsOk == Len(ats) \in Nat \ {0} /\ ats[1] \in 0..7

\* An ATS whose interface bytes are taken for what they are keeps its historical bytes.
LEMMA HistoryIsKept == ASSUME AtsOk PROVE HistoryKept
<1>1. PICK n \in Nat \ {0} : n = Len(ats)
  BY DEF AtsOk
<1>2. PICK y0 \in 0..7 : y0 = ats[1]
  BY DEF AtsOk
<1>3. PICK sz \in Nat : sz = AtsInterface(ats) /\ sz = MaskSize(y0) /\ (y0 = 0 => sz = 0)
  <2>1. y0 % 8 = y0 /\ MaskSize(y0) \in Nat /\ (y0 = 0 => MaskSize(y0) = 0)
    BY DEF MaskSize
  <2>2. QED
    BY <1>2, <2>1 DEF AtsInterface
<1>4. SUFFICES ASSUME y0 % 2 = 0 \/ ats[1 + sz] = 0, n > sz
               PROVE  HistoryStart(ats) = 2 + sz
  BY <1>1, <1>2, <1>3 DEF HistoryKept, HistoryPasses, LastNibble
<1> DEFINE Turn(m) == LET e == m.i + MaskSize(m.y)
                      IN  IF m.y = 0 \/ m.i = Unset THEN m
                          ELSE IF e > Len(ats) + 1 THEN [y |-> 0, i |-> Unset]
                          ELSE [y |-> IF m.y % 2 = 1 THEN ats[e - 1] ELSE 0, i |-> e]
           Body(g) == [f \in 0..Len(ats) |-> IF f = 0 THEN [y |-> ats[1], i |-> 2] ELSE Turn(g[f - 1])]
           at == CHOOSE g : g = Body(g)
           S0 == [y |-> y0, i |-> 2]
           R == [y |-> 0, i |-> 2 + sz]
<1>5. Turn(R) = R
  OBVIOUS
<1>6. Turn(S0) = R
  <2>1. CASE y0 = 0
    BY <1>3, <2>1
  <2>2. CASE y0 # 0
    <3>1. S0.y = y0 /\ S0.i = 2 /\ 2 # Unset /\ S0.i + MaskSize(S0.y) = 2 + sz
      BY <1>3 DEF Unset
    <3>2. ~(2 + sz > Len(ats) + 1) /\ (2 + sz) - 1 = 1 + sz
      BY <1>1, <1>4
    <3>3. Turn(S0) = [y |-> IF y0 % 2 = 1 THEN ats[1 + sz] ELSE 0, i |-> 2 + sz]
      BY <2>2, <3>1, <3>2
    <3>4. (IF y0 % 2 = 1 THEN ats[1 + sz] ELSE 0) = 0
      BY <1>4
    <3>5. QED
      BY <3>3, <3>4
  <2>3. QED
    BY <2>1, <2>2
<1> HIDE DEF Turn, R
<1>7. PICK g : g = [f \in 0..n |-> IF f = 0 THEN S0 ELSE R]
  OBVIOUS
<1>8. g = Body(g)
  <2>1. ASSUME NEW f \in 0..n PROVE g[f] = IF f = 0 THEN [y |-> ats[1], i |-> 2] ELSE Turn(g[f - 1])
    <3>1. CASE f = 0
      BY <1>2, <1>7, <3>1
    <3>2. CASE f # 0
      <4>1. g[f] = R /\ f - 1 \in 0..n
        BY <1>7, <3>2
      <4>2. g[f - 1] = S0 \/ g[f - 1] = R
        BY <1>7, <4>1
      <4>3. QED
        BY <1>5, <1>6, <3>2, <4>1, <4>2
    <3>3. QED
      BY <3>1, <3>2
  <2>2. g = [f \in 0..n |-> g[f]]
    BY <1>7
  <2>3. QED
    BY <1>1, <2>1, <2>2
<1>9. at = Body(at)
  BY <1>8
<1>10. PICK q : q = at
  OBVIOUS
<1>11. q[0] = S0 /\ \A f \in 1..n : q[f] = Turn(q[f - 1])
  <2>1. q = Body(q)
    BY <1>9, <1>10, Zenon
  <2>2. q = [f \in 0..n |-> IF f = 0 THEN S0 ELSE Turn(q[f - 1])]
    BY <1>1, <1>2, <2>1, Zenon
  <2>3. 0 \in 0..n /\ \A f \in 1..n : f \in 0..n /\ f # 0
    OBVIOUS
  <2>4. ASSUME NEW f \in 0..n PROVE q[f] = IF f = 0 THEN S0 ELSE Turn(q[f - 1])
    BY <2>2, Zenon
  <2>5. QED
    BY <2>3, <2>4, Zenon
<1>12. \A f \in 1..n : q[f] = R
  <2> DEFINE T == {f \in 1..n : q[f] # R}
  <2>1. SUFFICES ASSUME T # {} PROVE FALSE
    OBVIOUS
  <2>2. PICK f \in T : \A m \in T : f <= m
    <3>1. T \subseteq Nat
      OBVIOUS
    <3>2. QED
      BY <2>1, <3>1, LeastNumber
  <2>3. f \in 1..n /\ q[f] # R
    OBVIOUS
  <2>4. CASE f = 1
    BY <1>6, <1>11, <2>3, <2>4
  <2>5. CASE f # 1
    <3>1. f - 1 \in 1..n /\ ~(f <= f - 1)
      BY <2>3, <2>5
    <3>2. q[f - 1] = R
      BY <2>2, <3>1
    <3>3. QED
      BY <1>5, <1>11, <2>3, <3>2
  <2>6. QED
    BY <2>4, <2>5
<1>13. q[n].i = 2 + sz
  BY <1>12 DEF R
<1>14. HistoryStart(ats) = at[Len(ats)].i
  BY Zenon DEF HistoryStart, Turn
<1>15. QED
  BY <1>1, <1>10, <1>13, <1>14

-----------------------------------------------------------------------------
(* The places of the interface bytes *)

Has(l, b) == IF There(l, b) THEN 1 ELSE 0
Here(m, x) == IF m = 1 THEN {x} ELSE {}

\* One element more, or none.
LEMMA CountOne ==
    ASSUME NEW S, IsFiniteSet(S), NEW x, x \notin S, NEW P \in {0, 1}
    PROVE  /\ IsFiniteSet(S \cup Here(P, x))
           /\ Cardinality(S \cup Here(P, x)) = Cardinality(S) + P
<1>1. Cardinality(S) \in Nat
  BY FS_CardinalityType
<1>2. CASE P = 1
  <2>1. Here(P, x) = {x} /\ P = 1
    BY <1>2 DEF Here
  <2>2. IsFiniteSet(S \cup {x}) /\ Cardinality(S \cup {x}) = Cardinality(S) + 1
    BY FS_AddElement
  <2>3. QED
    BY <2>1, <2>2
<1>3. CASE P = 0
  <2>1. S \cup Here(P, x) = S /\ P = 0
    BY <1>3 DEF Here
  <2>2. Cardinality(S) = Cardinality(S) + P
    BY <1>1, <1>3
  <2>3. QED
    BY <2>1, <2>2, Zenon
<1>4. QED
  BY <1>2, <1>3

\* Four elements, each there or not.
Four(S, P1, x1, P2, x2, P3, x3, P4, x4) == S \cup Here(P1, x1) \cup Here(P2, x2) \cup Here(P3, x3) \cup Here(P4, x4)
Apart(S, x1, x2, x3, x4) ==
    /\ IsFiniteSet(S) /\ x1 \notin S /\ x2 \notin S /\ x3 \notin S /\ x4 \notin S
    /\ x1 # x2 /\ x1 # x3 /\ x1 # x4 /\ x2 # x3 /\ x2 # x4 /\ x3 # x4

\* Four elements outside a set, each there or not, add their number.
LEMMA CountFour ==
    ASSUME NEW S, NEW x1, NEW x2, NEW x3, NEW x4, Apart(S, x1, x2, x3, x4),
           NEW P1 \in {0, 1}, NEW P2 \in {0, 1}, NEW P3 \in {0, 1}, NEW P4 \in {0, 1}
    PROVE  /\ IsFiniteSet(Four(S, P1, x1, P2, x2, P3, x3, P4, x4))
           /\ Cardinality(Four(S, P1, x1, P2, x2, P3, x3, P4, x4))
              = Cardinality(S) + P1 + P2 + P3 + P4
<1> USE DEF Apart
<1> DEFINE S1 == S \cup Here(P1, x1)
           S2 == S1 \cup Here(P2, x2)
           S3 == S2 \cup Here(P3, x3)
           S4 == S3 \cup Here(P4, x4)
<1>0. x2 \notin S1 /\ x3 \notin S2 /\ x4 \notin S3
  BY DEF Here
<1>1. IsFiniteSet(S1) /\ Cardinality(S1) = Cardinality(S) + P1
  BY CountOne
<1> HIDE DEF S1
<1>2. IsFiniteSet(S2) /\ Cardinality(S2) = Cardinality(S1) + P2
  BY <1>0, <1>1, CountOne
<1> HIDE DEF S2
<1>3. IsFiniteSet(S3) /\ Cardinality(S3) = Cardinality(S2) + P3
  BY <1>0, <1>2, CountOne
<1> HIDE DEF S3
<1>4. IsFiniteSet(S4) /\ Cardinality(S4) = Cardinality(S3) + P4
  BY <1>0, <1>3, CountOne
<1>5. S4 = Four(S, P1, x1, P2, x2, P3, x3, P4, x4)
  BY DEF S1, S2, S3, Four
<1> HIDE DEF S4
<1>6. Cardinality(S) \in Nat
  BY FS_CardinalityType
<1>7. Cardinality(S4) = Cardinality(S) + P1 + P2 + P3 + P4
  BY <1>1, <1>2, <1>3, <1>4, <1>6
<1>8. QED
  BY <1>4, <1>5, <1>7

\* The names of the bytes differ.
LEMMA FourNames == Apart({}, "ta", "tb", "tc", "td") /\ Cardinality({}) = 0 
BY FS_EmptySet DEF Apart

\* Whether a level has a byte counts as one or none.
LEMMA HasIs == ASSUME NEW l, NEW b PROVE Has(l, b) \in {0, 1} /\ (Has(l, b) = 1 <=> There(l, b))
BY DEF Has

\* The bytes of a level are those it has.
LEMMA SizeIs ==
    ASSUME NEW l
    PROVE  LevelSize(l) = Has(l, "ta") + Has(l, "tb") + Has(l, "tc") + Has(l, "td")
<1> DEFINE X == Four({}, Has(l, "ta"), "ta", Has(l, "tb"), "tb", Has(l, "tc"), "tc", Has(l, "td"), "td")
<1>1. {b \in Bytes4 : There(l, b)} = X
  BY HasIs DEF Here, Four, Bytes4
<1>2. Cardinality(X) = Cardinality({}) + Has(l, "ta") + Has(l, "tb") + Has(l, "tc") + Has(l, "td")
  BY HasIs, FourNames, CountFour
<1>3. QED
  BY <1>1, <1>2, HasIs, FourNames DEF LevelSize

\* Those before each of them in its level.
Within(l, b) ==
    Cardinality({c \in Bytes4 : There(l, c) /\ c \in (CASE b = "ta" -> {}
                                                  [] b = "tb" -> {"ta"}
                                                  [] b = "tc" -> {"ta", "tb"}
                                                  [] b = "td" -> {"ta", "tb", "tc"})})

\* The bytes of a level before a byte, counted.
LEMMA WithinIs ==
    ASSUME NEW l
    PROVE  /\ Within(l, "ta") = 0
           /\ Within(l, "tb") = Has(l, "ta")
           /\ Within(l, "tc") = Has(l, "ta") + Has(l, "tb")
           /\ Within(l, "td") = Has(l, "ta") + Has(l, "tb") + Has(l, "tc")
<1>1. Has(l, "ta") \in {0, 1} /\ Has(l, "tb") \in {0, 1} /\ Has(l, "tc") \in {0, 1}
  BY HasIs
<1>2. Cardinality({}) = 0
  BY FS_EmptySet
<1> DEFINE X(P1, P2, P3) == Four({}, P1, "ta", P2, "tb", P3, "tc", 0, "td")
<1>3. ASSUME NEW P1 \in {0, 1}, NEW P2 \in {0, 1}, NEW P3 \in {0, 1}
      PROVE  Cardinality(X(P1, P2, P3)) = P1 + P2 + P3
  <2>1. Cardinality(X(P1, P2, P3)) = Cardinality({}) + P1 + P2 + P3 + 0
    BY FourNames, CountFour
  <2>2. QED
    BY <1>2, <2>1
<1>4. Within(l, "ta") = Cardinality({})
  <2>1. {c \in Bytes4 : There(l, c) /\ c \in {}} = {}
    OBVIOUS
  <2>2. Within(l, "ta") = Cardinality({c \in Bytes4 : There(l, c) /\ c \in {}})
    BY DEF Within
  <2>3. QED
    BY <2>1, <2>2
<1>5. Within(l, "tb") = Cardinality(X(Has(l, "ta"), 0, 0))
  <2>1. {c \in Bytes4 : There(l, c) /\ c \in {"ta"}} = X(Has(l, "ta"), 0, 0)
    BY HasIs DEF Bytes4, Here, Four
  <2>2. Within(l, "tb") = Cardinality({c \in Bytes4 : There(l, c) /\ c \in {"ta"}})
    BY DEF Within
  <2>3. QED
    BY <2>1, <2>2
<1>6. Within(l, "tc") = Cardinality(X(Has(l, "ta"), Has(l, "tb"), 0))
  <2>1. {c \in Bytes4 : There(l, c) /\ c \in {"ta", "tb"}} = X(Has(l, "ta"), Has(l, "tb"), 0)
    BY HasIs DEF Bytes4, Here, Four
  <2>2. Within(l, "tc") = Cardinality({c \in Bytes4 : There(l, c) /\ c \in {"ta", "tb"}})
    BY DEF Within
  <2>3. QED
    BY <2>1, <2>2
<1>7. Within(l, "td") = Cardinality(X(Has(l, "ta"), Has(l, "tb"), Has(l, "tc")))
  <2>1. {c \in Bytes4 : There(l, c) /\ c \in {"ta", "tb", "tc"}} = X(Has(l, "ta"), Has(l, "tb"), Has(l, "tc"))
    BY HasIs DEF Bytes4, Here, Four
  <2>2. Within(l, "td") = Cardinality({c \in Bytes4 : There(l, c) /\ c \in {"ta", "tb", "tc"}})
    BY DEF Within
  <2>3. QED
    BY <2>1, <2>2
<1> HIDE DEF X
<1>8. Within(l, "tb") = Has(l, "ta") + 0 + 0
  BY <1>1, <1>3, <1>5, Zenon
<1>9. Within(l, "tc") = Has(l, "ta") + Has(l, "tb") + 0
  BY <1>1, <1>3, <1>6, Zenon
<1>10. Within(l, "td") = Has(l, "ta") + Has(l, "tb") + Has(l, "tc")
  BY <1>1, <1>3, <1>7, Zenon
<1>11. QED
  BY <1>1, <1>2, <1>4, <1>8, <1>9, <1>10

\* A card's levels: only the last one has no TD.
LevelsOk ==
    /\ Len(levels) \in Nat \ {0} /\ levels \in [1..Len(levels) -> Level]
    /\ \A l \in 1..Len(levels) : levels[l].td = NoTd <=> l = Len(levels)

\* The bytes before a level.
LEMMA BeforeIs ==
    ASSUME LevelsOk
    PROVE  /\ Before(levels, 1) = 0
           /\ \A n \in 1..(Len(levels) + 1) : Before(levels, n) \in Nat
           /\ \A n \in 1..Len(levels) : Before(levels, n + 1) = Before(levels, n) + LevelSize(levels[n])
<1>0. PICK N \in Nat \ {0} : N = Len(levels)
  BY DEF LevelsOk
<1> DEFINE Y(n) == {x \in (1..(n - 1)) \X Bytes4 : There(levels[x[1]], x[2])}
<1>1. IsFiniteSet(Bytes4)
  <2>2. IsFiniteSet(Four({}, 1, "ta", 1, "tb", 1, "tc", 1, "td"))
    BY FourNames, CountFour
  <2>3. Four({}, 1, "ta", 1, "tb", 1, "tc", 1, "td") = Bytes4
    BY DEF Here, Four, Bytes4
  <2>4. QED
    BY <2>2, <2>3
<1>2. ASSUME NEW n \in 1..(Len(levels) + 1)
      PROVE  IsFiniteSet(Y(n)) /\ Before(levels, n) = Cardinality(Y(n)) /\ Cardinality(Y(n)) \in Nat
  <2>1. 1 \in Int /\ n - 1 \in Int
    BY <1>0
  <2>2. IsFiniteSet(1..(n - 1))
    BY <2>1, FS_Interval
  <2>3. IsFiniteSet((1..(n - 1)) \X Bytes4)
    BY <1>1, <2>2, FS_Product
  <2>4. IsFiniteSet(Y(n))
    BY <2>3, FS_Subset
  <2>5. QED
    BY <2>4, FS_CardinalityType DEF Before
<1>3. Before(levels, 1) = 0
  <2>1. 1..(1 - 1) = {}
    OBVIOUS
  <2>2. Y(1) = {}
    BY <2>1
  <2>3. QED
    BY <2>2, FS_EmptySet DEF Before
<1>4. ASSUME NEW n \in 1..Len(levels) PROVE Before(levels, n + 1) = Before(levels, n) + LevelSize(levels[n])
  <2>1. n \in 1..(Len(levels) + 1) /\ n + 1 \in 1..(Len(levels) + 1) /\ n \in Nat
    BY <1>0
  <2>2. PICK l \in Level : l = levels[n]
    <3>1. levels[n] \in Level
      BY DEF LevelsOk
    <3>2. QED
      BY <3>1, Zenon
  <2>3. PICK A1 \in {0, 1}, A2 \in {0, 1}, A3 \in {0, 1}, A4 \in {0, 1} :
            A1 = Has(l, "ta") /\ A2 = Has(l, "tb") /\ A3 = Has(l, "tc") /\ A4 = Has(l, "td")
    BY HasIs
  <2>3a. (A1 = 1 <=> There(l, "ta")) /\ (A2 = 1 <=> There(l, "tb")) /\ (A3 = 1 <=> There(l, "tc")) /\ (A4 = 1 <=> There(l, "td"))
    BY <2>3, HasIs
  <2>4. Y(n + 1) = Y(n) \cup Here(A1, <<n, "ta">>) \cup Here(A2, <<n, "tb">>) \cup Here(A3, <<n, "tc">>) \cup Here(A4, <<n, "td">>)
    <3> DEFINE Z == Y(n) \cup Here(A1, <<n, "ta">>) \cup Here(A2, <<n, "tb">>) \cup Here(A3, <<n, "tc">>) \cup Here(A4, <<n, "td">>)
    <3>1. 1..((n + 1) - 1) = (1..(n - 1)) \cup {n} /\ n \notin 1..(n - 1)
      BY <2>1
    <3>2. ASSUME NEW x \in Y(n + 1) PROVE x \in Z
      <4>1. PICK k \in 1..((n + 1) - 1), b \in Bytes4 : x = <<k, b>> /\ There(levels[k], b)
        OBVIOUS
      <4>2. CASE k = n
        <5>1. There(l, b)
          BY <2>2, <4>1, <4>2
        <5>2. QED
          BY <2>3a, <4>1, <4>2, <5>1 DEF Here, Bytes4
      <4>3. CASE k # n
        <5>1. k \in 1..(n - 1)
          BY <3>1, <4>3
        <5>2. x \in Y(n)
          BY <4>1, <5>1
        <5>3. QED
          BY <5>2
      <4>4. QED
        BY <4>2, <4>3
    <3>3. ASSUME NEW x \in Z PROVE x \in Y(n + 1)
      <4>1. CASE x \in Y(n)
        <5>1. PICK k \in 1..(n - 1), b \in Bytes4 : x = <<k, b>> /\ There(levels[k], b)
          BY <4>1
        <5>2. k \in 1..((n + 1) - 1)
          BY <3>1
        <5>3. QED
          BY <5>1, <5>2
      <4>2. CASE x \notin Y(n)
        <5>1. PICK b \in Bytes4 : x = <<n, b>> /\ There(l, b)
          BY <2>3a, <4>2 DEF Here, Bytes4
        <5>2. n \in 1..((n + 1) - 1)
          BY <3>1
        <5>3. QED
          BY <2>2, <5>1, <5>2
      <4>3. QED
        BY <4>1, <4>2
    <3>4. QED
      BY <3>2, <3>3
  <2>5. \A b \in Bytes4 : <<n, b>> \notin Y(n)
    BY <2>1
  <2>6. PICK S : S = Y(n)
    OBVIOUS
  <2>7. /\ <<n, "ta">> \notin S /\ <<n, "tb">> \notin S /\ <<n, "tc">> \notin S /\ <<n, "td">> \notin S
        /\ IsFiniteSet(S) /\ Before(levels, n) = Cardinality(S) /\ Cardinality(S) \in Nat
    BY <1>2, <2>1, <2>5, <2>6 DEF Bytes4
  <2>8. PICK x1, x2, x3, x4 : x1 = <<n, "ta">> /\ x2 = <<n, "tb">> /\ x3 = <<n, "tc">> /\ x4 = <<n, "td">>
    OBVIOUS
  <2>9. x1 # x2 /\ x1 # x3 /\ x1 # x4 /\ x2 # x3 /\ x2 # x4 /\ x3 # x4
    BY <2>8
  <2>10. Cardinality(Four(S, A1, x1, A2, x2, A3, x3, A4, x4))
         = Cardinality(S) + A1 + A2 + A3 + A4
    <3>1. x1 \notin S /\ x2 \notin S /\ x3 \notin S /\ x4 \notin S
      BY <2>7, <2>8, Zenon
    <3>2. Apart(S, x1, x2, x3, x4)
      BY <2>7, <2>9, <3>1 DEF Apart
    <3>3. QED
      BY <3>2, CountFour
  <2>11. Before(levels, n + 1) = Cardinality(S) + A1 + A2 + A3 + A4
    <3>1. Before(levels, n + 1) = Cardinality(Y(n + 1))
      BY <1>2, <2>1
    <3>2. QED
      BY <2>4, <2>6, <2>8, <2>10, <3>1, Zenon DEF Four
  <2>12. LevelSize(levels[n]) = A1 + A2 + A3 + A4
    BY <2>2, <2>3, SizeIs, Zenon
  <2>13. QED
    BY <2>7, <2>11, <2>12
<1>5. QED
  BY <1>2, <1>3, <1>4

\* Where the bytes of a level are.
LEMMA PlaceIs ==
    ASSUME LevelsOk, NEW l \in 1..Len(levels)
    PROVE  /\ PlaceOf(l, "ta") = 3 + Before(levels, l)
           /\ PlaceOf(l, "tb") = PlaceOf(l, "ta") + Has(levels[l], "ta")
           /\ PlaceOf(l, "tc") = PlaceOf(l, "tb") + Has(levels[l], "tb")
           /\ PlaceOf(l, "td") = PlaceOf(l, "tc") + Has(levels[l], "tc")
           /\ 3 + Before(levels, l + 1) = PlaceOf(l, "td") + Has(levels[l], "td")
           /\ Before(levels, l) \in Nat /\ Before(levels, l + 1) \in Nat
           /\ \A b \in Bytes4 : PlaceOf(l, b) \in Nat
<1>1. PICK n \in Nat \ {0} : n = Len(levels)
  BY DEF LevelsOk
<1>2. l \in 1..(Len(levels) + 1) /\ l + 1 \in 1..(Len(levels) + 1)
  BY <1>1
<1>3. PICK x \in Nat, y \in Nat : x = Before(levels, l) /\ y = Before(levels, l + 1)
  BY <1>2, BeforeIs
<1>4. PICK A1 \in {0, 1}, A2 \in {0, 1}, A3 \in {0, 1}, A4 \in {0, 1} :
          A1 = Has(levels[l], "ta") /\ A2 = Has(levels[l], "tb") /\ A3 = Has(levels[l], "tc") /\ A4 = Has(levels[l], "td")
  BY HasIs
<1>5. \A b : PlaceOf(l, b) = 3 + Before(levels, l) + Within(levels[l], b)
  BY Zenon DEF PlaceOf, Within
<1>6. /\ Within(levels[l], "ta") = 0 /\ Within(levels[l], "tb") = A1
      /\ Within(levels[l], "tc") = A1 + A2 /\ Within(levels[l], "td") = A1 + A2 + A3
  BY <1>4, WithinIs, Zenon
<1>7. /\ PlaceOf(l, "ta") = 3 + x /\ PlaceOf(l, "tb") = 3 + x + A1 /\ PlaceOf(l, "tc") = 3 + x + (A1 + A2)
      /\ PlaceOf(l, "td") = 3 + x + (A1 + A2 + A3)
  <2>1. PlaceOf(l, "ta") = 3 + x + 0
    BY <1>3, <1>5, <1>6, Zenon
  <2>2. QED
    BY <1>3, <1>5, <1>6, <2>1
<1>8. y = x + LevelSize(levels[l])
  BY <1>3, BeforeIs, Zenon
<1>9. LevelSize(levels[l]) = A1 + A2 + A3 + A4
  BY <1>4, SizeIs, Zenon
<1>10. y = x + (A1 + A2 + A3 + A4)
  BY <1>8, <1>9, Zenon
<1>11. \A b \in Bytes4 : b = "ta" \/ b = "tb" \/ b = "tc" \/ b = "td"
  BY DEF Bytes4
<1>12. /\ 3 + x + A1 = (3 + x) + A1 /\ 3 + x + (A1 + A2) = (3 + x + A1) + A2
       /\ 3 + x + (A1 + A2 + A3) = (3 + x + (A1 + A2)) + A3
       /\ 3 + y = (3 + x + (A1 + A2 + A3)) + A4
       /\ 3 + x \in Nat /\ 3 + x + A1 \in Nat /\ 3 + x + (A1 + A2) \in Nat /\ 3 + x + (A1 + A2 + A3) \in Nat
  BY <1>10
<1>13. \A b \in Bytes4 : PlaceOf(l, b) \in Nat
  BY <1>7, <1>11, <1>12, Zenon
<1>14. QED
  BY <1>3, <1>4, <1>7, <1>12, <1>13, Zenon

\* There is no less before a later level.
LEMMA BeforeMore ==
    ASSUME LevelsOk, NEW i \in 1..(Len(levels) + 1), NEW j \in 1..(Len(levels) + 1), i <= j
    PROVE  Before(levels, i) <= Before(levels, j)
<1> DEFINE B(n) == Before(levels, n)
           T == {n \in Nat : i + n \in 1..(Len(levels) + 1) /\ ~(B(i) <= B(i + n))}
<1>1. PICK N \in Nat \ {0} : N = Len(levels)
  BY DEF LevelsOk
<1>2. \A n \in 1..(N + 1) : B(n) \in Nat
  BY <1>1, BeforeIs
<1>3. \A n \in 1..N : B(n + 1) >= B(n)
  <2>1. ASSUME NEW n \in 1..N PROVE B(n + 1) >= B(n)
    <3>1. B(n + 1) = B(n) + LevelSize(levels[n])
      BY <1>1, BeforeIs
    <3>2. LevelSize(levels[n]) \in Nat
      BY SizeIs, HasIs
    <3>3. B(n) \in Nat
      BY <1>2
    <3>4. QED
      BY <3>1, <3>2, <3>3
  <2>2. QED
    BY <2>1
<1> HIDE DEF B
<1>4. T = {}
  <2>1. SUFFICES ASSUME T # {} PROVE FALSE
    OBVIOUS
  <2>2. PICK n \in T : \A m \in T : n <= m
    <3>1. T \subseteq Nat
      OBVIOUS
    <3>2. QED
      BY <2>1, <3>1, LeastNumber
  <2>3. n \in Nat /\ i + n \in 1..(N + 1) /\ ~(B(i) <= B(i + n)) /\ i \in 1..(N + 1)
    BY <1>1
  <2>4. n # 0
    <3>1. B(i + 0) = B(i)
      <4>1. i + 0 = i
        BY <2>3
      <4>2. QED
        BY <4>1, Zenon
    <3>2. B(i) \in Nat
      BY <1>2, <2>3
    <3>3. QED
      BY <2>3, <3>1, <3>2
  <2>5. PICK k \in Nat : n = k + 1
    <3>1. n - 1 \in Nat /\ n = (n - 1) + 1
      BY <2>3, <2>4
    <3>2. QED
      BY <3>1
  <2>6. k \notin T /\ i + k \in 1..N /\ i + k \in 1..(N + 1) /\ (i + k) + 1 = i + n
    BY <2>2, <2>3, <2>5
  <2>7. B(i) <= B(i + k)
    BY <1>1, <2>6
  <2>8. B(i + n) >= B(i + k)
    <3>1. B((i + k) + 1) >= B(i + k)
      BY <1>3, <2>6
    <3>2. QED
      BY <2>6, <3>1, Zenon
  <2>9. B(i) \in Nat /\ B(i + k) \in Nat /\ B(i + n) \in Nat
    BY <1>2, <2>3, <2>6
  <2>10. QED
    BY <2>3, <2>7, <2>8, <2>9
<1>5. j - i \in Nat /\ i + (j - i) = j /\ i + (j - i) \in 1..(Len(levels) + 1)
  BY <1>1
<1>6. B(i) <= B(i + (j - i))
  BY <1>4, <1>5
<1>7. QED
  BY <1>5, <1>6 DEF B

\* Every byte is behind those before it.
LEMMA PlacesAscend ==
    ASSUME LevelsOk, NEW l \in 1..Len(levels), NEW k \in 1..Len(levels), NEW b \in Bytes4, NEW c \in Bytes4,
           l < k, There(levels[l], b)
    PROVE  PlaceOf(l, b) < PlaceOf(k, c)
<1>1. PICK n \in Nat \ {0} : n = Len(levels)
  BY DEF LevelsOk
<1>2. PICK A1 \in {0, 1}, A2 \in {0, 1}, A3 \in {0, 1}, A4 \in {0, 1} :
          A1 = Has(levels[l], "ta") /\ A2 = Has(levels[l], "tb") /\ A3 = Has(levels[l], "tc") /\ A4 = Has(levels[l], "td")
  BY HasIs
<1>3. PICK C1 \in {0, 1}, C2 \in {0, 1}, C3 \in {0, 1} :
          C1 = Has(levels[k], "ta") /\ C2 = Has(levels[k], "tb") /\ C3 = Has(levels[k], "tc")
  BY HasIs
<1>4. PICK x1 \in Nat, x2 \in Nat, x3 \in Nat, x4 \in Nat, y \in Nat :
          /\ x1 = PlaceOf(l, "ta") /\ x2 = PlaceOf(l, "tb") /\ x3 = PlaceOf(l, "tc") /\ x4 = PlaceOf(l, "td")
          /\ y = Before(levels, l + 1)
  BY PlaceIs DEF Bytes4
<1>5. x2 = x1 + A1 /\ x3 = x2 + A2 /\ x4 = x3 + A3 /\ 3 + y = x4 + A4
  BY <1>2, <1>4, PlaceIs, Zenon
<1>6. PICK z1 \in Nat, z2 \in Nat, z3 \in Nat, z4 \in Nat, z \in Nat :
          /\ z1 = PlaceOf(k, "ta") /\ z2 = PlaceOf(k, "tb") /\ z3 = PlaceOf(k, "tc") /\ z4 = PlaceOf(k, "td")
          /\ z = Before(levels, k)
  BY PlaceIs DEF Bytes4
<1>7. z1 = 3 + z /\ z2 = z1 + C1 /\ z3 = z2 + C2 /\ z4 = z3 + C3
  BY <1>3, <1>6, PlaceIs, Zenon
<1>8. y <= z
  <2>1. l + 1 \in 1..(Len(levels) + 1) /\ k \in 1..(Len(levels) + 1) /\ l + 1 <= k
    BY <1>1
  <2>2. QED
    BY <1>4, <1>6, <2>1, BeforeMore
<1>9. PlaceOf(l, b) < 3 + y
  <2>1. Has(levels[l], b) = 1
    BY DEF Has
  <2>2. PICK v : v = PlaceOf(l, b)
    OBVIOUS
  <2>3. (v = x1 /\ A1 = 1) \/ (v = x2 /\ A2 = 1) \/ (v = x3 /\ A3 = 1) \/ (v = x4 /\ A4 = 1)
    <3>1. b = "ta" \/ b = "tb" \/ b = "tc" \/ b = "td"
      BY DEF Bytes4
    <3>2. ASSUME b = "ta" PROVE v = x1 /\ A1 = 1
      <4>1. v = x1
        BY <1>4, <2>2, <3>2
      <4>2. A1 = 1
        BY <1>2, <2>1, <3>2
      <4>3. QED
        BY <4>1, <4>2
    <3>3. ASSUME b = "tb" PROVE v = x2 /\ A2 = 1
      <4>1. v = x2
        BY <1>4, <2>2, <3>3
      <4>2. A2 = 1
        BY <1>2, <2>1, <3>3
      <4>3. QED
        BY <4>1, <4>2
    <3>4. ASSUME b = "tc" PROVE v = x3 /\ A3 = 1
      <4>1. v = x3
        BY <1>4, <2>2, <3>4
      <4>2. A3 = 1
        BY <1>2, <2>1, <3>4
      <4>3. QED
        BY <4>1, <4>2
    <3>5. ASSUME b = "td" PROVE v = x4 /\ A4 = 1
      <4>1. v = x4
        BY <1>4, <2>2, <3>5
      <4>2. A4 = 1
        BY <1>2, <2>1, <3>5
      <4>3. QED
        BY <4>1, <4>2
    <3>6. QED
      BY <3>1, <3>2, <3>3, <3>4, <3>5, Zenon
  <2>4. v < 3 + y
    BY <1>5, <2>3
  <2>5. QED
    BY <2>2, <2>4
<1>10. 3 + z <= PlaceOf(k, c) /\ PlaceOf(k, c) \in Nat
  <2>1. PICK v : v = PlaceOf(k, c)
    OBVIOUS
  <2>2. v = z1 \/ v = z2 \/ v = z3 \/ v = z4
    <3>1. c = "ta" \/ c = "tb" \/ c = "tc" \/ c = "td"
      BY DEF Bytes4
    <3>2. CASE c = "ta"
      BY <1>6, <2>1, <3>2
    <3>3. CASE c = "tb"
      BY <1>6, <2>1, <3>3
    <3>4. CASE c = "tc"
      BY <1>6, <2>1, <3>4
    <3>5. CASE c = "td"
      BY <1>6, <2>1, <3>5
    <3>6. QED
      BY <3>1, <3>2, <3>3, <3>4, <3>5
  <2>3. 3 + z <= v /\ v \in Nat
    BY <1>7, <2>2
  <2>4. QED
    BY <2>1, <2>3
<1>11. PlaceOf(l, b) \in Nat
  BY PlaceIs
<1>12. QED
  BY <1>8, <1>9, <1>10, <1>11

\* No two bytes are at the same place.
LEMMA PlacesDiffer ==
    ASSUME LevelsOk, NEW l \in 1..Len(levels), NEW k \in 1..Len(levels), NEW b \in Bytes4, NEW c \in Bytes4,
           There(levels[l], b), There(levels[k], c), PlaceOf(l, b) = PlaceOf(k, c)
    PROVE  l = k /\ b = c
<1>1. PICK n \in Nat \ {0} : n = Len(levels)
  BY DEF LevelsOk
<1>2. PlaceOf(l, b) \in Nat /\ PlaceOf(k, c) \in Nat
  BY PlaceIs
<1>3. ~(l < k) /\ ~(k < l)
  <2>1. ~(l < k)
    BY <1>2, PlacesAscend
  <2>2. ~(k < l)
    BY <1>2, PlacesAscend
  <2>3. QED
    BY <2>1, <2>2
<1>4. l = k
  BY <1>1, <1>3
<1>5. PICK A1 \in {0, 1}, A2 \in {0, 1}, A3 \in {0, 1} :
          A1 = Has(levels[l], "ta") /\ A2 = Has(levels[l], "tb") /\ A3 = Has(levels[l], "tc")
  BY HasIs
<1>6. PICK x1 \in Nat, x2 \in Nat, x3 \in Nat, x4 \in Nat :
          /\ x1 = PlaceOf(l, "ta") /\ x2 = PlaceOf(l, "tb") /\ x3 = PlaceOf(l, "tc") /\ x4 = PlaceOf(l, "td")
  BY PlaceIs DEF Bytes4
<1>7. x2 = x1 + A1 /\ x3 = x2 + A2 /\ x4 = x3 + A3
  BY <1>5, <1>6, PlaceIs, Zenon
<1>8. Has(levels[l], b) = 1 /\ Has(levels[l], c) = 1
  BY <1>4 DEF Has
<1>9. PlaceOf(l, b) = PlaceOf(l, c)
  BY <1>4
<1>10. b = c
  <2>1. PICK v : v = PlaceOf(l, b) /\ v = PlaceOf(l, c)
    BY <1>9
  <2>2. \/ b = "ta" /\ v = x1 /\ A1 = 1
        \/ b = "tb" /\ v = x2 /\ A2 = 1
        \/ b = "tc" /\ v = x3 /\ A3 = 1
        \/ b = "td" /\ v = x4
    <3>1. b = "ta" \/ b = "tb" \/ b = "tc" \/ b = "td"
      BY DEF Bytes4
    <3>2. QED
      BY <1>5, <1>6, <1>8, <2>1, <3>1, Zenon
  <2>3. \/ c = "ta" /\ v = x1 /\ A1 = 1
        \/ c = "tb" /\ v = x2 /\ A2 = 1
        \/ c = "tc" /\ v = x3 /\ A3 = 1
        \/ c = "td" /\ v = x4
    <3>1. c = "ta" \/ c = "tb" \/ c = "tc" \/ c = "td"
      BY DEF Bytes4
    <3>2. QED
      BY <1>5, <1>6, <1>8, <2>1, <3>1, Zenon
  <2>4. QED
    BY <1>7, <2>2, <2>3
<1>11. QED
  BY <1>4, <1>10

-----------------------------------------------------------------------------
(* The walk through the levels *)

\* The last place of a set before x.
LastBelow(S, x) == Max({i \in S : i < x} \cup {Unset})

\* The bound that is a member is the last place.
LEMMA LastIs ==
    ASSUME NEW S \in SUBSET Nat, NEW x \in Nat, NEW m \in {j \in S : j < x} \cup {Unset},
           \A i \in {j \in S : j < x} \cup {Unset} : i <= m
    PROVE  LastBelow(S, x) = m
<1> DEFINE X == {j \in S : j < x} \cup {Unset}
<1>0. X \subseteq Nat
  <2>1. \A j \in S : j \in Nat
    OBVIOUS
  <2>2. Unset \in Nat
    BY DEF Unset
  <2>3. \A j \in X : j \in Nat
    BY <2>1, <2>2, Zenon
  <2>4. QED
    BY <2>3, Zenon
<1>1. X \subseteq Nat /\ m \in X /\ \A i \in X : m >= i
  <2>1. m \in X /\ \A i \in X : i <= m
    OBVIOUS
  <2>2. QED
    BY <1>0, <2>1
<1>2. ASSUME NEW y \in X, \A i \in X : y >= i PROVE y = m
  <2>1. y >= m /\ m >= y /\ y \in Nat /\ m \in Nat
    BY <1>1, <1>2
  <2>2. QED
    BY <2>1
<1>3. LastBelow(S, x) = CHOOSE y \in X : \A i \in X : y >= i
  BY DEF LastBelow, Max
<1> HIDE DEF X
<1>4. QED
  BY <1>1, <1>2, <1>3

\* With one more place.
LEMMA LastStep ==
    ASSUME NEW S \in SUBSET Nat, NEW x \in Nat \ {0}
    PROVE  LastBelow(S, x + 1) = IF x \in S THEN x ELSE LastBelow(S, x)
<1>1. CASE x \in S
  <2>1. x \in {j \in S : j < x + 1} \cup {Unset} /\ \A i \in {j \in S : j < x + 1} \cup {Unset} : i <= x
    BY <1>1 DEF Unset
  <2>2. QED
    BY <1>1, <2>1, LastIs
<1>2. CASE x \notin S
  <2>1. {j \in S : j < x + 1} = {j \in S : j < x}
    <3>1. \A i \in S : i < x + 1 <=> i < x
      BY <1>2
    <3>2. QED
      BY <3>1, Zenon
  <2>2. QED
    BY <1>2, <2>1, Zenon DEF LastBelow
<1>3. QED
  BY <1>1, <1>2

\* Before all places.
LEMMA LastNone ==
    ASSUME NEW S \in SUBSET Nat, NEW x \in Nat, \A i \in S : i >= x
    PROVE  LastBelow(S, x) = Unset
<1>1. {j \in S : j < x} = {}
  <2>1. \A j \in S : j \in Nat /\ j >= x
    OBVIOUS
  <2>2. \A j \in S : ~(j < x)
    BY <2>1
  <2>3. QED
    BY <2>2, Zenon
<1>2. Unset \in {j \in S : j < x} \cup {Unset} /\ \A i \in {j \in S : j < x} \cup {Unset} : i <= Unset
  BY <1>1 DEF Unset
<1>3. QED
  BY <1>2, LastIs

\* Behind all that arrived, or behind all.
LEMMA LastAll ==
    ASSUME NEW S \in SUBSET Nat, NEW x \in Nat, got \in Nat, x <= got + 1, x = got + 1 \/ \A i \in S : i < x
    PROVE  LastPlace(S) = LastBelow(S, x)
<1>1. \A i \in S : i <= got <=> i < x
  OBVIOUS
<1>2. {i \in S : i <= got} = {i \in S : i < x}
  BY <1>1, Zenon
<1>3. QED
  BY <1>2, Zenon DEF LastPlace, LastBelow

\* What the sets of places hold.
LEMMA PlaceSets ==
    ASSUME LevelsOk, NEW b \in Bytes4, NEW n \in {2, 3}
    PROVE  /\ First1(b) \in SUBSET Nat /\ Places(n, b) \in SUBSET Nat
           /\ \A i \in First1(b) : \E l \in 1..Len(levels) : There(levels[l], b) /\ i = PlaceOf(l, b)
           /\ \A i \in Places(n, b) : \E l \in 1..Len(levels) : There(levels[l], b) /\ i = PlaceOf(l, b)
<1>1. PICK N \in Nat \ {0} : N = Len(levels)
  BY DEF LevelsOk
<1>2. 1 \in 1..Len(levels) /\ \A l \in n..Len(levels) : l \in 1..Len(levels)
  BY <1>1
<1>3. \A i \in First1(b) : There(levels[1], b) /\ i = PlaceOf(1, b)
  BY DEF First1
<1>4. \A i \in Places(n, b) : \E l \in n..Len(levels) : There(levels[l], b) /\ i = PlaceOf(l, b)
  BY DEF Places
<1>5. \A l \in 1..Len(levels) : PlaceOf(l, b) \in Nat
  BY PlaceIs
<1>6. QED
  BY <1>2, <1>3, <1>4, <1>5

\* A byte is at a first-level place when it is that byte of the first level.
LEMMA InFirst ==
    ASSUME LevelsOk, NEW l \in 1..Len(levels), NEW b \in Bytes4, NEW c \in Bytes4, There(levels[l], b)
    PROVE  PlaceOf(l, b) \in First1(c) <=> (l = 1 /\ b = c)
<1>1. PICK N \in Nat \ {0} : N = Len(levels)
  BY DEF LevelsOk
<1>2. ASSUME PlaceOf(l, b) \in First1(c) PROVE l = 1 /\ b = c
  <2>1. There(levels[1], c) /\ PlaceOf(l, b) = PlaceOf(1, c) /\ 1 \in 1..Len(levels)
    BY <1>1, <1>2 DEF First1
  <2>2. QED
    BY <2>1, PlacesDiffer
<1>3. ASSUME l = 1, b = c PROVE PlaceOf(l, b) \in First1(c)
  BY <1>3 DEF First1
<1>4. QED
  BY <1>2, <1>3

\* A byte is at a place of T=1 when its level follows a TD of T=1.
LEMMA InPlaces ==
    ASSUME LevelsOk, NEW l \in 1..Len(levels), NEW b \in Bytes4, NEW c \in Bytes4, There(levels[l], b), NEW n \in {2, 3}
    PROVE  PlaceOf(l, b) \in Places(n, c) <=> (l >= n /\ b = c /\ levels[l - 1].td = 1)
<1>1. PICK N \in Nat \ {0} : N = Len(levels)
  BY DEF LevelsOk
<1>2. ASSUME PlaceOf(l, b) \in Places(n, c) PROVE l >= n /\ b = c /\ levels[l - 1].td = 1
  <2>1. PICK k \in n..Len(levels) : There(levels[k], c) /\ levels[k - 1].td = 1 /\ PlaceOf(l, b) = PlaceOf(k, c)
    BY <1>2 DEF Places
  <2>2. k \in 1..Len(levels) /\ k >= n
    BY <1>1
  <2>3. l = k /\ b = c
    BY <2>1, <2>2, PlacesDiffer
  <2>4. QED
    BY <2>1, <2>2, <2>3
<1>3. ASSUME l >= n, b = c, levels[l - 1].td = 1 PROVE PlaceOf(l, b) \in Places(n, c)
  <2>1. l \in n..Len(levels)
    BY <1>1, <1>3
  <2>2. QED
    BY <1>3, <2>1 DEF Places
<1>4. QED
  BY <1>2, <1>3

-----------------------------------------------------------------------------
\* The state of parse_atr.
Params == [idx : Nat, level : Nat, proto : Int, done : BOOLEAN, ta1 : Nat, protocol : Int,
           guard : Nat, ifsc : Nat, wait : Nat, edc : Nat]

\* Every parameter is the last byte of its kind before idx.
Seen(q) ==
    /\ q \in Params /\ q.idx >= 3 /\ q.idx <= got + 1
    /\ q.ta1 = LastBelow(First1("ta"), q.idx) /\ q.guard = LastBelow(First1("tc"), q.idx)
    /\ q.ifsc = LastBelow(Places(3, "ta"), q.idx) /\ q.wait = LastBelow(Places(2, "tb"), q.idx)
    /\ q.edc = LastBelow(Places(2, "tc"), q.idx)
    /\ q.protocol = IF LastBelow(First1("td"), q.idx) = Unset THEN 0 ELSE levels[1].td

ProtoOf(l) == IF l = 1 THEN 0 ELSE levels[l - 1].td

\* The walk stands before byte b of level l, or ran out of bytes.
Standing(q, l, b) ==
    /\ Seen(q)
    /\ q.done => q.idx = got + 1
    /\ ~q.done => q.level = l /\ q.proto = ProtoOf(l) /\ q.idx = PlaceOf(l, b)

\* Setting one parameter leaves the others.
LEMMA SetIdx ==
    ASSUME NEW q \in Params, NEW v \in Nat, NEW r, r = [q EXCEPT !.idx = v]
    PROVE  /\ r \in Params /\ r.idx = v
           /\ r.level = q.level /\ r.proto = q.proto /\ r.done = q.done /\ r.ta1 = q.ta1
           /\ r.protocol = q.protocol /\ r.guard = q.guard /\ r.ifsc = q.ifsc /\ r.wait = q.wait /\ r.edc = q.edc
BY DEF Params

\* The end of the bytes.
LEMMA SetDone ==
    ASSUME NEW q \in Params, NEW v \in {TRUE}, NEW r, r = [q EXCEPT !.done = v]
    PROVE  /\ r \in Params /\ r.done = v
           /\ r.idx = q.idx /\ r.level = q.level /\ r.proto = q.proto /\ r.ta1 = q.ta1
           /\ r.protocol = q.protocol /\ r.guard = q.guard /\ r.ifsc = q.ifsc /\ r.wait = q.wait /\ r.edc = q.edc
BY DEF Params

\* TA1.
LEMMA SetTa1 ==
    ASSUME NEW q \in Params, NEW v \in Nat, NEW r, r = [q EXCEPT !.ta1 = v]
    PROVE  /\ r \in Params /\ r.ta1 = v
           /\ r.idx = q.idx /\ r.level = q.level /\ r.proto = q.proto /\ r.done = q.done
           /\ r.protocol = q.protocol /\ r.guard = q.guard /\ r.ifsc = q.ifsc /\ r.wait = q.wait /\ r.edc = q.edc
BY DEF Params

\* The first TA of T=1.
LEMMA SetIfsc ==
    ASSUME NEW q \in Params, NEW v \in Nat, NEW r, r = [q EXCEPT !.ifsc = v]
    PROVE  /\ r \in Params /\ r.ifsc = v
           /\ r.idx = q.idx /\ r.level = q.level /\ r.proto = q.proto /\ r.done = q.done /\ r.ta1 = q.ta1
           /\ r.protocol = q.protocol /\ r.guard = q.guard /\ r.wait = q.wait /\ r.edc = q.edc
BY DEF Params

\* The first TB of T=1.
LEMMA SetWait ==
    ASSUME NEW q \in Params, NEW v \in Nat, NEW r, r = [q EXCEPT !.wait = v]
    PROVE  /\ r \in Params /\ r.wait = v
           /\ r.idx = q.idx /\ r.level = q.level /\ r.proto = q.proto /\ r.done = q.done /\ r.ta1 = q.ta1
           /\ r.protocol = q.protocol /\ r.guard = q.guard /\ r.ifsc = q.ifsc /\ r.edc = q.edc
BY DEF Params

\* TC1.
LEMMA SetGuard ==
    ASSUME NEW q \in Params, NEW v \in Nat, NEW r, r = [q EXCEPT !.guard = v]
    PROVE  /\ r \in Params /\ r.guard = v
           /\ r.idx = q.idx /\ r.level = q.level /\ r.proto = q.proto /\ r.done = q.done /\ r.ta1 = q.ta1
           /\ r.protocol = q.protocol /\ r.ifsc = q.ifsc /\ r.wait = q.wait /\ r.edc = q.edc
BY DEF Params

\* The first TC of T=1.
LEMMA SetEdc ==
    ASSUME NEW q \in Params, NEW v \in Nat, NEW r, r = [q EXCEPT !.edc = v]
    PROVE  /\ r \in Params /\ r.edc = v
           /\ r.idx = q.idx /\ r.level = q.level /\ r.proto = q.proto /\ r.done = q.done /\ r.ta1 = q.ta1
           /\ r.protocol = q.protocol /\ r.guard = q.guard /\ r.ifsc = q.ifsc /\ r.wait = q.wait
BY DEF Params

TdSet(q, t, u, v) == [q EXCEPT !.proto = t, !.protocol = u, !.level = v]

\* A TD: the next level and its protocol.
LEMMA SetTd ==
    ASSUME NEW q \in Params, NEW t \in Int, NEW u \in Int, NEW v \in Nat
    PROVE  LET r == TdSet(q, t, u, v)
           IN  /\ r \in Params /\ r.proto = t /\ r.protocol = u /\ r.level = v
               /\ r.idx = q.idx /\ r.done = q.done /\ r.ta1 = q.ta1
               /\ r.guard = q.guard /\ r.ifsc = q.ifsc /\ r.wait = q.wait /\ r.edc = q.edc
BY DEF Params, TdSet

\* What reading a byte sets.
LEMMA MovedIs ==
    ASSUME LevelsOk, NEW l \in 1..Len(levels), NEW b \in Bytes4, NEW q \in Params, ~q.done, q.level = l,
           There(levels[l], b), q.idx <= got, got \in Nat
    PROVE  LET r == ReadByte(q, b)
           IN  /\ r \in Params /\ r.done = q.done /\ r.idx = q.idx + 1
               /\ r.ta1 = IF b = "ta" /\ l = 1 THEN q.idx ELSE q.ta1
               /\ r.guard = IF b = "tc" /\ l = 1 THEN q.idx ELSE q.guard
               /\ r.ifsc = IF b = "ta" /\ l >= 3 /\ q.proto = 1 THEN q.idx ELSE q.ifsc
               /\ r.wait = IF b = "tb" /\ l >= 2 /\ q.proto = 1 THEN q.idx ELSE q.wait
               /\ r.edc = IF b = "tc" /\ l >= 2 /\ q.proto = 1 THEN q.idx ELSE q.edc
               /\ r.protocol = IF b = "td" /\ l = 1 THEN levels[l].td ELSE q.protocol
               /\ r.proto = IF b = "td" THEN levels[l].td ELSE q.proto
               /\ r.level = IF b = "td" THEN l + 1 ELSE l
<1>1. l \in Nat \ {0}
  <2>1. PICK N \in Nat \ {0} : N = Len(levels)
    BY DEF LevelsOk
  <2>2. QED
    BY <2>1
<1>2. PICK t \in Int : t = levels[l].td
  <2>1. levels[l] \in Level
    BY DEF LevelsOk
  <2>2. levels[l].td \in {NoTd} \cup Protocols
    BY <2>1 DEF Level
  <2>3. levels[l].td \in Int
    <3>1. CASE levels[l].td = NoTd
      BY <3>1 DEF NoTd
    <3>2. CASE levels[l].td \in Protocols
      <4>1. Protocols \subseteq Nat
        BY AtrAssumption
      <4>2. levels[l].td \in Nat
        BY <3>2, <4>1, Zenon
      <4>3. \A n \in Nat : n \in Int
        OBVIOUS
      <4>4. QED
        BY <4>2, <4>3, Zenon
    <3>3. QED
      BY <2>2, <3>1, <3>2
  <2>4. QED
    BY <2>3, Zenon
<1>3. PICK i \in Nat : i = q.idx /\ i <= got
  BY DEF Params
<1>4. PICK s : s = [q EXCEPT !.idx = i + 1]
  OBVIOUS
<1>5. /\ s \in Params /\ s.done = q.done /\ s.idx = i + 1 /\ s.ta1 = q.ta1 /\ s.guard = q.guard /\ s.ifsc = q.ifsc
      /\ s.wait = q.wait /\ s.edc = q.edc /\ s.protocol = q.protocol /\ s.proto = q.proto /\ s.level = l
  <2>1. i + 1 \in Nat
    OBVIOUS
  <2>2. QED
    BY <1>4, <2>1, SetIdx
<1>5a. ~(q.done \/ ~There(levels[q.level], b)) /\ ~(q.idx > got) /\ s = [q EXCEPT !.idx = @ + 1]
  <2>1. ~(i > got)
    BY <1>3
  <2>2. s = [q EXCEPT !.idx = @ + 1]
    BY <1>3, <1>4, Zenon
  <2>3. QED
    BY <1>3, <2>1, <2>2, Zenon
<1> DEFINE Fields(r) ==
               /\ r \in Params /\ r.done = q.done /\ r.idx = i + 1
               /\ r.ta1 = IF b = "ta" /\ l = 1 THEN i ELSE q.ta1
               /\ r.guard = IF b = "tc" /\ l = 1 THEN i ELSE q.guard
               /\ r.ifsc = IF b = "ta" /\ l >= 3 /\ q.proto = 1 THEN i ELSE q.ifsc
               /\ r.wait = IF b = "tb" /\ l >= 2 /\ q.proto = 1 THEN i ELSE q.wait
               /\ r.edc = IF b = "tc" /\ l >= 2 /\ q.proto = 1 THEN i ELSE q.edc
               /\ r.protocol = IF b = "td" /\ l = 1 THEN t ELSE q.protocol
               /\ r.proto = IF b = "td" THEN t ELSE q.proto
               /\ r.level = IF b = "td" THEN l + 1 ELSE l
<1>6. ASSUME b = "ta" PROVE Fields(ReadByte(q, b))
  <2>1. ReadByte(q, b) = TaByte(s, i)
    BY <1>3, <1>5a, <1>6 DEF ReadByte
  <2>2. PICK r : r = TaByte(s, i)
    OBVIOUS
  <2>3. CASE l = 1
    <3>1. r = [s EXCEPT !.ta1 = i]
      BY <1>5, <2>2, <2>3, Zenon DEF TaByte
    <3>2. /\ r \in Params /\ r.ta1 = i /\ r.idx = s.idx /\ r.level = s.level /\ r.proto = s.proto /\ r.done = s.done
          /\ r.protocol = s.protocol /\ r.guard = s.guard /\ r.ifsc = s.ifsc /\ r.wait = s.wait /\ r.edc = s.edc
      BY <1>5, <3>1, SetTa1
    <3>3. ~(l >= 3) /\ ~(l >= 2)
      BY <2>3
    <3>4. QED
      BY <1>5, <1>6, <2>1, <2>2, <2>3, <3>2, <3>3
  <2>4. CASE l # 1 /\ l >= 3 /\ q.proto = 1
    <3>1. r = [s EXCEPT !.ifsc = i]
      BY <1>5, <2>2, <2>4, Zenon DEF TaByte
    <3>2. /\ r \in Params /\ r.ifsc = i /\ r.idx = s.idx /\ r.level = s.level /\ r.proto = s.proto /\ r.done = s.done
          /\ r.protocol = s.protocol /\ r.guard = s.guard /\ r.ta1 = s.ta1 /\ r.wait = s.wait /\ r.edc = s.edc
      BY <1>5, <3>1, SetIfsc
    <3>3. QED
      BY <1>5, <1>6, <2>1, <2>2, <2>4, <3>2
  <2>5. CASE l # 1 /\ ~(l >= 3 /\ q.proto = 1)
    <3>1. r = s
      BY <1>5, <2>2, <2>5, Zenon DEF TaByte
    <3>2. QED
      BY <1>5, <1>6, <2>1, <2>2, <2>5, <3>1
  <2>6. QED
    BY <2>3, <2>4, <2>5
<1>7. ASSUME b = "tb" PROVE Fields(ReadByte(q, b))
  <2>1. ReadByte(q, b) = TbByte(s, i)
    BY <1>3, <1>5a, <1>7 DEF ReadByte
  <2>2. PICK r : r = TbByte(s, i)
    OBVIOUS
  <2>3. CASE l >= 2 /\ q.proto = 1
    <3>1. r = [s EXCEPT !.wait = i]
      BY <1>5, <2>2, <2>3, Zenon DEF TbByte
    <3>2. /\ r \in Params /\ r.wait = i /\ r.idx = s.idx /\ r.level = s.level /\ r.proto = s.proto /\ r.done = s.done
          /\ r.protocol = s.protocol /\ r.guard = s.guard /\ r.ifsc = s.ifsc /\ r.ta1 = s.ta1 /\ r.edc = s.edc
      BY <1>5, <3>1, SetWait
    <3>3. QED
      BY <1>5, <1>7, <2>1, <2>2, <2>3, <3>2
  <2>4. CASE ~(l >= 2 /\ q.proto = 1)
    <3>1. r = s
      BY <1>5, <2>2, <2>4, Zenon DEF TbByte
    <3>2. QED
      BY <1>5, <1>7, <2>1, <2>2, <2>4, <3>1
  <2>5. QED
    BY <2>3, <2>4
<1>8. ASSUME b = "tc" PROVE Fields(ReadByte(q, b))
  <2>1. ReadByte(q, b) = TcByte(s, i)
    BY <1>3, <1>5a, <1>8 DEF ReadByte
  <2>2. PICK r : r = TcByte(s, i)
    OBVIOUS
  <2>3. CASE l = 1
    <3>1. r = [s EXCEPT !.guard = i]
      BY <1>5, <2>2, <2>3, Zenon DEF TcByte
    <3>2. /\ r \in Params /\ r.guard = i /\ r.idx = s.idx /\ r.level = s.level /\ r.proto = s.proto /\ r.done = s.done
          /\ r.protocol = s.protocol /\ r.ta1 = s.ta1 /\ r.ifsc = s.ifsc /\ r.wait = s.wait /\ r.edc = s.edc
      BY <1>5, <3>1, SetGuard
    <3>3. ~(l >= 2)
      BY <2>3
    <3>4. QED
      BY <1>5, <1>8, <2>1, <2>2, <2>3, <3>2, <3>3
  <2>4. CASE l # 1 /\ q.proto = 1
    <3>1. r = [s EXCEPT !.edc = i]
      BY <1>5, <2>2, <2>4, Zenon DEF TcByte
    <3>2. /\ r \in Params /\ r.edc = i /\ r.idx = s.idx /\ r.level = s.level /\ r.proto = s.proto /\ r.done = s.done
          /\ r.protocol = s.protocol /\ r.guard = s.guard /\ r.ta1 = s.ta1 /\ r.wait = s.wait /\ r.ifsc = s.ifsc
      BY <1>5, <3>1, SetEdc
    <3>3. l >= 2
      BY <1>1, <2>4
    <3>4. QED
      BY <1>5, <1>8, <2>1, <2>2, <2>4, <3>2, <3>3
  <2>5. CASE l # 1 /\ q.proto # 1
    <3>1. r = s
      BY <1>5, <2>2, <2>5, Zenon DEF TcByte
    <3>2. QED
      BY <1>5, <1>8, <2>1, <2>2, <2>5, <3>1
  <2>6. QED
    BY <2>3, <2>4, <2>5
<1>9. ASSUME b = "td" PROVE Fields(ReadByte(q, b))
  <2>1. ReadByte(q, b) = TdByte(s, i)
    BY <1>3, <1>5a, <1>9 DEF ReadByte
  <2>2. PICK r : r = TdByte(s, i)
    OBVIOUS
  <2>3. PICK u \in Int : u = IF l = 1 THEN t ELSE q.protocol
    BY DEF Params
  <2>4. r = [s EXCEPT !.proto = t, !.protocol = u, !.level = l + 1]
    BY <1>2, <1>5, <2>2, <2>3 DEF TdByte
  <2>5. /\ r \in Params /\ r.proto = t /\ r.protocol = u /\ r.level = l + 1 /\ r.idx = s.idx /\ r.done = s.done
        /\ r.ta1 = s.ta1 /\ r.guard = s.guard /\ r.ifsc = s.ifsc /\ r.wait = s.wait /\ r.edc = s.edc
    <3>1. PICK v \in Nat : v = l + 1
      BY <1>1
    <3>2. r = TdSet(s, t, u, v) /\ s \in Params
      BY <1>5, <2>4, <3>1, Zenon DEF TdSet
    <3>3. /\ r \in Params /\ r.proto = t /\ r.protocol = u /\ r.level = v /\ r.idx = s.idx /\ r.done = s.done
          /\ r.ta1 = s.ta1 /\ r.guard = s.guard /\ r.ifsc = s.ifsc /\ r.wait = s.wait /\ r.edc = s.edc
      BY <3>2, SetTd
    <3>4. QED
      BY <3>1, <3>3
  <2>6. QED
    BY <1>5, <1>9, <2>1, <2>2, <2>3, <2>5
<1>10. Fields(ReadByte(q, b))
  BY <1>6, <1>7, <1>8, <1>9 DEF Bytes4
<1>11. QED
  BY <1>2, <1>3, <1>10, Zenon

\* Reading a byte keeps every parameter the last of its kind.
LEMMA SeenMoves ==
    ASSUME LevelsOk, got \in Nat, NEW l \in 1..Len(levels), NEW b \in Bytes4, NEW q, Seen(q), ~q.done,
           q.level = l, q.proto = ProtoOf(l), q.idx = PlaceOf(l, b), There(levels[l], b), q.idx <= got
    PROVE  Seen(ReadByte(q, b)) /\ ReadByte(q, b).idx = q.idx + 1
<1>1. q \in Params
  BY DEF Seen
<1>2. PICK i \in Nat \ {0} : i = q.idx /\ i >= 3
  BY DEF Seen, Params
<1>3. PICK r : r = ReadByte(q, b)
  OBVIOUS
<1>4. /\ r \in Params /\ r.idx = i + 1
      /\ r.ta1 = IF b = "ta" /\ l = 1 THEN i ELSE q.ta1
      /\ r.guard = IF b = "tc" /\ l = 1 THEN i ELSE q.guard
      /\ r.ifsc = IF b = "ta" /\ l >= 3 /\ q.proto = 1 THEN i ELSE q.ifsc
      /\ r.wait = IF b = "tb" /\ l >= 2 /\ q.proto = 1 THEN i ELSE q.wait
      /\ r.edc = IF b = "tc" /\ l >= 2 /\ q.proto = 1 THEN i ELSE q.edc
      /\ r.protocol = IF b = "td" /\ l = 1 THEN levels[l].td ELSE q.protocol
  BY <1>1, <1>2, <1>3, MovedIs
<1>5. "ta" \in Bytes4 /\ "tb" \in Bytes4 /\ "tc" \in Bytes4 /\ "td" \in Bytes4
  BY DEF Bytes4
<1>6. ASSUME NEW S \in SUBSET Nat PROVE LastBelow(S, i + 1) = IF i \in S THEN i ELSE LastBelow(S, i)
  BY LastStep
<1>7. /\ First1("ta") \in SUBSET Nat /\ First1("tc") \in SUBSET Nat /\ First1("td") \in SUBSET Nat
      /\ Places(3, "ta") \in SUBSET Nat /\ Places(2, "tb") \in SUBSET Nat /\ Places(2, "tc") \in SUBSET Nat
  <2>1. \A c \in Bytes4, n \in {2, 3} : First1(c) \in SUBSET Nat /\ Places(n, c) \in SUBSET Nat
    BY PlaceSets
  <2>2. QED
    BY <1>5, <2>1
<1>8. ASSUME NEW c \in Bytes4 PROVE i \in First1(c) <=> (l = 1 /\ b = c)
  BY <1>2, InFirst
<1>9. ASSUME NEW c \in Bytes4, NEW n \in {2, 3} PROVE i \in Places(n, c) <=> (b = c /\ l >= n /\ q.proto = 1)
  <2>1. i \in Places(n, c) <=> (l >= n /\ b = c /\ levels[l - 1].td = 1)
    BY <1>2, InPlaces
  <2>2. l >= n => l # 1
    OBVIOUS
  <2>3. l >= n => q.proto = levels[l - 1].td
    BY <2>2 DEF ProtoOf
  <2>4. QED
    BY <2>1, <2>3
<1>10. r.ta1 = LastBelow(First1("ta"), i + 1)
  <2>1. q.ta1 = LastBelow(First1("ta"), i)
    BY <1>2 DEF Seen
  <2>2. QED
    BY <1>4, <1>5, <1>6, <1>7, <1>8, <2>1
<1>11. r.guard = LastBelow(First1("tc"), i + 1)
  <2>1. q.guard = LastBelow(First1("tc"), i)
    BY <1>2 DEF Seen
  <2>2. QED
    BY <1>4, <1>5, <1>6, <1>7, <1>8, <2>1
<1>12. r.ifsc = LastBelow(Places(3, "ta"), i + 1)
  <2>1. q.ifsc = LastBelow(Places(3, "ta"), i)
    BY <1>2 DEF Seen
  <2>2. i \in Places(3, "ta") <=> (b = "ta" /\ l >= 3 /\ q.proto = 1)
    BY <1>5, <1>9
  <2>3. LastBelow(Places(3, "ta"), i + 1) = IF i \in Places(3, "ta") THEN i ELSE LastBelow(Places(3, "ta"), i)
    BY <1>6, <1>7
  <2>4. QED
    BY <1>4, <2>1, <2>2, <2>3
<1>13. r.wait = LastBelow(Places(2, "tb"), i + 1)
  <2>1. q.wait = LastBelow(Places(2, "tb"), i)
    BY <1>2 DEF Seen
  <2>2. i \in Places(2, "tb") <=> (b = "tb" /\ l >= 2 /\ q.proto = 1)
    BY <1>5, <1>9
  <2>3. LastBelow(Places(2, "tb"), i + 1) = IF i \in Places(2, "tb") THEN i ELSE LastBelow(Places(2, "tb"), i)
    BY <1>6, <1>7
  <2>4. QED
    BY <1>4, <2>1, <2>2, <2>3
<1>14. r.edc = LastBelow(Places(2, "tc"), i + 1)
  <2>1. q.edc = LastBelow(Places(2, "tc"), i)
    BY <1>2 DEF Seen
  <2>2. i \in Places(2, "tc") <=> (b = "tc" /\ l >= 2 /\ q.proto = 1)
    BY <1>5, <1>9
  <2>3. LastBelow(Places(2, "tc"), i + 1) = IF i \in Places(2, "tc") THEN i ELSE LastBelow(Places(2, "tc"), i)
    BY <1>6, <1>7
  <2>4. QED
    BY <1>4, <2>1, <2>2, <2>3
<1>15. r.protocol = IF LastBelow(First1("td"), i + 1) = Unset THEN 0 ELSE levels[1].td
  <2>1. q.protocol = IF LastBelow(First1("td"), i) = Unset THEN 0 ELSE levels[1].td
    BY <1>2 DEF Seen
  <2>2. i \in First1("td") <=> (l = 1 /\ b = "td")
    BY <1>5, <1>8
  <2>3. LastBelow(First1("td"), i + 1) = IF i \in First1("td") THEN i ELSE LastBelow(First1("td"), i)
    BY <1>6, <1>7
  <2>4. i # Unset
    BY DEF Unset
  <2>5. QED
    BY <1>4, <2>1, <2>2, <2>3, <2>4
<1>16. i + 1 >= 3 /\ i + 1 <= got + 1
  BY <1>2
<1>17. QED
  BY <1>2, <1>3, <1>4, <1>10, <1>11, <1>12, <1>13, <1>14, <1>15, <1>16 DEF Seen

\* From one byte of a level to the next one.
LEMMA StandsNext ==
    ASSUME LevelsOk, got \in Nat, NEW l \in 1..Len(levels), NEW b \in Bytes4 \ {"td"}, NEW c \in Bytes4,
           PlaceOf(l, c) = PlaceOf(l, b) + Has(levels[l], b), NEW q, Standing(q, l, b)
    PROVE  Standing(ReadByte(q, b), l, c)
<1>1. Seen(q) /\ q \in Params /\ b \in Bytes4
  BY DEF Standing, Seen
<1>2. PICK r : r = ReadByte(q, b)
  OBVIOUS
<1>3. CASE q.done
  <2>1. r = q
    BY <1>2, <1>3, Zenon DEF ReadByte
  <2>2. QED
    BY <1>2, <1>3, <2>1 DEF Standing
<1>4. ASSUME ~q.done, ~There(levels[l], b) PROVE Standing(r, l, c)
  <2>1. q.level = l
    BY <1>4 DEF Standing
  <2>2. r = q
    BY <1>2, <1>4, <2>1, Zenon DEF ReadByte
  <2>3. PlaceOf(l, c) = PlaceOf(l, b)
    <3>1. Has(levels[l], b) = 0 /\ PlaceOf(l, b) \in Nat
      BY <1>1, <1>4, PlaceIs DEF Has
    <3>2. QED
      BY <3>1
  <2>4. QED
    BY <1>4, <2>2, <2>3 DEF Standing
<1>5. ASSUME ~q.done, There(levels[l], b), q.idx > got PROVE Standing(r, l, c)
  <2>1. q.level = l
    BY <1>5 DEF Standing
  <2>2. r = [q EXCEPT !.done = TRUE]
    BY <1>2, <1>5, <2>1, Zenon DEF ReadByte
  <2>3. /\ r \in Params /\ r.done = TRUE /\ r.idx = q.idx /\ r.level = q.level /\ r.proto = q.proto /\ r.ta1 = q.ta1
        /\ r.protocol = q.protocol /\ r.guard = q.guard /\ r.ifsc = q.ifsc /\ r.wait = q.wait /\ r.edc = q.edc
    BY <1>1, <2>2, SetDone
  <2>4. q.idx = got + 1
    BY <1>1, <1>5 DEF Seen, Params
  <2>5. Seen(r)
    BY <1>1, <2>3, Zenon DEF Seen
  <2>6. QED
    BY <2>3, <2>4, <2>5 DEF Standing
<1>6. ASSUME ~q.done, There(levels[l], b), ~(q.idx > got) PROVE Standing(r, l, c)
  <2>1. q.level = l /\ q.proto = ProtoOf(l) /\ q.idx = PlaceOf(l, b)
    BY <1>6 DEF Standing
  <2>2. q.idx <= got /\ q.idx \in Nat
    BY <1>1, <1>6 DEF Params
  <2>3. Seen(r) /\ r.idx = q.idx + 1
    BY <1>1, <1>2, <1>6, <2>1, <2>2, SeenMoves
  <2>4. r.done = q.done /\ r.level = l /\ r.proto = q.proto
    <3>1. /\ r.done = q.done /\ r.proto = (IF b = "td" THEN levels[l].td ELSE q.proto)
          /\ r.level = IF b = "td" THEN l + 1 ELSE l
      BY <1>1, <1>2, <1>6, <2>1, <2>2, MovedIs
    <3>2. b # "td"
      OBVIOUS
    <3>3. QED
      BY <3>1, <3>2, Zenon
  <2>5. Has(levels[l], b) = 1
    BY <1>6 DEF Has
  <2>6. r.idx = PlaceOf(l, c)
    BY <2>1, <2>3, <2>5
  <2>7. QED
    BY <1>6, <2>1, <2>3, <2>4, <2>6 DEF Standing
<1>7. QED
  BY <1>2, <1>3, <1>4, <1>5, <1>6

\* Within a level a byte is before the TD, and none is before the first level.
LEMMA PlaceBounds ==
    ASSUME LevelsOk, NEW l \in 1..Len(levels), NEW b \in Bytes4
    PROVE  /\ PlaceOf(l, b) \in Nat /\ PlaceOf(l, b) >= 3
           /\ b # "td" /\ There(levels[l], b) => PlaceOf(l, b) < PlaceOf(l, "td")
<1>1. PICK A1 \in {0, 1}, A2 \in {0, 1}, A3 \in {0, 1} :
          A1 = Has(levels[l], "ta") /\ A2 = Has(levels[l], "tb") /\ A3 = Has(levels[l], "tc")
  BY HasIs
<1>2. PICK x1 \in Nat, x2 \in Nat, x3 \in Nat, x4 \in Nat, z \in Nat :
          /\ x1 = PlaceOf(l, "ta") /\ x2 = PlaceOf(l, "tb") /\ x3 = PlaceOf(l, "tc") /\ x4 = PlaceOf(l, "td")
          /\ z = Before(levels, l)
  BY PlaceIs DEF Bytes4
<1>3. x1 = 3 + z /\ x2 = x1 + A1 /\ x3 = x2 + A2 /\ x4 = x3 + A3
  BY <1>1, <1>2, PlaceIs, Zenon
<1>4. There(levels[l], b) => Has(levels[l], b) = 1
  BY DEF Has
<1>5. CASE b = "ta"
  <2>1. PlaceOf(l, b) = x1 /\ (There(levels[l], b) => A1 = 1)
    BY <1>1, <1>2, <1>4, <1>5
  <2>2. x1 >= 3 /\ (A1 = 1 => x1 < x4)
    BY <1>3
  <2>3. QED
    BY <1>2, <2>1, <2>2, Zenon
<1>6. CASE b = "tb"
  <2>1. PlaceOf(l, b) = x2 /\ (There(levels[l], b) => A2 = 1)
    BY <1>1, <1>2, <1>4, <1>6
  <2>2. x2 >= 3 /\ (A2 = 1 => x2 < x4)
    BY <1>3
  <2>3. QED
    BY <1>2, <2>1, <2>2, Zenon
<1>7. CASE b = "tc"
  <2>1. PlaceOf(l, b) = x3 /\ (There(levels[l], b) => A3 = 1)
    BY <1>1, <1>2, <1>4, <1>7
  <2>2. x3 >= 3 /\ (A3 = 1 => x3 < x4)
    BY <1>3
  <2>3. QED
    BY <1>2, <2>1, <2>2, Zenon
<1>8. CASE b = "td"
  <2>1. x4 >= 3
    BY <1>3
  <2>2. QED
    BY <1>2, <1>8, <2>1, Zenon
<1>9. QED
  BY <1>5, <1>6, <1>7, <1>8 DEF Bytes4

\* The walk: at the start of a level, or over.
Good(q) ==
    /\ Seen(q)
    /\ ~q.done => q.level \in 1..Len(levels) /\ q.proto = ProtoOf(q.level) /\ q.idx = PlaceOf(q.level, "ta")
    /\ q.done => \/ q.idx = got + 1
                 \/ \A l \in 1..Len(levels), b \in Bytes4 : There(levels[l], b) => PlaceOf(l, b) < q.idx

TurnOf(q) ==
    LET q3 == ReadByte(ReadByte(ReadByte(q, "ta"), "tb"), "tc")
        last == ~There(levels[q.level], "td")
    IN  IF last THEN [q3 EXCEPT !.done = TRUE] ELSE ReadByte(q3, "td")

\* A turn of the loop keeps the walk good.
LEMMA TurnGood ==
    ASSUME LevelsOk, got \in Nat, NEW q, Good(q), ~q.done
    PROVE  Good(TurnOf(q))
<1>1. PICK N \in Nat \ {0} : N = Len(levels)
  BY DEF LevelsOk
<1>2. PICK l \in 1..Len(levels) : l = q.level
  BY DEF Good
<1>3. /\ "ta" \in Bytes4 \ {"td"} /\ "tb" \in Bytes4 \ {"td"} /\ "tc" \in Bytes4 \ {"td"}
      /\ "ta" \in Bytes4 /\ "tb" \in Bytes4 /\ "tc" \in Bytes4 /\ "td" \in Bytes4
  BY DEF Bytes4
<1>4. Standing(q, l, "ta")
  BY <1>2 DEF Good, Standing
<1>5. /\ PlaceOf(l, "tb") = PlaceOf(l, "ta") + Has(levels[l], "ta")
      /\ PlaceOf(l, "tc") = PlaceOf(l, "tb") + Has(levels[l], "tb")
      /\ PlaceOf(l, "td") = PlaceOf(l, "tc") + Has(levels[l], "tc")
      /\ 3 + Before(levels, l + 1) = PlaceOf(l, "td") + Has(levels[l], "td")
  BY PlaceIs
<1>6. PICK q1 : q1 = ReadByte(q, "ta")
  OBVIOUS
<1>7. Standing(q1, l, "tb")
  BY <1>3, <1>4, <1>5, <1>6, StandsNext
<1>8. PICK q2 : q2 = ReadByte(q1, "tb")
  OBVIOUS
<1>9. Standing(q2, l, "tc")
  BY <1>3, <1>5, <1>7, <1>8, StandsNext
<1>10. PICK q3 : q3 = ReadByte(q2, "tc")
  OBVIOUS
<1>11. Standing(q3, l, "td")
  BY <1>3, <1>5, <1>9, <1>10, StandsNext
<1>12. TurnOf(q) = IF ~There(levels[l], "td") THEN [q3 EXCEPT !.done = TRUE] ELSE ReadByte(q3, "td")
  BY <1>2, <1>6, <1>8, <1>10, Zenon DEF TurnOf
<1>13. PICK r : r = TurnOf(q)
  OBVIOUS
<1>14. There(levels[l], "td") <=> l # Len(levels)
  BY DEF LevelsOk, There
<1>15. q3 \in Params /\ Seen(q3)
  BY <1>11 DEF Standing, Seen
<1>16. ASSUME r = [q3 EXCEPT !.done = TRUE] PROVE Seen(r) /\ r.done = TRUE /\ r.idx = q3.idx
  <2>3. /\ r \in Params /\ r.done = TRUE /\ r.idx = q3.idx /\ r.level = q3.level /\ r.proto = q3.proto /\ r.ta1 = q3.ta1
        /\ r.protocol = q3.protocol /\ r.guard = q3.guard /\ r.ifsc = q3.ifsc /\ r.wait = q3.wait /\ r.edc = q3.edc
    BY <1>15, <1>16, SetDone, ZenonT(60)
  <2>4. QED
    BY <1>15, <2>3, Zenon DEF Seen
<1>17. CASE ~There(levels[l], "td")
  <2>1. r = [q3 EXCEPT !.done = TRUE] /\ l = N
    BY <1>1, <1>12, <1>13, <1>14, <1>17
  <2>2. Seen(r) /\ r.done = TRUE /\ r.idx = q3.idx
    BY <1>16, <2>1
  <2>3. CASE q3.done
    <3>1. r.idx = got + 1
      BY <1>11, <2>2, <2>3 DEF Standing
    <3>2. QED
      BY <1>13, <2>2, <3>1 DEF Good
  <2>4. CASE ~q3.done
    <3>1. r.idx = PlaceOf(l, "td")
      BY <1>11, <2>2, <2>4 DEF Standing
    <3>2. ASSUME NEW k \in 1..Len(levels), NEW b \in Bytes4, There(levels[k], b) PROVE PlaceOf(k, b) < r.idx
      <4>1. CASE k = l
        <5>1. b # "td"
          BY <1>17, <3>2, <4>1
        <5>2. QED
          BY <3>1, <3>2, <4>1, <5>1, PlaceBounds
      <4>2. CASE k # l
        <5>1. k < l
          BY <1>1, <2>1, <4>2
        <5>2. PlaceOf(k, b) < PlaceOf(l, "td")
          BY <1>3, <3>2, <5>1, PlacesAscend
        <5>3. QED
          BY <3>1, <5>2
      <4>3. QED
        BY <4>1, <4>2
    <3>3. QED
      BY <1>13, <2>2, <3>2 DEF Good
  <2>5. QED
    BY <2>3, <2>4
<1>18. CASE There(levels[l], "td")
  <2>1. r = ReadByte(q3, "td") /\ l # Len(levels)
    BY <1>12, <1>13, <1>14, <1>18
  <2>2. CASE q3.done
    <3>1. r = q3
      BY <2>1, <2>2, Zenon DEF ReadByte
    <3>2. QED
      BY <1>11, <1>13, <2>2, <3>1 DEF Good, Standing
  <2>3. ASSUME ~q3.done, q3.idx > got PROVE Good(r)
    <3>1. q3.level = l
      BY <1>11, <2>3 DEF Standing
    <3>2. r = [q3 EXCEPT !.done = TRUE]
      BY <1>18, <2>1, <2>3, <3>1, Zenon DEF ReadByte
    <3>3. Seen(r) /\ r.done = TRUE /\ r.idx = q3.idx
      BY <1>16, <3>2
    <3>4. q3.idx = got + 1
      BY <1>15, <2>3 DEF Seen, Params
    <3>5. QED
      BY <3>3, <3>4 DEF Good
  <2>4. ASSUME ~q3.done, ~(q3.idx > got) PROVE Good(r)
    <3>1. q3.level = l /\ q3.proto = ProtoOf(l) /\ q3.idx = PlaceOf(l, "td")
      BY <1>11, <2>4 DEF Standing
    <3>2. q3.idx <= got /\ q3.idx \in Nat
      BY <1>15, <2>4 DEF Params
    <3>3. Seen(r) /\ r.idx = q3.idx + 1
      BY <1>3, <1>15, <1>18, <2>1, <2>4, <3>1, <3>2, SeenMoves
    <3>4. r.done = q3.done /\ r.level = l + 1 /\ r.proto = levels[l].td
      <4>1. /\ r.done = q3.done /\ r.proto = (IF "td" = "td" THEN levels[l].td ELSE q3.proto)
            /\ r.level = IF "td" = "td" THEN l + 1 ELSE l
        BY <1>3, <1>15, <1>18, <2>1, <2>4, <3>1, <3>2, MovedIs
      <4>2. QED
        BY <4>1
    <3>5. l + 1 \in 1..Len(levels) /\ l + 1 # 1 /\ (l + 1) - 1 = l
      BY <1>1, <2>1
    <3>6. r.proto = ProtoOf(r.level)
      BY <3>4, <3>5 DEF ProtoOf
    <3>7. r.idx = PlaceOf(r.level, "ta")
      <4>1. Has(levels[l], "td") = 1
        BY <1>18 DEF Has
      <4>2. PlaceOf(l + 1, "ta") = 3 + Before(levels, l + 1)
        BY <3>5, PlaceIs
      <4>3. r.idx = PlaceOf(l + 1, "ta")
        BY <1>5, <3>1, <3>3, <4>1, <4>2
      <4>4. QED
        BY <3>4, <4>3
    <3>8. QED
      BY <2>4, <3>3, <3>4, <3>5, <3>6, <3>7 DEF Good
  <2>5. QED
    BY <1>13, <2>2, <2>3, <2>4
<1>19. QED
  BY <1>17, <1>18

\* The walk starts good.
LEMMA StartGood == ASSUME LevelsOk, got \in Nat, got >= 2 PROVE Good(Defaults)
<1>1. PICK N \in Nat \ {0} : N = Len(levels)
  BY DEF LevelsOk
<1>2. /\ "ta" \in Bytes4 /\ "tb" \in Bytes4 /\ "tc" \in Bytes4 /\ "td" \in Bytes4
  BY DEF Bytes4
<1>3. ASSUME NEW b \in Bytes4, NEW n \in {2, 3}
      PROVE  LastBelow(First1(b), 3) = Unset /\ LastBelow(Places(n, b), 3) = Unset
  <2>1. First1(b) \in SUBSET Nat /\ \A i \in First1(b) : i >= 3
    BY PlaceSets, PlaceBounds
  <2>2. Places(n, b) \in SUBSET Nat /\ \A i \in Places(n, b) : i >= 3
    BY PlaceSets, PlaceBounds
  <2>3. QED
    BY <2>1, <2>2, LastNone
<1>4. PICK q : q = Defaults
  OBVIOUS
<1>5. /\ q \in Params /\ q.idx = 3 /\ q.level = 1 /\ q.proto = 0 /\ q.done = FALSE /\ q.ta1 = Unset /\ q.protocol = 0
      /\ q.guard = Unset /\ q.ifsc = Unset /\ q.wait = Unset /\ q.edc = Unset
  BY <1>4 DEF Defaults, Params, Unset
<1>6. Seen(q)
  BY <1>2, <1>3, <1>5 DEF Seen
<1>7. 1 \in 1..Len(levels) /\ ProtoOf(1) = 0
  BY <1>1 DEF ProtoOf
<1>8. PlaceOf(1, "ta") = 3
  BY <1>7, PlaceIs, BeforeIs
<1>9. QED
  BY <1>4, <1>5, <1>6, <1>7, <1>8 DEF Good

\* What the walk found is what the ATR says.
LEMMA GoodSays == ASSUME LevelsOk, got \in Nat, Good(p) PROVE AtrIsRead
<1>1. PICK N \in Nat \ {0} : N = Len(levels)
  BY DEF LevelsOk
<1>2. /\ "ta" \in Bytes4 /\ "tb" \in Bytes4 /\ "tc" \in Bytes4 /\ "td" \in Bytes4
  BY DEF Bytes4
<1>3. SUFFICES ASSUME p.done
               PROVE  /\ p.ta1 = LastPlace(First1("ta")) /\ p.guard = LastPlace(First1("tc"))
                      /\ p.ifsc = LastPlace(Places(3, "ta")) /\ p.wait = LastPlace(Places(2, "tb"))
                      /\ p.edc = LastPlace(Places(2, "tc"))
                      /\ p.protocol = IF LastPlace(First1("td")) = Unset THEN 0 ELSE levels[1].td
                      /\ DetectProtocol = p.protocol
  BY DEF AtrIsRead
<1>4. PICK x \in Nat : x = p.idx /\ x <= got + 1
  BY DEF Good, Seen, Params
<1>5. ASSUME NEW b \in Bytes4, NEW n \in {2, 3}
      PROVE  LastPlace(First1(b)) = LastBelow(First1(b), x) /\ LastPlace(Places(n, b)) = LastBelow(Places(n, b), x)
  <2>1. x = got + 1 \/ \A l \in 1..Len(levels), c \in Bytes4 : There(levels[l], c) => PlaceOf(l, c) < x
    BY <1>3, <1>4 DEF Good
  <2>2. First1(b) \in SUBSET Nat /\ Places(n, b) \in SUBSET Nat
    BY PlaceSets
  <2>3. x = got + 1 \/ \A i \in First1(b) : i < x
    <3>1. \A i \in First1(b) : \E l \in 1..Len(levels) : There(levels[l], b) /\ i = PlaceOf(l, b)
      BY PlaceSets
    <3>2. QED
      BY <2>1, <3>1
  <2>4. x = got + 1 \/ \A i \in Places(n, b) : i < x
    <3>1. \A i \in Places(n, b) : \E l \in 1..Len(levels) : There(levels[l], b) /\ i = PlaceOf(l, b)
      BY PlaceSets
    <3>2. QED
      BY <2>1, <3>1
  <2>5. QED
    BY <1>4, <2>2, <2>3, <2>4, LastAll
<1>6. /\ p.ta1 = LastPlace(First1("ta")) /\ p.guard = LastPlace(First1("tc"))
      /\ p.ifsc = LastPlace(Places(3, "ta")) /\ p.wait = LastPlace(Places(2, "tb"))
      /\ p.edc = LastPlace(Places(2, "tc"))
      /\ p.protocol = IF LastPlace(First1("td")) = Unset THEN 0 ELSE levels[1].td
  BY <1>2, <1>4, <1>5 DEF Good, Seen
<1>7. DetectProtocol = IF LastPlace(First1("td")) = Unset THEN 0 ELSE levels[1].td
  <2>1. 1 \in 1..Len(levels) /\ levels[1] \in Level
    <3>1. 1 \in 1..Len(levels)
      BY <1>1
    <3>2. levels \in [1..Len(levels) -> Level]
      BY DEF LevelsOk
    <3>3. QED
      BY <3>1, <3>2, Zenon
  <2>2. PICK v \in Nat : v = PlaceOf(1, "td") /\ v >= 3
    BY <1>2, <2>1, PlaceBounds
  <2>3. 3 + LevelSize([levels[1] EXCEPT !.td = NoTd]) = v
    <3>1. PICK a : a = levels[1]
      OBVIOUS
    <3>2. PICK c : c = [a EXCEPT !.td = NoTd]
      OBVIOUS
    <3>3. a \in Level
      BY <2>1, <3>1
    <3>4. c.ta = a.ta /\ c.tb = a.tb /\ c.tc = a.tc /\ c.td = NoTd
      BY <3>2, <3>3 DEF Level
    <3>5. Has(c, "ta") = Has(a, "ta") /\ Has(c, "tb") = Has(a, "tb") /\ Has(c, "tc") = Has(a, "tc") /\ Has(c, "td") = 0
      BY <3>4 DEF Has, There
    <3>6. LevelSize(c) = Has(a, "ta") + Has(a, "tb") + Has(a, "tc") + 0
      BY <3>5, SizeIs
    <3>7. /\ PlaceOf(1, "ta") = 3 + 0 /\ PlaceOf(1, "tb") = PlaceOf(1, "ta") + Has(a, "ta")
          /\ PlaceOf(1, "tc") = PlaceOf(1, "tb") + Has(a, "tb") /\ PlaceOf(1, "td") = PlaceOf(1, "tc") + Has(a, "tc")
      BY <2>1, <3>1, PlaceIs, BeforeIs
    <3>8. PICK A1 \in {0, 1}, A2 \in {0, 1}, A3 \in {0, 1} : A1 = Has(a, "ta") /\ A2 = Has(a, "tb") /\ A3 = Has(a, "tc")
      BY HasIs
    <3>9. 3 + LevelSize(c) = v
      BY <2>2, <3>6, <3>7, <3>8
    <3>10. QED
      BY <3>1, <3>2, <3>9, Zenon
  <2>4. DetectProtocol = IF got >= 3 /\ There(levels[1], "td") /\ v <= got THEN levels[1].td ELSE 0
    BY <2>3, Zenon DEF DetectProtocol
  <2>5. CASE There(levels[1], "td") /\ v <= got
    <3>1. First1("td") = {v}
      BY <2>2, <2>5 DEF First1
    <3>2. LastPlace(First1("td")) = v
      <4>1. v \in Nat /\ {v} \in SUBSET Nat /\ got + 1 \in Nat /\ got + 1 <= got + 1
        OBVIOUS
      <4>2. LastPlace({v}) = LastBelow({v}, got + 1)
        BY <4>1, LastAll
      <4>3. v \in {j \in {v} : j < got + 1} \cup {Unset} /\ \A i \in {j \in {v} : j < got + 1} \cup {Unset} : i <= v
        BY <2>2, <2>5 DEF Unset
      <4>4. LastBelow({v}, got + 1) = v
        BY <4>1, <4>3, LastIs
      <4>5. QED
        BY <3>1, <4>2, <4>4
    <3>3. got >= 3 /\ v # Unset
      BY <2>2, <2>5 DEF Unset
    <3>4. QED
      BY <2>4, <2>5, <3>2, <3>3
  <2>6. CASE ~(There(levels[1], "td") /\ v <= got)
    <3>1. \A i \in First1("td") : ~(i <= got)
      BY <2>2, <2>6 DEF First1
    <3>2. {i \in First1("td") : i <= got} = {}
      BY <3>1, Zenon
    <3>3. LastPlace(First1("td")) = Max({Unset})
      BY <3>2 DEF LastPlace
    <3>4. Max({Unset}) = Unset
      BY DEF Max, Unset
    <3>5. QED
      BY <2>4, <2>6, <3>3, <3>4
  <2>7. QED
    BY <2>5, <2>6
<1>8. QED
  BY <1>6, <1>7

\* The invariant of the ATR parser.
AtrInv == LevelsOk /\ got \in Nat /\ AtsOk /\ Good(p)

\* A walk is good whatever becomes of the other variables.
LEMMA SameWalk ==
    ASSUME levels' = levels, got' = got, NEW q
    PROVE  Good(q)' = Good(q)
<1>1. \A l, b : PlaceOf(l, b)' = PlaceOf(l, b)
  BY DEF PlaceOf
<1>2. \A b : First1(b)' = First1(b)
  BY <1>1 DEF First1
<1>3. \A n, b : Places(n, b)' = Places(n, b)
  BY <1>1 DEF Places
<1>4. Seen(q)' = Seen(q)
  BY <1>2, <1>3 DEF Seen
<1>5. QED
  BY <1>1, <1>4 DEF Good, ProtoOf

\* Every step of the parser keeps its invariant.
LEMMA AtrStepSound == ASSUME AtrInv, [AtrNext]_atrVars PROVE AtrInv'
<1>1. CASE UNCHANGED atrVars
  <2>1. levels' = levels /\ got' = got /\ p' = p /\ ats' = ats
    BY <1>1 DEF atrVars
  <2>2. PICK q : q = p
    OBVIOUS
  <2>3. Good(q) /\ p' = q
    BY <2>1, <2>2 DEF AtrInv
  <2>4. Good(q)'
    BY <2>1, <2>3, SameWalk
  <2>5. Good(p)'
    BY <2>3, <2>4 DEF Good, Seen
  <2>6. QED
    BY <2>1, <2>5 DEF AtrInv, LevelsOk, AtsOk
<1>2. CASE ParseLevel
  <2>1. levels' = levels /\ got' = got /\ ats' = ats /\ ~p.done
    BY <1>2 DEF ParseLevel
  <2>2. PICK q : q = TurnOf(p)
    OBVIOUS
  <2>3. p' = q
    BY <1>2, <2>2, Zenon DEF ParseLevel, TurnOf
  <2>4. Good(q)
    BY <2>1, <2>2, TurnGood DEF AtrInv
  <2>5. Good(q)'
    BY <2>1, <2>4, SameWalk
  <2>6. Good(p)'
    BY <2>3, <2>5 DEF Good, Seen
  <2>7. QED
    BY <2>1, <2>6 DEF AtrInv, LevelsOk, AtsOk
<1>3. QED
  BY <1>1, <1>2 DEF AtrNext

\* It holds before the first turn.
LEMMA AtrInitial == ASSUME AtrInit PROVE AtrInv
<1>1. CASE /\ levels \in Chains /\ ats = <<0>>
           /\ \E m \in Missing : got = 2 + Before(levels, Len(levels) + 1) - m
           /\ got >= 2
  <2>1. LevelsOk
    <3>1. PICK n \in 1..MaxLevels : levels \in [1..n -> Level] /\ \A l \in 1..n : (levels[l].td = NoTd) = (l = n)
      <4> DEFINE Ch(n) == {c \in [1..n -> Level] : \A l \in 1..n : (c[l].td = NoTd) = (l = n)}
      <4>1. levels \in UNION {Ch(n) : n \in 1..MaxLevels}
        BY <1>1, Zenon DEF Chains
      <4> HIDE DEF Ch
      <4>2. PICK n \in 1..MaxLevels : levels \in Ch(n)
        BY <4>1
      <4>3. QED
        BY <4>2, Zenon DEF Ch
    <3>2. n \in Nat \ {0}
      BY AtrAssumption
    <3>3. levels \in Seq(Level)
      BY <3>1, <3>2, SeqDef
    <3>4. Len(levels) \in Nat /\ 1..Len(levels) = 1..n
      BY <3>1, <3>3, LenProperties
    <3>5. Len(levels) = n
      BY <3>2, <3>4
    <3>6. QED
      BY <3>1, <3>2, <3>5 DEF LevelsOk
  <2>2. got \in Nat
    <3>1. PICK m \in Missing : got = 2 + Before(levels, Len(levels) + 1) - m
      BY <1>1
    <3>2. Len(levels) + 1 \in 1..(Len(levels) + 1)
      <4>1. PICK N \in Nat \ {0} : N = Len(levels)
        BY <2>1 DEF LevelsOk
      <4>2. QED
        BY <4>1
    <3>3. Before(levels, Len(levels) + 1) \in Nat
      BY <2>1, <3>2, BeforeIs
    <3>4. m \in Nat
      BY AtrAssumption
    <3>5. QED
      BY <1>1, <3>1, <3>3, <3>4
  <2>3. AtsOk
    BY <1>1 DEF AtsOk
  <2>4. Good(Defaults)
    BY <1>1, <2>1, <2>2, StartGood
  <2>5. QED
    BY <2>1, <2>2, <2>3, <2>4 DEF AtrInv, AtrInit
<1>2. CASE /\ levels = <<[ta |-> FALSE, tb |-> FALSE, tc |-> FALSE, td |-> NoTd]>> /\ got = 2
           /\ \E n \in 1..MaxAts : ats \in AtsOf(n)
  <2>1. LevelsOk
    <3>1. [ta |-> FALSE, tb |-> FALSE, tc |-> FALSE, td |-> NoTd] \in Level
      BY DEF Level
    <3>2. PICK e : e = [ta |-> FALSE, tb |-> FALSE, tc |-> FALSE, td |-> NoTd]
      OBVIOUS
    <3>3. e \in Level /\ e.td = NoTd /\ levels = <<e>>
      BY <1>2, <3>1, <3>2
    <3>4. Len(levels) = 1 /\ levels \in [1..1 -> Level] /\ levels[1] = e
      BY <3>3
    <3>5. \A l \in 1..1 : l = 1
      OBVIOUS
    <3>6. QED
      BY <3>3, <3>4, <3>5 DEF LevelsOk
  <2>2. AtsOk
    <3>1. PICK n \in 1..MaxAts : ats \in AtsOf(n)
      BY <1>2
    <3>2. n \in Nat \ {0}
      BY AtrAssumption
    <3>3. ats \in [1..n -> Nibbles \cup 0..7] /\ ats[1] \in 0..7
      BY <3>1 DEF AtsOf
    <3>4. ats \in Seq(Nibbles \cup 0..7)
      BY <3>2, <3>3, SeqDef
    <3>5. Len(ats) \in Nat /\ 1..Len(ats) = 1..n
      BY <3>3, <3>4, LenProperties
    <3>6. QED
      BY <3>2, <3>3, <3>5 DEF AtsOk
  <2>3. got \in Nat /\ got >= 2
    BY <1>2
  <2>4. Good(Defaults)
    BY <2>1, <2>3, StartGood
  <2>5. QED
    BY <2>1, <2>2, <2>3, <2>4 DEF AtrInv, AtrInit
<1>3. QED
  BY <1>1, <1>2 DEF AtrInit

\* It says what the run checks.
LEMMA AtrSays == ASSUME AtrInv PROVE AtrIsTrue
BY GoodSays, HistoryIsKept DEF AtrInv, AtrIsTrue

-----------------------------------------------------------------------------
(* The parts together *)

PartsInv == PinInv /\ DrvInv /\ T0Inv /\ PpsInv /\ DwtInv

\* Every part starts in its invariant.
LEMMA PartsInitially == PartsInit => PartsInv
<1> SUFFICES ASSUME PartsInit PROVE PartsInv
  OBVIOUS
<1>0. PinInit /\ DriverInit /\ T0Init /\ PpsInit /\ DwtInit
  BY DEF PartsInit
<1>e. <<>> \in Seq(Digits) /\ <<>> \in Seq(Bytes) /\ Len(<<>>) = 0
  BY EmptySeq
<1>1. PinInv
  <2>1. TickMod \in Nat \ {0} /\ MaxPass \in Nat \ {0} /\ TicksPerSecond \in Nat
    BY PinPadAssumption
  <2>2. ctx \in Contexts /\ ctx.step = "Idle" /\ ctx.params.max = 0 /\ ctx.old = <<>> /\ ctx.new = <<>> /\ ctx.confirm = <<>>
    BY <1>0, <1>e, <2>1 DEF PinInit, Contexts, Steps
  <2>3. PinTyped
    BY <1>0, <2>1, <2>2 DEF PinInit, PinTyped
  <2>4. Confirming(ctx, submitted)
    BY <1>e, <2>2 DEF Confirming
  <2>5. Timed
    BY <1>0, <2>1, <2>2 DEF PinInit, Timed, Active
  <2>6. QED
    BY <2>3, <2>4, <2>5 DEF PinInv
<1>2. DrvInv
  <2>1. /\ drv = [powered |-> FALSE, protocol |-> 0, baud |-> "slow", speedup |-> FALSE,
                  suppress |-> FALSE, gt |-> "T0", nack |-> FALSE, clock |-> board = "uart"]
        /\ icc = NoIcc /\ core = [active |-> FALSE, present |-> FALSE, protocol |-> 0]
        /\ healed = FALSE /\ ordered = FALSE
    BY <1>0 DEF DriverInit
  <2>2. drv \in Drivers /\ ~drv.speedup /\ drv.baud = "slow" /\ ~drv.powered
    <3>1. (board = "uart") \in BOOLEAN
      OBVIOUS
    <3>2. QED
      BY <2>1, <3>1 DEF Drivers
  <2>3. core \in [active : BOOLEAN, present : BOOLEAN, protocol : {0, 1}]
    BY <2>1
  <2>4. QED
    BY <2>1, <2>2, <2>3 DEF DrvInv, Slow, ProtocolsAgree
<1>3. T0Inv
  BY <1>0 DEF T0Init, T0Inv, NewExchange, T0At
<1>4. PpsInv
  <2>1. pps = [state |-> "Init", tx |-> <<>>, rx |-> <<>>] /\ sent = <<>>
    BY <1>0 DEF PpsInit
  <2>2. pps.state = "Init" /\ pps.tx = <<>> /\ pps.rx = <<>>
    BY <2>1
  <2>3. "Init" \notin Waiting
    BY DEF Waiting
  <2>4. QED
    BY <1>e, <2>1, <2>2, <2>3 DEF PpsInv
<1>5. DwtInv
  BY <1>0, DwtAssumption DEF DwtInit, DwtInv
<1>6. QED
  BY <1>1, <1>2, <1>3, <1>4, <1>5 DEF PartsInv

\* A part at rest keeps its invariant.
LEMMA RestingParts ==
    /\ PinInv /\ UNCHANGED pinVars => PinInv'
    /\ DrvInv /\ UNCHANGED driverVars => DrvInv'
    /\ T0Inv /\ UNCHANGED t0Vars => T0Inv'
    /\ PpsInv /\ UNCHANGED ppsVars => PpsInv'
    /\ DwtInv /\ UNCHANGED dwtVars => DwtInv'
<1>1. PinInv /\ UNCHANGED pinVars => PinInv'
  BY DEF pinVars, PinInv, PinTyped, Timed
<1>2. DrvInv /\ UNCHANGED driverVars => DrvInv'
  BY DEF driverVars, DrvInv, ProtocolsAgree
<1>3. T0Inv /\ UNCHANGED t0Vars => T0Inv'
  BY DEF t0Vars, T0Inv
<1>4. PpsInv /\ UNCHANGED ppsVars => PpsInv'
  BY DEF ppsVars, PpsInv
<1>5. DwtInv /\ UNCHANGED dwtVars => DwtInv'
  BY DEF dwtVars, DwtInv
<1>6. QED
  BY <1>1, <1>2, <1>3, <1>4, <1>5

\* A step of one part keeps its invariant and leaves the others alone.
LEMMA PartsKeep == PartsInv /\ [PartsNext]_partVars => PartsInv'
<1> SUFFICES ASSUME PartsInv, [PartsNext]_partVars PROVE PartsInv'
  OBVIOUS
<1> USE RestingParts DEF PartsInv
<1>1. CASE PinStep(PinNext)
  <2>1. PinInv'
    BY <1>1, BeginKeeps, PassKeeps, TickKeeps DEF PinStep, PinNext
  <2>2. QED
    BY <1>1, <2>1 DEF PinStep
<1>2. CASE DriverStep(DriverNext)
  <2>1. DrvInv'
    BY <1>2, DriverKeeps DEF DriverStep
  <2>2. QED
    BY <1>2, <2>1 DEF DriverStep
<1>3. CASE T0Step(T0Next)
  <2>1. T0Inv'
    BY <1>3, T0Keeps DEF T0Step
  <2>2. QED
    BY <1>3, <2>1 DEF T0Step
<1>4. CASE PpsStep(PpsNext)
  <2>1. PpsInv'
    BY <1>4, PpsKeeps DEF PpsStep
  <2>2. QED
    BY <1>4, <2>1 DEF PpsStep
<1>5. CASE DwtStep(DwtNext)
  <2>1. DwtInv'
    BY <1>5, CycleKeeps, PollKeeps DEF DwtStep, DwtNext
  <2>2. QED
    BY <1>5, <2>1 DEF DwtStep
<1>6. CASE AtrStep(AtrNext) \/ SecStep(SecNext) \/ BbStep(BbNext)
  BY <1>6 DEF AtrStep, SecStep, BbStep
<1>7. CASE UNCHANGED partVars
  BY <1>7 DEF partVars
<1>8. QED
  BY <1>1, <1>2, <1>3, <1>4, <1>5, <1>6, <1>7 DEF PartsNext

\* The invariants of the PIN pad, the drivers, the T=0 and PPS exchanges and
\* the clocks hold in every behaviour of the parts.
THEOREM PartsInductive == PartsSpec => []PartsInv
<1>1. PartsInit => PartsInv
  BY PartsInitially
<1>2. PartsInv /\ [PartsNext]_partVars => PartsInv'
  BY PartsKeep
<1>3. QED
  BY <1>1, <1>2, PTL DEF PartsSpec

\* A PIN that goes to the card is what was entered, submitted and, for a
\* change, confirmed (PinEntryContext, PinModifyContext, the APDU builders),
\* for any digits, lengths and time-outs.
THEOREM PinAlwaysConfirmed == PartsSpec => []PinAsConfirmed
<1>1. PartsInv => PinAsConfirmed
  BY PinFromInv DEF PartsInv
<1>2. QED
  BY <1>1, PartsInductive, PTL

\* The time-out of a PIN entry, DwtUptime and DwtWatchdog tell the time, for
\* any width of the wrapping counters and any pace of the main loop below it.
THEOREM CountersTellTime == PartsSpec => []TimesAreTrue
<1>1. PartsInv => TimesAreTrue
  BY PinFromInv, ClocksFromInv DEF PartsInv, TimesAreTrue
<1>2. QED
  BY <1>1, PartsInductive, PTL

\* A PPS is accepted exactly when the card echoed it (PpsFsm), and a T=0
\* command without data is answered with the card's status word
\* (transmit_apdu_t0), for any buffer sizes.
THEOREM WireAlwaysTrue == PartsSpec => []WireIsTrue
<1>1. T0Inv => StatusIsTheCards
  <2>1. \A a : T0At(a).at = a
    BY DEF T0At
  <2>2. QED
    BY <2>1 DEF T0Inv, StatusIsTheCards
<1>2. PartsInv => WireIsTrue
  BY <1>1, PpsFromInv DEF PartsInv, WireIsTrue
<1>3. QED
  BY <1>2, PartsInductive, PTL

\* Reader, driver and card agree on speed and protocol, through every fall
\* back of power_on and every self-healing power cycle, on either board.
THEOREM SessionsAlwaysAgree == PartsSpec => []SessionsAgree
<1>1. PartsInv => SessionsAgree
  BY SessionsFromInv DEF PartsInv
<1>2. QED
  BY <1>1, PartsInductive, PTL

-----------------------------------------------------------------------------
(* What is read *)

\* The part that runs keeps its invariant.
ReadInv ==
    /\ part = "atr" => AtrInv
    /\ part = "secure" => SecInv
    /\ part = "line" => LineInv

\* It holds at the start and through every step of the parts.
LEMMA ReadKeeps == (PartsInit => ReadInv) /\ (ReadInv /\ [PartsNext]_partVars => ReadInv')
<1>1. PartsInit => ReadInv
  BY AtrInitial, SecInitial, LineInitial DEF PartsInit, ReadInv
<1>2. ASSUME ReadInv, [PartsNext]_partVars PROVE ReadInv'
  <2>1. part' = part
    BY <1>2 DEF PartsNext, PinStep, DriverStep, T0Step, PpsStep, DwtStep, AtrStep, SecStep, BbStep, partVars
  <2>2. part = "atr" => [AtrNext]_atrVars
    BY <1>2 DEF PartsNext, PinStep, DriverStep, T0Step, PpsStep, DwtStep, AtrStep, SecStep, BbStep, partVars
  <2>3. part = "secure" => [SecNext]_secVars
    BY <1>2 DEF PartsNext, PinStep, DriverStep, T0Step, PpsStep, DwtStep, AtrStep, SecStep, BbStep, partVars
  <2>4. part = "line" => [BbNext]_bbVars
    BY <1>2 DEF PartsNext, PinStep, DriverStep, T0Step, PpsStep, DwtStep, AtrStep, SecStep, BbStep, partVars
  <2>5. part = "atr" => AtrInv'
    BY <1>2, <2>2, AtrStepSound DEF ReadInv
  <2>6. part = "secure" => SecInv'
    BY <1>2, <2>3, SecStepSound DEF ReadInv
  <2>7. part = "line" => LineInv'
    BY <1>2, <2>4, LineStep DEF ReadInv
  <2>8. QED
    BY <2>1, <2>5, <2>6, <2>7 DEF ReadInv
<1>3. QED
  BY <1>1, <1>2

\* What the reader reads is what was put there: the parameters of any ATR of any
\* number of levels, wherever it breaks off (parse_atr), the historical bytes of an
\* ATS (ats_to_atr), the fields of a Secure command and the PIN typed for it, and
\* the bytes and records of any bit-banged answer, for every lag of the poll.
THEOREM ReadAlwaysTrue == PartsSpec => []HostAndCardAreRead
<1>1. ReadInv => HostAndCardAreRead
  <2>1. SecInv => FieldsAreHosts /\ PinIsTyped
    BY BufferSays DEF SecInv
  <2>2. QED
    BY <2>1, AtrSays, LineSays DEF ReadInv, HostAndCardAreRead
<1>2. QED
  BY <1>1, ReadKeeps, PTL DEF PartsSpec
=============================================================================
