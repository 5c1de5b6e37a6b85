------------------------------ MODULE CardTiming ------------------------------
(***************************************************************************)
(* Time in the contact reader.  First the cycle counter clocks of          *)
(* firmware/ccid-firmware/src/dwt_watchdog.rs: DwtUptime adds up a counter *)
(* that wraps, and DwtWatchdog measures one interval of it.  The counter   *)
(* counts modulo CycleMod; the main loop polls at least once per MaxGap    *)
(* cycles.                                                                 *)
(***************************************************************************)
EXTENDS Integers

CONSTANTS CycleMod, CyclesPerMs, MaxGap, WatchdogTimeout, MaxCycles

ASSUME DwtAssumption ==
    /\ CycleMod \in Nat /\ WatchdogTimeout \in Nat
    /\ CyclesPerMs \in Nat \ {0} /\ MaxGap \in Nat \ {0}
    /\ MaxGap + CyclesPerMs <= CycleMod /\ WatchdogTimeout + MaxGap < CycleMod

VARIABLES
    cyc,        \* CYCCNT
    up,         \* DwtUptime: last, accum, ticks
    wd,         \* DwtWatchdog: start
    gap,        \* cycles since the last poll
    real        \* history: cycles since the start, and since wd.start

dwtVars == <<cyc, up, wd, gap, real>>

WrappingSub(a, b) == ((a + CycleMod) - b) % CycleMod

\* DwtUptime::poll.
UptimePoll(u, now) ==
    LET sum == (u.accum + WrappingSub(now, u.last)) % CycleMod
    IN [last |-> now, accum |-> sum % CyclesPerMs, ticks |-> u.ticks + (sum \div CyclesPerMs)]

Expired == WrappingSub(cyc, wd) >= WatchdogTimeout

CyclePasses ==
    /\ gap < MaxGap /\ real.total < MaxCycles
    /\ cyc' = (cyc + 1) % CycleMod /\ gap' = gap + 1
    /\ real' = [total |-> real.total + 1, since |-> real.since + 1]
    /\ UNCHANGED <<up, wd>>

\* A pass of the loop: the uptime, and a byte wait that starts its watchdog
\* or finds it expired.
LoopPolls ==
    /\ up' = UptimePoll(up, cyc) /\ gap' = 0
    /\ \/ ~Expired /\ UNCHANGED <<wd, real>>
       \/ wd' = cyc /\ real' = [real EXCEPT !.since = 0]
    /\ UNCHANGED cyc

DwtInit ==
    /\ cyc = 0 /\ up = [last |-> 0, accum |-> 0, ticks |-> 0] /\ wd = 0 /\ gap = 0
    /\ real = [total |-> 0, since |-> 0]
DwtNext == CyclePasses \/ LoopPolls

-----------------------------------------------------------------------------
(* Properties *)

\* Neither the wrap of the counter nor the rounding to milliseconds loses a
\* cycle, and a watchdog expires when its time has passed and not before.
ClocksAreTrue ==
    /\ up.ticks * CyclesPerMs + up.accum + gap = real.total
    /\ Expired <=> real.since >= WatchdogTimeout

-----------------------------------------------------------------------------
(* How long the reader waits for a contact card: the waiting times of      *)
(* crates/ccid-protocol atr.rs.  A time unit (etu) is 1/baud; every wait   *)
(* is rounded up to whole milliseconds, floored and capped.                *)

FirstByteFloor == 500   \* T1_FIRST_BYTE_FLOOR_MS
FirstByteMax == 5000    \* T1_FIRST_BYTE_MAX_MS
InterByteFloor == 50    \* T1_INTER_BYTE_FLOOR_MS

Pow2 == <<1, 2, 4, 8, 16, 32, 64, 128, 256, 512, 1024, 2048, 4096, 8192, 16384, 32768>>

BwtEtu(bwi) == 11 + Pow2[bwi + 1] * 960
CwtEtu(cwi) == Pow2[cwi + 1] + 11
WwtEtu(wi) == (IF wi = 0 THEN 10 ELSE wi) * 960

\* div_ceil of an etu count at a baud rate, in milliseconds.
CeilMs(etu, baud) == (etu * 1000 + baud - 1) \div baud

T1BwtMs(bwi, baud) == IF baud = 0 THEN 5000 ELSE CeilMs(BwtEtu(bwi), baud)
T1CwtMs(cwi, baud) == IF baud = 0 THEN InterByteFloor ELSE CeilMs(CwtEtu(cwi), baud)

Clamp(ms, lo, hi) == IF ms < lo THEN lo ELSE IF ms > hi THEN hi ELSE ms

T1FirstByteTimeoutMs(bwi, baud) == Clamp(T1BwtMs(bwi, baud), FirstByteFloor, FirstByteMax)
T1InterByteTimeoutMs(cwi, baud) == Clamp(T1CwtMs(cwi, baud), InterByteFloor, FirstByteMax)

\* A wait of ms milliseconds lasts at least etu time units.
Lasts(ms, etu, baud) == ms * baud >= etu * 1000

\* "The reader waits at least the BWT it advertises for every BWI whose BWT
\* fits under this ceiling", and never longer than the ceiling; the same
\* between the bytes of a block.
PatienceCovers(wi, baud) ==
    /\ T1BwtMs(wi, baud) <= FirstByteMax => Lasts(T1FirstByteTimeoutMs(wi, baud), BwtEtu(wi), baud)
    /\ T1CwtMs(wi, baud) <= FirstByteMax => Lasts(T1InterByteTimeoutMs(wi, baud), CwtEtu(wi), baud)
    /\ T1FirstByteTimeoutMs(wi, baud) \in FirstByteFloor..FirstByteMax
    /\ T1InterByteTimeoutMs(wi, baud) \in InterByteFloor..FirstByteMax

\* The flat T=0 wait of five seconds covers the work waiting time of every
\* WI up to 56 at 10752 baud, the default ("that covers the legal WWT for
\* WI <= 56"), and of no larger one.
FlatWaitCovers(wi) == Lasts(FirstByteMax, WwtEtu(wi), 10752) <=> wi <= 56
=============================================================================
