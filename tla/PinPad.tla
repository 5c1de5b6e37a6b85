------------------------------- MODULE PinPad -------------------------------
(***************************************************************************)
(* PIN entry on the touch screen (firmware/ccid-firmware/src/pinpad):      *)
(* PinEntryContext and PinModifyContext (state.rs), the TouchHandler       *)
(* (ui.rs), and the passes of the main loop that drive them (main.rs).     *)
(*                                                                         *)
(* A context is a record of its step and its three buffers; a verification *)
(* has the one step "Pin".  The millisecond counter wraps at TickMod.      *)
(***************************************************************************)
EXTENDS Naturals, Sequences, SequencesExt

CONSTANTS
    Digits,         \* the digit keys
    MinLens,        \* min_len and max_len of the PINs asked for
    MaxLens,
    Timeouts,       \* timeout_secs of the commands; 0: none
    TicksPerSecond,
    TickMod,        \* the tick counter counts modulo this
    MaxPass,        \* ticks a pass of the main loop may take
    UserLens, AdminLens,    \* lengths of a user and of an admin PIN
    ApduRoom        \* bytes a command has for a PIN

ASSUME PinPadAssumption ==
    /\ MinLens \subseteq Nat /\ MaxLens \subseteq Nat /\ Timeouts \subseteq Nat
    /\ TicksPerSecond \in Nat \ {0} /\ MaxPass \in Nat \ {0} /\ TickMod \in Nat \ {0}
    /\ Digits \cap {"Backspace", "Ok", "Cancel", "Blank", "none"} = {}
    /\ UserLens \subseteq 0..ApduRoom /\ AdminLens \subseteq 0..ApduRoom
    /\ \A t \in Timeouts : t * TicksPerSecond + MaxPass < TickMod

VARIABLES
    ctx,        \* the context: step, old, new, confirm, start, params
    tick,       \* TICK_COUNT
    touched,    \* TouchHandler: the button under the finger, or "none"
    age,        \* history: ticks since the entry began
    pass,       \* ticks since the last pass of the loop
    submitted   \* history: the buffers submitted with OK

pinVars == <<ctx, tick, touched, age, pass, submitted>>

Buttons == Digits \cup {"Backspace", "Ok", "Cancel", "Blank"}
Active == {"Pin", "OldPin", "NewPin", "ConfirmPin"}

\* The buffer that a step fills.
Field(step) == CASE step \in {"Pin", "OldPin"} -> "old"
                 [] step = "NewPin" -> "new"
                 [] OTHER -> "confirm"

Cleared(c, step) == [c EXCEPT !.step = step, !.old = <<>>, !.new = <<>>, !.confirm = <<>>]

\* Mutant: the limit of the buffer is off by one.
BadAddDigit(c, d) ==
    IF Len(c[Field(c.step)]) > c.params.max THEN c
    ELSE [c EXCEPT ![Field(c.step)] = Append(@, d)]

\* add_digit: PinBuffer::push refuses past max_len.
AddDigit(c, d) ==
    IF Len(c[Field(c.step)]) >= c.params.max THEN c
    ELSE [c EXCEPT ![Field(c.step)] = Append(@, d)]

Backspace(c) ==
    IF c[Field(c.step)] = <<>> THEN c
    ELSE [c EXCEPT ![Field(c.step)] = Front(@)]

\* submit: every step checks the minimum; the confirmation must repeat the
\* new PIN, and is then cleared.
Submit(c) ==
    CASE Len(c[Field(c.step)]) < c.params.min -> [c EXCEPT !.step = "InvalidLength"]
      [] c.step = "OldPin" /\ Len(c.old) >= c.params.min -> [c EXCEPT !.step = "NewPin"]
      [] c.step = "NewPin" /\ Len(c.new) >= c.params.min -> [c EXCEPT !.step = "ConfirmPin"]
      [] c.step = "ConfirmPin" /\ Len(c.confirm) >= c.params.min /\ c.new # c.confirm ->
            [c EXCEPT !.step = "Mismatch"]
      [] OTHER -> [c EXCEPT !.step = "Completed", !.confirm = <<>>]

\* Buttons other than Cancel do nothing in a step that has ended, which the
\* loop leaves in the pass that reached it.
Press(c, button) ==
    CASE button \in Digits -> AddDigit(c, button)
      [] button = "Backspace" -> Backspace(c)
      [] button = "Ok" -> Submit(c)
      [] button = "Cancel" -> Cleared(c, "Cancelled")
      [] OTHER -> c

\* Mutant: ticks are compared without wrapping.
UnwrappedElapsed(c) == IF tick >= c.start THEN tick - c.start ELSE 0

Elapsed(c) == ((tick + TickMod) - c.start) % TickMod

CheckTimeout(c) ==
    IF /\ c.step \in Active /\ c.params.timeout # 0
       /\ Elapsed(c) \div TicksPerSecond >= c.params.timeout
    THEN Cleared(c, "Timeout") ELSE c

\* VerifyApduBuilder::build and ModifyApduBuilder::build: lengths by the type
\* of PIN in the template, and none for other types; the PINs are copied one
\* behind the other.  A slice past the array panics.
Build(type, c) ==
    LET pins == IF c.modify THEN <<c.old, c.new>> ELSE <<c.old>>
        data == FlattenSeq(pins)
        lens == CASE type = "user" -> UserLens \ {0}
                  [] type = "admin" -> AdminLens \ {0}
                  [] OTHER -> Nat \ {0}
    IN CASE \E i \in DOMAIN pins : Len(pins[i]) \notin lens -> [out |-> "refused", data |-> <<>>]
         [] Len(data) > ApduRoom * Len(pins) /\ \A i \in DOMAIN pins : Len(pins[i]) \in lens ->
               [out |-> "panic", data |-> <<>>]
         [] OTHER -> [out |-> "apdu", data |-> data]

-----------------------------------------------------------------------------

\* A Secure command took the loop out of AppMode::Normal: new and start.
Begin ==
    /\ ctx.step \notin Active
    /\ \E modify \in BOOLEAN, min \in MinLens, max \in MaxLens, timeout \in Timeouts :
          ctx' = [step |-> IF modify THEN "OldPin" ELSE "Pin", modify |-> modify,
                  old |-> <<>>, new |-> <<>>, confirm |-> <<>>, start |-> tick,
                  params |-> [min |-> min, max |-> max, timeout |-> timeout]]
    /\ touched' = "none" /\ age' = 0 /\ submitted' = <<>>
    /\ UNCHANGED <<tick, pass>>

\* One pass of the loop.  TouchHandler::process: a touch is remembered, its
\* release is the button last touched; a touch controller that cannot be read
\* counts as a release.  Then the time-out, and the result.
Pass(touch) ==
    LET pressed == IF touch = "none" THEN touched ELSE "none"
        after == CheckTimeout(IF pressed = "none" THEN ctx ELSE Press(ctx, pressed))
    IN /\ ctx.step \in Active
       /\ ctx' = after
       /\ submitted' = IF pressed = "Ok" THEN Append(submitted, ctx[Field(ctx.step)])
                       ELSE submitted
       /\ touched' = touch /\ pass' = 0
       /\ UNCHANGED <<tick, age>>

\* SysTick.
Tick ==
    /\ ctx.step \in Active => pass < MaxPass
    /\ tick' = (tick + 1) % TickMod
    /\ IF ctx.step \in Active
       THEN pass' = pass + 1 /\ age' = (IF age < TickMod THEN age + 1 ELSE age)
       ELSE UNCHANGED <<pass, age>>
    /\ UNCHANGED <<ctx, touched, submitted>>

PinInit ==
    /\ ctx = [step |-> "Idle", modify |-> FALSE, old |-> <<>>, new |-> <<>>, confirm |-> <<>>,
              start |-> 0, params |-> [min |-> 0, max |-> 0, timeout |-> 0]]
    /\ tick = 0 /\ touched = "none" /\ age = 0 /\ pass = 0 /\ submitted = <<>>

PinPass == \E touch \in Buttons \cup {"none"} : Pass(touch)

PinNext == Begin \/ PinPass \/ Tick

-----------------------------------------------------------------------------
(* Properties *)

PinTypes == {"user", "admin", "other"}

\* A PIN that is sent to the card is what was entered and submitted, within
\* the limits the host gave; a changed PIN was entered twice, and the command
\* carries the old one and the new one whole.
PinAsConfirmed ==
    ctx.step = "Completed" =>
        /\ ctx.confirm = <<>>
        /\ submitted = IF ctx.modify THEN <<ctx.old, ctx.new, ctx.new>> ELSE <<ctx.old>>
        /\ \A i \in DOMAIN submitted :
              Len(submitted[i]) \in ctx.params.min..ctx.params.max
        /\ \A type \in PinTypes :
              Build(type, ctx).out = "apdu" => Build(type, ctx).data = ctx.old \o ctx.new

\* The entry times out when its time has passed, never before and not long
\* after, although the counter wraps in between.
TimeoutIsTrue ==
    LET due == ctx.params.timeout * TicksPerSecond
    IN /\ ctx.step = "Timeout" => age >= due
       /\ ctx.step \in Active /\ ctx.params.timeout # 0 => age - pass < due

\* A PIN the user may enter fits the command it is put in.
PinFitsApdu ==
    ctx.step = "Completed" => \A type \in PinTypes : Build(type, ctx).out # "panic"
=============================================================================
