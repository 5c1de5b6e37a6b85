--------------------------- MODULE MC_ContactParts ---------------------------
(***************************************************************************)
(* The parts of the STM32 reader below its USB transport, checked side by  *)
(* side: a behaviour runs one of them, chosen at the start, and the others *)
(* rest in their initial states.                                           *)
(***************************************************************************)
EXTENDS PinPad, CardDriver, T0Exchange, PpsExchange, CardTiming, Atr, SecureMessage, BitBang

VARIABLE part   \* the part that runs

partVars == <<part, pinVars, driverVars, t0Vars, ppsVars, dwtVars, atrVars, secVars, bbVars>>

\* One initial state of the parts whose inputs are chosen at the start.
AtrRest == p = Defaults /\ levels = <<[ta |-> FALSE, tb |-> FALSE, tc |-> FALSE, td |-> NoTd]>> /\ got = 2 /\ ats = <<0>>
SecRest == /\ op = "verify" /\ number = 0 /\ fields = [v |-> "called"] /\ verdict1 = "called" /\ typed = <<>> /\ wiped = TRUE
           /\ block = <<>> /\ buf = NewBuffer(0)
BbRest == /\ job = "raw" /\ acc = <<>> /\ outcome = "run" /\ spoken = <<>> /\ ahead = <<>>
          /\ diag = DiagTlv(<<>>, 2, "io")

PartsInit ==
    /\ part \in {"pin", "driver", "t0", "pps", "dwt", "atr", "secure", "line"}
    /\ PinInit /\ DriverInit /\ T0Init /\ PpsInit /\ DwtInit
    /\ part # "driver" => Uart
    /\ IF part = "atr" THEN AtrInit ELSE AtrRest
    /\ IF part = "secure" THEN SecInit ELSE SecRest
    /\ IF part = "line" THEN BbInit ELSE BbRest

PinStep(A) == part = "pin" /\ A /\ UNCHANGED <<part, driverVars, t0Vars, ppsVars, dwtVars, atrVars, secVars, bbVars>>
DriverStep(A) == part = "driver" /\ A /\ UNCHANGED <<part, pinVars, t0Vars, ppsVars, dwtVars, atrVars, secVars, bbVars>>
T0Step(A) == part = "t0" /\ A /\ UNCHANGED <<part, pinVars, driverVars, ppsVars, dwtVars, atrVars, secVars, bbVars>>
PpsStep(A) == part = "pps" /\ A /\ UNCHANGED <<part, pinVars, driverVars, t0Vars, dwtVars, atrVars, secVars, bbVars>>
DwtStep(A) == part = "dwt" /\ A /\ UNCHANGED <<part, pinVars, driverVars, t0Vars, ppsVars, atrVars, secVars, bbVars>>
AtrStep(A) == part = "atr" /\ A /\ UNCHANGED <<part, pinVars, driverVars, t0Vars, ppsVars, dwtVars, secVars, bbVars>>
SecStep(A) == part = "secure" /\ A /\ UNCHANGED <<part, pinVars, driverVars, t0Vars, ppsVars, dwtVars, atrVars, bbVars>>
BbStep(A) == part = "line" /\ A /\ UNCHANGED <<part, pinVars, driverVars, t0Vars, ppsVars, dwtVars, atrVars, secVars>>

PartsNext ==
    \/ PinStep(PinNext) \/ DriverStep(DriverNext) \/ T0Step(T0Next) \/ PpsStep(PpsNext)
    \/ DwtStep(DwtNext) \/ AtrStep(AtrNext) \/ SecStep(SecNext) \/ BbStep(BbNext)

\* The fairness of the driver: see DriverSpec.
PartsSpec ==
    /\ PartsInit /\ [][PartsNext]_partVars
    /\ WF_partVars(DriverStep(Xfr)) /\ SF_partVars(DriverStep(Reactivated))

-----------------------------------------------------------------------------
(* Properties *)

\* Reader, driver and card agree on how they talk: SpeedsAgree and
\* ProtocolsAgree of CardDriver.
SessionsAgree == SpeedsAgree /\ ProtocolsAgree

\* What the reader takes from the wire is what the card put there: an
\* accepted PPS is the card's echo, a T=0 status word the card's own.
WireIsTrue == PpsIsEcho /\ StatusIsTheCards

\* What the reader reads is what was put there: the parameters of an ATR
\* (AtrIsRead, HistoryKept), the fields of a Secure command and the PIN typed
\* for it (FieldsAreHosts, PinIsTyped), the bytes of a bit-banged answer and
\* the records kept of it (AnswerIsTheCards, DiagParses).
HostAndCardAreRead ==
    /\ part = "atr" => AtrIsTrue
    /\ part = "secure" => FieldsAreHosts /\ PinIsTyped
    /\ part = "line" => AnswerIsTheCards /\ DiagParses

\* Wrapping counters tell the time: a PIN entry times out when its time has
\* passed, uptime and byte watchdogs lose no cycle.
TimesAreTrue == TimeoutIsTrue /\ ClocksAreTrue
=============================================================================
