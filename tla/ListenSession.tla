---------------------------- MODULE ListenSession ----------------------------
(***************************************************************************)
(* The card-emulation role of the PN7160: crates/pn7160-nci listen.rs (the *)
(* bring-up ladder and ListenSession), responder.rs (the fixed table of    *)
(* answers) and the loop of firmware/esp32-ccid pn7160_listen.rs.  The     *)
(* loop reads one frame at a time; a complete command is answered at once, *)
(* in fragments that each cost a credit, and while it waits for the next   *)
(* credit the loop reads, and throws away, whatever else the line brings.  *)
(* Readers come and go on their own.                                       *)
(***************************************************************************)
EXTENDS Integers, Sequences

CONSTANTS Commands,      \* the commands readers send: "select", "update", "data", "plain", "bare"
          Payloads,      \* values of Max Data Payload an activation may advertise
          MaxData,       \* MAX_DATA_FRAGMENT
          CreditPolls,   \* CREDIT_POLLS
          RxCapacity,    \* pieces of a command that fit the reassembly buffer
          MaxPieces,     \* pieces of the longest command
          MaxCommands,   \* commands a reader sends per activation
          MaxVisits      \* activations explored

ASSUME ListenAssumption ==
    /\ Commands \subseteq {"select", "update", "data", "plain", "bare"}
    /\ Payloads \subseteq Nat /\ MaxData \in Nat \ {0} /\ CreditPolls \in Nat
    /\ {RxCapacity, MaxPieces, MaxCommands, MaxVisits} \subseteq Nat

VARIABLES ls,     \* ListenSession, and the response under way
          ce,     \* the controller and the reader before it
          lframes \* the frames that wait to be read, oldest first

liVars == <<ls, ce, lframes>>

NoConn == -1
StaticConn == 0    \* NCI_STATIC_RF_CONN_ID

Activated(e, p) == [k |-> "activated", e |-> e, p |-> p]
Deactivated     == [k |-> "deactivated"]
Granted(c)      == [k |-> "credit", conn |-> c]
Piece(e, n, i, c) == [k |-> "data", e |-> e, n |-> n, i |-> i, conn |-> c]

(* ListenSession::new, and reset.  e is the activation the session is in;  *)
(* out holds the fragments still to send, polls the credit budget left,    *)
(* whole whether the last command answered was complete.                   *)
Fresh == [active |-> FALSE, conn |-> NoConn, credits |-> 0, cap |-> 0, rx |-> <<>>,
          e |-> 0, out |-> 0, polls |-> 0, whole |-> TRUE]

(* A board after a ladder that ended well, or not at all: it listens, or   *)
(* it does not.                                                            *)
Quiescent(c, listening) == [c EXCEPT !.on = FALSE, !.credits = 0, !.owed = 0, !.say = 0,
                                     !.armed = listening]

LiInit == /\ ls = Fresh
          /\ ce = [armed |-> TRUE, on |-> FALSE, e |-> 0, credits |-> 0, owed |-> 0,
                   cmd |-> "plain", n |-> 0, say |-> 0, left |-> 0]
          /\ lframes = <<>>

-----------------------------------------------------------------------------
(* responder::answer: the length of the R-APDU.  A SELECT of four bytes    *)
(* has no length byte: the slice of its AID starts past its end.           *)
AnswerLength(cmd) == CASE cmd = "select" -> 32
                       [] cmd = "update" -> 21
                       [] cmd = "data"   -> 50
                       [] cmd = "plain"  -> 2

Panics(cmd) == cmd = "bare"

FragmentCap(p) == IF p = 0 \/ p > MaxData THEN MaxData ELSE p

Fragments(cmd, p) == (AnswerLength(cmd) + FragmentCap(p) - 1) \div FragmentCap(p)

(* bind_conn: the first connection id seen is the session's. *)
Diverges(s, c) == s.conn \notin {NoConn, c}

(* run_ladder_listen, up to five times with a VEN cycle in between: every  *)
(* pending frame is drained away.                                          *)
Ladder == \E ok \in BOOLEAN : ce' = Quiescent(ce, ok) /\ lframes' = <<>>

-----------------------------------------------------------------------------
(* respond sends as many fragments as there are credits; without one it    *)
(* waits.                                                                  *)
Pour(s) == LET k == IF s.out < s.credits THEN s.out ELSE s.credits
           IN  [s EXCEPT !.out = @ - k, !.credits = @ - k,
                         !.polls = IF s.out > k THEN CreditPolls ELSE 0]

Poured(s, c) == LET k == s.out - Pour(s).out
                IN  IF ~c.on THEN c
                    ELSE [c EXCEPT !.credits = @ - k, !.owed = @ + k, !.n = IF Pour(s).out = 0 THEN 0 ELSE @]

(* ... and a write that fails ends the session. *)
SendAll(s) == \/ ls' = Pour(s) /\ ce' = Poured(s, ce)
              \/ s.credits > 0 /\ ls' = Fresh /\ UNCHANGED ce

(* respond refuses a response outside a session. *)
Respond(s, cmd, whole) ==
    IF s.active
    THEN SendAll([s EXCEPT !.out = Fragments(cmd, s.cap), !.whole = whole])
    ELSE ls' = s /\ UNCHANGED ce

Waiting == ls.out > 0
Next1 == Head(lframes)
Consume == lframes' = Tail(lframes)

(* One turn of the loop with a frame to read. *)
PollActivated ==
    /\ Next1.k = "activated"
    /\ ls' = [ls EXCEPT !.active = TRUE, !.cap = Next1.p, !.credits = 1, !.rx = <<>>, !.e = Next1.e]
    /\ Consume /\ UNCHANGED ce

PollDeactivated == Next1.k = "deactivated" /\ ls' = Fresh /\ Consume /\ UNCHANGED ce

PollCredit ==
    /\ Next1.k = "credit" /\ ~Diverges(ls, Next1.conn)
    /\ ls' = [ls EXCEPT !.conn = Next1.conn, !.credits = @ + 1]
    /\ Consume /\ UNCHANGED ce

(* The pieces of a command are joined until the one without the boundary   *)
(* flag; the reassembled command is answered in the same turn.             *)
Joined == Append(ls.rx, <<Next1.e, Next1.i>>)

IsWhole(rx, f) == rx = [i \in 1..f.n |-> <<f.e, i>>]

Complete(f) == f.i = f.n

PollData ==
    /\ Next1.k = "data" /\ ~Diverges(ls, Next1.conn) /\ Len(ls.rx) < RxCapacity
    /\ Consume
    /\ LET s == [ls EXCEPT !.conn = Next1.conn, !.rx = Joined]
       IN  IF Complete(Next1)
           THEN /\ ~Panics(ce.cmd)
                /\ Respond([s EXCEPT !.rx = <<>>], ce.cmd, IsWhole(Joined, Next1))
           ELSE ls' = s /\ UNCHANGED ce

(* The panic restarts the board, which climbs the ladder again. *)
PanicRestart ==
    /\ Next1.k = "data" /\ ~Diverges(ls, Next1.conn) /\ Len(ls.rx) < RxCapacity
    /\ Complete(Next1) /\ Panics(ce.cmd)
    /\ ls' = Fresh /\ Ladder

(* A foreign connection id, or a chain longer than the buffer. *)
Relisten ==
    /\ Next1.k \in {"data", "credit"}
    /\ Diverges(ls, Next1.conn) \/ (Next1.k = "data" /\ Len(ls.rx) = RxCapacity)
    /\ ls' = Fresh /\ Ladder

Poll == /\ ~Waiting /\ lframes # <<>>
        /\ PollActivated \/ PollDeactivated \/ PollCredit \/ PollData \/ PanicRestart \/ Relisten

(* await_credit: frames other than credits are read and dropped; a grant   *)
(* lets the next fragment go; a foreign id, or the budget spent, ends the  *)
(* session.                                                                *)
AwaitFrame ==
    /\ Waiting /\ lframes # <<>> /\ Consume
    /\ \/ Next1.k # "credit" /\ UNCHANGED <<ls, ce>>
       \/ Next1.k = "credit" /\ Diverges(ls, Next1.conn) /\ ls' = Fresh /\ UNCHANGED ce
       \/ Next1.k = "credit" /\ ~Diverges(ls, Next1.conn) /\ SendAll([ls EXCEPT !.credits = @ + 1])

AwaitQuiet ==
    /\ Waiting /\ lframes = <<>>
    /\ ls' = IF ls.polls = 1 THEN Fresh ELSE [ls EXCEPT !.polls = @ - 1]
    /\ UNCHANGED <<ce, lframes>>

-----------------------------------------------------------------------------
(* A reader finds the board.  Assumed: the notice of the previous one's    *)
(* departure has been read by then.  The loop sleeps 20 ms after an empty  *)
(* read, so this is a bound on how fast readers follow each other.         *)
Arrive == /\ ce.armed /\ ~ce.on /\ ce.e < MaxVisits /\ lframes = <<>>
          /\ \E p \in Payloads :
                /\ ce' = [ce EXCEPT !.on = TRUE, !.e = @ + 1, !.credits = 1, !.owed = 0, !.say = 0, !.n = 0,
                                     !.left = MaxCommands]
                /\ lframes' = <<Activated(ce.e + 1, p)>>
          /\ UNCHANGED ls

(* It sends a command, in pieces, and the next one only when it has the    *)
(* last fragment of the answer.                                            *)
Command(cmd, n) ==
    /\ ce.on /\ ce.n = 0 /\ ce.left > 0
    /\ ce' = [ce EXCEPT !.cmd = cmd, !.n = n, !.say = 1, !.left = @ - 1]
    /\ UNCHANGED <<ls, lframes>>

Speak(c) ==
    /\ ce.on /\ ce.say \in 1..ce.n
    /\ lframes' = Append(lframes, Piece(ce.e, ce.n, ce.say, c))
    /\ ce' = [ce EXCEPT !.say = @ + 1]
    /\ UNCHANGED ls

Regrant(c) ==
    /\ ce.on /\ ce.owed > 0
    /\ lframes' = Append(lframes, Granted(c))
    /\ ce' = [ce EXCEPT !.owed = @ - 1, !.credits = @ + 1]
    /\ UNCHANGED ls

Depart == /\ ce.on
          /\ ce' = Quiescent(ce, ce.armed)
          /\ lframes' = Append(lframes, Deactivated)
          /\ UNCHANGED ls

LiNext == \/ Poll \/ AwaitFrame \/ AwaitQuiet
          \/ Arrive \/ Depart
          \/ \E cmd \in Commands, n \in 1..MaxPieces : Command(cmd, n)
          \/ \E c \in {StaticConn, StaticConn + 1} : Speak(c) \/ Regrant(c)

LiSpec == LiInit /\ [][LiNext]_liVars

-----------------------------------------------------------------------------
(* A command is answered only if every piece of it arrived, in order, in   *)
(* the activation that is answered: nothing left in the reassembly buffer  *)
(* by an earlier reader, nothing that the wait for a credit threw away.    *)
AnswersWhole == ls.whole

(* Within one activation no fragment is sent that the controller has not   *)
(* granted a credit for.                                                   *)
ListenCreditRespected == ce.credits >= 0

(* AnswersWhole and ListenCreditRespected. *)
ListenIsSound == AnswersWhole /\ ListenCreditRespected
=============================================================================
