----------------------------- MODULE T0Exchange -----------------------------
(***************************************************************************)
(* One T=0 exchange of the contact reader, byte by byte: transmit_apdu_t0  *)
(* (firmware/ccid-firmware/src/smartcard_common.rs) against a card that    *)
(* follows ISO 7816-3.  The reader sends a command's body right behind     *)
(* every header of its outer loop, that of a GET RESPONSE too, and then    *)
(* reads the card's procedure byte.                                        *)
(*                                                                         *)
(* Bytes are names: procedure and status bytes, the data d1, d2, ...       *)
(***************************************************************************)
EXTENDS Naturals, Sequences

CONSTANTS
    Room,           \* bytes in the response buffer
    GetResponseMax, \* SC_T0_GET_RESPONSE_MAX
    MaxWaits        \* bound: NULL bytes of the card

ASSUME T0Assumption == Room \in 2..5 /\ GetResponseMax \in Nat /\ MaxWaits \in Nat

VARIABLES
    cmd,        \* the command: has it a whole header, a body, and the data it asks for
    t0,         \* the reader: at, header, response, response_len, count, result
    line,       \* bytes on their way from the card
    waits       \* NULL bytes so far

t0Vars == <<cmd, t0, line, waits>>

Data(n) == SubSeq(<<"d1", "d2", "d3", "d4", "d5">>, 1, n)
Ok == <<"90", "00">>
Smaller2(a, b) == IF a < b THEN a ELSE b

-----------------------------------------------------------------------------
(* The card *)

\* What the card sends for a GET RESPONSE: C0 announces all bytes, 3F, its
\* complement, the next one (the others follow in their turn).
Fetched == {<<ack>> \o Data(cmd.le) \o Ok : ack \in {"C0", "3F"}}

\* What it sends once it has a header and the body behind it.  A GET RESPONSE
\* has no body: the card answers it in spite of the bytes behind it, or is
\* lost and says nothing.
CardAnswers(h) ==
    IF h.ins = "C0" THEN Fetched \cup {<<>>}
    ELSE IF cmd.body
         THEN {Ok, <<"ins">> \o Ok}
              \cup (IF cmd.le > 0 THEN {<<"61", cmd.le>>, <<"ins", "61", cmd.le>>} ELSE {})
         ELSE {<<"ins">> \o Data(cmd.le) \o Ok}
              \cup (IF h.p3 # cmd.le THEN {<<"6C", cmd.le>>} ELSE {})

-----------------------------------------------------------------------------
(* The reader *)

NewExchange ==
    [at |-> "send", header |-> [ins |-> "ins", p3 |-> 0], response |-> <<>>,
     len |-> 0, count |-> 0, le |-> 0, sw1 |-> "90"]

\* Two status bytes are stored if they fit, and counted anyway.
Store(r, sw1, sw2) ==
    [r EXCEPT !.response = IF r.len + 2 <= Room THEN @ \o <<sw1, sw2>> ELSE @,
              !.len = @ + 2]

\* `continue 'send`: body_offset is 5 again, so the body follows this header
\* as it followed the first.
Resend(r, ins, p3) == [r EXCEPT !.at = "send", !.header = [ins |-> ins, p3 |-> p3]]

\* The status word that follows the acknowledged command.
AfterAck(r, sw1, sw2) ==
    LET stored == Store(r, sw1, sw2)
    IN CASE sw1 = "6C" -> Resend(stored, r.header.ins, sw2)
         [] sw1 = "61" /\ stored.count < GetResponseMax ->
               [stored EXCEPT !.at = "get_response", !.count = @ + 1, !.le = sw2]
         [] OTHER -> [stored EXCEPT !.at = "done"]

\* GET RESPONSE sent from within: its data up to the room, its status word.
AfterData(r, sw1, sw2) ==
    LET stored == Store(r, sw1, sw2)
    IN IF sw1 = "61" THEN Resend(stored, "C0", sw2) ELSE [stored EXCEPT !.at = "done"]

\* The procedure byte of a header.  `ins` stays the command's own, also when
\* the header is that of a GET RESPONSE.
Procedure(r, b) ==
    CASE b = "ins" -> [r EXCEPT !.at = "ack"]
      [] b = "61" -> [r EXCEPT !.at = "more"]
      [] b = "6C" -> [r EXCEPT !.at = "wrong_le"]
      [] OTHER -> [r EXCEPT !.at = "status", !.sw1 = b]

\* Fewer than five bytes are no command.
Refuses ==
    /\ t0.at = "send" /\ ~cmd.whole
    /\ t0' = [t0 EXCEPT !.at = "error"]
    /\ UNCHANGED <<cmd, line, waits>>

\* The five bytes of the header, and the body of the command.
Sends ==
    /\ t0.at = "send" /\ cmd.whole
    /\ line' \in CardAnswers(t0.header)
    /\ t0' = [t0 EXCEPT !.at = "procedure"]
    /\ UNCHANGED <<cmd, waits>>

\* A NULL byte, or a request for the next body byte when all are sent: the
\* reader waits on.
CardWaits ==
    /\ (t0.at = "procedure" /\ line # <<>>) \/ t0.at = "get_response"
    /\ waits < MaxWaits
    /\ waits' = waits + 1
    /\ UNCHANGED <<cmd, t0, line>>

\* A byte cannot be sent, or does not come in time: the exchange ends there,
\* whatever was received (the `?` of every send_byte and recv_byte_timeout).
Fails ==
    /\ t0.at \notin {"done", "error"} /\ cmd.whole
    /\ t0' = [t0 EXCEPT !.at = "error"]
    /\ UNCHANGED <<cmd, line, waits>>

\* Take the next n bytes of the line.
Takes(n) == Len(line) >= n /\ line' = SubSeq(line, n + 1, Len(line))

ReceivesProcedure ==
    /\ t0.at = "procedure" /\ Takes(1)
    /\ t0' = Procedure(t0, line[1])
    /\ UNCHANGED <<cmd, waits>>

\* The status word after an acknowledgement: two bytes, whatever they are.
ReceivesAck ==
    /\ t0.at = "ack" /\ Takes(2)
    /\ t0' = AfterAck(t0, line[1], line[2])
    /\ UNCHANGED <<cmd, waits>>

ReceivesMore ==
    /\ t0.at = "more" /\ Takes(1)
    /\ t0' = IF t0.count >= GetResponseMax
             THEN [Store(t0, "61", line[1]) EXCEPT !.at = "done"]
             ELSE [Resend(t0, "C0", line[1]) EXCEPT !.count = @ + 1]
    /\ UNCHANGED <<cmd, waits>>

ReceivesWrongLe ==
    /\ t0.at = "wrong_le" /\ Takes(1)
    /\ t0' = Resend(t0, t0.header.ins, line[1])
    /\ UNCHANGED <<cmd, waits>>

\* Any other procedure byte is SW1, and the exchange ends.
ReceivesStatus ==
    /\ t0.at = "status" /\ Takes(1)
    /\ t0' = [Store(t0, t0.sw1, line[1]) EXCEPT !.at = "done"]
    /\ UNCHANGED <<cmd, waits>>

\* The inner GET RESPONSE, its header sent alone and its answer read to the
\* end.  A procedure byte other than C0 (or 4F) ends the exchange with the 61
\* stored before.
GetsResponse ==
    /\ t0.at = "get_response"
    /\ \E answer \in Fetched :
         LET n == Smaller2(t0.le, IF Room > t0.len THEN Room - t0.len ELSE 0)
             rest == SubSeq(answer, n + 2, n + 3)
         IN \/ /\ answer[1] = "C0"
               /\ t0' = AfterData([t0 EXCEPT !.response = @ \o SubSeq(answer, 2, n + 1),
                                             !.len = @ + n], rest[1], rest[2])
               /\ line' = SubSeq(answer, n + 4, Len(answer))
            \/ /\ answer[1] # "C0"
               /\ t0' = [t0 EXCEPT !.at = "done"] /\ line' = Tail(answer)
    /\ UNCHANGED <<cmd, waits>>

\* The next command of the host; the receive line was purged before it.
Again ==
    /\ t0.at \in {"done", "error"}
    /\ \E whole, body \in BOOLEAN, le \in 0..Room :
          /\ ~body => le > 0
          /\ cmd' = [whole |-> whole, body |-> body, le |-> le]
    /\ t0' = NewExchange /\ line' = <<>> /\ waits' = 0

T0Init ==
    /\ cmd = [whole |-> TRUE, body |-> TRUE, le |-> 0] /\ t0 = NewExchange /\ line = <<>> /\ waits = 0

T0Next ==
    \/ Refuses \/ Sends \/ Fails \/ CardWaits \/ ReceivesProcedure \/ ReceivesAck \/ ReceivesMore
    \/ ReceivesWrongLe \/ ReceivesStatus \/ GetsResponse \/ Again

-----------------------------------------------------------------------------
(* Properties *)

\* A command that asks for no data is answered with the card's status word,
\* through NULL bytes and acknowledgements.
StatusIsTheCards ==
    t0.at = "done" /\ cmd.body /\ cmd.le = 0 => t0.response = Ok

\* "T=0 protocol APDU transmission (procedure bytes, GET RESPONSE 61 XX,
\* wrong Le 6C XX)": the host gets the data the card sent and its status
\* word, if they fit.
DataIsTheCards ==
    t0.at = "done" /\ cmd.le + 2 <= Room => t0.response = Data(cmd.le) \o Ok

\* What is reported as received fits the buffer.
LengthFits == t0.at = "done" => t0.len <= Room
=============================================================================
