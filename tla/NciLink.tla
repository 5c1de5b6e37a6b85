------------------------------ MODULE NciLink ------------------------------
(***************************************************************************)
(* One APDU over the RF data connection of the PN7160:                     *)
(* crates/pn7160-nci, reader::exchange_detailed, and the fragments of      *)
(* data::encode_fragment.  The reader (DH) cuts the APDU into fragments,   *)
(* waits for a credit after each one but the last, then collects the       *)
(* segments of the answer; every round of both loops spends the one        *)
(* budget.  The controller (NFCC) grants the credit back, and passes the   *)
(* answer on, in its own time; both, with the waiting-time notices and the *)
(* loss of the tag, arrive on one line in order.                           *)
(***************************************************************************)
EXTENDS Integers, Sequences

CONSTANTS CollectRounds,  \* DATA_COLLECT_ROUNDS
          MaxFragments,   \* fragments of the longest APDU
          MaxSegments,    \* segments of the longest answer
          Capacity,       \* segments that fit the 1024 bytes of a response
          MaxExchanges,   \* exchanges explored
          MaxChurn,       \* waiting-time notices, per exchange
          GrantFirst      \* does the controller re-grant before it answers?

ASSUME NciLinkAssumption ==
    /\ CollectRounds \in Nat \ {0} /\ MaxChurn \in Nat /\ GrantFirst \in BOOLEAN
    /\ {MaxFragments, MaxSegments, Capacity, MaxExchanges} \subseteq Nat

VARIABLES xl,    \* the reader's side of the exchange
          nfcc,  \* the controller's side of the connection
          line   \* the frames that wait to be read, oldest first

nlVars == <<xl, nfcc, line>>

Credit == [k |-> "credit"]
Wtx    == [k |-> "wtx"]
Lost   == [k |-> "lost"]
Data(x, i, more) == [k |-> "data", x |-> x, i |-> i, pbf |-> more]

(* RF_INTF_ACTIVATED grants one credit on the data connection. *)
Interface == [credits |-> 1, owed |-> 0, taken |-> 0, want |-> 0, segs |-> 0, said |-> 0, churn |-> 0]

NlInit == /\ xl = [at |-> "idle", x |-> 0, n |-> 0, sent |-> 0, budget |-> 0, got |-> <<>>]
          /\ nfcc = Interface
          /\ line = <<>>

-----------------------------------------------------------------------------
(* What the controller does with a fragment it is sent.  One that arrives  *)
(* without a credit is outside the protocol: the debt shows in credits.    *)
Take(c) == [c EXCEPT !.credits = @ - 1, !.owed = @ + 1, !.taken = @ + 1]

(* One DATA packet goes out; the last of the message opens the collection. *)
SendFragment(h) == [h EXCEPT !.sent = @ + 1, !.at = IF h.sent + 1 = h.n THEN "collect" ELSE "gate"]

(* An APDU of n fragments whose answer the card will give in s segments.   *)
Exchange(n, s) ==
    /\ xl.at = "idle" /\ xl.x < MaxExchanges
    /\ xl' = SendFragment([at |-> "gate", x |-> xl.x + 1, n |-> n, sent |-> 0, budget |-> CollectRounds,
                           got |-> <<>>])
    /\ nfcc' = Take([nfcc EXCEPT !.taken = 0, !.want = n, !.segs = s, !.said = 0, !.churn = 0])
    /\ UNCHANGED line

(* A write the controller does not acknowledge ends the exchange as a      *)
(* timeout does.                                                           *)
WriteFails ==
    /\ xl.at = "idle" /\ xl.x < MaxExchanges
    /\ xl' = [xl EXCEPT !.at = "timeout", !.x = @ + 1, !.got = <<>>]
    /\ UNCHANGED <<nfcc, line>>

(* A round that brought nothing the loop waits for. *)
SpendRound(h) == [h EXCEPT !.budget = @ - 1, !.at = IF h.budget = 1 THEN "timeout" ELSE @]

Frame == Head(line)
Read == line' = Tail(line)
Quiet == line = <<>>

(* What opens the gate. *)
Grants(f) == f = Credit

(* The credit gate between two fragments; the write behind it may fail too. *)
GateRound ==
    /\ xl.at = "gate"
    /\ \/ Quiet /\ xl' = SpendRound(xl) /\ UNCHANGED <<nfcc, line>>
       \/ /\ ~Quiet /\ Grants(Frame) /\ Read
          /\ \/ xl' = SendFragment(xl) /\ nfcc' = Take(nfcc)
             \/ xl' = [xl EXCEPT !.at = "timeout"] /\ UNCHANGED nfcc
       \/ ~Quiet /\ Frame = Lost /\ xl' = [xl EXCEPT !.at = "lost"] /\ Read /\ UNCHANGED nfcc
       \/ ~Quiet /\ ~Grants(Frame) /\ Frame # Lost /\ xl' = SpendRound(xl) /\ Read /\ UNCHANGED nfcc

(* A segment of the answer: it is appended if it fits, and the one without *)
(* the boundary flag completes the response.                               *)
Collected(h, f) ==
    IF Len(h.got) = Capacity
    THEN [h EXCEPT !.at = "timeout"]
    ELSE LET g == [h EXCEPT !.got = Append(@, <<f.x, f.i>>)]
         IN  IF f.pbf THEN SpendRound(g) ELSE [g EXCEPT !.at = "data"]

CollectRound ==
    /\ xl.at = "collect" /\ UNCHANGED nfcc
    /\ \/ Quiet /\ xl' = SpendRound(xl) /\ UNCHANGED line
       \/ ~Quiet /\ Frame.k = "data" /\ xl' = Collected(xl, Frame) /\ Read
       \/ ~Quiet /\ Frame = Lost /\ xl' = [xl EXCEPT !.at = "lost"] /\ Read
       \/ ~Quiet /\ Frame.k \in {"credit", "wtx"} /\ xl' = SpendRound(xl) /\ Read

(* What the driver does with the outcome: after a timeout the interface is *)
(* deactivated, the line drained and the tag activated afresh; after a     *)
(* loss the controller has already torn the interface down.                *)
Settled(h, c, l) ==
    IF h.at = "data" THEN <<c, l>> ELSE <<Interface, <<>>>>

Settle ==
    /\ xl.at \in {"data", "timeout", "lost"}
    /\ xl' = [xl EXCEPT !.at = "idle", !.got = <<>>]
    /\ nfcc' = Settled(xl, nfcc, line)[1]
    /\ line' = Settled(xl, nfcc, line)[2]

-----------------------------------------------------------------------------
Running == xl.at \in {"gate", "collect"}

(* The controller has passed a fragment on and can buffer another. *)
Grant == /\ nfcc.owed > 0
         /\ nfcc' = [nfcc EXCEPT !.owed = @ - 1, !.credits = @ + 1]
         /\ line' = Append(line, Credit)
         /\ UNCHANGED xl

(* The card has the whole APDU and the controller passes on a segment of   *)
(* its answer.                                                             *)
Answer == /\ nfcc.taken = nfcc.want /\ nfcc.said < nfcc.segs
          /\ GrantFirst => nfcc.owed = 0
          /\ nfcc' = [nfcc EXCEPT !.said = @ + 1]
          /\ line' = Append(line, Data(xl.x, nfcc.said + 1, nfcc.said + 1 < nfcc.segs))
          /\ UNCHANGED xl

(* The card asks for more time (6F 17 00). *)
Stretch == /\ Running /\ nfcc.churn < MaxChurn
           /\ nfcc' = [nfcc EXCEPT !.churn = @ + 1]
           /\ line' = Append(line, Wtx)
           /\ UNCHANGED xl

(* The tag leaves the field: the last thing this interface says. *)
Leave == /\ Running /\ Lost \notin {line[i] : i \in 1..Len(line)}
         /\ nfcc' = [nfcc EXCEPT !.owed = 0, !.segs = nfcc.said, !.churn = MaxChurn]
         /\ line' = Append(line, Lost)
         /\ UNCHANGED xl

NlNext == \/ \E n \in 1..MaxFragments, s \in 1..MaxSegments : Exchange(n, s)
          \/ WriteFails \/ GateRound \/ CollectRound \/ Settle
          \/ Grant \/ Answer \/ Stretch \/ Leave

NlSpec == NlInit /\ [][NlNext]_nlVars

-----------------------------------------------------------------------------
(* A response handed to the CCID layer is the whole answer to the APDU     *)
(* just sent, its segments in order: no segment of an earlier exchange     *)
(* that timed out, none missing, none twice.                               *)
AnswerIsWhole == xl.at = "data" => xl.got = [i \in 1..nfcc.segs |-> <<xl.x, i>>]

(* No DATA packet goes out on a connection without a credit                *)
(* ("The DH SHALL NOT send any Data Packet on a connection when the        *)
(* corresponding NFCC_Credits_Avail is 0").                                *)
CreditRespected == nfcc.credits >= 0
=============================================================================
