------------------------------- MODULE T1Link -------------------------------
(***************************************************************************)
(* The T=1 endpoint at work: a host T=1 engine sends blocks to the reader  *)
(* as XfrBlock payloads, xfr_via_t1 (crates/ccid-service/src/              *)
(* ccid_handler.rs) feeds them to the endpoint with the slot active and    *)
(* relays a completed APDU to the card.  Blocks may be lost in either      *)
(* direction (a response dropped after the host's deadline, a frame that   *)
(* never arrived) or damaged on the way in.                                *)
(*                                                                         *)
(* The host engine is external (pcscd's libccid).  It is modelled from     *)
(* what t1.rs expects of it: one block outstanding, the same N(S) on every *)
(* piece of a chain, an acknowledgement per piece, a WTX granted when      *)
(* asked for, and the last block sent again when no answer came.           *)
(***************************************************************************)
EXTENDS T1Endpoint

CONSTANTS
    Apdus,        \* APDUs the application may send, non-empty
    Responses,    \* answers the card may give, non-empty
    PieceSize,    \* the host's INF size (its IFSC)
    IfsValues,    \* sizes the host may announce with S(IFS)
    MaxLosses     \* bound: blocks lost or damaged in one behaviour

\* The units that texts are made of.
UnitsOf(texts) == UNION {{text[i] : i \in DOMAIN text} : text \in texts}

ASSUME LinkAssumption ==
    /\ PieceSize \in Nat \ {0} /\ MaxLosses \in Nat
    /\ Apdus \subseteq Seq(UnitsOf(Apdus)) /\ Responses \subseteq Seq(UnitsOf(Responses))
    /\ <<>> \notin Apdus /\ <<>> \notin Responses
    /\ IfsValues \subseteq Nat

VARIABLES
    asked, ran, got,  \* the application's view, as in ApduExchange
    h_ns, h_rns,      \* host: its own N(S), the reader's N(S) it expects
    h_left,           \* host: units of the APDU not sent yet
    h_got,            \* host: response received so far
    h_last,           \* host: last block sent
    wire, answer,     \* the block on its way to the reader, to the host
    losses

appVars  == <<asked, ran, got>>
hostVars == <<h_ns, h_rns, h_left, h_got, h_last>>
linkVars == <<wire, answer, losses>>
vars == <<t1Vars, appVars, hostVars, linkVars>>

-----------------------------------------------------------------------------
(* The host *)

HostSend(b) == wire' = b /\ h_last' = b

SendPiece(units) ==
    LET size == Smaller(PieceSize, Len(units))
    IN  /\ HostSend(IBlock(h_ns, Len(units) > size, h_rns, SubSeq(units, 1, size)))
        /\ h_left' = SubSeq(units, size + 1, Len(units))

HostIdle == asked = <<>> /\ wire = NoBlock /\ answer = NoBlock

HostAsk(a) ==
    /\ HostIdle
    /\ asked' = a /\ ran' = <<>>
    /\ SendPiece(a)
    /\ h_got' = <<>>
    /\ UNCHANGED <<t1Vars, got, h_ns, h_rns, answer, losses>>

HostNegotiate(b) ==
    /\ HostIdle
    /\ HostSend(b)
    /\ UNCHANGED <<t1Vars, appVars, h_ns, h_rns, h_left, h_got, answer, losses>>

\* The acknowledgement of a piece: go on with the chain.
HostAcknowledged ==
    /\ answer.t = "R" /\ answer.err = 0 /\ answer.nr = h_ns /\ h_left # <<>>
    /\ SendPiece(h_left)
    /\ UNCHANGED <<appVars, h_ns, h_rns, h_got>>

\* Any other R-block asks for the last block again.
HostRepeats ==
    /\ answer.t = "R"
    /\ ~(answer.err = 0 /\ answer.nr = h_ns /\ h_left # <<>>)
    /\ HostSend(h_last)
    /\ UNCHANGED <<appVars, h_ns, h_rns, h_left, h_got>>

HostGrantsWtx ==
    /\ answer = WtxRequest
    /\ HostSend(SBlock("Wtx", TRUE, <<>>))
    /\ UNCHANGED <<appVars, h_ns, h_rns, h_left, h_got>>

HostNegotiated ==
    /\ answer.t = "S" /\ answer.response
    /\ wire' = NoBlock
    /\ h_ns'  = IF answer.kind = "Resync" THEN 0 ELSE h_ns
    /\ h_rns' = IF answer.kind = "Resync" THEN 0 ELSE h_rns
    /\ UNCHANGED <<appVars, h_left, h_got, h_last>>

HostTakesChunk ==
    /\ answer.t = "I" /\ answer.more
    /\ h_got' = h_got \o answer.inf
    /\ HostSend(RBlock(h_rns, 0))
    /\ UNCHANGED <<appVars, h_ns, h_rns, h_left>>

HostCompletes ==
    /\ answer.t = "I" /\ ~answer.more
    /\ got' = h_got \o answer.inf
    /\ asked' = <<>>
    /\ h_ns' = 1 - h_ns /\ h_rns' = 1 - h_rns
    /\ wire' = NoBlock
    /\ UNCHANGED <<ran, h_left, h_got, h_last>>

HostReceive ==
    /\ answer # NoBlock
    /\ answer' = NoBlock
    /\ \/ HostAcknowledged \/ HostRepeats \/ HostGrantsWtx
       \/ HostNegotiated \/ HostTakesChunk \/ HostCompletes
    /\ UNCHANGED <<t1Vars, losses>>

-----------------------------------------------------------------------------
(* The reader: xfr_via_t1 with the slot active.                            *)

ReaderLocal ==
    /\ wire # NoBlock
    /\ FeedLocal(wire)
    /\ answer' = reply' /\ wire' = NoBlock
    /\ UNCHANGED <<appVars, hostVars, losses>>

\* A completed APDU runs on the card before the call returns.
ReaderRelays(rsp, slow) ==
    /\ wire.t = "I"
    /\ FeedFinal(wire, rsp, slow)
    /\ ran' = Append(ran, [apdu |-> AssembledApdu(wire), rsp |-> rsp])
    /\ answer' = reply' /\ wire' = NoBlock
    /\ UNCHANGED <<asked, got, hostVars, losses>>

Reader ==
    \/ ReaderLocal
    \/ \E rsp \in Responses, slow \in BOOLEAN : ReaderRelays(rsp, slow)

-----------------------------------------------------------------------------
(* The link.  The host waits out a lost block and sends its last one again. *)

LoseBlock ==
    /\ losses < MaxLosses
    /\ wire # NoBlock \/ answer # NoBlock
    /\ losses' = losses + 1
    /\ wire' = h_last /\ answer' = NoBlock
    /\ UNCHANGED <<t1Vars, appVars, hostVars>>

DamageBlock ==
    /\ losses < MaxLosses
    /\ wire # NoBlock /\ wire # BadBlock
    /\ losses' = losses + 1
    /\ wire' = BadBlock
    /\ UNCHANGED <<t1Vars, appVars, hostVars, answer>>

-----------------------------------------------------------------------------

Init ==
    /\ InitEndpoint
    /\ asked = <<>> /\ ran = <<>> /\ got = <<>>
    /\ h_ns = 0 /\ h_rns = 0 /\ h_left = <<>> /\ h_got = <<>>
    /\ h_last = NoBlock
    /\ wire = NoBlock /\ answer = NoBlock /\ losses = 0

Next ==
    \/ \E a \in Apdus : HostAsk(a)
    \/ \E n \in IfsValues : HostNegotiate(SBlock("Ifs", FALSE, <<n>>))
    \/ HostNegotiate(SBlock("Resync", FALSE, <<>>))
    \/ HostReceive
    \/ Reader
    \/ LoseBlock
    \/ DamageBlock

\* The serve loop answers every block it is given, the host reads every
\* answer; the application may stay silent.
Spec == Init /\ [][Next]_vars /\ WF_vars(HostReceive) /\ WF_vars(Reader)

-----------------------------------------------------------------------------
(* Properties *)

Exchange == INSTANCE ApduExchange

\* The link is an ApduExchange: the card runs each APDU exactly once and as
\* written although blocks are retransmitted, the host gets exactly the
\* answer the card gave, and every APDU asked for is answered.
ImplementsExchange == Exchange!Spec

\* An I-block that reaches the host carries the N(S) the host expects, and
\* one it asked for: the two ends never fall out of step, through losses,
\* damaged blocks, WTX and resynchronisation.
SequenceNumbersAgree == answer.t = "I" => answer.ns = h_rns /\ asked # <<>>

\* What the card runs is the APDU that was asked for: FeedResult::Apdu is
\* "A complete APDU assembled from (possibly chained) I-blocks", and a
\* duplicate chain piece is never appended again.
RelayedAsAsked ==
    asked # <<>> => \A i \in 1..Len(ran) : ran[i].apdu = asked

\* What the host ends up with is the whole answer of the card, so an R-block
\* that asks for a repetition must not move the response chain on: t1.rs
\* says of it "Any R-block: retransmit the last block".
DeliveredWhole ==
    asked = <<>> /\ ran # <<>> => got = ran[Len(ran)].rsp

\* While a WTX is pending there is an answer to release, and the cached
\* frame is the WTX request itself: a host that missed it gets it again.
WtxHoldsAnswer ==
    wtx_pending => send_chain # <<>> /\ retry_first_frame = WtxRequest

\* Host and endpoint agree on the block in flight: the numbers of I-blocks
\* (SequenceNumbersAgree) and the answer a WTX stands for (WtxHoldsAnswer).
BlocksAgree == SequenceNumbersAgree /\ WtxHoldsAnswer
=============================================================================
