----------------------------- MODULE T1Endpoint -----------------------------
(***************************************************************************)
(* The reader's T=1 endpoint: T1Endpoint of crates/ccid-service/src/t1.rs. *)
(* The host's T=1 engine sends one block per XfrBlock and gets one block   *)
(* back; Feed(b, ...) is that exchange, `reply` the block it returns.      *)
(*                                                                         *)
(* Abstractions.  An information field is a sequence of units (a unit      *)
(* stands for a run of bytes), so the INF sizes IFSC/IFSD and the relay    *)
(* buffer are counted in units.  A block whose length or checksum is wrong *)
(* is BadBlock.  The clock enters only as `slow`: whether the card took    *)
(* longer than the host's block waiting time less the turnaround margin.   *)
(***************************************************************************)
EXTENDS Naturals, Sequences

CONSTANTS
    DefaultIfs,   \* send_ifsc and host_ifsd of a fresh endpoint
    MaxIfs,       \* MAX_IFSC
    MaxRelay      \* MAX_RELAY, the capacity of recv_chain and send_chain

ASSUME IfsAssumption ==
    /\ DefaultIfs \in Nat \ {0} /\ MaxIfs \in Nat \ {0} /\ MaxRelay \in Nat
    /\ DefaultIfs <= MaxIfs

VARIABLES
    ns,                 \* our send sequence number
    host_ns,            \* the host sequence number expected next
    send_ifsc,          \* the largest INF we send
    host_ifsd,          \* the largest INF we accept
    recv_chain,         \* host chain received so far
    send_chain,         \* what is left of the card's response
    last_sent,          \* for retransmission on an R-block
    wtx_pending,        \* S(WTX request) sent, not yet granted
    retry_ns,           \* sequence number of the last answered host chain
    retry_first_frame,  \* first frame of the answer to that chain
    reply               \* the block returned by the last Feed

t1Vars == <<ns, host_ns, send_ifsc, host_ifsd, recv_chain, send_chain,
            last_sent, wtx_pending, retry_ns, retry_first_frame, reply>>

-----------------------------------------------------------------------------
(* Blocks *)

IBlock(n, more, nr, inf) ==
    [t |-> "I", ns |-> n, more |-> more, nr |-> nr, inf |-> inf]
RBlock(nr, err) == [t |-> "R", nr |-> nr, err |-> err]
SBlock(kind, isResponse, inf) ==
    [t |-> "S", kind |-> kind, response |-> isResponse, inf |-> inf]
BadBlock == [t |-> "bad"]
NoBlock  == [t |-> "none"]

WtxRequest == SBlock("Wtx", FALSE, <<>>)

\* None in Option<u8>: neither sequence number.
NoNs == 2

Smaller(a, b) == IF a < b THEN a ELSE b

-----------------------------------------------------------------------------

InitEndpoint ==
    /\ ns = 0 /\ host_ns = 0
    /\ send_ifsc = DefaultIfs /\ host_ifsd = DefaultIfs
    /\ recv_chain = <<>> /\ send_chain = <<>>
    /\ last_sent = NoBlock /\ reply = NoBlock
    /\ wtx_pending = FALSE
    /\ retry_ns = NoNs /\ retry_first_frame = NoBlock

\* reset(), then set_host_timing with the INF size the host will accept.
ResetEndpoint(ifsd) ==
    /\ ns' = 0 /\ host_ns' = 0
    /\ send_ifsc' = DefaultIfs /\ host_ifsd' = ifsd
    /\ recv_chain' = <<>> /\ send_chain' = <<>>
    /\ last_sent' = NoBlock /\ reply' = NoBlock
    /\ wtx_pending' = FALSE
    /\ retry_ns' = NoNs /\ retry_first_frame' = NoBlock

\* bad_block: demand a retransmission; nothing is latched.
RefuseBlock ==
    /\ reply' = RBlock(host_ns, 1)
    /\ UNCHANGED <<ns, host_ns, send_ifsc, host_ifsd, recv_chain, send_chain,
                   last_sent, wtx_pending, retry_ns, retry_first_frame>>

ReplyOnly(b) ==
    /\ reply' = b
    /\ UNCHANGED <<ns, host_ns, send_ifsc, host_ifsd, recv_chain, send_chain,
                   last_sent, wtx_pending, retry_ns, retry_first_frame>>

\* take_next_chain_block on a non-empty chain: every block of a chain carries
\* the same N(S), which toggles after the last one.
SendChainBlock(chain) ==
    LET chunk == Smaller(send_ifsc, Len(chain))
        more  == Len(chain) > chunk
        b     == IBlock(ns, more, host_ns', SubSeq(chain, 1, chunk))
    IN  /\ send_chain' = SubSeq(chain, chunk + 1, Len(chain))
        /\ ns' = IF more THEN ns ELSE 1 - ns
        /\ last_sent' = b
        /\ reply' = b

-----------------------------------------------------------------------------
(* R-blocks *)

\* "send next / repeat": the next block of the chain if one is left, else
\* the last block again; while a WTX is pending, always the last block.
FeedR ==
    \/ /\ wtx_pending \/ send_chain = <<>>
       /\ last_sent # NoBlock
       /\ ReplyOnly(last_sent)
    \/ /\ ~wtx_pending \/ last_sent = NoBlock
       /\ send_chain # <<>>
       /\ UNCHANGED host_ns
       /\ SendChainBlock(send_chain)
       /\ UNCHANGED <<send_ifsc, host_ifsd, recv_chain, wtx_pending, retry_ns,
                      retry_first_frame>>
    \/ send_chain = <<>> /\ last_sent = NoBlock /\ RefuseBlock

(* I-blocks *)

\* Mutant: no retry cache, every block out of sequence is a sequence error.
BadFeedOutOfSequence(b) ==
    /\ b.ns # host_ns
    /\ ReplyOnly(RBlock(host_ns, 0))

\* A block that does not carry the expected N(S).  The number of the chain
\* just answered means that our answer was lost: replay its first frame, or
\* acknowledge the duplicate piece; anything else is a sequence error.
FeedOutOfSequence(b) ==
    /\ b.ns # host_ns
    /\ ReplyOnly(IF b.ns = retry_ns /\ b.more THEN RBlock(b.ns, 0)
                 ELSE IF b.ns = retry_ns /\ retry_first_frame # NoBlock
                 THEN retry_first_frame
                 ELSE RBlock(host_ns, 0))

FitsChain(b) ==
    /\ Len(b.inf) <= host_ifsd
    /\ Len(recv_chain) + Len(b.inf) <= MaxRelay

FeedOversize(b) ==
    /\ b.ns = host_ns
    /\ ~FitsChain(b)
    /\ RefuseBlock

\* A piece of a host chain: keep it and acknowledge.
FeedPiece(b) ==
    /\ b.ns = host_ns /\ b.more /\ FitsChain(b)
    /\ recv_chain' = recv_chain \o b.inf
    /\ reply' = RBlock(b.ns, 0)
    /\ UNCHANGED <<ns, host_ns, send_ifsc, host_ifsd, send_chain, last_sent,
                   wtx_pending, retry_ns, retry_first_frame>>

\* The APDU that a final block completes.
AssembledApdu(b) == recv_chain \o b.inf

\* card_response: stage the response; ask for time first if the card was
\* slow.  The first frame of the answer is cached for a retransmission.
CardResponse(rsp, slow) ==
    /\ \/ /\ slow
          /\ send_chain' = rsp
          /\ wtx_pending' = TRUE
          /\ reply' = WtxRequest /\ last_sent' = WtxRequest
          /\ UNCHANGED ns
       \/ /\ ~slow /\ rsp # <<>>
          /\ SendChainBlock(rsp)
          /\ UNCHANGED wtx_pending
       \/ /\ ~slow /\ rsp = <<>>
          /\ reply' = IBlock(ns, FALSE, host_ns', <<>>)
          /\ last_sent' = reply'
          /\ ns' = 1 - ns
          /\ send_chain' = <<>>
          /\ UNCHANGED wtx_pending
    /\ retry_ns' = 1 - host_ns'
    /\ retry_first_frame' = reply'

\* The final block of a host chain: the APDU goes to the card, whose
\* response rsp comes back before the call returns.
FeedFinal(b, rsp, slow) ==
    /\ b.ns = host_ns /\ ~b.more /\ FitsChain(b)
    /\ host_ns' = 1 - host_ns
    /\ recv_chain' = <<>>
    /\ CardResponse(rsp, slow)
    /\ UNCHANGED <<send_ifsc, host_ifsd>>

(* S-blocks *)

\* Mutant: a resynchronisation that forgets our own N(S).
BadFeedResync ==
    /\ host_ns' = 0
    /\ recv_chain' = <<>> /\ send_chain' = <<>>
    /\ wtx_pending' = FALSE
    /\ retry_ns' = NoNs /\ retry_first_frame' = NoBlock
    /\ reply' = SBlock("Resync", TRUE, <<>>) /\ last_sent' = reply'
    /\ UNCHANGED <<ns, send_ifsc, host_ifsd>>

\* on_s_request: every response is latched in last_sent.
FeedResync ==
    /\ ns' = 0 /\ host_ns' = 0
    /\ recv_chain' = <<>> /\ send_chain' = <<>>
    /\ wtx_pending' = FALSE
    /\ retry_ns' = NoNs /\ retry_first_frame' = NoBlock
    /\ reply' = SBlock("Resync", TRUE, <<>>) /\ last_sent' = reply'
    /\ UNCHANGED <<send_ifsc, host_ifsd>>

FeedIfs(b) ==
    /\ send_ifsc' = IF b.inf = <<>> THEN DefaultIfs ELSE Smaller(b.inf[1], MaxIfs)
    /\ reply' = SBlock("Ifs", TRUE, b.inf) /\ last_sent' = reply'
    /\ UNCHANGED <<ns, host_ns, host_ifsd, recv_chain, send_chain, wtx_pending,
                   retry_ns, retry_first_frame>>

FeedAbortOrWtxRequest(b) ==
    /\ recv_chain' = IF b.kind = "Abort" THEN <<>> ELSE recv_chain
    /\ reply' = SBlock(b.kind, TRUE, b.inf) /\ last_sent' = reply'
    /\ UNCHANGED <<ns, host_ns, send_ifsc, host_ifsd, send_chain, wtx_pending,
                   retry_ns, retry_first_frame>>

\* on_s_response: a granted WTX releases the staged answer, which replaces
\* the WTX request as the cached first frame.
FeedWtxGranted ==
    /\ wtx_pending
    /\ wtx_pending' = FALSE
    /\ IF send_chain # <<>>
       THEN /\ UNCHANGED host_ns
            /\ SendChainBlock(send_chain)
            /\ retry_first_frame' = reply'
       ELSE /\ reply' = RBlock(host_ns, 1)
            /\ UNCHANGED <<ns, host_ns, send_chain, last_sent, retry_first_frame>>
    /\ UNCHANGED <<send_ifsc, host_ifsd, recv_chain, retry_ns>>

FeedUnsolicitedResponse ==
    \/ last_sent # NoBlock /\ ReplyOnly(last_sent)
    \/ last_sent = NoBlock /\ RefuseBlock

FeedS(b) ==
    \/ ~b.response /\ b.kind = "Resync" /\ FeedResync
    \/ ~b.response /\ b.kind = "Ifs" /\ FeedIfs(b)
    \/ ~b.response /\ b.kind \in {"Abort", "Wtx"} /\ FeedAbortOrWtxRequest(b)
    \/ b.response /\ b.kind = "Wtx" /\ FeedWtxGranted
    \/ b.response /\ ~(b.kind = "Wtx" /\ wtx_pending) /\ FeedUnsolicitedResponse

\* feed, for every block that does not complete an APDU.
FeedLocal(b) ==
    \/ b.t = "bad" /\ RefuseBlock
    \/ b.t = "R" /\ FeedR
    \/ b.t = "S" /\ FeedS(b)
    \/ b.t = "I" /\ (FeedOutOfSequence(b) \/ FeedOversize(b) \/ FeedPiece(b))

-----------------------------------------------------------------------------
(* Properties *)

\* The number that serves the retry cache is never the number expected next,
\* so a retransmitted block can never be taken for a new one and run twice.
RetryIsNotExpected == retry_ns # host_ns
=============================================================================
