------------------------------ MODULE NfcReader ------------------------------
(***************************************************************************)
(* CcidHandler<D> of crates/ccid-service/src/ccid_handler.rs: the serial   *)
(* NFC reader.  It wraps the shared handler (CcidCore, Contact = FALSE)    *)
(* and the T=1 endpoint (T1Endpoint): once SetParameters has armed the     *)
(* route, XfrBlock payloads are T=1 blocks for the endpoint, and an APDU   *)
(* it completes re-enters the shared pipeline.  The host may send any      *)
(* block at any time.                                                      *)
(*                                                                         *)
(* An answer's units name the card that gave it, so that an answer kept    *)
(* by the endpoint can be told from an answer of the card there now.       *)
(***************************************************************************)
EXTENDS CcidCore, T1Endpoint

CONSTANTS
    HostIfsd,       \* the INF size each host parameter set announces
    AnswerSizes,    \* lengths of a card's answers
    HostBlocks,     \* blocks a host may send
    BaudEscape,     \* baud_escape_enabled: a transport with a line rate
    Bauds,          \* the rates of BAUD_TABLE
    NoBaud,         \* None
    Reader          \* the unit the reader itself answers with

ASSUME ReaderAssumption ==
    /\ ~Contact
    /\ HostIfsd \in [HostSets -> Nat]
    /\ AnswerSizes \subseteq Nat
    /\ BaudEscape \in BOOLEAN
    /\ NoBaud \notin Bauds
    /\ \A b \in HostBlocks : b.t = "S" => b.inf \in Seq(Nat)

VARIABLES
    t1_armed,               \* XfrBlock payloads go to the endpoint
    pending_baud_change,    \* the latched rate, or NoBaud
    negotiated,             \* history: parameters accepted since the last reset
    owner                   \* history: the card of the last card reset

nfcVars == <<vars, t1Vars, t1_armed, pending_baud_change, negotiated, owner>>

-----------------------------------------------------------------------------

RoutedToT1 == t1_armed /\ current_protocol = 1

\* applied_t1_timing, clamped by set_host_timing: the host's own set while
\* T=1 is in force.
AppliedIfsd ==
    IF host_params # NoParams /\ host_params.proto = 1 /\ current_protocol = 1
    THEN HostIfsd[host_params.raw] ELSE DefaultIfs

\* Mutant: a card reset disarms the route but keeps the endpoint.
BadFollowEvents ==
    /\ \/ /\ "card_reset" \in events'
          /\ t1_armed' = FALSE /\ UNCHANGED t1Vars
       \/ /\ "card_reset" \notin events' /\ "parameters_accepted" \in events'
          /\ t1_armed' = TRUE /\ ResetEndpoint(AppliedIfsd')
       \/ /\ events' \cap {"card_reset", "parameters_accepted"} = {}
          /\ UNCHANGED <<t1_armed, t1Vars>>
    /\ negotiated' = ("parameters_accepted" \in events'
                      \/ (negotiated /\ "card_reset" \notin events'))
    /\ owner' = IF "card_reset" \in events' THEN session' ELSE owner

\* Mutant: a card reset does not disarm the route.
UndisarmedFollowEvents ==
    /\ \/ /\ events' \cap {"card_reset", "parameters_accepted"} # {}
          /\ t1_armed' = (t1_armed \/ "parameters_accepted" \in events')
          /\ ResetEndpoint(AppliedIfsd')
       \/ /\ events' \cap {"card_reset", "parameters_accepted"} = {}
          /\ UNCHANGED <<t1_armed, t1Vars>>
    /\ negotiated' = ("parameters_accepted" \in events'
                      \/ (negotiated /\ "card_reset" \notin events'))
    /\ owner' = IF "card_reset" \in events' THEN session' ELSE owner

\* What the wrapper does with the handler's one-shot events: accepted
\* parameters open a new host T=1 session on a fresh endpoint, a card reset
\* disarms the route.  No call raises both.
FollowEvents ==
    /\ \/ /\ "card_reset" \in events'
          /\ t1_armed' = FALSE /\ ResetEndpoint(DefaultIfs)
       \/ /\ "card_reset" \notin events' /\ "parameters_accepted" \in events'
          /\ t1_armed' = TRUE /\ ResetEndpoint(AppliedIfsd')
       \/ /\ events' \cap {"card_reset", "parameters_accepted"} = {}
          /\ UNCHANGED <<t1_armed, t1Vars>>
    /\ negotiated' = ("parameters_accepted" \in events'
                      \/ (negotiated /\ "card_reset" \notin events'))
    /\ owner' = IF "card_reset" \in events' THEN session' ELSE owner

\* process_command, for all that the wrapper leaves to the shared handler.
Delegated(seq) ==
    /\ OtherCommand(seq) \/ (XfrBlock(seq) /\ ~RoutedToT1)
    /\ FollowEvents
    /\ UNCHANGED pending_baud_change

-----------------------------------------------------------------------------
(* xfr_via_t1 *)

T1Block(seq, icc) ==
    /\ response' = DataBlock(seq, icc, Plain("block"))
    /\ UNCHANGED error_count

CoreUntouched ==
    /\ events' = {}
    /\ UNCHANGED <<slotVars, paramVars, pinVars, flagVars, apduCounts, driverVars,
                   historyVars>>

\* A block the endpoint answers by itself.  An S-block (well formed or not)
\* is answered without an active card too.
XfrT1Local(seq, b) ==
    /\ slot_state = "PresentActive" \/ b.t \in {"S", "bad"}
    /\ FeedLocal(b)
    /\ T1Block(seq, slot_state)
    /\ CoreUntouched

XfrT1Inactive(seq, b) ==
    /\ slot_state # "PresentActive" /\ b.t # "S"
    /\ Answer(DataBlockFailed(seq, "ICC_NOT_ACTIVE", slot_state))
    /\ CoreUntouched
    /\ UNCHANGED t1Vars

\* A completed APDU: the pipeline's payload is the answer; a failed exchange
\* is answered with the status word 64 00 (CARD_TIMEOUT_SW), in a block that
\* still reports the slot active.
XfrT1Relay(seq, b, class, ok, size, slow) ==
    /\ slot_state = "PresentActive" /\ b.t = "I"
    /\ RunApdu(class, ok)
    /\ FeedFinal(b, IF ok /\ class \in {"apdu", "oversize"}
                    THEN [i \in 1..size |-> session] ELSE <<Reader>>, slow)
    /\ T1Block(seq, "PresentActive")

XfrViaT1(seq, b) ==
    /\ RoutedToT1
    /\ \/ XfrT1Local(seq, b)
       \/ XfrT1Inactive(seq, b)
       \/ \E class \in ApduClasses, ok, slow \in BOOLEAN, size \in AnswerSizes :
             XfrT1Relay(seq, b, class, ok, size, slow)
    /\ UNCHANGED <<t1_armed, pending_baud_change, negotiated, owner>>

-----------------------------------------------------------------------------
(* The escapes of this reader, answered before the shared handler sees     *)
(* them; a failed one is not counted.                                      *)

AnswerEscape(seq, failed) ==
    /\ response' = Reply("Escape", seq, failed,
                         IF failed THEN "CMD_NOT_SUPPORTED" ELSE "ok",
                         slot_state, Plain("escape"))
    /\ CoreUntouched
    /\ UNCHANGED <<error_count, t1Vars, t1_armed, negotiated, owner>>

\* 0xD2 turnaround counters, 0xD3 bus timing probe, 0xD4 WTX counters: what
\* the frontend cannot give is refused.
ProbeEscape(seq) ==
    /\ \E failed \in BOOLEAN : AnswerEscape(seq, failed)
    /\ UNCHANGED pending_baud_change

\* [0x05, code]: acknowledged at the current rate, the new one latched.
BaudSwitchEscape(seq) ==
    /\ BaudEscape
    /\ \/ \E baud \in Bauds : pending_baud_change' = baud /\ AnswerEscape(seq, FALSE)
       \/ UNCHANGED pending_baud_change /\ AnswerEscape(seq, TRUE)

\* take_baud_change, by the serve loop after the acknowledgement left.
TakeBaudChange ==
    /\ pending_baud_change # NoBaud
    /\ pending_baud_change' = NoBaud
    /\ Quiet
    /\ UNCHANGED <<driverVars, t1Vars, t1_armed, negotiated, owner>>

-----------------------------------------------------------------------------

\* check_card_change of the wrapper: a session lost under a card that stayed
\* disarms the route at once.
PollPresence ==
    /\ CheckCardChange
    /\ FollowEvents
    /\ UNCHANGED pending_baud_change

Surroundings ==
    /\ MoveCard \/ DriverDropsSession \/ TakeSnapshotRequest
    /\ UNCHANGED <<t1Vars, t1_armed, pending_baud_change, negotiated, owner>>

NfcInit ==
    /\ Init
    /\ InitEndpoint
    /\ t1_armed = FALSE /\ pending_baud_change = NoBaud
    /\ negotiated = FALSE /\ owner = NoCard

NfcNext ==
    \/ \E seq \in Seqs : Delegated(seq)
    \/ \E seq \in Seqs, b \in HostBlocks : XfrViaT1(seq, b)
    \/ \E seq \in Seqs : ProbeEscape(seq)
    \/ \E seq \in Seqs : BaudSwitchEscape(seq)
    \/ TakeBaudChange
    \/ PollPresence
    \/ Surroundings

NfcSpec == NfcInit /\ [][NfcNext]_nfcVars /\ WF_nfcVars(PollPresence)

-----------------------------------------------------------------------------
(* Properties *)

\* The T=1 route is armed only by parameters accepted since the last card
\* reset, also when the reset is a session the driver lost between commands:
\* the host's PPS probe after a reset is never fed to a T=1 endpoint.
RoutesOnlyNegotiated == t1_armed => negotiated

\* A disarmed endpoint holds nothing of an earlier session: the first block
\* of the next host session meets sequence numbers 0, empty chains and an
\* empty retry cache.
DisarmedIsClean ==
    ~t1_armed =>
        /\ ns = 0 /\ host_ns = 0
        /\ recv_chain = <<>> /\ send_chain = <<>>
        /\ last_sent = NoBlock /\ retry_first_frame = NoBlock
        /\ retry_ns = NoNs /\ ~wtx_pending

\* The T=1 route through resets, reconnects and retransmissions: armed only by
\* a negotiation since the last card reset, clean whenever it is disarmed, and
\* a repeated block is never taken for the block expected next.
RouteIsSound == RoutesOnlyNegotiated /\ DisarmedIsClean /\ RetryIsNotExpected

Units(s) == {s[i] : i \in DOMAIN s}
Answers(b) == IF b.t = "I" THEN Units(b.inf) ELSE {}

\* Whatever the endpoint still holds for the host (the rest of a chain, the
\* last block, the retry cache) is an answer of the card of the last reset
\* or of the reader itself: no card's answer is delivered as another's.
NoForeignAnswer ==
    Units(send_chain) \cup Answers(last_sent) \cup Answers(retry_first_frame)
        \subseteq {owner, Reader}

BlockSent == response # NoReply /\ response.data.what = "block"

\* A card's answer leaves the endpoint only while the slot is active: t1.rs
\* says of is_s_block_request "True for an S-block REQUEST" and of I- and
\* R-blocks that they "stay gated on PresentActive".
AnswersNeedActiveCard ==
    [][BlockSent' /\ Answers(reply') \cap Cards # {}
        => slot_state = "PresentActive"]_nfcVars
=============================================================================
