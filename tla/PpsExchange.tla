----------------------------- MODULE PpsExchange -----------------------------
(***************************************************************************)
(* The PPS state machine of the contact reader (PpsFsm, firmware/          *)
(* ccid-firmware/src/pps_fsm.rs) and the loops that feed it                *)
(* (negotiate_pps_fsm), against a card that may answer anything.           *)
(*                                                                         *)
(* A byte is the set of its bits; exclusive or is symmetric difference.    *)
(* The bits "b5", "b6", "b7" of PPS0 announce PPS1, PPS2 and PPS3.         *)
(***************************************************************************)
EXTENDS Naturals, Sequences, SequencesExt

CONSTANTS Bits, PpsMaxLen

\* PPSS, PPS0, three parameters and PCK fit the buffers.
ASSUME PpsAssumption == {"b5", "b6", "b7"} \subseteq Bits /\ PpsMaxLen \in Nat /\ PpsMaxLen >= 6

VARIABLES
    pps,        \* PpsFsm: state, tx, rx
    sent        \* history: bytes the card sent

ppsVars == <<pps, sent>>

Bytes == SUBSET Bits
PPSS == Bits
Xor(a, b) == (a \ b) \cup (b \ a)
Check(bytes) == FoldLeft(Xor, {}, bytes)
Checked(bytes) == Append(bytes, Check(bytes))

Waiting == {"WaitPpsx", "WaitPps0", "WaitPps1", "WaitPps2", "WaitPps3", "WaitPck"}

\* build_request with TA1, build_minimal_request without.
BuildRequest(protocol, ta1) == Checked(<<PPSS, {"b5"} \cup protocol, ta1>>)
BuildMinimalRequest(protocol) == Checked(<<PPSS, protocol>>)

\* The state after a parameter byte: the next one that PPS0 announces.
NextAnnounced(pps0, after) ==
    CASE after < 1 /\ "b5" \in pps0 -> "WaitPps1"
      [] after < 2 /\ "b6" \in pps0 /\ ~(after < 1 /\ "b5" \in pps0) -> "WaitPps2"
      [] after < 3 /\ "b7" \in pps0 /\ ~(after < 2 /\ "b6" \in pps0)
                   /\ ~(after < 1 /\ "b5" \in pps0) -> "WaitPps3"
      [] OTHER -> "WaitPck"

VerifyResponse(f) == [f EXCEPT !.state = IF f.rx = f.tx THEN "Done" ELSE "Failed"]

\* Mutant: the checksum covers itself.
SelfChecked(f, byte) ==
    LET g == [f EXCEPT !.rx = Append(@, byte)]
    IN IF Check(g.rx) # byte THEN [g EXCEPT !.state = "Failed"] ELSE VerifyResponse(g)

ProcessPck(f, byte) ==
    LET g == [f EXCEPT !.rx = Append(@, byte)]
    IN IF Check(f.rx) # byte THEN [g EXCEPT !.state = "Failed"] ELSE VerifyResponse(g)

\* process_byte.
ProcessByte(f, byte) ==
    LET g == [f EXCEPT !.rx = Append(@, byte)]
    IN CASE f.state = "WaitPpsx" /\ byte # PPSS -> [f EXCEPT !.state = "Failed"]
         [] f.state = "WaitPpsx" /\ byte = PPSS -> [g EXCEPT !.state = "WaitPps0"]
         [] f.state = "WaitPps0" -> [g EXCEPT !.state = NextAnnounced(byte, 0)]
         [] f.state = "WaitPps1" -> [g EXCEPT !.state = NextAnnounced(f.rx[2], 1)]
         [] f.state = "WaitPps2" -> [g EXCEPT !.state = NextAnnounced(f.rx[2], 2)]
         [] f.state = "WaitPps3" -> [g EXCEPT !.state = "WaitPck"]
         [] f.state = "WaitPck" -> ProcessPck(f, byte)
         [] OTHER -> f

-----------------------------------------------------------------------------

\* The request is built and sent, start_response.
StartNegotiation ==
    /\ pps.state \in {"Init", "Done", "Failed"}
    /\ \E protocol \in {{}, Bits \ {"b5", "b6", "b7"}}, ta1 \in {PPSS, {"b6"}} :
          \E tx \in {BuildRequest(protocol, ta1), BuildMinimalRequest(protocol)} :
             pps' = [state |-> "WaitPpsx", tx |-> tx, rx |-> <<>>]
    /\ sent' = <<>>

ReceiveByte ==
    /\ pps.state \in Waiting
    /\ \E byte \in Bytes : pps' = ProcessByte(pps, byte) /\ sent' = Append(sent, byte)

\* The byte did not come in time: set_timeout.
ByteTimesOut ==
    /\ pps.state \in Waiting
    /\ pps' = [pps EXCEPT !.state = "Failed"]
    /\ UNCHANGED sent

PpsInit == pps = [state |-> "Init", tx |-> <<>>, rx |-> <<>>] /\ sent = <<>>
PpsNext == StartNegotiation \/ ReceiveByte \/ ByteTimesOut

-----------------------------------------------------------------------------
(* Properties *)

\* The negotiation succeeds exactly when the card has echoed the request,
\* byte for byte: not earlier, so that no byte of the echo is left to be read
\* as the card's first answer, and not without it.  The buffer holds it all.
PpsIsEcho ==
    /\ pps.state = "Done" <=> pps.tx # <<>> /\ sent = pps.tx
    /\ Len(pps.rx) <= PpsMaxLen
=============================================================================
