-------------------------- MODULE NfcReader_proofs --------------------------
(***************************************************************************)
(* Proofs about the serial NFC reader: the shared handler and the T=1      *)
(* endpoint together, for any cards, blocks, answers and INF sizes.        *)
(***************************************************************************)
EXTENDS NfcReader, SequenceTheorems, TLAPS

(* The T=1 endpoint alone: whatever block it is fed, its sequence numbers  *)
(* stay apart from its retry cache, and everything it holds for the host   *)
(* is made of units U that a card response gave it.                        *)

\* A block whose information field, if it is an answer, is made of U.
Carries(b, U) == b.t = "I" => b.inf \in Seq(U)

T1Inv(U) ==
    /\ host_ns \in {0, 1}
    /\ RetryIsNotExpected
    /\ send_ifsc \in Nat
    /\ send_chain \in Seq(U)
    /\ Carries(last_sent, U)
    /\ Carries(retry_first_frame, U)

\* A piece of a sequence over U is a sequence over U.
LEMMA SubSeqOver ==
    ASSUME NEW U, NEW s \in Seq(U), NEW m \in Nat \ {0}, NEW n \in Nat,
           n <= Len(s)
    PROVE  SubSeq(s, m, n) \in Seq(U)
    <1>1. \A i \in m..n : s[i] \in U
      BY ElementOfSeq, LenProperties
    <1>2. QED  BY <1>1, SubSeqProperties

\* A card's answer of n equal units.
LEMMA ConstantSeq ==
    ASSUME NEW U, NEW u \in U, NEW n \in Nat
    PROVE  [i \in 1..n |-> u] \in Seq(U)
    <1>1. [i \in 1..n |-> u] \in [1..n -> U]  OBVIOUS
    <1>2. QED  BY <1>1, SeqDef

\* Sending a block moves units from the chain into the block; none appears.
LEMMA SendChainBlockKeeps ==
    ASSUME NEW U, NEW chain \in Seq(U), send_ifsc \in Nat, SendChainBlock(chain)
    PROVE  /\ send_chain' \in Seq(U)
           /\ Carries(last_sent', U) /\ Carries(reply', U)
    <1> DEFINE chunk == Smaller(send_ifsc, Len(chain))
               more == Len(chain) > chunk
    <1>1. Len(chain) \in Nat /\ chunk \in Nat /\ chunk <= Len(chain)
      BY LenProperties DEF Smaller
    <1>2. /\ SubSeq(chain, 1, chunk) \in Seq(U)
          /\ SubSeq(chain, chunk + 1, Len(chain)) \in Seq(U)
      BY <1>1, SubSeqOver
    <1>3. IBlock(ns, more, host_ns', SubSeq(chain, 1, chunk)).inf
             = SubSeq(chain, 1, chunk)
      BY DEF IBlock
    <1> HIDE DEF chunk
    <1>4. QED
      BY <1>2, <1>3 DEF SendChainBlock, Carries, chunk

\* Blocks that are no answer carry nothing.
LEMMA NoBlockCarries ==
    ASSUME NEW U
    PROVE  /\ Carries(NoBlock, U) /\ Carries(WtxRequest, U)
           /\ \A kind, isResponse, inf : Carries(SBlock(kind, isResponse, inf), U)
    BY DEF Carries, NoBlock, WtxRequest, SBlock

\* reset() leaves an endpoint that holds nothing, for any U.
LEMMA ResetEstablishes ==
    ASSUME NEW U, NEW ifsd, ResetEndpoint(ifsd)
    PROVE  T1Inv(U)'
    BY NoBlockCarries, EmptySeq, IfsAssumption
       DEF ResetEndpoint, T1Inv, RetryIsNotExpected, NoNs

\* So does new().
LEMMA InitEndpointEstablishes ==
    ASSUME NEW U, InitEndpoint
    PROVE  T1Inv(U)
    BY NoBlockCarries, EmptySeq, IfsAssumption
       DEF InitEndpoint, T1Inv, RetryIsNotExpected, NoNs

\* Repeating a block, or refusing one, changes nothing that is held.
LEMMA ReplyOnlyKeeps ==
    ASSUME NEW U, NEW b, T1Inv(U), ReplyOnly(b) \/ RefuseBlock
    PROVE  T1Inv(U)'
    BY DEF ReplyOnly, RefuseBlock, T1Inv, RetryIsNotExpected

\* An R-block repeats what is held or sends the next piece of it.
LEMMA FeedRKeeps ==
    ASSUME NEW U, T1Inv(U), FeedR
    PROVE  T1Inv(U)'
    <1>1. CASE ReplyOnly(last_sent) \/ RefuseBlock
      BY <1>1, ReplyOnlyKeeps
    <1>2. CASE /\ UNCHANGED <<host_ns, send_ifsc, retry_ns, retry_first_frame>>
               /\ SendChainBlock(send_chain)
      BY <1>2, SendChainBlockKeeps DEF T1Inv, RetryIsNotExpected
    <1>3. QED  BY <1>1, <1>2 DEF FeedR

\* Every S-block keeps the invariant; S(IFS) keeps send_ifsc a number.
LEMMA FeedSKeeps ==
    ASSUME NEW U, T1Inv(U), NEW b, b.inf \in Seq(Nat), FeedS(b)
    PROVE  T1Inv(U)'
    <1>1. CASE FeedResync
      <2>1. Carries(last_sent', U)
        BY <1>1 DEF FeedResync, Carries, SBlock
      <2>2. Carries(retry_first_frame', U)
        BY <1>1, NoBlockCarries DEF FeedResync
      <2>3. send_chain' \in Seq(U)
        BY <1>1, EmptySeq DEF FeedResync
      <2>4. host_ns' \in {0, 1} /\ RetryIsNotExpected' /\ send_ifsc' \in Nat
        BY <1>1 DEF FeedResync, T1Inv, RetryIsNotExpected, NoNs
      <2>5. QED  BY <2>1, <2>2, <2>3, <2>4 DEF T1Inv
    <1>2. CASE FeedIfs(b)
      <2>1. b.inf # <<>> => b.inf[1] \in Nat
        BY ElementOfSeq, EmptySeq
      <2>2. send_ifsc' \in Nat
        BY <1>2, <2>1, IfsAssumption DEF FeedIfs, Smaller
      <2>3. QED
        BY <1>2, <2>2, NoBlockCarries DEF FeedIfs, T1Inv, RetryIsNotExpected
    <1>3. CASE FeedAbortOrWtxRequest(b)
      BY <1>3, NoBlockCarries DEF FeedAbortOrWtxRequest, T1Inv, RetryIsNotExpected
    <1>4. CASE FeedWtxGranted
      <2>1. CASE send_chain # <<>>
        BY <1>4, <2>1, SendChainBlockKeeps
           DEF FeedWtxGranted, T1Inv, RetryIsNotExpected
      <2>2. CASE send_chain = <<>>
        BY <1>4, <2>2 DEF FeedWtxGranted, T1Inv, RetryIsNotExpected
      <2>3. QED  BY <2>1, <2>2
    <1>5. CASE FeedUnsolicitedResponse
      BY <1>5, ReplyOnlyKeeps DEF FeedUnsolicitedResponse
    <1>6. QED  BY <1>1, <1>2, <1>3, <1>4, <1>5 DEF FeedS

\* Every block that does not complete an APDU keeps the invariant.
LEMMA FeedLocalKeeps ==
    ASSUME NEW U, T1Inv(U), NEW b, b.t = "S" => b.inf \in Seq(Nat), FeedLocal(b)
    PROVE  T1Inv(U)'
    <1>1. CASE RefuseBlock  BY <1>1, ReplyOnlyKeeps
    <1>2. CASE FeedR  BY <1>2, FeedRKeeps
    <1>3. CASE b.t = "S" /\ FeedS(b)  BY <1>3, FeedSKeeps
    <1>4. CASE FeedOutOfSequence(b)
      BY <1>4, ReplyOnlyKeeps DEF FeedOutOfSequence
    <1>5. CASE FeedOversize(b)
      BY <1>5, ReplyOnlyKeeps DEF FeedOversize
    <1>6. CASE FeedPiece(b)
      BY <1>6 DEF FeedPiece, T1Inv, RetryIsNotExpected
    <1>7. QED
      BY <1>1, <1>2, <1>3, <1>4, <1>5, <1>6 DEF FeedLocal

\* A completed APDU: the expected number toggles, and the retry cache takes
\* the number that was just answered.
LEMMA FeedFinalKeeps ==
    ASSUME NEW U, T1Inv(U), NEW b, NEW rsp \in Seq(U), NEW slow \in BOOLEAN,
           FeedFinal(b, rsp, slow)
    PROVE  T1Inv(U)'
    <1>1. host_ns' = 1 - host_ns /\ retry_ns' = 1 - host_ns'
      BY DEF FeedFinal, CardResponse
    <1>2. host_ns' \in {0, 1} /\ RetryIsNotExpected' /\ send_ifsc' \in Nat
      BY <1>1 DEF FeedFinal, T1Inv, RetryIsNotExpected
    <1>3. /\ send_chain' \in Seq(U)
          /\ Carries(last_sent', U) /\ Carries(reply', U)
      <2>1. CASE slow
        BY <2>1, NoBlockCarries DEF FeedFinal, CardResponse
      <2>2. CASE ~slow /\ rsp # <<>>
        <3>1. SendChainBlock(rsp)  BY <2>2 DEF FeedFinal, CardResponse
        <3>2. QED  BY <3>1, SendChainBlockKeeps DEF T1Inv
      <2>3. CASE ~slow /\ rsp = <<>>
        <3>1. /\ send_chain' = <<>> /\ last_sent' = reply'
              /\ reply' = IBlock(ns, FALSE, host_ns', <<>>)
          BY <2>3 DEF FeedFinal, CardResponse
        <3>2. reply'.inf = <<>>  BY <3>1 DEF IBlock
        <3>3. <<>> \in Seq(U)  BY EmptySeq
        <3>4. QED  BY <3>1, <3>2, <3>3 DEF Carries
      <2>4. QED  BY <2>1, <2>2, <2>3
    <1>4. retry_first_frame' = reply'  BY DEF FeedFinal, CardResponse
    <1>5. QED  BY <1>2, <1>3, <1>4 DEF T1Inv

-----------------------------------------------------------------------------
(* The reader *)

(* The inductive invariant.  The endpoint holds nothing but units of the   *)
(* owner (the card of the last reset) and of the reader; what makes that   *)
(* inductive is that a live driver session is always the owner's, so a new *)
(* answer can only be the owner's too.                                     *)

SessionIsOwners == session # NoCard => session = owner

NfcInv ==
    /\ T1Inv({owner, Reader})
    /\ RoutesOnlyNegotiated
    /\ DisarmedIsClean
    /\ SessionIsOwners

\* Only a successful power-on activates a card, and it raises card_reset;
\* every other operation of the shared handler keeps the session or ends it.
LEMMA SessionFollowsReset ==
    ASSUME NEW seq,
           OtherCommand(seq) \/ XfrBlock(seq) \/ CheckCardChange
    PROVE  "card_reset" \in events' \/ session' \in {session, NoCard}
    <1>1. ASSUME NEW r, AnsweredLocally(r)  PROVE session' = session
      BY <1>1 DEF AnsweredLocally, driverVars
    <1>2. ASSUME NEW err, NEW icc, Refused(seq, err, icc)
          PROVE session' = session
      BY <1>2, <1>1 DEF Refused
    <1>3. ASSUME NEW err, PowerOnFailed(seq, err)
          PROVE session' \in {session, NoCard}
      BY <1>3 DEF PowerOnFailed, DriverPowerOn
    <1>4. ASSUME PowerOnSucceeded(seq)  PROVE "card_reset" \in events'
      BY <1>4 DEF PowerOnSucceeded
    <1>5. ASSUME NEW ok \in BOOLEAN, DriverTransmit(ok)
          PROVE session' \in {session, NoCard}
      BY <1>5 DEF DriverTransmit
    <1>6. CASE HandlePowerOn(seq)
      BY <1>6, <1>2, <1>3, <1>4 DEF HandlePowerOn
    <1>7. CASE \E length0, voltageOk \in BOOLEAN :
                  HandlePowerOnContact(seq, length0, voltageOk)
      BY <1>7, <1>2, <1>3, <1>4 DEF HandlePowerOnContact
    <1>8. CASE HandlePowerOff(seq)
      BY <1>8 DEF HandlePowerOff, DriverPowerOff
    <1>9. CASE GetSlotStatus(seq)
      BY <1>9, <1>1 DEF GetSlotStatus
    <1>10. CASE GetParameters(seq)
      BY <1>10 DEF GetParameters, driverVars
    <1>11. CASE \E proto \in 0..2, full \in BOOLEAN, raw \in HostSets :
                  HandleSetParameters(seq, proto, full, raw)
      BY <1>11, <1>2 DEF HandleSetParameters, driverVars
    <1>12. CASE \E proto \in 0..2, full, valid \in BOOLEAN, raw \in HostSets :
                  HandleSetParametersContact(seq, proto, full, valid, raw)
      BY <1>12, <1>1, <1>2 DEF HandleSetParametersContact, driverVars
    <1>13. CASE HandleResetParameters(seq)
      BY <1>13 DEF HandleResetParameters, driverVars
    <1>14. CASE \E op \in EscapeOps : HandleEscape(seq, op)
      BY <1>14 DEF HandleEscape, driverVars
    <1>15. CASE \E op \in {"Verify", "Modify", "malformed"} :
                  HandleSecure(seq, op)
      BY <1>15, <1>1 DEF HandleSecure, driverVars
    <1>16. CASE \E abort \in BOOLEAN : AbortOrUnknown(seq, abort)
      BY <1>16, <1>1 DEF AbortOrUnknown
    <1>17. CASE XfrBlock(seq)
      <2>1. PICK class \in ApduClasses :
               HandleXfrBlock(seq, class) \/ HandleXfrBlockContact(seq, class)
        BY <1>17 DEF XfrBlock
      <2>2. CASE HandleXfrBlock(seq, class)
        BY <2>2, <1>1, <1>5
           DEF HandleXfrBlock, ApduPipeline, RunApdu, driverVars
      <2>3. CASE HandleXfrBlockContact(seq, class)
        BY <2>3, <1>1, <1>2, <1>5 DEF HandleXfrBlockContact
      <2>4. QED  BY <2>1, <2>2, <2>3
    <1>18. CASE CheckCardChange
      BY <1>18 DEF CheckCardChange, SessionKeepsSlot, SessionLostUnderCard,
                   PresenceUnchanged, CardInserted, CardRemoved
    <1>19. QED
      BY <1>6, <1>7, <1>8, <1>9, <1>10, <1>11, <1>12, <1>13, <1>14, <1>15,
         <1>16, <1>17, <1>18 DEF OtherCommand

\* The endpoint's invariant for a set of units is its invariant for an equal
\* set: how the history variable `owner` enters a lemma about constant sets.
LEMMA T1InvOfOwner ==
    ASSUME NEW U, U = {owner, Reader}
    PROVE  T1Inv({owner, Reader}) <=> T1Inv(U)
    OBVIOUS

\* The same in the next state.
LEMMA T1InvOfOwnerNext ==
    ASSUME NEW U, U = {owner', Reader}
    PROVE  T1Inv({owner, Reader})' <=> T1Inv(U)'
    BY DEF T1Inv, Carries

\* A clean endpoint, fresh from reset.
LEMMA ResetIsClean ==
    ASSUME NEW ifsd, ResetEndpoint(ifsd)
    PROVE  DisarmedIsClean'
    BY DEF ResetEndpoint, DisarmedIsClean

\* The wrapper's event handling: every card reset hands the endpoint over,
\* empty, to the card that now has the session.
LEMMA FollowEventsKeeps ==
    ASSUME NfcInv, FollowEvents,
           "card_reset" \in events' \/ session' \in {session, NoCard}
    PROVE  NfcInv'
    <1>1. PICK U : U = {owner', Reader}  OBVIOUS
    <1>2. CASE "card_reset" \in events'
      <2>1. /\ t1_armed' = FALSE /\ ResetEndpoint(DefaultIfs)
            /\ owner' = session'
        BY <1>2 DEF FollowEvents
      <2>2. T1Inv(U)'  BY <2>1, ResetEstablishes
      <2>3. T1Inv({owner, Reader})'  BY <1>1, <2>2, T1InvOfOwnerNext
      <2>4. DisarmedIsClean'  BY <2>1, ResetIsClean
      <2>5. RoutesOnlyNegotiated' /\ SessionIsOwners'
        BY <2>1 DEF RoutesOnlyNegotiated, SessionIsOwners
      <2>6. QED  BY <2>3, <2>4, <2>5 DEF NfcInv
    <1>3. CASE "card_reset" \notin events'
      <2>1. owner' = owner /\ session' \in {session, NoCard}
        BY <1>3 DEF FollowEvents
      <2>2. SessionIsOwners'
        BY <2>1 DEF NfcInv, SessionIsOwners
      <2>3. CASE "parameters_accepted" \in events'
        <3>1. /\ ResetEndpoint(AppliedIfsd')
              /\ negotiated' = TRUE
          BY <1>3, <2>3 DEF FollowEvents
        <3>2. T1Inv(U)'  BY <3>1, ResetEstablishes
        <3>3. T1Inv({owner, Reader})'  BY <1>1, <3>2, T1InvOfOwnerNext
        <3>4. DisarmedIsClean'  BY <3>1, ResetIsClean
        <3>5. RoutesOnlyNegotiated'  BY <3>1 DEF RoutesOnlyNegotiated
        <3>6. QED  BY <2>2, <3>3, <3>4, <3>5 DEF NfcInv
      <2>4. CASE "parameters_accepted" \notin events'
        <3>1. UNCHANGED <<t1_armed, t1Vars>>
          BY <1>3, <2>4 DEF FollowEvents
        <3>2. negotiated => negotiated'
          BY <1>3, Zenon DEF FollowEvents
        <3>3. RoutesOnlyNegotiated'
          BY <3>1, <3>2 DEF NfcInv, RoutesOnlyNegotiated
        <3>4. DisarmedIsClean'
          BY <3>1 DEF NfcInv, DisarmedIsClean, t1Vars
        <3>5. T1Inv({owner, Reader})'
          BY <3>1, <2>1 DEF NfcInv, T1Inv, RetryIsNotExpected, Carries, t1Vars
        <3>6. QED  BY <2>2, <3>3, <3>4, <3>5 DEF NfcInv
      <2>5. QED  BY <2>3, <2>4
    <1>4. QED  BY <1>2, <1>3

\* A block through the endpoint: what it answers by itself adds no units, and
\* a completed APDU is answered by the owner or by the reader.
LEMMA XfrViaT1Keeps ==
    ASSUME NfcInv, NEW seq, NEW b \in HostBlocks, XfrViaT1(seq, b)
    PROVE  NfcInv'
    <1>1. UNCHANGED <<t1_armed, negotiated, owner>> /\ t1_armed
      BY DEF XfrViaT1, RoutedToT1
    <1>2. RoutesOnlyNegotiated' /\ DisarmedIsClean'
      BY <1>1 DEF NfcInv, RoutesOnlyNegotiated, DisarmedIsClean
    <1>3. PICK U : U = {owner, Reader}  OBVIOUS
    <1>4. U = {owner', Reader} /\ T1Inv(U)
      BY <1>1, <1>3, T1InvOfOwner DEF NfcInv
    <1>5. b.t = "S" => b.inf \in Seq(Nat)  BY ReaderAssumption
    <1>6. CASE XfrT1Local(seq, b)
      <2>1. T1Inv(U)'
        BY <1>4, <1>5, <1>6, FeedLocalKeeps DEF XfrT1Local
      <2>2. session' = session
        BY <1>6 DEF XfrT1Local, CoreUntouched, driverVars
      <2>3. SessionIsOwners'  BY <2>2, <1>1 DEF NfcInv, SessionIsOwners
      <2>4. T1Inv({owner, Reader})'  BY <2>1, <1>4, T1InvOfOwnerNext
      <2>5. QED  BY <1>2, <2>3, <2>4 DEF NfcInv
    <1>7. CASE XfrT1Inactive(seq, b)
      <2>1. T1Inv({owner, Reader})'
        BY <1>7, <1>1
           DEF XfrT1Inactive, NfcInv, T1Inv, RetryIsNotExpected, Carries, t1Vars
      <2>2. session' = session
        BY <1>7 DEF XfrT1Inactive, CoreUntouched, driverVars
      <2>3. SessionIsOwners'  BY <2>2, <1>1 DEF NfcInv, SessionIsOwners
      <2>4. QED  BY <1>2, <2>1, <2>3 DEF NfcInv
    <1>8. ASSUME NEW class \in ApduClasses, NEW ok \in BOOLEAN,
                 NEW slow \in BOOLEAN, NEW size \in AnswerSizes,
                 XfrT1Relay(seq, b, class, ok, size, slow)
          PROVE  NfcInv'
      <2> DEFINE byCard == ok /\ class \in {"apdu", "oversize"}
                 rsp == IF byCard THEN [i \in 1..size |-> session] ELSE <<Reader>>
      <2>1. /\ session' \in {session, NoCard}
            /\ byCard => session # NoCard
        BY <1>8 DEF XfrT1Relay, RunApdu, DriverTransmit, driverVars
      <2>2. byCard => session \in U
        BY <2>1, <1>3 DEF NfcInv, SessionIsOwners
      <2>3. size \in Nat  BY ReaderAssumption
      <2>4. PICK r : r = rsp  OBVIOUS
      <2>5. r \in Seq(U)
        <3>1. CASE byCard
          <4>1. PICK u \in U : u = session  BY <2>2, <3>1
          <4>2. [i \in 1..size |-> u] \in Seq(U)  BY <2>3, ConstantSeq
          <4>3. QED  BY <3>1, <4>1, <4>2, <2>4
        <3>2. CASE ~byCard
          <4>1. <<Reader>> \in Seq(U)  BY <1>3
          <4>2. QED  BY <3>2, <4>1, <2>4
        <3>3. QED  BY <3>1, <3>2
      <2>6. FeedFinal(b, r, slow)
        BY <1>8, <2>4 DEF XfrT1Relay
      <2>7. T1Inv(U)'  BY <1>4, <2>5, <2>6, FeedFinalKeeps
      <2>8. T1Inv({owner, Reader})'  BY <2>7, <1>4, T1InvOfOwnerNext
      <2>9. SessionIsOwners'  BY <2>1, <1>1 DEF NfcInv, SessionIsOwners
      <2>10. QED  BY <1>2, <2>8, <2>9 DEF NfcInv
    <1>9. QED  BY <1>6, <1>7, <1>8 DEF XfrViaT1

\* Steps that touch neither the endpoint nor the route.
LEMMA EndpointUntouchedKeeps ==
    ASSUME NfcInv, UNCHANGED <<t1Vars, t1_armed, negotiated, owner>>,
           session' \in {session, NoCard}
    PROVE  NfcInv'
    <1>1. T1Inv({owner, Reader})'
      BY DEF NfcInv, T1Inv, RetryIsNotExpected, Carries, t1Vars
    <1>2. RoutesOnlyNegotiated' /\ DisarmedIsClean'
      BY DEF NfcInv, RoutesOnlyNegotiated, DisarmedIsClean, t1Vars
    <1>3. SessionIsOwners'  BY DEF NfcInv, SessionIsOwners
    <1>4. QED  BY <1>1, <1>2, <1>3 DEF NfcInv

\* The invariant holds of a reader just started: no session, no route.
LEMMA NfcInitEstablishes == NfcInit => NfcInv
    <1> SUFFICES ASSUME NfcInit PROVE NfcInv  OBVIOUS
    <1>1. PICK U : U = {owner, Reader}  OBVIOUS
    <1>2. T1Inv(U)  BY InitEndpointEstablishes DEF NfcInit
    <1>3. T1Inv({owner, Reader})  BY <1>1, <1>2, T1InvOfOwner
    <1>4. /\ RoutesOnlyNegotiated /\ DisarmedIsClean /\ SessionIsOwners
      BY DEF NfcInit, Init, InitEndpoint, RoutesOnlyNegotiated,
             DisarmedIsClean, SessionIsOwners
    <1>5. QED  BY <1>3, <1>4 DEF NfcInv

\* Every step of the reader keeps it.
LEMMA NfcNextPreserves == NfcInv /\ [NfcNext]_nfcVars => NfcInv'
    <1> SUFFICES ASSUME NfcInv, [NfcNext]_nfcVars PROVE NfcInv'  OBVIOUS
    <1>1. ASSUME NEW seq \in Seqs, Delegated(seq)  PROVE NfcInv'
      BY <1>1, SessionFollowsReset, FollowEventsKeeps DEF Delegated
    <1>2. ASSUME NEW seq \in Seqs, NEW b \in HostBlocks, XfrViaT1(seq, b)
          PROVE NfcInv'
      BY <1>2, XfrViaT1Keeps
    <1>3. ASSUME NEW seq \in Seqs, ProbeEscape(seq) \/ BaudSwitchEscape(seq)
          PROVE NfcInv'
      BY <1>3, EndpointUntouchedKeeps
         DEF ProbeEscape, BaudSwitchEscape, AnswerEscape, CoreUntouched, driverVars
    <1>4. CASE TakeBaudChange
      BY <1>4, EndpointUntouchedKeeps DEF TakeBaudChange, driverVars
    <1>5. CASE PollPresence
      BY <1>5, SessionFollowsReset, FollowEventsKeeps DEF PollPresence
    <1>6. CASE Surroundings
      <2>1. session' \in {session, NoCard}
        BY <1>6 DEF Surroundings, MoveCard, DriverDropsSession, DriverPowerOff,
                    TakeSnapshotRequest, driverVars
      <2>2. QED  BY <1>6, <2>1, EndpointUntouchedKeeps DEF Surroundings
    <1>7. CASE UNCHANGED nfcVars
      BY <1>7, EndpointUntouchedKeeps DEF nfcVars, vars, driverVars
    <1>8. QED
      BY <1>1, <1>2, <1>3, <1>4, <1>5, <1>6, <1>7 DEF NfcNext

-----------------------------------------------------------------------------

\* The reader's invariant holds in every state it can reach.
THEOREM NfcInvariantHolds == NfcSpec => []NfcInv
    BY NfcInitEstablishes, NfcNextPreserves, PTL DEF NfcSpec

\* The T=1 route is never armed without a SetParameters or ResetParameters
\* accepted since the last card reset, for any interleaving of commands,
\* presence polls, card swaps and driver faults.
THEOREM RouteIsNegotiated == NfcSpec => []RoutesOnlyNegotiated
    <1>1. NfcInv => RoutesOnlyNegotiated  BY DEF NfcInv
    <1>2. QED  BY <1>1, NfcInvariantHolds, PTL

\* Whenever the route is disarmed the endpoint is as good as new.
THEOREM DisarmedEndpointIsClean == NfcSpec => []DisarmedIsClean
    <1>1. NfcInv => DisarmedIsClean  BY DEF NfcInv
    <1>2. QED  BY <1>1, NfcInvariantHolds, PTL

\* A block that repeats the number of the chain just answered is never the
\* block expected next: no retransmission runs an APDU a second time.
LEMMA RetryNeverExpected == NfcSpec => []RetryIsNotExpected
    <1>1. NfcInv => RetryIsNotExpected  BY DEF NfcInv, T1Inv
    <1>2. QED  BY <1>1, NfcInvariantHolds, PTL

\* The T=1 route of the reader is sound: negotiated, clean when disarmed, and
\* deaf to repetitions.
THEOREM RouteSound == NfcSpec => []RouteIsSound
    BY RouteIsNegotiated, DisarmedEndpointIsClean, RetryNeverExpected, PTL DEF RouteIsSound

\* No unit of an earlier card's answer is left for the host of a later one,
\* whatever the sizes of the answers, the chains and the blocks.
THEOREM AnswersAreTheOwners == NfcSpec => []NoForeignAnswer
    <1>1. ASSUME NEW U, NEW s \in Seq(U)  PROVE Units(s) \subseteq U
      <2>1. \A i \in DOMAIN s : s[i] \in U
        BY ElementOfSeq, LenProperties
      <2>2. QED  BY <2>1 DEF Units
    <1>2. ASSUME NEW U, NEW b, Carries(b, U)  PROVE Answers(b) \subseteq U
      BY <1>1, <1>2 DEF Answers, Carries
    <1>3. NfcInv => NoForeignAnswer
      BY <1>1, <1>2 DEF NfcInv, T1Inv, NoForeignAnswer
    <1>4. QED  BY <1>3, NfcInvariantHolds, PTL
=============================================================================
