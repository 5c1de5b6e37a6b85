---------------------------- MODULE MC_NfcReader ----------------------------
(* A finite instance of NfcReader: two cards, one host parameter structure, *)
(* every kind of block, information fields of up to two units.              *)
EXTENDS NfcReader, TLC

CONSTANTS cardA, cardB

MC_Cards == {cardA, cardB}
MC_CardProtocol == cardA :> 1 @@ cardB :> 1
MC_HostIfsd == [p \in HostSets |-> MaxIfs]

Texts == {<<"h">>, <<"h", "h">>}
MC_HostBlocks ==
    {IBlock(n, more, 0, inf) : n \in {0, 1}, more \in BOOLEAN, inf \in Texts}
    \cup {RBlock(0, 0), BadBlock}
    \cup {SBlock(kind, isRsp, <<>>) : kind \in {"Resync", "Abort", "Wtx"},
                                      isRsp \in BOOLEAN}
    \cup {SBlock("Ifs", FALSE, <<n>>) : n \in 1..MaxIfs}

\* The two cards are interchangeable.
CardSymmetry == Permutations(MC_Cards)

\* Left out of a state's identity: what no action and no checked invariant
\* reads (the last step's outputs, sync_notifications, histories).
NoOutputs == <<slotVars, paramVars, pinVars, snapshot_requested, driverVars,
               ns, host_ns, send_ifsc, host_ifsd, recv_chain, send_chain,
               last_sent, wtx_pending, retry_ns, retry_first_frame,
               t1_armed, pending_baud_change, negotiated, owner>>
=============================================================================
