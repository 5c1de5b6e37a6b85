---------------------------- MODULE MC_CcidCore ----------------------------
(* Finite instances of CcidCore: two cards, one per protocol, one bSeq, one *)
(* host parameter structure.                                               *)
EXTENDS CcidCore, TLC

CONSTANTS cardT0, cardT1

MC_Cards == {cardT0, cardT1}
MC_CardProtocol == cardT0 :> 0 @@ cardT1 :> 1
=============================================================================
