---------------------------- MODULE ApduExchange ----------------------------
(***************************************************************************)
(* What a T=1 link promises the application at its host end: each APDU it  *)
(* asks for is run by the card once, as it was written, and the card's own *)
(* answer comes back whole.                                                *)
(***************************************************************************)
EXTENDS Sequences

CONSTANTS Apdus,      \* non-empty sequences of units
          Responses   \* non-empty sequences of units

VARIABLES asked,      \* the APDU being exchanged, <<>> when there is none
          ran,        \* what the card ran for it, in order
          got         \* the response delivered last

exchangeVars == <<asked, ran, got>>

Init == asked = <<>> /\ ran = <<>> /\ got = <<>>

Ask(a) ==
    /\ asked = <<>>
    /\ asked' = a
    /\ ran' = <<>>
    /\ UNCHANGED got

Run(r) ==
    /\ asked # <<>> /\ ran = <<>>
    /\ ran' = <<[apdu |-> asked, rsp |-> r]>>
    /\ UNCHANGED <<asked, got>>

Deliver ==
    /\ asked # <<>> /\ ran # <<>>
    /\ asked' = <<>>
    /\ got' = ran[1].rsp
    /\ UNCHANGED ran

Next ==
    \/ \E a \in Apdus : Ask(a)
    \/ \E r \in Responses : Run(r)
    \/ Deliver

Progress == (\E r \in Responses : Run(r)) \/ Deliver

Spec == Init /\ [][Next]_exchangeVars /\ WF_exchangeVars(Progress)
=============================================================================
