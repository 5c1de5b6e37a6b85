----------------------------- MODULE MC_T1Link -----------------------------
(* Finite instances of T1Link.  Two APDUs and two answers of each length, so *)
(* that a stale or spliced one shows.                                       *)
EXTENDS T1Link

CONSTANTS
    MaxApdu, MaxResponse,   \* longest APDU and answer, in units
    MaxLossy                \* and in an exchange that loses blocks

Texts(tags, max) == {[i \in 1..n |-> <<tag, i>>] : tag \in tags, n \in 1..max}
MC_Apdus == Texts({"a", "b"}, MaxApdu)
MC_Responses == Texts({"x", "y"}, MaxResponse)

\* Chained exchanges lose a piece of their data when a block is lost
\* (DeliveredWhole, RelayedAsAsked), so that only exchanges of single blocks
\* are checked on a line with losses.
LossyIsShort ==
    losses > 0 => Len(asked) <= MaxLossy /\ \A i \in DOMAIN ran : Len(ran[i].rsp) <= MaxLossy

LinkNext == Next /\ LossyIsShort'
LinkSpec == Init /\ [][LinkNext]_vars /\ WF_vars(HostReceive) /\ WF_vars(Reader)
=============================================================================
