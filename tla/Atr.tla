--------------------------------- MODULE Atr ---------------------------------
(***************************************************************************)
(* What the reader takes from an answer to reset: parse_atr of             *)
(* crates/ccid-protocol atr.rs and its twin in firmware/ccid-firmware      *)
(* smartcard_common.rs, detect_protocol_from_atr beside them, and the      *)
(* reverse direction, ats_to_atr of crates/pn7160-nci transport.rs.        *)
(*                                                                         *)
(* A card's interface bytes come in levels: TA, TB, TC each there or not,  *)
(* TD with the protocol of the next level.  A byte stands for its place in *)
(* the ATR, so a parameter is the place it was read from, or Unset.        *)
(***************************************************************************)
EXTENDS Integers, Sequences, FiniteSets, FiniteSetsExt

CONSTANTS Protocols,   \* protocols a TD may name
          MaxLevels,   \* interface levels of the longest ATR
          Missing,     \* how many bytes of the end may be lost
          Nibbles,     \* high nibbles of the bytes of an ATS
          MaxAts       \* bytes of the longest ATS

(* A TD names a protocol; a nibble is one. *)
ASSUME AtrAssumption == /\ Protocols \subseteq Nat /\ Missing \subseteq Nat /\ Nibbles \subseteq 0..15
                        /\ MaxLevels \in Nat /\ MaxAts \in Nat

VARIABLES levels,  \* the card's interface bytes
          got,     \* bytes of the ATR that arrived, TS and T0 included
          p,       \* parse_atr: AtrParams and its locals
          ats      \* the high nibbles of an ATS, T0 first

atrVars == <<levels, got, p, ats>>

Unset == 0
NoTd == -1

Level == [ta : BOOLEAN, tb : BOOLEAN, tc : BOOLEAN, td : {NoTd} \cup Protocols]

(* Every level but the last has a TD. *)
Chains == UNION {{c \in [1..n -> Level] : \A l \in 1..n : (c[l].td = NoTd) = (l = n)} : n \in 1..MaxLevels}

Bytes4 == {"ta", "tb", "tc", "td"}
There(l, b) == IF b = "td" THEN l.td # NoTd ELSE l[b]
LevelSize(l) == Cardinality({b \in Bytes4 : There(l, b)})
Before(c, n) == Cardinality({x \in (1..(n - 1)) \X Bytes4 : There(c[x[1]], x[2])})

Defaults == [idx |-> 3, level |-> 1, proto |-> 0, done |-> FALSE, ta1 |-> Unset, protocol |-> 0,
             guard |-> Unset, ifsc |-> Unset, wait |-> Unset, edc |-> Unset]

-----------------------------------------------------------------------------
(* What each kind of interface byte sets, read at place i. *)
TaByte(q, i) == IF q.level = 1 THEN [q EXCEPT !.ta1 = i]
                ELSE IF q.level >= 3 /\ q.proto = 1 THEN [q EXCEPT !.ifsc = i] ELSE q

TbByte(q, i) == IF q.level >= 2 /\ q.proto = 1 THEN [q EXCEPT !.wait = i] ELSE q

TcByte(q, i) == IF q.level = 1 THEN [q EXCEPT !.guard = i]
                ELSE IF q.proto = 1 THEN [q EXCEPT !.edc = i] ELSE q

TdByte(q, i) == LET t == levels[q.level].td
                IN  [q EXCEPT !.proto = t, !.protocol = IF q.level = 1 THEN t ELSE @, !.level = @ + 1]

(* One byte of the walk, if the level has it; the end of the bytes that    *)
(* arrived ends the walk.                                                  *)
ReadByte(q, b) ==
    LET r == [q EXCEPT !.idx = @ + 1]
    IN  IF q.done \/ ~There(levels[q.level], b) THEN q
        ELSE IF q.idx > got THEN [q EXCEPT !.done = TRUE]
        ELSE CASE b = "ta" -> TaByte(r, q.idx)
               [] b = "tb" -> TbByte(r, q.idx)
               [] b = "tc" -> TcByte(r, q.idx)
               [] b = "td" -> TdByte(r, q.idx)

(* One turn of parse_atr's loop: a level without TD is the last. *)
ParseLevel ==
    /\ ~p.done
    /\ p' = LET q == ReadByte(ReadByte(ReadByte(p, "ta"), "tb"), "tc")
                last == ~There(levels[p.level], "td")
            IN  IF last THEN [q EXCEPT !.done = TRUE] ELSE ReadByte(q, "td")
    /\ UNCHANGED <<levels, got, ats>>

(* detect_protocol_from_atr: the first TD only. *)
DetectProtocol ==
    LET td1 == 3 + LevelSize([levels[1] EXCEPT !.td = NoTd])
    IN  IF got >= 3 /\ There(levels[1], "td") /\ td1 <= got THEN levels[1].td ELSE 0

-----------------------------------------------------------------------------
(* ats_to_atr: the high nibble of T0 is taken for a mask of four bytes,    *)
(* the last one (bit 1) a TD whose own high nibble is the next mask.  The  *)
(* result is the place the historical bytes start at, or Unset for a mask  *)
(* that runs past the end.                                                 *)
MaskSize(y) == (y \div 8) + ((y \div 4) % 2) + ((y \div 2) % 2) + (y % 2)

HistoryStart(a) ==
    LET at[f \in 0..Len(a)] ==      \* f more masks may follow; the mask and the byte after it
            IF f = 0 THEN [y |-> a[1], i |-> 2]
            ELSE LET m == at[f - 1]
                     e == m.i + MaskSize(m.y)
                 IN  IF m.y = 0 \/ m.i = Unset THEN m
                     ELSE IF e > Len(a) + 1 THEN [y |-> 0, i |-> Unset]
                     ELSE [y |-> IF m.y % 2 = 1 THEN a[e - 1] ELSE 0, i |-> e]
    IN  at[Len(a)].i

(* ISO 14443-4: three bits of T0 announce TA(1), TB(1) and TC(1). *)
AtsInterface(a) == MaskSize(a[1] % 8)

AtsOf(n) == {a \in [1..n -> Nibbles \cup 0..7] : a[1] \in 0..7 /\ \A i \in 2..n : a[i] \in Nibbles}

-----------------------------------------------------------------------------
(* A contact card's ATR, or a contactless card's ATS. *)
AtrInit == /\ p = Defaults
           /\ \/ /\ levels \in Chains /\ ats = <<0>>
                 /\ \E m \in Missing : got = 2 + Before(levels, Len(levels) + 1) - m
                 /\ got >= 2
              \/ /\ levels = <<[ta |-> FALSE, tb |-> FALSE, tc |-> FALSE, td |-> NoTd]>> /\ got = 2
                 /\ \E n \in 1..MaxAts : ats \in AtsOf(n)

AtrNext == ParseLevel

AtrSpec == AtrInit /\ [][AtrNext]_atrVars

-----------------------------------------------------------------------------
(* The places of a byte in all levels from n on that are for T=1, as far   *)
(* as they arrived.                                                        *)
PlaceOf(l, b) == 3 + Before(levels, l) +
                 Cardinality({c \in Bytes4 : There(levels[l], c) /\ c \in (CASE b = "ta" -> {}
                                                                  [] b = "tb" -> {"ta"}
                                                                  [] b = "tc" -> {"ta", "tb"}
                                                                  [] b = "td" -> {"ta", "tb", "tc"})})
Places(n, b) == {PlaceOf(l, b) : l \in {k \in n..Len(levels) : There(levels[k], b) /\ levels[k - 1].td = 1}}
LastPlace(S) == Max({i \in S : i <= got} \cup {Unset})
First1(b) == IF There(levels[1], b) THEN {PlaceOf(1, b)} ELSE {}

(* Whatever levels a card sends and wherever the ATR breaks off, every     *)
(* parameter comes from its own byte: Fi/Di from TA1, the guard time from  *)
(* TC1, the protocol from TD1, the T=1 parameters from the last byte of    *)
(* their kind below a TD that says T=1; what did not arrive stays at its   *)
(* default, and the two readers of the protocol agree.                     *)
AtrIsRead ==
    p.done =>
        /\ p.ta1 = LastPlace(First1("ta")) /\ p.guard = LastPlace(First1("tc"))
        /\ p.ifsc = LastPlace(Places(3, "ta")) /\ p.wait = LastPlace(Places(2, "tb"))
        /\ p.edc = LastPlace(Places(2, "tc"))
        /\ p.protocol = IF LastPlace(First1("td")) = Unset THEN 0 ELSE levels[1].td
        /\ DetectProtocol = p.protocol

(* The ATR of a contactless card carries the historical bytes of its ATS   *)
(* ("the historical bytes pass through").                                  *)
HistoryPasses == Len(ats) > AtsInterface(ats) => HistoryStart(ats) = 2 + AtsInterface(ats)

(* They do when TA(1) is absent, or no bit is set in the high nibble of    *)
(* the last interface byte.                                                *)
LastNibble == ats[1 + AtsInterface(ats)]
HistoryKept == (ats[1] % 2 = 0 \/ (Len(ats) > AtsInterface(ats) /\ LastNibble = 0)) => HistoryPasses

(* AtrIsRead and HistoryKept. *)
AtrIsTrue == AtrIsRead /\ HistoryKept
=============================================================================
