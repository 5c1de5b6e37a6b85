-------------------------- MODULE SerialLine_proofs --------------------------
(***************************************************************************)
(* Proofs about the serial line.  Its frames: for any alphabet, header     *)
(* shape, buffer size and checksum, a command is exactly the frame that    *)
(* just arrived, and a frame that arrives whole is heard.  The T=1 blocks  *)
(* that frames carry: for any APDUs, answers and block sizes, host and     *)
(* endpoint stay in step whatever is lost, nothing runs twice, and the     *)
(* link is an ApduExchange.                                                *)
(***************************************************************************)
EXTENDS FrameLine, MC_T1Link, SequenceTheorems, WellFoundedInduction, TLAPS

-----------------------------------------------------------------------------
(* The inductive invariant *)

Prefix(s, t) == Len(s) <= Len(t) /\ \A i \in 1..Len(s) : s[i] = t[i]

Suffix(s, t) ==
    Len(s) <= Len(t) /\ \A i \in 1..Len(s) : s[i] = t[Len(t) - Len(s) + i]

\* What is left to send is the end of one frame of the host.
FromHost ==
    /\ Suffix(rest, cur)
    /\ cur # <<>> => \E c \in HostCommands : cur = Framed(c)

\* How far the parser is with a frame to which nothing has happened: ready
\* for it, holding what has come of it, or done with it.
HeardSoFar ==
    whole /\ cur # <<>> /\ cur[2 + LengthAt] <= MaxPayload =>
        \/ rest = cur /\ (quiet \/ parser.state \in {"WaitSync", "WaitCtrl"})
        \/ /\ ~quiet /\ rest # <<>> /\ Len(rest) < Len(cur)
           /\ Len(parser.frame) + Len(rest) = Len(cur)
           /\ Prefix(parser.frame, cur)
        \/ /\ ~quiet /\ rest = <<>>
           /\ event.kind = "Command" /\ parser.received = cur

\* The collected frame is what arrived last.
LineInv ==
    /\ LineTypeOK /\ Sound(parser) /\ Suffix(parser.frame, tape)
    /\ EchoIsTheFrame /\ FromHost /\ HeardSoFar

-----------------------------------------------------------------------------
(* The checksum *)

\* A set of naturals that is not empty has a least element.
LEMMA LeastNat ==
    ASSUME NEW T, T \subseteq Nat, T # {}
    PROVE  \E x \in T : \A y \in T : ~(y < x)
<1>1. PICK x \in T : \A y \in T : ~(<<y, x>> \in OpToRel(<, Nat))
  BY WFMin, NatLessThanWellFounded
<1>2. \A y \in T : y < x => <<y, x>> \in OpToRel(<, Nat)
  BY DEF OpToRel
<1>3. QED
  BY <1>1, <1>2

\* The partial checksums of the first n bytes.
Sums(f, frame, n) ==
    f = [k \in 0..n |-> IF k = 0 THEN 0 ELSE Xor(f[k - 1], frame[k])]

\* The partial checksums exist.
LEMMA SumsExist ==
    ASSUME NEW frame \in Seq(Byte)
    PROVE  \E f : Sums(f, frame, Len(frame))
<1> DEFINE T == {n \in 0..Len(frame) : ~\E f : Sums(f, frame, n)}
<1>1. Len(frame) \in Nat
  BY LenProperties
<1>2. SUFFICES ASSUME T # {} PROVE FALSE
  BY <1>1
<1>3. PICK m \in T : \A y \in T : ~(y < m)
  <2>1. T \subseteq Nat
    BY <1>1
  <2> HIDE DEF T
  <2>2. QED
    BY <1>2, <2>1, LeastNat
<1>4. m \in 0..Len(frame) /\ m \in Nat /\ ~\E f : Sums(f, frame, m)
  BY <1>1, <1>3
<1>5. CASE m = 0
  <2>1. Sums([k \in 0..0 |-> 0], frame, 0)
    BY DEF Sums
  <2>2. QED
    BY <1>4, <1>5, <2>1
<1>6. CASE m # 0
  <2>1. m - 1 \in 0..Len(frame) /\ m - 1 < m /\ m - 1 \notin T
    BY <1>1, <1>3, <1>4, <1>6
  <2>2. PICK f : Sums(f, frame, m - 1)
    BY <2>1
  <2>3. \A k \in 0..(m - 1) : f[k] = IF k = 0 THEN 0 ELSE Xor(f[k - 1], frame[k])
    BY <2>2, Zenon DEF Sums
  <2>4. PICK g : g = [k \in 0..m |-> IF k = m THEN Xor(f[m - 1], frame[m]) ELSE f[k]]
    OBVIOUS
  <2>5. \A k \in 0..m : g[k] = IF k = m THEN Xor(f[m - 1], frame[m]) ELSE f[k]
    BY <2>4
  <2>6. \A k \in 0..m : g[k] = IF k = 0 THEN 0 ELSE Xor(g[k - 1], frame[k])
    <3> TAKE k \in 0..m
    <3>1. CASE k = 0
      <4>1. 0 \in 0..m /\ 0 # m /\ 0 \in 0..(m - 1)
        BY <1>4, <1>6
      <4>2. QED
        BY <2>3, <2>5, <3>1, <4>1, Zenon
    <3>2. CASE k # 0 /\ k = m
      <4>1. k - 1 \in 0..m /\ k - 1 # m
        BY <1>4, <3>2
      <4>2. g[k - 1] = f[k - 1]
        BY <2>5, <4>1, Zenon
      <4>3. QED
        BY <2>5, <3>2, <4>2, Zenon
    <3>3. CASE k # 0 /\ k # m
      <4>1. k - 1 \in 0..m /\ k - 1 # m /\ k \in 0..(m - 1)
        BY <1>4, <3>3
      <4>2. g[k - 1] = f[k - 1] /\ g[k] = f[k]
        BY <2>5, <3>3, <4>1, Zenon
      <4>3. QED
        BY <2>3, <3>3, <4>1, <4>2, Zenon
    <3>4. QED
      BY <3>1, <3>2, <3>3
  <2>7. Sums(g, frame, m)
    <3>1. g = [k \in 0..m |-> g[k]]
      BY <2>4
    <3>2. QED
      BY <2>6, <3>1 DEF Sums
  <2>8. QED
    BY <1>4, <2>7
<1>7. QED
  BY <1>5, <1>6

\* calculate_lrc returns a byte.
LEMMA LrcIsByte ==
    ASSUME NEW frame \in Seq(Byte)
    PROVE  Lrc(frame) \in Byte
<1>1. Len(frame) \in Nat
  BY LenProperties
<1>2. PICK f : f = CHOOSE g : Sums(g, frame, Len(frame))
  OBVIOUS
<1>3. Sums(f, frame, Len(frame))
  BY <1>2, SumsExist
<1>4. \A k \in 0..Len(frame) : f[k] = IF k = 0 THEN 0 ELSE Xor(f[k - 1], frame[k])
  BY <1>3, Zenon DEF Sums
<1> DEFINE T == {n \in 0..Len(frame) : f[n] \notin Byte}
<1>5. T = {}
  <2> SUFFICES ASSUME T # {} PROVE FALSE
    OBVIOUS
  <2>1. PICK m \in T : \A y \in T : ~(y < m)
    <3>1. T \subseteq Nat
      BY <1>1
    <3> HIDE DEF T
    <3>2. QED
      BY <3>1, LeastNat
  <2>2. m \in 0..Len(frame) /\ m \in Nat /\ f[m] \notin Byte
    BY <1>1, <2>1
  <2>3. m # 0
    BY <1>4, <2>2, FrameAssumption
  <2>4. m - 1 \in 0..Len(frame) /\ m - 1 < m /\ m \in 1..Len(frame)
    BY <1>1, <2>2, <2>3
  <2>5. f[m - 1] \in Byte /\ frame[m] \in Byte
    BY <2>1, <2>4, ElementOfSeq
  <2>6. f[m] = Xor(f[m - 1], frame[m])
    BY <1>4, <2>2, <2>3
  <2>7. QED
    BY <2>2, <2>5, <2>6, FrameAssumption
<1>6. f[Len(frame)] \in Byte
  BY <1>1, <1>5
<1>7. QED
  BY <1>2, <1>6 DEF Lrc, Sums

\* What build_response_frame makes of a message.
LEMMA FramedIs ==
    ASSUME NEW c \in Seq(Byte)
    PROVE  /\ <<SYNC, CTRL_ACK>> \o c \in Seq(Byte)
           /\ Framed(c) = Append(<<SYNC, CTRL_ACK>> \o c, Lrc(<<SYNC, CTRL_ACK>> \o c))
           /\ Framed(c) \in Seq(Byte) /\ Len(Framed(c)) = Len(c) + 3
           /\ Framed(c)[1] = SYNC /\ Framed(c)[2] = CTRL_ACK
           /\ \A i \in 1..Len(c) : Framed(c)[2 + i] = c[i]
           /\ Framed(c)[Len(c) + 3] = Lrc(<<SYNC, CTRL_ACK>> \o c)
<1>0. SYNC \in Byte /\ CTRL_ACK \in Byte /\ Len(c) \in Nat
  BY FrameAssumption, LenProperties
<1>1. <<SYNC, CTRL_ACK>> \in Seq(Byte) /\ Len(<<SYNC, CTRL_ACK>>) = 2
  BY <1>0
<1>2. PICK h : h = <<SYNC, CTRL_ACK>> \o c
  OBVIOUS
<1>3. /\ h \in Seq(Byte) /\ Len(h) = 2 + Len(c)
      /\ \A i \in 1..(2 + Len(c)) : h[i] = IF i <= 2 THEN <<SYNC, CTRL_ACK>>[i] ELSE c[i - 2]
  BY <1>1, <1>2, ConcatProperties
<1>4. PICK l \in Byte : l = Lrc(h)
  BY <1>3, LrcIsByte
<1>5. Framed(c) = Append(h, l)
  BY <1>2, <1>4 DEF Framed, WithLrc
<1>6. h[1] = SYNC /\ h[2] = CTRL_ACK /\ \A i \in 1..Len(c) : h[2 + i] = c[i]
  BY <1>0, <1>3
<1>7. /\ Append(h, l) \in Seq(Byte) /\ Len(Append(h, l)) = Len(c) + 3
      /\ \A i \in 1..Len(h) : Append(h, l)[i] = h[i]
      /\ Append(h, l)[Len(c) + 3] = l
  BY <1>0, <1>3, <1>4
<1>8. QED
  BY <1>0, <1>2, <1>3, <1>4, <1>5, <1>6, <1>7

-----------------------------------------------------------------------------
(* The tape *)

\* Last keeps the end of a sequence.
LEMMA LastIs ==
    ASSUME NEW t \in Seq(Byte), NEW n \in Nat
    PROVE  /\ Last(t, n) \in Seq(Byte)
           /\ Len(Last(t, n)) = IF Len(t) <= n THEN Len(t) ELSE n
           /\ Suffix(Last(t, n), t)
<1>1. Len(t) \in Nat
  BY LenProperties
<1>2. CASE Len(t) <= n
  BY <1>1, <1>2 DEF Last, Suffix
<1>3. CASE ~(Len(t) <= n)
  <2>1. Last(t, n) = SubSeq(t, Len(t) - n + 1, Len(t))
    BY <1>3 DEF Last
  <2>2. Len(t) - n + 1 \in Int /\ Len(t) - n + 1 >= 2 /\ Len(t) \in Int
    BY <1>1, <1>3
  <2>3. \A i \in (Len(t) - n + 1)..Len(t) : t[i] \in Byte
    BY <1>1, <2>2, ElementOfSeq
  <2>4. PICK m \in Int : m = Len(t) - n + 1
    BY <2>2
  <2>5. /\ Last(t, n) \in Seq(Byte)
        /\ Len(Last(t, n)) = IF m <= Len(t) THEN Len(t) - m + 1 ELSE 0
        /\ \A i \in 1..(Len(t) - m + 1) : Last(t, n)[i] = t[m + i - 1]
    BY <2>1, <2>2, <2>3, <2>4, SubSeqProperties
  <2>6. Len(Last(t, n)) = n /\ Len(t) - m + 1 = n
    BY <1>1, <1>3, <2>4, <2>5
  <2>7. \A i \in 1..n : m + i - 1 = Len(t) - n + i
    BY <1>1, <2>4
  <2>8. \A i \in 1..n : Last(t, n)[i] = t[Len(t) - n + i]
    BY <2>5, <2>6, <2>7
  <2>9. PICK l : l = Last(t, n)
    OBVIOUS
  <2>10. Suffix(l, t)
    <3>1. Len(l) = n /\ n <= Len(t) /\ \A i \in 1..n : l[i] = t[Len(t) - n + i]
      BY <1>1, <1>3, <2>6, <2>8, <2>9
    <3>2. QED
      BY <3>1 DEF Suffix
  <2>11. QED
    BY <1>3, <2>5, <2>6, <2>9, <2>10
<1>4. QED
  BY <1>2, <1>3

\* A byte that is fed to the parser and to the tape keeps the frame the end
\* of the tape.
LEMMA SuffixGrows ==
    ASSUME NEW s \in Seq(Byte), NEW t \in Seq(Byte), NEW byte \in Byte, NEW n \in Nat,
           Suffix(s, t), Len(s) < n
    PROVE  Suffix(Append(s, byte), Last(Append(t, byte), n))
<1>1. PICK a : a = Append(s, byte)
  OBVIOUS
<1>2. PICK b : b = Append(t, byte)
  OBVIOUS
<1>3. /\ a \in Seq(Byte) /\ b \in Seq(Byte)
      /\ Len(s) \in Nat /\ Len(t) \in Nat /\ Len(a) = Len(s) + 1 /\ Len(b) = Len(t) + 1
      /\ \A i \in 1..Len(s) : a[i] = s[i]
      /\ \A i \in 1..Len(t) : b[i] = t[i]
      /\ a[Len(a)] = byte /\ b[Len(b)] = byte
  BY <1>1, <1>2
<1>4. Suffix(a, b)
  <2>1. Len(a) <= Len(b)
    BY <1>3 DEF Suffix
  <2>2. ASSUME NEW i \in 1..Len(a) PROVE a[i] = b[Len(b) - Len(a) + i]
    <3>1. CASE i = Len(a)
      BY <1>3, <3>1
    <3>2. CASE i # Len(a)
      <4>1. i \in 1..Len(s) /\ a[i] = s[i] /\ s[i] = t[Len(t) - Len(s) + i]
        BY <1>3, <3>2 DEF Suffix
      <4>2. Len(b) - Len(a) + i = Len(t) - Len(s) + i /\ Len(t) - Len(s) + i \in 1..Len(t)
        BY <1>3, <2>1, <4>1
      <4>3. QED
        BY <1>3, <4>1, <4>2
    <3>3. QED
      BY <3>1, <3>2
  <2>3. QED
    BY <2>1, <2>2 DEF Suffix
<1>5. PICK l : l = Last(b, n)
  OBVIOUS
<1>6. Len(l) = (IF Len(b) <= n THEN Len(b) ELSE n) /\ Suffix(l, b)
  BY <1>3, <1>5, LastIs
<1>7. Len(a) <= Len(l) /\ Len(l) \in Nat
  BY <1>3, <1>4, <1>6 DEF Suffix
<1>8. \A i \in 1..Len(a) : a[i] = l[Len(l) - Len(a) + i]
  <2> TAKE i \in 1..Len(a)
  <2>1. a[i] = b[Len(b) - Len(a) + i]
    BY <1>4 DEF Suffix
  <2>2. PICK j : j = Len(l) - Len(a) + i /\ j \in 1..Len(l)
    <3>1. Len(l) - Len(a) + i \in 1..Len(l)
      BY <1>3, <1>7
    <3>2. QED
      BY <3>1
  <2>3. l[j] = b[Len(b) - Len(l) + j]
    BY <1>6, <2>2 DEF Suffix
  <2>4. Len(b) - Len(l) + j = Len(b) - Len(a) + i
    BY <1>3, <1>7, <2>2
  <2>5. QED
    BY <2>1, <2>2, <2>3, <2>4
<1>9. QED
  BY <1>1, <1>2, <1>5, <1>7, <1>8 DEF Suffix

\* The end of the tape is what Last returns.
LEMMA SuffixIsLast ==
    ASSUME NEW s \in Seq(Byte), NEW t \in Seq(Byte), Suffix(s, t)
    PROVE  Last(t, Len(s)) = s
<1>1. Len(s) \in Nat /\ Len(t) \in Nat
  BY LenProperties
<1>2. PICK l : l = Last(t, Len(s))
  OBVIOUS
<1>3. l \in Seq(Byte) /\ Len(l) = (IF Len(t) <= Len(s) THEN Len(t) ELSE Len(s)) /\ Suffix(l, t)
  BY <1>1, <1>2, LastIs
<1>4. Len(l) = Len(s)
  BY <1>1, <1>3 DEF Suffix
<1>5. \A i \in 1..Len(l) : l[i] = s[i]
  BY <1>3, <1>4 DEF Suffix
<1>6. QED
  BY <1>2, <1>3, <1>4, <1>5, SeqEqual

-----------------------------------------------------------------------------
(* One byte *)

Grows(p, byte, frame) == frame \in {<<>>, <<byte>>, Append(p.frame, byte)}

\* What a byte makes of a parser, whatever its state: a sound parser, whose
\* frame is empty, begun by this byte or longer by it; and a command only for
\* a whole frame.
Fed(p, byte, f) ==
    /\ f.parser \in Parser /\ Sound(f.parser)
    /\ Grows(p, byte, f.parser.frame)
    /\ f.event.kind \in {"None", "Command", "Error"}
    /\ f.event.kind = "Command" =>
         /\ f.parser.received = Append(p.frame, byte)
         /\ f.parser.received = Framed(f.event.ccid)
         /\ Len(f.event.ccid) = HeaderLen + f.event.ccid[LengthAt]
         /\ Len(f.event.ccid) <= MaxCcid

\* The sizes of the buffers.
LEMMA Sizes ==
    /\ HeaderLen \in Nat \ {0} /\ LengthAt \in 1..HeaderLen /\ MaxPayload \in Nat
    /\ MaxCcid \in Nat /\ MaxCcid = HeaderLen + MaxPayload
    /\ MaxFrame \in Nat /\ MaxFrame = MaxCcid + 3
  BY FrameAssumption DEF MaxCcid, MaxFrame

\* A parser that has just begun or just ended.
LEMMA BlankParser ==
    ASSUME NEW r \in Seq(Byte)
    PROVE  LET p == [NewParser EXCEPT !.received = r]
           IN p \in Parser /\ Sound(p) /\ p.frame = <<>> /\ p.received = r /\ p.state = "WaitSync"
<1>1. <<>> \in Seq(Byte)
  BY EmptySeq
<1>2. QED
  BY <1>1 DEF NewParser, Parser, Sound, States

\* FrameParser::new is sound.
LEMMA NewIsSound == NewParser \in Parser /\ Sound(NewParser) /\ NewParser.frame = <<>> /\ NewParser.state = "WaitSync"
<1>1. <<>> \in Seq(Byte)
  BY EmptySeq
<1>2. QED
  BY <1>1 DEF NewParser, Parser, Sound, States

\* So is the parser that has seen a SYNC.
LEMMA StartIsSound ==
    LET p == StartFrame(SYNC)
    IN p \in Parser /\ Sound(p) /\ p.frame = <<SYNC>> /\ p.state = "WaitCtrl"
<1>1. <<>> \in Seq(Byte) /\ <<SYNC>> \in Seq(Byte)
  BY EmptySeq, FrameAssumption
<1>2. QED
  BY <1>1 DEF StartFrame, NewParser, Parser, Sound, States

\* How long the collected message and frame are.
LEMMA FrameLength ==
    ASSUME NEW p \in Parser, Sound(p)
    PROVE  /\ p.frame \in Seq(Byte) /\ p.ccid \in Seq(Byte) /\ p.received \in Seq(Byte)
           /\ p.todo \in Nat /\ Len(p.ccid) \in Nat /\ Len(p.frame) \in Nat
           /\ Len(p.ccid) <= MaxCcid /\ Len(p.frame) < MaxFrame
           /\ p.state \in {"ReadHeader", "ReadPayload"} => Len(p.ccid) < MaxCcid
           /\ p.state \in {"ReadHeader", "ReadPayload", "CheckLrc"} => Len(p.frame) = Len(p.ccid) + 2
<1>1. /\ p.frame \in Seq(Byte) /\ p.ccid \in Seq(Byte) /\ p.received \in Seq(Byte)
      /\ p.todo \in Nat /\ p.state \in States
  BY DEF Parser
<1>2. Len(p.ccid) \in Nat /\ Len(p.frame) \in Nat
  BY <1>1, LenProperties
<1>3. CASE p.state \in {"WaitSync", "WaitCtrl"}
  <2>1. Len(<<>>) = 0 /\ Len(<<SYNC>>) = 1
    BY EmptySeq
  <2>2. p.ccid = <<>> /\ p.frame \in {<<>>, <<SYNC>>}
    BY <1>3 DEF Sound
  <2>3. Len(p.ccid) = 0 /\ Len(p.frame) \in {0, 1}
    BY <2>1, <2>2, Zenon
  <2>4. Len(p.ccid) <= MaxCcid /\ Len(p.frame) < MaxFrame
    <3>1. 0 <= MaxCcid /\ 0 < MaxFrame /\ 1 < MaxFrame
      BY Sizes
    <3>2. QED
      BY <2>3, <3>1, Zenon
  <2>5. p.state \notin {"ReadHeader", "ReadPayload", "CheckLrc"}
    BY <1>3
  <2>6. QED
    BY <1>1, <1>2, <2>4, <2>5, Zenon
<1>4. CASE p.state \in {"ReadHeader", "ReadPayload", "CheckLrc"}
  <2>1. Len(p.frame) = Len(p.ccid) + 2
    <3>1. <<SYNC, CTRL_ACK>> \in Seq(Byte) /\ Len(<<SYNC, CTRL_ACK>>) = 2
      BY FrameAssumption
    <3>2. p.frame = <<SYNC, CTRL_ACK>> \o p.ccid
      BY <1>4, Zenon DEF Sound
    <3>3. QED
      BY <1>1, <1>2, <3>1, <3>2, ConcatProperties
  <2>2. CASE p.state = "ReadHeader"
    <3>1. p.todo \in 1..HeaderLen /\ Len(p.ccid) = HeaderLen - p.todo
      BY <2>2, Zenon DEF Sound
    <3>2. Len(p.ccid) < MaxCcid /\ Len(p.frame) < MaxFrame
      BY <1>1, <1>2, <2>1, <3>1, Sizes
    <3>3. QED
      BY <1>1, <1>2, <2>1, <3>2, Sizes
  <2>3. CASE p.state = "ReadPayload"
    <3>1. /\ Len(p.ccid) + p.todo = HeaderLen + p.ccid[LengthAt] /\ p.ccid[LengthAt] \in 0..MaxPayload
          /\ p.todo \in 1..p.ccid[LengthAt]
      BY <2>3, Zenon DEF Sound
    <3>2. Len(p.ccid) < MaxCcid /\ Len(p.frame) < MaxFrame
      BY <1>1, <1>2, <2>1, <3>1, Sizes
    <3>3. QED
      BY <1>1, <1>2, <2>1, <3>2, Sizes
  <2>4. CASE p.state = "CheckLrc"
    <3>1. /\ Len(p.ccid) + p.todo = HeaderLen + p.ccid[LengthAt] /\ p.ccid[LengthAt] \in 0..MaxPayload
          /\ p.todo = 0
      BY <2>4, Zenon DEF Sound
    <3>2. Len(p.ccid) <= MaxCcid /\ Len(p.frame) < MaxFrame
      BY <1>1, <1>2, <2>1, <3>1, Sizes
    <3>3. QED
      BY <1>1, <1>2, <2>1, <2>4, <3>2
  <2>5. QED
    BY <1>4, <2>2, <2>3, <2>4
<1>5. QED
  BY <1>1, <1>3, <1>4 DEF States

\* No push is lost while a frame is collected.
LEMMA NothingLost ==
    ASSUME NEW p \in Parser, Sound(p), NEW byte \in Byte
    PROVE  /\ PushFrame(p, byte) = [p EXCEPT !.frame = Append(p.frame, byte)]
           /\ p.state \in {"ReadHeader", "ReadPayload"} =>
                PushBoth(p, byte) = [p EXCEPT !.frame = Append(p.frame, byte),
                                              !.ccid = Append(p.ccid, byte)]
<1>1. Push(p.frame, byte, MaxFrame) = Append(p.frame, byte)
  BY FrameLength DEF Push
<1>2. PushFrame(p, byte) = [p EXCEPT !.frame = Append(p.frame, byte)]
  BY <1>1 DEF PushFrame
<1>3. ASSUME p.state \in {"ReadHeader", "ReadPayload"}
      PROVE  PushBoth(p, byte) = [p EXCEPT !.frame = Append(p.frame, byte), !.ccid = Append(p.ccid, byte)]
  <2>1. Push(p.ccid, byte, MaxCcid) = Append(p.ccid, byte)
    BY <1>3, FrameLength DEF Push
  <2>2. PICK q : q = PushFrame(p, byte)
    OBVIOUS
  <2>3. q.ccid = p.ccid
    BY <1>2, <2>2 DEF Parser
  <2>4. PushBoth(p, byte) = [q EXCEPT !.ccid = Append(p.ccid, byte)]
    BY <2>1, <2>2, <2>3 DEF PushBoth
  <2>5. QED
    BY <1>2, <2>2, <2>4
<1>4. QED
  BY <1>2, <1>3

\* No verdict yet.
LEMMA FedNone ==
    ASSUME NEW p, NEW byte, NEW r \in Parser, Sound(r), Grows(p, byte, r.frame)
    PROVE  Fed(p, byte, Continue(r)) /\ Continue(r).parser = r
  BY DEF Fed, Continue, NoEvent

\* A byte while the parser waits for SYNC.
LEMMA FedWaitSync ==
    ASSUME NEW p \in Parser, Sound(p), NEW byte \in Byte, p.state = "WaitSync"
    PROVE  /\ Fed(p, byte, FeedWaitSync(p, byte))
           /\ byte = SYNC => FeedWaitSync(p, byte).parser = StartFrame(SYNC)
<1>1. p.frame = <<>>
  BY DEF Sound
<1>2. CASE byte = NOTIFY
  <2>1. FeedWaitSync(p, byte) = Continue(NewParser) /\ byte # SYNC
    BY <1>2, FrameAssumption DEF FeedWaitSync, ResetParser
  <2>2. Grows(p, byte, NewParser.frame)
    BY NewIsSound, Zenon DEF Grows
  <2>3. QED
    BY <2>1, <2>2, NewIsSound, FedNone
<1>3. CASE byte = SYNC
  <2>1. FeedWaitSync(p, byte) = Continue(StartFrame(SYNC))
    BY <1>3, FrameAssumption DEF FeedWaitSync
  <2>2. PICK r : r = StartFrame(SYNC)
    OBVIOUS
  <2>3. r \in Parser /\ Sound(r) /\ r.frame = <<byte>>
    BY <1>3, <2>2, StartIsSound
  <2>4. Grows(p, byte, r.frame)
    BY <2>3, Zenon DEF Grows
  <2>5. QED
    BY <1>3, <2>1, <2>2, <2>3, <2>4, FedNone
<1>4. CASE byte # NOTIFY /\ byte # SYNC
  <2>1. FeedWaitSync(p, byte) = Continue(p)
    BY <1>4 DEF FeedWaitSync
  <2>2. Grows(p, byte, p.frame)
    BY <1>1, Zenon DEF Grows
  <2>3. QED
    BY <1>4, <2>1, <2>2, FedNone
<1>5. QED
  BY <1>2, <1>3, <1>4

\* A verdict of error: the parser starts over.
LEMMA FedError ==
    ASSUME NEW p, NEW byte, NEW q, q.frame \in Seq(Byte), NEW e
    PROVE  Fed(p, byte, Finish(q, Error(e)))
<1>1. PICK b : b = [NewParser EXCEPT !.received = q.frame]
  OBVIOUS
<1>2. Finish(q, Error(e)) = [parser |-> b, event |-> Error(e)]
  BY <1>1 DEF Finish
<1>3. b \in Parser /\ Sound(b) /\ b.frame = <<>>
  BY <1>1, BlankParser
<1>4. Grows(p, byte, b.frame)
  BY <1>3, Zenon DEF Grows
<1>5. QED
  BY <1>2, <1>3, <1>4 DEF Fed, Error

\* A byte while it waits for the control byte.
LEMMA FedWaitCtrl ==
    ASSUME NEW p \in Parser, Sound(p), NEW byte \in Byte, p.state = "WaitCtrl"
    PROVE  /\ Fed(p, byte, FeedWaitCtrl(p, byte))
           /\ byte = SYNC => FeedWaitCtrl(p, byte).parser = StartFrame(SYNC)
           /\ byte = CTRL_ACK => FeedWaitCtrl(p, byte).parser.frame = Append(p.frame, byte)
<1>0. p.frame = <<SYNC>> /\ p.ccid = <<>> /\ p.frame \in Seq(Byte) /\ Append(p.frame, byte) \in Seq(Byte)
  BY FrameLength, AppendProperties DEF Sound
<1>1. PICK q : q = [p EXCEPT !.frame = Append(p.frame, byte)]
  OBVIOUS
<1>2. PushFrame(p, byte) = q /\ q.frame = Append(p.frame, byte)
  BY <1>1, NothingLost DEF Parser
<1>3. CASE byte = SYNC
  <2>1. FeedWaitCtrl(p, byte) = Continue(StartFrame(SYNC)) /\ byte # CTRL_ACK
    BY <1>3, FrameAssumption DEF FeedWaitCtrl
  <2>2. PICK r : r = StartFrame(SYNC)
    OBVIOUS
  <2>3. r \in Parser /\ Sound(r) /\ r.frame = <<byte>>
    BY <1>3, <2>2, StartIsSound
  <2>4. Grows(p, byte, r.frame)
    BY <2>3, Zenon DEF Grows
  <2>5. QED
    BY <1>3, <2>1, <2>2, <2>3, <2>4, FedNone
<1>4. CASE byte = CTRL_ACK
  <2>1. PICK r : r = [q EXCEPT !.state = "ReadHeader", !.todo = HeaderLen]
    OBVIOUS
  <2>2. FeedWaitCtrl(p, byte) = Continue(r) /\ byte # SYNC
    BY <1>2, <1>4, <2>1, FrameAssumption DEF FeedWaitCtrl
  <2>3. /\ r \in Parser /\ r.state = "ReadHeader" /\ r.todo = HeaderLen
        /\ r.frame = Append(p.frame, byte) /\ r.ccid = <<>>
    BY <1>0, <1>1, <2>1, Sizes DEF Parser, States
  <2>4. Append(<<SYNC>>, CTRL_ACK) = <<SYNC, CTRL_ACK>> \o <<>>
    <3>1. <<SYNC, CTRL_ACK>> \in Seq(Byte) /\ <<SYNC>> \in Seq(Byte) /\ CTRL_ACK \in Byte
      BY FrameAssumption
    <3>2. PICK a : a = Append(<<SYNC>>, CTRL_ACK)
      OBVIOUS
    <3>3. /\ a \in Seq(Byte) /\ Len(<<SYNC>>) = 1 /\ Len(a) = 2
          /\ a[1] = SYNC /\ a[2] = CTRL_ACK
      BY <3>1, <3>2, AppendProperties
    <3>4. PICK b : b = <<SYNC, CTRL_ACK>>
      OBVIOUS
    <3>5. b \in Seq(Byte) /\ Len(b) = 2 /\ b[1] = SYNC /\ b[2] = CTRL_ACK
      BY <3>1, <3>4
    <3>6. \A i \in 1..Len(a) : a[i] = b[i]
      BY <3>3, <3>5
    <3>7. a = b
      BY <3>3, <3>5, <3>6, SeqEqual
    <3>8. b \o <<>> = b
      BY <3>5, ConcatEmptySeq
    <3>9. QED
      BY <3>2, <3>4, <3>7, <3>8
  <2>5. Len(<<>>) = 0
    BY EmptySeq
  <2>6. Sound(r)
    BY <1>0, <1>4, <2>3, <2>4, <2>5, Sizes DEF Sound
  <2>7. Grows(p, byte, r.frame)
    BY <2>3, Zenon DEF Grows
  <2>8. QED
    BY <2>2, <2>3, <2>6, <2>7, FedNone
<1>5. CASE byte # SYNC /\ byte # CTRL_ACK
  <2>1. \E e : FeedWaitCtrl(p, byte) = Finish(q, Error(e))
    BY <1>2, <1>5 DEF FeedWaitCtrl
  <2>2. QED
    BY <1>0, <1>2, <1>5, <2>1, FedError
<1>6. QED
  BY <1>3, <1>4, <1>5

\* Concatenation of byte sequences is associative.
LEMMA Joined ==
    ASSUME NEW x \in Seq(Byte), NEW y \in Seq(Byte), NEW z \in Seq(Byte)
    PROVE  (x \o y) \o z = x \o (y \o z)
<1>1. x \o y \in Seq(Byte) /\ y \o z \in Seq(Byte)
  BY ConcatProperties
<1>2. PICK a : a = (x \o y) \o z
  OBVIOUS
<1>3. PICK b : b = x \o (y \o z)
  OBVIOUS
<1>4. a \in Seq(Byte) /\ b \in Seq(Byte) /\ Len(a) = Len(b)
  BY <1>1, <1>2, <1>3, ConcatProperties
<1>5. \A i \in 1..Len(a) : a[i] = b[i]
  BY <1>1, <1>2, <1>3, ConcatProperties
<1>6. QED
  BY <1>2, <1>3, <1>4, <1>5, SeqEqual

\* A byte that the header or the payload takes.
LEMMA Collected ==
    ASSUME NEW p \in Parser, Sound(p), NEW byte \in Byte,
           p.state \in {"ReadHeader", "ReadPayload"},
           NEW st \in States, NEW n \in Nat
    PROVE  LET q == PushBoth(p, byte)
               r == [q EXCEPT !.state = st, !.todo = n]
           IN /\ q.frame = Append(p.frame, byte) /\ q.ccid = Append(p.ccid, byte)
              /\ q.state = p.state /\ q.todo = p.todo /\ q \in Parser
              /\ r \in Parser /\ r.frame = q.frame /\ r.ccid = q.ccid /\ r.state = st /\ r.todo = n
              /\ q.frame = <<SYNC, CTRL_ACK>> \o q.ccid
              /\ Len(q.ccid) = Len(p.ccid) + 1
              /\ LengthAt <= Len(p.ccid) => q.ccid[LengthAt] = p.ccid[LengthAt]
              /\ LengthAt <= Len(q.ccid) => q.ccid[LengthAt] \in Byte /\ q.ccid[LengthAt] \in Nat
              /\ q.frame \in Seq(Byte)
<1>0. p.frame \in Seq(Byte) /\ p.ccid \in Seq(Byte) /\ Len(p.ccid) \in Nat
  BY FrameLength
<1>1. PICK a : a = Append(p.frame, byte)
  OBVIOUS
<1>2. PICK c : c = Append(p.ccid, byte)
  OBVIOUS
<1>3. /\ a \in Seq(Byte) /\ c \in Seq(Byte) /\ Len(c) = Len(p.ccid) + 1
      /\ \A i \in 1..Len(p.ccid) : c[i] = p.ccid[i]
  BY <1>0, <1>1, <1>2, AppendProperties
<1>4. PICK q : q = [p EXCEPT !.frame = a, !.ccid = c]
  OBVIOUS
<1>5. PushBoth(p, byte) = q
  BY <1>1, <1>2, <1>4, NothingLost
<1>6. PICK r : r = [q EXCEPT !.state = st, !.todo = n]
  OBVIOUS
<1>7. /\ q.frame = a /\ q.ccid = c /\ q.state = p.state /\ q.todo = p.todo /\ q \in Parser
      /\ r \in Parser /\ r.frame = a /\ r.ccid = c /\ r.state = st /\ r.todo = n
  BY <1>3, <1>4, <1>6 DEF Parser
<1>8. a = <<SYNC, CTRL_ACK>> \o c
  <2>1. PICK h : h = <<SYNC, CTRL_ACK>>
    OBVIOUS
  <2>2. PICK b : b = <<byte>>
    OBVIOUS
  <2>3. p.frame = h \o p.ccid /\ h \in Seq(Byte) /\ b \in Seq(Byte)
    <3>1. p.frame = <<SYNC, CTRL_ACK>> \o p.ccid
      BY Zenon DEF Sound
    <3>2. SYNC \in Byte /\ CTRL_ACK \in Byte
      BY FrameAssumption
    <3>3. h \in Seq(Byte) /\ b \in Seq(Byte)
      BY <2>1, <2>2, <3>2
    <3>4. QED
      BY <2>1, <3>1, <3>3
  <2>4. a = p.frame \o b /\ c = p.ccid \o b
    BY <1>0, <1>1, <1>2, <2>2, AppendIsConcat
  <2>5. (h \o p.ccid) \o b = h \o (p.ccid \o b)
    BY <1>0, <2>3, Joined
  <2>6. QED
    BY <2>1, <2>3, <2>4, <2>5
<1>9. LengthAt <= Len(p.ccid) => c[LengthAt] = p.ccid[LengthAt]
  BY <1>0, <1>3, Sizes
<1>10. LengthAt <= Len(c) => c[LengthAt] \in Byte /\ c[LengthAt] \in Nat
  <2>1. LengthAt <= Len(c) => LengthAt \in 1..Len(c)
    BY <1>0, <1>3, Sizes
  <2>2. QED
    BY <1>3, <2>1, ElementOfSeq, FrameAssumption
<1>11. QED
  BY <1>1, <1>2, <1>3, <1>5, <1>6, <1>7, <1>8, <1>9, <1>10

\* A byte of the header, the last one with the length included.
LEMMA FedHeader ==
    ASSUME NEW p \in Parser, Sound(p), NEW byte \in Byte, p.state = "ReadHeader"
    PROVE  /\ Fed(p, byte, FeedHeader(p, byte))
           /\ p.todo # 1 \/ Append(p.ccid, byte)[LengthAt] <= MaxPayload
                => FeedHeader(p, byte).parser.frame = Append(p.frame, byte)
<1>0. p.todo \in 1..HeaderLen /\ Len(p.ccid) = HeaderLen - p.todo /\ Len(p.ccid) \in Nat
  BY FrameLength DEF Sound
<1>1. PICK q : q = PushBoth(p, byte)
  OBVIOUS
<1>2. /\ q.frame = Append(p.frame, byte) /\ q.ccid = Append(p.ccid, byte)
      /\ q.state = "ReadHeader" /\ q.todo = p.todo /\ q \in Parser
      /\ q.frame = <<SYNC, CTRL_ACK>> \o q.ccid
      /\ Len(q.ccid) = Len(p.ccid) + 1
      /\ LengthAt <= Len(q.ccid) => q.ccid[LengthAt] \in Nat
      /\ q.frame \in Seq(Byte)
  <2>1. "ReadHeader" \in States /\ 0 \in Nat
    BY DEF States
  <2>2. QED
    BY <1>1, <2>1, Collected, ZenonT(40)
<1>3. \A st \in States, n \in Nat :
        LET r == [q EXCEPT !.state = st, !.todo = n]
        IN r \in Parser /\ r.frame = q.frame /\ r.ccid = q.ccid /\ r.state = st /\ r.todo = n
  BY <1>2 DEF Parser
<1>4. Grows(p, byte, q.frame)
  BY <1>2, Zenon DEF Grows
<1>5. CASE p.todo # 1
  <2>1. PICK r : r = [q EXCEPT !.state = "ReadHeader", !.todo = p.todo - 1]
    OBVIOUS
  <2>2. r = [q EXCEPT !.todo = @ - 1]
    BY <1>2, <2>1 DEF Parser
  <2>3. FeedHeader(p, byte) = Continue(r)
    BY <1>1, <1>5, <2>2 DEF FeedHeader
  <2>4. r \in Parser /\ r.frame = q.frame /\ r.ccid = q.ccid /\ r.state = "ReadHeader" /\ r.todo = p.todo - 1
    <3>1. "ReadHeader" \in States /\ p.todo - 1 \in Nat
      BY <1>0 DEF States
    <3>2. QED
      BY <1>3, <2>1, <3>1
  <2>5. r.todo \in 1..HeaderLen /\ Len(r.ccid) = HeaderLen - r.todo
    <3>1. Len(r.ccid) = Len(p.ccid) + 1
      BY <1>2, <2>4
    <3>2. p.todo - 1 \in 1..HeaderLen /\ Len(p.ccid) + 1 = HeaderLen - (p.todo - 1)
      BY <1>0, <1>5, Sizes
    <3>3. QED
      BY <2>4, <3>1, <3>2
  <2>6. Sound(r)
    BY <1>2, <2>4, <2>5 DEF Sound
  <2>7. QED
    BY <1>2, <1>4, <2>3, <2>4, <2>6, FedNone
<1>6. CASE p.todo = 1
  <2>1. Len(q.ccid) = HeaderLen /\ LengthAt <= Len(q.ccid)
    BY <1>0, <1>2, <1>6, Sizes
  <2>2. PICK length \in Nat : length = q.ccid[LengthAt]
    BY <1>2, <2>1
  <2>3. CASE length > MaxPayload
    <3>1. FeedHeader(p, byte) = Finish(q, Error("Overflow"))
      BY <1>1, <1>6, <2>2, <2>3 DEF FeedHeader
    <3>2. ~(Append(p.ccid, byte)[LengthAt] <= MaxPayload)
      <4>1. Append(p.ccid, byte)[LengthAt] = length
        BY <1>2, <2>2
      <4>2. ~(length <= MaxPayload)
        BY <2>3, Sizes
      <4>3. QED
        BY <4>1, <4>2
    <3>3. QED
      BY <1>2, <1>6, <3>1, <3>2, FedError
  <2>4. CASE ~(length > MaxPayload)
    <3>1. PICK st : st = IF length = 0 THEN "CheckLrc" ELSE "ReadPayload"
      OBVIOUS
    <3>2. PICK r : r = [q EXCEPT !.state = st, !.todo = length]
      OBVIOUS
    <3>3. FeedHeader(p, byte) = Continue(r)
      BY <1>1, <1>6, <2>2, <2>4, <3>1, <3>2 DEF FeedHeader
    <3>4. st \in States
      BY <3>1 DEF States
    <3>5. r \in Parser /\ r.frame = q.frame /\ r.ccid = q.ccid /\ r.state = st /\ r.todo = length
      BY <1>3, <2>2, <3>2, <3>4
    <3>6. /\ Len(r.ccid) + r.todo = HeaderLen + r.ccid[LengthAt]
          /\ r.ccid[LengthAt] = length /\ length \in 0..MaxPayload
      BY <2>1, <2>2, <2>4, <3>5, Sizes
    <3>7. Sound(r)
      <4>1. CASE length = 0
        BY <1>2, <3>1, <3>5, <3>6, <4>1 DEF Sound
      <4>2. CASE length # 0
        <5>1. r.todo \in 1..r.ccid[LengthAt]
          BY <2>2, <3>5, <3>6, <4>2
        <5>2. QED
          BY <1>2, <3>1, <3>5, <3>6, <4>2, <5>1 DEF Sound
      <4>3. QED
        BY <4>1, <4>2
    <3>8. QED
      BY <1>2, <1>4, <3>3, <3>5, <3>7, FedNone
  <2>5. QED
    BY <2>3, <2>4
<1>7. QED
  BY <1>5, <1>6

\* A byte of the payload.
LEMMA FedPayload ==
    ASSUME NEW p \in Parser, Sound(p), NEW byte \in Byte, p.state = "ReadPayload"
    PROVE  /\ Fed(p, byte, FeedPayload(p, byte))
           /\ FeedPayload(p, byte).parser.frame = Append(p.frame, byte)
<1>0. /\ Len(p.ccid) + p.todo = HeaderLen + p.ccid[LengthAt] /\ Len(p.ccid) \in Nat
      /\ p.ccid[LengthAt] \in 0..MaxPayload /\ p.todo \in 1..p.ccid[LengthAt]
  BY FrameLength DEF Sound
<1>1. PICK q : q = PushBoth(p, byte)
  OBVIOUS
<1>2. PICK st : st = IF p.todo = 1 THEN "CheckLrc" ELSE "ReadPayload"
  OBVIOUS
<1>3. PICK r : r = [q EXCEPT !.state = st, !.todo = p.todo - 1]
  OBVIOUS
<1>4. /\ q.frame = Append(p.frame, byte)
      /\ q.state = "ReadPayload" /\ q.todo = p.todo /\ q \in Parser
      /\ r \in Parser /\ r.frame = q.frame /\ r.ccid = q.ccid /\ r.state = st /\ r.todo = p.todo - 1
      /\ q.frame = <<SYNC, CTRL_ACK>> \o q.ccid
      /\ Len(q.ccid) = Len(p.ccid) + 1
      /\ LengthAt <= Len(p.ccid) => q.ccid[LengthAt] = p.ccid[LengthAt]
  <2>1. st \in States /\ p.todo - 1 \in Nat
    BY <1>0, <1>2, Sizes DEF States
  <2>2. /\ q.frame = Append(p.frame, byte)
        /\ q.state = "ReadPayload" /\ q.todo = p.todo /\ q \in Parser
        /\ q.frame = <<SYNC, CTRL_ACK>> \o q.ccid
        /\ Len(q.ccid) = Len(p.ccid) + 1
        /\ LengthAt <= Len(p.ccid) => q.ccid[LengthAt] = p.ccid[LengthAt]
    BY <1>1, <2>1, Collected, ZenonT(40)
  <2>3. r \in Parser /\ r.frame = q.frame /\ r.ccid = q.ccid /\ r.state = st /\ r.todo = p.todo - 1
    BY <1>3, <2>1, <2>2 DEF Parser
  <2>4. QED
    BY <2>2, <2>3
<1>5. FeedPayload(p, byte) = Continue(r)
  <2>1. r = [q EXCEPT !.todo = @ - 1, !.state = IF p.todo = 1 THEN "CheckLrc" ELSE @]
    BY <1>2, <1>3, <1>4 DEF Parser
  <2>2. QED
    BY <1>1, <2>1 DEF FeedPayload
<1>6. LengthAt <= Len(p.ccid)
  BY <1>0, Sizes
<1>7. /\ Len(r.ccid) + r.todo = HeaderLen + r.ccid[LengthAt]
      /\ r.ccid[LengthAt] \in 0..MaxPayload /\ r.todo = p.todo - 1
      /\ r.ccid[LengthAt] = p.ccid[LengthAt]
  <2>1. r.ccid[LengthAt] = p.ccid[LengthAt] /\ Len(r.ccid) = Len(p.ccid) + 1 /\ r.todo = p.todo - 1
    BY <1>4, <1>6
  <2>2. p.todo \in Nat /\ p.ccid[LengthAt] \in Nat
    BY <1>0, Sizes
  <2>3. Len(p.ccid) + 1 + (p.todo - 1) = HeaderLen + p.ccid[LengthAt]
    BY <1>0, <2>2, SMTT(20)
  <2>4. QED
    BY <1>0, <2>1, <2>3
<1>8. Sound(r)
  <2>1. CASE p.todo = 1
    BY <1>2, <1>4, <1>7, <2>1 DEF Sound
  <2>2. CASE p.todo # 1
    <3>1. r.todo \in 1..r.ccid[LengthAt]
      <4>1. p.todo \in 1..p.ccid[LengthAt] /\ p.ccid[LengthAt] \in Nat
        BY <1>0, <1>7
      <4>2. p.todo - 1 \in 1..p.ccid[LengthAt]
        BY <2>2, <4>1
      <4>3. QED
        BY <1>7, <4>2
    <3>2. QED
      BY <1>2, <1>4, <1>7, <2>2, <3>1 DEF Sound
  <2>3. QED
    BY <2>1, <2>2
<1>9. Grows(p, byte, r.frame)
  BY <1>4, Zenon DEF Grows
<1>10. QED
  BY <1>4, <1>5, <1>8, <1>9, FedNone

\* The checksum byte, right or wrong.
LEMMA FedLrc ==
    ASSUME NEW p \in Parser, Sound(p), NEW byte \in Byte, p.state = "CheckLrc"
    PROVE  /\ Fed(p, byte, FeedLrc(p, byte))
           /\ byte = Lrc(p.frame) => /\ FeedLrc(p, byte).event.kind = "Command"
                                     /\ FeedLrc(p, byte).parser.received = Append(p.frame, byte)
<1>0. /\ p.frame \in Seq(Byte) /\ p.ccid \in Seq(Byte) /\ Len(p.frame) \in Nat /\ Len(p.ccid) <= MaxCcid
      /\ Len(p.ccid) = HeaderLen + p.ccid[LengthAt] /\ p.frame = <<SYNC, CTRL_ACK>> \o p.ccid
  <2>1. Len(p.ccid) + p.todo = HeaderLen + p.ccid[LengthAt] /\ p.todo = 0 /\ p.frame = <<SYNC, CTRL_ACK>> \o p.ccid
    BY DEF Sound
  <2>2. QED
    BY <2>1, FrameLength
<1>1. PICK a : a = Append(p.frame, byte)
  OBVIOUS
<1>2. PICK q : q = PushFrame(p, byte)
  OBVIOUS
<1>3. q.frame = a /\ a \in Seq(Byte) /\ Len(a) = Len(p.frame) + 1 /\ \A i \in 1..Len(p.frame) : a[i] = p.frame[i]
  <2>1. q = [p EXCEPT !.frame = a]
    BY <1>1, <1>2, NothingLost
  <2>2. q.frame = a
    BY <2>1 DEF Parser
  <2>3. QED
    BY <1>0, <1>1, <2>2, AppendProperties
<1>4. SubSeq(a, 1, Len(a) - 1) = p.frame
  <2>1. PICK b : b = SubSeq(a, 1, Len(p.frame))
    OBVIOUS
  <2>2. \A i \in 1..Len(p.frame) : a[i] \in Byte
    BY <1>0, <1>3, ElementOfSeq
  <2>3. b \in Seq(Byte) /\ Len(b) = Len(p.frame) /\ \A i \in 1..Len(p.frame) : b[i] = a[i]
    BY <1>0, <2>1, <2>2, SubSeqProperties
  <2>4. b = p.frame
    BY <1>0, <1>3, <2>3, SeqEqual, ZenonT(40)
  <2>5. Len(a) - 1 = Len(p.frame)
    BY <1>0, <1>3
  <2>6. QED
    BY <2>1, <2>4, <2>5
<1>5. CASE byte # Lrc(p.frame)
  <2>1. FeedLrc(p, byte) = Finish(q, Error("InvalidLrc"))
    BY <1>2, <1>3, <1>4, <1>5 DEF FeedLrc
  <2>2. QED
    BY <1>3, <1>5, <2>1, FedError
<1>6. CASE byte = Lrc(p.frame)
  <2>1. PICK b : b = [NewParser EXCEPT !.received = a]
    OBVIOUS
  <2>2. FeedLrc(p, byte) = [parser |-> b, event |-> Command(p.ccid)]
    BY <1>2, <1>3, <1>4, <1>6, <2>1 DEF FeedLrc, Finish
  <2>3. b \in Parser /\ Sound(b) /\ b.frame = <<>> /\ b.received = a
    BY <1>3, <2>1, BlankParser
  <2>4. Grows(p, byte, b.frame)
    BY <2>3, Zenon DEF Grows
  <2>5. a = Framed(p.ccid)
    BY <1>0, <1>1, <1>6, FramedIs
  <2>6. PICK f : f = FeedLrc(p, byte)
    OBVIOUS
  <2>7. f.parser = b /\ f.event.kind = "Command" /\ f.event.ccid = p.ccid
    BY <2>2, <2>6 DEF Command
  <2>8. Fed(p, byte, f)
    BY <1>0, <1>1, <2>3, <2>4, <2>5, <2>7 DEF Fed
  <2>9. QED
    BY <1>1, <2>3, <2>6, <2>7, <2>8
<1>7. QED
  BY <1>5, <1>6

\* feed, for any byte.
LEMMA FedAny ==
    ASSUME NEW p \in Parser, Sound(p), NEW byte \in Byte
    PROVE  Fed(p, byte, Feed(p, byte))
<1>1. p.state \in States
  BY DEF Parser
<1>2. CASE p.state = "WaitSync"
  BY <1>2, FedWaitSync DEF Feed
<1>3. CASE p.state = "WaitCtrl"
  BY <1>3, FedWaitCtrl DEF Feed
<1>4. CASE p.state = "ReadHeader"
  BY <1>4, FedHeader DEF Feed
<1>5. CASE p.state = "ReadPayload"
  BY <1>5, FedPayload DEF Feed
<1>6. CASE p.state = "CheckLrc"
  BY <1>6, FedLrc DEF Feed
<1>7. QED
  BY <1>1, <1>2, <1>3, <1>4, <1>5, <1>6 DEF States

-----------------------------------------------------------------------------
(* The steps of the line *)

\* The parser that meets the next byte: a gap begins anew.
Meets == IF quiet THEN NewParser ELSE parser

\* The empty frame ends every tape.
LEMMA EmptySuffix == ASSUME NEW t \in Seq(Byte) PROVE Suffix(<<>>, t)
<1>1. Len(<<>>) = 0 /\ Len(t) \in Nat
  BY EmptySeq, LenProperties
<1>2. QED
  BY <1>1 DEF Suffix

\* The parser a byte meets, reset after a pause or not, is sound and at the end of the tape.
LEMMA MeetsSound ==
    ASSUME LineTypeOK, Sound(parser), Suffix(parser.frame, tape)
    PROVE  Meets \in Parser /\ Sound(Meets) /\ Suffix(Meets.frame, tape)
<1>1. CASE quiet
  <2>1. Meets = NewParser
    BY <1>1 DEF Meets
  <2>2. Suffix(<<>>, tape)
    BY EmptySuffix DEF LineTypeOK
  <2>3. QED
    BY <2>1, <2>2, NewIsSound
<1>2. CASE ~quiet
  BY <1>2 DEF Meets, LineTypeOK
<1>3. QED
  BY <1>1, <1>2

\* A byte from the line, of whatever origin.
LEMMA FeedByteKeeps ==
    ASSUME LineTypeOK, Sound(parser), Suffix(parser.frame, tape),
           NEW byte \in Byte, FeedByte(byte)
    PROVE  /\ parser' \in Parser /\ Sound(parser') /\ Suffix(parser'.frame, tape')
           /\ event'.kind \in {"None", "Command", "Error"} /\ quiet' = FALSE
           /\ tape' \in Seq(Byte) /\ EchoIsTheFrame'
<1>1. PICK p : p = Meets
  OBVIOUS
<1>2. p \in Parser /\ Sound(p) /\ Suffix(p.frame, tape)
  BY <1>1, MeetsSound
<1>3. /\ parser' = Feed(p, byte).parser /\ event' = Feed(p, byte).event /\ quiet' = FALSE
      /\ tape' = Last(Append(tape, byte), MaxFrame)
  BY <1>1 DEF FeedByte, Meets, ResetParser
<1>4. Fed(p, byte, Feed(p, byte))
  BY <1>2, FedAny
<1>5. /\ parser' \in Parser /\ Sound(parser') /\ Grows(p, byte, parser'.frame)
      /\ event'.kind \in {"None", "Command", "Error"}
      /\ event'.kind = "Command" =>
           /\ parser'.received = Append(p.frame, byte)
           /\ parser'.received = Framed(event'.ccid)
           /\ Len(event'.ccid) = HeaderLen + event'.ccid[LengthAt]
           /\ Len(event'.ccid) <= MaxCcid
  BY <1>3, <1>4 DEF Fed
<1>6. tape \in Seq(Byte) /\ Append(tape, byte) \in Seq(Byte) /\ MaxFrame \in Nat
  BY Sizes, AppendProperties DEF LineTypeOK
<1>7. tape' \in Seq(Byte)
  BY <1>3, <1>6, LastIs
<1>8. Suffix(Append(p.frame, byte), tape')
  BY <1>2, <1>3, <1>6, FrameLength, SuffixGrows
<1>9. Suffix(<<byte>>, tape')
  <2>1. <<>> \in Seq(Byte) /\ Len(<<>>) < MaxFrame
    BY EmptySeq, Sizes
  <2>2. Suffix(Append(<<>>, byte), tape')
    BY <1>3, <1>6, <2>1, EmptySuffix, SuffixGrows
  <2>3. Append(<<>>, byte) = <<byte>>
    OBVIOUS
  <2>4. QED
    BY <2>2, <2>3
<1>10. Suffix(parser'.frame, tape')
  BY <1>5, <1>7, <1>8, <1>9, EmptySuffix, Zenon DEF Grows
<1>11. EchoIsTheFrame'
  <2> SUFFICES ASSUME event'.kind = "Command" PROVE EchoIsTheFrame'
    BY DEF EchoIsTheFrame
  <2>1. parser'.received \in Seq(Byte) /\ parser'.received # <<>>
    BY <1>2, <1>5, FrameLength, AppendProperties
  <2>2. Last(tape', Len(parser'.received)) = parser'.received
    BY <1>5, <1>7, <1>8, <2>1, SuffixIsLast
  <2>3. ReceivedFrame(parser') = parser'.received
    BY <2>1 DEF ReceivedFrame
  <2>4. QED
    BY <1>5, <2>2, <2>3 DEF EchoIsTheFrame
<1>12. QED
  BY <1>3, <1>5, <1>7, <1>10, <1>11

\* Arithmetic of the parser's countdown.
LEMMA Countdown ==
    /\ \A m \in Nat : \A v \in 0..m : v \in Nat
    /\ \A h, v \in Nat : h + v >= h
    /\ \A h \in Nat : \A t \in 1..h : h - t < h
OBVIOUS

\* The next byte of a frame to which nothing has happened.
LEMMA NextByteHeard ==
    ASSUME NEW p \in Parser, Sound(p), NEW c \in Seq(Byte), Len(c) = HeaderLen + c[LengthAt],
           c[LengthAt] \in 0..MaxPayload,
           Prefix(p.frame, Framed(c)), Len(p.frame) \in 1..(Len(c) + 2)
    PROVE  LET f == Feed(p, Framed(c)[Len(p.frame) + 1])
           IN /\ Len(p.frame) < Len(c) + 2
                   => f.parser.frame = Append(p.frame, Framed(c)[Len(p.frame) + 1])
              /\ Len(p.frame) = Len(c) + 2
                   => f.event.kind = "Command" /\ f.parser.received = Framed(c)
<1>1. PICK g : g = Framed(c)
  OBVIOUS
<1>2. /\ <<SYNC, CTRL_ACK>> \o c \in Seq(Byte)
      /\ g = Append(<<SYNC, CTRL_ACK>> \o c, Lrc(<<SYNC, CTRL_ACK>> \o c))
      /\ g \in Seq(Byte) /\ Len(g) = Len(c) + 3
      /\ g[1] = SYNC /\ g[2] = CTRL_ACK
      /\ \A i \in 1..Len(c) : g[2 + i] = c[i]
      /\ g[Len(c) + 3] = Lrc(<<SYNC, CTRL_ACK>> \o c)
  BY <1>1, FramedIs
<1>3. /\ p.frame \in Seq(Byte) /\ p.ccid \in Seq(Byte) /\ Len(p.ccid) \in Nat /\ Len(p.frame) \in Nat
      /\ Len(c) \in Nat /\ p.todo \in Nat /\ p.state \in States
      /\ \A i \in 1..Len(p.frame) : p.frame[i] = g[i]
  BY <1>1, FrameLength, LenProperties DEF Prefix, Parser
<1>4. PICK k : k = Len(p.frame) + 1
  OBVIOUS
<1>5. PICK byte : byte = g[k]
  OBVIOUS
<1>6. byte \in Byte
  <2>1. k \in 1..Len(g)
    BY <1>2, <1>3, <1>4, SMTT(20)
  <2>2. QED
    BY <1>2, <1>5, <2>1, ElementOfSeq
<1> DEFINE Goal == /\ Len(p.frame) < Len(c) + 2 => Feed(p, byte).parser.frame = Append(p.frame, byte)
                   /\ Len(p.frame) = Len(c) + 2
                        => Feed(p, byte).event.kind = "Command" /\ Feed(p, byte).parser.received = g
<1>7. SUFFICES Goal
  BY <1>1, <1>4, <1>5
<1>8. CASE p.state = "WaitSync"
  <2>1. Len(p.frame) = 0
    BY <1>8, EmptySeq DEF Sound
  <2>2. QED
    BY <1>3, <2>1
<1>9. CASE p.state = "WaitCtrl"
  <2>1. Len(p.frame) = 1
    <3>1. p.frame = <<SYNC>> /\ Len(<<SYNC>>) = 1
      BY <1>9 DEF Sound
    <3>2. QED
      BY <3>1, Zenon
  <2>2. byte = CTRL_ACK
    BY <1>2, <1>4, <1>5, <2>1
  <2>3. Len(p.frame) < Len(c) + 2
    BY <1>3, <2>1
  <2>4. Feed(p, byte) = FeedWaitCtrl(p, byte)
    BY <1>9 DEF Feed
  <2>5. QED
    BY <1>3, <1>6, <1>9, <2>2, <2>3, <2>4, FedWaitCtrl
<1>10. CASE p.state \in {"ReadHeader", "ReadPayload", "CheckLrc"}
  <2>1. Len(p.frame) = Len(p.ccid) + 2 /\ p.frame = <<SYNC, CTRL_ACK>> \o p.ccid
    BY <1>10, FrameLength DEF Sound
  <2>2. Len(p.ccid) <= Len(c) /\ Len(p.ccid) \in Nat
    BY <1>3, <2>1
  <2>3. \A i \in 1..Len(p.ccid) : p.ccid[i] = c[i]
    <3> TAKE i \in 1..Len(p.ccid)
    <3>1. p.frame[2 + i] = p.ccid[i]
      <4>1. PICK h : h = <<SYNC, CTRL_ACK>>
        OBVIOUS
      <4>2. h \in Seq(Byte) /\ Len(h) = 2
        BY <4>1, FrameAssumption
      <4>3. \A j \in 1..(2 + Len(p.ccid)) : p.frame[j] = IF j <= 2 THEN h[j] ELSE p.ccid[j - 2]
        BY <1>3, <2>1, <4>1, <4>2, ConcatProperties
      <4>4. 2 + i \in 1..(2 + Len(p.ccid)) /\ ~(2 + i <= 2) /\ 2 + i - 2 = i
        BY <1>3, SMTT(20)
      <4>5. QED
        BY <4>3, <4>4
    <3>2. p.frame[2 + i] = g[2 + i]
      BY <1>3, <2>1
    <3>3. g[2 + i] = c[i]
      BY <1>2, <1>3, <2>2, SMTT(20)
    <3>4. QED
      BY <3>1, <3>2, <3>3
  <2>4. CASE p.state = "ReadHeader"
    <3>1. p.todo \in 1..HeaderLen /\ Len(p.ccid) = HeaderLen - p.todo
      BY <2>4 DEF Sound
    <3>2. Len(p.frame) < Len(c) + 2
      <4>1. HeaderLen \in Nat /\ MaxPayload \in Nat
        BY Sizes
      <4>2. c[LengthAt] \in Nat
        BY <4>1, Countdown, Zenon
      <4>3. Len(c) >= HeaderLen
        BY <4>1, <4>2, Countdown, Zenon
      <4>4. Len(p.ccid) < HeaderLen
        BY <3>1, <4>1, Countdown, Zenon
      <4>5. QED
        BY <1>3, <2>1, <4>1, <4>3, <4>4
    <3>3. byte = c[Len(p.ccid) + 1]
      <4>1. Len(p.ccid) + 1 \in 1..Len(c) /\ k = 2 + (Len(p.ccid) + 1)
        BY <1>3, <1>4, <2>1, <3>2, SMTT(20)
      <4>2. QED
        BY <1>2, <1>5, <4>1
    <3>4. p.todo = 1 => Append(p.ccid, byte)[LengthAt] = c[LengthAt]
      <4> SUFFICES ASSUME p.todo = 1 PROVE Append(p.ccid, byte)[LengthAt] = c[LengthAt]
        OBVIOUS
      <4>1. PICK a : a = Append(p.ccid, byte)
        OBVIOUS
      <4>2. (\A i \in 1..Len(p.ccid) : a[i] = p.ccid[i]) /\ a[Len(p.ccid) + 1] = byte
        BY <1>3, <1>6, <4>1, AppendProperties
      <4>3. LengthAt \in 1..Len(p.ccid) \/ LengthAt = Len(p.ccid) + 1
        BY <1>3, <3>1, Sizes
      <4>4. a[LengthAt] = c[LengthAt]
        BY <2>3, <3>3, <4>2, <4>3
      <4>5. QED
        BY <4>1, <4>4
    <3>5. p.todo # 1 \/ Append(p.ccid, byte)[LengthAt] <= MaxPayload
      <4>1. c[LengthAt] <= MaxPayload
        BY Sizes
      <4>2. QED
        BY <3>4, <4>1
    <3>6. Feed(p, byte) = FeedHeader(p, byte)
      BY <2>4 DEF Feed
    <3>7. Feed(p, byte).parser.frame = Append(p.frame, byte)
      BY <1>6, <2>4, <3>5, <3>6, FedHeader
    <3>8. QED
      BY <1>3, <3>2, <3>7
  <2>5. ASSUME p.state \in {"ReadPayload", "CheckLrc"}
        PROVE  Len(p.ccid) + p.todo = Len(c)
    <3>1. Len(p.ccid) + p.todo = HeaderLen + p.ccid[LengthAt] /\ p.ccid[LengthAt] \in 0..MaxPayload
      BY <2>5 DEF Sound
    <3>2. p.todo <= p.ccid[LengthAt]
      <4>1. p.state = "CheckLrc" => p.todo = 0
        BY DEF Sound
      <4>2. p.state = "ReadPayload" => p.todo \in 1..p.ccid[LengthAt]
        BY DEF Sound
      <4>3. QED
        BY <2>5, <3>1, <4>1, <4>2, Sizes
    <3>3. LengthAt \in 1..Len(p.ccid)
      <4>0. MaxPayload \in Nat
        BY Sizes
      <4>1. PICK v \in Nat : v = p.ccid[LengthAt]
        BY <3>1, <4>0, Countdown, Zenon
      <4>2. PICK n \in Nat : n = p.todo
        BY <1>3 DEF Parser
      <4>3. Len(p.ccid) + n = HeaderLen + v /\ n <= v
        BY <3>1, <3>2, <4>1, <4>2
      <4>4. Len(p.ccid) >= HeaderLen
        BY <2>2, <4>3, Sizes
      <4>5. QED
        BY <2>2, <4>4, Sizes
    <3>4. QED
      BY <2>3, <3>1, <3>3
  <2>6. CASE p.state = "ReadPayload"
    <3>1. p.todo \in 1..p.ccid[LengthAt] /\ p.ccid[LengthAt] \in 0..MaxPayload
      BY <2>6 DEF Sound
    <3>2. Len(p.frame) < Len(c) + 2
      <4>1. Len(p.ccid) + p.todo = Len(c) /\ p.todo \in Nat /\ p.todo > 0
        BY <2>5, <2>6, <3>1
      <4>2. Len(p.frame) = Len(p.ccid) + 2 /\ Len(p.ccid) \in Nat /\ Len(c) \in Nat
        BY <1>3, <2>1, <2>2
      <4>3. QED
        BY <4>1, <4>2
    <3>3. Feed(p, byte) = FeedPayload(p, byte)
      BY <2>6 DEF Feed
    <3>4. Feed(p, byte).parser.frame = Append(p.frame, byte)
      BY <1>6, <2>6, <3>3, FedPayload
    <3>5. QED
      BY <1>3, <3>2, <3>4
  <2>7. CASE p.state = "CheckLrc"
    <3>1. p.todo = 0
      BY <2>7 DEF Sound
    <3>2. Len(p.ccid) = Len(c) /\ Len(p.frame) = Len(c) + 2 /\ k = Len(c) + 3
      BY <1>3, <1>4, <2>1, <2>5, <2>7, <3>1
    <3>3. p.ccid = c
      BY <1>3, <2>3, <3>2, SeqEqual
    <3>4. byte = Lrc(p.frame) /\ Append(p.frame, byte) = g
      BY <1>2, <1>5, <2>1, <3>2, <3>3
    <3>5. Feed(p, byte) = FeedLrc(p, byte)
      BY <2>7 DEF Feed
    <3>6. Feed(p, byte).event.kind = "Command" /\ Feed(p, byte).parser.received = g
      BY <1>6, <2>7, <3>4, <3>5, FedLrc
    <3>7. QED
      BY <1>3, <3>2, <3>6
  <2>8. QED
    BY <1>10, <2>4, <2>6, <2>7
<1>11. QED
  BY <1>3, <1>8, <1>9, <1>10 DEF States

\* One byte is taken from the end of a frame.
LEMMA TailSuffix ==
    ASSUME NEW s \in Seq(Byte), NEW t \in Seq(Byte), Suffix(s, t), s # <<>>
    PROVE  /\ Head(s) \in Byte /\ Tail(s) \in Seq(Byte) /\ Len(Tail(s)) = Len(s) - 1
           /\ Head(s) = t[Len(t) - Len(s) + 1] /\ Suffix(Tail(s), t) /\ Len(s) \in Nat \ {0}
<1>1. Len(s) \in Nat \ {0} /\ Len(t) \in Nat
  BY EmptySeq, LenProperties
<1>2. PICK u : u = Tail(s)
  OBVIOUS
<1>3. /\ Head(s) \in Byte /\ u \in Seq(Byte) /\ Len(u) = Len(s) - 1
      /\ \A i \in 1..Len(u) : u[i] = s[i + 1]
  BY <1>2, HeadTailProperties
<1>4. Head(s) = s[1]
  OBVIOUS
<1>5. \A i \in 1..Len(s) : s[i] = t[Len(t) - Len(s) + i]
  BY DEF Suffix
<1>6. ASSUME NEW i \in 1..Len(u) PROVE u[i] = t[Len(t) - Len(u) + i]
  <2>1. i + 1 \in 1..Len(s) /\ Len(t) - Len(s) + (i + 1) = Len(t) - Len(u) + i
    BY <1>1, <1>3
  <2>2. QED
    BY <1>3, <1>5, <2>1
<1>7. Len(u) <= Len(t)
  BY <1>1, <1>3 DEF Suffix
<1>8. Head(s) = t[Len(t) - Len(s) + 1]
  BY <1>1, <1>4, <1>5
<1>9. Suffix(u, t)
  BY <1>6, <1>7 DEF Suffix
<1>10. QED
  BY <1>1, <1>2, <1>3, <1>8, <1>9

\* What is known of a frame of the host that is short enough.
LEMMA ShortEnough ==
    ASSUME NEW c \in HostCommands, Framed(c)[2 + LengthAt] <= MaxPayload
    PROVE  /\ c \in Seq(Byte) /\ Len(c) \in Nat /\ Len(c) >= 1
           /\ Len(c) = HeaderLen + c[LengthAt] /\ c[LengthAt] \in 0..MaxPayload
<1>1. c \in Seq(Byte) /\ Len(c) >= HeaderLen /\ Len(c) = HeaderLen + c[LengthAt]
  BY LineAssumption
<1>2. Len(c) \in Nat
  BY <1>1, LenProperties
<1>3. LengthAt \in 1..Len(c)
  BY <1>1, <1>2, Sizes
<1>4. Framed(c)[2 + LengthAt] = c[LengthAt] /\ c[LengthAt] \in Byte
  BY <1>1, <1>3, FramedIs, ElementOfSeq
<1>5. c[LengthAt] \in Nat /\ c[LengthAt] <= MaxPayload
  BY <1>4, FrameAssumption
<1>6. QED
  BY <1>1, <1>2, <1>5, Sizes

\* A byte of the host's frame arrives.
LEMMA DeliverHeard ==
    ASSUME LineInv, Deliver
    PROVE  HeardSoFar'
<1>1. /\ LineTypeOK /\ Sound(parser) /\ Suffix(parser.frame, tape) /\ Suffix(rest, cur)
      /\ cur # <<>> => \E c \in HostCommands : cur = Framed(c)
  BY DEF LineInv, FromHost
<1>2. /\ rest # <<>> /\ FeedByte(Head(rest)) /\ rest' = Tail(rest) /\ cur' = cur /\ whole' = whole
  BY DEF Deliver
<1>3. rest \in Seq(Byte) /\ cur \in Seq(Byte)
  BY <1>1 DEF LineTypeOK
<1>4. PICK byte : byte = Head(rest)
  OBVIOUS
<1>5. /\ byte \in Byte /\ rest' \in Seq(Byte) /\ Len(rest') = Len(rest) - 1
      /\ byte = cur[Len(cur) - Len(rest) + 1] /\ Len(rest) \in Nat \ {0}
  BY <1>1, <1>2, <1>3, <1>4, TailSuffix
<1>6. PICK p : p = Meets
  OBVIOUS
<1>7. p \in Parser /\ Sound(p)
  BY <1>1, <1>6, MeetsSound
<1>8. parser' = Feed(p, byte).parser /\ event' = Feed(p, byte).event /\ quiet' = FALSE
  BY <1>2, <1>4, <1>6 DEF FeedByte, Meets, ResetParser
<1>9. SUFFICES ASSUME whole, cur # <<>>, cur[2 + LengthAt] <= MaxPayload
               PROVE  \/ /\ rest' # <<>> /\ Len(rest') < Len(cur)
                         /\ Len(parser'.frame) + Len(rest') = Len(cur)
                         /\ Prefix(parser'.frame, cur)
                      \/ rest' = <<>> /\ event'.kind = "Command" /\ parser'.received = cur
  BY <1>2, <1>8 DEF HeardSoFar
<1>10. PICK c \in HostCommands : cur = Framed(c)
  BY <1>1, <1>9
<1>11. /\ c \in Seq(Byte) /\ Len(c) \in Nat /\ Len(c) >= 1
       /\ Len(c) = HeaderLen + c[LengthAt] /\ c[LengthAt] \in 0..MaxPayload
  BY <1>9, <1>10, ShortEnough
<1>12. Len(cur) = Len(c) + 3 /\ cur[1] = SYNC
  BY <1>10, <1>11, FramedIs
<1>13. /\ Len(rest') = 0 <=> rest' = <<>>
       /\ rest' = <<>> <=> Len(rest) = 1
  <2>1. \A r \in Seq(Byte) : Len(r) = 0 <=> r = <<>>
    BY EmptySeq
  <2>2. Len(rest) - 1 = 0 <=> Len(rest) = 1
    BY <1>5
  <2>3. QED
    BY <1>5, <2>1, <2>2
<1>14. CASE rest = cur /\ (quiet \/ parser.state \in {"WaitSync", "WaitCtrl"})
  <2>1. byte = SYNC
    BY <1>5, <1>12, <1>14
  <2>2. p.state \in {"WaitSync", "WaitCtrl"}
    BY <1>6, <1>14, NewIsSound DEF Meets
  <2>3. parser' = StartFrame(SYNC)
    <3>1. CASE p.state = "WaitSync"
      BY <1>5, <1>7, <1>8, <2>1, <3>1, FedWaitSync DEF Feed
    <3>2. CASE p.state = "WaitCtrl"
      BY <1>5, <1>7, <1>8, <2>1, <3>2, FedWaitCtrl DEF Feed
    <3>3. QED
      BY <2>2, <3>1, <3>2
  <2>4. parser'.frame = <<SYNC>>
    BY <2>3, StartIsSound
  <2>5. PICK s : s = <<SYNC>>
    OBVIOUS
  <2>6. Len(s) = 1 /\ s[1] = SYNC
    BY <2>5
  <2>7. Prefix(s, cur)
    BY <1>11, <1>12, <2>6 DEF Prefix
  <2>8. Len(s) + Len(rest') = Len(cur) /\ Len(rest') < Len(cur) /\ rest' # <<>>
    BY <1>5, <1>11, <1>12, <1>13, <1>14, <2>6
  <2>9. QED
    BY <2>4, <2>5, <2>7, <2>8
<1>15. CASE /\ ~quiet /\ Len(rest) < Len(cur)
            /\ Len(parser.frame) + Len(rest) = Len(cur)
            /\ Prefix(parser.frame, cur)
  <2>1. p = parser /\ p.frame \in Seq(Byte) /\ Len(p.frame) \in Nat
    BY <1>6, <1>7, <1>15, FrameLength DEF Meets
  <2>2. /\ Len(p.frame) \in 1..(Len(c) + 2) /\ Len(c) + 3 - Len(rest) + 1 = Len(p.frame) + 1
        /\ Len(p.frame) + 1 + (Len(rest) - 1) = Len(c) + 3 /\ Len(rest) - 1 < Len(c) + 3
        /\ (Len(rest) = 1 <=> Len(p.frame) = Len(c) + 2)
        /\ Len(p.frame) < Len(c) + 2 \/ Len(p.frame) = Len(c) + 2
        /\ Len(p.frame) < Len(c) + 2 => Len(p.frame) # Len(c) + 2
    <3>1. Len(p.frame) + Len(rest) = Len(c) + 3 /\ Len(rest) < Len(c) + 3
      BY <1>12, <1>15, <2>1
    <3>2. PICK n : n = Len(p.frame)
      OBVIOUS
    <3>3. PICK m : m = Len(rest)
      OBVIOUS
    <3>4. PICK l : l = Len(c)
      OBVIOUS
    <3>5. n \in Nat /\ m \in Nat \ {0} /\ l \in Nat /\ n + m = l + 3 /\ m < l + 3
      BY <1>5, <1>11, <2>1, <3>1, <3>2, <3>3, <3>4
    <3>6. /\ n \in 1..(l + 2) /\ l + 3 - m + 1 = n + 1 /\ n + 1 + (m - 1) = l + 3
          /\ m - 1 < l + 3 /\ (m = 1 <=> n = l + 2) /\ (n < l + 2 \/ n = l + 2)
          /\ n < l + 2 => n # l + 2
      BY <3>5
    <3>7. QED
      BY <3>2, <3>3, <3>4, <3>6, Zenon
  <2>3. byte = Framed(c)[Len(p.frame) + 1]
    <3>1. Len(cur) - Len(rest) + 1 = Len(p.frame) + 1
      BY <1>12, <2>2
    <3>2. QED
      BY <1>5, <1>10, <3>1, Zenon
  <2>4. Prefix(p.frame, Framed(c))
    BY <1>10, <1>15, <2>1
  <2>5. /\ Len(p.frame) < Len(c) + 2 => parser'.frame = Append(p.frame, byte)
        /\ Len(p.frame) = Len(c) + 2 => event'.kind = "Command" /\ parser'.received = Framed(c)
    BY <1>7, <1>8, <1>11, <2>2, <2>3, <2>4, NextByteHeard
  <2>6. CASE Len(p.frame) < Len(c) + 2
    <3>1. PICK a : a = Append(p.frame, byte)
      OBVIOUS
    <3>2. /\ Len(a) = Len(p.frame) + 1 /\ a[Len(p.frame) + 1] = byte
          /\ \A i \in 1..Len(p.frame) : a[i] = p.frame[i]
      BY <1>5, <2>1, <3>1, AppendProperties
    <3>3. Prefix(a, cur)
      <4>1. Len(a) <= Len(cur)
        BY <1>12, <2>1, <2>6, <3>2, <1>11
      <4>2. ASSUME NEW i \in 1..Len(a) PROVE a[i] = cur[i]
        <5>1. CASE i = Len(p.frame) + 1
          BY <1>10, <2>3, <3>2, <5>1
        <5>2. CASE i # Len(p.frame) + 1
          <6>1. i \in 1..Len(p.frame)
            BY <2>1, <3>2, <5>2
          <6>2. QED
            BY <1>15, <2>1, <3>2, <6>1 DEF Prefix
        <5>3. QED
          BY <5>1, <5>2
      <4>3. QED
        BY <4>1, <4>2 DEF Prefix
    <3>4. Len(a) + Len(rest') = Len(cur) /\ Len(rest') < Len(cur) /\ rest' # <<>>
      BY <1>5, <1>12, <1>13, <2>2, <2>6, <3>2, Zenon
    <3>5. QED
      BY <2>5, <2>6, <3>1, <3>3, <3>4
  <2>7. CASE Len(p.frame) = Len(c) + 2
    <3>1. rest' = <<>>
      BY <1>13, <2>2, <2>7, Zenon
    <3>2. QED
      BY <1>10, <2>5, <2>7, <3>1
  <2>8. QED
    BY <2>2, <2>6, <2>7, Zenon
<1>16. QED
  BY <1>2, <1>9, <1>14, <1>15 DEF LineInv, HeardSoFar

-----------------------------------------------------------------------------
(* Every step of the line *)

\* The line starts in the invariant.
LEMMA LineStarts == LineInit => LineInv
<1> SUFFICES ASSUME LineInit PROVE LineInv
  OBVIOUS
<1>1. <<>> \in Seq(Byte)
  BY EmptySeq
<1>2. LineTypeOK /\ Sound(parser) /\ parser.frame = <<>>
  BY <1>1, NewIsSound DEF LineInit, LineTypeOK, NoEvent
<1>3. Suffix(<<>>, <<>>)
  BY <1>1, EmptySuffix
<1>4. QED
  BY <1>2, <1>3 DEF LineInv, LineInit, EchoIsTheFrame, FromHost, HeardSoFar, NoEvent

\* A byte that is not the one the host sent, or that nobody sent.
LEMMA ForeignByte ==
    ASSUME LineInv, NEW byte \in Byte, FeedByte(byte), whole' = FALSE,
           rest' \in Seq(Byte), cur' \in Seq(Byte), FromHost'
    PROVE  LineInv'
<1>1. LineTypeOK /\ Sound(parser) /\ Suffix(parser.frame, tape)
  BY DEF LineInv
<1>2. /\ parser' \in Parser /\ Sound(parser') /\ Suffix(parser'.frame, tape')
      /\ event'.kind \in {"None", "Command", "Error"} /\ quiet' = FALSE
      /\ tape' \in Seq(Byte) /\ EchoIsTheFrame'
  BY <1>1, FeedByteKeeps
<1>3. QED
  BY <1>2 DEF LineInv, LineTypeOK, HeardSoFar

\* A byte of the host that arrives as sent.
LEMMA DeliverKeeps == ASSUME LineInv, Deliver PROVE LineInv'
<1>1. LineTypeOK /\ Sound(parser) /\ Suffix(parser.frame, tape) /\ FromHost
  BY DEF LineInv
<1>2. rest \in Seq(Byte) /\ cur \in Seq(Byte) /\ whole \in BOOLEAN /\ rest # <<>>
  BY <1>1 DEF LineTypeOK, Deliver
<1>3. Head(rest) \in Byte /\ Tail(rest) \in Seq(Byte) /\ Suffix(Tail(rest), cur)
  BY <1>1, <1>2, TailSuffix DEF FromHost
<1>4. FeedByte(Head(rest)) /\ rest' = Tail(rest) /\ cur' = cur /\ whole' = whole
  BY DEF Deliver
<1>5. /\ parser' \in Parser /\ Sound(parser') /\ Suffix(parser'.frame, tape')
      /\ event'.kind \in {"None", "Command", "Error"} /\ quiet' = FALSE
      /\ tape' \in Seq(Byte) /\ EchoIsTheFrame'
  BY <1>1, <1>3, <1>4, FeedByteKeeps
<1>6. FromHost'
  BY <1>1, <1>3, <1>4 DEF FromHost
<1>7. LineTypeOK'
  BY <1>2, <1>3, <1>4, <1>5 DEF LineTypeOK
<1>8. QED
  BY <1>5, <1>6, <1>7, DeliverHeard DEF LineInv

\* A byte that arrives as another.
LEMMA DamageKeeps == ASSUME LineInv, Damage PROVE LineInv'
<1>1. LineTypeOK /\ FromHost
  BY DEF LineInv
<1>2. rest \in Seq(Byte) /\ cur \in Seq(Byte) /\ rest # <<>>
  BY <1>1 DEF LineTypeOK, Damage
<1>3. Tail(rest) \in Seq(Byte) /\ Suffix(Tail(rest), cur)
  BY <1>1, <1>2, TailSuffix DEF FromHost
<1>4. rest' = Tail(rest) /\ cur' = cur /\ whole' = FALSE
  BY DEF Damage
<1>5. PICK byte \in Byte : FeedByte(byte)
  BY DEF Damage
<1>6. FromHost'
  BY <1>1, <1>3, <1>4 DEF FromHost
<1>7. QED
  BY <1>2, <1>3, <1>4, <1>5, <1>6, ForeignByte

\* A byte nobody sent.
LEMMA NoiseKeeps == ASSUME LineInv, Noise PROVE LineInv'
<1>1. rest' = <<>> /\ cur' = <<>> /\ whole' = FALSE
  BY DEF Noise
<1>2. PICK byte \in Byte : FeedByte(byte)
  BY DEF Noise
<1>3. <<>> \in Seq(Byte) /\ Suffix(<<>>, <<>>)
  BY EmptySeq, EmptySuffix
<1>4. FromHost'
  BY <1>1, <1>3 DEF FromHost
<1>5. QED
  BY <1>1, <1>2, <1>3, <1>4, ForeignByte

\* A byte that does not arrive.
LEMMA LoseKeeps == ASSUME LineInv, Lose PROVE LineInv'
<1>1. LineTypeOK /\ FromHost /\ Sound(parser) /\ Suffix(parser.frame, tape)
  BY DEF LineInv
<1>2. rest \in Seq(Byte) /\ cur \in Seq(Byte) /\ rest # <<>>
  BY <1>1 DEF LineTypeOK, Lose
<1>3. Tail(rest) \in Seq(Byte) /\ Suffix(Tail(rest), cur)
  BY <1>1, <1>2, TailSuffix DEF FromHost
<1>4. /\ rest' = Tail(rest) /\ cur' = cur /\ whole' = FALSE /\ event' = NoEvent
      /\ parser' = parser /\ quiet' = quiet /\ tape' = tape
  BY DEF Lose
<1>5. FromHost'
  BY <1>1, <1>3, <1>4 DEF FromHost
<1>6. LineTypeOK'
  BY <1>1, <1>3, <1>4 DEF LineTypeOK, NoEvent
<1>7. EchoIsTheFrame' /\ HeardSoFar'
  BY <1>4 DEF EchoIsTheFrame, HeardSoFar, NoEvent
<1>8. QED
  BY <1>1, <1>4, <1>5, <1>6, <1>7 DEF LineInv

\* The host starts a frame.
LEMMA HostStartKeeps == ASSUME LineInv, HostStart PROVE LineInv'
<1>1. LineTypeOK /\ FromHost /\ Sound(parser) /\ Suffix(parser.frame, tape)
  BY DEF LineInv
<1>2. PICK c \in HostCommands : cur' = Framed(c) /\ rest' = Framed(c)
  BY DEF HostStart
<1>3. Framed(c) \in Seq(Byte)
  BY FramedIs, LineAssumption
<1>4. /\ whole' = (quiet \/ parser.state \in {"WaitSync", "WaitCtrl"}) /\ event' = NoEvent
      /\ parser' = parser /\ quiet' = quiet /\ tape' = tape
  BY DEF HostStart
<1>5. Suffix(Framed(c), Framed(c))
  <2>1. Len(Framed(c)) \in Nat
    BY <1>3, LenProperties
  <2>2. QED
    BY <2>1 DEF Suffix
<1>6. FromHost'
  BY <1>2, <1>5 DEF FromHost
<1>7. LineTypeOK'
  BY <1>1, <1>2, <1>3, <1>4 DEF LineTypeOK, NoEvent
<1>8. EchoIsTheFrame'
  BY <1>4 DEF EchoIsTheFrame, NoEvent
<1>9. HeardSoFar'
  BY <1>2, <1>4 DEF HeardSoFar
<1>10. QED
  BY <1>1, <1>4, <1>6, <1>7, <1>8, <1>9 DEF LineInv

\* The gap after which feed_byte resets the parser.
LEMMA LineQuietKeeps == ASSUME LineInv, LineQuiet PROVE LineInv'
<1>1. LineTypeOK /\ FromHost /\ HeardSoFar /\ Sound(parser) /\ Suffix(parser.frame, tape)
  BY DEF LineInv
<1>2. ~quiet /\ quiet' = TRUE /\ event' = NoEvent /\ parser' = parser /\ tape' = tape
  BY DEF LineQuiet
<1>3. EchoIsTheFrame'
  BY <1>2 DEF EchoIsTheFrame, NoEvent
<1>4. CASE rest = cur
  <2>1. cur' = cur /\ rest' = rest /\ whole' = whole
    BY <1>4 DEF LineQuiet
  <2>2. LineTypeOK' /\ FromHost'
    BY <1>1, <1>2, <2>1 DEF LineTypeOK, FromHost, NoEvent
  <2>3. HeardSoFar'
    BY <1>2, <1>4, <2>1 DEF HeardSoFar
  <2>4. QED
    BY <1>1, <1>2, <1>3, <2>2, <2>3 DEF LineInv
<1>5. CASE rest # cur
  <2>1. cur' = <<>> /\ rest' = <<>> /\ whole' = FALSE
    BY <1>5 DEF LineQuiet
  <2>2. <<>> \in Seq(Byte) /\ Suffix(<<>>, <<>>)
    BY EmptySeq, EmptySuffix
  <2>3. LineTypeOK' /\ FromHost' /\ HeardSoFar'
    BY <1>1, <1>2, <2>1, <2>2 DEF LineTypeOK, FromHost, NoEvent, HeardSoFar
  <2>4. QED
    BY <1>1, <1>2, <1>3, <2>3 DEF LineInv
<1>6. QED
  BY <1>4, <1>5

\* The stall after which the idle branch of the read loop resets it.
LEMMA IdleTickKeeps == ASSUME LineInv, IdleTick PROVE LineInv'
<1>1. LineTypeOK /\ FromHost /\ HeardSoFar /\ Sound(parser) /\ Suffix(parser.frame, tape)
  BY DEF LineInv
<1>2. /\ quiet /\ event' = NoEvent /\ quiet' = quiet /\ cur' = cur /\ rest' = rest
      /\ whole' = whole /\ tape' = tape /\ parser' \in {parser, NewParser}
  BY DEF IdleTick, StallReset, ResetParser
<1>3. tape \in Seq(Byte) /\ parser \in Parser
  BY <1>1 DEF LineTypeOK
<1>4. parser' \in Parser /\ Sound(parser') /\ Suffix(parser'.frame, tape')
  BY <1>1, <1>2, <1>3, NewIsSound, EmptySuffix
<1>5. LineTypeOK' /\ FromHost'
  BY <1>1, <1>2, <1>4 DEF LineTypeOK, FromHost, NoEvent
<1>6. EchoIsTheFrame' /\ HeardSoFar'
  BY <1>1, <1>2 DEF EchoIsTheFrame, HeardSoFar, NoEvent
<1>7. QED
  BY <1>4, <1>5, <1>6 DEF LineInv

\* The parser of ccid-transport-serial behind feed_byte and poll_if_due: in
\* every state it holds the end of what arrived, and of a frame to which
\* nothing happened all that has arrived.
THEOREM LineInductive == LineSpec => []LineInv
<1>1. LineInv /\ [LineNext]_lineVars => LineInv'
  <2> SUFFICES ASSUME LineInv, [LineNext]_lineVars PROVE LineInv'
    OBVIOUS
  <2>1. CASE UNCHANGED lineVars
    BY <2>1 DEF lineVars, LineInv, LineTypeOK, EchoIsTheFrame, FromHost, HeardSoFar
  <2>2. QED
    BY <2>1, DeliverKeeps, DamageKeeps, NoiseKeeps, LoseKeeps, HostStartKeeps, LineQuietKeeps,
       IdleTickKeeps DEF LineNext
<1>2. QED
  BY LineStarts, <1>1, PTL DEF LineSpec

\* finish_with_command: a command is exactly what its frame says and the frame
\* is what just arrived, for any header shape, any buffer size and any checksum,
\* whatever the line does to the bytes.
THEOREM EchoAlwaysTheFrame == LineSpec => []EchoIsTheFrame
<1>1. LineInv => EchoIsTheFrame
  BY DEF LineInv
<1>2. QED
  BY LineInductive, <1>1, PTL

\* feed and the stall reset: a frame that arrives whole is heard, for any set
\* of commands of the host and whatever came before it.
THEOREM WholeFramesAreHeard == LineSpec => []WholeFrameIsHeard
<1>1. LineInv => WholeFrameIsHeard
  <2> SUFFICES ASSUME LineInv, whole, cur # <<>>, rest = <<>>, cur[2 + LengthAt] <= MaxPayload
               PROVE  event.kind = "Command" /\ parser.received = cur
    BY DEF WholeFrameIsHeard
  <2>1. QED
    BY DEF LineInv, HeardSoFar
<1>2. QED
  BY LineInductive, <1>1, PTL

-----------------------------------------------------------------------------
(* T=1 blocks: where host and endpoint are *)

Requests ==
    {SBlock("Resync", FALSE, <<>>)} \cup {SBlock("Ifs", FALSE, <<n>>) : n \in IfsValues}
Granted == SBlock("Wtx", TRUE, <<>>)

LinkTypes ==
    /\ ns \in {0, 1} /\ host_ns \in {0, 1} /\ h_ns \in {0, 1} /\ h_rns \in {0, 1}
    /\ wtx_pending \in BOOLEAN
    /\ send_ifsc \in Nat /\ send_chain \in Seq(UnitsOf(Responses))
    /\ h_left \in Seq(UnitsOf(Apdus))
    /\ losses \in Nat

\* One block is under way: to the reader the host's last one, or what is left
\* of it.
OneUnderWay ==
    /\ wire = NoBlock \/ wire = BadBlock \/ wire = h_last
    /\ wire # NoBlock => answer = NoBlock

\* The answer is staged behind a WTX request, or its last block sent was
\* last_sent.
Staged ==
    /\ wtx_pending /\ last_sent = WtxRequest /\ retry_first_frame = WtxRequest
    /\ send_chain # <<>> /\ ns = h_rns
Chunked ==
    /\ ~wtx_pending
    /\ last_sent.t = "I" /\ last_sent.ns = h_rns /\ last_sent.more \in BOOLEAN
    /\ IF last_sent.more THEN ns = h_rns /\ send_chain # <<>>
       ELSE ns = 1 - h_rns /\ send_chain = <<>>

\* Nothing is asked: the numbers agree, except that the reader may have
\* resynchronised and the host not have heard of it.
NothingAsked ==
    /\ ~wtx_pending
    /\ wire # NoBlock \/ answer # NoBlock => h_last \in Requests
    /\ \/ ns = h_rns /\ host_ns = h_ns
       \/ /\ ns = 0 /\ host_ns = 0 /\ h_last = SBlock("Resync", FALSE, <<>>)
          /\ wire # NoBlock \/ answer # NoBlock
    /\ \/ answer = NoBlock \/ (answer.t = "R" /\ answer.err = 1)
       \/ /\ answer.t = "S" /\ answer.response /\ answer.kind = h_last.kind
          /\ answer.kind = "Resync" => ns = 0 /\ host_ns = 0

\* The card has not run the APDU.
NotRun ==
    /\ ran = <<>>
    /\ host_ns = h_ns /\ ns = h_rns /\ ~wtx_pending
    /\ h_last.t = "I" /\ h_last.ns = h_ns /\ h_last.more \in BOOLEAN
    /\ answer = NoBlock \/ answer.t = "R"

\* It has: whatever the host sends again, it is given last_sent again.
HasRun ==
    /\ Len(ran) = 1
    /\ host_ns = 1 - h_ns /\ retry_ns = h_ns
    /\ Staged \/ Chunked
    /\ answer = NoBlock \/ (answer.t = "R" /\ answer.err = 1) \/ answer = last_sent
    /\ \/ /\ h_last.t = "I" /\ h_last.ns = h_ns /\ ~h_last.more
          /\ retry_first_frame = last_sent
       \/ h_last = Granted
       \/ h_last.t = "R" /\ Chunked

LinkInv ==
    /\ LinkTypes /\ OneUnderWay /\ RetryIsNotExpected
    /\ asked = <<>> => NothingAsked
    /\ asked # <<>> => NotRun \/ HasRun

\* What the fields of the blocks are.
LEMMA BlockFields ==
    /\ NoBlock.t = "none" /\ BadBlock.t = "bad"
    /\ WtxRequest.t = "S" /\ WtxRequest.kind = "Wtx" /\ ~WtxRequest.response
    /\ Granted.t = "S" /\ Granted.kind = "Wtx" /\ Granted.response
    /\ \A b \in Requests : b.t = "S" /\ ~b.response /\ b.kind \in {"Resync", "Ifs"}
BY DEF NoBlock, BadBlock, WtxRequest, Granted, Requests, SBlock

\* The same of an I-block.
LEMMA IBlockFields ==
    ASSUME NEW n, NEW more, NEW nr, NEW inf, NEW b, b = IBlock(n, more, nr, inf)
    PROVE  b.t = "I" /\ b.ns = n /\ b.more = more /\ b.inf = inf
BY DEF IBlock

\* A split of a sequence: a first part is short, a rest is empty when the
\* first part is all of it.
LEMMA RestOf ==
    ASSUME NEW S, NEW q \in Seq(S), NEW n \in 0..Len(q)
    PROVE  /\ SubSeq(q, n + 1, Len(q)) \in Seq(S)
           /\ SubSeq(q, n + 1, Len(q)) = <<>> <=> n = Len(q)
<1>1. PICK r : r = SubSeq(q, n + 1, Len(q))
  OBVIOUS
<1>2. r \in Seq(S) /\ Len(r) = Len(q) - n
  BY <1>1
<1>3. Len(q) \in Nat
  OBVIOUS
<1>4. r # <<>> => Len(r) # 0
  BY <1>2, EmptySeq, Zenon
<1>5. r = <<>> => Len(r) = 0
  BY EmptySeq, Zenon
<1>6. r = <<>> <=> n = Len(q)
  BY <1>2, <1>3, <1>4, <1>5
<1>7. QED
  BY <1>1, <1>2, <1>6

\* take_next_chain_block: a block with more to come leaves the number and
\* something to send, the last one toggles the number.
LEMMA SendsChunk ==
    ASSUME LinkTypes, ns = h_rns, NEW chain \in Seq(UnitsOf(Responses)), SendChainBlock(chain)
    PROVE  /\ send_chain' \in Seq(UnitsOf(Responses)) /\ ns' \in {0, 1} /\ reply' = last_sent'
           /\ last_sent'.t = "I" /\ last_sent'.ns = h_rns /\ last_sent'.more \in BOOLEAN
           /\ IF last_sent'.more THEN ns' = h_rns /\ send_chain' # <<>>
              ELSE ns' = 1 - h_rns /\ send_chain' = <<>>
<1>1. PICK chunk : chunk = Smaller(send_ifsc, Len(chain))
  OBVIOUS
<1>2. chunk \in 0..Len(chain)
  BY <1>1 DEF Smaller, LinkTypes
<1>3. PICK more \in BOOLEAN : more = (Len(chain) > chunk)
  <2>1. (Len(chain) > chunk) \in BOOLEAN
    BY <1>2
  <2>2. QED
    BY <2>1, Zenon
<1>4. PICK left : left = SubSeq(chain, chunk + 1, Len(chain))
  OBVIOUS
<1>5. left \in Seq(UnitsOf(Responses)) /\ (left = <<>> <=> chunk = Len(chain))
  BY <1>2, <1>4, RestOf
<1>6. left # <<>> <=> more
  <2>1. more <=> Len(chain) > chunk
    BY <1>3, Zenon
  <2>2. Len(chain) > chunk <=> chunk # Len(chain)
    BY <1>2
  <2>3. QED
    BY <1>5, <2>1, <2>2, Zenon
<1>7. /\ send_chain' = left /\ ns' = (IF more THEN ns ELSE 1 - ns) /\ reply' = last_sent'
      /\ last_sent' = IBlock(ns, more, host_ns', SubSeq(chain, 1, chunk))
  BY <1>1, <1>3, <1>4, Zenon DEF SendChainBlock
<1>8. last_sent'.t = "I" /\ last_sent'.ns = ns /\ last_sent'.more = more
  BY <1>7, IBlockFields
<1>9. last_sent'.more <=> more
  BY <1>8, Zenon
<1>10. last_sent'.more \in BOOLEAN
  BY <1>8
<1>11. QED
  BY <1>5, <1>6, <1>7, <1>8, <1>9, <1>10 DEF LinkTypes

\* A fresh endpoint and a host that has not asked.
LEMMA LinkStarts == Init => LinkInv
<1> SUFFICES ASSUME Init PROVE LinkInv
  OBVIOUS
<1>1. LinkTypes
  BY IfsAssumption, EmptySeq DEF Init, InitEndpoint, LinkTypes
<1>2. OneUnderWay /\ NothingAsked /\ RetryIsNotExpected
  BY DEF Init, InitEndpoint, OneUnderWay, NothingAsked, RetryIsNotExpected, NoNs
<1>3. QED
  BY <1>1, <1>2 DEF LinkInv, Init

\* SendPiece sends an I-block under the host's number.
LEMMA PieceFacts ==
    ASSUME NEW units \in Seq(UnitsOf(Apdus)), SendPiece(units)
    PROVE  /\ wire' = h_last' /\ h_last'.t = "I" /\ h_last'.ns = h_ns
           /\ h_last'.more \in BOOLEAN /\ h_last' # NoBlock
           /\ h_left' \in Seq(UnitsOf(Apdus))
<1>1. PICK size : size = Smaller(PieceSize, Len(units))
  OBVIOUS
<1>2. size \in 0..Len(units)
  BY <1>1, LinkAssumption DEF Smaller
<1>3. (Len(units) > size) \in BOOLEAN
  BY <1>2
<1>4. wire' = h_last' /\ h_last' = IBlock(h_ns, Len(units) > size, h_rns, SubSeq(units, 1, size))
  BY <1>1, Zenon DEF SendPiece, HostSend
<1>5. h_last'.t = "I" /\ h_last'.ns = h_ns /\ h_last'.more = (Len(units) > size)
  BY <1>4, IBlockFields
<1>6. h_last' # NoBlock
  BY <1>5 DEF NoBlock
<1>7. h_left' \in Seq(UnitsOf(Apdus))
  <2>1. h_left' = SubSeq(units, size + 1, Len(units))
    BY <1>1, Zenon DEF SendPiece
  <2>2. QED
    BY <1>2, <2>1, RestOf
<1>8. QED
  BY <1>3, <1>4, <1>5, <1>6, <1>7

\* The host asks when nothing is under way.
LEMMA AskKeeps == ASSUME LinkInv, NEW a \in Apdus, HostAsk(a) PROVE LinkInv'
<1>1. a # <<>> /\ a \in Seq(UnitsOf(Apdus))
  BY LinkAssumption
<1>2. NothingAsked /\ wire = NoBlock /\ answer = NoBlock
  BY DEF LinkInv, HostAsk, HostIdle
<1>3. /\ wire' = h_last' /\ h_last'.t = "I" /\ h_last'.ns = h_ns
      /\ h_last'.more \in BOOLEAN /\ h_last' # NoBlock /\ h_left' \in Seq(UnitsOf(Apdus))
  BY <1>1, PieceFacts DEF HostAsk
<1>4. LinkTypes' /\ RetryIsNotExpected'
  BY <1>3 DEF LinkInv, LinkTypes, RetryIsNotExpected, HostAsk, t1Vars
<1>5. OneUnderWay'
  BY <1>2, <1>3 DEF OneUnderWay, HostAsk
<1>6. NotRun'
  BY <1>2, <1>3 DEF NothingAsked, NotRun, HostAsk, t1Vars
<1>7. QED
  BY <1>1, <1>4, <1>5, <1>6 DEF LinkInv, HostAsk

\* It negotiates then too.
LEMMA NegotiateKeeps == ASSUME LinkInv, NEW b \in Requests, HostNegotiate(b) PROVE LinkInv'
<1>1. NothingAsked /\ wire = NoBlock /\ answer = NoBlock /\ asked = <<>>
  BY DEF LinkInv, HostNegotiate, HostIdle
<1>2. wire' = b /\ h_last' = b /\ UNCHANGED <<t1Vars, appVars, h_ns, h_rns, h_left, answer, losses>>
  BY DEF HostNegotiate, HostSend
<1>3. LinkTypes' /\ RetryIsNotExpected' /\ OneUnderWay'
  BY <1>1, <1>2 DEF LinkInv, LinkTypes, RetryIsNotExpected, OneUnderWay, t1Vars
<1>4. NothingAsked'
  BY <1>1, <1>2 DEF NothingAsked, t1Vars
<1>5. QED
  BY <1>1, <1>2, <1>3, <1>4 DEF LinkInv, appVars

\* A lost block: the host sends its last one again.
LEMMA LostBlockKeeps == ASSUME LinkInv, LoseBlock PROVE LinkInv'
<1>1. wire # NoBlock \/ answer # NoBlock
  BY DEF LoseBlock
<1>2. wire' = h_last /\ h_last' = h_last /\ answer' = NoBlock /\ UNCHANGED <<t1Vars, appVars, hostVars>>
  BY DEF LoseBlock, hostVars
<1>3. LinkTypes' /\ RetryIsNotExpected' /\ OneUnderWay'
  BY <1>2 DEF LinkInv, LoseBlock, LinkTypes, RetryIsNotExpected, OneUnderWay, t1Vars, hostVars
<1>4. CASE asked = <<>>
  <2>1. NothingAsked /\ h_last \in Requests
    BY <1>1, <1>4 DEF LinkInv, NothingAsked
  <2>2. h_last # NoBlock
    BY <2>1, BlockFields
  <2>3. NothingAsked'
    BY <1>2, <2>1, <2>2 DEF NothingAsked, t1Vars, hostVars
  <2>4. QED
    BY <1>2, <1>3, <1>4, <2>3 DEF LinkInv, appVars
<1>5. CASE asked # <<>>
  <2>1. NotRun => NotRun'
    BY <1>2 DEF NotRun, t1Vars, hostVars, appVars
  <2>2. HasRun => HasRun'
    BY <1>2 DEF HasRun, Staged, Chunked, t1Vars, hostVars, appVars
  <2>3. QED
    BY <1>2, <1>3, <1>5, <2>1, <2>2 DEF LinkInv, appVars
<1>6. QED
  BY <1>4, <1>5

\* A damaged block changes nothing at either end.
LEMMA DamagedBlockKeeps == ASSUME LinkInv, DamageBlock PROVE LinkInv'
<1>1. /\ wire # NoBlock /\ wire' = BadBlock /\ wire' # NoBlock /\ answer' = answer /\ answer = NoBlock
      /\ UNCHANGED <<t1Vars, appVars, hostVars>>
  BY DEF LinkInv, OneUnderWay, DamageBlock, NoBlock, BadBlock
<1>2. LinkTypes' /\ RetryIsNotExpected' /\ OneUnderWay'
  BY <1>1 DEF LinkInv, DamageBlock, LinkTypes, RetryIsNotExpected, OneUnderWay, t1Vars, hostVars
<1>3. NothingAsked => NothingAsked'
  BY <1>1 DEF NothingAsked, t1Vars, hostVars
<1>4. NotRun => NotRun'
  BY <1>1 DEF NotRun, t1Vars, hostVars, appVars
<1>5. HasRun => HasRun'
  BY <1>1 DEF HasRun, Staged, Chunked, t1Vars, hostVars, appVars
<1>6. QED
  BY <1>1, <1>2, <1>3, <1>4, <1>5 DEF LinkInv, appVars

\* The host takes an R-block: it goes on with its APDU, or repeats itself.
LEMMA HostTakesR ==
    ASSUME LinkInv, answer.t = "R", HostReceive
    PROVE  LinkInv'
<1>1. answer' = NoBlock /\ UNCHANGED <<t1Vars, losses>> /\ (HostAcknowledged \/ HostRepeats)
  BY DEF HostReceive, HostGrantsWtx, HostNegotiated, HostTakesChunk, HostCompletes, WtxRequest, SBlock
<1>2. UNCHANGED <<appVars, h_ns, h_rns>>
  BY <1>1 DEF HostAcknowledged, HostRepeats
<1>3. answer # NoBlock
  BY DEF NoBlock
<1>4. CASE HostRepeats
  <2>1. wire' = h_last /\ h_last' = h_last /\ h_left' = h_left
    BY <1>4 DEF HostRepeats, HostSend
  <2>2. LinkTypes' /\ RetryIsNotExpected' /\ OneUnderWay'
    BY <1>1, <1>2, <2>1 DEF LinkInv, LinkTypes, RetryIsNotExpected, OneUnderWay, t1Vars
  <2>3. NothingAsked => NothingAsked'
    <3>1. NothingAsked => h_last \in Requests
      BY <1>3 DEF NothingAsked
    <3>2. NothingAsked => h_last # NoBlock
      BY <3>1, BlockFields
    <3>3. QED
      BY <1>1, <1>2, <2>1, <3>1, <3>2 DEF NothingAsked, t1Vars
  <2>4. NotRun => NotRun'
    BY <1>1, <1>2, <2>1 DEF NotRun, t1Vars, appVars
  <2>5. HasRun => HasRun'
    BY <1>1, <1>2, <2>1 DEF HasRun, Staged, Chunked, t1Vars, appVars
  <2>6. QED
    BY <1>2, <2>2, <2>3, <2>4, <2>5 DEF LinkInv, appVars
<1>5. CASE HostAcknowledged
  <2>1. answer.err = 0 /\ SendPiece(h_left)
    BY <1>5 DEF HostAcknowledged
  <2>2. asked # <<>> /\ NotRun
    <3>1. last_sent.t = "R" => ~Staged /\ ~Chunked
      BY BlockFields DEF Staged, Chunked
    <3>2. ~NothingAsked
      <4>1. answer.err # 1 /\ answer.t # "S"
        BY <2>1
      <4>2. QED
        BY <1>3, <4>1, Zenon DEF NothingAsked
    <3>3. ~HasRun
      BY <1>3, <2>1, <3>1 DEF HasRun
    <3>4. QED
      BY <3>2, <3>3 DEF LinkInv
  <2>3. /\ wire' = h_last' /\ h_last'.t = "I" /\ h_last'.ns = h_ns
        /\ h_last'.more \in BOOLEAN /\ h_last' # NoBlock /\ h_left' \in Seq(UnitsOf(Apdus))
    BY <2>1, PieceFacts DEF LinkInv, LinkTypes
  <2>4. LinkTypes' /\ RetryIsNotExpected' /\ OneUnderWay'
    BY <1>1, <1>2, <2>3 DEF LinkInv, LinkTypes, RetryIsNotExpected, OneUnderWay, t1Vars
  <2>5. NotRun'
    BY <1>1, <1>2, <2>2, <2>3 DEF NotRun, t1Vars, appVars
  <2>6. QED
    BY <1>2, <2>2, <2>4, <2>5 DEF LinkInv, appVars
<1>6. QED
  BY <1>1, <1>4, <1>5

\* The host takes any other block: it has an answer of the endpoint.
LEMMA HostTakesOther ==
    ASSUME LinkInv, answer.t # "R", HostReceive
    PROVE  LinkInv'
<1>1. /\ answer' = NoBlock /\ answer # NoBlock /\ UNCHANGED <<t1Vars, losses>>
      /\ HostGrantsWtx \/ HostNegotiated \/ HostTakesChunk \/ HostCompletes
  BY DEF HostReceive, HostAcknowledged, HostRepeats
<1>2. WtxRequest.t = "S" /\ ~WtxRequest.response /\ WtxRequest.kind = "Wtx"
  BY BlockFields
<1>3. CASE asked = <<>>
  <2>1. /\ NothingAsked /\ answer.t = "S" /\ answer.response /\ answer.kind = h_last.kind
        /\ answer.kind = "Resync" => ns = 0 /\ host_ns = 0
        /\ h_last \in Requests
    BY <1>1, <1>3 DEF LinkInv, NothingAsked
  <2>2. HostNegotiated
    BY <1>1, <1>2, <2>1 DEF HostGrantsWtx, HostTakesChunk, HostCompletes
  <2>3. /\ wire' = NoBlock /\ UNCHANGED <<appVars, h_left, h_last>>
        /\ h_ns' = (IF answer.kind = "Resync" THEN 0 ELSE h_ns)
        /\ h_rns' = (IF answer.kind = "Resync" THEN 0 ELSE h_rns)
    BY <2>2 DEF HostNegotiated
  <2>4. SBlock("Resync", FALSE, <<>>).kind = "Resync"
    BY DEF SBlock
  <2>5. LinkTypes' /\ RetryIsNotExpected' /\ OneUnderWay'
    BY <1>1, <2>3 DEF LinkInv, LinkTypes, RetryIsNotExpected, OneUnderWay, t1Vars
  <2>6. NothingAsked'
    BY <1>1, <2>1, <2>3, <2>4 DEF NothingAsked, t1Vars
  <2>7. QED
    BY <1>3, <2>3, <2>5, <2>6 DEF LinkInv, appVars
<1>4. CASE asked # <<>>
  <2>1. HasRun /\ answer = last_sent
    BY <1>1, <1>4 DEF LinkInv, NotRun, HasRun
  <2>2. CASE Staged
    <3>1. HostGrantsWtx
      BY <1>1, <1>2, <2>1, <2>2 DEF Staged, HostNegotiated, HostTakesChunk, HostCompletes
    <3>2. /\ wire' = Granted /\ h_last' = Granted /\ UNCHANGED <<appVars, h_ns, h_rns, h_left>>
      BY <3>1 DEF HostGrantsWtx, HostSend, Granted
    <3>3. LinkTypes' /\ RetryIsNotExpected' /\ OneUnderWay'
      BY <1>1, <3>2 DEF LinkInv, LinkTypes, RetryIsNotExpected, OneUnderWay, t1Vars
    <3>4. HasRun'
      BY <1>1, <2>1, <2>2, <3>2 DEF HasRun, Staged, Granted, t1Vars, appVars
    <3>5. QED
      BY <1>4, <3>2, <3>3, <3>4 DEF LinkInv, appVars
  <2>3. CASE Chunked
    <3>1. answer.t = "I" /\ answer.more \in BOOLEAN /\ (HostTakesChunk \/ HostCompletes)
      BY <1>1, <1>2, <2>1, <2>3 DEF Chunked, HostNegotiated, HostGrantsWtx
    <3>2. CASE HostTakesChunk
      <4>1. /\ wire' = h_last' /\ h_last' = RBlock(h_rns, 0) /\ UNCHANGED <<appVars, h_ns, h_rns, h_left>>
        BY <3>2 DEF HostTakesChunk, HostSend
      <4>2. h_last'.t = "R"
        BY <4>1 DEF RBlock
      <4>3. LinkTypes' /\ RetryIsNotExpected' /\ OneUnderWay'
        BY <1>1, <4>1 DEF LinkInv, LinkTypes, RetryIsNotExpected, OneUnderWay, t1Vars
      <4>4. Chunked'
        BY <1>1, <2>3, <4>1 DEF Chunked, t1Vars
      <4>5. HasRun'
        BY <1>1, <2>1, <4>1, <4>2, <4>4 DEF HasRun, t1Vars, appVars
      <4>6. QED
        BY <1>4, <4>1, <4>3, <4>5 DEF LinkInv, appVars
    <3>3. CASE HostCompletes
      <4>1. /\ ~answer.more /\ asked' = <<>> /\ h_ns' = 1 - h_ns /\ h_rns' = 1 - h_rns /\ wire' = NoBlock
            /\ UNCHANGED <<h_left, h_last>>
        BY <3>3 DEF HostCompletes
      <4>2. ns = 1 - h_rns /\ host_ns = 1 - h_ns /\ ~wtx_pending
        BY <2>1, <2>3, <4>1 DEF Chunked, HasRun
      <4>3. LinkTypes' /\ RetryIsNotExpected' /\ OneUnderWay'
        BY <1>1, <4>1 DEF LinkInv, LinkTypes, RetryIsNotExpected, OneUnderWay, t1Vars
      <4>4. NothingAsked'
        BY <1>1, <4>1, <4>2 DEF NothingAsked, t1Vars
      <4>5. QED
        BY <4>1, <4>3, <4>4 DEF LinkInv
    <3>4. QED
      BY <3>1, <3>2, <3>3
  <2>4. QED
    BY <2>1, <2>2, <2>3 DEF HasRun
<1>5. QED
  BY <1>3, <1>4

\* What every step of the reader does: it takes the block on the wire and
\* gives its reply to the host.
BlockFed ==
    /\ wire # NoBlock /\ wire' = NoBlock /\ answer' = reply'
    /\ UNCHANGED <<asked, got, hostVars, losses>>

\* A reply that leaves the endpoint as it was, the chain being received aside.
LEMMA ReplyKeeps ==
    ASSUME LinkInv, BlockFed, ran' = ran,
           UNCHANGED <<ns, host_ns, send_ifsc, send_chain, last_sent, wtx_pending, retry_ns,
                       retry_first_frame>>,
           asked = <<>> => reply'.t = "R" /\ reply'.err = 1,
           asked # <<>> /\ NotRun => reply'.t = "R",
           asked # <<>> /\ HasRun => (reply'.t = "R" /\ reply'.err = 1) \/ reply' = last_sent
    PROVE  LinkInv'
<1>1. LinkTypes' /\ RetryIsNotExpected'
  BY DEF LinkInv, LinkTypes, RetryIsNotExpected, BlockFed, hostVars
<1>2. OneUnderWay'
  BY DEF OneUnderWay, BlockFed
<1>3. CASE asked = <<>>
  <2>1. NothingAsked /\ h_last \in Requests /\ reply'.t = "R" /\ reply'.err = 1
    BY <1>3 DEF LinkInv, NothingAsked, BlockFed
  <2>2. reply' # NoBlock
    BY <2>1 DEF NoBlock
  <2>3. NothingAsked'
    BY <2>1, <2>2 DEF NothingAsked, BlockFed, hostVars
  <2>4. QED
    BY <1>1, <1>2, <1>3, <2>3 DEF LinkInv, BlockFed
<1>4. CASE asked # <<>> /\ NotRun
  <2>1. NotRun'
    BY <1>4 DEF NotRun, BlockFed, hostVars
  <2>2. QED
    BY <1>1, <1>2, <1>4, <2>1 DEF LinkInv, BlockFed
<1>5. CASE asked # <<>> /\ HasRun
  <2>1. HasRun'
    BY <1>5 DEF HasRun, Staged, Chunked, BlockFed, hostVars
  <2>2. QED
    BY <1>1, <1>2, <1>5, <2>1 DEF LinkInv, BlockFed
<1>6. QED
  BY <1>3, <1>4, <1>5 DEF LinkInv

\* A damaged block is refused.
LEMMA BadBlockKeeps ==
    ASSUME LinkInv, BlockFed, ran' = ran, wire = BadBlock, FeedLocal(wire)
    PROVE  LinkInv'
<1>1. RefuseBlock
  BY BlockFields DEF FeedLocal
<1>2. reply'.t = "R" /\ reply'.err = 1
  BY <1>1 DEF RefuseBlock, RBlock
<1>3. QED
  BY <1>1, <1>2, ReplyKeeps DEF RefuseBlock

\* A request of an idle host.
LEMMA RequestKeeps ==
    ASSUME LinkInv, BlockFed, ran' = ran, wire = h_last, asked = <<>>, FeedLocal(wire)
    PROVE  LinkInv'
<1>1. NothingAsked /\ h_last \in Requests
  BY DEF LinkInv, NothingAsked, BlockFed
<1>2. PICK b : b = h_last
  OBVIOUS
<1>3. b.t = "S" /\ ~b.response /\ b.kind \in {"Resync", "Ifs"} /\ b \in Requests
  BY <1>1, <1>2, BlockFields
<1>4. \/ b.kind = "Resync" /\ FeedResync
      \/ b.kind = "Ifs" /\ FeedIfs(b)
  BY <1>2, <1>3 DEF FeedLocal, FeedS
<1>5. OneUnderWay'
  BY DEF OneUnderWay, BlockFed
<1>6. CASE b.kind = "Resync" /\ FeedResync
  <2>1. reply'.t = "S" /\ reply'.kind = "Resync" /\ reply'.response
    BY <1>6 DEF FeedResync, SBlock
  <2>2. reply' # NoBlock
    BY <2>1 DEF NoBlock
  <2>3. b = SBlock("Resync", FALSE, <<>>)
    BY <1>3, <1>6 DEF Requests, SBlock
  <2>4. LinkTypes' /\ RetryIsNotExpected'
    <3>1. /\ ns' = 0 /\ host_ns' = 0 /\ send_chain' = <<>> /\ wtx_pending' = FALSE /\ retry_ns' = NoNs
          /\ UNCHANGED <<send_ifsc, h_ns, h_rns, h_left, losses>>
      BY <1>6 DEF FeedResync, BlockFed, hostVars
    <3>2. <<>> \in Seq(UnitsOf(Responses))
      BY EmptySeq
    <3>3. LinkTypes'
      BY <3>1, <3>2 DEF LinkInv, LinkTypes
    <3>4. QED
      BY <3>1, <3>3 DEF RetryIsNotExpected, NoNs
  <2>5. NothingAsked'
    BY <1>1, <1>2, <1>6, <2>1, <2>2, <2>3 DEF NothingAsked, FeedResync, BlockFed, hostVars
  <2>6. QED
    BY <1>5, <2>4, <2>5 DEF LinkInv, BlockFed
<1>7. CASE b.kind = "Ifs" /\ FeedIfs(b)
  <2>1. reply'.t = "S" /\ reply'.kind = "Ifs" /\ reply'.response
    BY <1>7 DEF FeedIfs, SBlock
  <2>2. reply' # NoBlock
    BY <2>1 DEF NoBlock
  <2>3. PICK n \in IfsValues : b.inf = <<n>>
    BY <1>3, <1>7 DEF Requests, SBlock
  <2>4. send_ifsc' \in Nat
    BY <1>7, <2>3, IfsAssumption, LinkAssumption DEF FeedIfs, Smaller
  <2>5. LinkTypes' /\ RetryIsNotExpected'
    BY <1>7, <2>4 DEF LinkInv, LinkTypes, RetryIsNotExpected, FeedIfs, BlockFed, hostVars
  <2>6. SBlock("Resync", FALSE, <<>>).kind = "Resync"
    BY DEF SBlock
  <2>7. NothingAsked'
    BY <1>1, <1>2, <1>7, <2>1, <2>2, <2>6 DEF NothingAsked, FeedIfs, BlockFed, hostVars
  <2>8. QED
    BY <1>5, <2>5, <2>7 DEF LinkInv, BlockFed
<1>8. QED
  BY <1>4, <1>6, <1>7

\* A block of an APDU that the card has not run.
LEMMA PieceKeeps ==
    ASSUME LinkInv, BlockFed, ran' = ran, wire = h_last, asked # <<>>, NotRun, FeedLocal(wire)
    PROVE  LinkInv'
<1>1. wire.t = "I" /\ wire.ns = host_ns
  BY DEF NotRun
<1>2. FeedOversize(wire) \/ FeedPiece(wire)
  BY <1>1 DEF FeedLocal, FeedOutOfSequence
<1>3. reply'.t = "R"
  BY <1>2 DEF FeedOversize, FeedPiece, RefuseBlock, RBlock
<1>4. ~HasRun
  <2>1. Len(<<>>) = 0
    OBVIOUS
  <2>2. QED
    BY <2>1 DEF NotRun, HasRun
<1>5. QED
  BY <1>2, <1>3, <1>4, ReplyKeeps DEF FeedOversize, FeedPiece, RefuseBlock

\* Another block of the answer is sent.
LEMMA ChunkKeeps ==
    ASSUME LinkInv, BlockFed, ran' = ran, asked # <<>>, HasRun, ns = h_rns,
           SendChainBlock(send_chain), wtx_pending' = FALSE,
           UNCHANGED <<host_ns, send_ifsc, retry_ns>>, h_last.t # "I"
    PROVE  LinkInv'
<1>1. send_chain \in Seq(UnitsOf(Responses)) /\ LinkTypes
  BY DEF LinkInv, LinkTypes
<1>2. /\ send_chain' \in Seq(UnitsOf(Responses)) /\ ns' \in {0, 1} /\ reply' = last_sent'
      /\ last_sent'.t = "I" /\ last_sent'.ns = h_rns /\ last_sent'.more \in BOOLEAN
      /\ IF last_sent'.more THEN ns' = h_rns /\ send_chain' # <<>>
         ELSE ns' = 1 - h_rns /\ send_chain' = <<>>
  BY <1>1, SendsChunk
<1>3. LinkTypes' /\ RetryIsNotExpected'
  BY <1>2 DEF LinkInv, LinkTypes, RetryIsNotExpected, BlockFed, hostVars
<1>4. OneUnderWay'
  BY DEF OneUnderWay, BlockFed
<1>5. Chunked'
  BY <1>2 DEF Chunked, BlockFed, hostVars
<1>6. HasRun'
  BY <1>2, <1>5 DEF HasRun, BlockFed, hostVars
<1>7. QED
  BY <1>3, <1>4, <1>6 DEF LinkInv, BlockFed

\* A block of the host after the card has run the APDU: the answer again, or
\* the next block of it.
LEMMA AfterRunKeeps ==
    ASSUME LinkInv, BlockFed, ran' = ran, wire = h_last, asked # <<>>, HasRun, FeedLocal(wire)
    PROVE  LinkInv'
<1>1. last_sent # NoBlock /\ last_sent.t # "none"
  BY BlockFields DEF HasRun, Staged, Chunked
<1>2. ~NotRun
  <2>1. Len(<<>>) = 0
    OBVIOUS
  <2>2. QED
    BY <2>1 DEF NotRun, HasRun
<1>3. ASSUME ReplyOnly(last_sent) PROVE LinkInv'
  BY <1>2, <1>3, ReplyKeeps DEF ReplyOnly
<1>4. CASE h_last.t = "I" /\ h_last.ns = h_ns /\ ~h_last.more /\ retry_first_frame = last_sent
  <2>1. h_ns # host_ns /\ retry_ns = h_ns
    BY DEF HasRun, LinkInv, LinkTypes
  <2>2. FeedOutOfSequence(wire)
    BY <1>4, <2>1 DEF FeedLocal, FeedOversize, FeedPiece
  <2>3. ReplyOnly(last_sent)
    BY <1>1, <1>4, <2>1, <2>2, Zenon DEF FeedOutOfSequence
  <2>4. QED
    BY <1>3, <2>3
<1>5. CASE h_last = Granted
  <2>1. wire.t = "S" /\ wire.response /\ wire.kind = "Wtx"
    BY <1>5, BlockFields
  <2>2. CASE wtx_pending
    <3>1. Staged
      BY <2>2 DEF HasRun, Chunked
    <3>2. FeedWtxGranted
      BY <2>1, <2>2 DEF FeedLocal, FeedS
    <3>3. /\ SendChainBlock(send_chain) /\ wtx_pending' = FALSE
          /\ UNCHANGED <<host_ns, send_ifsc, retry_ns>>
      BY <3>1, <3>2 DEF Staged, FeedWtxGranted
    <3>4. QED
      BY <2>1, <3>1, <3>3, ChunkKeeps DEF Staged
  <2>3. CASE ~wtx_pending
    <3>1. FeedUnsolicitedResponse
      BY <2>1, <2>3 DEF FeedLocal, FeedS, FeedWtxGranted
    <3>2. QED
      BY <1>1, <1>3, <3>1 DEF FeedUnsolicitedResponse
  <2>4. QED
    BY <2>2, <2>3
<1>6. CASE h_last.t = "R" /\ Chunked
  <2>1. FeedR /\ ~wtx_pending
    BY <1>6 DEF FeedLocal, Chunked
  <2>2. CASE send_chain = <<>>
    BY <1>1, <1>3, <2>1, <2>2 DEF FeedR
  <2>3. CASE send_chain # <<>>
    <3>1. ns = h_rns
      BY <1>6, <2>3 DEF Chunked
    <3>2. SendChainBlock(send_chain) /\ wtx_pending' = FALSE /\ UNCHANGED <<host_ns, send_ifsc, retry_ns>>
      BY <2>1, <2>3 DEF FeedR
    <3>3. QED
      BY <1>6, <3>1, <3>2, ChunkKeeps
  <2>4. QED
    BY <2>2, <2>3
<1>7. QED
  BY <1>4, <1>5, <1>6 DEF HasRun

\* The block that completes the APDU: the card runs it.
LEMMA RelayKeeps ==
    ASSUME LinkInv, NEW rsp \in Responses, NEW slow \in BOOLEAN, wire # NoBlock, ReaderRelays(rsp, slow)
    PROVE  LinkInv'
<1>1. wire.t = "I" /\ wire.ns = host_ns /\ ~wire.more /\ host_ns' = 1 - host_ns
      /\ CardResponse(rsp, slow) /\ UNCHANGED send_ifsc
  BY DEF ReaderRelays, FeedFinal
<1>2. BlockFed /\ Len(ran') = Len(ran) + 1
  BY DEF ReaderRelays, BlockFed
<1>3. wire = h_last
  BY <1>1, BlockFields DEF LinkInv, OneUnderWay
<1>4. asked # <<>>
  <2>1. asked = <<>> => h_last \in Requests
    BY DEF LinkInv, NothingAsked
  <2>2. QED
    BY <1>1, <1>3, <2>1, BlockFields
<1>5. NotRun
  <2>1. ~HasRun
    BY <1>1, <1>3 DEF HasRun, Granted, SBlock, LinkInv, LinkTypes
  <2>2. QED
    BY <1>4, <2>1 DEF LinkInv
<1>6. rsp # <<>> /\ rsp \in Seq(UnitsOf(Responses))
  BY LinkAssumption
<1>7. /\ host_ns' = 1 - h_ns /\ retry_ns' = h_ns /\ ns = h_rns /\ retry_first_frame' = reply'
      /\ Len(ran') = 1
  BY <1>1, <1>2, <1>5 DEF NotRun, CardResponse, LinkInv, LinkTypes
<1>8. OneUnderWay'
  BY <1>2 DEF OneUnderWay, BlockFed
<1>9. CASE slow
  <2>1. Staged' /\ reply' = last_sent'
    BY <1>1, <1>2, <1>6, <1>7, <1>9 DEF CardResponse, Staged, BlockFed, hostVars
  <2>2. LinkTypes' /\ RetryIsNotExpected'
    BY <1>1, <1>2, <1>6, <1>7, <1>9 DEF CardResponse, LinkInv, LinkTypes, RetryIsNotExpected, BlockFed, hostVars
  <2>3. HasRun'
    BY <1>1, <1>2, <1>3, <1>5, <1>7, <2>1 DEF HasRun, NotRun, BlockFed, hostVars
  <2>4. QED
    BY <1>2, <1>4, <1>8, <2>2, <2>3 DEF LinkInv, BlockFed
<1>10. CASE ~slow
  <2>1. SendChainBlock(rsp) /\ UNCHANGED wtx_pending
    BY <1>1, <1>6, <1>10 DEF CardResponse
  <2>2. LinkTypes
    BY DEF LinkInv
  <2>3. /\ send_chain' \in Seq(UnitsOf(Responses)) /\ ns' \in {0, 1} /\ reply' = last_sent'
        /\ last_sent'.t = "I" /\ last_sent'.ns = h_rns /\ last_sent'.more \in BOOLEAN
        /\ IF last_sent'.more THEN ns' = h_rns /\ send_chain' # <<>>
           ELSE ns' = 1 - h_rns /\ send_chain' = <<>>
    BY <1>6, <1>7, <2>1, <2>2, SendsChunk
  <2>4. LinkTypes' /\ RetryIsNotExpected'
    BY <1>1, <1>2, <1>7, <2>1, <2>2, <2>3 DEF LinkTypes, RetryIsNotExpected, BlockFed, hostVars
  <2>5. Chunked'
    BY <1>2, <1>5, <2>1, <2>3 DEF Chunked, NotRun, BlockFed, hostVars
  <2>6. HasRun'
    BY <1>1, <1>2, <1>3, <1>5, <1>7, <2>3, <2>5 DEF HasRun, NotRun, BlockFed, hostVars
  <2>7. QED
    BY <1>2, <1>4, <1>8, <2>4, <2>6 DEF LinkInv, BlockFed
<1>11. QED
  BY <1>9, <1>10

\* The reader's steps keep the invariant: a block answered by the endpoint,
\* or relayed to the card.
LEMMA ReaderKeeps == ASSUME LinkInv, Reader PROVE LinkInv'
<1>1. CASE ReaderLocal
  <2>1. BlockFed /\ ran' = ran /\ FeedLocal(wire)
    BY <1>1 DEF ReaderLocal, BlockFed, appVars
  <2>2. wire = BadBlock \/ wire = h_last
    BY <2>1 DEF LinkInv, OneUnderWay, BlockFed
  <2>3. asked = <<>> \/ NotRun \/ HasRun
    BY DEF LinkInv
  <2>4. QED
    BY <2>1, <2>2, <2>3, BadBlockKeeps, RequestKeeps, PieceKeeps, AfterRunKeeps
<1>2. ASSUME NEW rsp \in Responses, NEW slow \in BOOLEAN, ReaderRelays(rsp, slow) PROVE LinkInv'
  <2>1. wire # NoBlock
    BY <1>2, BlockFields DEF ReaderRelays
  <2>2. QED
    BY <1>2, <2>1, RelayKeeps
<1>3. QED
  BY <1>1, <1>2 DEF Reader

\* Every step of host, reader and line keeps it.
LEMMA LinkKeeps == LinkInv /\ [Next]_vars => LinkInv'
<1> SUFFICES ASSUME LinkInv, [Next]_vars PROVE LinkInv'
  OBVIOUS
<1>1. ASSUME NEW a \in Apdus, HostAsk(a) PROVE LinkInv'
  BY <1>1, AskKeeps
<1>2. ASSUME NEW n \in IfsValues, HostNegotiate(SBlock("Ifs", FALSE, <<n>>)) PROVE LinkInv'
  BY <1>2, NegotiateKeeps DEF Requests
<1>3. CASE HostNegotiate(SBlock("Resync", FALSE, <<>>))
  BY <1>3, NegotiateKeeps DEF Requests
<1>4. CASE HostReceive
  BY <1>4, HostTakesR, HostTakesOther
<1>5. CASE Reader
  BY <1>5, ReaderKeeps
<1>6. CASE LoseBlock
  BY <1>6, LostBlockKeeps
<1>7. CASE DamageBlock
  BY <1>7, DamagedBlockKeeps
<1>8. CASE UNCHANGED vars
  <2>1. UNCHANGED <<t1Vars, appVars, hostVars, linkVars>>
    BY <1>8 DEF vars
  <2>2. LinkTypes' /\ OneUnderWay' /\ RetryIsNotExpected'
    BY <2>1 DEF LinkInv, LinkTypes, OneUnderWay, RetryIsNotExpected, t1Vars, hostVars, linkVars
  <2>3. asked' = asked /\ (NothingAsked' <=> NothingAsked) /\ (NotRun' <=> NotRun)
    BY <2>1, Zenon DEF NothingAsked, NotRun, t1Vars, appVars, hostVars, linkVars
  <2>4. HasRun' <=> HasRun
    BY <2>1, Zenon DEF HasRun, Staged, Chunked, t1Vars, appVars, hostVars, linkVars
  <2>5. QED
    BY <2>2, <2>3, <2>4 DEF LinkInv
<1>9. QED
  BY <1>1, <1>2, <1>3, <1>4, <1>5, <1>6, <1>7, <1>8 DEF Next

\* The control invariant of the link, for any APDUs, answers, block sizes and
\* any number of lost and damaged blocks: where host and endpoint are in an
\* exchange, a WTX or a negotiation (T1Endpoint::feed).
THEOREM LinkInductive == Spec => []LinkInv
<1>1. QED
  BY LinkStarts, LinkKeeps, PTL DEF Spec

\* Host and endpoint agree on the block in flight whatever the line does,
\* chains included, and the number that serves the retry cache is never the
\* one expected next (T1Endpoint::feed, on_s_response, retry_ns).
THEOREM BlocksAlwaysAgree == Spec => [](BlocksAgree /\ RetryIsNotExpected)
<1>1. LinkInv => BlocksAgree /\ RetryIsNotExpected
  <2> SUFFICES ASSUME LinkInv PROVE BlocksAgree /\ RetryIsNotExpected
    OBVIOUS
  <2>1. asked = <<>> => answer.t # "I"
    BY BlockFields DEF LinkInv, NothingAsked
  <2>2. asked # <<>> /\ answer.t = "I" => answer = last_sent /\ HasRun
    BY BlockFields DEF LinkInv, NotRun, HasRun
  <2>3. asked # <<>> /\ answer.t = "I" => answer.ns = h_rns
    BY <2>2, BlockFields DEF HasRun, Staged, Chunked
  <2>4. wtx_pending => Staged
    BY DEF LinkInv, NothingAsked, NotRun, HasRun, Chunked
  <2>5. QED
    BY <2>1, <2>3, <2>4 DEF LinkInv, BlocksAgree, SequenceNumbersAgree, WtxHoldsAnswer, Staged
<1>2. QED
  BY <1>1, LinkInductive, PTL

\* The card runs no APDU twice, whatever is lost, damaged and sent again: the
\* retry cache answers for it (retry_first_frame).
THEOREM NothingRunsTwice == Spec => [](asked # <<>> => Len(ran) <= 1)
<1>1. LinkInv => (asked # <<>> => Len(ran) <= 1)
  <2>1. NotRun => Len(ran) <= 1
    BY DEF NotRun
  <2>2. HasRun => Len(ran) <= 1
    BY DEF HasRun
  <2>3. LinkInv /\ asked # <<>> => NotRun \/ HasRun
    BY Zenon DEF LinkInv
  <2>4. QED
    BY <2>1, <2>2, <2>3, Zenon
<1>2. QED
  BY <1>1, LinkInductive, PTL

-----------------------------------------------------------------------------
(* What the blocks carry *)

\* An exchange that loses blocks fits into one block each way.
OneBlock ==
    /\ MaxLossy \in Nat /\ MaxLossy <= PieceSize /\ MaxLossy <= DefaultIfs
    /\ \A n \in IfsValues : MaxLossy <= n

Acked == answer.t = "R" /\ answer.err = 0

\* The APDU is what the reader has, what the block under way carries and what
\* is left of it.
Going ==
    /\ h_got = <<>> /\ h_last.inf \in Seq(UnitsOf(Apdus))
    /\ h_last.more <=> h_left # <<>>
    /\ Len(asked) <= MaxLossy => ~h_last.more
    /\ Acked => h_last.more /\ answer.nr = h_ns /\ recv_chain \o h_left = asked
    /\ ~Acked => (recv_chain \o h_last.inf) \o h_left = asked

\* The answer is what the host has, what the block under way carries and what
\* is left of it.
Taken == h_last.t = "R" /\ answer = NoBlock
Coming(rsp) ==
    /\ wtx_pending => h_got = <<>> /\ send_chain = rsp
    /\ ~wtx_pending =>
          /\ last_sent.inf \in Seq(UnitsOf(Responses))
          /\ Len(rsp) <= MaxLossy => ~last_sent.more /\ h_last.t # "R"
          /\ h_last.t = "R" => answer.t # "R"
          /\ Taken => last_sent.more /\ h_got \o send_chain = rsp
          /\ ~Taken => (h_got \o last_sent.inf) \o send_chain = rsp

RanIs(rsp) == ran = <<[apdu |-> asked, rsp |-> rsp]>>

DataTypes ==
    /\ losses = 0 => wire # BadBlock
    /\ send_ifsc >= MaxLossy
    /\ recv_chain \in Seq(UnitsOf(Apdus)) /\ h_got \in Seq(UnitsOf(Responses))
    /\ asked # <<>> => asked \in Apdus
    /\ asked = <<>> \/ ran # <<>> => recv_chain = <<>>

DataInv ==
    /\ LossyIsShort /\ DataTypes
    /\ asked # <<>> /\ ran = <<>> => Going
    /\ asked # <<>> /\ ran # <<>> => \E rsp \in Responses : RanIs(rsp) /\ Coming(rsp)

\* An APDU that was run is in ran.
LEMMA RunIsOne == HasRun => ran # <<>>
<1>1. Len(<<>>) = 0
  OBVIOUS
<1>2. QED
  BY <1>1 DEF HasRun

\* What ran says of the exchange.
LEMMA RanTells ==
    ASSUME LinkInv, asked # <<>>
    PROVE  (ran = <<>> /\ NotRun) \/ (ran # <<>> /\ HasRun)
<1>1. NotRun => ran = <<>>
  BY DEF NotRun
<1>2. HasRun => ran # <<>>
  BY RunIsOne
<1>3. NotRun \/ HasRun
  BY Zenon DEF LinkInv
<1>4. QED
  BY <1>1, <1>2, <1>3, Zenon

\* The two parts of a split make the sequence.
LEMMA SplitSeq ==
    ASSUME NEW S, NEW q \in Seq(S), NEW n \in 0..Len(q)
    PROVE  /\ SubSeq(q, 1, n) \in Seq(S)
           /\ SubSeq(q, 1, n) \o SubSeq(q, n + 1, Len(q)) = q
<1>1. SubSeq(q, 1, n) \in Seq(S)
  OBVIOUS
<1>2. PICK l, r : l = SubSeq(q, 1, n) /\ r = SubSeq(q, n + 1, Len(q))
  OBVIOUS
<1>3. /\ l \in Seq(S) /\ Len(l) = n /\ \A i \in 1..n : l[i] = q[i]
      /\ r \in Seq(S) /\ Len(r) = Len(q) - n /\ \A i \in 1..(Len(q) - n) : r[i] = q[n + i]
  BY <1>2
<1>4. l \o r \in Seq(S) /\ Len(l \o r) = Len(q)
  BY <1>3, ConcatProperties
<1>5. \A i \in 1..Len(q) : (l \o r)[i] = q[i]
  BY <1>3
<1>6. l \o r = q
  BY <1>4, <1>5, SeqEqual
<1>7. QED
  BY <1>1, <1>2, <1>6

\* Concatenation is associative.
LEMMA Reassociated ==
    ASSUME NEW S, NEW p \in Seq(S), NEW q \in Seq(S), NEW r \in Seq(S)
    PROVE  (p \o q) \o r = p \o (q \o r)
<1>1. p \o q \in Seq(S) /\ q \o r \in Seq(S)
  OBVIOUS
<1>2. (p \o q) \o r \in Seq(S) /\ p \o (q \o r) \in Seq(S)
  BY <1>1
<1>3. Len((p \o q) \o r) = Len(p \o (q \o r))
  BY <1>1
<1>4. \A i \in 1..Len((p \o q) \o r) : ((p \o q) \o r)[i] = (p \o (q \o r))[i]
  BY <1>1
<1>5. QED
  BY <1>2, <1>3, <1>4, SeqEqual

\* SendPiece: the block and what is left are what there was to send.
LEMMA PieceData ==
    ASSUME NEW units \in Seq(UnitsOf(Apdus)), SendPiece(units)
    PROVE  /\ h_last'.inf \in Seq(UnitsOf(Apdus)) /\ h_last'.inf \o h_left' = units
           /\ h_last'.more <=> h_left' # <<>>
           /\ Len(units) <= PieceSize => ~h_last'.more
<1>1. PICK size : size = Smaller(PieceSize, Len(units))
  OBVIOUS
<1>2. size \in 0..Len(units) /\ (Len(units) <= PieceSize => size = Len(units))
  BY <1>1, LinkAssumption DEF Smaller
<1>3. h_last' = IBlock(h_ns, Len(units) > size, h_rns, SubSeq(units, 1, size))
  BY <1>1, Zenon DEF SendPiece, HostSend
<1>4. h_left' = SubSeq(units, size + 1, Len(units))
  BY <1>1, Zenon DEF SendPiece
<1>5. h_last'.inf = SubSeq(units, 1, size)
  BY <1>3 DEF IBlock
<1>6. h_last'.more <=> Len(units) > size
  <2>1. h_last'.more = (Len(units) > size)
    BY <1>3 DEF IBlock
  <2>2. QED
    BY <2>1, Zenon
<1>7. h_left' = <<>> <=> size = Len(units)
  BY <1>2, <1>4, RestOf
<1>8. h_last'.inf \in Seq(UnitsOf(Apdus)) /\ h_last'.inf \o h_left' = units
  BY <1>2, <1>4, <1>5, SplitSeq
<1>9. Len(units) > size <=> size # Len(units)
  BY <1>2
<1>10. QED
  BY <1>2, <1>6, <1>7, <1>8, <1>9

\* SendChainBlock likewise.
LEMMA ChunkData ==
    ASSUME send_ifsc \in Nat, NEW chain \in Seq(UnitsOf(Responses)), SendChainBlock(chain)
    PROVE  /\ last_sent'.inf \in Seq(UnitsOf(Responses)) /\ last_sent'.inf \o send_chain' = chain
           /\ Len(chain) <= send_ifsc => ~last_sent'.more
           /\ reply' = last_sent' /\ last_sent'.t = "I"
<1>1. PICK chunk : chunk = Smaller(send_ifsc, Len(chain))
  OBVIOUS
<1>2. chunk \in 0..Len(chain) /\ (Len(chain) <= send_ifsc => chunk = Len(chain))
  BY <1>1 DEF Smaller
<1>3. last_sent' = IBlock(ns, Len(chain) > chunk, host_ns', SubSeq(chain, 1, chunk))
  BY <1>1, Zenon DEF SendChainBlock
<1>4. send_chain' = SubSeq(chain, chunk + 1, Len(chain)) /\ reply' = last_sent'
  BY <1>1, <1>3, Zenon DEF SendChainBlock
<1>5. last_sent'.t = "I" /\ last_sent'.inf = SubSeq(chain, 1, chunk)
  BY <1>3 DEF IBlock
<1>6. last_sent'.more <=> Len(chain) > chunk
  <2>1. last_sent'.more = (Len(chain) > chunk)
    BY <1>3 DEF IBlock
  <2>2. QED
    BY <2>1, Zenon
<1>7. last_sent'.inf \in Seq(UnitsOf(Responses)) /\ last_sent'.inf \o send_chain' = chain
  BY <1>2, <1>4, <1>5, SplitSeq
<1>8. Len(chain) <= send_ifsc => ~(Len(chain) > chunk)
  BY <1>2
<1>9. QED
  BY <1>4, <1>5, <1>6, <1>7, <1>8

\* Nothing is under way at the start.
LEMMA DataStarts == ASSUME OneBlock PROVE Init => DataInv
<1> SUFFICES ASSUME Init PROVE DataInv
  OBVIOUS
<1>1. <<>> \in Seq(UnitsOf(Apdus)) /\ <<>> \in Seq(UnitsOf(Responses))
  BY EmptySeq
<1>2. LossyIsShort
  BY DEF Init, LossyIsShort
<1>3. DataTypes
  BY <1>1, IfsAssumption DEF Init, InitEndpoint, DataTypes, OneBlock, NoBlock, BadBlock
<1>4. QED
  BY <1>2, <1>3 DEF Init, DataInv

\* The first block of an APDU, and what is left of it.
LEMMA AskData ==
    ASSUME OneBlock, LinkInv, DataInv, LossyIsShort', NEW a \in Apdus, HostAsk(a)
    PROVE  DataInv'
<1>1. /\ asked = <<>> /\ asked' = a /\ ran' = <<>> /\ SendPiece(a) /\ h_got' = <<>>
      /\ UNCHANGED <<recv_chain, send_ifsc, losses, answer, h_ns>> /\ answer = NoBlock
  BY DEF HostAsk, HostIdle, t1Vars
<1>2. a \in Seq(UnitsOf(Apdus)) /\ a # <<>>
  BY LinkAssumption
<1>3. /\ h_last'.inf \in Seq(UnitsOf(Apdus)) /\ h_last'.inf \o h_left' = a
      /\ h_last'.more <=> h_left' # <<>>
      /\ Len(a) <= PieceSize => ~h_last'.more
  BY <1>1, <1>2, PieceData
<1>4. wire' = h_last' /\ h_last'.t = "I"
  BY <1>1, <1>2, PieceFacts
<1>5. recv_chain = <<>>
  BY <1>1 DEF DataInv, DataTypes
<1>6. DataTypes'
  BY <1>1, <1>2, <1>4, <1>5, EmptySeq, BlockFields DEF DataInv, DataTypes
<1>7. ~Acked'
  BY <1>1, BlockFields DEF Acked
<1>8. Len(a) <= MaxLossy => ~h_last'.more
  BY <1>2, <1>3, LinkAssumption DEF OneBlock
<1>9. (recv_chain' \o h_last'.inf) \o h_left' = a
  BY <1>1, <1>3, <1>5, ConcatEmptySeq
<1>10. Going'
  BY <1>1, <1>3, <1>7, <1>8, <1>9 DEF Going
<1>11. QED
  BY <1>1, <1>6, <1>10 DEF DataInv

\* A negotiation carries nothing of an exchange.
LEMMA NegotiateData ==
    ASSUME DataInv, LossyIsShort', NEW b \in Requests, HostNegotiate(b)
    PROVE  DataInv'
<1>1. asked = <<>> /\ wire' = b /\ UNCHANGED <<t1Vars, appVars, h_got, losses>>
  BY DEF HostNegotiate, HostSend, HostIdle
<1>2. b # BadBlock
  BY BlockFields
<1>3. DataTypes'
  BY <1>1, <1>2 DEF DataInv, DataTypes, t1Vars, appVars
<1>4. QED
  BY <1>1, <1>3 DEF DataInv, appVars

\* With losses the exchange is short; so is what the card answered.
LEMMA ShortWithLosses ==
    ASSUME DataInv, LossyIsShort', losses' > 0, asked' = asked, ran' = ran
    PROVE  /\ Len(asked) <= MaxLossy
           /\ \A rsp \in Responses : RanIs(rsp) => Len(rsp) <= MaxLossy
<1>1. Len(asked) <= MaxLossy /\ \A i \in DOMAIN ran : Len(ran[i].rsp) <= MaxLossy
  BY DEF LossyIsShort
<1>2. ASSUME NEW rsp \in Responses, RanIs(rsp) PROVE Len(rsp) <= MaxLossy
  <2>1. 1 \in DOMAIN ran /\ ran[1].rsp = rsp
    BY <1>2 DEF RanIs
  <2>2. QED
    BY <1>1, <2>1
<1>3. QED
  BY <1>1, <1>2

\* On a line with losses nothing is acknowledged in part and no answer comes
\* in parts: what is under way stays under way.
LEMMA LossData ==
    ASSUME LinkInv, DataInv, LossyIsShort', losses' > 0, losses' \in Nat, answer'.t = "R" => answer'.err = 1,
           UNCHANGED <<asked, ran, hostVars, send_ifsc, recv_chain, send_chain, last_sent, wtx_pending>>
    PROVE  DataInv'
<1>1. /\ Len(asked) <= MaxLossy
      /\ \A rsp \in Responses : RanIs(rsp) => Len(rsp) <= MaxLossy
  BY ShortWithLosses
<1>2. DataTypes'
  BY DEF DataInv, DataTypes, hostVars
<1>3. ~Acked'
  BY DEF Acked
<1>4. asked # <<>> /\ ran = <<>> => Going'
  <2>1. asked # <<>> /\ ran = <<>> => Going /\ ~h_last.more
    BY <1>1 DEF DataInv, Going
  <2>2. QED
    BY <1>3, <2>1 DEF Going, hostVars
<1>5. ASSUME NEW rsp \in Responses, RanIs(rsp), Coming(rsp) PROVE RanIs(rsp)' /\ Coming(rsp)'
  <2>1. Len(rsp) <= MaxLossy
    BY <1>1, <1>5
  <2>2. RanIs(rsp)'
    BY <1>5 DEF RanIs
  <2>3. Coming(rsp)'
    BY <1>5, <2>1 DEF Coming, Taken, hostVars
  <2>4. QED
    BY <2>2, <2>3
<1>6. QED
  BY <1>2, <1>4, <1>5 DEF DataInv

\* A block is lost or damaged.
LEMMA LoseOrDamageData ==
    ASSUME LinkInv, DataInv, LossyIsShort', LoseBlock \/ DamageBlock
    PROVE  DataInv'
<1>1. answer' = NoBlock
  BY DEF LinkInv, OneUnderWay, LoseBlock, DamageBlock
<1>2. answer'.t # "R"
  BY <1>1, BlockFields
<1>3. losses' > 0 /\ losses' \in Nat
  BY DEF LinkInv, LinkTypes, LoseBlock, DamageBlock
<1>4. UNCHANGED <<asked, ran, hostVars, send_ifsc, recv_chain, send_chain, last_sent, wtx_pending>>
  BY DEF LoseBlock, DamageBlock, t1Vars, appVars
<1>5. QED
  BY <1>2, <1>3, <1>4, LossData

\* The host takes an R-block.
LEMMA HostTakesRData ==
    ASSUME LinkInv, DataInv, LossyIsShort', answer.t = "R", HostReceive
    PROVE  DataInv'
<1>1. answer' = NoBlock /\ UNCHANGED <<t1Vars, losses>> /\ (HostAcknowledged \/ HostRepeats)
  BY DEF HostReceive, HostGrantsWtx, HostNegotiated, HostTakesChunk, HostCompletes, WtxRequest, SBlock
<1>2. UNCHANGED <<appVars, h_ns, h_got>>
  BY <1>1 DEF HostAcknowledged, HostRepeats
<1>3. answer # NoBlock /\ ~Acked'
  BY <1>1, BlockFields DEF Acked
<1>4. CASE HostRepeats
  <2>1. /\ wire' = h_last /\ h_last' = h_last /\ h_left' = h_left
        /\ ~(answer.err = 0 /\ answer.nr = h_ns /\ h_left # <<>>)
    BY <1>4 DEF HostRepeats, HostSend
  <2>2. h_last # BadBlock
    <3>1. asked = <<>> => h_last \in Requests
      BY <1>3 DEF LinkInv, NothingAsked
    <3>2. asked # <<>> => h_last.t \in {"I", "S", "R"}
      BY BlockFields DEF LinkInv, NotRun, HasRun
    <3>3. QED
      BY <3>1, <3>2, BlockFields
  <2>3. DataTypes'
    BY <1>1, <1>2, <2>1, <2>2 DEF DataInv, DataTypes, t1Vars, appVars
  <2>4. asked # <<>> /\ ran = <<>> => Going'
    <3>1. asked # <<>> /\ ran = <<>> => Going /\ ~Acked
      BY <2>1 DEF DataInv, Going, Acked
    <3>2. QED
      BY <1>1, <1>2, <1>3, <2>1, <3>1 DEF Going, t1Vars, appVars
  <2>5. ASSUME NEW rsp \in Responses, RanIs(rsp), Coming(rsp) PROVE RanIs(rsp)' /\ Coming(rsp)'
    <3>1. RanIs(rsp)'
      BY <1>2, <2>5 DEF RanIs, appVars
    <3>2. ~wtx_pending => h_last.t # "R"
      BY <2>5 DEF Coming
    <3>3. Coming(rsp)'
      BY <1>1, <1>2, <2>1, <2>5, <3>2 DEF Coming, Taken, t1Vars
    <3>4. QED
      BY <3>1, <3>3
  <2>6. QED
    BY <1>2, <2>3, <2>4, <2>5 DEF DataInv, appVars
<1>5. CASE HostAcknowledged
  <2>1. Acked /\ SendPiece(h_left)
    BY <1>5 DEF HostAcknowledged, Acked
  <2>2. asked # <<>> /\ ran = <<>>
    <3>1. answer.err # 1 /\ answer.t # "S"
      BY <2>1 DEF Acked
    <3>2. asked # <<>>
      BY <1>3, <3>1, Zenon DEF LinkInv, NothingAsked
    <3>3. last_sent.t = "R" => ~Staged /\ ~Chunked
      BY BlockFields DEF Staged, Chunked
    <3>4. ~HasRun
      BY <1>3, <3>1, <3>3 DEF HasRun
    <3>5. QED
      BY <3>2, <3>4, RanTells
  <2>3. Going
    BY <2>2 DEF DataInv
  <2>4. h_left \in Seq(UnitsOf(Apdus)) /\ recv_chain \in Seq(UnitsOf(Apdus))
    BY DEF LinkInv, LinkTypes, DataInv, DataTypes
  <2>5. /\ h_last'.inf \in Seq(UnitsOf(Apdus)) /\ h_last'.inf \o h_left' = h_left
        /\ h_last'.more <=> h_left' # <<>>
    BY <2>1, <2>4, PieceData
  <2>6. wire' = h_last' /\ h_last'.t = "I" /\ h_left' \in Seq(UnitsOf(Apdus))
    BY <2>1, <2>4, PieceFacts
  <2>7. (recv_chain \o h_last'.inf) \o h_left' = recv_chain \o h_left
    <3>1. PICK inf, left : inf = h_last'.inf /\ left = h_left'
      OBVIOUS
    <3>2. inf \in Seq(UnitsOf(Apdus)) /\ left \in Seq(UnitsOf(Apdus)) /\ inf \o left = h_left
      BY <2>5, <2>6, <3>1
    <3>3. (recv_chain \o inf) \o left = recv_chain \o (inf \o left)
      <4>1. \A p, q, r \in Seq(UnitsOf(Apdus)) : (p \o q) \o r = p \o (q \o r)
        BY Reassociated
      <4>2. QED
        BY <2>4, <3>2, <4>1
    <3>4. QED
      BY <3>1, <3>2, <3>3
  <2>8. DataTypes'
    BY <1>1, <1>2, <2>6, BlockFields DEF DataInv, DataTypes, t1Vars, appVars
  <2>9. Going'
    BY <1>1, <1>2, <1>3, <2>1, <2>3, <2>5, <2>7 DEF Going, t1Vars, appVars
  <2>10. QED
    BY <1>2, <2>2, <2>8, <2>9 DEF DataInv, appVars
<1>6. QED
  BY <1>1, <1>4, <1>5

\* It takes any other block.
LEMMA HostTakesOtherData ==
    ASSUME LinkInv, DataInv, LossyIsShort', answer.t # "R", HostReceive
    PROVE  DataInv'
<1>1. /\ answer' = NoBlock /\ answer # NoBlock /\ UNCHANGED <<t1Vars, losses>>
      /\ HostGrantsWtx \/ HostNegotiated \/ HostTakesChunk \/ HostCompletes
  BY DEF HostReceive, HostAcknowledged, HostRepeats
<1>2. WtxRequest.t = "S" /\ ~WtxRequest.response /\ WtxRequest.kind = "Wtx"
  BY BlockFields
<1>3. CASE asked = <<>>
  <2>1. answer.t = "S" /\ answer.response
    BY <1>1, <1>3 DEF LinkInv, NothingAsked
  <2>2. HostNegotiated
    BY <1>1, <1>2, <2>1 DEF HostGrantsWtx, HostTakesChunk, HostCompletes
  <2>3. wire' = NoBlock /\ UNCHANGED <<appVars, h_got>>
    BY <2>2 DEF HostNegotiated
  <2>4. DataTypes'
    BY <1>1, <2>3, BlockFields DEF DataInv, DataTypes, t1Vars, appVars
  <2>5. QED
    BY <1>3, <2>3, <2>4 DEF DataInv, appVars
<1>4. CASE asked # <<>>
  <2>1. HasRun /\ answer = last_sent
    BY <1>1, <1>4 DEF LinkInv, NotRun, HasRun
  <2>2. ran # <<>>
    BY <1>4, <2>1, RunIsOne
  <2>3. PICK rsp \in Responses : RanIs(rsp) /\ Coming(rsp)
    BY <1>4, <2>2 DEF DataInv
  <2>4. ~Taken
    BY <1>1 DEF Taken
  <2>5. CASE wtx_pending
    <3>1. last_sent = WtxRequest
      BY <2>1, <2>5 DEF HasRun, Staged, Chunked
    <3>2. HostGrantsWtx
      BY <1>1, <1>2, <2>1, <3>1 DEF HostNegotiated, HostTakesChunk, HostCompletes
    <3>3. wire' = Granted /\ UNCHANGED <<appVars, h_got>>
      BY <3>2 DEF HostGrantsWtx, HostSend, Granted
    <3>4. DataTypes'
      BY <1>1, <3>3, BlockFields DEF DataInv, DataTypes, t1Vars, appVars
    <3>5. RanIs(rsp)' /\ Coming(rsp)'
      BY <1>1, <2>3, <2>5, <3>3 DEF RanIs, Coming, t1Vars, appVars
    <3>6. QED
      BY <2>2, <3>3, <3>4, <3>5 DEF DataInv, appVars
  <2>6. CASE ~wtx_pending
    <3>1. Chunked
      BY <2>1, <2>6 DEF HasRun, Staged
    <3>2. answer.t = "I" /\ (HostTakesChunk \/ HostCompletes)
      BY <1>1, <1>2, <2>1, <3>1 DEF Chunked, HostNegotiated, HostGrantsWtx
    <3>3. CASE HostTakesChunk
      <4>1. /\ wire' = h_last' /\ h_last' = RBlock(h_rns, 0) /\ UNCHANGED appVars
            /\ h_got' = h_got \o last_sent.inf /\ last_sent.more
        BY <2>1, <3>3 DEF HostTakesChunk, HostSend
      <4>2. h_last'.t = "R"
        BY <4>1 DEF RBlock
      <4>3. /\ h_got \o last_sent.inf \in Seq(UnitsOf(Responses))
            /\ (h_got \o last_sent.inf) \o send_chain = rsp
        BY <2>3, <2>4, <2>6, ConcatProperties DEF Coming, DataInv, DataTypes
      <4>4. DataTypes'
        BY <1>1, <4>1, <4>2, <4>3, BlockFields DEF DataInv, DataTypes, t1Vars, appVars
      <4>5. Taken' /\ answer'.t # "R"
        BY <1>1, <4>2, BlockFields DEF Taken
      <4>6. Coming(rsp)'
        BY <1>1, <2>3, <2>6, <4>1, <4>3, <4>5 DEF Coming, t1Vars
      <4>7. RanIs(rsp)'
        BY <2>3, <4>1 DEF RanIs, appVars
      <4>8. QED
        BY <2>2, <4>1, <4>4, <4>6, <4>7 DEF DataInv, appVars
    <3>4. CASE HostCompletes
      <4>1. asked' = <<>> /\ wire' = NoBlock /\ UNCHANGED <<ran, h_got>>
        BY <3>4 DEF HostCompletes
      <4>2. DataTypes'
        BY <1>1, <2>2, <4>1, BlockFields DEF DataInv, DataTypes, t1Vars
      <4>3. QED
        BY <4>1, <4>2 DEF DataInv
    <3>5. QED
      BY <3>2, <3>3, <3>4
  <2>7. QED
    BY <2>5, <2>6
<1>5. QED
  BY <1>3, <1>4

\* The reader takes a damaged block: it has lost one.
LEMMA BadBlockData ==
    ASSUME LinkInv, DataInv, LossyIsShort', BlockFed, ran' = ran, wire = BadBlock, FeedLocal(wire)
    PROVE  DataInv'
<1>1. RefuseBlock
  BY BlockFields DEF FeedLocal
<1>2. answer'.t = "R" => answer'.err = 1
  BY <1>1 DEF RefuseBlock, RBlock, BlockFed
<1>3. losses' > 0 /\ losses' \in Nat
  BY DEF LinkInv, LinkTypes, DataInv, DataTypes, BlockFed
<1>4. UNCHANGED <<asked, ran, hostVars, send_ifsc, recv_chain, send_chain, last_sent, wtx_pending>>
  BY <1>1 DEF BlockFed, RefuseBlock
<1>5. QED
  BY <1>2, <1>3, <1>4, LossData

\* A request of an idle host.
LEMMA RequestData ==
    ASSUME OneBlock, LinkInv, DataInv, LossyIsShort', BlockFed, ran' = ran, wire = h_last, asked = <<>>,
           FeedLocal(wire)
    PROVE  DataInv'
<1>1. h_last \in Requests
  BY DEF LinkInv, NothingAsked, BlockFed
<1>2. PICK b : b = h_last
  OBVIOUS
<1>3. b.t = "S" /\ ~b.response /\ b.kind \in {"Resync", "Ifs"} /\ b \in Requests
  BY <1>1, <1>2, BlockFields
<1>4. \/ b.kind = "Resync" /\ FeedResync
      \/ b.kind = "Ifs" /\ FeedIfs(b)
  BY <1>2, <1>3 DEF FeedLocal, FeedS
<1>5. recv_chain' \in Seq(UnitsOf(Apdus)) /\ recv_chain' = <<>>
  BY <1>4, EmptySeq DEF FeedResync, FeedIfs, DataInv, DataTypes
<1>6. send_ifsc' >= MaxLossy
  <2>1. CASE b.kind = "Resync" /\ FeedResync
    BY <2>1 DEF FeedResync, DataInv, DataTypes
  <2>2. CASE b.kind = "Ifs" /\ FeedIfs(b)
    <3>1. PICK n \in IfsValues : b.inf = <<n>>
      BY <1>3, <2>2 DEF Requests, SBlock
    <3>2. n \in Nat /\ MaxLossy <= n
      BY LinkAssumption DEF OneBlock
    <3>3. send_ifsc' = Smaller(n, MaxIfs)
      BY <2>2, <3>1 DEF FeedIfs
    <3>4. QED
      BY <3>2, <3>3, IfsAssumption DEF Smaller, OneBlock
  <2>3. QED
    BY <1>4, <2>1, <2>2
<1>7. DataTypes'
  BY <1>5, <1>6, BlockFields DEF DataInv, DataTypes, BlockFed, hostVars
<1>8. QED
  BY <1>7 DEF DataInv, BlockFed

\* A block of an APDU that the card has not run.
LEMMA PieceFedData ==
    ASSUME LinkInv, DataInv, LossyIsShort', BlockFed, ran' = ran, wire = h_last, asked # <<>>, NotRun,
           FeedLocal(wire)
    PROVE  DataInv'
<1>1. wire.t = "I" /\ wire.ns = host_ns /\ host_ns = h_ns /\ ran = <<>>
  BY DEF NotRun
<1>2. FeedOversize(wire) \/ FeedPiece(wire)
  BY <1>1 DEF FeedLocal, FeedOutOfSequence
<1>3. Going /\ ~Acked
  BY <1>1, BlockFields DEF DataInv, LinkInv, OneUnderWay, BlockFed, Acked
<1>4. CASE FeedOversize(wire)
  <2>1. reply'.err = 1 /\ UNCHANGED <<send_ifsc, recv_chain>>
    BY <1>4 DEF FeedOversize, RefuseBlock, RBlock
  <2>2. ~Acked'
    BY <2>1 DEF Acked, BlockFed
  <2>3. DataTypes'
    BY <2>1, BlockFields DEF DataInv, DataTypes, BlockFed, hostVars
  <2>4. Going'
    BY <1>3, <2>1, <2>2 DEF Going, BlockFed, hostVars
  <2>5. QED
    BY <1>1, <2>3, <2>4 DEF DataInv, BlockFed
<1>5. CASE FeedPiece(wire)
  <2>1. h_last.more /\ recv_chain' = recv_chain \o h_last.inf /\ reply' = RBlock(h_ns, 0) /\ UNCHANGED send_ifsc
    BY <1>1, <1>5 DEF FeedPiece
  <2>2. Acked' /\ answer'.nr = h_ns
    BY <2>1 DEF Acked, BlockFed, RBlock
  <2>3. recv_chain' \in Seq(UnitsOf(Apdus))
    BY <1>3, <2>1, ConcatProperties DEF Going, DataInv, DataTypes
  <2>4. DataTypes'
    BY <1>1, <2>1, <2>3, BlockFields DEF DataInv, DataTypes, BlockFed, hostVars
  <2>5. Going'
    BY <1>3, <2>1, <2>2 DEF Going, BlockFed, hostVars
  <2>6. QED
    BY <1>1, <2>4, <2>5 DEF DataInv, BlockFed
<1>6. QED
  BY <1>2, <1>4, <1>5

\* A new block of the answer takes its part of what was left.
LEMMA ChunkSentData ==
    ASSUME OneBlock, LinkInv, DataInv, LossyIsShort', BlockFed, asked # <<>>, ran' # <<>>,
           NEW rsp \in Responses, RanIs(rsp)',
           NEW chain \in Seq(UnitsOf(Responses)), h_got \o chain = rsp, SendChainBlock(chain),
           wtx_pending' = FALSE, send_ifsc' = send_ifsc, recv_chain' = <<>>,
           Len(rsp) <= MaxLossy => chain = rsp /\ h_last.t # "R"
    PROVE  DataInv'
<1>1. send_ifsc \in Nat /\ send_ifsc >= MaxLossy
  BY DEF LinkInv, LinkTypes, DataInv, DataTypes
<1>2. /\ last_sent'.inf \in Seq(UnitsOf(Responses)) /\ last_sent'.inf \o send_chain' = chain
      /\ Len(chain) <= send_ifsc => ~last_sent'.more
      /\ reply' = last_sent' /\ last_sent'.t = "I"
  BY <1>1, ChunkData
<1>3. send_chain' \in Seq(UnitsOf(Responses))
  <2>1. PICK chunk : chunk = Smaller(send_ifsc, Len(chain))
    OBVIOUS
  <2>2. chunk \in 0..Len(chain)
    BY <1>1, <2>1 DEF Smaller
  <2>3. send_chain' = SubSeq(chain, chunk + 1, Len(chain))
    BY <2>1, Zenon DEF SendChainBlock
  <2>4. QED
    BY <2>2, <2>3, RestOf
<1>4. (h_got \o last_sent'.inf) \o send_chain' = rsp
  <2>1. PICK inf, left : inf = last_sent'.inf /\ left = send_chain'
    OBVIOUS
  <2>2. inf \in Seq(UnitsOf(Responses)) /\ left \in Seq(UnitsOf(Responses)) /\ inf \o left = chain
    BY <1>2, <1>3, <2>1
  <2>3. h_got \in Seq(UnitsOf(Responses))
    BY DEF DataInv, DataTypes
  <2>4. (h_got \o inf) \o left = h_got \o (inf \o left)
    <3>1. \A p, q, r \in Seq(UnitsOf(Responses)) : (p \o q) \o r = p \o (q \o r)
      BY Reassociated, SMTT(20)
    <3>2. QED
      BY <2>2, <2>3, <3>1
  <2>5. QED
    BY <2>1, <2>2, <2>4
<1>5. Len(rsp) <= MaxLossy => Len(chain) <= send_ifsc
  <2>1. ASSUME Len(rsp) <= MaxLossy PROVE Len(chain) <= send_ifsc
    <3>1. Len(chain) <= MaxLossy /\ Len(chain) \in Nat
      BY <2>1
    <3>2. QED
      BY <1>1, <3>1 DEF OneBlock
  <2>2. QED
    BY <2>1
<1>6. answer' # NoBlock /\ answer'.t # "R"
  BY <1>2, BlockFields DEF BlockFed
<1>7. Coming(rsp)'
  BY <1>2, <1>4, <1>5, <1>6 DEF Coming, Taken, BlockFed, hostVars
<1>8. DataTypes'
  BY EmptySeq, BlockFields DEF DataInv, DataTypes, BlockFed, hostVars
<1>9. QED
  BY <1>7, <1>8 DEF DataInv, BlockFed

\* A block of the host after the card has run the APDU.
LEMMA AfterRunData ==
    ASSUME OneBlock, LinkInv, DataInv, LossyIsShort', BlockFed, ran' = ran, wire = h_last, asked # <<>>,
           HasRun, FeedLocal(wire)
    PROVE  DataInv'
<1>1. last_sent # NoBlock /\ last_sent.t \in {"I", "S"}
  BY BlockFields DEF HasRun, Staged, Chunked
<1>2. ran # <<>> /\ answer = NoBlock
  BY RunIsOne DEF LinkInv, OneUnderWay, BlockFed
<1>3. PICK rsp \in Responses : RanIs(rsp) /\ Coming(rsp)
  BY <1>2 DEF DataInv
<1>4. RanIs(rsp)' /\ recv_chain = <<>>
  BY <1>2, <1>3 DEF RanIs, BlockFed, DataInv, DataTypes
<1>5. send_chain \in Seq(UnitsOf(Responses))
  BY DEF LinkInv, LinkTypes
<1>6. ASSUME ReplyOnly(last_sent), h_last.t # "R" PROVE DataInv'
  <2>1. answer' = last_sent /\ UNCHANGED <<send_ifsc, recv_chain, send_chain, last_sent, wtx_pending>>
    BY <1>6 DEF ReplyOnly, BlockFed
  <2>2. DataTypes'
    BY <2>1, BlockFields DEF DataInv, DataTypes, BlockFed, hostVars
  <2>3. Coming(rsp)'
    BY <1>3, <1>6, <2>1 DEF Coming, Taken, BlockFed, hostVars
  <2>4. QED
    BY <1>2, <1>4, <2>2, <2>3 DEF DataInv, BlockFed
<1>7. CASE h_last.t = "I" /\ h_last.ns = h_ns /\ ~h_last.more /\ retry_first_frame = last_sent
  <2>1. h_ns # host_ns /\ retry_ns = h_ns
    BY DEF HasRun, LinkInv, LinkTypes
  <2>2. FeedOutOfSequence(wire)
    BY <1>7, <2>1 DEF FeedLocal, FeedOversize, FeedPiece
  <2>3. ReplyOnly(last_sent)
    BY <1>1, <1>7, <2>1, <2>2, Zenon DEF FeedOutOfSequence
  <2>4. QED
    BY <1>6, <1>7, <2>3
<1>8. CASE h_last = Granted
  <2>1. wire.t = "S" /\ wire.response /\ wire.kind = "Wtx" /\ h_last.t # "R"
    BY <1>8, BlockFields
  <2>2. CASE wtx_pending
    <3>1. Staged /\ h_got = <<>> /\ send_chain = rsp
      BY <1>3, <2>2 DEF HasRun, Chunked, Coming
    <3>2. FeedWtxGranted
      BY <2>1, <2>2 DEF FeedLocal, FeedS
    <3>3. SendChainBlock(send_chain) /\ wtx_pending' = FALSE /\ UNCHANGED <<send_ifsc, recv_chain>>
      BY <3>1, <3>2 DEF Staged, FeedWtxGranted
    <3>4. h_got \o send_chain = rsp
      BY <1>5, <3>1, ConcatEmptySeq
    <3>5. QED
      BY <1>2, <1>4, <1>5, <2>1, <3>1, <3>3, <3>4, ChunkSentData
  <2>3. CASE ~wtx_pending
    <3>1. FeedUnsolicitedResponse
      BY <2>1, <2>3 DEF FeedLocal, FeedS, FeedWtxGranted
    <3>2. QED
      BY <1>1, <1>6, <2>1, <3>1 DEF FeedUnsolicitedResponse
  <2>4. QED
    BY <2>2, <2>3
<1>9. CASE h_last.t = "R" /\ Chunked
  <2>1. FeedR /\ ~wtx_pending
    BY <1>9 DEF FeedLocal, Chunked
  <2>2. Taken
    BY <1>2, <1>9 DEF Taken
  <2>3. last_sent.more /\ h_got \o send_chain = rsp /\ ~(Len(rsp) <= MaxLossy)
    BY <1>3, <1>9, <2>1, <2>2 DEF Coming
  <2>4. send_chain # <<>>
    BY <1>9, <2>3 DEF Chunked
  <2>5. SendChainBlock(send_chain) /\ wtx_pending' = FALSE /\ UNCHANGED <<send_ifsc, recv_chain>>
    BY <2>1, <2>4 DEF FeedR
  <2>6. QED
    BY <1>2, <1>4, <1>5, <2>3, <2>5, ChunkSentData
<1>10. QED
  BY <1>7, <1>8, <1>9 DEF HasRun

\* The block that completes the APDU: the card runs what was asked.
LEMMA RelayRuns ==
    ASSUME LinkInv, DataInv, NEW rsp \in Responses, NEW slow \in BOOLEAN, ReaderRelays(rsp, slow)
    PROVE  /\ asked # <<>> /\ ran = <<>> /\ NotRun /\ BlockFed
           /\ ran' = <<[apdu |-> asked, rsp |-> rsp]>> /\ h_got = <<>> /\ h_last.t = "I"
<1>1. /\ wire.t = "I" /\ wire.ns = host_ns /\ ~wire.more
      /\ ran' = Append(ran, [apdu |-> recv_chain \o wire.inf, rsp |-> rsp])
  BY DEF ReaderRelays, FeedFinal, AssembledApdu
<1>2. wire = h_last /\ wire # NoBlock /\ answer = NoBlock
  BY <1>1, BlockFields DEF LinkInv, OneUnderWay
<1>3. BlockFed
  BY <1>2 DEF ReaderRelays, BlockFed
<1>4. asked # <<>>
  <2>1. asked = <<>> => h_last \in Requests
    BY <1>2 DEF LinkInv, NothingAsked
  <2>2. QED
    BY <1>1, <1>2, <2>1, BlockFields
<1>5. ~HasRun
  BY <1>1, <1>2 DEF HasRun, Granted, SBlock, LinkInv, LinkTypes
<1>6. NotRun /\ ran = <<>>
  BY <1>4, <1>5, RanTells
<1>7. Going /\ ~Acked
  BY <1>2, <1>4, <1>6, BlockFields DEF DataInv, Acked
<1>8. /\ (recv_chain \o h_last.inf) \o h_left = asked /\ h_left = <<>> /\ h_got = <<>>
      /\ h_last.inf \in Seq(UnitsOf(Apdus)) /\ recv_chain \in Seq(UnitsOf(Apdus))
  BY <1>1, <1>2, <1>7 DEF Going, DataInv, DataTypes
<1>9. recv_chain \o h_last.inf = asked
  <2>1. PICK q : q = recv_chain \o h_last.inf
    OBVIOUS
  <2>2. q \in Seq(UnitsOf(Apdus))
    BY <1>8, <2>1
  <2>3. q \o <<>> = q
    BY <2>2, ConcatEmptySeq
  <2>4. QED
    BY <1>8, <2>1, <2>3
<1>10. ran' = <<[apdu |-> asked, rsp |-> rsp]>>
  <2>1. PICK x : x = [apdu |-> asked, rsp |-> rsp]
    OBVIOUS
  <2>2. ran' = Append(<<>>, x)
    BY <1>1, <1>2, <1>6, <1>9, <2>1
  <2>3. QED
    BY <2>1, <2>2
<1>11. QED
  BY <1>1, <1>2, <1>3, <1>4, <1>6, <1>8, <1>10

\* Its answer is staged, or begins to go out.
LEMMA RelayData ==
    ASSUME OneBlock, LinkInv, DataInv, LossyIsShort', NEW rsp \in Responses, NEW slow \in BOOLEAN,
           ReaderRelays(rsp, slow)
    PROVE  DataInv'
<1>1. /\ asked # <<>> /\ ran = <<>> /\ NotRun /\ BlockFed
      /\ ran' = <<[apdu |-> asked, rsp |-> rsp]>> /\ h_got = <<>> /\ h_last.t = "I"
  BY RelayRuns
<1>2. CardResponse(rsp, slow) /\ recv_chain' = <<>> /\ UNCHANGED send_ifsc
  BY DEF ReaderRelays, FeedFinal
<1>3. rsp # <<>> /\ rsp \in Seq(UnitsOf(Responses))
  BY LinkAssumption
<1>4. RanIs(rsp)' /\ ran' # <<>>
  <2>1. RanIs(rsp)'
    BY <1>1 DEF RanIs, BlockFed
  <2>2. ran' # <<>>
    BY <1>1
  <2>3. QED
    BY <2>1, <2>2
<1>5. CASE slow
  <2>1. wtx_pending' = TRUE /\ send_chain' = rsp
    BY <1>2, <1>5 DEF CardResponse
  <2>2. Coming(rsp)'
    BY <1>1, <2>1 DEF Coming, BlockFed, hostVars
  <2>3. DataTypes'
    BY <1>1, <1>2, EmptySeq, BlockFields DEF DataInv, DataTypes, BlockFed, hostVars
  <2>4. QED
    BY <1>4, <2>2, <2>3 DEF DataInv
<1>6. CASE ~slow
  <2>1. SendChainBlock(rsp) /\ wtx_pending' = FALSE
    BY <1>1, <1>2, <1>3, <1>6 DEF CardResponse, NotRun, LinkInv, LinkTypes
  <2>2. h_got \o rsp = rsp
    BY <1>1, <1>3, ConcatEmptySeq
  <2>3. QED
    BY <1>1, <1>2, <1>3, <1>4, <2>1, <2>2, ChunkSentData
<1>7. QED
  BY <1>5, <1>6

\* The reader's steps.
LEMMA ReaderData == ASSUME OneBlock, LinkInv, DataInv, LossyIsShort', Reader PROVE DataInv'
<1>1. CASE ReaderLocal
  <2>1. BlockFed /\ ran' = ran /\ FeedLocal(wire)
    BY <1>1 DEF ReaderLocal, BlockFed, appVars
  <2>2. wire = BadBlock \/ wire = h_last
    BY <2>1 DEF LinkInv, OneUnderWay, BlockFed
  <2>3. asked = <<>> \/ NotRun \/ HasRun
    BY DEF LinkInv
  <2>4. QED
    BY <2>1, <2>2, <2>3, BadBlockData, RequestData, PieceFedData, AfterRunData
<1>2. ASSUME NEW rsp \in Responses, NEW slow \in BOOLEAN, ReaderRelays(rsp, slow) PROVE DataInv'
  BY <1>2, RelayData
<1>3. QED
  BY <1>1, <1>2 DEF Reader

\* Every step keeps what the blocks carry.
LEMMA DataKeeps ==
    ASSUME OneBlock PROVE LinkInv /\ DataInv /\ [LinkNext]_vars => DataInv'
<1> SUFFICES ASSUME LinkInv, DataInv, [LinkNext]_vars PROVE DataInv'
  OBVIOUS
<1>1. CASE UNCHANGED vars
  <2>1. UNCHANGED <<asked, ran, h_got, h_last, h_left, h_ns, recv_chain, send_chain, last_sent,
                    wtx_pending, send_ifsc, wire, answer, losses>>
    BY <1>1 DEF vars, t1Vars, appVars, hostVars, linkVars
  <2>2. LossyIsShort' /\ DataTypes'
    BY <2>1 DEF DataInv, LossyIsShort, DataTypes
  <2>3. Going => Going'
    BY <2>1 DEF Going, Acked
  <2>4. \A rsp \in Responses : RanIs(rsp) /\ Coming(rsp) => RanIs(rsp)' /\ Coming(rsp)'
    BY <2>1 DEF RanIs, Coming, Taken
  <2>5. QED
    BY <2>1, <2>2, <2>3, <2>4 DEF DataInv
<1>2. CASE Next /\ LossyIsShort'
  <2>1. ASSUME NEW a \in Apdus, HostAsk(a) PROVE DataInv'
    BY <1>2, <2>1, AskData
  <2>2. ASSUME NEW n \in IfsValues, HostNegotiate(SBlock("Ifs", FALSE, <<n>>)) PROVE DataInv'
    BY <1>2, <2>2, NegotiateData DEF Requests
  <2>3. CASE HostNegotiate(SBlock("Resync", FALSE, <<>>))
    BY <1>2, <2>3, NegotiateData DEF Requests
  <2>4. CASE HostReceive
    BY <1>2, <2>4, HostTakesRData, HostTakesOtherData
  <2>5. CASE Reader
    BY <1>2, <2>5, ReaderData
  <2>6. CASE LoseBlock \/ DamageBlock
    BY <1>2, <2>6, LoseOrDamageData
  <2>7. QED
    BY <1>2, <2>1, <2>2, <2>3, <2>4, <2>5, <2>6 DEF Next
<1>3. QED
  BY <1>1, <1>2 DEF LinkNext

\* What the blocks carry adds up to the APDU and to the answer: chained over a
\* line without losses, in one block each way over one with losses.
THEOREM DataInductive == ASSUME OneBlock PROVE LinkSpec => [](LinkInv /\ DataInv)
<1>1. Init => LinkInv /\ DataInv
  BY LinkStarts, DataStarts
<1>2. LinkInv /\ DataInv /\ [LinkNext]_vars => (LinkInv /\ DataInv)'
  BY LinkKeeps, DataKeeps DEF LinkNext
<1>3. QED
  BY <1>1, <1>2, PTL DEF LinkSpec

\* Every step of the link is a step of the exchange, or leaves it alone.
LEMMA LinkSteps ==
    LinkInv /\ DataInv /\ [LinkNext]_vars => [Exchange!Next]_(Exchange!exchangeVars)
<1> SUFFICES ASSUME LinkInv, DataInv, [LinkNext]_vars PROVE [Exchange!Next]_(Exchange!exchangeVars)
  OBVIOUS
<1>1. UNCHANGED <<asked, ran, got>> => UNCHANGED Exchange!exchangeVars
  BY DEF Exchange!exchangeVars
<1>2. CASE UNCHANGED vars
  BY <1>1, <1>2 DEF vars, appVars
<1>3. ASSUME NEW a \in Apdus, HostAsk(a) PROVE Exchange!Next
  BY <1>3 DEF HostAsk, HostIdle, Exchange!Next, Exchange!Ask
<1>4. ASSUME NEW b, HostNegotiate(b) PROVE UNCHANGED Exchange!exchangeVars
  BY <1>1, <1>4 DEF HostNegotiate, appVars
<1>5. CASE LoseBlock \/ DamageBlock \/ ReaderLocal
  BY <1>1, <1>5 DEF LoseBlock, DamageBlock, ReaderLocal, appVars
<1>6. ASSUME NEW rsp \in Responses, NEW slow \in BOOLEAN, ReaderRelays(rsp, slow) PROVE Exchange!Next
  <2>1. asked # <<>> /\ ran = <<>> /\ ran' = <<[apdu |-> asked, rsp |-> rsp]>>
    BY <1>6, RelayRuns
  <2>2. UNCHANGED <<asked, got>>
    BY <1>6 DEF ReaderRelays
  <2>3. QED
    BY <2>1, <2>2 DEF Exchange!Next, Exchange!Run
<1>7. CASE HostReceive
  <2>1. CASE HostCompletes
    <3>1. /\ answer.t = "I" /\ ~answer.more /\ got' = h_got \o answer.inf /\ asked' = <<>>
          /\ UNCHANGED ran /\ answer # NoBlock
      BY <1>7, <2>1 DEF HostCompletes, HostReceive
    <3>2. asked # <<>>
      BY <3>1 DEF LinkInv, NothingAsked
    <3>3. HasRun /\ answer = last_sent
      BY <3>1, <3>2 DEF LinkInv, NotRun, HasRun
    <3>4. Chunked /\ ~wtx_pending /\ send_chain = <<>>
      BY <3>1, <3>3, BlockFields DEF HasRun, Staged, Chunked
    <3>5. ran # <<>>
      BY <3>3, RunIsOne
    <3>6. PICK rsp \in Responses : RanIs(rsp) /\ Coming(rsp)
      BY <3>2, <3>5 DEF DataInv
    <3>7. ~Taken
      BY <3>1 DEF Taken
    <3>8. /\ (h_got \o last_sent.inf) \o <<>> = rsp
          /\ last_sent.inf \in Seq(UnitsOf(Responses)) /\ h_got \in Seq(UnitsOf(Responses))
      BY <3>4, <3>6, <3>7 DEF Coming, DataInv, DataTypes
    <3>9. h_got \o last_sent.inf = rsp
      <4>1. PICK q : q = h_got \o last_sent.inf
        OBVIOUS
      <4>2. q \in Seq(UnitsOf(Responses))
        BY <3>8, <4>1
      <4>3. q \o <<>> = q
        BY <4>2, ConcatEmptySeq
      <4>4. QED
        BY <3>8, <4>1, <4>3
    <3>10. ran[1].rsp = rsp
      BY <3>6 DEF RanIs
    <3>11. got' = ran[1].rsp
      BY <3>1, <3>3, <3>9, <3>10
    <3>12. QED
      BY <3>1, <3>2, <3>5, <3>11 DEF Exchange!Next, Exchange!Deliver
  <2>2. CASE ~HostCompletes
    BY <1>1, <1>7, <2>2 DEF HostReceive, HostAcknowledged, HostRepeats, HostGrantsWtx, HostNegotiated,
                            HostTakesChunk, appVars
  <2>3. QED
    BY <2>1, <2>2
<1>8. QED
  BY <1>2, <1>3, <1>4, <1>5, <1>6, <1>7 DEF LinkNext, Next, Reader

\* Then the link is an ApduExchange, its liveness aside: the card runs each
\* APDU once and as written, and the host gets exactly the card's answer
\* (xfr_via_t1 over T1Endpoint).
THEOREM LinkIsExchange ==
    ASSUME OneBlock PROVE LinkSpec => Exchange!Init /\ [][Exchange!Next]_(Exchange!exchangeVars)
<1>1. Init => Exchange!Init
  BY DEF Init, Exchange!Init
<1>2. QED
  BY <1>1, DataInductive, LinkSteps, PTL DEF LinkSpec
=============================================================================
