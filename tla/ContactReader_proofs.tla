------------------------ MODULE ContactReader_proofs ------------------------
(***************************************************************************)
(* Proofs about the bulk transport of the STM32 reader without a PIN pad:  *)
(* for any cards, any size of the receive buffer and any time-outs and     *)
(* resets fewer than bSeq has values, what the host takes for the answer   *)
(* to its command is one response, whole.                                  *)
(***************************************************************************)
EXTENDS ContactReader, SequenceTheorems, TLAPS

-----------------------------------------------------------------------------
(* The inductive invariant *)

Tags == Seqs \cup {JunkSeq}
Answers == [seq : Tags, len : Nat, exact : BOOLEAN]
OutPackets ==
    {p \in [kind : Kinds, seq : Seqs, part : {1, 2}, junk : Junk] : p.part = 1 => p.junk = "unknown"}
InPackets == [seq : Tags, first : BOOLEAN, full : BOOLEAN, of : Answers]

Devices ==
    [pin_pad : {FALSE}, rx : Seq(OutPackets), tx : Answers, busy : BOOLEAN,
     slot : {"Absent", "PresentInactive", "PresentActive"}, present : BOOLEAN,
     session : Cards \cup {NoCard}, secure : {None},
     tx_pending : BOOLEAN, tx_offset : Nat, needs_zlp : BOOLEAN, panicked : {FALSE}]

Hosts ==
    [seq : Seqs, waiting : BOOLEAN, got : Seq(InPackets), kind : Kinds, part : {0, 1, 2},
     torn : {FALSE}, missed : BOOLEAN]

\* Types; without a PIN pad nothing arms a PIN session, and nothing panics.
ReaderTypes ==
    /\ dev \in Devices /\ host \in Hosts
    /\ app = [turn |-> app.turn, mode |-> Normal, last_card_present |-> app.last_card_present,
              enumerated |-> app.enumerated]
    /\ card \in Cards \cup {NoCard} /\ link \in BOOLEAN /\ faults \in 0..MaxFaults
    /\ ep_out \in OutPackets \cup {None} /\ ep_in \in InPackets \cup {None}

\* The response being sent is there, and not all sent.
Sending(d) == d.tx_pending => d.tx_offset < d.tx.len

\* More of the current command is to come: the host has not sent it all, or
\* o is at the endpoint.
MoreToCome(o) == host.part > 0 \/ o # None

\* Where the host is with its command: what is at the endpoint is of this
\* command, and the second packet of a transfer follows the first.
HostPlace ==
    /\ ~host.waiting => host.part = 0 /\ host.got = <<>> /\ ep_out = None
    /\ ~link => ~host.waiting /\ ep_in = None
    /\ host.part = 2 => host.kind = "Xfr"
    /\ \A i \in DOMAIN host.got : host.got[i].full
    /\ ep_out # None =>
          /\ ep_out.seq = host.seq /\ ep_out.kind = host.kind
          /\ host.part = (IF ep_out.part = 1 /\ host.kind = "Xfr" THEN 2 ELSE 0)
          /\ ep_out.part = 2 => host.kind = "Xfr"

\* A message at the head of rx_buffer: one that is complete is being
\* answered, one that is not waits for the host; a message of the current
\* command is complete when nothing more is to come.
Headed(d) == d.rx # <<>> /\ d.rx[1].part = 1
Whole(d) == Len(d.rx) >= Declared(d.rx[1])
Received(d, o) ==
    Headed(d) =>
       /\ Whole(d) => d.tx_pending
       /\ ~Whole(d) /\ host.waiting => MoreToCome(o)
       /\ d.rx[1].seq = host.seq =>
             /\ d.rx[1].kind = host.kind
             /\ Whole(d) => ~MoreToCome(o)
             /\ ~Whole(d) /\ host.waiting => IF o = None THEN host.part = 2 ELSE o.part = 2

\* How many commands ago a bSeq was the host's.
Lag(q) == IF q <= host.seq THEN host.seq - q ELSE host.seq + SeqMod - q

\* A bSeq that is under way is not older than the faults that let its command
\* be overtaken.
Recent(q) == q = JunkSeq \/ Lag(q) + (IF host.waiting THEN 0 ELSE 1) <= faults

UnderWay(d, e) ==
    /\ Headed(d) => Recent(d.rx[1].seq)
    /\ d.tx_pending => Recent(d.tx.seq)
    /\ e # None /\ e.first => Recent(e.seq)

\* The packets of a response, with the empty one after a full last packet.
Total(r) == r.len + (IF r.exact THEN 1 ELSE 0)
Nth(r, i) == IF i > r.len THEN Zlp ELSE Packet(r, i)

\* After n packets of r, the device will send the others next.
Goes(d, r, n) ==
    IF n < r.len THEN d.tx_pending /\ d.tx = r /\ d.tx_offset = n /\ ~d.needs_zlp
    ELSE ~d.tx_pending /\ (d.needs_zlp <=> n < Total(r))

\* A packet that starts an answer to the current command.
Mine(p) == p.first /\ p.seq = host.seq

\* The first n packets of r were read, and the rest follows.
Reads(d, e, r, n) ==
    /\ n < Total(r)
    /\ \A i \in 1..n : host.got[i] = Nth(r, i)
    /\ IF e = None THEN Goes(d, r, n) ELSE e = Nth(r, n + 1) /\ Goes(d, r, n + 1)

\* The answer to the current command: whether it is in the buffer, at the
\* endpoint or partly read, the host has nothing more to send, and the rest
\* follows.
Answering(d, e, o) ==
    /\ d.tx_pending /\ d.tx.seq = host.seq => ~MoreToCome(o)
    /\ e # None /\ Mine(e) =>
          ~MoreToCome(o) /\ e.of.len > 0 /\ e = Packet(e.of, 1) /\ Goes(d, e.of, 1)
    /\ host.got # <<>> /\ Mine(host.got[1]) =>
          ~MoreToCome(o) /\ Reads(d, e, host.got[1].of, Len(host.got))

\* The device, its endpoint e to the host and o from it.
Transfer(d, e, o) ==
    /\ d \in Devices /\ Sending(d) /\ Received(d, o)
    /\ UnderWay(d, e) /\ Answering(d, e, o)

TransferInv == ReaderTypes /\ HostPlace /\ Transfer(dev, ep_in, ep_out)

\* With a PIN pad nothing is claimed; it does not come or go.
Padded(d) == "pin_pad" \in DOMAIN d /\ d.pin_pad

ContactInv == Padded(dev) \/ TransferInv

-----------------------------------------------------------------------------
(* Packets *)

\* A packet is not the mark for none.
LEMMA PacketIsNotNone == None \notin OutPackets /\ None \notin InPackets
<1>1. \A p \in OutPackets : p # None
  <2> SUFFICES ASSUME NEW p \in OutPackets PROVE p # None
    OBVIOUS
  <2>1. DOMAIN p = {"kind", "seq", "part", "junk"} /\ DOMAIN None = {"none"}
    BY DEF OutPackets, None
  <2>2. QED
    BY <2>1
<1>2. \A p \in InPackets : p # None
  <2> SUFFICES ASSUME NEW p \in InPackets PROVE p # None
    OBVIOUS
  <2>1. DOMAIN p = {"seq", "first", "full", "of"} /\ DOMAIN None = {"none"}
    BY DEF InPackets, None
  <2>2. QED
    BY <2>1
<1>3. QED
  BY <1>1, <1>2

\* The packets of a response.
LEMMA PacketFacts ==
    ASSUME NEW r \in Answers, NEW i \in Nat
    PROVE  /\ Packet(r, i) \in InPackets /\ Packet(r, i).of = r /\ Packet(r, i).seq = r.seq
           /\ Packet(r, i).first <=> i = 1
           /\ Packet(r, i).full <=> i < r.len \/ (i = r.len /\ r.exact)
<1>1. (i = 1) \in BOOLEAN /\ (i < r.len \/ (i = r.len /\ r.exact)) \in BOOLEAN
  OBVIOUS
<1>2. r.seq \in Tags
  BY DEF Answers
<1>3. QED
  BY <1>1, <1>2 DEF Packet, InPackets

\* The empty packet starts nothing and ends what it follows.
LEMMA ZlpFacts == Zlp \in InPackets /\ ~Zlp.first /\ ~Zlp.full
<1>1. NoResponse \in Answers /\ JunkSeq \in Tags
  BY ContactAssumption DEF NoResponse, Response, Answers, Tags, JunkSeq
<1>2. QED
  BY <1>1 DEF Zlp, InPackets

\* NoResponse is a response of no packet, and JunkSeq no bSeq of a command.
LEMMA NoResponseFacts ==
    /\ NoResponse \in Answers
    /\ \A q \in Seqs : q \in Nat /\ q < SeqMod /\ q # JunkSeq /\ q \in Tags
    /\ JunkSeq \in Tags
BY ContactAssumption DEF NoResponse, Response, Answers, Tags, JunkSeq, Seqs

-----------------------------------------------------------------------------
(* The calls of UsbClass::poll *)

\* check_card_presence drops what is received and leaves what is sent.
LEMMA PresenceKeeps ==
    ASSUME NEW d, NEW e, NEW o, Transfer(d, e, o)
    PROVE  Transfer(CheckCardPresence(d), e, o)
<1>1. CASE CheckCardPresence(d) = d
  BY <1>1
<1>2. CASE CheckCardPresence(d) = [d EXCEPT !.present = TRUE, !.slot = "PresentInactive"]
  <2>1. PICK c : c = CheckCardPresence(d)
    OBVIOUS
  <2>2. /\ c \in Devices /\ c.rx = d.rx /\ c.tx = d.tx /\ c.tx_pending = d.tx_pending
        /\ c.tx_offset = d.tx_offset /\ c.needs_zlp = d.needs_zlp
    BY <1>2, <2>1 DEF Transfer, Devices
  <2>3. Transfer(c, e, o)
    BY <2>2 DEF Transfer, Sending, Received, UnderWay, Answering, Headed, Whole, Goes, Reads
  <2>4. QED
    BY <2>1, <2>3
<1>3. CASE CheckCardPresence(d) =
           [d EXCEPT !.present = FALSE, !.slot = "Absent", !.session = NoCard, !.secure = None,
                     !.rx = <<>>, !.busy = FALSE]
  <2>1. PICK c : c = CheckCardPresence(d)
    OBVIOUS
  <2>2. <<>> \in Seq(OutPackets)
    BY EmptySeq
  <2>3. /\ c \in Devices /\ c.rx = <<>> /\ c.tx = d.tx /\ c.tx_pending = d.tx_pending
        /\ c.tx_offset = d.tx_offset /\ c.needs_zlp = d.needs_zlp
    <3>1. d \in Devices
      BY DEF Transfer
    <3>2. c \in Devices
      BY <1>3, <2>1, <2>2, <3>1 DEF Devices
    <3>3. /\ c.rx = <<>> /\ c.tx = d.tx /\ c.tx_pending = d.tx_pending
          /\ c.tx_offset = d.tx_offset /\ c.needs_zlp = d.needs_zlp
      BY <1>3, <2>1, <3>1 DEF Devices
    <3>4. QED
      BY <3>2, <3>3
  <2>4. Transfer(c, e, o)
    BY <2>3 DEF Transfer, Sending, Received, UnderWay, Answering, Headed, Goes, Reads
  <2>5. QED
    BY <2>1, <2>4
<1>4. QED
  BY <1>1, <1>2, <1>3 DEF CheckCardPresence

\* What the types of a device give.
LEMMA DeviceFacts ==
    ASSUME NEW d \in Devices
    PROVE  /\ d.rx \in Seq(OutPackets) /\ d.tx \in Answers /\ d.tx.len \in Nat
           /\ d.tx.exact \in BOOLEAN /\ d.tx.seq \in Tags /\ d.tx_offset \in Nat
           /\ d.tx_pending \in BOOLEAN /\ d.needs_zlp \in BOOLEAN /\ ~d.panicked /\ ~d.pin_pad
BY DEF Devices, Answers

\* An offset that is in the response and not its last packet's.
LEMMA NextPacket ==
    ASSUME NEW d \in Devices, NEW e \in InPackets \cup {None}, Sending(d), d.tx_pending,
           ~d.needs_zlp, link, e = None
    PROVE  TrySend(d, e) = IF d.tx_offset + 1 >= d.tx.len
                           THEN <<Finished(d), Packet(d.tx, d.tx_offset + 1)>>
                           ELSE <<[d EXCEPT !.tx_offset = @ + 1], Packet(d.tx, d.tx_offset + 1)>>
<1>1. d.tx_offset < d.tx.len /\ d.tx_offset \in Nat /\ d.tx.len \in Nat
  BY DeviceFacts DEF Sending
<1>2. ~(d.tx_offset > d.tx.len) /\ d.tx.len # 0 /\ d.tx_offset # d.tx.len
  BY <1>1
<1>3. QED
  BY <1>2, Zenon DEF TrySend

\* The last packet of a response leaves the device idle, but for the empty
\* packet that a full one asks for.
LEMMA FinishedFacts ==
    ASSUME NEW d \in Devices
    PROVE  /\ Finished(d) \in Devices /\ Finished(d).rx = <<>> /\ ~Finished(d).tx_pending
           /\ Finished(d).needs_zlp = d.tx.exact
<1>1. PICK t : t = TakeResponse(d)
  OBVIOUS
<1>2. <<>> \in Seq(OutPackets) /\ NoResponse \in Answers
  BY EmptySeq, NoResponseFacts
<1>3. t \in Devices /\ t.rx = <<>>
  BY <1>1, <1>2 DEF TakeResponse, Devices
<1>4. Finished(d) = [t EXCEPT !.tx_pending = FALSE, !.tx_offset = 0, !.needs_zlp = d.tx.exact]
  BY <1>1 DEF Finished
<1>5. d.tx.exact \in BOOLEAN
  BY DeviceFacts
<1>6. \A b \in BOOLEAN : [t EXCEPT !.tx_pending = FALSE, !.tx_offset = 0, !.needs_zlp = b] \in Devices
  BY <1>3 DEF Devices
<1>7. QED
  BY <1>3, <1>4, <1>5, <1>6 DEF Devices

\* A packet that fits the endpoint.
LEMMA PacketSent ==
    ASSUME NEW d, NEW o, HostPlace, host \in Hosts, Transfer(d, None, o), d.tx_pending, ~d.needs_zlp,
           NEW f \in Devices, f.rx \in {<<>>, d.rx}, f.tx_pending <=> d.tx_offset + 1 < d.tx.len,
           f.tx_pending => f.rx = d.rx /\ f.tx = d.tx /\ f.tx_offset = d.tx_offset + 1 /\ ~f.needs_zlp,
           ~f.tx_pending => f.rx = <<>> /\ (f.needs_zlp <=> d.tx.exact)
    PROVE  Transfer(f, Packet(d.tx, d.tx_offset + 1), o)
<1> DEFINE r == d.tx
           n == d.tx_offset
           e == Packet(d.tx, d.tx_offset + 1)
<1>1. /\ d \in Devices /\ r \in Answers /\ n \in Nat /\ n + 1 \in Nat /\ r.len \in Nat /\ n < r.len
      /\ r.exact \in BOOLEAN /\ Sending(d) /\ Received(d, o) /\ UnderWay(d, None)
      /\ Answering(d, None, o)
  BY DeviceFacts DEF Transfer, Sending
<1>2. /\ e \in InPackets /\ e # None /\ e.of = r /\ e.seq = r.seq /\ (e.first <=> n = 0)
  BY <1>1, PacketFacts, PacketIsNotNone
<1>3. \A k \in Nat : k = n + 1 => Goes(f, r, k)
  <2>1. CASE n + 1 < r.len
    BY <1>1, <2>1 DEF Goes
  <2>2. CASE ~(n + 1 < r.len)
    BY <1>1, <2>2 DEF Goes, Total
  <2>3. QED
    BY <2>1, <2>2
<1>4. Sending(f) /\ Received(f, o)
  BY <1>1 DEF Sending, Received, Headed, Whole
<1>5. UnderWay(f, e)
  BY <1>1, <1>2 DEF UnderWay, Headed
<1>6. f.tx_pending /\ f.tx.seq = host.seq => ~MoreToCome(o)
  BY <1>1 DEF Answering
<1>7. ASSUME Mine(e)
      PROVE  ~MoreToCome(o) /\ e.of.len > 0 /\ e = Packet(e.of, 1) /\ Goes(f, e.of, 1)
  <2>1. n = 0 /\ r.seq = host.seq
    BY <1>2, <1>7 DEF Mine
  <2>2. ~MoreToCome(o) /\ r.len > 0
    BY <1>1, <2>1 DEF Answering
  <2>3. n + 1 = 1
    BY <2>1
  <2>4. Goes(f, r, 1)
    BY <1>3, <2>3
  <2>5. QED
    BY <1>2, <2>2, <2>3, <2>4
<1>8. ASSUME host.got # <<>>, Mine(host.got[1])
      PROVE  ~MoreToCome(o) /\ Reads(f, e, host.got[1].of, Len(host.got))
  <2>1. ~MoreToCome(o) /\ Reads(d, None, host.got[1].of, Len(host.got))
    BY <1>1, <1>8 DEF Answering
  <2>2. Goes(d, host.got[1].of, Len(host.got))
    BY <2>1 DEF Reads
  <2>3. host.got[1].of = r /\ Len(host.got) = n
    BY <2>2 DEF Goes
  <2>4. Goes(f, r, n + 1) /\ e = Nth(r, n + 1)
    BY <1>1, <1>3 DEF Nth
  <2>5. QED
    BY <1>2, <2>1, <2>3, <2>4 DEF Reads
<1>9. Answering(f, e, o)
  BY <1>6, <1>7, <1>8 DEF Answering
<1>10. QED
  BY <1>4, <1>5, <1>9 DEF Transfer

\* The empty packet after a full one.
LEMMA ZlpSent ==
    ASSUME NEW d, NEW o, host \in Hosts, Transfer(d, None, o), d.needs_zlp
    PROVE  Transfer([d EXCEPT !.needs_zlp = FALSE], Zlp, o)
<1>1. PICK f : f = [d EXCEPT !.needs_zlp = FALSE]
  OBVIOUS
<1>2. /\ f \in Devices /\ f.rx = d.rx /\ f.tx = d.tx /\ f.tx_pending = d.tx_pending
      /\ f.tx_offset = d.tx_offset /\ ~f.needs_zlp
  BY <1>1 DEF Transfer, Devices
<1>3. Sending(f) /\ Received(f, o) /\ UnderWay(f, Zlp)
  BY <1>2, ZlpFacts DEF Transfer, Sending, Received, UnderWay, Headed, Whole
<1>4. f.tx_pending /\ f.tx.seq = host.seq => ~MoreToCome(o)
  BY <1>2 DEF Transfer, Answering
<1>5. ASSUME host.got # <<>>, Mine(host.got[1])
      PROVE  ~MoreToCome(o) /\ Reads(f, Zlp, host.got[1].of, Len(host.got))
  <2>1. PICK r : r = host.got[1].of
    OBVIOUS
  <2>2. PICK n : n = Len(host.got)
    OBVIOUS
  <2>3. host.got \in Seq(InPackets) /\ n \in Nat \ {0} /\ host.got[1] \in InPackets
    BY <1>5, <2>2, EmptySeq, ElementOfSeq DEF Hosts
  <2>4. r \in Answers /\ r.len \in Nat /\ r.exact \in BOOLEAN
    BY <2>1, <2>3 DEF InPackets, Answers
  <2>5. ~MoreToCome(o) /\ Reads(d, None, r, n)
    BY <1>5, <2>1, <2>2 DEF Transfer, Answering
  <2>6. Goes(d, r, n) /\ n < Total(r)
    BY <2>5 DEF Reads
  <2>7. ~d.tx_pending /\ ~(n < r.len)
    BY <2>6 DEF Goes
  <2>8. n = r.len /\ Total(r) = n + 1
    BY <2>3, <2>4, <2>6, <2>7 DEF Total
  <2>9. Goes(f, r, n + 1) /\ Zlp = Nth(r, n + 1)
    BY <1>2, <2>3, <2>4, <2>7, <2>8 DEF Goes, Nth
  <2>10. Reads(f, Zlp, r, n)
    BY <2>5, <2>9, ZlpFacts, PacketIsNotNone DEF Reads
  <2>11. QED
    BY <2>1, <2>2, <2>5, <2>10
<1>6. Answering(f, Zlp, o)
  BY <1>4, <1>5, ZlpFacts DEF Answering, Mine
<1>7. QED
  BY <1>1, <1>2, <1>3, <1>6 DEF Transfer

\* A write to a bus that is down drops the response or the empty packet.
LEMMA DroppedKeeps ==
    ASSUME NEW d, NEW o, NEW f \in Devices, Transfer(d, None, o), host.got = <<>>,
           \/ f = [d EXCEPT !.needs_zlp = FALSE]
           \/ f.rx = <<>> /\ ~f.tx_pending
    PROVE  Transfer(f, None, o)
<1>1. f.rx \in {<<>>, d.rx} /\ (f.tx_pending => f.rx = d.rx /\ d.tx_pending /\ f.tx = d.tx /\ f.tx_offset = d.tx_offset)
      /\ (f.rx # <<>> => f.tx_pending = d.tx_pending)
  BY DEF Transfer, Devices
<1>2. Sending(f) /\ Received(f, o) /\ UnderWay(f, None)
  BY <1>1 DEF Transfer, Sending, Received, UnderWay, Headed, Whole
<1>3. Answering(f, None, o)
  BY <1>1 DEF Transfer, Answering
<1>4. QED
  BY <1>2, <1>3 DEF Transfer

\* try_send: whatever it sends, what was read and what is to come agree.
LEMMA TrySendKeeps ==
    ASSUME NEW d, NEW e \in InPackets \cup {None}, NEW o, HostPlace, host \in Hosts, Transfer(d, e, o),
           ~link => e = None
    PROVE  TrySend(d, e)[2] \in InPackets \cup {None} /\ Transfer(TrySend(d, e)[1], TrySend(d, e)[2], o)
           /\ (~link => TrySend(d, e)[2] = None)
<1> DEFINE Goal == /\ TrySend(d, e)[2] \in InPackets \cup {None}
                   /\ Transfer(TrySend(d, e)[1], TrySend(d, e)[2], o)
                   /\ ~link => TrySend(d, e)[2] = None
<1> SUFFICES Goal
  OBVIOUS
<1>0. d \in Devices /\ Sending(d) /\ d.tx_offset \in Nat /\ d.tx.len \in Nat
  BY DeviceFacts DEF Transfer
<1>1. CASE TrySend(d, e) = <<d, e>>
  BY <1>1
<1>2. CASE ~link /\ d.needs_zlp
  <2>1. TrySend(d, e) = <<[d EXCEPT !.needs_zlp = FALSE], None>>
    BY <1>2, Zenon DEF TrySend
  <2>2. [d EXCEPT !.needs_zlp = FALSE] \in Devices
    BY <1>0 DEF Devices
  <2>3. host.got = <<>>
    BY <1>2 DEF HostPlace
  <2>4. Transfer([d EXCEPT !.needs_zlp = FALSE], None, o)
    BY <1>2, <2>2, <2>3, DroppedKeeps, Zenon
  <2>5. QED
    BY <2>1, <2>4
<1>3. CASE link /\ e = None /\ d.needs_zlp
  <2>1. TrySend(d, e) = <<[d EXCEPT !.needs_zlp = FALSE], Zlp>>
    BY <1>3, Zenon DEF TrySend
  <2>2. QED
    BY <1>3, <2>1, ZlpSent, ZlpFacts
<1>4. CASE ~link /\ ~d.needs_zlp /\ d.tx_pending
  <2>1. PICK f : f = [TakeResponse(d) EXCEPT !.tx_pending = FALSE, !.tx_offset = 0]
    OBVIOUS
  <2>2. <<>> \in Seq(OutPackets) /\ NoResponse \in Answers
    BY EmptySeq, NoResponseFacts
  <2>3. TakeResponse(d) \in Devices /\ TakeResponse(d).rx = <<>>
    BY <1>0, <2>2 DEF TakeResponse, Devices
  <2>4. f \in Devices /\ f.rx = <<>> /\ ~f.tx_pending
    BY <2>1, <2>3 DEF Devices
  <2>5. ~(d.tx_offset > d.tx.len)
    BY <1>0, <1>4 DEF Sending
  <2>6. TrySend(d, e) = <<f, None>>
    BY <1>4, <2>1, <2>5, Zenon DEF TrySend
  <2>7. Transfer(f, None, o)
    BY <1>4, <2>4, DroppedKeeps DEF HostPlace
  <2>8. QED
    BY <2>6, <2>7
<1>5. CASE link /\ e = None /\ ~d.needs_zlp /\ d.tx_pending
  <2>1. d.tx_offset + 1 \in Nat /\ d.tx \in Answers /\ d.tx.exact \in BOOLEAN /\ Transfer(d, None, o)
    BY <1>0, <1>5, DeviceFacts
  <2>2. Packet(d.tx, d.tx_offset + 1) \in InPackets
    BY <2>1, PacketFacts
  <2>3. CASE d.tx_offset + 1 >= d.tx.len
    <3>1. TrySend(d, e) = <<Finished(d), Packet(d.tx, d.tx_offset + 1)>>
      BY <1>0, <1>5, <2>3, NextPacket
    <3>2. PICK f : f = Finished(d)
      OBVIOUS
    <3>3. f \in Devices /\ f.rx = <<>> /\ ~f.tx_pending /\ f.needs_zlp = d.tx.exact
      BY <1>0, <3>2, FinishedFacts
    <3>4. ~(d.tx_offset + 1 < d.tx.len)
      BY <1>0, <2>3
    <3>5. Transfer(f, Packet(d.tx, d.tx_offset + 1), o)
      BY <1>5, <2>1, <3>3, <3>4, PacketSent
    <3>6. QED
      BY <1>5, <2>2, <3>1, <3>2, <3>5
  <2>4. CASE ~(d.tx_offset + 1 >= d.tx.len)
    <3>1. TrySend(d, e) = <<[d EXCEPT !.tx_offset = @ + 1], Packet(d.tx, d.tx_offset + 1)>>
      BY <1>0, <1>5, <2>4, NextPacket
    <3>2. PICK f : f = [d EXCEPT !.tx_offset = @ + 1]
      OBVIOUS
    <3>3. f \in Devices /\ f.rx = d.rx /\ f.tx_pending /\ f.tx = d.tx /\ f.tx_offset = d.tx_offset + 1
          /\ ~f.needs_zlp
      BY <1>0, <1>5, <2>1, <3>2 DEF Devices
    <3>4. d.tx_offset + 1 < d.tx.len
      BY <1>0, <2>4
    <3>5. Transfer(f, Packet(d.tx, d.tx_offset + 1), o)
      BY <1>5, <2>1, <3>3, <3>4, PacketSent
    <3>6. QED
      BY <1>5, <2>2, <3>1, <3>2, <3>5
  <2>5. QED
    BY <2>3, <2>4
<1>6. CASE link /\ e # None
  <2>1. ~(d.tx_pending /\ d.tx_offset > d.tx.len)
    BY <1>0 DEF Sending
  <2>2. TrySend(d, e) = <<d, e>>
    BY <1>6, <2>1, Zenon DEF TrySend, PacketWaits
  <2>3. QED
    BY <1>1, <2>2
<1>7. CASE ~d.needs_zlp /\ ~d.tx_pending
  <2>1. TrySend(d, e) = <<d, e>>
    BY <1>7, Zenon DEF TrySend
  <2>2. QED
    BY <1>1, <2>1
<1>8. QED
  BY <1>1, <1>2, <1>3, <1>4, <1>5, <1>6, <1>7

\* A packet of the host meets rx_buffer: the message at its head stays there,
\* or the packet starts one.
LEMMA FeedFacts ==
    ASSUME NEW d \in Devices, NEW o \in OutPackets
    PROVE  /\ Feed(d, o) \in Devices
           /\ Feed(d, o) = [d EXCEPT !.rx = Feed(d, o).rx]
           /\ d.rx = <<>> => Feed(d, o).rx \in {<<>>, <<o>>}
           /\ d.rx # <<>> => \/ Feed(d, o).rx = <<>>
                             \/ Feed(d, o).rx[1] = d.rx[1] /\ Len(Feed(d, o).rx) >= 2
           /\ Feed(d, o).rx # <<>> => Declared(Feed(d, o).rx[1]) # 0
<1>0. d.rx \in Seq(OutPackets) /\ Len(d.rx) \in Nat /\ RxPackets \in Nat /\ RxPackets >= 2
  BY DeviceFacts, ContactAssumption
<1>1. PICK a : a = IF Len(d.rx) < RxPackets THEN Append(d.rx, o) ELSE d.rx
  OBVIOUS
<1>2. a \in Seq(OutPackets)
  BY <1>0, <1>1, AppendProperties
<1>3. d.rx = <<>> => a = <<o>>
  <2> SUFFICES ASSUME d.rx = <<>> PROVE a = <<o>>
    OBVIOUS
  <2>1. Len(d.rx) < RxPackets
    BY <1>0, EmptySeq
  <2>2. QED
    BY <1>1, <2>1
<1>4. d.rx # <<>> => a[1] = d.rx[1] /\ Len(a) >= 2
  <2> SUFFICES ASSUME d.rx # <<>> PROVE a[1] = d.rx[1] /\ Len(a) >= 2
    OBVIOUS
  <2>1. Len(d.rx) >= 1
    BY <1>0, EmptySeq
  <2>2. CASE Len(d.rx) < RxPackets
    BY <1>0, <1>1, <2>1, <2>2, AppendProperties
  <2>3. CASE ~(Len(d.rx) < RxPackets)
    BY <1>0, <1>1, <2>3
  <2>4. QED
    BY <2>2, <2>3
<1>5. PICK b : b = IF Declared(a[1]) = 0 THEN <<>> ELSE a
  OBVIOUS
<1>6. b \in Seq(OutPackets) /\ (b = <<>> \/ b = a) /\ (b # <<>> => Declared(b[1]) # 0)
  BY <1>2, <1>5, EmptySeq
<1>7. Feed(d, o) = [d EXCEPT !.rx = b]
  BY <1>1, <1>5, Zenon DEF Feed
<1>8. Feed(d, o) \in Devices /\ Feed(d, o).rx = b
  BY <1>6, <1>7 DEF Devices
<1>9. QED
  BY <1>3, <1>4, <1>6, <1>7, <1>8

\* What a message gets for an answer: one of at least a packet, with the bSeq
\* of the message at the head of rx_buffer or of none.
LEMMA HandleFacts ==
    ASSUME NEW d \in Devices, d.rx # <<>>, card \in Cards \cup {NoCard}, NEW h \in HandleMessage(d)
    PROVE  /\ h \in Devices /\ h.rx = d.rx /\ h.needs_zlp = d.needs_zlp /\ h.tx.len > 0
           /\ h.tx.seq = JunkSeq \/ (d.rx[1].part = 1 /\ h.tx.seq = d.rx[1].seq)
<1>0. d.rx[1] \in OutPackets /\ ~d.pin_pad
  <2>1. d.rx \in Seq(OutPackets) /\ Len(d.rx) # 0 /\ Len(d.rx) \in Nat /\ ~d.pin_pad
    BY DeviceFacts, EmptySeq
  <2>2. 1 \in 1..Len(d.rx)
    BY <2>1
  <2>3. QED
    BY <2>1, <2>2, ElementOfSeq
<1>1. PICK q : q = d.rx[1].seq
  OBVIOUS
<1>2. q \in Tags /\ JunkSeq \in Tags /\ d.rx[1].part \in {1, 2}
  BY <1>0, <1>1, NoResponseFacts DEF OutPackets
<1> DEFINE Fits(g, t) == /\ g \in Devices /\ g.rx = d.rx /\ g.needs_zlp = d.needs_zlp
                         /\ g.tx.len > 0 /\ g.tx.seq = t
<1>3. ASSUME NEW t \in Tags, NEW len \in {1, 3}, NEW exact \in BOOLEAN, NEW b \in BOOLEAN,
             NEW s \in {"PresentInactive", "PresentActive"}, NEW c \in Cards \cup {NoCard}
      PROVE  /\ Fits([d EXCEPT !.tx = Response(t, len, exact)], t)
             /\ Fits([d EXCEPT !.busy = b, !.tx = Response(t, len, exact)], t)
             /\ Fits([[d EXCEPT !.busy = b] EXCEPT !.tx = Response(t, len, exact)], t)
             /\ Fits([[d EXCEPT !.busy = b] EXCEPT !.tx = Response(t, len, exact), !.slot = s, !.session = c], t)
  <2>1. PICK r : r = Response(t, len, exact)
    OBVIOUS
  <2>2. r \in Answers /\ r.len > 0 /\ r.seq = t
    BY <2>1 DEF Response, Answers
  <2>3. QED
    BY <2>1, <2>2 DEF Devices
<1> HIDE DEF Fits
<1>4. ASSUME NEW g \in Dispatch([d EXCEPT !.busy = TRUE], d.rx[1].kind, q)
      PROVE  Fits(g, q)
  <2>1. PICK b : b = [d EXCEPT !.busy = TRUE]
    OBVIOUS
  <2>2. ~b.pin_pad
    BY <1>0, <2>1 DEF Devices
  <2>3. \/ g \in {[b EXCEPT !.tx = r] : r \in {Short(q), Response(q, 1, TRUE), Response(q, 3, FALSE)}}
        \/ card # NoCard /\ g \in {[b EXCEPT !.tx = Short(q), !.slot = "PresentActive", !.session = card],
                 [b EXCEPT !.tx = Short(q), !.slot = "PresentInactive", !.session = NoCard]}
        \/ g \in {[b EXCEPT !.tx = Short(q), !.slot = "PresentInactive", !.session = NoCard]}
        \/ g \in {[b EXCEPT !.tx = Short(q)]}
    BY <1>4, <2>1, <2>2, Zenon DEF Dispatch
  <2>4. \A c \in Cards \cup {NoCard}, s \in {"PresentInactive", "PresentActive"} :
           Fits([b EXCEPT !.tx = Short(q), !.slot = s, !.session = c], q)
    BY <1>2, <1>3, <2>1 DEF Short
  <2>5. Fits([b EXCEPT !.tx = Short(q)], q) /\ Fits([b EXCEPT !.tx = Response(q, 1, TRUE)], q)
        /\ Fits([b EXCEPT !.tx = Response(q, 3, FALSE)], q)
    BY <1>2, <1>3, <2>1 DEF Short
  <2>6. QED
    BY <2>3, <2>4, <2>5
<1>5. CASE d.rx[1].part = 2
  <2>1. \/ h = [d EXCEPT !.tx = Short(JunkSeq)]
        \/ h = [d EXCEPT !.busy = TRUE, !.tx = Short(JunkSeq)]
    BY <1>5 DEF HandleMessage
  <2>2. Fits(h, JunkSeq)
    BY <1>2, <1>3, <2>1 DEF Short
  <2>3. QED
    BY <2>2 DEF Fits
<1>6. CASE d.rx[1].part = 1
  <2>1. \/ h = [d EXCEPT !.tx = Short(q)]
        \/ h \in Dispatch([d EXCEPT !.busy = TRUE], d.rx[1].kind, q)
    BY <1>1, <1>6 DEF HandleMessage
  <2>2. Fits(h, q)
    BY <1>2, <1>3, <1>4, <2>1 DEF Short
  <2>3. QED
    BY <1>1, <1>6, <2>2 DEF Fits
<1>7. QED
  BY <1>2, <1>5, <1>6

\* While the host has something to send, nothing under way answers it.
LEMMA NothingAnswers ==
    ASSUME NEW d, NEW e, NEW o, Transfer(d, e, o), MoreToCome(o)
    PROVE  /\ ~(d.tx_pending /\ d.tx.seq = host.seq)
           /\ ~(e # None /\ Mine(e))
           /\ ~(host.got # <<>> /\ Mine(host.got[1]))
BY DEF Transfer, Answering

\* The bSeq of the command the host waits for is recent.
LEMMA CurrentIsRecent ==
    ASSUME host \in Hosts, host.waiting, faults \in 0..MaxFaults
    PROVE  Recent(host.seq)
<1>1. host.seq \in Nat
  BY NoResponseFacts DEF Hosts
<1>2. QED
  BY <1>1, ContactAssumption DEF Recent, Lag

\* The packets a command declares.
LEMMA DeclaredIs ==
    ASSUME NEW p \in OutPackets, p.part = 1
    PROVE  Declared(p) = IF p.kind = "Xfr" THEN 2 ELSE 1
<1>1. p.junk # "more" /\ p.junk # "never"
  BY DEF OutPackets
<1>2. QED
  BY <1>1 DEF Declared

\* A message is complete with its last packet, and the packet after the first
\* completes any.
LEMMA MessageIs ==
    ASSUME ReaderTypes, HostPlace, NEW d, NEW e, ep_out # None, Transfer(d, e, ep_out),
           NEW f, f = Feed(d, ep_out), Headed(f)
    PROVE  /\ Recent(f.rx[1].seq)
           /\ ~Whole(f) /\ host.waiting => host.part > 0
           /\ f.rx[1].seq = host.seq =>
                 /\ f.rx[1].kind = host.kind
                 /\ Whole(f) => host.part = 0
                 /\ ~Whole(f) /\ host.waiting => host.part = 2
<1>0. /\ ep_out \in OutPackets /\ d \in Devices /\ host.waiting /\ host.part \in {0, 1, 2}
      /\ ep_out.seq = host.seq /\ ep_out.kind = host.kind
      /\ host.part = (IF ep_out.part = 1 /\ host.kind = "Xfr" THEN 2 ELSE 0)
      /\ Received(d, ep_out) /\ UnderWay(d, e)
  BY DEF ReaderTypes, HostPlace, Transfer, Hosts
<1>1. f.rx # <<>> /\ f.rx[1].part = 1
  BY DEF Headed
<1>2. CASE d.rx = <<>>
  <2>1. f.rx = <<ep_out>> /\ f.rx[1] = ep_out /\ Len(f.rx) = 1
    BY <1>0, <1>1, <1>2, FeedFacts
  <2>2. Recent(f.rx[1].seq)
    BY <1>0, <2>1, CurrentIsRecent DEF ReaderTypes
  <2>3. Declared(f.rx[1]) = IF host.kind = "Xfr" THEN 2 ELSE 1
    BY <1>0, <1>1, <2>1, DeclaredIs
  <2>4. Whole(f) <=> host.kind # "Xfr"
    BY <2>1, <2>3 DEF Whole
  <2>5. QED
    BY <1>0, <1>1, <2>1, <2>2, <2>4
<1>3. CASE d.rx # <<>>
  <2>1. f.rx[1] = d.rx[1] /\ Len(f.rx) >= 2
    BY <1>0, <1>1, <1>3, FeedFacts
  <2>2. Headed(d)
    BY <1>1, <1>3, <2>1 DEF Headed
  <2>3. Recent(f.rx[1].seq)
    BY <1>0, <2>1, <2>2 DEF UnderWay
  <2>4. Declared(f.rx[1]) \in {1, 2}
    <3>1. f.rx \in Seq(OutPackets) /\ Len(f.rx) \in Nat
      BY <1>0, FeedFacts, DeviceFacts
    <3>2. f.rx[1] \in OutPackets
      BY <2>1, <3>1, ElementOfSeq
    <3>3. QED
      BY <1>1, <3>2, DeclaredIs
  <2>5. Whole(f)
    <3>1. Len(f.rx) \in Nat
      BY <1>0, FeedFacts, DeviceFacts
    <3>2. QED
      BY <2>1, <2>4, <3>1 DEF Whole
  <2>6. ASSUME f.rx[1].seq = host.seq PROVE f.rx[1].kind = host.kind /\ host.part = 0
    <3>1. d.rx[1].kind = host.kind /\ ~Whole(d)
      BY <1>0, <2>1, <2>2, <2>6 DEF Received, MoreToCome
    <3>2. ep_out.part = 2
      BY <1>0, <2>1, <2>2, <2>6, <3>1 DEF Received
    <3>3. QED
      BY <1>0, <2>1, <3>1, <3>2
  <2>7. QED
    BY <2>3, <2>5, <2>6
<1>4. QED
  BY <1>2, <1>3

\* A packet that completes no message is kept.
LEMMA FedKeeps ==
    ASSUME ReaderTypes, HostPlace, NEW d, NEW e, ep_out # None, Transfer(d, e, ep_out),
           ~MessageReady(Feed(d, ep_out))
    PROVE  Transfer(Feed(d, ep_out), e, None)
<1>1. PICK f : f = Feed(d, ep_out)
  OBVIOUS
<1>2. d \in Devices /\ ep_out \in OutPackets
  BY DEF Transfer, ReaderTypes
<1>3. /\ f \in Devices /\ f.tx = d.tx /\ f.tx_pending = d.tx_pending /\ f.tx_offset = d.tx_offset
      /\ f.needs_zlp = d.needs_zlp
  <2>1. PICK x : x = f.rx
    OBVIOUS
  <2>2. f \in Devices /\ f = [d EXCEPT !.rx = x]
    BY <1>1, <1>2, <2>1, FeedFacts
  <2>3. QED
    BY <1>2, <2>2 DEF Devices
<1>4. MoreToCome(ep_out)
  BY DEF MoreToCome
<1>5. Headed(f) => ~Whole(f)
  <2> SUFFICES ASSUME Headed(f) PROVE ~Whole(f)
    OBVIOUS
  <2>1. f.rx # <<>> /\ Declared(f.rx[1]) # 0
    BY <1>1, <1>2, FeedFacts DEF Headed
  <2>2. QED
    BY <1>1, <2>1 DEF MessageReady, Whole
<1>6. Sending(f)
  BY <1>3 DEF Transfer, Sending
<1>7. UnderWay(f, e)
  BY <1>1, <1>3, MessageIs DEF Transfer, UnderWay
<1>8. Received(f, None)
  <2> SUFFICES ASSUME Headed(f)
               PROVE  /\ ~Whole(f) /\ host.waiting => MoreToCome(None)
                      /\ f.rx[1].seq = host.seq =>
                            f.rx[1].kind = host.kind /\ (~Whole(f) /\ host.waiting => host.part = 2)
    BY <1>5 DEF Received
  <2>1. QED
    BY <1>1, MessageIs DEF MoreToCome
<1>9. Answering(f, e, None)
  <2>1. /\ ~(f.tx_pending /\ f.tx.seq = host.seq) /\ ~(e # None /\ Mine(e))
        /\ ~(host.got # <<>> /\ Mine(host.got[1]))
    BY <1>3, <1>4, NothingAnswers
  <2>2. QED
    BY <2>1 DEF Answering
<1>10. QED
  BY <1>1, <1>3, <1>6, <1>7, <1>8, <1>9 DEF Transfer

\* A complete message is answered, over whatever was being sent.
LEMMA RespondKeeps ==
    ASSUME ReaderTypes, HostPlace, NEW d, NEW e, ep_out # None, Transfer(d, e, ep_out),
           MessageReady(Feed(d, ep_out)), NEW h \in Respond(Feed(d, ep_out))
    PROVE  Transfer(h, e, None)
<1>1. PICK f : f = Feed(d, ep_out)
  OBVIOUS
<1>2. d \in Devices /\ ep_out \in OutPackets /\ f \in Devices /\ f.rx # <<>> /\ card \in Cards \cup {NoCard}
  BY <1>1, FeedFacts DEF Transfer, ReaderTypes, MessageReady
<1>3. PICK g \in HandleMessage(f) : h = [g EXCEPT !.tx_pending = TRUE, !.tx_offset = 0]
  BY <1>1 DEF Respond
<1>4. /\ g \in Devices /\ g.rx = f.rx /\ g.tx.len > 0
      /\ g.tx.seq = JunkSeq \/ (f.rx[1].part = 1 /\ g.tx.seq = f.rx[1].seq)
  BY <1>2, HandleFacts
<1>5. h \in Devices /\ h.rx = f.rx /\ h.tx = g.tx /\ h.tx_pending /\ h.tx_offset = 0
  BY <1>3, <1>4 DEF Devices
<1>6. h.tx.len > 0 /\ (h.tx.seq = JunkSeq \/ (Headed(f) /\ h.tx.seq = f.rx[1].seq))
  BY <1>2, <1>4, <1>5 DEF Headed
<1>7. Headed(h) <=> Headed(f)
  BY <1>5 DEF Headed
<1>8. Whole(h) <=> Whole(f)
  BY <1>5 DEF Whole
<1>9. Whole(f)
  BY <1>1 DEF MessageReady, Whole
<1>10. Sending(h)
  BY <1>5, <1>6 DEF Sending
<1>11. UnderWay(h, e)
  <2>1. Headed(f) => Recent(f.rx[1].seq)
    BY <1>1, MessageIs
  <2>2. Recent(h.tx.seq)
    BY <1>6, <2>1 DEF Recent
  <2>3. QED
    BY <1>5, <1>7, <2>1, <2>2 DEF Transfer, UnderWay
<1>12. MoreToCome(ep_out) /\ (host.part = 0 => ~MoreToCome(None))
  BY DEF MoreToCome
<1>13. Headed(f) /\ f.rx[1].seq = host.seq => f.rx[1].kind = host.kind /\ ~MoreToCome(None)
  BY <1>1, <1>9, <1>12, MessageIs
<1>14. Received(h, None)
  BY <1>5, <1>7, <1>8, <1>9, <1>13 DEF Received
<1>15. Answering(h, e, None)
  <2>1. ~(e # None /\ Mine(e)) /\ ~(host.got # <<>> /\ Mine(host.got[1]))
    BY <1>12, NothingAnswers
  <2>2. host.seq # JunkSeq
    BY NoResponseFacts DEF ReaderTypes, Hosts
  <2>3. h.tx.seq = host.seq => ~MoreToCome(None)
    BY <1>6, <1>13, <2>2
  <2>4. QED
    BY <2>1, <2>3 DEF Answering
<1>16. QED
  BY <1>5, <1>10, <1>11, <1>14, <1>15 DEF Transfer

\* UsbClass::poll keeps the invariant: it takes in the packet at the endpoint,
\* answers a message that is complete and sends on what is being sent.
LEMMA PollKeeps == ASSUME TransferInv, Poll PROVE TransferInv'
<1>0. ReaderTypes /\ HostPlace /\ Transfer(dev, ep_in, ep_out)
  BY DEF TransferInv
<1>1. PICK c : c = CheckCardPresence(dev)
  OBVIOUS
<1>2. PICK t : t = TrySend(c, ep_in)
  OBVIOUS
<1>3. Transfer(c, ep_in, ep_out)
  BY <1>0, <1>1, PresenceKeeps
<1>4. /\ ep_in \in InPackets \cup {None} /\ host \in Hosts /\ (~link => ep_in = None)
  BY <1>0 DEF ReaderTypes, HostPlace
<1>5. t[2] \in InPackets \cup {None} /\ Transfer(t[1], t[2], ep_out) /\ (~link => t[2] = None)
  BY <1>0, <1>2, <1>3, <1>4, TrySendKeeps
<1>6. PICK f : f = IF ep_out = None THEN t[1] ELSE Feed(t[1], ep_out)
  OBVIOUS
<1>7. PICK h \in (IF ep_out # None /\ MessageReady(f) THEN Respond(f) ELSE {f}) :
         dev' = TrySend(h, t[2])[1] /\ ep_in' = TrySend(h, t[2])[2]
  BY <1>1, <1>2, <1>6 DEF Poll
<1>8. Transfer(h, t[2], None)
  <2>1. CASE ep_out = None
    <3>1. h = t[1]
      BY <1>6, <1>7, <2>1
    <3>2. QED
      BY <1>5, <2>1, <3>1
  <2>2. CASE ep_out # None /\ ~MessageReady(f)
    <3>1. f = Feed(t[1], ep_out) /\ h = f
      BY <1>6, <1>7, <2>2
    <3>2. QED
      BY <1>0, <1>5, <2>2, <3>1, FedKeeps
  <2>3. CASE ep_out # None /\ MessageReady(f)
    <3>1. f = Feed(t[1], ep_out) /\ h \in Respond(f)
      BY <1>6, <1>7, <2>3
    <3>2. QED
      BY <1>0, <1>5, <2>3, <3>1, RespondKeeps
  <2>4. QED
    BY <2>1, <2>2, <2>3
<1>9. ep_in' \in InPackets \cup {None} /\ Transfer(dev', ep_in', None) /\ (~link => ep_in' = None)
  BY <1>0, <1>4, <1>5, <1>7, <1>8, TrySendKeeps
<1>10. /\ ep_out' = None /\ UNCHANGED <<card, link, host, faults>>
       /\ app' = [app EXCEPT !.turn = "ui"]
  BY DEF Poll
<1>11. ReaderTypes'
  <2>1. dev' \in Devices
    BY <1>9 DEF Transfer
  <2>2. app' = [turn |-> app'.turn, mode |-> Normal, last_card_present |-> app'.last_card_present,
                enumerated |-> app'.enumerated]
    BY <1>0, <1>10 DEF ReaderTypes
  <2>3. QED
    BY <1>0, <1>9, <1>10, <2>1, <2>2 DEF ReaderTypes
<1>12. HostPlace'
  BY <1>0, <1>9, <1>10 DEF HostPlace
<1>13. Transfer(dev, ep_in, ep_out)'
  BY <1>9, <1>10 DEF Transfer, Sending, Received, UnderWay, Answering, Headed, Whole, MoreToCome, Recent,
     Lag, Mine, Reads
<1>14. QED
  BY <1>11, <1>12, <1>13 DEF TransferInv

-----------------------------------------------------------------------------
(* The main loop, the card, the host and the bus *)

\* What the transfer depends on besides its parameters.
LEMMA SameTransfer ==
    ASSUME TransferInv, UNCHANGED <<dev, ep_in, ep_out, host, faults>>
    PROVE  Transfer(dev, ep_in, ep_out)'
BY DEF TransferInv, Transfer, Sending, Received, UnderWay, Answering, Headed, Whole, MoreToCome, Recent,
       Lag, Mine, Reads

\* Without a PIN session the main loop only minds its screen.
LEMMA MainLoopKeeps == ASSUME TransferInv, MainLoop PROVE TransferInv'
<1>1. /\ ReaderTypes /\ HostPlace /\ dev.secure = None /\ app.mode = Normal
  <2>1. ReaderTypes /\ HostPlace
    BY DEF TransferInv
  <2>2. dev.secure = None
    BY <2>1 DEF ReaderTypes, Devices
  <2>3. PICK t, l, n : app = [turn |-> t, mode |-> Normal, last_card_present |-> l, enumerated |-> n]
    BY <2>1, Zenon DEF ReaderTypes
  <2>4. app.mode = Normal
    BY <2>3
  <2>5. QED
    BY <2>1, <2>2, <2>4
<1>2. IdleScreen /\ UNCHANGED <<card, ep_out, ep_in, link, host, faults, dev>>
  BY <1>1 DEF MainLoop, EnterPinMode, PinModeGoesOn, PinModeEnds, IdleScreen
<1>3. app' = [turn |-> app'.turn, mode |-> Normal, last_card_present |-> app'.last_card_present,
              enumerated |-> app'.enumerated]
  BY <1>1, <1>2 DEF IdleScreen, ReaderTypes
<1>4. ReaderTypes' /\ HostPlace'
  BY <1>1, <1>2, <1>3 DEF ReaderTypes, HostPlace
<1>5. QED
  BY <1>2, <1>4, SameTransfer DEF TransferInv

\* The card moves, or the bus is configured again.
LEMMA QuietKeeps == ASSUME TransferInv, MoveCard \/ Configured PROVE TransferInv'
<1>1. /\ UNCHANGED <<dev, app, ep_in, ep_out, host, faults>> /\ card' \in Cards \cup {NoCard}
      /\ link' \in BOOLEAN /\ (link' \/ link' = link)
  BY DEF TransferInv, ReaderTypes, MoveCard, Configured
<1>2. ReaderTypes' /\ HostPlace'
  BY <1>1 DEF TransferInv, ReaderTypes, HostPlace
<1>3. QED
  BY <1>1, <1>2, SameTransfer DEF TransferInv

\* The next command makes what is under way one command older, and none of it
\* has the new bSeq.
LEMMA OneOlder ==
    ASSUME MaxFaults < SeqMod, host \in Hosts, ~host.waiting, faults \in 0..MaxFaults, NEW q \in Tags,
           Recent(q), host'.seq = (host.seq + 1) % SeqMod, host'.waiting, faults' = faults
    PROVE  Recent(q)' /\ q # host'.seq
<1>0. PICK a : a = host.seq
  OBVIOUS
<1>1. a \in Nat /\ a < SeqMod /\ SeqMod \in Nat /\ MaxFaults \in Nat /\ faults \in Nat /\ faults < SeqMod
  BY <1>0, NoResponseFacts, ContactAssumption DEF Hosts
<1>2. host'.seq = IF a + 1 = SeqMod THEN 0 ELSE a + 1
  <2>1. CASE a + 1 = SeqMod
    BY <1>0, <1>1, <2>1
  <2>2. CASE a + 1 < SeqMod
    BY <1>0, <1>1, <2>2
  <2>3. QED
    BY <1>1, <2>1, <2>2
<1>3. CASE q = JunkSeq
  BY <1>1, <1>2, <1>3 DEF Recent, JunkSeq
<1>4. CASE q # JunkSeq
  <2>1. q \in Nat /\ q < SeqMod
    BY <1>4, NoResponseFacts DEF Tags
  <2>2. (IF q <= a THEN a - q ELSE a + SeqMod - q) + 1 <= faults
    BY <1>0, <1>4 DEF Recent, Lag
  <2>3. PICK b : b = host'.seq
    OBVIOUS
  <2>4. b = (IF a + 1 = SeqMod THEN 0 ELSE a + 1)
    BY <1>2, <2>3
  <2>5. q # b /\ (IF q <= b THEN b - q ELSE b + SeqMod - q) <= faults
    BY <1>1, <2>1, <2>2, <2>4
  <2>6. Lag(q)' = IF q <= b THEN b - q ELSE b + SeqMod - q
    BY <2>3 DEF Lag
  <2>7. b \in Nat
    BY <1>1, <2>4
  <2>8. Lag(q)' + 0 <= faults
    BY <1>1, <2>1, <2>5, <2>6, <2>7
  <2>9. QED
    BY <2>3, <2>5, <2>8 DEF Recent
<1>5. QED
  BY <1>3, <1>4

\* The bSeq of what is under way, and its lag.
LEMMA TagFacts ==
    ASSUME TransferInv
    PROVE  /\ Headed(dev) => dev.rx[1].seq \in Tags
           /\ dev.tx.seq \in Tags
           /\ ep_in # None => ep_in.seq \in Tags
           /\ \A q \in Tags : Lag(q) \in Int
<1>1. ReaderTypes /\ dev \in Devices /\ host \in Hosts
  BY DEF TransferInv, ReaderTypes
<1>2. ASSUME Headed(dev) PROVE dev.rx[1].seq \in Tags
  <2>1. dev.rx \in Seq(OutPackets) /\ Len(dev.rx) # 0 /\ Len(dev.rx) \in Nat
    BY <1>1, <1>2, DeviceFacts, EmptySeq DEF Headed
  <2>2. 1 \in 1..Len(dev.rx)
    BY <2>1
  <2>3. dev.rx[1] \in OutPackets
    BY <2>1, <2>2, ElementOfSeq
  <2>4. QED
    BY <2>3, NoResponseFacts DEF OutPackets
<1>3. dev.tx.seq \in Tags
  BY <1>1, DeviceFacts
<1>4. ep_in # None => ep_in.seq \in Tags
  BY <1>1 DEF ReaderTypes, InPackets
<1>5. \A q \in Tags : Lag(q) \in Int
  <2>1. host.seq \in Nat /\ SeqMod \in Nat /\ Tags \subseteq Nat
    BY <1>1, NoResponseFacts, ContactAssumption DEF Hosts, Tags, JunkSeq
  <2>2. QED
    BY <2>1 DEF Lag
<1>6. QED
  BY <1>2, <1>3, <1>4, <1>5

\* The host sends a command when nothing is left of the last one but what the
\* faults left.
LEMMA HostCommandsKeeps == ASSUME MaxFaults < SeqMod, TransferInv, HostCommands PROVE TransferInv'
<1>0. /\ ReaderTypes /\ HostPlace /\ Transfer(dev, ep_in, ep_out) /\ host \in Hosts /\ dev \in Devices
      /\ ~host.waiting /\ link /\ faults \in 0..MaxFaults /\ ep_out = None
      /\ UNCHANGED <<dev, app, card, ep_out, ep_in, link, faults>>
  BY DEF TransferInv, ReaderTypes, HostPlace, HostCommands
<1>1. PICK kind \in Kinds : host' = NextCommand(kind)
  BY DEF HostCommands
<1>2. (host.seq + 1) % SeqMod \in Seqs
  BY <1>0, NoResponseFacts, ContactAssumption DEF Hosts, Seqs
<1>3. /\ host' \in Hosts /\ host'.seq = (host.seq + 1) % SeqMod /\ host'.waiting
      /\ host'.got = <<>> /\ host'.part = 1
  <2>1. <<>> \in Seq(InPackets)
    BY EmptySeq
  <2>2. QED
    BY <1>0, <1>1, <1>2, <2>1 DEF NextCommand, Hosts
<1>4. ReaderTypes'
  BY <1>0, <1>3 DEF ReaderTypes
<1>5. HostPlace'
  <2>1. \A i \in DOMAIN host'.got : host'.got[i].full
    BY <1>3
  <2>2. QED
    BY <1>0, <1>3, <2>1 DEF HostPlace
<1>6. \A q \in Tags : Recent(q) => Recent(q)' /\ q # host'.seq
  <2> TAKE q \in Tags
  <2> HAVE Recent(q)
  <2>1. QED
    BY <1>0, <1>3, OneOlder
<1>7. /\ Headed(dev) => Recent(dev.rx[1].seq)' /\ dev.rx[1].seq # host'.seq
      /\ dev.tx_pending => Recent(dev.tx.seq)' /\ dev.tx.seq # host'.seq
      /\ ep_in # None /\ ep_in.first => Recent(ep_in.seq)' /\ ep_in.seq # host'.seq
  <2>1. Headed(dev) => dev.rx[1].seq \in Tags
    BY TagFacts
  <2>2. dev.tx.seq \in Tags
    BY TagFacts
  <2>3. ep_in # None => ep_in.seq \in Tags
    BY TagFacts
  <2>4. UnderWay(dev, ep_in)
    BY <1>0 DEF Transfer
  <2>5. CASE Headed(dev)
    BY <1>0, <1>6, <2>1, <2>2, <2>3, <2>4, <2>5 DEF UnderWay
  <2>6. CASE ~Headed(dev)
    BY <1>0, <1>6, <2>1, <2>2, <2>3, <2>4, <2>6 DEF UnderWay
  <2>7. QED
    BY <2>5, <2>6
<1>8. Received(dev, ep_out)'
  BY <1>0, <1>3, <1>7 DEF Transfer, Received, Headed, Whole, MoreToCome
<1>9. UnderWay(dev, ep_in)'
  BY <1>0, <1>7 DEF UnderWay, Headed
<1>10. Answering(dev, ep_in, ep_out)'
  BY <1>0, <1>3, <1>7 DEF Answering, Mine
<1>11. QED
  BY <1>0, <1>4, <1>5, <1>8, <1>9, <1>10 DEF TransferInv, Transfer, Sending

\* A packet of the command goes to the endpoint.
LEMMA HostSendsKeeps == ASSUME TransferInv, HostSendsPacket PROVE TransferInv'
<1>0. /\ ReaderTypes /\ HostPlace /\ Transfer(dev, ep_in, ep_out) /\ host \in Hosts
      /\ host.waiting /\ link /\ host.part > 0 /\ ep_out = None
      /\ UNCHANGED <<dev, app, card, ep_in, link, faults>>
  BY DEF TransferInv, ReaderTypes, HostSendsPacket
<1>1. PICK junk \in Junk :
         /\ host.part = 1 => junk = "unknown"
         /\ ep_out' = [kind |-> host.kind, seq |-> host.seq, part |-> host.part, junk |-> junk]
  BY DEF HostSendsPacket
<1>2. host.part \in {1, 2} /\ host.kind \in Kinds /\ host.seq \in Seqs
  BY <1>0 DEF Hosts
<1>3. /\ ep_out' \in OutPackets /\ ep_out'.part = host.part /\ ep_out'.seq = host.seq
      /\ ep_out'.kind = host.kind /\ ep_out' # None
  BY <1>1, <1>2, PacketIsNotNone DEF OutPackets
<1>4. PICK n \in {0, 2} : n = IF host.part = 1 /\ host.kind = "Xfr" THEN 2 ELSE 0
  OBVIOUS
<1>5. host' = [host EXCEPT !.part = n]
  BY <1>4 DEF HostSendsPacket
<1>6. /\ host' \in Hosts /\ host'.part = n /\ host'.seq = host.seq /\ host'.waiting
      /\ host'.got = host.got /\ host'.kind = host.kind
  BY <1>0, <1>5 DEF Hosts
<1>7. ReaderTypes'
  BY <1>0, <1>3, <1>6 DEF ReaderTypes
<1>8. HostPlace'
  BY <1>0, <1>2, <1>3, <1>4, <1>6 DEF HostPlace
<1>9. MoreToCome(ep_out) /\ MoreToCome(ep_out)'
  BY <1>0, <1>3 DEF MoreToCome
<1>10. Received(dev, ep_out)'
  BY <1>0, <1>3, <1>6, <1>9 DEF Transfer, Received, Headed, Whole
<1>11. UnderWay(dev, ep_in)'
  BY <1>0, <1>6 DEF Transfer, UnderWay, Headed, Recent, Lag
<1>12. Answering(dev, ep_in, ep_out)'
  <2>1. /\ ~(dev.tx_pending /\ dev.tx.seq = host.seq) /\ ~(ep_in # None /\ Mine(ep_in))
        /\ ~(host.got # <<>> /\ Mine(host.got[1]))
    BY <1>0, <1>9, NothingAnswers
  <2>2. QED
    BY <1>0, <1>6, <2>1 DEF Answering, Mine
<1>13. QED
  BY <1>0, <1>7, <1>8, <1>10, <1>11, <1>12 DEF TransferInv, Transfer, Sending

\* The host gives its command up.
LEMMA GivenUpFacts ==
    ASSUME host \in Hosts, host' = GivenUp
    PROVE  /\ host' \in Hosts /\ ~host'.waiting /\ host'.got = <<>> /\ host'.part = 0
           /\ host'.seq = host.seq /\ host'.kind = host.kind
<1>1. <<>> \in Seq(InPackets)
  BY EmptySeq
<1>2. QED
  BY <1>1 DEF GivenUp, Hosts

\* A command that is given up leaves the answer that is under way as it was.
LEMMA GivenUpKeeps ==
    ASSUME TransferInv, host' = GivenUp, ep_out' = None, UNCHANGED <<dev, app, card>>,
           ep_in' \in {ep_in, None}, link' \in BOOLEAN, ~link' => ep_in' = None,
           faults' \in 0..MaxFaults, faults' \in {faults, faults + 1},
           faults' = faults => ~Headed(dev) /\ ~dev.tx_pending /\ ep_in' = None
    PROVE  TransferInv'
<1>0. ReaderTypes /\ HostPlace /\ Transfer(dev, ep_in, ep_out) /\ host \in Hosts
  BY DEF TransferInv, ReaderTypes
<1>1. /\ host' \in Hosts /\ ~host'.waiting /\ host'.got = <<>> /\ host'.part = 0
      /\ host'.seq = host.seq /\ host'.kind = host.kind
  BY <1>0, GivenUpFacts
<1>2. ReaderTypes'
  BY <1>0, <1>1 DEF ReaderTypes
<1>3. HostPlace'
  <2>1. \A i \in DOMAIN host'.got : host'.got[i].full
    BY <1>1
  <2>2. QED
    BY <1>1, <2>1 DEF HostPlace
<1>4. ~MoreToCome(ep_out)'
  BY <1>1 DEF MoreToCome
<1>5. Received(dev, ep_out)'
  BY <1>0, <1>1, <1>4 DEF Transfer, Received, Headed, Whole
<1>6. UnderWay(dev, ep_in)'
  <2>1. CASE faults' = faults
    BY <2>1 DEF UnderWay, Headed
  <2>2. CASE faults' # faults
    <3>1. faults \in Nat /\ faults' = faults + 1
      BY <1>0, <2>2, ContactAssumption DEF ReaderTypes
    <3>2. \A q \in Tags : Recent(q) => q = JunkSeq \/ Lag(q) + 1 <= faults'
      BY <3>1, TagFacts DEF Recent
    <3>3. UnderWay(dev, ep_in)
      BY <1>0 DEF Transfer
    <3>4. /\ Headed(dev) => dev.rx[1].seq = JunkSeq \/ Lag(dev.rx[1].seq) + 1 <= faults'
          /\ dev.tx_pending => dev.tx.seq = JunkSeq \/ Lag(dev.tx.seq) + 1 <= faults'
          /\ ep_in # None /\ ep_in.first => ep_in.seq = JunkSeq \/ Lag(ep_in.seq) + 1 <= faults'
      BY <3>2, <3>3, TagFacts DEF UnderWay
    <3>5. QED
      BY <1>1, <3>4 DEF UnderWay, Headed, Recent, Lag
  <2>3. QED
    BY <2>1, <2>2
<1>7. Answering(dev, ep_in, ep_out)'
  BY <1>0, <1>1, <1>4 DEF Transfer, Answering, Mine
<1>8. QED
  BY <1>0, <1>2, <1>3, <1>5, <1>6, <1>7 DEF TransferInv, Transfer, Sending

\* A time-out or a bus reset is a fault, which lets a bSeq age.
LEMMA FaultsKeep == ASSUME TransferInv, HostTimesOut \/ BusReset PROVE TransferInv'
<1>1. /\ host \in Hosts /\ faults \in 0..MaxFaults /\ faults < MaxFaults /\ faults' = faults + 1
      /\ host' = GivenUp /\ ep_out' = None /\ ep_in' \in {ep_in, None} /\ link' \in BOOLEAN
      /\ ~link' => ep_in' = None
      /\ UNCHANGED <<dev, app, card>> /\ MaxFaults \in Nat
  BY ContactAssumption DEF TransferInv, ReaderTypes, HostPlace, HostTimesOut, BusReset
<1>2. faults' \in 0..MaxFaults /\ faults' # faults
  BY <1>1
<1>3. QED
  BY <1>1, <1>2, GivenUpKeeps

\* The host gives up when nothing is under way.
LEMMA GivesUpKeeps == ASSUME TransferInv, HostGivesUp PROVE TransferInv'
<1>1. /\ host \in Hosts /\ faults \in 0..MaxFaults /\ host.waiting /\ host.part = 0 /\ ep_out = None
      /\ host' = GivenUp /\ ~dev.tx_pending /\ ep_in = None /\ link
      /\ UNCHANGED <<dev, app, card, ep_out, ep_in, link, faults>> /\ Received(dev, ep_out)
  BY DEF TransferInv, Transfer, ReaderTypes, HostGivesUp
<1>2. ~Headed(dev)
  BY <1>1 DEF Received, MoreToCome
<1>3. QED
  BY <1>1, <1>2, GivenUpKeeps

\* The packets read, with the one at the endpoint.
LEMMA ReadFacts ==
    ASSUME TransferInv, HostReads
    PROVE  LET got == Append(host.got, ep_in)
           IN /\ got \in Seq(InPackets) /\ got # <<>> /\ Len(got) = Len(host.got) + 1 /\ Len(host.got) \in Nat
              /\ \A i \in 1..Len(host.got) : got[i] = host.got[i]
              /\ got[Len(got)] = ep_in
              /\ got[1] = IF host.got = <<>> THEN ep_in ELSE host.got[1]
              /\ got[1] \in InPackets
<1>1. host.got \in Seq(InPackets) /\ ep_in \in InPackets /\ Len(host.got) \in Nat
  BY DEF TransferInv, ReaderTypes, Hosts, HostReads
<1>2. PICK got : got = Append(host.got, ep_in)
  OBVIOUS
<1>3. /\ got \in Seq(InPackets) /\ Len(got) = Len(host.got) + 1 /\ got[Len(got)] = ep_in
      /\ \A i \in 1..Len(host.got) : got[i] = host.got[i]
  BY <1>1, <1>2, AppendProperties
<1>4. got # <<>>
  BY <1>1, <1>3, EmptySeq
<1>5. CASE host.got = <<>>
  <2>1. Len(got) = 1
    BY <1>3, <1>5, EmptySeq
  <2>2. QED
    BY <1>1, <1>2, <1>3, <1>4, <1>5, <2>1
<1>6. CASE host.got # <<>>
  <2>1. Len(host.got) # 0
    BY <1>1, <1>6, EmptySeq
  <2>2. 1 \in 1..Len(host.got)
    BY <1>1, <2>1
  <2>3. host.got[1] \in InPackets
    BY <1>1, <2>2, ElementOfSeq
  <2>4. QED
    BY <1>1, <1>2, <1>3, <1>4, <1>6, <2>2, <2>3
<1>7. QED
  BY <1>5, <1>6

\* What starts like the answer to the current command is that answer as far as
\* it has come, and the rest follows.
LEMMA ReadSoFar ==
    ASSUME TransferInv, HostReads, NEW got, got = Append(host.got, ep_in), Mine(got[1])
    PROVE  LET r == got[1].of
               n == Len(got)
           IN /\ r \in Answers /\ n \in Nat \ {0} /\ n <= Total(r) /\ ~MoreToCome(ep_out)
              /\ \A i \in 1..n : got[i] = Nth(r, i)
              /\ Goes(dev, r, n)
              /\ got[n].full <=> n < Total(r)
<1>1. PICK r : r = got[1].of
  OBVIOUS
<1>2. PICK n : n = Len(got)
  OBVIOUS
<1>3. /\ got \in Seq(InPackets) /\ got # <<>> /\ n = Len(host.got) + 1 /\ Len(host.got) \in Nat
      /\ \A i \in 1..Len(host.got) : got[i] = host.got[i]
      /\ got[n] = ep_in
      /\ got[1] = IF host.got = <<>> THEN ep_in ELSE host.got[1]
      /\ got[1] \in InPackets
  BY <1>2, ReadFacts
<1>4. r \in Answers /\ r.len \in Nat /\ r.exact \in BOOLEAN /\ n \in Nat \ {0}
  BY <1>1, <1>3 DEF InPackets, Answers
<1>5. Answering(dev, ep_in, ep_out) /\ ep_in # None
  BY DEF TransferInv, Transfer, HostReads
<1>6. /\ n <= Total(r) /\ ~MoreToCome(ep_out) /\ Goes(dev, r, n)
      /\ \A i \in 1..n : got[i] = Nth(r, i)
  <2>1. CASE host.got = <<>>
    <3>1. Len(host.got) = 0
      BY <2>1
    <3>2. got[1] = ep_in /\ n = 1
      BY <1>3, <2>1, <3>1
    <3>3. ~MoreToCome(ep_out) /\ r.len > 0 /\ ep_in = Packet(r, 1) /\ Goes(dev, r, 1)
      BY <1>1, <1>5, <3>2 DEF Answering
    <3>4. 1 <= Total(r) /\ Nth(r, 1) = Packet(r, 1)
      BY <1>4, <3>3 DEF Total, Nth
    <3>5. \A i \in 1..n : i = 1
      BY <3>2
    <3>6. QED
      BY <3>2, <3>3, <3>4, <3>5
  <2>2. CASE host.got # <<>>
    <3>1. got[1] = host.got[1]
      BY <1>3, <2>2
    <3>2. ~MoreToCome(ep_out) /\ Reads(dev, ep_in, r, Len(host.got))
      BY <1>1, <1>5, <2>2, <3>1 DEF Answering
    <3>3. /\ Len(host.got) < Total(r) /\ \A i \in 1..Len(host.got) : host.got[i] = Nth(r, i)
          /\ ep_in = Nth(r, n) /\ Goes(dev, r, n)
      BY <1>3, <1>5, <3>2 DEF Reads
    <3>4. \A i \in 1..n : i \in 1..Len(host.got) \/ i = n
      BY <1>3
    <3>5. n <= Total(r)
      BY <1>3, <1>4, <3>3 DEF Total
    <3>6. QED
      BY <1>3, <3>2, <3>3, <3>4, <3>5
  <2>3. QED
    BY <2>1, <2>2
<1>7. got[n].full <=> n < Total(r)
  <2>0. n \in 1..n
    BY <1>4
  <2>1. got[n] = Nth(r, n)
    BY <1>6, <2>0, Zenon
  <2>2. CASE n > r.len
    <3>1. ~Nth(r, n).full
      BY <2>2, ZlpFacts DEF Nth
    <3>2. ~(n < Total(r))
      BY <1>4, <2>2 DEF Total
    <3>3. QED
      BY <2>1, <3>1, <3>2
  <2>3. CASE ~(n > r.len)
    <3>1. Nth(r, n).full <=> n < r.len \/ (n = r.len /\ r.exact)
      BY <1>4, <2>3, PacketFacts DEF Nth
    <3>2. n < Total(r) <=> n < r.len \/ (n = r.len /\ r.exact)
      BY <1>4, <2>3 DEF Total
    <3>3. QED
      BY <2>1, <3>1, <3>2
  <2>4. QED
    BY <2>2, <2>3
<1>8. QED
  BY <1>1, <1>2, <1>4, <1>6, <1>7

\* So what ends with a short packet is complete, and nothing of it is left.
LEMMA AnswerIsComplete ==
    ASSUME TransferInv, HostReads, NEW got, got = Append(host.got, ep_in), Mine(got[1]), ~ep_in.full
    PROVE  Complete(got) /\ ~dev.tx_pending /\ ~Headed(dev) /\ ep_out = None
<1>1. PICK r : r = got[1].of
  OBVIOUS
<1>2. PICK n : n = Len(got)
  OBVIOUS
<1>3. /\ r \in Answers /\ n \in Nat \ {0} /\ n <= Total(r) /\ ~MoreToCome(ep_out)
      /\ \A i \in 1..n : got[i] = Nth(r, i)
      /\ Goes(dev, r, n)
      /\ got[n].full <=> n < Total(r)
  BY <1>1, <1>2, ReadSoFar
<1>4. got[n] = ep_in /\ DOMAIN got = 1..n
  BY <1>2, ReadFacts
<1>5. r.len \in Nat /\ r.exact \in BOOLEAN
  BY <1>3 DEF Answers
<1>6. n = Total(r)
  BY <1>3, <1>4, <1>5 DEF Total
<1>7. ~(n < r.len)
  BY <1>3, <1>5, <1>6 DEF Total
<1>8. ~dev.tx_pending
  BY <1>3, <1>7 DEF Goes
<1>9. ep_out = None /\ host.waiting
  BY <1>3 DEF MoreToCome, HostReads
<1>10. ~Headed(dev)
  BY <1>3, <1>8, <1>9 DEF TransferInv, Transfer, Received
<1>11. \A i \in DOMAIN got : got[i].of = r \/ (i > r.len /\ got[i] = Zlp)
  <2> TAKE i \in DOMAIN got
  <2>1. i \in 1..n /\ got[i] = Nth(r, i)
    BY <1>3, <1>4
  <2>2. CASE i > r.len
    BY <2>1, <2>2 DEF Nth
  <2>3. CASE ~(i > r.len)
    BY <1>3, <2>1, <2>3, PacketFacts DEF Nth
  <2>4. QED
    BY <2>2, <2>3
<1>12. Complete(got)
  BY <1>1, <1>2, <1>6, <1>11 DEF Complete, Total
<1>13. QED
  BY <1>8, <1>9, <1>10, <1>12

\* The host reads a packet.
LEMMA HostReadsKeeps == ASSUME TransferInv, HostReads PROVE TransferInv'
<1>1. PICK got : got = Append(host.got, ep_in)
  OBVIOUS
<1>2. /\ ReaderTypes /\ HostPlace /\ Transfer(dev, ep_in, ep_out) /\ host \in Hosts
      /\ host.waiting /\ link /\ host.part = 0 /\ ep_in # None /\ ep_in' = None
      /\ UNCHANGED <<dev, app, card, ep_out, link, faults>>
  BY DEF TransferInv, ReaderTypes, HostReads
<1>3. /\ got \in Seq(InPackets) /\ got # <<>> /\ Len(got) = Len(host.got) + 1 /\ Len(host.got) \in Nat
      /\ \A i \in 1..Len(host.got) : got[i] = host.got[i]
      /\ got[Len(got)] = ep_in
  BY <1>1, ReadFacts
<1>4. <<>> \in Seq(InPackets)
  BY EmptySeq
<1>5. CASE ep_in.full
  <2>1. host' = [host EXCEPT !.got = got]
    BY <1>1, <1>5 DEF HostReads
  <2>2. /\ host' \in Hosts /\ host'.got = got /\ host'.seq = host.seq /\ host'.waiting
        /\ host'.part = 0 /\ host'.kind = host.kind
    BY <1>2, <1>3, <2>1 DEF Hosts
  <2>3. ReaderTypes'
    BY <1>2, <2>2 DEF ReaderTypes
  <2>4. \A i \in DOMAIN got : got[i].full
    <3>1. \A i \in DOMAIN got : i \in 1..Len(host.got) \/ i = Len(got)
      BY <1>3
    <3>2. \A i \in 1..Len(host.got) : host.got[i].full
      BY <1>2, LenProperties DEF HostPlace, Hosts
    <3>3. QED
      BY <1>3, <1>5, <3>1, <3>2
  <2>5. HostPlace'
    BY <1>2, <2>2, <2>4 DEF HostPlace
  <2>6. Received(dev, ep_out)' /\ UnderWay(dev, ep_in)'
    BY <1>2, <2>2 DEF Transfer, Received, UnderWay, Headed, Whole, MoreToCome, Recent, Lag
  <2>7. ASSUME Mine(got[1]) PROVE ~MoreToCome(ep_out) /\ Len(got) < Total(got[1].of)
              /\ (\A i \in 1..Len(got) : got[i] = Nth(got[1].of, i)) /\ Goes(dev, got[1].of, Len(got))
    BY <1>1, <1>3, <1>5, <2>7, ReadSoFar
  <2>8. dev.tx_pending /\ dev.tx.seq = host.seq => ~MoreToCome(ep_out)
    BY <1>2 DEF Transfer, Answering
  <2>9. Answering(dev, ep_in, ep_out)'
    BY <1>2, <2>2, <2>7, <2>8 DEF Answering, Mine, Reads, MoreToCome
  <2>10. QED
    BY <1>2, <2>3, <2>5, <2>6, <2>9 DEF TransferInv, Transfer, Sending
<1>6. CASE ~ep_in.full /\ Mine(got[1])
  <2>0. Complete(got) /\ ~dev.tx_pending /\ ~Headed(dev) /\ ep_out = None
    BY <1>1, <1>6, AnswerIsComplete
  <2>1. host' = [host EXCEPT !.got = <<>>, !.waiting = FALSE, !.torn = FALSE, !.missed = FALSE]
    BY <1>1, <1>6, <2>0 DEF HostReads, Mine
  <2>2. /\ host' \in Hosts /\ host'.got = <<>> /\ host'.seq = host.seq /\ ~host'.waiting
        /\ host'.part = 0 /\ host'.kind = host.kind
    BY <1>2, <1>4, <2>1 DEF Hosts
  <2>3. ReaderTypes'
    BY <1>2, <2>2 DEF ReaderTypes
  <2>4. \A i \in DOMAIN host'.got : host'.got[i].full
    BY <2>2
  <2>5. HostPlace'
    BY <1>2, <2>0, <2>2, <2>4 DEF HostPlace
  <2>6. Received(dev, ep_out)' /\ UnderWay(dev, ep_in)' /\ Answering(dev, ep_in, ep_out)'
    BY <1>2, <2>0, <2>2 DEF Received, UnderWay, Answering, Headed
  <2>7. QED
    BY <1>2, <2>3, <2>5, <2>6 DEF TransferInv, Transfer, Sending
<1>7. CASE ~ep_in.full /\ ~Mine(got[1])
  <2>1. host' = [host EXCEPT !.got = <<>>]
    BY <1>1, <1>7 DEF HostReads, Mine
  <2>2. /\ host' \in Hosts /\ host'.got = <<>> /\ host'.seq = host.seq /\ host'.waiting
        /\ host'.part = 0 /\ host'.kind = host.kind
    BY <1>2, <1>4, <2>1 DEF Hosts
  <2>3. ReaderTypes'
    BY <1>2, <2>2 DEF ReaderTypes
  <2>4. \A i \in DOMAIN host'.got : host'.got[i].full
    BY <2>2
  <2>5. HostPlace'
    BY <1>2, <2>2, <2>4 DEF HostPlace
  <2>6. Received(dev, ep_out)' /\ UnderWay(dev, ep_in)'
    BY <1>2, <2>2 DEF Transfer, Received, UnderWay, Headed, Whole, MoreToCome, Recent, Lag
  <2>7. Answering(dev, ep_in, ep_out)'
    BY <1>2, <2>2 DEF Transfer, Answering, MoreToCome
  <2>8. QED
    BY <1>2, <2>3, <2>5, <2>6, <2>7 DEF TransferInv, Transfer, Sending
<1>8. QED
  BY <1>5, <1>6, <1>7

-----------------------------------------------------------------------------
(* The theorems *)

\* CcidMessageHandler::new, with or without a card.
LEMMA ContactStarts == ContactInit => ContactInv
<1> SUFFICES ASSUME ContactInit, ~Padded(dev) PROVE TransferInv
  BY DEF ContactInv
<1>1. PICK p \in PinPads : dev = CheckCardPresence(NewHandler(p))
  BY DEF ContactInit
<1>2. /\ card \in Cards \cup {NoCard} /\ ep_out = None /\ ep_in = None /\ link = TRUE /\ faults = 0
      /\ host = [seq |-> 0, waiting |-> FALSE, got |-> <<>>, kind |-> "Status", part |-> 0,
                 torn |-> FALSE, missed |-> FALSE]
      /\ app = [turn |-> "usb", mode |-> Normal, last_card_present |-> FALSE, enumerated |-> FALSE]
  BY DEF ContactInit
<1>3. <<>> \in Seq(OutPackets) /\ <<>> \in Seq(InPackets) /\ NoResponse \in Answers
  BY EmptySeq, NoResponseFacts
<1>4. PICK h : h = NewHandler(p)
  OBVIOUS
<1>5. p \in BOOLEAN /\ h.pin_pad = p /\ h.rx = <<>> /\ ~h.tx_pending
  BY <1>4, ContactAssumption DEF NewHandler
<1>6. \/ dev = h
      \/ dev = [h EXCEPT !.present = TRUE, !.slot = "PresentInactive"]
      \/ dev = [h EXCEPT !.present = FALSE, !.slot = "Absent", !.session = NoCard, !.secure = None,
                         !.rx = <<>>, !.busy = FALSE]
  BY <1>1, <1>4 DEF CheckCardPresence
<1>7. ~p
  <2>1. dev.pin_pad = p
    <3>1. CASE dev = h
      BY <1>5, <3>1
    <3>2. CASE dev = [h EXCEPT !.present = TRUE, !.slot = "PresentInactive"]
      BY <1>4, <3>2 DEF NewHandler
    <3>3. CASE dev = [h EXCEPT !.present = FALSE, !.slot = "Absent", !.session = NoCard, !.secure = None,
                               !.rx = <<>>, !.busy = FALSE]
      BY <1>4, <3>3 DEF NewHandler
    <3>4. QED
      BY <1>6, <3>1, <3>2, <3>3
  <2>2. "pin_pad" \in DOMAIN dev
    <3>1. DOMAIN dev = DOMAIN h
      BY <1>6
    <3>2. "pin_pad" \in DOMAIN h
      BY <1>4 DEF NewHandler
    <3>3. QED
      BY <3>1, <3>2
  <2>3. QED
    BY <2>1, <2>2, Zenon DEF Padded
<1>8. h \in Devices
  BY <1>3, <1>4, <1>7, <1>5 DEF NewHandler, Devices
<1>9. dev \in Devices /\ dev.rx = <<>> /\ ~dev.tx_pending
  BY <1>3, <1>5, <1>6, <1>8 DEF Devices
<1>10. host \in Hosts /\ 0 \in 0..MaxFaults
  BY <1>2, <1>3, ContactAssumption DEF Hosts, Seqs, Kinds
<1>11. ReaderTypes
  BY <1>2, <1>9, <1>10 DEF ReaderTypes
<1>12. HostPlace
  BY <1>2 DEF HostPlace
<1>13. Transfer(dev, ep_in, ep_out)
  BY <1>2, <1>9 DEF Transfer, Sending, Received, UnderWay, Answering, Headed
<1>14. QED
  BY <1>11, <1>12, <1>13 DEF TransferInv

\* Whether the reader has a PIN pad does not change.
LEMMA PadStays == ASSUME Padded(dev), [ContactNext]_contactVars PROVE Padded(dev')
<1>1. ASSUME NEW d, Padded(d) PROVE Padded(CheckCardPresence(d))
  BY <1>1 DEF Padded, CheckCardPresence
<1>2. ASSUME NEW d, NEW e, Padded(d) PROVE Padded(TrySend(d, e)[1])
  <2>1. Padded(TakeResponse(d))
    BY <1>2 DEF Padded, TakeResponse
  <2>2. /\ Padded([TakeResponse(d) EXCEPT !.tx_pending = FALSE, !.tx_offset = 0])
        /\ Padded(Finished(d))
    BY <2>1 DEF Padded, Finished
  <2>3. /\ Padded([d EXCEPT !.needs_zlp = FALSE]) /\ Padded([d EXCEPT !.panicked = TRUE])
        /\ Padded([d EXCEPT !.tx_offset = @ + 1]) /\ Padded(PacketWaits(d))
    BY <1>2 DEF Padded, PacketWaits
  <2>4. TrySend(d, e)[1] \in
           {d, PacketWaits(d), Finished(d), [TakeResponse(d) EXCEPT !.tx_pending = FALSE, !.tx_offset = 0],
            [d EXCEPT !.needs_zlp = FALSE], [d EXCEPT !.panicked = TRUE], [d EXCEPT !.tx_offset = @ + 1]}
    <3>1. CASE d.needs_zlp
      BY <3>1 DEF TrySend
    <3>2. CASE ~d.needs_zlp /\ d.tx_pending
      BY <3>2 DEF TrySend
    <3>3. CASE ~d.needs_zlp /\ ~d.tx_pending
      BY <3>3 DEF TrySend
    <3>4. QED
      BY <3>1, <3>2, <3>3
  <2>5. QED
    BY <1>2, <2>2, <2>3, <2>4
<1>3. ASSUME NEW d, NEW o, Padded(d) PROVE Padded(Feed(d, o))
  BY <1>3 DEF Padded, Feed
<1>4. ASSUME NEW d, Padded(d), NEW h \in Respond(d) PROVE Padded(h)
  <2>1. PICK g \in HandleMessage(d) : h = [g EXCEPT !.tx_pending = TRUE, !.tx_offset = 0]
    BY <1>4 DEF Respond
  <2>2. PICK b : b = [d EXCEPT !.busy = TRUE]
    OBVIOUS
  <2>3. Padded(b)
    BY <1>4, <2>2 DEF Padded
  <2>4. ASSUME NEW kind, NEW seq, NEW f \in Dispatch(b, kind, seq) PROVE Padded(f)
    <3>1. \/ \E r : f = [b EXCEPT !.tx = r]
          \/ \E r, s, c : f = [b EXCEPT !.tx = r, !.slot = s, !.session = c]
          \/ \E r, s : f = [b EXCEPT !.tx = r, !.secure = s]
      BY <2>4 DEF Dispatch
    <3>2. QED
      BY <2>3, <3>1 DEF Padded
  <2>5. \/ \E r : g = [d EXCEPT !.tx = r]
        \/ \E r : g = [d EXCEPT !.busy = TRUE, !.tx = r]
        \/ \E kind, seq : g \in Dispatch(b, kind, seq)
    BY <2>1, <2>2 DEF HandleMessage
  <2>6. Padded(g)
    BY <1>4, <2>4, <2>5 DEF Padded
  <2>7. QED
    BY <2>1, <2>6 DEF Padded
<1>5. CASE Poll
  <2>1. PICK c : c = CheckCardPresence(dev)
    OBVIOUS
  <2>2. PICK t : t = TrySend(c, ep_in)
    OBVIOUS
  <2>3. PICK f : f = IF ep_out = None THEN t[1] ELSE Feed(t[1], ep_out)
    OBVIOUS
  <2>4. PICK h \in (IF ep_out # None /\ MessageReady(f) THEN Respond(f) ELSE {f}) : dev' = TrySend(h, t[2])[1]
    BY <1>5, <2>1, <2>2, <2>3 DEF Poll
  <2>5. Padded(f)
    BY <1>1, <1>2, <1>3, <2>1, <2>2, <2>3
  <2>6. Padded(h)
    BY <1>4, <2>4, <2>5
  <2>7. QED
    BY <1>2, <2>4, <2>6
<1>6. CASE MainLoop
  BY <1>6 DEF MainLoop, EnterPinMode, IdleScreen, PinModeGoesOn, PinModeEnds, Padded
<1>7. CASE dev' = dev
  BY <1>7
<1>8. QED
  BY <1>5, <1>6, <1>7 DEF ContactNext, Device, MoveCard, HostCommands, HostSendsPacket, HostReads, HostTimesOut,
     HostGivesUp, BusReset, Configured, contactVars

\* Every step keeps the invariant, as long as fewer faults are possible than
\* bSeq has values.
LEMMA ContactKeeps == MaxFaults < SeqMod /\ ContactInv /\ [ContactNext]_contactVars => ContactInv'
<1> SUFFICES ASSUME MaxFaults < SeqMod, ContactInv, [ContactNext]_contactVars PROVE ContactInv'
  OBVIOUS
<1>1. CASE Padded(dev)
  <2>1. Padded(dev')
    BY <1>1, PadStays
  <2>2. QED
    BY <2>1 DEF ContactInv, Padded
<1>2. CASE TransferInv
  <2>1. CASE Poll
    BY <1>2, <2>1, PollKeeps DEF ContactInv
  <2>2. CASE MainLoop
    BY <1>2, <2>2, MainLoopKeeps DEF ContactInv
  <2>3. CASE MoveCard \/ Configured
    BY <1>2, <2>3, QuietKeeps DEF ContactInv
  <2>4. CASE HostCommands
    BY <1>2, <2>4, HostCommandsKeeps DEF ContactInv
  <2>5. CASE HostSendsPacket
    BY <1>2, <2>5, HostSendsKeeps DEF ContactInv
  <2>6. CASE HostReads
    BY <1>2, <2>6, HostReadsKeeps DEF ContactInv
  <2>7. CASE HostTimesOut \/ BusReset
    BY <1>2, <2>7, FaultsKeep DEF ContactInv
  <2>8. CASE HostGivesUp
    BY <1>2, <2>8, GivesUpKeeps DEF ContactInv
  <2>9. CASE UNCHANGED contactVars
    <3>1. UNCHANGED <<dev, app, card, ep_out, ep_in, link, host, faults>>
      BY <2>9 DEF contactVars
    <3>2. ReaderTypes' /\ HostPlace'
      BY <1>2, <3>1 DEF TransferInv, ReaderTypes, HostPlace
    <3>3. QED
      BY <1>2, <3>1, <3>2, SameTransfer DEF TransferInv, ContactInv
  <2>10. QED
    BY <2>1, <2>2, <2>3, <2>4, <2>5, <2>6, <2>7, <2>8, <2>9 DEF ContactNext, Device
<1>3. QED
  BY <1>1, <1>2 DEF ContactInv

\* The invariant of the bulk transport: what is in the receive buffer, in the
\* transmit buffer, at the endpoints and in the host's transfer fit together
\* after any time-outs, bus resets and removals (CcidClass, ccid.rs).
THEOREM ContactInductive == ASSUME MaxFaults < SeqMod PROVE ContactSpec => []ContactInv
<1>1. ContactInit => ContactInv
  BY ContactStarts
<1>2. ContactInv /\ [ContactNext]_contactVars => ContactInv'
  BY ContactKeeps
<1>3. QED
  BY <1>1, <1>2, PTL DEF ContactSpec

\* Without a PIN pad, what the host takes for the answer to its command is one
\* response from its first packet to its last, although the busy gate
\* overwrites the transmit buffer and faults interrupt transfers.
THEOREM AnswersAlwaysWhole == ASSUME MaxFaults < SeqMod PROVE ContactSpec => []AnswersAreWhole
<1>1. ContactInv => AnswersAreWhole
  BY DEF ContactInv, Padded, TransferInv, ReaderTypes, Hosts, AnswersAreWhole
<1>2. QED
  BY <1>1, ContactInductive, PTL

\* Without a PIN pad try_send never reads past the response in the buffer.
THEOREM NoPadNoPanic ==
    ASSUME MaxFaults < SeqMod PROVE ContactSpec => [](dev.pin_pad \/ OffsetInResponse)
<1>1. ContactInv => dev.pin_pad \/ OffsetInResponse
  BY DEF ContactInv, Padded, TransferInv, ReaderTypes, Devices, OffsetInResponse
<1>2. QED
  BY <1>1, ContactInductive, PTL
=============================================================================
