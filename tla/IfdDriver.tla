------------------------------ MODULE IfdDriver ------------------------------
(***************************************************************************)
(* The pcscd driver for the WiFi reader, host-tools/ifd-nucula/            *)
(* ifd-nucula.c, against the single-client server of the firmware.  Every  *)
(* entry point is one request and response over a TCP connection the       *)
(* driver opens when it needs one and closes after any failure; a request  *)
(* is sent again only when it provably did not arrive.  Connections break, *)
(* the board restarts, and a board that is still busy with a connection    *)
(* the driver gave up on serves the next one late.                         *)
(***************************************************************************)
EXTENDS Integers, Sequences, FiniteSets

CONSTANTS SeqValues,     \* values of bSeq before it wraps (256)
          MaxExtensions, \* frames the time-extension loop reads (64)
          BoardExtends,  \* time extensions the board asks for, per command
          PowerOffShim,  \* NUCULA_POWER_OFF_SHIM
          MaxCalls,      \* calls of pcscd explored
          MaxConns       \* connections explored

ASSUME IfdAssumption ==
    /\ SeqValues \in Nat \ {0} /\ MaxExtensions \in Nat /\ BoardExtends \in Nat
    /\ PowerOffShim \in BOOLEAN /\ MaxCalls \in Nat /\ MaxConns \in Nat

VARIABLES drv,    \* nuc_ctx and the call under way
          net,    \* the connections, oldest first
          board,  \* the serving loop of the firmware
          runs,   \* runs[c]: how often the command of call c was executed
          result  \* result[c]: what call c returned to pcscd

ifVars == <<drv, net, board, runs, result>>

Calls == 1..MaxCalls

(* XfrBlock, IccPowerOn, IccPowerOff, SetParameters, GetSlotStatus, Escape. *)
Messages == {"xfr", "on", "off", "set", "status", "escape"}

IfInit == /\ drv = [at |-> "idle", call |-> 0, kind |-> "status", seq |-> 0, fd |-> 0, attempt |-> 0,
                    ext |-> 0]
          /\ net = <<>>
          /\ board = [fd |-> 0, next |-> 1, cmd |-> 0, exts |-> 0, card |-> FALSE]
          /\ runs = [c \in Calls |-> 0]
          /\ result = [c \in Calls |-> "none"]

Request(c, s, k) == [call |-> c, seq |-> s, kind |-> k]
EchoOf(r) == [t |-> "echo", call |-> r.call, seq |-> r.seq]
Interim(r) == [t |-> "ext", call |-> r.call, seq |-> r.seq]
Final(r, s) == [t |-> s, call |-> r.call, seq |-> r.seq]

MyRequest == Request(drv.call, drv.seq, drv.kind)
Conn == net[drv.fd]

-----------------------------------------------------------------------------
(* A call ends: pcscd has its answer. *)
ReturnTo(r) == /\ result' = [result EXCEPT ![drv.call] = r]
             /\ drv' = [drv EXCEPT !.at = "idle"]

(* nuc_eject_locked: the connection is closed, and the call fails.  The    *)
(* presence poll reports a failure as an absent card.                      *)
Failed == IF drv.kind = "status" THEN "absent" ELSE "error"

EjectConn == net' = [net EXCEPT ![drv.fd].open = FALSE]

GiveUp == /\ EjectConn
          /\ result' = [result EXCEPT ![drv.call] = Failed]
          /\ drv' = [drv EXCEPT !.at = "idle", !.fd = 0]

(* pcscd calls an entry point.  bSeq is a byte that wraps.                 *)
Enter(k) ==
    /\ drv.at = "idle" /\ drv.call < MaxCalls
    /\ drv' = [drv EXCEPT !.at = IF k = "off" /\ PowerOffShim THEN "idle" ELSE "connect",
                          !.call = @ + 1, !.kind = k, !.attempt = 1, !.ext = 0,
                          !.seq = IF k = "off" /\ PowerOffShim THEN @ ELSE (@ + 1) % SeqValues]
    /\ result' = [result EXCEPT ![drv.call + 1] = IF k = "off" /\ PowerOffShim THEN "ok" ELSE @]
    /\ UNCHANGED <<net, board, runs>>

(* nuc_connect_locked: the open connection, a new one, or none in budget.  *)
Connect ==
    /\ drv.at = "connect" /\ UNCHANGED <<board, runs>>
    /\ \/ drv.fd # 0 /\ drv' = [drv EXCEPT !.at = "send"] /\ UNCHANGED <<net, result>>
       \/ /\ drv.fd = 0 /\ Len(net) < MaxConns
          /\ net' = Append(net, [up |-> <<>>, down |-> <<>>, open |-> TRUE, alive |-> TRUE])
          /\ drv' = [drv EXCEPT !.at = "send", !.fd = Len(net) + 1]
          /\ UNCHANGED result
       \/ drv.fd = 0 /\ ReturnTo(Failed) /\ UNCHANGED net

(* nuc_send_frame_locked: the whole frame is handed over (to a connection  *)
(* whose other end may be gone), or at most a part of it was and the frame *)
(* cannot be complete: then, once, the next connection is tried.           *)
SendRequest ==
    /\ drv.at = "send" /\ UNCHANGED <<board, runs>>
    /\ \/ /\ net' = IF Conn.alive THEN [net EXCEPT ![drv.fd].up = Append(@, MyRequest)] ELSE net
          /\ drv' = [drv EXCEPT !.at = "echo"]
          /\ UNCHANGED result
       \/ /\ drv.attempt = 1 /\ EjectConn
          /\ drv' = [drv EXCEPT !.at = "connect", !.fd = 0, !.attempt = 2]
          /\ UNCHANGED result
       \/ drv.attempt = 2 /\ GiveUp

Arrived == Conn.down # <<>>
Got == Head(Conn.down)
Drop1 == net' = [net EXCEPT ![drv.fd].down = Tail(@)]

(* The echo verified, the response is awaited; anything else, or silence   *)
(* for the length of the receive timeout, leaves the outcome unknown.      *)
LostEcho == GiveUp

ReadEcho ==
    /\ drv.at = "echo" /\ UNCHANGED <<board, runs>>
    /\ \/ Arrived /\ Got = EchoOf(MyRequest) /\ Drop1 /\ drv' = [drv EXCEPT !.at = "answer"] /\ UNCHANGED result
       \/ Arrived /\ Got # EchoOf(MyRequest) /\ LostEcho
       \/ ~Arrived /\ LostEcho

(* nuc_is_time_extension, for the commands that carry card work. *)
MayExtend(k) == k \in {"xfr", "on", "escape"}

IsExtension(f) == MayExtend(drv.kind) /\ f.seq = drv.seq /\ f.t = "ext"

(* How the entry points read the final frame: an XfrBlock is successful    *)
(* with whatever a DataBlock that did not fail carries, so a time          *)
(* extension the loop no longer waits out is an empty success.             *)
Outcome(f) == CASE f.t = "failed" /\ drv.kind = "status" -> "present"
                [] f.t = "failed" -> "error"
                [] f.t = "absent" /\ drv.kind \in {"xfr", "status"} -> "absent"
                [] f.t = "absent" -> "error"
                [] f.t = "done" /\ drv.kind = "status" -> "present"
                [] OTHER -> "ok"

ReadAnswer ==
    /\ drv.at = "answer" /\ UNCHANGED <<board, runs>>
    /\ \/ /\ Arrived /\ IsExtension(Got) /\ drv.ext < MaxExtensions
          /\ Drop1 /\ drv' = [drv EXCEPT !.ext = @ + 1]
          /\ UNCHANGED result
       \/ Arrived /\ Got.seq # drv.seq /\ GiveUp
       \/ /\ Arrived /\ Got.seq = drv.seq /\ ~(IsExtension(Got) /\ drv.ext < MaxExtensions)
          /\ Drop1
          /\ result' = [result EXCEPT ![drv.call] = Outcome(Got)]
          /\ drv' = [drv EXCEPT !.at = "idle"]
       \/ ~Arrived /\ GiveUp

(* IFDHCloseChannel *)
CloseChannel == /\ drv.at = "idle" /\ drv.fd # 0
                /\ EjectConn /\ drv' = [drv EXCEPT !.fd = 0]
                /\ UNCHANGED <<board, runs, result>>

-----------------------------------------------------------------------------
(* The board takes the connections one after the other, in the order they  *)
(* were opened, the ones the driver has closed by then too.                *)
AcceptConn == /\ board.fd = 0 /\ board.next <= Len(net)
          /\ board' = [board EXCEPT !.fd = board.next, !.next = @ + 1]
          /\ UNCHANGED <<drv, net, runs, result>>

Say(f) == [net EXCEPT ![board.fd].down = IF net[board.fd].open THEN Append(@, f) ELSE @]

Busy == board.cmd # 0
Working == Head(net[board.fd].up)

(* A complete frame is echoed, then worked on. *)
EchoFrame == /\ board.fd # 0 /\ ~Busy /\ net[board.fd].up # <<>>
             /\ net' = Say(EchoOf(Working))
             /\ board' = [board EXCEPT !.cmd = Working.call, !.exts = 0]
             /\ UNCHANGED <<drv, runs, result>>

(* The server arms the stall hook for an XfrBlock only. *)
Extend == /\ board.fd # 0 /\ Busy /\ Working.kind = "xfr" /\ board.exts < BoardExtends
          /\ net' = Say(Interim(Working))
          /\ board' = [board EXCEPT !.exts = @ + 1]
          /\ UNCHANGED <<drv, runs, result>>

Status == IF Working.kind = "set" THEN {"done"}
          ELSE IF Working.kind = "escape" THEN {"done", "failed"}
          ELSE IF board.card THEN {"done", "failed"} ELSE {"absent"}

Execute == /\ board.fd # 0 /\ Busy
           /\ runs' = [runs EXCEPT ![board.cmd] = @ + 1]
           /\ \E s \in Status :
                 net' = [Say(Final(Working, s)) EXCEPT ![board.fd].up = Tail(@)]
           /\ board' = [board EXCEPT !.cmd = 0]
           /\ UNCHANGED <<drv, result>>

(* The end of a session: the driver closed it and nothing is left to read. *)
EndSession == /\ board.fd # 0 /\ ~Busy /\ ~net[board.fd].open /\ net[board.fd].up = <<>>
              /\ board' = [board EXCEPT !.fd = 0]
              /\ UNCHANGED <<drv, net, runs, result>>

(* A connection whose board is gone: what it had sent may still be read. *)
Severed(c, kept) == [c EXCEPT !.alive = FALSE, !.up = <<>>, !.down = IF kept THEN c.down ELSE <<>>]

(* The board restarts: the command it works on is lost, before or after    *)
(* the card saw it, and what the line still held may be lost with it.      *)
Crash == /\ board.fd # 0
         /\ \E seen \in (IF Busy THEN BOOLEAN ELSE {FALSE}), kept \in BOOLEAN :
               /\ runs' = IF seen THEN [runs EXCEPT ![board.cmd] = @ + 1] ELSE runs
               /\ net' = [net EXCEPT ![board.fd] = Severed(net[board.fd], kept)]
         /\ board' = [board EXCEPT !.fd = 0, !.cmd = 0]
         /\ UNCHANGED <<drv, result>>

ToggleCard == /\ ~Busy
              /\ board' = [board EXCEPT !.card = ~@]
              /\ UNCHANGED <<drv, net, runs, result>>

IfNext == \/ \E k \in Messages : Enter(k)
          \/ Connect \/ SendRequest \/ ReadEcho \/ ReadAnswer \/ CloseChannel
          \/ AcceptConn \/ EchoFrame \/ Extend \/ Execute \/ EndSession \/ Crash \/ ToggleCard

IfSpec == IfInit /\ [][IfNext]_ifVars

-----------------------------------------------------------------------------
(* However connections break, no command reaches the card twice ("Resending *)
(* could duplicate a state-changing APDU"), and a call that reports success *)
(* was executed: once.                                                      *)
ExecutedOnce == \A c \in Calls : /\ runs[c] <= 1
                                 /\ result[c] \in {"ok", "present"} /\ ~PowerOffShim => runs[c] = 1
=============================================================================
