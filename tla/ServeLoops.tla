----------------------------- MODULE ServeLoops -----------------------------
(***************************************************************************)
(* The serial server under each of its serve loops: one of them drives it, *)
(* chosen when the firmware is built.                                      *)
(***************************************************************************)
EXTENDS UartServe, BurstServe

loopVars == <<serverVars, uartOwn, burstVars, tcpOwn>>

ServeInit == ServerInit /\ UartInit /\ BurstInit /\ TcpInit

ServeNext ==
    \/ transport = "uart" /\ UartNext /\ UNCHANGED <<burstVars, tcpOwn>>
    \/ transport = "tcp" /\ TcpNext /\ UNCHANGED uartOwn
    \/ transport = "cdc" /\ CdcNext /\ UNCHANGED <<uartOwn, tcpOwn>>

ServeSpec == ServeInit /\ [][ServeNext]_loopVars

-----------------------------------------------------------------------------
(* Properties *)

\* The diagnostic panic is taken for the 0xD1 command being served, never for
\* an unrelated one after it ("a wrong-command reboot", record_late_response):
\* the request dies with a response that is dropped.  Over TCP a failed write
\* leaves it behind (EveryPanicForOwnCommand).
PanicForOwnCommand ==
    phase = "down" => cur.class = "Snapshot" \/ transport = "tcp"

\* The same of every loop.
EveryPanicForOwnCommand == phase = "down" => cur.class = "Snapshot"

\* BurstOutcome::snapshot_requested: "An escape 0xD1 ack reached the wire".
SnapshotAfterAck == phase = "down" => Answered
=============================================================================
