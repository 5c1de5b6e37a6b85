---------------------------- MODULE MC_FrameLine ----------------------------
(* Two-bit bytes: headers of a type and a length, payloads of one byte.     *)
EXTENDS FrameLine

MC_Xor(a, b) == (((a % 2) + (b % 2)) % 2) + 2 * (((a \div 2) + (b \div 2)) % 2)
MC_HostCommands == {<<1, 0>>, <<3, 1, 3>>, <<2, 1, 0>>}
=============================================================================
