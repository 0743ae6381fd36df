----------------------------- MODULE ServerModes -----------------------------
(***************************************************************************)
(* udp/server.c serves over UDP or over TCP: choose_mode loads the one     *)
(* library or the other, for as long as the server runs.                   *)
(***************************************************************************)
EXTENDS UdpServer, TcpServer

VARIABLE mode  \* argv[1]
modeVars == <<mode, vars, tcpVars>>

ModesInit == mode \in {"udp", "tcp"} /\ Init /\ TcpInit
ServeUdp == mode = "udp" /\ Next /\ UNCHANGED <<mode, tcpVars>>
ServeTcp == mode = "tcp" /\ TcpNext /\ UNCHANGED <<mode, vars>>
ModesNext == ServeUdp \/ ServeTcp
(* In the beginning neither server has anything to do, so that the fairness of *)
(* both asks nothing of the one that is not loaded.                            *)
ModesSpec == ModesInit /\ [][ModesNext]_modeVars /\ Fairness /\ TcpFair
-----------------------------------------------------------------------------
ModesTypeOK == mode \in {"udp", "tcp"} /\ TypeOK /\ TcpTypeOK

(* In either mode a subprocess deciphers and reads its client's lines in the   *)
(* order they were typed, each once, from the first (udp.c:101, tcp.c:52).     *)
ServedInOrder == LinesInOrder /\ TcpLinesInOrder

(* In either mode a client that typed quit is in the end served no more        *)
(* (readme.md:14).  Over UDP its subprocess has then ended, unless a shell     *)
(* prints for ever; over TCP it has ended or accepts others.                   *)
QuitServedNoMore == QuitEndsSubprocess /\ TcpQuitEndsSubprocess
==============================================================================
