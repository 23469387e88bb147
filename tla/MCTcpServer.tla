---------------------------- MODULE MCTcpServer ----------------------------
(***************************************************************************)
(* Instances of TcpServer for TLC.                                         *)
(***************************************************************************)
EXTENDS TcpServer

\* The descriptors: one for the listener, the others for connections and files.
MCFd == 0 .. 2
MCFdLarge == 0 .. 3

\* A configuration without listeners and one that names its address twice.
MCConfigs == {<<>>, <<"a", "a">>, <<"a", "b">>}
MCOneListener == {<<"a">>}
=============================================================================
