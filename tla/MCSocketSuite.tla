---------------------------- MODULE MCSocketSuite ----------------------------
(* The messages of four clients for TLC: the fourth is too short for Android. *)
EXTENDS SocketSuite

MCMessage == << <<5, 6>>, <<7, 8, 9>>, <<5, 7>>, <<5>> >>
MCSetups == {[type |-> "tcp", clients |-> {1, 4}], [type |-> "tcp", clients |-> {2}],
             [type |-> "udp", clients |-> {1, 2, 3}]}
=============================================================================
