---------------------------- MODULE TcpLifecycle ----------------------------
(***************************************************************************)
(* What a TCP session of the VPN stack promises, without packets, sequence *)
(* numbers or events: it opens with one socket, gives that back exactly    *)
(* once, passes bytes on only while it has it, and once it is ending it    *)
(* lingers, to answer stray packets, and is freed. TcpSession implements   *)
(* this specification (ImplementsLifecycle).                               *)
(***************************************************************************)
EXTENDS Integers

CONSTANT Bytes \* the most the app has to send

VARIABLES
  phase,  \* free, opening, open, halfclosed, ending or lingering
  fd,     \* the session has its socket
  sent    \* how far the app's stream has been given to the socket

vars == <<phase, fd, sent>>

Live == {"opening", "open", "halfclosed"}

Init == phase = "free" /\ fd = FALSE /\ sent = 1

\* The app connects.
Open ==
  /\ phase = "free"
  /\ phase' = "opening" /\ fd' = TRUE /\ sent' = 1

\* Both handshakes are complete.
Establish ==
  /\ phase = "opening"
  /\ phase' = "open" /\ UNCHANGED <<fd, sent>>

\* Bytes of the app go to the server, also those of a session that is ending.
Relay ==
  /\ phase \in {"open", "ending"} /\ fd
  /\ sent' \in sent + 1 .. Bytes + 1
  /\ UNCHANGED <<phase, fd>>

\* The server has finished: there is nothing to pass on any more.
EndOfServer ==
  /\ phase = "open" /\ fd
  /\ phase' = "halfclosed" /\ fd' = FALSE
  /\ sent' \in sent .. Bytes + 1

\* The session fails, is reset or has finished; its last bytes may go with it.
End ==
  /\ phase \in Live
  /\ phase' = "ending"
  /\ fd' \in {fd, FALSE}
  /\ sent' \in sent .. (IF fd THEN Bytes + 1 ELSE sent)

\* The socket, if it is still there, is given back.
Close ==
  /\ phase \in Live \cup {"ending"}
  /\ phase' = "lingering" /\ fd' = FALSE /\ UNCHANGED sent

\* The 5-tuple may be used again.
Free ==
  /\ phase = "lingering"
  /\ phase' = "free" /\ UNCHANGED <<fd, sent>>

Next == Open \/ Establish \/ Relay \/ EndOfServer \/ End \/ Close \/ Free

\* Ending and lingering do not last for ever.
Spec ==
  /\ Init /\ [][Next]_vars
  /\ WF_vars(phase = "ending" /\ Close)
  /\ WF_vars(Free)
=============================================================================
