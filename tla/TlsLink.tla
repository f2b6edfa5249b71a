------------------------------ MODULE TlsLink ------------------------------
(***************************************************************************)
(* One TLS connection over TCP, as tcp_ssl_server.cpp and                   *)
(* tcp_ssl_client.cpp use it: SSL_write in the Send loops, SSL_read in the   *)
(* Receive loops (bReadFully = FALSE, as every caller in the repository      *)
(* asks), SSL_shutdown and close in Disconnect.                              *)
(*                                                                         *)
(* A link is a record                                                       *)
(*   in[e]  the reads that SSL_read at end e will return, oldest first       *)
(*   up[e]  end e has not been closed                                       *)
(*   reset  an RST has been provoked: the end that is left has no peer and    *)
(*          its next write raises SIGPIPE or fails (no signal is ignored,    *)
(*          no MSG_NOSIGNAL is passed)                                      *)
(* The operators are pure: a caller picks one of the outcomes they list.     *)
(***************************************************************************)
EXTENDS Sequences

\* "client" is the end that connected, "server" the end that accepted.
Ends == {"client", "server"}

Peer(e) == IF e = "client" THEN "server" ELSE "client"

\* The links whose client writes pieces of ToServer and whose server writes
\* pieces of ToClient.
LinkType(ToServer, ToClient) ==
  [in : [client : Seq(ToClient), server : Seq(ToServer)],
   up : [client : BOOLEAN, server : BOOLEAN],
   reset : BOOLEAN]

NewLink ==
  [in |-> [client |-> <<>>, server |-> <<>>],
   up |-> [client |-> TRUE, server |-> TRUE],
   reset |-> FALSE]

\* No connection: both ends closed, nothing kept.
ClosedLink ==
  [in |-> [client |-> <<>>, server |-> <<>>],
   up |-> [client |-> FALSE, server |-> FALSE],
   reset |-> FALSE]

Outcome(result, l) == [result |-> result, link |-> l]

-----------------------------------------------------------------------------
(* SSL_read *)

CanRead(l, e) == l.up[e] /\ l.in[e] # <<>>

AfterRead(l, e) == [l EXCEPT !.in[e] = Tail(@)]

\* SSL_read returns 0 or -1: the peer has closed, with or without an RST, and
\* everything it had sent has been read.
AtEnd(l, e) == l.up[e] /\ l.in[e] = <<>> /\ ~l.up[Peer(e)]

-----------------------------------------------------------------------------
(* SSL_write of a message that the peer will read as the sequence `reads' (a  *)
(* message longer than the peer's buffer takes several reads).                *)

WriteOutcomes(l, e, reads) ==
  IF l.reset
  THEN {Outcome("failed", l), Outcome("killed", l)}
  ELSE IF l.up[Peer(e)]
       THEN {Outcome("sent", [l EXCEPT !.in[Peer(e)] = @ \o reads])}
       ELSE \* the peer has closed: TCP takes the data and an RST comes back
            {Outcome("sent", [l EXCEPT !.reset = TRUE])}

-----------------------------------------------------------------------------
(* close(fd), by Disconnect or by the kernel when the process dies.  Data the  *)
(* end has not read turns the close into an RST.                              *)

Closed(l, e) ==
  IF l.up[Peer(e)]
  THEN [l EXCEPT !.up[e] = FALSE, !.in[e] = <<>>,
                 !.reset = @ \/ l.in[e] # <<>>]
  ELSE ClosedLink

\* ShutdownSSL writes a close_notify before the descriptor is closed; on a
\* reset connection that write is the one that raises SIGPIPE.
CloseOutcomes(l, e) ==
  {Outcome("closed", Closed(l, e))}
    \cup IF l.reset THEN {Outcome("killed", l)} ELSE {}
=============================================================================
