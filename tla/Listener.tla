------------------------------ MODULE Listener ------------------------------
(***************************************************************************)
(* The accept loop the three servers share: main of proxy.cpp, auth_server.cpp *)
(* and server.cpp calls CTCPSSLServer::Listen, which calls CTCPServer::Listen    *)
(* for the TCP connection and then runs the TLS handshake itself, in main's      *)
(* thread, on a blocking socket; on success main starts a thread and calls       *)
(* again, on failure it prints a line and calls again.                         *)
(*                                                                         *)
(* A peer is one attempt to connect.                                         *)
(***************************************************************************)
EXTENDS Naturals, Sequences, FiniteSets

CONSTANTS
  Peers,      \* connection attempts
  Silent,     \* those that may connect and never send a byte
  MaxFds,     \* descriptors the process may have besides the listening socket
  CtxFaults,  \* may SSL_CTX_new or the loading of a certificate or key fail?
  Rivals,     \* may another process hold the port?
  Delays,     \* the delays Listen is called with: "infinite" (as main does), "finite", "zero"
  None        \* no peer

ASSUME ListenerAssumption ==
  /\ Silent \subseteq Peers
  /\ MaxFds \in Nat \ {0}
  /\ CtxFaults \in BOOLEAN
  /\ Rivals \in BOOLEAN
  /\ Delays \subseteq {"infinite", "finite", "zero"}
  /\ Delays # {}
  /\ None \notin Peers

VARIABLES
  rival,    \* another process listens on the port
  socket,   \* m_ListenSocket: "none" (INVALID_SOCKET), "unbound" or "bound"
  address,  \* where it listens: "nowhere", "port", or "elsewhere"
  delay,    \* the delay of the call of Listen at hand
  at,       \* what main does next
  current,  \* the connection main is working on
  backlog,  \* connections the kernel has completed and main has not accepted
  peer,     \* peer[p]: what the attempt has done so far
  open,     \* connections with an open descriptor in this process
  threads   \* connections with a running thread

lvars == <<rival, socket, address, delay, at, current, backlog, peer, open, threads>>

MainSteps == {"start", "bind", "listen", "select", "accept", "context", "handshake"}

PeerSteps == {"away", "connected", "hello", "garbage", "gone"}

ListenerTypeOK ==
  /\ rival \in BOOLEAN
  /\ socket \in {"none", "unbound", "bound"}
  /\ address \in {"nowhere", "port", "elsewhere"}
  /\ delay \in Delays
  /\ at \in MainSteps
  /\ current \in Peers \cup {None}
  /\ backlog \in Seq(Peers)
  /\ peer \in [Peers -> PeerSteps]
  /\ open \in SUBSET Peers
  /\ threads \in SUBSET open

ListenerInit ==
  /\ rival \in (IF Rivals THEN BOOLEAN ELSE {FALSE})
  /\ socket = "none" /\ address = "nowhere"
  /\ delay \in Delays /\ at = "start" /\ current = None
  /\ backlog = <<>>
  /\ peer = [p \in Peers |-> "away"]
  /\ open = {} /\ threads = {}

-----------------------------------------------------------------------------
(* CTCPServer::Listen *)

Connections == <<current, backlog, peer, open, threads>>

\* Listen returns false, or true and main starts the thread: main calls again.
Again == at' = "start" /\ current' = None

\* Mutant of Start: a socket that is not bound is bound by the next call.
StartAgain ==
  /\ at = "start"
  /\ delay' \in Delays
  /\ \/ socket # "bound" /\ socket' = "unbound" /\ at' = "bind"
     \/ socket = "bound" /\ at' = "listen" /\ UNCHANGED socket
  /\ UNCHANGED <<rival, address, Connections>>

\* The listening socket is created by the first call that can: when socket or
\* setsockopt fails nothing is kept and the next call tries again.
Start ==
  /\ at = "start"
  /\ delay' \in Delays
  /\ \/ socket = "none" /\ socket' = "unbound" /\ at' = "bind"
     \/ socket = "none" /\ UNCHANGED <<socket, at>>
     \/ socket # "none" /\ at' = "listen" /\ UNCHANGED socket
  /\ UNCHANGED <<rival, address, Connections>>

\* bind: when it fails the socket is neither closed nor forgotten.
Bind ==
  /\ at = "bind"
  /\ \/ ~rival /\ socket' = "bound" /\ at' = "listen"
     \/ rival /\ at' = "start" /\ UNCHANGED socket
  /\ UNCHANGED <<rival, address, delay, Connections>>

\* listen: the kernel gives a socket that is not bound a port of its own choice; it
\* fails when another process has come to listen on the same port since bind.
ListenAt ==
  /\ at = "listen"
  /\ \/ /\ ~(socket = "bound" /\ rival)
        /\ address' = IF socket = "bound" THEN "port" ELSE "elsewhere"
        /\ at' = IF delay = "infinite" THEN "accept" ELSE "select"
     \/ /\ socket = "bound" /\ rival
        /\ at' = "start"
        /\ UNCHANGED address
  /\ UNCHANGED <<rival, socket, delay, Connections>>

\* Mutant of SelectSocket: every delay ends up as the null pointer.
SelectSocketForEver ==
  /\ at = "select" /\ backlog # <<>>
  /\ at' = "accept"
  /\ UNCHANGED <<rival, socket, address, delay, Connections>>

\* select: a delay of 0 passes a null pointer for the timeout, which means for ever.
SelectSocket ==
  /\ at = "select"
  /\ \/ backlog # <<>> /\ at' = "accept" /\ UNCHANGED current
     \/ backlog = <<>> /\ delay = "finite" /\ Again
  /\ UNCHANGED <<rival, socket, address, delay, backlog, peer, open, threads>>

\* accept blocks until there is a connection; out of descriptors it fails and
\* leaves the connection where it is.
Accept ==
  /\ at = "accept"
  /\ backlog # <<>>
  /\ \/ /\ Cardinality(open) < MaxFds
        /\ current' = Head(backlog)
        /\ backlog' = Tail(backlog)
        /\ open' = open \cup {Head(backlog)}
        /\ at' = "context"
     \/ /\ Cardinality(open) >= MaxFds
        /\ Again
        /\ UNCHANGED <<backlog, open>>
  /\ UNCHANGED <<rival, socket, address, delay, peer, threads>>

-----------------------------------------------------------------------------
(* CTCPSSLServer::Listen, and what main does with the result *)

\* Whether SSL_CTX_new gives a context.
SetUpCtxServer == IF CtxFaults THEN BOOLEAN ELSE {TRUE}

\* The context with its certificate, CA and key, made anew for every connection.
LoadContext ==
  /\ at = "context"
  /\ \E made \in SetUpCtxServer :
       \/ made /\ at' = "handshake" /\ UNCHANGED current
       \/ (~made \/ CtxFaults) /\ Again
  /\ UNCHANGED <<rival, socket, address, delay, backlog, peer, open, threads>>

\* The socket moves into the thread: main's own variable is empty again, and the
\* thread is the one that holds it.
HandOver == threads' = threads \cup {current} /\ Again

\* Mutant of Handshake: SSL_accept failures are not looked at.
HandshakeUnchecked ==
  /\ at = "handshake"
  /\ peer[current] # "connected"
  /\ HandOver
  /\ UNCHANGED <<rival, socket, address, delay, backlog, peer, open>>

\* Mutant of Handshake: a failed SSL_accept is repeated.
HandshakeRetried ==
  /\ at = "handshake"
  /\ peer[current] # "connected"
  /\ IF peer[current] = "hello"
     THEN HandOver
     ELSE UNCHANGED <<threads, at, current>>
  /\ UNCHANGED <<rival, socket, address, delay, backlog, peer, open>>

\* SSL_accept blocks until the peer has spoken or gone.  When it fails ShutdownSSL
\* frees the SSL objects; nobody closes the descriptor.  A peer may be gone after
\* its part of the handshake, or before.
Handshake ==
  /\ at = "handshake"
  /\ \/ peer[current] \in {"hello", "gone"} /\ HandOver
     \/ peer[current] \in {"garbage", "gone"} /\ Again /\ UNCHANGED threads
  /\ UNCHANGED <<rival, socket, address, delay, backlog, peer, open>>

\* Mutant of ThreadEnds: main goes on counting the thread as running.
ThreadEndsKept(p) ==
  /\ p \in threads
  /\ peer[p] = "gone"
  /\ open' = open \ {p}
  /\ UNCHANGED <<rival, socket, address, delay, at, current, backlog, peer, threads>>

\* The thread finds its peer gone and disconnects (auth_server.cpp:94-100, ...).
ThreadEnds(p) ==
  /\ p \in threads
  /\ peer[p] = "gone"
  /\ threads' = threads \ {p}
  /\ open' = open \ {p}
  /\ UNCHANGED <<rival, socket, address, delay, at, current, backlog, peer>>

Main == Start \/ Bind \/ ListenAt \/ SelectSocket \/ Accept \/ LoadContext \/ Handshake

-----------------------------------------------------------------------------
(* The other side *)

Become(p, step) ==
  /\ peer' = [peer EXCEPT ![p] = step]
  /\ UNCHANGED <<rival, socket, address, delay, at, current, open, threads>>

Arrive(p) ==
  /\ peer[p] = "away"
  /\ address = "port"
  /\ backlog' = Append(backlog, p)
  /\ Become(p, "connected")

\* The peer sends what SSL_accept takes, or what it does not take (no TLS, no
\* common cipher, a certificate it will not have).
Speak(p) ==
  /\ peer[p] = "connected"
  /\ \/ Become(p, "hello")
     \/ Become(p, "garbage")
  /\ UNCHANGED backlog

Quit(p) ==
  /\ peer[p] \notin {"away", "gone"}
  /\ Become(p, "gone")
  /\ UNCHANGED backlog

\* The rival stops, or starts while this process does not listen.
Rival ==
  /\ Rivals
  /\ rival \/ address # "port"
  /\ rival' = ~rival
  /\ UNCHANGED <<socket, address, delay, at, Connections>>

ListenerNext ==
  \/ Main \/ Rival
  \/ \E p \in Peers : Arrive(p) \/ Speak(p) \/ Quit(p) \/ ThreadEnds(p)

ListenerSpec == ListenerInit /\ [][ListenerNext]_lvars

\* Threads that can run do, and a peer that is not Silent speaks or leaves.
ListenerFairness ==
  /\ WF_lvars(Main)
  /\ \A p \in Peers : WF_lvars(ThreadEnds(p))
  /\ \A p \in Peers \ Silent : WF_lvars(peer[p] = "connected" /\ (Speak(p) \/ Quit(p)))

FairListenerSpec == ListenerSpec /\ ListenerFairness

-----------------------------------------------------------------------------
(* Properties *)

InBacklog(p) == \E i \in DOMAIN backlog : backlog[i] = p

\* Every descriptor has at most one user, and nobody uses one that is closed: main
\* works on the connection it has accepted last, threads on those it has passed on,
\* and only peers who took part in a handshake have a thread (auth_server.cpp:121-124).
DescriptorsHaveOneUser ==
  /\ current # None => current \in open /\ current \notin threads /\ ~InBacklog(current)
  /\ \A p \in threads : p \in open /\ ~InBacklog(p) /\ peer[p] \in {"hello", "gone"}
  /\ Cardinality(open) <= MaxFds

\* A connection is in the queue once, and either there or accepted; main has one
\* exactly between its accept and the end of the handshake.
QueuedOnce ==
  /\ \A i \in DOMAIN backlog : backlog[i] \notin open /\ peer[backlog[i]] # "away"
  /\ \A i, j \in DOMAIN backlog : backlog[i] = backlog[j] => i = j
  /\ \A p \in open : peer[p] # "away"
  /\ IsFiniteSet(open)
  /\ current # None <=> at \in {"context", "handshake"}

ListenerIInv == ListenerTypeOK /\ QueuedOnce /\ DescriptorsHaveOneUser

\* A peer that speaks TLS gets a thread, whatever becomes of the peers before it in
\* the queue, unless it leaves first or the process cannot take it: it is left in the
\* queue without descriptors, or its context could not be made (tcp_ssl_server.cpp:
\* 27-87; the descriptor is then open and nobody's), or one that never speaks keeps
\* main in SSL_accept (line 94).
HelloIsServed ==
  \A p \in Peers :
    peer[p] = "hello" ~>
      \/ p \in threads
      \/ peer[p] # "hello"
      \/ p \notin open /\ Cardinality(open) = MaxFds
      \/ p \in open /\ p # current /\ CtxFaults
      \/ at = "handshake" /\ current \in Silent /\ peer[current] = "connected"

\* A Listen with a delay returns whether anybody comes or not, once its socket is
\* there, but for a peer that connects and never speaks: the delay does not hold for
\* the handshake (tcp_server.cpp:135-153, tcp_ssl_server.cpp:94).
TimedListenReturns ==
  delay = "finite" ~>
    at = "start" \/ (at = "handshake" /\ current \in Silent /\ peer[current] = "connected")

\* After a bind that failed (tcp_server.cpp:118) main goes on calling Listen, on the
\* same socket: nobody can connect to the port any more, also when it is free.
FailedBindIsFinal ==
  [](socket = "unbound" /\ at # "bind" => [](\A p \in Peers : peer[p] = "away"))
=============================================================================
