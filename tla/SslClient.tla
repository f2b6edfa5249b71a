----------------------------- MODULE SslClient -----------------------------
(***************************************************************************)
(* One CTCPSSLClient and the CTCPClient inside it (tcp_ssl_client.cpp,        *)
(* tcp_client.cpp): what Connect leaves behind when one of its stages fails,   *)
(* and what Send, Receive, Disconnect, another Connect and the destructor then  *)
(* do with it.  One thread uses the object; other threads of the process (the  *)
(* proxy's sessions) open and close descriptors meanwhile, and a number that is *)
(* closed is given out again.                                               *)
(*                                                                         *)
(* The n-th call of Connect makes connection n, context n and SSL object n.    *)
(***************************************************************************)
EXTENDS Integers

CONSTANTS
  Fds,          \* descriptor numbers
  Invalid,      \* INVALID_SOCKET
  MaxConnects,  \* bound on the calls of Connect
  MaxAddresses  \* bound on the addresses getaddrinfo returns

ASSUME SslClientAssumption ==
  /\ Invalid \notin Fds
  /\ MaxConnects \in Nat \ {0}
  /\ MaxAddresses \in Nat

VARIABLES
  m_eStatus,
  m_ConnectSocket,
  m_pSSL,     \* the SSL object, 0 for nullptr
  m_pCTXSSL,  \* the context, 0 for nullptr; not reset when it is freed
  at,         \* what Connect does next; "idle" between two calls
  left,       \* addresses Connect has still to try
  count,      \* calls of Connect so far
  result,     \* what the last one returned
  kernel,     \* kernel[f]: whose descriptor f is: a connection, Other or Free
  session,    \* session[n]: the SSL object n and the descriptor set into it
  references, \* references[n]: the reference count OpenSSL keeps of context n
  used        \* the SSL object and the connection the last call of Send, Receive or
              \* Disconnect worked with; <<>> if there was none since Connect

members == <<m_eStatus, m_ConnectSocket, m_pSSL, m_pCTXSSL>>
heap    == <<session, references>>
cvars   == <<members, at, left, count, result, kernel, heap, used>>

Calls == 1 .. MaxConnects

\* Who holds a descriptor: nobody, a connection of this object, other threads.
Free == 0
Other == MaxConnects + 1
Owners == Calls \cup {Free, Other}

SslClientTypeOK ==
  /\ m_eStatus \in {"CONNECTED", "DISCONNECTED"}
  /\ m_ConnectSocket \in Fds \cup {Invalid}
  /\ m_pSSL \in Calls \cup {0}
  /\ m_pCTXSSL \in Calls \cup {0}
  /\ at \in {"idle", "addresses", "context", "handshake", "crashed", "destroyed"}
  /\ left \in 0 .. MaxAddresses
  /\ count \in Calls \cup {0}
  /\ result \in BOOLEAN
  /\ kernel \in [Fds -> Owners]
  /\ session \in [Calls -> [state : {"none", "new", "ready", "failed", "freed"},
                            fd : Fds \cup {Invalid}]]
  /\ references \in [Calls -> 0 .. 2]
  /\ used \in {<<>>} \cup (Calls \X Owners)

SslClientInit ==
  /\ m_eStatus = "DISCONNECTED"
  /\ m_ConnectSocket = Invalid
  /\ m_pSSL = 0 /\ m_pCTXSSL = 0
  /\ at = "idle" /\ left = 0 /\ count = 0 /\ result = FALSE
  /\ kernel = [f \in Fds |-> Free]
  /\ session = [n \in Calls |-> [state |-> "none", fd |-> Invalid]]
  /\ references = [n \in Calls |-> 0]
  /\ used = <<>>

-----------------------------------------------------------------------------
(* Connect *)

Returns(value) == at' = "idle" /\ result' = value

\* close(m_ConnectSocket), when the object is connected.
Close ==
  IF m_eStatus = "CONNECTED"
  THEN /\ kernel' = [kernel EXCEPT ![m_ConnectSocket] = Free]
       /\ m_eStatus' = "DISCONNECTED"
       /\ m_ConnectSocket' = Invalid
  ELSE UNCHANGED <<kernel, m_eStatus, m_ConnectSocket>>

\* Mutant of Connect: the last connection is not closed.
ConnectKeepsLast ==
  /\ at = "idle" /\ count < MaxConnects
  /\ count' = count + 1
  /\ left' \in 0 .. MaxAddresses
  /\ at' = "addresses" /\ used' = <<>>
  /\ UNCHANGED <<members, kernel, result, heap>>

\* Connect closes the last TCP connection, not its TLS session, and looks the
\* server up; getaddrinfo fails or gives some addresses.
Connect ==
  /\ at = "idle" /\ count < MaxConnects
  /\ count' = count + 1
  /\ Close
  /\ left' \in 0 .. MaxAddresses
  /\ at' = "addresses" /\ used' = <<>>
  /\ UNCHANGED <<m_pSSL, m_pCTXSSL, result, heap>>

\* socket and connect.  The number of a socket that could not be connected is
\* closed, and kept.
TryAddress ==
  /\ at = "addresses" /\ left > 0
  /\ left' = left - 1
  /\ \/ m_ConnectSocket' = Invalid /\ UNCHANGED <<at, kernel, m_eStatus>>
     \/ \E f \in Fds :
          /\ kernel[f] = Free
          /\ m_ConnectSocket' = f
          /\ \/ UNCHANGED <<at, kernel, m_eStatus>>
             \/ /\ m_eStatus' = "CONNECTED"
                /\ kernel' = [kernel EXCEPT ![f] = count]
                /\ at' = "context"
  /\ UNCHANGED <<m_pSSL, m_pCTXSSL, count, result, heap, used>>

NoAddress ==
  /\ at = "addresses" /\ left = 0
  /\ Returns(FALSE)
  /\ UNCHANGED <<members, left, count, kernel, heap, used>>

\* SSL_CTX_new: a new context, or none.
SetUpCtxClient == m_pCTXSSL' \in {0, count}

\* Mutant of LoadContext: an SSL object that is there is used again.
LoadContextReuses ==
  /\ at = "context"
  /\ m_pCTXSSL' = count
  /\ m_pSSL' = IF m_pSSL = 0 THEN count ELSE m_pSSL
  /\ session' = [session EXCEPT ![m_pSSL'] = [state |-> "new", fd |-> m_ConnectSocket]]
  /\ references' = [references EXCEPT ![count] = 2]
  /\ at' = "handshake"
  /\ UNCHANGED <<m_eStatus, m_ConnectSocket, left, count, result, kernel, used>>

\* The context with its certificate, CA and key, then SSL_new and SSL_set_fd. Where the
\* context or one of the files fails, Connect returns and leaves everything as it is by
\* then; what the last two return nobody looks at (they fail only for want of memory,
\* which is left out here).
LoadContext ==
  /\ at = "context"
  /\ SetUpCtxClient
  /\ \/ /\ m_pCTXSSL' = 0
        /\ Returns(FALSE)
        /\ UNCHANGED <<m_pSSL, heap>>
     \/ /\ m_pCTXSSL' = count                   \* a file cannot be loaded
        /\ references' = [references EXCEPT ![count] = 1]
        /\ Returns(FALSE)
        /\ UNCHANGED <<m_pSSL, session>>
     \/ /\ m_pCTXSSL' = count /\ m_pSSL' = count
        /\ references' = [references EXCEPT ![count] = 2]
        /\ session' = [session EXCEPT ![count] = [state |-> "new", fd |-> m_ConnectSocket]]
        /\ at' = "handshake"
        /\ UNCHANGED result
  /\ UNCHANGED <<m_eStatus, m_ConnectSocket, left, count, kernel, used>>

\* SSL_connect
Handshake ==
  /\ at = "handshake"
  /\ \E done \in BOOLEAN :
       /\ session' = [session EXCEPT ![m_pSSL].state = IF done THEN "ready" ELSE "failed"]
       /\ Returns(done)
  /\ UNCHANGED <<members, left, count, kernel, references, used>>

-----------------------------------------------------------------------------
(* The other calls *)

\* An SSL object works on whatever the number set into it stands for now.
UsedNow == used' = <<m_pSSL, kernel[session[m_pSSL].fd]>>

\* Send or Receive of an object whose TCP connection is there; without it they
\* return and change nothing.  SSL_write and SSL_read do not survive a nullptr.
SendOrReceive ==
  /\ at = "idle" /\ m_eStatus = "CONNECTED"
  /\ \/ m_pSSL # 0 /\ UsedNow /\ UNCHANGED at
     \/ m_pSSL = 0 /\ at' = "crashed" /\ UNCHANGED used
  /\ UNCHANGED <<members, left, count, result, kernel, heap>>

\* Mutant of ShutdownSSL: the pointer is not reset.
ShutdownSSLKeepsPointer ==
  IF m_pSSL # 0
  THEN /\ UsedNow
       /\ session' = [session EXCEPT ![m_pSSL].state = "freed"]
       /\ references' = [n \in Calls |-> IF n \in {m_pSSL, m_pCTXSSL} THEN 0 ELSE references[n]]
       /\ UNCHANGED m_pSSL
  ELSE UNCHANGED <<m_pSSL, used, heap>>

\* Mutant of ShutdownSSL: the context the object was made from is freed as well.
ShutdownSSLFreesTwice ==
  IF m_pSSL # 0
  THEN /\ UsedNow
       /\ session' = [session EXCEPT ![m_pSSL].state = "freed"]
       /\ references' = [n \in Calls |-> references[n]
                           - (IF n = m_pSSL THEN 2 ELSE 0)
                           - (IF n = m_pCTXSSL THEN 1 ELSE 0)]
       /\ m_pSSL' = 0
  ELSE UNCHANGED <<m_pSSL, used, heap>>

\* SSL_shutdown, SSL_free and SSL_CTX_free: the object gives up its reference to
\* the context it was made from, the client its own to the one it has made last.
ShutdownSSL ==
  IF m_pSSL # 0
  THEN /\ UsedNow
       /\ session' = [session EXCEPT ![m_pSSL].state = "freed"]
       /\ references' = [n \in Calls |-> references[n]
                           - (IF n = m_pSSL THEN 1 ELSE 0)
                           - (IF n = m_pCTXSSL THEN 1 ELSE 0)]
       /\ m_pSSL' = 0
  ELSE UNCHANGED <<m_pSSL, used, heap>>

\* Mutant of DisconnectWhenConnected: only the TCP connection is closed.
DisconnectTcp == Close /\ UNCHANGED <<m_pSSL, used, heap>>

DisconnectWhenConnected ==
  IF m_eStatus = "CONNECTED"
  THEN ShutdownSSL /\ Close
  ELSE UNCHANGED <<m_eStatus, m_ConnectSocket, m_pSSL, kernel, used, heap>>

Disconnect ==
  /\ at = "idle" /\ m_eStatus = "CONNECTED"
  /\ DisconnectWhenConnected
  /\ UNCHANGED <<m_pCTXSSL, at, left, count, result>>

\* The destructor; the second Disconnect in it, and the one of CTCPClient's own
\* destructor, find nothing left to do.
Destroy ==
  /\ at = "idle"
  /\ DisconnectWhenConnected
  /\ at' = "destroyed"
  /\ UNCHANGED <<m_pCTXSSL, left, count, result>>

\* Another thread opens or closes a descriptor of its own.
OtherThread ==
  /\ \E f \in Fds :
       \/ kernel[f] = Free /\ kernel' = [kernel EXCEPT ![f] = Other]
       \/ kernel[f] = Other /\ kernel' = [kernel EXCEPT ![f] = Free]
  /\ UNCHANGED <<members, at, left, count, result, heap, used>>

SslClientNext ==
  \/ Connect \/ TryAddress \/ NoAddress \/ LoadContext \/ Handshake
  \/ SendOrReceive \/ Disconnect \/ Destroy \/ OtherThread

SslClientSpec == SslClientInit /\ [][SslClientNext]_cvars

-----------------------------------------------------------------------------
(* Properties *)

Live(n) == session[n].state \in {"new", "ready", "failed"}

\* A connected object holds the one descriptor of its last Connect and nobody
\* else's, an unconnected one holds none: no call closes a descriptor twice (it may
\* be another thread's by then) or forgets one (tcp_client.cpp:91-161, 242-258).
OwnsItsDescriptor ==
  \A f \in Fds :
    kernel[f] \in Calls <=> m_eStatus = "CONNECTED" /\ f = m_ConnectSocket

\* After a Connect that returned true, whatever Connects before it left behind, data
\* goes through the TLS session it has made and over the connection it has made
\* (tcp_ssl_client.cpp:84-96, 130, 187, 211).
UsesOwnSession == result /\ used # <<>> => used = <<count, count>>

\* An object that is still pointed to has not been freed, and neither have the
\* contexts ShutdownSSL will give up (secure_socket.cpp:132-139), also when SSL
\* object and context come from different Connects.
FreesOnlyLive ==
  m_pSSL # 0 =>
    /\ Live(m_pSSL)
    /\ \A n \in Calls :
         references[n] >= (IF n = m_pSSL THEN 1 ELSE 0) + (IF n = m_pCTXSSL THEN 1 ELSE 0)

\* What the last Connect made is gone after the destructor, but for a context whose
\* files could not be loaded (tcp_ssl_client.cpp:47-81, 205-223).
LastConnectReleased ==
  at = "destroyed" /\ count > 0 =>
    /\ ~Live(count)
    /\ references[count] # 0 => session[count].state = "none"

-----------------------------------------------------------------------------
(* The inductive invariant *)

\* The object is connected exactly while it holds the descriptor of its last
\* Connect, and each stage of Connect finds what the one before has left.
Stages ==
  /\ m_eStatus = "CONNECTED" =>
       count # 0 /\ m_ConnectSocket \in Fds /\ kernel[m_ConnectSocket] = count
  /\ m_eStatus = "DISCONNECTED" => at \notin {"context", "handshake"}
  /\ at \in {"addresses", "context", "handshake"} => count # 0 /\ used = <<>>
  /\ at = "addresses" => m_eStatus = "DISCONNECTED"
  /\ at \in {"addresses", "context"} => m_pSSL < count /\ session[count].state = "none"
  /\ at = "handshake" => m_pSSL = count /\ session[count].state = "new"

\* SSL object n is made by call n, from context n and for descriptor n, and freed
\* with both references to the context if nothing has been made since.
Sessions ==
  /\ m_pSSL <= count
  /\ \A n \in Calls :
       /\ n > count => session[n].state = "none"
       /\ Live(n) => session[n].fd \in Fds
       /\ Live(n) /\ n = count =>
            /\ m_eStatus = "CONNECTED"
            /\ m_pSSL = n /\ m_pCTXSSL = n
            /\ session[n].fd = m_ConnectSocket
            /\ references[n] = 2
       /\ session[n].state = "freed" /\ n = count => references[n] = 0
  /\ at \in {"idle", "crashed"} /\ result /\ m_eStatus = "CONNECTED" => m_pSSL = count
  /\ at = "destroyed" => m_eStatus = "DISCONNECTED"

SslClientIInv ==
  /\ SslClientTypeOK
  /\ Stages
  /\ Sessions
  /\ OwnsItsDescriptor
  /\ UsesOwnSession
  /\ FreesOnlyLive
=============================================================================
