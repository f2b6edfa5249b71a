------------------------------- MODULE System -------------------------------
(***************************************************************************)
(* The four programs together: client.cpp, proxy.cpp, server.cpp and the      *)
(* auth_server.cpp of AuthServer.  Slot c of Conns is a session: a client, the *)
(* thread the proxy runs for it (proxy.cpp:186-223), the thread's connection    *)
(* to the authentication server, that is link[c], and its connection to the    *)
(* server with the thread that serves it there.                              *)
(*                                                                         *)
(* The proxy's side of link[c] takes the steps AuthServer gives its peers:     *)
(* held[c] is the session's token, awaiting[c] that the thread is blocked in    *)
(* Receive.  Between two calls on a connection nothing a thread does can be     *)
(* seen by another, so there is one action per call of Send, Receive, Connect   *)
(* and Disconnect.                                                          *)
(***************************************************************************)
EXTENDS AuthServer

CONSTANTS
  Bodies,       \* what a user may type: "short", "empty", "huge" (a message of more than
                \* the 1024 bytes of the proxy's buffer and less than two buffers)
  MaxMessages   \* bound on the messages of a session

ASSUME SystemAssumption ==
  /\ Bodies \subseteq {"short", "huge", "empty"}
  /\ MaxMessages \in Nat

VARIABLES
  front,    \* front[c]: the connection between the client and the proxy
  back,     \* back[c]: the connection between the proxy and the server
  running,  \* which of the processes "proxy" and "server" run
  client,   \* client[c]: the call client.cpp is about to make (at), its token (own),
            \* the login it has sent (creds, shorter than the proxy's buffer), the
            \* messages it has sent (count)
  proxy,    \* proxy[c]: the call the proxy's thread is about to make (at), the text of
            \* the client it works on (said), what it is about to send to the client
            \* (out), where it goes when that Send succeeds (sent) or not (failed),
            \* authResult (verdict)
  server    \* server[c]: the call the server's thread is about to make (at) and the
            \* message it is echoing (heard)

sysVars == <<vars, front, back, running, client, proxy, server>>

-----------------------------------------------------------------------------
(* What the client and the server say *)

NoCreds == LoginText(Auth(Blank, "none"), <<>>)

Said(token, body, n) == [op |-> "SAY", token |-> token, body |-> body, n |-> n]

Hello == [kind |-> "Hello from Server!", of |-> Blank]

\* The rest of a message longer than the proxy's buffer: a text without "Token: " and
\* "Message: ".
Remainder(n) == [op |-> "TAIL", n |-> n]

\* What the reads of the proxy's 1024-byte buffer can make of a message.  The rest of
\* a huge one was typed too: it may be a message of its own, with the session's token
\* or with a text that is not (Hello stands for those).
SaidReads(m) ==
  IF m.body = "huge"
  THEN {<<[m EXCEPT !.body = "short"], rest>> :
          rest \in {Remainder(m.n), Said(Hello, "short", m.n)}
                     \cup {Said(m.token, body, m.n) : body \in {"short", "empty"}}}
  ELSE {<<m>>}

\* The message a text is about; 0 is the login.
Number(m) == IF m.op = "LOGIN" THEN 0 ELSE m.n

\* A text to the client; about is not in the text, it says what it answers.
Answering(text, n) == [text |-> text, about |-> n]

Payload(body, n) == [body |-> body, n |-> n]

Numbers == 0 .. MaxMessages

ProxyErrors ==
  {"Authentication server unavailable", "Authentication failed",
   "Invalid authentication request", "Invalid message format", "Invalid token",
   "Server unavailable"}

Texts == AuthAnswers \cup {Hello} \cup {Error(e) : e \in ProxyErrors}

ClientTexts ==
  LoginTexts
    \cup [op : {"SAY"}, token : Texts, body : Bodies \cup {"short", "empty"}, n : Numbers]
    \cup [op : {"TAIL"}, n : Numbers]

Replies == [text : Texts, about : Numbers]

Payloads == [body : Bodies \cup {"short", "empty"}, n : Numbers]

ClientSteps == {"idle", "login", "await_token", "prompt", "await_reply", "leave"}

ProxySteps ==
  {"idle", "connect_auth", "receive_login", "forward_login", "await_token", "tell",
   "connect_server", "receive", "verify", "await_verdict", "forward", "await_reply",
   "disconnect", "drop_server", "drop_auth"}

ServerSteps == {"idle", "receive", "send", "disconnect"}

ClientStates ==
  [at : ClientSteps, own : Texts \cup {NoText}, creds : LoginTexts \cup {NoCreds},
   count : Numbers]

ProxyStates ==
  [at : ProxySteps, said : ClientTexts \cup {NoCreds}, out : Replies \cup {NoText},
   sent : ProxySteps, failed : ProxySteps, verdict : Answers \cup {NoText}]

ServerStates == [at : ServerSteps, heard : Payloads]

SystemTypeOK ==
  /\ TypeOK
  /\ front \in [Conns -> LinkType(ClientTexts, Replies)]
  /\ back \in [Conns -> LinkType(Payloads, Replies)]
  /\ running \in SUBSET {"proxy", "server"}
  /\ client \in [Conns -> ClientStates]
  /\ proxy \in [Conns -> ProxyStates]
  /\ server \in [Conns -> ServerStates]

\* The threads of a session that is not in use.
NoClient == [at |-> "idle", own |-> NoText, creds |-> NoCreds, count |-> 0]

NoProxy ==
  [at |-> "idle", said |-> NoCreds, out |-> NoText, sent |-> "idle",
   failed |-> "idle", verdict |-> NoText]

NoServer == [at |-> "idle", heard |-> Payload("short", 0)]

SystemInit ==
  /\ Init
  /\ front = [c \in Conns |-> ClosedLink]
  /\ back = [c \in Conns |-> ClosedLink]
  /\ running = {"proxy", "server"}
  /\ client = [c \in Conns |-> NoClient]
  /\ proxy = [c \in Conns |-> NoProxy]
  /\ server = [c \in Conns |-> NoServer]

Unused(c) ==
  /\ front[c] = ClosedLink /\ back[c] = ClosedLink /\ link[c] = ClosedLink
  /\ {client[c].at, proxy[c].at, server[c].at, pc[c]} = {"idle"}

-----------------------------------------------------------------------------
(* client.cpp *)

\* main of the client connects; main of the proxy accepts and starts the thread.
Connect(c) ==
  /\ "proxy" \in running
  /\ Unused(c)
  /\ front' = [front EXCEPT ![c] = NewLink]
  /\ client' = [client EXCEPT ![c] = [NoClient EXCEPT !.at = "login"]]
  /\ proxy' = [proxy EXCEPT ![c].at = "connect_auth"]
  /\ UNCHANGED <<vars, back, running, server>>

\* proxyClient.Send: when it fails, or SIGPIPE ends it, the client is over.
ClientSends(c, reads, next) ==
  \E o \in WriteOutcomes(front[c], "client", reads) :
    /\ front' = [front EXCEPT ![c] = o.link]
    /\ client' = [client EXCEPT ![c] =
                    IF o.result = "sent" THEN next ELSE [@ EXCEPT !.at = "leave"]]
    /\ UNCHANGED <<vars, back, running, proxy, server>>

Login(c) ==
  /\ client[c].at = "login"
  /\ \E login \in Logins[c] :
       ClientSends(c, <<login>>,
                   [client[c] EXCEPT !.at = "await_token", !.creds = login])

\* Whatever text comes first is the token; every later one is shown to the user.
ClientReceives(c) ==
  /\ client[c].at \in {"await_token", "await_reply"}
  /\ \/ /\ CanRead(front[c], "client")
        /\ front' = [front EXCEPT ![c] = AfterRead(@, "client")]
        /\ client' = [client EXCEPT ![c].at = "prompt",
                        ![c].own = IF client[c].at = "await_token"
                                   THEN Head(front[c].in["client"]).text ELSE @]
     \/ /\ AtEnd(front[c], "client")
        /\ client' = [client EXCEPT ![c].at = "leave"]
        /\ UNCHANGED front
  /\ UNCHANGED <<vars, back, running, proxy, server>>

Say(c) ==
  /\ client[c].at = "prompt"
  /\ client[c].count < MaxMessages
  /\ LET n == client[c].count + 1 IN
     \E body \in Bodies : \E reads \in SaidReads(Said(client[c].own, body, n)) :
       ClientSends(c, reads, [client[c] EXCEPT !.at = "await_reply", !.count = n])

Exit(c) ==
  /\ client[c].at = "prompt"
  /\ client' = [client EXCEPT ![c].at = "leave"]
  /\ UNCHANGED <<vars, front, back, running, proxy, server>>

ClientEnds(c) ==
  /\ front' = [front EXCEPT ![c] = Closed(@, "client")]
  /\ client' = [client EXCEPT ![c] = [NoClient EXCEPT !.creds = client[c].creds]]
  /\ UNCHANGED <<vars, back, running, proxy, server>>

\* Disconnect, or the destructor when main returns before it.
Leave(c) == client[c].at = "leave" /\ ClientEnds(c)

\* The user interrupts the client.
Abandon(c) == Abrupt /\ client[c].at \notin {"idle", "leave"} /\ ClientEnds(c)

ClientThread(c) == Login(c) \/ ClientReceives(c) \/ Leave(c)

-----------------------------------------------------------------------------
(* proxy.cpp *)

ProxyGoto(c, step) == proxy' = [proxy EXCEPT ![c].at = step]

\* SIGPIPE or a signal ends the process with every thread of it; the kernel closes
\* the descriptors one by one (ProxyEndCloses).
ProxyDie ==
  /\ running' = running \ {"proxy"}
  /\ proxy' = [c \in Conns |-> NoProxy]
  /\ UNCHANGED <<vars, front, back, client, server>>

\* A text for the client about the message m, and what to do after Send.
Telling(text, m, sent, failed) ==
  [NoProxy EXCEPT !.at = "tell", !.out = Answering(text, Number(m)),
                  !.sent = sent, !.failed = failed]

\* An error text: the result of its Send is ignored.
TellingError(text, m, next) == Telling(Error(text), m, next, next)

\* proxyAuthyClient.Connect: no connection, or no handshake, whether the process at
\* the other end runs or not.
ConnectAuth(c) ==
  /\ proxy[c].at = "connect_auth"
  /\ \/ Listen(c) /\ ProxyGoto(c, "receive_login")
     \/ ProxyGoto(c, "disconnect") /\ UNCHANGED vars
  /\ UNCHANGED <<front, back, running, client, server>>

\* The result of working on the client's next text m: on to step, or an error.
Heard(c, m) ==
  LET on(step) == [NoProxy EXCEPT !.at = step, !.said = m] IN
  IF proxy[c].at = "receive_login"
  THEN IF m.op = "LOGIN" THEN on("forward_login")
       ELSE TellingError("Invalid authentication request", m, "disconnect")
  ELSE IF m.op # "SAY" THEN TellingError("Invalid message format", m, "receive")
       ELSE IF m.token # held[c] THEN TellingError("Invalid token", m, "receive")
       ELSE on("verify")

\* Mutant of ReceiveText: the loop goes on after a failed Receive.
ReceiveTextContinues(c) ==
  /\ proxy[c].at \in {"receive_login", "receive"}
  /\ CanRead(front[c], "server")
  /\ front' = [front EXCEPT ![c] = AfterRead(@, "server")]
  /\ proxy' = [proxy EXCEPT ![c] = Heard(c, Head(front[c].in["server"]))]
  /\ UNCHANGED <<vars, back, running, client, server>>

\* proxyServer.Receive, first in authenticateWithAuthServer, then in the loop of
\* handleClientRequests.
ReceiveText(c) ==
  /\ proxy[c].at \in {"receive_login", "receive"}
  /\ \/ /\ CanRead(front[c], "server")
        /\ front' = [front EXCEPT ![c] = AfterRead(@, "server")]
        /\ proxy' = [proxy EXCEPT ![c] = Heard(c, Head(front[c].in["server"]))]
     \/ /\ AtEnd(front[c], "server")
        /\ ProxyGoto(c, "disconnect")
        /\ UNCHANGED front
  /\ UNCHANGED <<vars, back, running, client, server>>

\* proxyAuthyClient.Send of the AUTH, as it came.
ForwardLogin(c) ==
  /\ proxy[c].at = "forward_login"
  /\ AskLogin(c, proxy[c].said)
  /\ ProxyGoto(c, "await_token")
  /\ UNCHANGED <<front, back, running, client, server>>

\* proxyAuthyClient.Send of a VERIFY.  Only this one can find the connection reset,
\* by a VERIFY the authentication server was no longer there for.
VerifyToken(c) ==
  /\ proxy[c].at = "verify"
  /\ \/ /\ AskVerify(c)
        /\ ProxyGoto(c, "await_verdict")
        /\ UNCHANGED <<front, back, running, client, server>>
     \/ \E o \in WriteOutcomes(link[c], "client", Reads(Verify(held[c]))) :
          \/ o.result = "killed" /\ ProxyDie
          \/ /\ o.result = "failed"
             /\ proxy' = [proxy EXCEPT ![c] =
                            TellingError("Invalid token", proxy[c].said, "receive")]
             /\ UNCHANGED <<vars, front, back, running, client, server>>

ReceiveToken(c) ==
  /\ proxy[c].at = "await_token"
  /\ \/ /\ TakeAnswer(c)
        /\ proxy' = [proxy EXCEPT ![c] =
                       Telling(held'[c], @.said, "connect_server", "disconnect")]
     \/ /\ NoAnswer(c)
        /\ proxy' = [proxy EXCEPT ![c] =
                       TellingError("Authentication failed", @.said, "disconnect")]
  /\ UNCHANGED <<front, back, running, client, server>>

\* Mutant of ReceiveVerdict: the answer itself is passed on to the client.
ReceiveVerdictRelays(c) ==
  /\ proxy[c].at = "await_verdict"
  /\ TakeAnswer(c)
  /\ LET text == Head(link[c].in["client"]) IN
     proxy' = [proxy EXCEPT ![c] =
       IF text = Verified THEN [@ EXCEPT !.at = "forward"]
       ELSE Telling(text, @.said, "receive", "receive")]
  /\ UNCHANGED <<front, back, running, client, server>>

\* Mutant of ReceiveVerdict: only a refusal counts as one.
ReceiveVerdictTrusting(c) ==
  /\ proxy[c].at = "await_verdict"
  /\ TakeAnswer(c)
  /\ proxy' = [proxy EXCEPT ![c] =
       IF Head(link[c].in["client"]) # Error("Invalid token")
       THEN [@ EXCEPT !.at = "forward"]
       ELSE TellingError("Invalid token", @.said, "receive")]
  /\ UNCHANGED <<front, back, running, client, server>>

\* Mutant of ReceiveVerdict: a refusal is logged and the client not told.
ReceiveVerdictSilently(c) ==
  /\ proxy[c].at = "await_verdict"
  /\ TakeAnswer(c)
  /\ proxy' = [proxy EXCEPT ![c] =
       IF Head(link[c].in["client"]) = Verified THEN [@ EXCEPT !.at = "forward"]
       ELSE [NoProxy EXCEPT !.at = "receive"]]
  /\ UNCHANGED <<front, back, running, client, server>>

ReceiveVerdict(c) ==
  /\ proxy[c].at = "await_verdict"
  /\ \/ /\ TakeAnswer(c)
        /\ LET text == Head(link[c].in["client"]) IN
           proxy' = [proxy EXCEPT ![c] =
             IF text = Verified THEN [@ EXCEPT !.at = "forward", !.verdict = text]
             ELSE [TellingError("Invalid token", @.said, "receive")
                     EXCEPT !.verdict = text]]
     \/ /\ NoAnswer(c)
        /\ proxy' = [proxy EXCEPT ![c] = TellingError("Invalid token", @.said, "receive")]
  /\ UNCHANGED <<front, back, running, client, server>>

\* proxyServer.Send
TellClient(c) ==
  /\ proxy[c].at = "tell"
  /\ \E o \in WriteOutcomes(front[c], "server", <<proxy[c].out>>) :
       IF o.result = "killed"
       THEN ProxyDie
       ELSE /\ front' = [front EXCEPT ![c] = o.link]
            /\ proxy' = [proxy EXCEPT ![c] =
                 [NoProxy EXCEPT !.at = IF o.result = "sent" THEN proxy[c].sent
                                                             ELSE proxy[c].failed]]
            /\ UNCHANGED <<vars, back, running, client, server>>

\* Mutant of ConnectServer: a failure to connect is reported to the client.
ConnectServerReports(c) ==
  /\ proxy[c].at = "connect_server"
  /\ proxy' = [proxy EXCEPT ![c] = TellingError("Server unavailable", @.said, "disconnect")]
  /\ UNCHANGED <<vars, front, back, running, client, server>>

\* proxyClient.Connect.  As server.cpp stands (lines 42-44 are commented out) the
\* server has no certificate and every handshake with it fails.
ConnectServer(c) ==
  /\ proxy[c].at = "connect_server"
  /\ \/ /\ "server" \in running
        /\ back' = [back EXCEPT ![c] = NewLink]
        /\ server' = [server EXCEPT ![c].at = "receive"]
        /\ ProxyGoto(c, "receive")
     \/ ProxyGoto(c, "disconnect") /\ UNCHANGED <<back, server>>
  /\ UNCHANGED <<vars, front, running, client>>

\* proxyClient.Send: SSL_write of no bytes at all does not succeed.
ForwardMessage(c) ==
  LET m == proxy[c].said
      unavailable == TellingError("Server unavailable", m, "disconnect")
      outcomes == IF m.body = "empty" THEN {Outcome("failed", back[c])}
                  ELSE WriteOutcomes(back[c], "client", <<Payload(m.body, m.n)>>)
  IN /\ proxy[c].at = "forward"
     /\ \E o \in outcomes :
          IF o.result = "killed"
          THEN ProxyDie
          ELSE /\ back' = [back EXCEPT ![c] = o.link]
               /\ proxy' = [proxy EXCEPT ![c] =
                    IF o.result = "sent" THEN [@ EXCEPT !.at = "await_reply"]
                                         ELSE unavailable]
               /\ UNCHANGED <<vars, front, running, client, server>>

ReceiveReply(c) ==
  /\ proxy[c].at = "await_reply"
  /\ \/ /\ CanRead(back[c], "client")
        /\ back' = [back EXCEPT ![c] = AfterRead(@, "client")]
        /\ proxy' = [proxy EXCEPT ![c] =
             [NoProxy EXCEPT !.at = "tell", !.out = Head(back[c].in["client"]),
                             !.sent = "receive", !.failed = "disconnect"]]
     \/ /\ AtEnd(back[c], "client")
        /\ proxy' = [proxy EXCEPT ![c] =
                       TellingError("Server unavailable", @.said, "disconnect")]
        /\ UNCHANGED back
  /\ UNCHANGED <<vars, front, running, client, server>>

\* proxyServer.Disconnect
DisconnectClient(c) ==
  /\ proxy[c].at = "disconnect"
  /\ \E o \in CloseOutcomes(front[c], "server") :
       IF o.result = "killed"
       THEN ProxyDie
       ELSE /\ front' = [front EXCEPT ![c] = o.link]
            /\ ProxyGoto(c, "drop_server")
            /\ UNCHANGED <<vars, back, running, client, server>>

\* The destructor of proxyClient.
DropServer(c) ==
  /\ proxy[c].at = "drop_server"
  /\ \/ /\ back[c].up["client"]
        /\ \E o \in CloseOutcomes(back[c], "client") :
             IF o.result = "killed"
             THEN ProxyDie
             ELSE /\ back' = [back EXCEPT ![c] = o.link]
                  /\ ProxyGoto(c, "drop_auth")
                  /\ UNCHANGED <<vars, front, running, client, server>>
     \/ /\ ~back[c].up["client"]
        /\ ProxyGoto(c, "drop_auth")
        /\ UNCHANGED <<vars, front, back, running, client, server>>

\* Mutant of DropAuth: the token outlives the session.
DropAuthKeepsToken(c) ==
  /\ proxy[c].at = "drop_auth"
  /\ link[c].up["client"]
  /\ link' = [link EXCEPT ![c] = Closed(@, "client")]
  /\ awaiting' = [awaiting EXCEPT ![c] = FALSE]
  /\ ProxyGoto(c, "idle")
  /\ UnchangedServer /\ UNCHANGED <<held, front, back, running, client, server>>

\* The destructor of proxyAuthyClient.
DropAuth(c) ==
  /\ proxy[c].at = "drop_auth"
  /\ \/ PeerClose(c) /\ ProxyGoto(c, "idle") /\ UNCHANGED <<front, back, running, client, server>>
     \/ link[c].up["client"] /\ link[c].reset /\ ProxyDie
     \/ /\ ~link[c].up["client"]
        /\ ProxyGoto(c, "idle")
        /\ UNCHANGED <<vars, front, back, running, client, server>>

\* The kernel closes a descriptor of a proxy that is gone.
ProxyEndCloses(c) ==
  /\ proxy[c].at = "idle"
  /\ \/ /\ front[c].up["server"]
        /\ front' = [front EXCEPT ![c] = Closed(@, "server")]
        /\ UNCHANGED <<vars, back>>
     \/ /\ back[c].up["client"]
        /\ back' = [back EXCEPT ![c] = Closed(@, "client")]
        /\ UNCHANGED <<vars, front>>
     \/ PeerClose(c) /\ UNCHANGED <<front, back>>
  /\ UNCHANGED <<running, client, proxy, server>>

\* SSL_connect has no timeout: it may wait for ever while the main of the program at the
\* other end waits in a handshake of its own (tcp_ssl_client.cpp:88, tcp_ssl_server.cpp:94).
ProxyConnects(c) == ConnectAuth(c) \/ ConnectServer(c)

ProxyGoesOn(c) ==
  \/ ReceiveText(c)
  \/ ForwardLogin(c) \/ ReceiveToken(c) \/ VerifyToken(c) \/ ReceiveVerdict(c)
  \/ TellClient(c) \/ ForwardMessage(c) \/ ReceiveReply(c)
  \/ DisconnectClient(c) \/ DropServer(c) \/ DropAuth(c) \/ ProxyEndCloses(c)

ProxyThread(c) == ProxyConnects(c) \/ ProxyGoesOn(c)

-----------------------------------------------------------------------------
(* server.cpp *)

ServerDie ==
  /\ running' = running \ {"server"}
  /\ server' = [c \in Conns |-> NoServer]
  /\ UNCHANGED <<vars, front, back, client, proxy>>

ServerReceive(c) ==
  /\ server[c].at = "receive"
  /\ \/ /\ CanRead(back[c], "server")
        /\ server' = [server EXCEPT ![c] =
                        [at |-> "send", heard |-> Head(back[c].in["server"])]]
        /\ back' = [back EXCEPT ![c] = AfterRead(@, "server")]
     \/ /\ AtEnd(back[c], "server")
        /\ server' = [server EXCEPT ![c].at = "disconnect"]
        /\ UNCHANGED back
  /\ UNCHANGED <<vars, front, running, client, proxy>>

ServerSend(c) ==
  /\ server[c].at = "send"
  /\ \E o \in WriteOutcomes(back[c], "server", <<Answering(Hello, server[c].heard.n)>>) :
       IF o.result = "killed"
       THEN ServerDie
       ELSE /\ back' = [back EXCEPT ![c] = o.link]
            /\ server' = [server EXCEPT ![c] = [NoServer EXCEPT
                 !.at = IF o.result = "sent" THEN "receive" ELSE "disconnect"]]
            /\ UNCHANGED <<vars, front, running, client, proxy>>

ServerDisconnect(c) ==
  /\ server[c].at = "disconnect"
  /\ \E o \in CloseOutcomes(back[c], "server") :
       IF o.result = "killed"
       THEN ServerDie
       ELSE /\ back' = [back EXCEPT ![c] = o.link]
            /\ server' = [server EXCEPT ![c] = NoServer]
            /\ UNCHANGED <<vars, front, running, client, proxy>>

\* The kernel closes a descriptor of a server that is gone.
ServerEndCloses(c) ==
  /\ server[c].at = "idle"
  /\ back[c].up["server"]
  /\ back' = [back EXCEPT ![c] = Closed(@, "server")]
  /\ UNCHANGED <<vars, front, running, client, proxy, server>>

ServerThread(c) ==
  ServerReceive(c) \/ ServerSend(c) \/ ServerDisconnect(c) \/ ServerEndCloses(c)

-----------------------------------------------------------------------------

AuthThread(c) == Handle(c) /\ UNCHANGED <<front, back, running, client, proxy, server>>

\* The clock, and processes that stop and are started again.
World ==
  \/ /\ Tick \/ Crash \/ Restart
     /\ UNCHANGED <<front, back, running, client, proxy, server>>
  \/ Crashes /\ "proxy" \in running /\ ProxyDie
  \/ Crashes /\ "server" \in running /\ ServerDie
  \/ /\ \E program \in {"proxy", "server"} \ running : running' = running \cup {program}
     /\ UNCHANGED <<vars, front, back, client, proxy, server>>

SystemNext ==
  \/ \E c \in Conns :
       \/ Connect(c) \/ Say(c) \/ Exit(c) \/ Abandon(c)
       \/ ClientThread(c) \/ ProxyThread(c) \/ ServerThread(c) \/ AuthThread(c)
  \/ World

SystemSpec == SystemInit /\ [][SystemNext]_sysVars

\* Threads that can run do, save that a Connect of the proxy need not return; users,
\* the clock and crashes owe nothing.
SystemFairness ==
  \A c \in Conns :
    /\ WF_sysVars(ClientThread(c))
    /\ WF_sysVars(ProxyGoesOn(c))
    /\ WF_sysVars(ServerThread(c))
    /\ WF_sysVars(AuthThread(c))

FairSystemSpec == SystemSpec /\ SystemFairness

-----------------------------------------------------------------------------
(* Properties *)

\* The system is an environment of the kind AuthServer assumes: every step of it
\* is a step of AuthServer or none of its business.
RefinesAuthServer == Spec

Accepted(request) ==
  request.op = "AUTH" /\ isUserExists(request.username, request.password)

\* The request is a question about a text that has the form of a token.
AsksOfToken(request) == request.op = "VERIFY" /\ request.token.kind = "token"

\* What a login is worth something for: the right password of a registered user, or
\* a question about a token typed behind byte 256.
Earns(login) ==
  \/ Accepted(login.head)
  \/ \E i \in DOMAIN login.tail : AsksOfToken(login.tail[i])

Earned(c) == Earns(client[c].creds)

\* A message reaches the server, or is on its way to it, only in a session whose
\* own AUTH had the right password of a registered user, in spite of the error
\* texts, leftover answers and late ones that may be taken for the token or for the
\* verdict (proxy.cpp:39, 67, 76, 132-138), with one exception: behind byte 256 of the
\* login there was a VERIFY of a token, whose answer is read as the verdict on the
\* first message.
DeliveredOnlyForOwnLogin ==
  \A c \in Conns :
    \/ proxy[c].at \in {"forward", "await_reply"}
    \/ back[c].in["server"] # <<>>
    \/ server[c].at = "send"
    => Earned(c)

-----------------------------------------------------------------------------
(* The inductive invariant: what is worth something to a session, a login that  *)
(* earns, a first answer with a token, a VERIFY of one, the verdict on it or a  *)
(* message on its way to the server, is there only when the session has earned *)
(* it.                                                                      *)

\* What may be on its way in session c.
Typed(c)   == {t \in ClientTexts : t.op = "LOGIN" => t \in Logins[c] /\ (Earns(t) => Earned(c))}
Asked(c)   == {r \in Requests : AsksOfToken(r) => Earned(c)}
Told(c)    == {a \in Answers : a.kind = "VERIFIED" => Earned(c)}
Passed(c)  == {p \in Payloads : Earned(c)}

\* Where the proxy goes when it has told its client something.
Onward == {"connect_server", "receive", "disconnect"}

ClientEarned(c) ==
  /\ front[c] \in LinkType(Typed(c), Replies)
  /\ client[c].at = "login" => client[c].creds = NoCreds
  /\ client[c].at \in {"prompt", "await_reply"} => client[c].own \in Texts

\* Before the session has its token, whatever its AUTH was read as, the answer it will
\* take for it is a token only if the AUTH was accepted; answers to what came behind
\* byte 256 follow later.
FirstEarned(c) ==
  held[c] = NoText /\ link[c].up["client"] =>
    IF link[c].in["client"] # <<>>
    THEN Head(link[c].in["client"]).kind = "token" => Earned(c)
    ELSE /\ pc[c] = "send" /\ answer[c].kind = "token" => Earned(c)
         /\ pc[c] = "store_token" => Earned(c)
         /\ pc[c] = "check_credentials" /\ Accepted(message[c]) => Earned(c)
         /\ pc[c] = "receive" /\ link[c].in["server"] # <<>>
              /\ Accepted(Head(link[c].in["server"])) => Earned(c)

AuthEarned(c) ==
  /\ link[c] \in LinkType(Asked(c), Told(c))
  /\ held[c].kind = "token" => Earned(c)
  /\ pc[c] \notin {"idle", "receive", "disconnect"} => message[c] \in Asked(c)
  /\ pc[c] = "send" => answer[c] \in Told(c)
  /\ FirstEarned(c)

ProxyEarned(c) ==
  /\ proxy[c].at = "forward_login" => proxy[c].said.op = "LOGIN" /\ proxy[c].said \in Typed(c)
  /\ proxy[c].at \in {"verify", "await_verdict", "forward", "await_reply"} =>
       proxy[c].said.op = "SAY" /\ proxy[c].said \in ClientTexts
  /\ proxy[c].at \in {"forward", "await_reply"} => Earned(c)
  /\ proxy[c].at = "tell" => /\ proxy[c].out \in Replies
                             /\ {proxy[c].sent, proxy[c].failed} \subseteq Onward

ServerEarned(c) ==
  /\ back[c] \in LinkType(Passed(c), Replies)
  /\ server[c].at = "send" => Earned(c)

SystemIInv ==
  /\ IInv
  /\ SystemTypeOK
  /\ \A c \in Conns : ClientEarned(c) /\ AuthEarned(c) /\ ProxyEarned(c) /\ ServerEarned(c)

-----------------------------------------------------------------------------

\* The text the client reads next is about what it has asked last: its AUTH, or
\* its latest message.  A message of more than 1024 bytes gets two answers.
RepliesMatch ==
  \A c \in Conns :
    client[c].at \in {"await_token", "await_reply"} /\ front[c].in["client"] # <<>>
    => Head(front[c].in["client"]).about = client[c].count

\* Why: there is one outstanding text in a session, and one on the way to the server
\* and back.  While the client waits its text is somewhere (still to be read by the
\* proxy, in the hands of the proxy's thread, or answered and still to be read), and
\* never in two places; while it does not wait it is nowhere.
Waiting(c) == client[c].at \in {"await_token", "await_reply"}

\* The proxy's thread works on a text of the client, or on what it says of it.
Working(c) ==
  proxy[c].at \in {"forward_login", "await_token", "verify", "await_verdict",
                   "forward", "await_reply", "tell"}

\* The message it works on.
WorksOn(c) ==
  IF proxy[c].at = "tell" THEN proxy[c].out.about ELSE Number(proxy[c].said)

FrontInTurn(c) ==
  LET asked == front[c].in["server"]
      told  == front[c].in["client"]
      n     == client[c].count
  IN client[c].at \notin {"idle", "leave"} =>
       /\ asked # <<>> => /\ Waiting(c) /\ ~Working(c) /\ told = <<>>
                          /\ Tail(asked) = <<>> /\ Number(Head(asked)) = n
       /\ told # <<>> => /\ Waiting(c) /\ ~Working(c)
                         /\ Tail(told) = <<>> /\ Head(told).about = n
       /\ Working(c) => Waiting(c) /\ WorksOn(c) = n
       /\ client[c].at = "login" => n = 0

\* The proxy's thread may still forward a message of the session, and is not waiting
\* for the echo of one.
Quiet(c) ==
  \/ proxy[c].at \in {"receive", "verify", "await_verdict", "forward"}
  \/ proxy[c].at = "tell" /\ "receive" \in {proxy[c].sent, proxy[c].failed}

BackInTurn(c) ==
  LET asked == back[c].in["server"]
      told  == back[c].in["client"]
      n     == Number(proxy[c].said)
  IN /\ Quiet(c) => asked = <<>> /\ told = <<>> /\ server[c].at # "send"
     /\ proxy[c].at = "await_reply" =>
          /\ asked # <<>> => /\ server[c].at # "send" /\ told = <<>>
                             /\ Tail(asked) = <<>> /\ Head(asked).n = n
          /\ told # <<>> => /\ server[c].at # "send"
                            /\ Tail(told) = <<>> /\ Head(told).about = n
          /\ server[c].at = "send" => server[c].heard.n = n

InTurn == \A c \in Conns : FrontInTurn(c) /\ BackInTurn(c)

\* The proxy's thread is in a Connect, which need not return.
Connecting(c) == proxy[c].at \in {"connect_auth", "connect_server"}

\* A client that waits is answered or told that nobody is there any more, through
\* three threads of three processes that each block in a Receive without timeout
\* (proxy.cpp:67, 108, 154), unless the proxy's thread never comes back from a Connect
\* (proxy.cpp:204, 209).
ClientIsAnswered ==
  \A c \in Conns :
    \/ <>[]Connecting(c)
    \/ client[c].at \in {"await_token", "await_reply"} ~>
         client[c].at \notin {"await_token", "await_reply"}

\* When a client has gone everything that served it is released: the proxy's
\* thread, its two connections and the threads at their other ends, with the same
\* exception.
ClientGoneFreesSession ==
  \A c \in Conns :
    \/ <>[]Connecting(c)
    \/ client[c].at = "idle" ~> Unused(c)

-----------------------------------------------------------------------------
(* What the flowchart (Cxemy_Vitek.drawio, quoted in translation) and the       *)
(* program's messages say of it                                              *)

\* "Has the token's life expired?", "Generation of a token", "Sending of the message
\* to the server" (drawio:526, 544, 517): a message is not refused because the token
\* it came with has just been renewed.
RenewalServesMessage ==
  \A c \in Conns :
    proxy[c].at = "tell" /\ proxy[c].out.text = Error("Invalid token") =>
      \A u \in Users : proxy[c].verdict # NewToken(u)

\* "Failed to send server response back to client." (proxy.cpp:150-152) ends the
\* session of that client and nothing else.
FailedSendEndsOneSession == "proxy" \in running
=============================================================================
