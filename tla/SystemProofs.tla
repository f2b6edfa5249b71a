---------------------------- MODULE SystemProofs ----------------------------
(***************************************************************************)
(* Theorems about System, for any number of sessions, users, messages and any *)
(* lifetime, with failing queries or not and crashes or not: the four programs  *)
(* are an environment AuthServer's theorems hold in, and only messages of       *)
(* sessions with a login of their own reach the server.                       *)
(*                                                                         *)
(* A process that dies takes its sessions with it in the middle of a request, *)
(* so Abrupt is assumed.                                                     *)
(***************************************************************************)
EXTENDS System, AuthServerProofs

-----------------------------------------------------------------------------
(* Texts *)

LEMMA TextTypes ==
  /\ AuthAnswers \subseteq Texts /\ Hello \in Texts
  /\ \A e \in ProxyErrors : Error(e) \in Texts
  BY DEF Texts

\* Every text is about a message of the session.
LEMMA NumberTyped ==
  ASSUME NEW m \in ClientTexts \cup {NoCreds}
  PROVE  Number(m) \in Numbers
<1>1. 0 \in Numbers
  BY SystemAssumption DEF Numbers
<1>2. CASE m \in LoginTexts \cup {NoCreds}
  BY <1>1, <1>2 DEF LoginTexts, NoCreds, LoginText, Number
<1>3. CASE m \in [op : {"SAY"}, token : Texts, body : Bodies \cup {"short", "empty"},
                  n : Numbers]
  BY <1>3 DEF Number
<1>4. CASE m \in [op : {"TAIL"}, n : Numbers]
  BY <1>4 DEF Number
<1>. QED
  BY <1>2, <1>3, <1>4 DEF ClientTexts

\* A text that starts with AUTH is a login, one with a token and a message is
\* what Said makes.
LEMMA ClientTextKinds ==
  ASSUME NEW m \in ClientTexts
  PROVE  /\ m.op = "LOGIN" => m \in LoginTexts
         /\ m.op = "SAY" => Payload(m.body, m.n) \in Payloads
<1>1. CASE m \in LoginTexts
  BY <1>1 DEF LoginTexts
<1>2. CASE m \in [op : {"SAY"}, token : Texts, body : Bodies \cup {"short", "empty"},
                  n : Numbers]
  BY <1>2 DEF Payload, Payloads
<1>3. CASE m \in [op : {"TAIL"}, n : Numbers]
  BY <1>3
<1>. QED
  BY <1>1, <1>2, <1>3 DEF ClientTexts

\* A thread of the proxy that keeps nothing.
LEMMA NoProxyTyped ==
  /\ NoProxy \in ProxyStates
  /\ \A step \in ProxySteps : [NoProxy EXCEPT !.at = step] \in ProxyStates
  BY DEF NoProxy, ProxyStates, ProxySteps

\* The state s of a thread is one in which it is about to tell its client something.
Tells(s) == s.at = "tell" /\ s.out \in Replies /\ {s.sent, s.failed} \subseteq Onward

\* What the session is about to tell its client.
LEMMA TellingTyped ==
  ASSUME NEW text \in Texts, NEW m \in ClientTexts \cup {NoCreds},
         NEW sent \in Onward, NEW failed \in Onward
  PROVE  /\ Telling(text, m, sent, failed) \in ProxyStates
         /\ Tells(Telling(text, m, sent, failed))
<1>1. Answering(text, Number(m)) \in Replies
  BY NumberTyped DEF Answering, Replies
<1>2. NoProxy \in ProxyStates
  BY NoProxyTyped
<1>3. Telling(text, m, sent, failed) \in ProxyStates
  BY <1>1, <1>2 DEF Telling, ProxyStates, ProxySteps, Onward
<1>4. /\ Telling(text, m, sent, failed).at = "tell"
      /\ Telling(text, m, sent, failed).out = Answering(text, Number(m))
      /\ Telling(text, m, sent, failed).sent = sent
      /\ Telling(text, m, sent, failed).failed = failed
  BY <1>2 DEF Telling, ProxyStates
<1>. QED
  BY <1>1, <1>3, <1>4 DEF Tells

LEMMA Unearned ==
  ASSUME NEW c \in Conns, client[c].creds = NoCreds
  PROVE  ~Earned(c)
<1>1. NoCreds.head = Auth(Blank, "none") /\ NoCreds.tail = <<>>
  BY DEF NoCreds, LoginText
<1>2. ~Accepted(NoCreds.head)
  BY <1>1 DEF Accepted, isUserExists, Auth
<1>3. DOMAIN <<>> = {}
  OBVIOUS
<1>. QED
  BY <1>1, <1>2, <1>3 DEF Earned, Earns

\* Of what the authentication server says, only VERIFIED is worth something after
\* the first answer.
LEMMA Grantless ==
  ASSUME NEW c \in Conns
  PROVE  /\ \A text \in ErrorTexts : Error(text) \in Told(c)
         /\ \A u \in Names : NewToken(u) \in Told(c) /\ generateToken(u) \in Told(c)
         /\ Verified \in Told(c) <=> Earned(c)
  BY AnswerTyped DEF Told, Error, ErrorTexts, NewToken, generateToken, Verified

\* Links of poorer texts are links.
LEMMA LinkSubtype ==
  ASSUME NEW A, NEW B, NEW C, NEW D, A \subseteq C, B \subseteq D,
         NEW l \in LinkType(A, B)
  PROVE  l \in LinkType(C, D)
<1>1. Seq(A) \subseteq Seq(C) /\ Seq(B) \subseteq Seq(D)
  OBVIOUS
<1>. QED
  BY <1>1 DEF LinkType

-----------------------------------------------------------------------------
(* Refinement *)

\* Every step of the four programs is a step of AuthServer or leaves it alone.
LEMMA StepRefines ==
  ASSUME Abrupt, SystemIInv, [SystemNext]_sysVars
  PROVE  [Next]_vars
<1>1. ASSUME NEW c \in Conns, ForwardLogin(c)
      PROVE  PeerStep(c)
  <2>1. proxy[c].said \in Logins[c]
    BY <1>1, ClientTextKinds DEF ForwardLogin, SystemIInv, ProxyEarned, Typed
  <2>. QED
    BY <1>1, <2>1 DEF ForwardLogin, PeerStep
<1>2. ASSUME NEW c \in Conns, ProxyThread(c)
      PROVE  PeerStep(c) \/ Listen(c) \/ UNCHANGED vars
  <2>1. CASE ForwardLogin(c)
    BY <1>1, <2>1
  <2>2. CASE VerifyToken(c)
    BY <2>2 DEF VerifyToken, ProxyDie, PeerStep
  <2>3. CASE ReceiveToken(c) \/ ReceiveVerdict(c)
    BY <2>3 DEF ReceiveToken, ReceiveVerdict, PeerStep
  <2>4. CASE ConnectAuth(c)
    BY <2>4 DEF ConnectAuth
  <2>5. CASE DropAuth(c) \/ ProxyEndCloses(c)
    BY <2>5 DEF DropAuth, ProxyEndCloses, ProxyDie, PeerStep
  <2>6. CASE ReceiveText(c) \/ ConnectServer(c) \/ ReceiveReply(c)
    BY <2>6 DEF ReceiveText, ConnectServer, ReceiveReply
  <2>7. CASE TellClient(c) \/ ForwardMessage(c)
    BY <2>7 DEF TellClient, ForwardMessage, ProxyDie
  <2>8. CASE DisconnectClient(c) \/ DropServer(c)
    BY <2>8 DEF DisconnectClient, DropServer, ProxyDie
  <2>. QED
    BY <1>2, <2>1, <2>2, <2>3, <2>4, <2>5, <2>6, <2>7, <2>8
       DEF ProxyThread, ProxyConnects, ProxyGoesOn
<1>3. ASSUME NEW c \in Conns, Connect(c) \/ Say(c) \/ Exit(c) \/ Abandon(c) \/ ClientThread(c)
      PROVE  UNCHANGED vars
  BY <1>3 DEF Connect, Say, Exit, Abandon, ClientThread, Login, ClientReceives, Leave,
              ClientSends, ClientEnds
<1>4. ASSUME NEW c \in Conns, ServerThread(c)
      PROVE  UNCHANGED vars
  BY <1>4 DEF ServerThread, ServerReceive, ServerSend, ServerDisconnect, ServerEndCloses,
              ServerDie
<1>5. ASSUME NEW c \in Conns, AuthThread(c)
      PROVE  Handle(c)
  BY <1>5 DEF AuthThread
<1>6. CASE World
  BY <1>6 DEF World, ProxyDie, ServerDie, Next
<1>7. CASE UNCHANGED sysVars
  BY <1>7 DEF sysVars
<1>. QED
  BY <1>2, <1>3, <1>4, <1>5, <1>6, <1>7 DEF SystemNext, Next

-----------------------------------------------------------------------------
(* Frames *)

\* The worth of what is on its way depends on the login of the session only.
LEMMA SameCreds ==
  ASSUME NEW d \in Conns, client'[d].creds = client[d].creds
  PROVE  /\ Earned(d)' <=> Earned(d)
         /\ Typed(d)' = Typed(d)
         /\ Asked(d)' = Asked(d)
         /\ Told(d)' = Told(d)
         /\ Passed(d)' = Passed(d)
<1>1. Earned(d)' <=> Earned(d)
  BY DEF Earned
<1>. QED
  BY <1>1 DEF Typed, Asked, Told, Passed

LEMMA AuthFrame ==
  ASSUME NEW d \in Conns, AuthEarned(d), client'[d].creds = client[d].creds,
         link'[d] = link[d], held'[d] = held[d], pc'[d] = pc[d],
         message'[d] = message[d], answer'[d] = answer[d]
  PROVE  AuthEarned(d)'
<1>1. FirstEarned(d)'
  BY SameCreds DEF AuthEarned, FirstEarned
<1>. QED
  BY <1>1, SameCreds DEF AuthEarned

LEMMA ClientFrame ==
  ASSUME NEW d \in Conns, ClientEarned(d), client'[d] = client[d], front'[d] = front[d]
  PROVE  ClientEarned(d)'
  BY SameCreds DEF ClientEarned

LEMMA ProxyFrame ==
  ASSUME NEW d \in Conns, ProxyEarned(d), client'[d].creds = client[d].creds,
         proxy'[d] = proxy[d]
  PROVE  ProxyEarned(d)'
  BY SameCreds DEF ProxyEarned

LEMMA ServerFrame ==
  ASSUME NEW d \in Conns, ServerEarned(d), client'[d].creds = client[d].creds,
         back'[d] = back[d], server'[d] = server[d]
  PROVE  ServerEarned(d)'
  BY SameCreds DEF ServerEarned

\* A step that leaves every session but c alone.
LEMMA OneSession ==
  ASSUME SystemIInv, NEW c \in Conns, IInv', SystemTypeOK',
         ClientEarned(c)', AuthEarned(c)', ProxyEarned(c)', ServerEarned(c)',
         \A d \in Conns \ {c} :
           /\ front'[d] = front[d] /\ client'[d] = client[d]
           /\ link'[d] = link[d] /\ held'[d] = held[d] /\ pc'[d] = pc[d]
           /\ message'[d] = message[d] /\ answer'[d] = answer[d]
           /\ proxy'[d] = proxy[d] /\ back'[d] = back[d] /\ server'[d] = server[d]
  PROVE  SystemIInv'
<1>1. ASSUME NEW d \in Conns, d # c
      PROVE  ClientEarned(d)' /\ AuthEarned(d)' /\ ProxyEarned(d)' /\ ServerEarned(d)'
  BY <1>1, ClientFrame, AuthFrame, ProxyFrame, ServerFrame DEF SystemIInv
<1>. QED
  BY <1>1 DEF SystemIInv

\* AuthServer's variables are left alone.
LEMMA VarsSame ==
  ASSUME UNCHANGED vars
  PROVE  UNCHANGED <<tokens, time, up, link, pc, message, ttl, clock, username,
                     answer, loggedIn, held, awaiting>>
  BY DEF vars

\* The proxy goes on to a step that owes nothing.
Free == ProxySteps \ {"forward_login", "verify", "await_verdict", "forward",
                      "await_reply", "tell"}

LEMMA ProxyFree ==
  ASSUME SystemIInv, NEW c \in Conns, NEW step \in Free,
         ProxyGoto(c, step) \/ proxy' = [proxy EXCEPT ![c] = [NoProxy EXCEPT !.at = step]]
  PROVE  /\ proxy' \in [Conns -> ProxyStates]
         /\ ProxyEarned(c)'
         /\ \A d \in Conns \ {c} : proxy'[d] = proxy[d]
<1>1. proxy \in [Conns -> ProxyStates] /\ step \in ProxySteps
  BY DEF SystemIInv, SystemTypeOK, Free
<1>2. /\ [NoProxy EXCEPT !.at = step] \in ProxyStates
      /\ [NoProxy EXCEPT !.at = step].at = step
  BY <1>1, NoProxyTyped DEF ProxyStates
<1>3. /\ [proxy[c] EXCEPT !.at = step] \in ProxyStates
      /\ [proxy[c] EXCEPT !.at = step].at = step
  BY <1>1 DEF ProxyStates
<1>4. /\ proxy' \in [Conns -> ProxyStates]
      /\ proxy'[c].at = step
      /\ \A d \in Conns \ {c} : proxy'[d] = proxy[d]
  BY <1>1, <1>2, <1>3 DEF ProxyGoto
<1>. QED
  BY <1>4 DEF ProxyEarned, Free

\* The proxy goes on to tell its client something.
LEMMA ProxyTells ==
  ASSUME SystemIInv, NEW c \in Conns, NEW s \in ProxyStates, Tells(s),
         proxy' = [proxy EXCEPT ![c] = s]
  PROVE  /\ proxy' \in [Conns -> ProxyStates]
         /\ ProxyEarned(c)'
         /\ \A d \in Conns \ {c} : proxy'[d] = proxy[d]
<1>1. proxy \in [Conns -> ProxyStates]
  BY DEF SystemIInv, SystemTypeOK
<1>2. proxy'[c] = s
  BY <1>1
<1>. QED
  BY <1>1, <1>2 DEF ProxyEarned, Tells

\* An error text is something to tell.
LEMMA ErrorTold ==
  ASSUME NEW e \in ProxyErrors, NEW m \in ClientTexts \cup {NoCreds}, NEW next \in Onward
  PROVE  TellingError(e, m, next) \in ProxyStates /\ Tells(TellingError(e, m, next))
  BY TextTypes, TellingTyped DEF TellingError

\* A death of the proxy ends every session of it.
LEMMA ProxyDieKeeps ==
  ASSUME SystemIInv, IInv', ProxyDie
  PROVE  SystemIInv'
<1>1. /\ proxy' = [c \in Conns |-> NoProxy] /\ running' = running \ {"proxy"}
      /\ UNCHANGED <<vars, front, back, client, server>>
  BY DEF ProxyDie
<1>2. SystemTypeOK'
  BY <1>1, NoProxyTyped DEF SystemIInv, SystemTypeOK, IInv
<1>3. ASSUME NEW d \in Conns
      PROVE  ClientEarned(d)' /\ AuthEarned(d)' /\ ProxyEarned(d)' /\ ServerEarned(d)'
  <2>1. ProxyEarned(d)'
    BY <1>1 DEF ProxyEarned, NoProxy
  <2>. QED
    BY <1>1, <2>1, VarsSame, ClientFrame, AuthFrame, ServerFrame DEF SystemIInv
<1>. QED
  BY <1>2, <1>3 DEF SystemIInv


-----------------------------------------------------------------------------
(* client.cpp *)

\* A new session has earned nothing, and finds nothing.
LEMMA ConnectKeeps ==
  ASSUME SystemIInv, IInv', NEW c \in Conns, Connect(c)
  PROVE  SystemIInv'
<1>1. /\ front' = [front EXCEPT ![c] = NewLink]
      /\ client' = [client EXCEPT ![c] = [NoClient EXCEPT !.at = "login"]]
      /\ proxy' = [proxy EXCEPT ![c].at = "connect_auth"]
      /\ UNCHANGED <<vars, back, running, server>>
      /\ back[c] = ClosedLink /\ link[c] = ClosedLink
      /\ server[c].at = "idle" /\ pc[c] = "idle"
  BY DEF Connect, Unused
<1>2. SystemTypeOK
  BY DEF SystemIInv
<1>3. /\ [NoClient EXCEPT !.at = "login"] \in ClientStates
      /\ [NoClient EXCEPT !.at = "login"].at = "login"
      /\ [NoClient EXCEPT !.at = "login"].creds = NoCreds
  BY SystemAssumption DEF NoClient, ClientStates, ClientSteps, Numbers
<1>4. client'[c].at = "login" /\ client'[c].creds = NoCreds
  BY <1>1, <1>2, <1>3 DEF SystemTypeOK
<1>5. /\ proxy' \in [Conns -> ProxyStates] /\ ProxyEarned(c)'
      /\ \A d \in Conns \ {c} : proxy'[d] = proxy[d]
  <2>1. "connect_auth" \in Free /\ ProxyGoto(c, "connect_auth")
    BY <1>1 DEF Free, ProxySteps, ProxyGoto
  <2>. QED
    BY <2>1, ProxyFree
<1>6. SystemTypeOK'
  <2>1. NewLink \in LinkType(ClientTexts, Replies)
    BY NewLinkTyped
  <2>. QED
    BY <1>1, <1>2, <1>3, <1>5, <2>1 DEF SystemTypeOK, IInv
<1>7. ClientEarned(c)'
  <2>1. front'[c] = NewLink
    BY <1>1, <1>2 DEF SystemTypeOK
  <2>2. NewLink \in LinkType(Typed(c)', Replies)
    BY NewLinkTyped
  <2>. QED
    BY <1>4, <2>1, <2>2 DEF ClientEarned
<1>8. AuthEarned(c)'
  <2>1. link'[c] = ClosedLink /\ pc'[c] = "idle" /\ held'[c] = held[c]
    BY <1>1, VarsSame
  <2>2. ClosedLink \in LinkType(Asked(c)', Told(c)')
    BY NewLinkTyped
  <2>3. held[c] = NoText
    BY <1>1 DEF SystemIInv, IInv, ConnInv, StartsClean, ClosedLink
  <2>4. FirstEarned(c)'
    BY <2>1 DEF FirstEarned, ClosedLink
  <2>. QED
    BY <2>1, <2>2, <2>3, <2>4 DEF AuthEarned, NoText
<1>9. ServerEarned(c)'
  <2>1. ClosedLink \in LinkType(Passed(c)', Replies)
    BY NewLinkTyped
  <2>. QED
    BY <1>1, <2>1 DEF ServerEarned
<1>. QED
  BY <1>1, <1>2, <1>5, <1>6, <1>7, <1>8, <1>9, OneSession, VarsSame DEF SystemTypeOK

\* A step of the client alone that keeps its creds.
LEMMA ClientStep ==
  ASSUME SystemIInv, IInv', NEW c \in Conns, NEW l, NEW s \in ClientStates,
         front' = [front EXCEPT ![c] = l], client' = [client EXCEPT ![c] = s],
         UNCHANGED <<vars, back, running, proxy, server>>,
         l \in LinkType(Typed(c), Replies),
         s.creds = client[c].creds,
         s.at # "login",
         s.at \in {"prompt", "await_reply"} => s.own \in Texts
  PROVE  SystemIInv'
<1>1. SystemTypeOK
  BY DEF SystemIInv
<1>2. /\ front'[c] = l /\ client'[c] = s
      /\ \A d \in Conns \ {c} : front'[d] = front[d] /\ client'[d] = client[d]
  BY <1>1 DEF SystemTypeOK
<1>3. SystemTypeOK'
  <2>1. l \in LinkType(ClientTexts, Replies)
    BY LinkSubtype DEF Typed
  <2>. QED
    BY <1>1, <2>1 DEF SystemTypeOK, IInv
<1>4. ClientEarned(c)'
  BY <1>2, SameCreds DEF ClientEarned
<1>5. AuthEarned(c)' /\ ProxyEarned(c)' /\ ServerEarned(c)'
  BY <1>2, VarsSame, AuthFrame, ProxyFrame, ServerFrame DEF SystemIInv
<1>. QED
  BY <1>2, <1>3, <1>4, <1>5, VarsSame, OneSession

\* The login is what the session has earned or not from then on.
LEMMA LoginKeeps ==
  ASSUME SystemIInv, IInv', NEW c \in Conns, Login(c)
  PROVE  SystemIInv'
<1>1. PICK login \in Logins[c] :
        ClientSends(c, <<login>>,
                    [client[c] EXCEPT !.at = "await_token", !.creds = login])
  BY DEF Login
<1>2. PICK o \in WriteOutcomes(front[c], "client", <<login>>) :
        /\ front' = [front EXCEPT ![c] = o.link]
        /\ client' = [client EXCEPT ![c] =
             IF o.result = "sent"
             THEN [client[c] EXCEPT !.at = "await_token", !.creds = login]
             ELSE [client[c] EXCEPT !.at = "leave"]]
        /\ UNCHANGED <<vars, back, running, proxy, server>>
  BY <1>1 DEF ClientSends, SystemIInv, SystemTypeOK
<1>3. /\ SystemTypeOK /\ client[c] \in ClientStates /\ front[c] \in LinkType(Typed(c), Replies)
      /\ client[c].creds = NoCreds
  BY DEF SystemIInv, SystemTypeOK, ClientEarned, Login
<1>4. login \in LoginTexts /\ login \in ClientTexts /\ login.op = "LOGIN"
  BY ConstantsAssumption DEF ClientTexts, LoginTexts
<1>5. CASE o.result = "sent"
  <2>. DEFINE s == [client[c] EXCEPT !.at = "await_token", !.creds = login]
  <2>1. s \in ClientStates /\ s.at = "await_token" /\ s.creds = login
    BY <1>3, <1>4 DEF ClientStates, ClientSteps
  <2>2. client'[c] = s /\ front'[c] = o.link
    BY <1>2, <1>3, <1>5 DEF SystemTypeOK
  <2>3. Earned(c)' <=> Earns(login)
    BY <2>1, <2>2 DEF Earned
  <2>4. ~Earned(c)
    BY <1>3, Unearned
  <2>5. /\ Typed(c) \subseteq Typed(c)' /\ login \in Typed(c)'
        /\ Asked(c) \subseteq Asked(c)' /\ Told(c) \subseteq Told(c)'
        /\ Passed(c) \subseteq Passed(c)'
    <3>1. Typed(c) \subseteq Typed(c)' /\ login \in Typed(c)'
      BY <1>4, <2>3, <2>4 DEF Typed
    <3>. QED
      BY <2>4, <3>1 DEF Asked, Told, Passed
  <2>6. o.link \in LinkType(Typed(c)', Replies)
    <3>1. front[c] \in LinkType(Typed(c)', Replies)
      BY <1>3, <2>5, LinkSubtype
    <3>2. <<login>> \in Seq(Typed(c)')
      BY <2>5
    <3>. QED
      BY <3>1, <3>2, ClientWriteTyped
  <2>7. SystemTypeOK'
    <3>1. o.link \in LinkType(ClientTexts, Replies)
      BY <2>6, LinkSubtype DEF Typed
    <3>. QED
      BY <1>2, <1>3, <1>5, <2>1, <3>1 DEF SystemTypeOK, IInv
  <2>8. ClientEarned(c)'
    BY <2>1, <2>2, <2>6 DEF ClientEarned
  <2>9. AuthEarned(c)'
    <3>1. link[c] \in LinkType(Asked(c)', Told(c)')
      BY <2>5, LinkSubtype DEF SystemIInv, AuthEarned
    <3>2. FirstEarned(c)'
      BY <1>2, <2>4, VarsSame DEF SystemIInv, AuthEarned, FirstEarned
    <3>. QED
      BY <1>2, <2>4, <2>5, <3>1, <3>2, VarsSame DEF SystemIInv, AuthEarned
  <2>10. ProxyEarned(c)'
    BY <1>2, <2>4, <2>5 DEF SystemIInv, ProxyEarned
  <2>11. ServerEarned(c)'
    <3>1. back[c] \in LinkType(Passed(c)', Replies)
      BY <2>5, LinkSubtype DEF SystemIInv, ServerEarned
    <3>. QED
      BY <1>2, <2>4, <3>1 DEF SystemIInv, ServerEarned
  <2>12. \A d \in Conns \ {c} : front'[d] = front[d] /\ client'[d] = client[d]
    BY <1>2, <1>3 DEF SystemTypeOK
  <2>. QED
    BY <1>2, <2>7, <2>8, <2>9, <2>10, <2>11, <2>12, VarsSame, OneSession
<1>6. CASE o.result # "sent"
  <2>. DEFINE s == [client[c] EXCEPT !.at = "leave"]
  <2>1. s \in ClientStates /\ s.at = "leave" /\ s.creds = client[c].creds
    BY <1>3 DEF ClientStates, ClientSteps
  <2>2. client' = [client EXCEPT ![c] = s]
    BY <1>2, <1>6
  <2>3. o.link = front[c]
    BY <1>6 DEF WriteOutcomes, Outcome
  <2>. QED
    BY <1>2, <1>3, <2>1, <2>2, <2>3, ClientStep
<1>. QED
  BY <1>5, <1>6

LEMMA ClientReceivesKeeps ==
  ASSUME SystemIInv, IInv', NEW c \in Conns, ClientReceives(c)
  PROVE  SystemIInv'
<1>1. /\ client[c].at \in {"await_token", "await_reply"}
      /\ UNCHANGED <<vars, back, running, proxy, server>>
  BY DEF ClientReceives
<1>2. /\ SystemTypeOK /\ client[c] \in ClientStates /\ front[c] \in LinkType(Typed(c), Replies)
      /\ client[c].at = "await_reply" => client[c].own \in Texts
  BY DEF SystemIInv, SystemTypeOK, ClientEarned
<1>3. CASE CanRead(front[c], "client")
  <2>. DEFINE own == IF client[c].at = "await_token"
                     THEN Head(front[c].in["client"]).text ELSE client[c].own
              s == [client[c] EXCEPT !.at = "prompt", !.own = own]
  <2>0. CASE AtEnd(front[c], "client")
    BY <1>3, <2>0 DEF CanRead, AtEnd
  <2>1. CASE /\ front' = [front EXCEPT ![c] = AfterRead(@, "client")]
             /\ client' = [client EXCEPT ![c].at = "prompt", ![c].own = own]
    <3>1. /\ Head(front[c].in["client"]) \in Replies
          /\ AfterRead(front[c], "client") \in LinkType(Typed(c), Replies)
      BY <1>2, <1>3, ClientReadTyped
    <3>2. own \in Texts
      BY <1>1, <1>2, <3>1 DEF Replies
    <3>. HIDE DEF own
    <3>3. s \in ClientStates /\ s.at = "prompt" /\ s.own = own /\ s.creds = client[c].creds
      BY <1>2, <3>2 DEF ClientStates, ClientSteps
    <3>4. client' = [client EXCEPT ![c] = s]
      BY <1>2, <2>1 DEF SystemTypeOK
    <3>5. front' = [front EXCEPT ![c] = AfterRead(front[c], "client")]
      BY <1>2, <2>1 DEF SystemTypeOK
    <3>. QED
      BY <1>1, <3>1, <3>2, <3>3, <3>4, <3>5, ClientStep
  <2>. QED
    BY <2>0, <2>1 DEF ClientReceives
<1>4. CASE ~CanRead(front[c], "client")
  <2>. DEFINE s == [client[c] EXCEPT !.at = "leave"]
  <2>1. s \in ClientStates /\ s.at = "leave" /\ s.creds = client[c].creds
    BY <1>2 DEF ClientStates, ClientSteps
  <2>2. client' = [client EXCEPT ![c] = s] /\ front' = [front EXCEPT ![c] = front[c]]
    BY <1>2, <1>4 DEF ClientReceives, SystemTypeOK
  <2>. QED
    BY <1>1, <1>2, <2>1, <2>2, ClientStep
<1>. QED
  BY <1>3, <1>4


LEMMA SayKeeps ==
  ASSUME SystemIInv, IInv', NEW c \in Conns, Say(c)
  PROVE  SystemIInv'
<1>. DEFINE n == client[c].count + 1
            m(body) == Said(client[c].own, body, n)
<1>1. /\ client[c].at = "prompt" /\ client[c].count < MaxMessages
      /\ \E body \in Bodies : \E reads \in SaidReads(m(body)) :
           ClientSends(c, reads, [client[c] EXCEPT !.at = "await_reply", !.count = n])
  BY DEF Say
<1>2. PICK body \in Bodies : \E reads \in SaidReads(m(body)) :
        ClientSends(c, reads, [client[c] EXCEPT !.at = "await_reply", !.count = n])
  BY <1>1
<1>3. PICK reads \in SaidReads(m(body)) :
        ClientSends(c, reads, [client[c] EXCEPT !.at = "await_reply", !.count = n])
  BY <1>2
<1>4. PICK o \in WriteOutcomes(front[c], "client", reads) :
        /\ front' = [front EXCEPT ![c] = o.link]
        /\ client' = [client EXCEPT ![c] =
             IF o.result = "sent"
             THEN [client[c] EXCEPT !.at = "await_reply", !.count = n]
             ELSE [client[c] EXCEPT !.at = "leave"]]
        /\ UNCHANGED <<vars, back, running, proxy, server>>
  BY <1>3 DEF ClientSends, SystemIInv, SystemTypeOK
<1>5. /\ client[c] \in ClientStates /\ front[c] \in LinkType(Typed(c), Replies)
      /\ client[c].own \in Texts
  BY <1>1 DEF SystemIInv, SystemTypeOK, ClientEarned
<1>6. n \in Numbers
  BY <1>1, <1>5, SystemAssumption DEF ClientStates, Numbers
<1>. HIDE DEF n
<1>7. reads \in Seq(Typed(c))
  <2>1. \A b \in Bodies \cup {"short", "empty"} : \A t \in Texts : Said(t, b, n) \in Typed(c)
    BY <1>6 DEF Said, Typed, ClientTexts
  <2>2. Remainder(n) \in Typed(c)
    BY <1>6 DEF Remainder, Typed, ClientTexts
  <2>3. /\ [m(body) EXCEPT !.body = "short"] = Said(client[c].own, "short", n)
        /\ m(body) = Said(client[c].own, body, n)
        /\ m(body).n = n /\ m(body).token = client[c].own
    BY DEF Said
  <2>4. Hello \in Texts
    BY TextTypes
  <2>5. CASE reads = <<m(body)>>
    BY <1>5, <2>1, <2>3, <2>5
  <2>6. CASE reads # <<m(body)>>
    <3>1. PICK rest \in {Remainder(n), Said(Hello, "short", n)}
                         \cup {Said(client[c].own, b, n) : b \in {"short", "empty"}} :
            reads = <<Said(client[c].own, "short", n), rest>>
      BY <1>3, <2>3, <2>6 DEF SaidReads
    <3>2. rest \in Typed(c) /\ Said(client[c].own, "short", n) \in Typed(c)
      BY <1>5, <2>1, <2>2, <2>4, <3>1
    <3>. QED
      BY <3>1, <3>2
  <2>. QED
    BY <2>5, <2>6
<1>8. o.link \in LinkType(Typed(c), Replies)
  BY <1>5, <1>7, ClientWriteTyped
<1>9. CASE o.result = "sent"
  <2>. DEFINE s == [client[c] EXCEPT !.at = "await_reply", !.count = n]
  <2>1. /\ s \in ClientStates /\ s.at = "await_reply" /\ s.creds = client[c].creds
        /\ s.own = client[c].own
    BY <1>5, <1>6 DEF ClientStates, ClientSteps
  <2>2. client' = [client EXCEPT ![c] = s]
    BY <1>4, <1>9
  <2>. QED
    BY <1>4, <1>5, <1>8, <2>1, <2>2, ClientStep
<1>10. CASE o.result # "sent"
  <2>. DEFINE s == [client[c] EXCEPT !.at = "leave"]
  <2>1. s \in ClientStates /\ s.at = "leave" /\ s.creds = client[c].creds
    BY <1>5 DEF ClientStates, ClientSteps
  <2>2. client' = [client EXCEPT ![c] = s]
    BY <1>4, <1>10
  <2>. QED
    BY <1>4, <1>8, <2>1, <2>2, ClientStep
<1>. QED
  BY <1>9, <1>10

\* Exit, the end of main, and an interrupted client.
LEMMA ClientLeavesKeeps ==
  ASSUME SystemIInv, IInv', NEW c \in Conns, Exit(c) \/ Leave(c) \/ Abandon(c)
  PROVE  SystemIInv'
<1>1. /\ SystemTypeOK /\ client[c] \in ClientStates /\ front[c] \in LinkType(Typed(c), Replies)
  BY DEF SystemIInv, SystemTypeOK, ClientEarned
<1>2. CASE Exit(c)
  <2>. DEFINE s == [client[c] EXCEPT !.at = "leave"]
  <2>1. s \in ClientStates /\ s.at = "leave" /\ s.creds = client[c].creds
    BY <1>1 DEF ClientStates, ClientSteps
  <2>2. /\ client' = [client EXCEPT ![c] = s] /\ front' = [front EXCEPT ![c] = front[c]]
        /\ UNCHANGED <<vars, back, running, proxy, server>>
    BY <1>1, <1>2 DEF Exit, SystemTypeOK
  <2>. QED
    BY <1>1, <2>1, <2>2, ClientStep
<1>3. CASE ClientEnds(c)
  <2>. DEFINE s == [NoClient EXCEPT !.creds = client[c].creds]
              l == Closed(front[c], "client")
  <2>1. s \in ClientStates /\ s.at = "idle" /\ s.creds = client[c].creds
    BY <1>1, SystemAssumption DEF NoClient, ClientStates, ClientSteps, Numbers
  <2>2. l \in LinkType(Typed(c), Replies)
    BY <1>1, ClosedTyped DEF Ends
  <2>3. /\ client' = [client EXCEPT ![c] = s] /\ front' = [front EXCEPT ![c] = l]
        /\ UNCHANGED <<vars, back, running, proxy, server>>
    BY <1>1, <1>3 DEF ClientEnds, SystemTypeOK
  <2>. HIDE DEF s, l
  <2>. QED
    BY <2>1, <2>2, <2>3, ClientStep
<1>. QED
  BY <1>2, <1>3 DEF Leave, Abandon

-----------------------------------------------------------------------------
(* server.cpp *)

\* A step of the server and of the proxy's end of the connection to it.
LEMMA BackStep ==
  ASSUME SystemIInv, IInv', NEW c \in Conns, NEW l \in LinkType(Passed(c), Replies),
         NEW s \in ServerStates,
         back' = [back EXCEPT ![c] = l], server' = [server EXCEPT ![c] = s],
         s.at = "send" => Earned(c),
         proxy' \in [Conns -> ProxyStates], ProxyEarned(c)',
         \A d \in Conns \ {c} : proxy'[d] = proxy[d],
         UNCHANGED <<vars, front, running, client>>
  PROVE  SystemIInv'
<1>1. SystemTypeOK
  BY DEF SystemIInv
<1>2. /\ back'[c] = l /\ server'[c] = s
      /\ \A d \in Conns \ {c} : back'[d] = back[d] /\ server'[d] = server[d]
  BY <1>1 DEF SystemTypeOK
<1>3. SystemTypeOK'
  <2>1. l \in LinkType(Payloads, Replies)
    BY LinkSubtype DEF Passed
  <2>. QED
    BY <1>1, <2>1 DEF SystemTypeOK, IInv
<1>4. ServerEarned(c)'
  BY <1>2, SameCreds DEF ServerEarned
<1>5. ClientEarned(c)' /\ AuthEarned(c)'
  BY VarsSame, ClientFrame, AuthFrame DEF SystemIInv
<1>. QED
  BY <1>2, <1>3, <1>4, <1>5, VarsSame, OneSession

\* The same when the proxy does nothing.
LEMMA ServerStep ==
  ASSUME SystemIInv, IInv', NEW c \in Conns, NEW l \in LinkType(Passed(c), Replies),
         NEW s \in ServerStates,
         back' = [back EXCEPT ![c] = l], server' = [server EXCEPT ![c] = s],
         s.at = "send" => Earned(c),
         UNCHANGED <<vars, front, running, client, proxy>>
  PROVE  SystemIInv'
<1>1. proxy' \in [Conns -> ProxyStates] /\ ProxyEarned(c)'
  BY ProxyFrame DEF SystemIInv, SystemTypeOK
<1>. QED
  BY <1>1, BackStep

LEMMA ServerDieKeeps ==
  ASSUME SystemIInv, IInv', ServerDie
  PROVE  SystemIInv'
<1>1. /\ server' = [c \in Conns |-> NoServer] /\ running' = running \ {"server"}
      /\ UNCHANGED <<vars, front, back, client, proxy>>
  BY DEF ServerDie
<1>2. NoServer \in ServerStates /\ NoServer.at = "idle"
  BY SystemAssumption DEF NoServer, ServerStates, ServerSteps, Payload, Payloads, Numbers
<1>3. SystemTypeOK'
  BY <1>1, <1>2 DEF SystemIInv, SystemTypeOK, IInv
<1>4. ASSUME NEW d \in Conns
      PROVE  ClientEarned(d)' /\ AuthEarned(d)' /\ ProxyEarned(d)' /\ ServerEarned(d)'
  <2>1. ServerEarned(d)'
    BY <1>1, <1>2, SameCreds DEF ServerEarned, SystemIInv
  <2>. QED
    BY <1>1, <2>1, VarsSame, ClientFrame, AuthFrame, ProxyFrame DEF SystemIInv
<1>. QED
  BY <1>3, <1>4 DEF SystemIInv

\* The server has a message in hand only when the session had one to send.
LEMMA ServerKeeps ==
  ASSUME SystemIInv, IInv', NEW c \in Conns, ServerThread(c)
  PROVE  SystemIInv'
<1>1. /\ SystemTypeOK /\ server[c] \in ServerStates /\ back[c] \in LinkType(Passed(c), Replies)
      /\ server[c].at = "send" => Earned(c)
  BY DEF SystemIInv, SystemTypeOK, ServerEarned
<1>2. /\ NoServer \in ServerStates
      /\ \A step \in ServerSteps :
           /\ [server[c] EXCEPT !.at = step] \in ServerStates
           /\ [server[c] EXCEPT !.at = step].at = step
           /\ [NoServer EXCEPT !.at = step] \in ServerStates
           /\ [NoServer EXCEPT !.at = step].at = step
      /\ NoServer.at = "idle"
  BY <1>1, SystemAssumption
     DEF NoServer, ServerStates, ServerSteps, Payload, Payloads, Numbers
<1>3. CASE ServerReceive(c)
  <2>1. CASE /\ CanRead(back[c], "server")
             /\ server' = [server EXCEPT ![c] =
                             [at |-> "send", heard |-> Head(back[c].in["server"])]]
             /\ back' = [back EXCEPT ![c] = AfterRead(@, "server")]
    <3>1. /\ Head(back[c].in["server"]) \in Passed(c)
          /\ AfterRead(back[c], "server") \in LinkType(Passed(c), Replies)
      BY <1>1, <2>1, ServerReadTyped
    <3>2. /\ Earned(c)
          /\ [at |-> "send", heard |-> Head(back[c].in["server"])] \in ServerStates
      BY <3>1 DEF Passed, ServerStates, ServerSteps
    <3>3. back' = [back EXCEPT ![c] = AfterRead(back[c], "server")]
      BY <1>1, <2>1 DEF SystemTypeOK
    <3>. QED
      BY <1>3, <2>1, <3>1, <3>2, <3>3, ServerStep DEF ServerReceive
  <2>2. CASE /\ server' = [server EXCEPT ![c].at = "disconnect"]
             /\ UNCHANGED back
    <3>1. /\ server' = [server EXCEPT ![c] = [server[c] EXCEPT !.at = "disconnect"]]
          /\ back' = [back EXCEPT ![c] = back[c]]
      BY <1>1, <2>2 DEF SystemTypeOK
    <3>. QED
      BY <1>1, <1>2, <1>3, <3>1, ServerStep DEF ServerReceive, ServerSteps
  <2>. QED
    BY <1>3, <2>1, <2>2 DEF ServerReceive
<1>4. CASE ServerSend(c)
  <2>. DEFINE reply == <<Answering(Hello, server[c].heard.n)>>
  <2>1. PICK o \in WriteOutcomes(back[c], "server", reply) :
          IF o.result = "killed"
          THEN ServerDie
          ELSE /\ back' = [back EXCEPT ![c] = o.link]
               /\ server' = [server EXCEPT ![c] = [NoServer EXCEPT
                    !.at = IF o.result = "sent" THEN "receive" ELSE "disconnect"]]
               /\ UNCHANGED <<vars, front, running, client, proxy>>
    BY <1>4 DEF ServerSend
  <2>2. reply \in Seq(Replies)
    BY <1>1, TextTypes DEF ServerStates, Payloads, Answering, Replies
  <2>3. o.link \in LinkType(Passed(c), Replies)
    BY <1>1, <2>2, ServerWriteTyped
  <2>4. CASE o.result = "killed"
    BY <2>1, <2>4, ServerDieKeeps
  <2>5. CASE o.result # "killed"
    <3>1. PICK step \in {"receive", "disconnect"} :
            server' = [server EXCEPT ![c] = [NoServer EXCEPT !.at = step]]
      BY <2>1, <2>5
    <3>. QED
      BY <1>2, <2>1, <2>3, <2>5, <3>1, ServerStep DEF ServerSteps
  <2>. QED
    BY <2>4, <2>5
<1>5. CASE ServerDisconnect(c)
  <2>1. PICK o \in CloseOutcomes(back[c], "server") :
          IF o.result = "killed"
          THEN ServerDie
          ELSE /\ back' = [back EXCEPT ![c] = o.link]
               /\ server' = [server EXCEPT ![c] = NoServer]
               /\ UNCHANGED <<vars, front, running, client, proxy>>
    BY <1>5 DEF ServerDisconnect
  <2>2. o.link \in LinkType(Passed(c), Replies)
    BY <1>1, CloseTyped DEF Ends
  <2>. QED
    BY <1>2, <2>1, <2>2, ServerDieKeeps, ServerStep
<1>6. CASE ServerEndCloses(c)
  <2>1. /\ back' = [back EXCEPT ![c] = Closed(back[c], "server")]
        /\ server' = [server EXCEPT ![c] = server[c]]
        /\ UNCHANGED <<vars, front, running, client, proxy>>
    BY <1>1, <1>6 DEF ServerEndCloses, SystemTypeOK
  <2>2. Closed(back[c], "server") \in LinkType(Passed(c), Replies)
    BY <1>1, ClosedTyped DEF Ends
  <2>. QED
    BY <1>1, <2>1, <2>2, ServerStep
<1>. QED
  BY <1>3, <1>4, <1>5, <1>6 DEF ServerThread

-----------------------------------------------------------------------------
(* auth_server.cpp *)

\* What is asked is asked by a session, and what a handler takes from it is what
\* it works on until it has answered.
LEMMA TakesEarned ==
  ASSUME SystemIInv, NEW c \in Conns, NEW m \in Requests, Takes(c, m), client' = client
  PROVE  /\ link'[c] \in LinkType(Asked(c)', Told(c)')
         /\ message'[c] \in Asked(c)'
         /\ held'[c].kind = "token" => Earned(c)'
<1>1. link[c] \in LinkType(Asked(c), Told(c)) /\ TypeOK
  BY DEF SystemIInv, AuthEarned, IInv
<1>2. /\ CanRead(link[c], "server") /\ m = Head(link[c].in["server"])
      /\ link'[c] = AfterRead(link[c], "server") /\ message'[c] = m /\ held'[c] = held[c]
  BY <1>1 DEF Takes, TypeOK, peers
<1>3. /\ Head(link[c].in["server"]) \in Asked(c)
      /\ AfterRead(link[c], "server") \in LinkType(Asked(c), Told(c))
  BY <1>1, <1>2, ServerReadTyped
<1>. QED
  BY <1>2, <1>3, SameCreds DEF SystemIInv, AuthEarned

\* What is appended to a queue comes first only when the queue was empty.
LEMMA HeadAppended ==
  ASSUME NEW S, NEW s \in Seq(S), NEW e \in S
  PROVE  /\ Append(s, e) # <<>>
         /\ Head(Append(s, e)) = IF s = <<>> THEN e ELSE Head(s)
<1>1. /\ Append(s, e) \in Seq(S) /\ Len(Append(s, e)) = Len(s) + 1
      /\ Append(s, e)[Len(s) + 1] = e
      /\ \A i \in 1 .. Len(s) : Append(s, e)[i] = s[i]
  OBVIOUS
<1>2. Append(s, e) # <<>> /\ Head(Append(s, e)) = Append(s, e)[1]
  BY <1>1
<1>3. CASE s = <<>>
  BY <1>1, <1>2, <1>3
<1>4. CASE s # <<>>
  BY <1>1, <1>2, <1>4
<1>. QED
  BY <1>3, <1>4

\* The first answer of a session is a token only when its own AUTH was accepted.
LEMMA HandleFirst ==
  ASSUME SystemIInv, NEW c \in Conns, Handle(c), ~Die, client' = client
  PROVE  FirstEarned(c)'
<1>0. /\ TypeOK /\ ConnInv(c) /\ FirstEarned(c) /\ (Earned(c)' <=> Earned(c))
  BY SameCreds DEF SystemIInv, IInv, AuthEarned
<1>. USE DEF FirstEarned
<1>1. CASE ReceiveAuth(c)
  <2>1. PICK m \in Requests : Takes(c, m) /\ m.op = "AUTH"
    BY <1>1 DEF ReceiveAuth
  <2>2. /\ pc'[c] = "check_credentials" /\ pc[c] = "receive"
        /\ link[c].in["server"] # <<>> /\ m = Head(link[c].in["server"])
    BY <1>0, <1>1, <2>1 DEF ReceiveAuth, Goto, Takes, TypeOK, CanRead
  <2>. QED
    BY <1>0, <2>1, <2>2, TakesConn
<1>2. CASE ReceiveAuthWithoutPassword(c)
  <2>1. PICK m \in Requests : Takes(c, m)
    BY <1>2 DEF ReceiveAuthWithoutPassword
  <2>2. /\ pc'[c] = "send" /\ answer'[c] = Error("Invalid request format")
    BY <1>0, <1>2 DEF ReceiveAuthWithoutPassword, Reply, Goto, TypeOK
  <2>3. Error("Invalid request format").kind # "token"
    BY DEF Error
  <2>. QED
    BY <1>0, <2>1, <2>2, <2>3, TakesConn
<1>3. CASE ReceiveVerify(c) \/ ReceiveOther(c)
  <2>1. PICK m \in Requests : Takes(c, m) /\ m.op # "AUTH"
    BY <1>3 DEF ReceiveVerify, ReceiveOther
  <2>. QED
    BY <1>0, <2>1, TakesConn
<1>4. CASE ReceiveEnd(c)
  BY <1>0, <1>4 DEF ReceiveEnd, Goto, TypeOK, locals, peers
<1>5. CASE CheckCredentials(c)
  <2>1. /\ pc[c] = "check_credentials"
        /\ \/ pc'[c] = "store_token" /\ Accepted(message[c])
           \/ pc'[c] = "send" /\ answer'[c] = Error("Authentication failed")
        /\ UNCHANGED <<link, message, held>>
    BY <1>0, <1>5 DEF CheckCredentials, Goto, Reply, TypeOK, peers, Accepted, ConnInv,
                      InBranch
  <2>2. Error("Authentication failed").kind # "token"
    BY DEF Error
  <2>. QED
    BY <1>0, <2>1, <2>2
<1>6. CASE StoreToken(c)
  <2>1. pc[c] = "store_token" /\ pc'[c] = "send" /\ UNCHANGED <<link, message, held>>
    BY <1>0, <1>6 DEF StoreToken, Goto, Reply, TypeOK, peers
  <2>. QED
    BY <1>0, <2>1
<1>7. CASE ReadTtl(c) \/ CheckExpiry(c) \/ ReadUsername(c) \/ DeleteOld(c) \/ InsertNew(c)
  <2>1. pc[c] \in Verifying /\ link' = link /\ held' = held
    BY <1>7 DEF ReadTtl, CheckExpiry, ReadUsername, DeleteOld, InsertNew, Verifying, peers
  <2>. QED
    BY <1>0, <2>1 DEF ConnInv, FirstAnswer
<1>8. CASE SendAnswer(c)
  <2>1. PICK o \in WriteOutcomes(link[c], "server", <<answer[c]>>) :
          link' = [link EXCEPT ![c] = o.link] /\ Goto(c, "receive") /\ UNCHANGED peers
    BY <1>8, Zenon DEF SendAnswer
  <2>2. /\ pc[c] = "send" /\ pc'[c] = "receive" /\ link'[c] = o.link /\ held'[c] = held[c]
    BY <1>0, <1>8, <2>1 DEF SendAnswer, Goto, TypeOK, peers
  <2>3. /\ link'[c].up = link[c].up
        /\ link[c].up["client"] /\ ~link[c].reset =>
             link'[c].in["client"] = Append(link[c].in["client"], answer[c])
    BY <1>0, <2>2, AnswerWritten DEF TypeOK
  <2>4. link[c].up["client"] => ~link[c].reset
    BY <1>0, <2>2 DEF ConnInv, InUse
  <2>5. /\ Append(link[c].in["client"], answer[c]) # <<>>
        /\ Head(Append(link[c].in["client"], answer[c])) =
             IF link[c].in["client"] = <<>> THEN answer[c] ELSE Head(link[c].in["client"])
    <3>1. link[c].in["client"] \in Seq(Answers) /\ answer[c] \in Answers
      BY <1>0 DEF TypeOK, Links, LinkType
    <3>. QED
      BY <3>1, HeadAppended
  <2>. QED
    BY <1>0, <2>2, <2>3, <2>4, <2>5
<1>9. CASE Disconnect(c)
  <2>1. PICK o \in CloseOutcomes(link[c], "server") :
          /\ o.result # "killed"
          /\ link' = [link EXCEPT ![c] = o.link] /\ Goto(c, "idle") /\ UNCHANGED peers
    BY <1>9, Zenon DEF Disconnect
  <2>2. /\ pc'[c] = "idle" /\ held'[c] = held[c] /\ link'[c] = Closed(link[c], "server")
    BY <1>0, <2>1, LinkClosed DEF Goto, TypeOK, peers, Ends
  <2>. QED
    BY <1>0, <2>2, ServerClosed DEF TypeOK
<1>. QED
  BY <1>1, <1>2, <1>3, <1>4, <1>5, <1>6, <1>7, <1>8, <1>9, Zenon DEF Handle

\* A handler says VERIFIED only to a session that has earned it.
LEMMA HandleEarned ==
  ASSUME SystemIInv, NEW c \in Conns, Handle(c), ~Die, client' = client
  PROVE  AuthEarned(c)'
<1>0. /\ TypeOK /\ AuthEarned(c) /\ InBranch(c) /\ Justified(c)
      /\ Asked(c)' = Asked(c) /\ Told(c)' = Told(c) /\ (Earned(c)' <=> Earned(c))
      /\ Asked(c) \subseteq Requests
      /\ \A text \in ErrorTexts : Error(text) \in Told(c)
      /\ \A u \in Names : NewToken(u) \in Told(c) /\ generateToken(u) \in Told(c)
      /\ Verified \in Told(c) <=> Earned(c)
      /\ FirstEarned(c)'
  <2>1. Asked(c) \subseteq Requests
    BY DEF Asked
  <2>. QED
    BY <2>1, Grantless, HandleFirst, SameCreds DEF SystemIInv, IInv, ConnInv
<1>1. CASE ReceiveAuth(c) \/ ReceiveVerify(c)
  <2>1. pc'[c] \in {"check_credentials", "read_ttl"}
    BY <1>0, <1>1 DEF ReceiveAuth, ReceiveVerify, Goto, TypeOK
  <2>. QED
    BY <1>0, <1>1, <2>1, TakesEarned DEF ReceiveAuth, ReceiveVerify, AuthEarned
<1>2. CASE ReceiveAuthWithoutPassword(c) \/ ReceiveOther(c)
  <2>1. pc'[c] = "send" /\ answer'[c] \in Told(c)'
    BY <1>0, <1>2
       DEF ReceiveAuthWithoutPassword, ReceiveOther, Reply, Goto, TypeOK, ErrorTexts
  <2>. QED
    BY <1>0, <1>2, <2>1, TakesEarned
       DEF ReceiveAuthWithoutPassword, ReceiveOther, AuthEarned
<1>3. CASE ReceiveEnd(c)
  BY <1>0, <1>3 DEF ReceiveEnd, Goto, TypeOK, AuthEarned, peers
<1>4. CASE CheckCredentials(c)
  <2>1. /\ link'[c] = link[c] /\ held'[c] = held[c] /\ message'[c] = message[c]
        /\ pc[c] = "check_credentials"
    BY <1>4 DEF CheckCredentials, peers
  <2>2. message[c] \in Asked(c) /\ message[c].op = "AUTH"
    BY <1>0, <2>1 DEF AuthEarned, InBranch
  <2>3. CASE isUserExists(message[c].username, message[c].password) /\ Goto(c, "store_token")
    <3>1. pc'[c] = "store_token"
      BY <1>0, <2>3 DEF Goto, TypeOK
    <3>. QED
      BY <1>0, <2>1, <2>2, <3>1 DEF AuthEarned
  <2>4. CASE Reply(c, Error("Authentication failed"))
    <3>1. pc'[c] = "send" /\ answer'[c] \in Told(c)
      BY <1>0, <2>4 DEF Reply, Goto, TypeOK, ErrorTexts
    <3>. QED
      BY <1>0, <2>1, <2>2, <3>1 DEF AuthEarned
  <2>. QED
    BY <1>4, <2>3, <2>4, Zenon DEF CheckCredentials
<1>5. CASE StoreToken(c)
  <2>1. /\ link'[c] = link[c] /\ held'[c] = held[c] /\ message'[c] = message[c]
        /\ pc[c] = "store_token" /\ Reply(c, generateToken(message[c].username))
    BY <1>5 DEF StoreToken, peers
  <2>2. message[c] \in Asked(c) /\ message[c].username \in Names
    BY <1>0, <2>1, AuthMessage DEF AuthEarned, InBranch, Names
  <2>3. pc'[c] = "send" /\ answer'[c] \in Told(c)
    BY <1>0, <2>1, <2>2 DEF Reply, Goto, TypeOK
  <2>. QED
    BY <1>0, <2>1, <2>2, <2>3 DEF AuthEarned
<1>6. CASE ReadTtl(c) \/ ReadUsername(c) \/ DeleteOld(c) \/ InsertNew(c)
  <2>1. /\ link'[c] = link[c] /\ held'[c] = held[c] /\ message'[c] = message[c]
        /\ pc[c] \in {"read_ttl", "read_username", "delete_old", "insert_new"}
    BY <1>6 DEF ReadTtl, ReadUsername, DeleteOld, InsertNew, locals, peers
  <2>2. message[c] \in Asked(c)
    BY <1>0, <2>1 DEF AuthEarned
  <2>3. \/ pc'[c] \in {"check_expiry", "delete_old", "insert_new"}
        \/ pc'[c] = "send" /\ answer'[c] \in Told(c)
    <3>1. CASE ReadTtl(c)
      BY <1>0, <3>1 DEF ReadTtl, Reply, Goto, TypeOK, ErrorTexts
    <3>2. CASE ReadUsername(c)
      BY <1>0, <3>2 DEF ReadUsername, Reply, Goto, TypeOK, ErrorTexts
    <3>3. CASE DeleteOld(c)
      BY <1>0, <3>3 DEF DeleteOld, Goto, TypeOK
    <3>4. CASE InsertNew(c)
      BY <1>0, <3>4 DEF InsertNew, Reply, Goto, TypeOK
    <3>. QED
      BY <1>6, <3>1, <3>2, <3>3, <3>4
  <2>. QED
    BY <1>0, <2>1, <2>2, <2>3 DEF AuthEarned
<1>7. CASE CheckExpiry(c)
  <2>1. /\ link'[c] = link[c] /\ held'[c] = held[c] /\ message'[c] = message[c]
        /\ pc[c] = "check_expiry"
    BY <1>7 DEF CheckExpiry, peers
  <2>2. message[c] \in Asked(c) /\ message[c].op = "VERIFY"
    BY <1>0, <2>1 DEF AuthEarned, InBranch, Verifying
  <2>3. CASE ttl[c] > time /\ Reply(c, Verified)
    <3>1. ttl[c] # 0
      BY <1>0, <2>3 DEF TypeOK
    <3>2. PICK u \in loggedIn \cup {Blank} : message[c].token = generateToken(u)
      BY <1>0, <2>1, <3>1 DEF Justified
    <3>3. Earned(c)
      BY <2>2, <3>2 DEF Asked, AsksOfToken, generateToken
    <3>4. pc'[c] = "send" /\ answer'[c] \in Told(c)
      BY <1>0, <2>3, <3>3 DEF Reply, Goto, TypeOK
    <3>. QED
      BY <1>0, <2>1, <2>2, <3>4 DEF AuthEarned
  <2>4. CASE Goto(c, "read_username")
    <3>1. pc'[c] = "read_username"
      BY <1>0, <2>4 DEF Goto, TypeOK
    <3>. QED
      BY <1>0, <2>1, <2>2, <3>1 DEF AuthEarned
  <2>. QED
    BY <1>7, <2>3, <2>4, Zenon DEF CheckExpiry
<1>8. CASE SendAnswer(c)
  <2>1. PICK o \in WriteOutcomes(link[c], "server", <<answer[c]>>) :
          link' = [link EXCEPT ![c] = o.link] /\ Goto(c, "receive") /\ UNCHANGED peers
    BY <1>8, Zenon DEF SendAnswer
  <2>2. <<answer[c]>> \in Seq(Told(c))
    BY <1>0, <1>8 DEF SendAnswer, AuthEarned
  <2>3. o.link \in LinkType(Asked(c), Told(c))
    BY <1>0, <2>2, ServerWriteTyped DEF AuthEarned
  <2>4. pc'[c] = "receive" /\ held'[c] = held[c] /\ link'[c] = o.link
    BY <1>0, <2>1 DEF Goto, TypeOK, peers
  <2>. QED
    BY <1>0, <2>3, <2>4 DEF AuthEarned
<1>9. CASE Disconnect(c)
  <2>1. PICK o \in CloseOutcomes(link[c], "server") :
          link' = [link EXCEPT ![c] = o.link] /\ Goto(c, "idle") /\ UNCHANGED peers
    BY <1>9, Zenon DEF Disconnect
  <2>2. o.link \in LinkType(Asked(c), Told(c))
    BY <1>0, CloseTyped DEF AuthEarned, Ends
  <2>3. pc'[c] = "idle" /\ held'[c] = held[c] /\ link'[c] = o.link
    BY <1>0, <2>1 DEF Goto, TypeOK, peers
  <2>. QED
    BY <1>0, <2>2, <2>3 DEF AuthEarned
<1>. QED
  BY <1>1, <1>2, <1>3, <1>4, <1>5, <1>6, <1>7, <1>8, <1>9, Zenon DEF Handle

\* What the process had told a session before its death stands.
LEMMA DieEarned ==
  ASSUME SystemIInv, NEW c \in Conns, Die, client' = client
  PROVE  AuthEarned(c)'
<1>1. /\ pc'[c] = "idle" /\ held'[c] = held[c]
      /\ \/ link'[c] = link[c]
         \/ link'[c] = Closed(link[c], "server")
  BY DEF Die, peers
<1>2. Closed(link[c], "server") \in LinkType(Asked(c), Told(c))
  BY ClosedTyped DEF SystemIInv, AuthEarned, Ends
<1>3. FirstEarned(c)'
  <2>1. link[c] \in Links
    BY DEF SystemIInv, IInv, TypeOK
  <2>2. /\ link'[c].up["client"] = link[c].up["client"]
        /\ link[c].up["client"] => link'[c].in["client"] = link[c].in["client"]
    BY <1>1, <2>1, ServerClosed
  <2>3. FirstEarned(c) /\ (Earned(c)' <=> Earned(c))
    BY SameCreds DEF SystemIInv, AuthEarned
  <2>. QED
    BY <1>1, <2>2, <2>3 DEF FirstEarned
<1>. QED
  BY <1>1, <1>2, <1>3, SameCreds DEF SystemIInv, AuthEarned

\* A step of the authentication server, whatever the connection.
LEMMA AuthStep ==
  ASSUME SystemIInv, IInv', \A d \in Conns : AuthEarned(d)',
         UNCHANGED <<front, back, running, client, proxy, server>>
  PROVE  SystemIInv'
<1>1. SystemTypeOK'
  BY DEF SystemIInv, SystemTypeOK, IInv
<1>. QED
  BY <1>1, ClientFrame, ProxyFrame, ServerFrame DEF SystemIInv

LEMMA HandleKeeps ==
  ASSUME SystemIInv, IInv', NEW c \in Conns, AuthThread(c)
  PROVE  SystemIInv'
<1>1. Handle(c) /\ UNCHANGED <<front, back, running, client, proxy, server>>
  BY DEF AuthThread
<1>2. CASE Die
  BY <1>1, <1>2, DieEarned, AuthStep
<1>3. CASE ~Die
  <2>1. ASSUME NEW d \in Conns, d # c
        PROVE  AuthEarned(d)'
    <3>1. /\ pc'[d] = pc[d] /\ link'[d] = link[d] /\ message'[d] = message[d]
          /\ answer'[d] = answer[d] /\ held'[d] = held[d]
      BY <1>1, <1>3, <2>1, HandleFrame DEF SystemIInv, IInv
    <3>. QED
      BY <1>1, <3>1, AuthFrame DEF SystemIInv
  <2>2. AuthEarned(c)'
    BY <1>1, <1>3, HandleEarned
  <2>. QED
    BY <1>1, <2>1, <2>2, AuthStep
<1>. QED
  BY <1>2, <1>3

-----------------------------------------------------------------------------
(* proxy.cpp *)

\* A step of the proxy's thread that may touch the connection to the client and
\* the one to the authentication server.
LEMMA ProxyStep ==
  ASSUME SystemIInv, IInv', NEW c \in Conns, NEW l \in LinkType(Typed(c), Replies),
         front' = [front EXCEPT ![c] = l],
         proxy' \in [Conns -> ProxyStates], ProxyEarned(c)',
         \A d \in Conns \ {c} : proxy'[d] = proxy[d],
         AuthEarned(c)',
         \A d \in Conns \ {c} :
           /\ link'[d] = link[d] /\ held'[d] = held[d] /\ pc'[d] = pc[d]
           /\ message'[d] = message[d] /\ answer'[d] = answer[d],
         UNCHANGED <<back, running, client, server>>
  PROVE  SystemIInv'
<1>1. SystemTypeOK
  BY DEF SystemIInv
<1>2. front'[c] = l /\ \A d \in Conns \ {c} : front'[d] = front[d]
  BY <1>1 DEF SystemTypeOK
<1>3. SystemTypeOK'
  <2>1. l \in LinkType(ClientTexts, Replies)
    BY LinkSubtype DEF Typed
  <2>. QED
    BY <1>1, <2>1 DEF SystemTypeOK, IInv
<1>4. ClientEarned(c)'
  BY <1>2, SameCreds DEF SystemIInv, ClientEarned
<1>5. ServerEarned(c)'
  BY ServerFrame DEF SystemIInv
<1>. QED
  BY <1>2, <1>3, <1>4, <1>5, OneSession

\* The same when it leaves the connection to the authentication server alone.
LEMMA ProxyFrontStep ==
  ASSUME SystemIInv, IInv', NEW c \in Conns, NEW l \in LinkType(Typed(c), Replies),
         front' = [front EXCEPT ![c] = l],
         proxy' \in [Conns -> ProxyStates], ProxyEarned(c)',
         \A d \in Conns \ {c} : proxy'[d] = proxy[d],
         UNCHANGED <<vars, back, running, client, server>>
  PROVE  SystemIInv'
<1>1. AuthEarned(c)'
  BY VarsSame, AuthFrame DEF SystemIInv
<1>. QED
  BY <1>1, VarsSame, ProxyStep

\* The same when it leaves the connection to the client alone.
LEMMA ProxyAuthStep ==
  ASSUME SystemIInv, IInv', NEW c \in Conns,
         proxy' \in [Conns -> ProxyStates], ProxyEarned(c)',
         \A d \in Conns \ {c} : proxy'[d] = proxy[d],
         AuthEarned(c)', PeerStep(c) \/ Listen(c) \/ UNCHANGED vars,
         UNCHANGED <<front, back, running, client, server>>
  PROVE  SystemIInv'
<1>1. /\ front' = [front EXCEPT ![c] = front[c]]
      /\ front[c] \in LinkType(Typed(c), Replies)
  BY DEF SystemIInv, SystemTypeOK, ClientEarned
<1>2. ASSUME NEW d \in Conns \ {c}
      PROVE  /\ link'[d] = link[d] /\ held'[d] = held[d] /\ pc'[d] = pc[d]
             /\ message'[d] = message[d] /\ answer'[d] = answer[d]
  <2>1. CASE PeerStep(c)
    BY <2>1, PeerFrame DEF SystemIInv, IInv
  <2>2. CASE Listen(c)
    BY <2>2 DEF Listen, Goto, SystemIInv, IInv, TypeOK, locals, peers
  <2>3. CASE UNCHANGED vars
    BY <2>3, VarsSame
  <2>. QED
    BY <2>1, <2>2, <2>3
<1>. QED
  BY <1>1, <1>2, ProxyStep

\* No read of a login is worth more than the login.
LEMMA LoginAsked ==
  ASSUME NEW c \in Conns, NEW l \in LoginTexts, Earns(l) => Earned(c)
  PROVE  Reads(l) \in Seq(Asked(c))
<1>1. l.op = "LOGIN" /\ l.head \in AuthRequests /\ l.tail \in Seq(Requests)
  BY DEF LoginTexts
<1>2. l.head \in Asked(c)
  BY <1>1 DEF Asked, AsksOfToken, AuthRequests, Requests
<1>3. \A i \in 1 .. Len(l.tail) : l.tail[i] \in Asked(c)
  <2>1. DOMAIN l.tail = 1 .. Len(l.tail) /\ \A i \in 1 .. Len(l.tail) : l.tail[i] \in Requests
    BY <1>1
  <2>. QED
    BY <2>1 DEF Asked, Earns
<1>4. PICK head, tail, set : head = l.head /\ tail = l.tail /\ set = Asked(c)
  OBVIOUS
<1>5. tail \in Seq(set)
  <2>1. tail \in Seq(Requests) /\ \A i \in 1 .. Len(tail) : tail[i] \in set
    BY <1>1, <1>3, <1>4
  <2>. QED
    BY <2>1
<1>6. <<head>> \o tail \in Seq(set)
  BY <1>2, <1>4, <1>5
<1>. QED
  BY <1>1, <1>4, <1>6 DEF Reads

\* A VERIFY of what the session holds is worth what it holds.
LEMMA VerifyAsked ==
  ASSUME SystemIInv, NEW c \in Conns, held[c] # NoText
  PROVE  Verify(held[c]) \in Requests /\ Reads(Verify(held[c])) \in Seq(Asked(c))
<1>1. held[c] \in AuthAnswers /\ (held[c].kind = "token" => Earned(c))
  BY DEF SystemIInv, IInv, TypeOK, AuthEarned
<1>2. Verify(held[c]) \in Requests
  BY <1>1 DEF Verify, Requests
<1>3. Verify(held[c]) \in Asked(c)
  BY <1>1, <1>2 DEF Verify, Asked, AsksOfToken
<1>4. PICK request, set : request = Verify(held[c]) /\ set = Asked(c)
  OBVIOUS
<1>5. <<request>> \in Seq(set)
  BY <1>3, <1>4
<1>. QED
  BY <1>2, <1>4, <1>5, ReadsRequest

\* What the thread asks for its session.
LEMMA AskEarned ==
  ASSUME SystemIInv, NEW c \in Conns, NEW r \in LoginTexts \cup Requests,
         Reads(r) \in Seq(Asked(c)),
         held[c] = NoText => r \in LoginTexts /\ (Earns(r) => Earned(c)),
         Ask(c, r), client' = client
  PROVE  AuthEarned(c)'
<1>1. PICK o \in WriteOutcomes(link[c], "client", Reads(r)) :
        link' = [link EXCEPT ![c] = o.link]
  BY DEF Ask
<1>2. o.link \in LinkType(Asked(c), Told(c))
  BY ClientWriteTyped DEF SystemIInv, AuthEarned
<1>3. /\ link'[c] = o.link /\ held'[c] = held[c] /\ pc'[c] = pc[c]
      /\ message'[c] = message[c] /\ answer'[c] = answer[c]
      /\ link[c] \in Links /\ ConnInv(c) /\ FirstEarned(c) /\ ~awaiting[c]
  BY <1>1 DEF Ask, UnchangedServer, locals, SystemIInv, IInv, TypeOK, AuthEarned
<1>4. FirstEarned(c)'
  <2>1. /\ link'[c].up = link[c].up
        /\ link'[c].in["client"] = link[c].in["client"]
        /\ link[c].up["server"] /\ ~link[c].reset =>
             link'[c].in["server"] = link[c].in["server"] \o Reads(r)
    <3>1. /\ o.link.up = link[c].up
          /\ o.link.in["client"] = link[c].in["client"]
          /\ link[c].up["server"] /\ ~link[c].reset =>
               o.link.in["server"] = link[c].in["server"] \o Reads(r)
      BY <1>3, RequestWritten
    <3>. QED
      BY <1>3, <3>1
  <2>2. CASE link[c].up["server"] /\ link[c].up["client"] /\ held[c] = NoText
    <3>1. link[c].in["server"] = <<>> /\ pc[c] = "receive" /\ ~link[c].reset
      BY <1>3, <2>2 DEF ConnInv, StartsClean, InUse
    <3>2. Reads(r) \in Seq(Requests) /\ Head(Reads(r)) = r.head
      BY <2>2, ReadsLogin
    <3>3. link'[c].in["server"] = Reads(r)
      BY <2>1, <2>2, <3>1, <3>2
    <3>4. Accepted(r.head) => Earned(c)
      BY <2>2 DEF Earns
    <3>. QED
      BY <1>3, <2>1, <3>1, <3>2, <3>3, <3>4, SameCreds DEF FirstEarned
  <2>3. CASE ~link[c].up["server"]
    <3>1. pc[c] = "idle"
      BY <1>3, <2>3 DEF ConnInv, InUse
    <3>. QED
      BY <1>3, <2>1, <3>1, SameCreds DEF FirstEarned
  <2>4. CASE ~link[c].up["client"] \/ held[c] # NoText
    BY <1>3, <2>1, <2>4 DEF FirstEarned
  <2>. QED
    BY <2>2, <2>3, <2>4
<1>. QED
  BY <1>2, <1>3, <1>4, SameCreds DEF SystemIInv, AuthEarned

\* What the thread is answered.
LEMMA TakeAnswerEarned ==
  ASSUME SystemIInv, NEW c \in Conns, TakeAnswer(c), client' = client
  PROVE  /\ AuthEarned(c)'
         /\ Head(link[c].in["client"]) \in Told(c)
         /\ held'[c] \in Texts
<1>1. /\ CanRead(link[c], "client") /\ link[c] \in LinkType(Asked(c), Told(c))
      /\ TypeOK /\ AuthEarned(c) /\ FirstAnswer(c)
  BY DEF TakeAnswer, SystemIInv, IInv, ConnInv, AuthEarned
<1>2. /\ Head(link[c].in["client"]) \in Told(c)
      /\ AfterRead(link[c], "client") \in LinkType(Asked(c), Told(c))
  BY <1>1, ClientReadTyped
<1>3. /\ link'[c] = AfterRead(link[c], "client") /\ pc'[c] = pc[c]
      /\ message'[c] = message[c] /\ answer'[c] = answer[c]
      /\ held'[c] = IF held[c] = NoText THEN Head(link[c].in["client"]) ELSE held[c]
  BY <1>1 DEF TakeAnswer, UnchangedServer, locals, TypeOK
<1>4. held'[c].kind = "token" => Earned(c)
  BY <1>1, <1>3 DEF AuthEarned, FirstEarned, CanRead
<1>5. held'[c] \in AuthAnswers
  BY <1>1, <1>3 DEF FirstAnswer, CanRead, TypeOK
<1>6. held'[c] \in Texts /\ FirstEarned(c)'
  BY <1>5, TextTypes, LoginAnswers DEF FirstEarned
<1>. QED
  BY <1>1, <1>2, <1>3, <1>4, <1>6, SameCreds DEF AuthEarned

LEMMA NoAnswerEarned ==
  ASSUME SystemIInv, NEW c \in Conns, NoAnswer(c), client' = client
  PROVE  AuthEarned(c)'
<1>1. /\ link' = link /\ held' = held /\ pc' = pc /\ message' = message /\ answer' = answer
  BY DEF NoAnswer, UnchangedServer, locals
<1>. QED
  BY <1>1, AuthFrame DEF SystemIInv

LEMMA PeerCloseEarned ==
  ASSUME SystemIInv, NEW c \in Conns, PeerClose(c), client' = client
  PROVE  AuthEarned(c)'
<1>1. /\ link'[c] = Closed(link[c], "client") /\ held'[c] = NoText /\ pc'[c] = pc[c]
      /\ message'[c] = message[c] /\ answer'[c] = answer[c]
  BY DEF PeerClose, UnchangedServer, locals, SystemIInv, IInv, TypeOK
<1>2. Closed(link[c], "client") \in LinkType(Asked(c), Told(c))
  BY ClosedTyped DEF SystemIInv, AuthEarned, Ends
<1>3. NoText.kind # "token"
  BY DEF NoText
<1>4. FirstEarned(c)'
  BY <1>1, ClientClosed DEF FirstEarned, SystemIInv, IInv, TypeOK
<1>. QED
  BY <1>1, <1>2, <1>3, <1>4, SameCreds DEF SystemIInv, AuthEarned

\* The thread, or the kernel for it, closes the connection.
LEMMA PeerCloseStep ==
  ASSUME SystemIInv, IInv', NEW c \in Conns,
         proxy' \in [Conns -> ProxyStates], ProxyEarned(c)',
         \A d \in Conns \ {c} : proxy'[d] = proxy[d],
         AuthEarned(c)', PeerClose(c),
         UNCHANGED <<front, back, running, client, server>>
  PROVE  SystemIInv'
<1>1. /\ front' = [front EXCEPT ![c] = front[c]]
      /\ front[c] \in LinkType(Typed(c), Replies)
  BY DEF SystemIInv, SystemTypeOK, ClientEarned
<1>2. ASSUME NEW d \in Conns \ {c}
      PROVE  /\ link'[d] = link[d] /\ held'[d] = held[d] /\ pc'[d] = pc[d]
             /\ message'[d] = message[d] /\ answer'[d] = answer[d]
  BY DEF PeerClose, UnchangedServer, SystemIInv, IInv, TypeOK, locals
<1>. QED
  BY <1>1, <1>2, ProxyStep

LEMMA ConnectAuthKeeps ==
  ASSUME SystemIInv, IInv', NEW c \in Conns, ConnectAuth(c)
  PROVE  SystemIInv'
<1>1. UNCHANGED <<front, back, running, client, server>>
  BY DEF ConnectAuth
<1>2. CASE Listen(c) /\ ProxyGoto(c, "receive_login")
  <2>1. /\ link'[c] = NewLink /\ pc'[c] = "receive" /\ held'[c] = held[c]
    BY <1>2 DEF Listen, Goto, SystemIInv, IInv, TypeOK, locals, peers
  <2>2. NewLink \in LinkType(Asked(c)', Told(c)')
    BY NewLinkTyped
  <2>3. held[c].kind = "token" => Earned(c)'
    BY <1>1, SameCreds DEF SystemIInv, AuthEarned
  <2>4. AuthEarned(c)'
    BY <2>1, <2>2, <2>3 DEF AuthEarned, FirstEarned, NewLink
  <2>5. "receive_login" \in Free
    BY DEF Free, ProxySteps
  <2>. QED
    BY <1>1, <1>2, <2>4, <2>5, ProxyFree, ProxyAuthStep
<1>3. CASE ProxyGoto(c, "disconnect") /\ UNCHANGED vars
  <2>1. "disconnect" \in Free
    BY DEF Free, ProxySteps
  <2>2. AuthEarned(c)'
    BY <1>1, <1>3, VarsSame, AuthFrame DEF SystemIInv
  <2>. QED
    BY <1>1, <1>3, <2>1, <2>2, ProxyFree, ProxyAuthStep
<1>. QED
  BY <1>2, <1>3 DEF ConnectAuth

\* Whatever the client says, the thread works on it, or tells it what is wrong.
LEMMA HeardEarned ==
  ASSUME SystemIInv, NEW c \in Conns, NEW m \in Typed(c), client' = client,
         proxy' = [proxy EXCEPT ![c] = Heard(c, m)]
  PROVE  /\ proxy' \in [Conns -> ProxyStates]
         /\ ProxyEarned(c)'
         /\ \A d \in Conns \ {c} : proxy'[d] = proxy[d]
<1>. DEFINE on(step) == [NoProxy EXCEPT !.at = step, !.said = m]
<1>1. m \in ClientTexts
  BY DEF Typed
<1>2. ASSUME NEW step \in {"forward_login", "verify"}
      PROVE  on(step) \in ProxyStates /\ on(step).at = step /\ on(step).said = m
  <2>1. NoProxy \in ProxyStates /\ step \in ProxySteps
    BY <1>2, NoProxyTyped DEF ProxySteps
  <2>. QED
    BY <1>1, <2>1 DEF ProxyStates
<1>3. proxy \in [Conns -> ProxyStates]
  BY DEF SystemIInv, SystemTypeOK
<1>4. CASE m.op = "LOGIN" /\ Heard(c, m) = on("forward_login")
  <2>1. /\ on("forward_login") \in ProxyStates /\ on("forward_login").at = "forward_login"
        /\ on("forward_login").said = m
    BY <1>2
  <2>. HIDE DEF on
  <2>2. proxy'[c] = on("forward_login")
    BY <1>3, <1>4
  <2>3. ProxyEarned(c)'
    BY <1>4, <2>1, <2>2, SameCreds DEF ProxyEarned
  <2>. QED
    BY <1>3, <1>4, <2>1, <2>3
<1>5. CASE m.op = "SAY" /\ Heard(c, m) = on("verify")
  <2>1. on("verify") \in ProxyStates /\ on("verify").at = "verify" /\ on("verify").said = m
    BY <1>2
  <2>. HIDE DEF on
  <2>2. proxy'[c] = on("verify")
    BY <1>3, <1>5
  <2>3. ProxyEarned(c)'
    BY <1>1, <1>5, <2>1, <2>2 DEF ProxyEarned
  <2>. QED
    BY <1>3, <1>5, <2>1, <2>3
<1>6. CASE \E e \in ProxyErrors : \E next \in Onward : Heard(c, m) = TellingError(e, m, next)
  <2>1. PICK e \in ProxyErrors, next \in Onward : Heard(c, m) = TellingError(e, m, next)
    BY <1>6
  <2>. QED
    BY <1>1, <2>1, ErrorTold, ProxyTells
<1>7. \/ m.op = "LOGIN" /\ Heard(c, m) = on("forward_login")
      \/ m.op = "SAY" /\ Heard(c, m) = on("verify")
      \/ \E e \in ProxyErrors : \E next \in Onward : Heard(c, m) = TellingError(e, m, next)
  BY DEF Heard, ProxyErrors, Onward
<1>. QED
  BY <1>4, <1>5, <1>6, <1>7

LEMMA ReceiveTextKeeps ==
  ASSUME SystemIInv, IInv', NEW c \in Conns, ReceiveText(c)
  PROVE  SystemIInv'
<1>1. /\ UNCHANGED <<vars, back, running, client, server>>
      /\ front \in [Conns -> LinkType(ClientTexts, Replies)]
      /\ front[c] \in LinkType(Typed(c), Replies)
  BY DEF ReceiveText, SystemIInv, SystemTypeOK, ClientEarned
<1>2. CASE /\ CanRead(front[c], "server")
           /\ front' = [front EXCEPT ![c] = AfterRead(@, "server")]
           /\ proxy' = [proxy EXCEPT ![c] = Heard(c, Head(front[c].in["server"]))]
  <2>1. /\ Head(front[c].in["server"]) \in Typed(c)
        /\ AfterRead(front[c], "server") \in LinkType(Typed(c), Replies)
    BY <1>1, <1>2, ServerReadTyped
  <2>2. front' = [front EXCEPT ![c] = AfterRead(front[c], "server")]
    BY <1>1, <1>2
  <2>. QED
    BY <1>1, <1>2, <2>1, <2>2, HeardEarned, ProxyFrontStep
<1>3. CASE ProxyGoto(c, "disconnect") /\ UNCHANGED front
  <2>1. "disconnect" \in Free /\ front' = [front EXCEPT ![c] = front[c]]
    BY <1>1, <1>3 DEF Free, ProxySteps
  <2>. QED
    BY <1>1, <1>3, <2>1, ProxyFree, ProxyFrontStep
<1>. QED
  BY <1>2, <1>3 DEF ReceiveText

LEMMA ForwardLoginKeeps ==
  ASSUME SystemIInv, IInv', NEW c \in Conns, ForwardLogin(c)
  PROVE  SystemIInv'
<1>. DEFINE login == proxy[c].said
<1>1. /\ proxy[c].at = "forward_login" /\ AskLogin(c, login)
      /\ ProxyGoto(c, "await_token") /\ UNCHANGED <<front, back, running, client, server>>
  BY DEF ForwardLogin
<1>2. login \in Typed(c) /\ login.op = "LOGIN"
  BY <1>1 DEF SystemIInv, ProxyEarned
<1>3. login \in LoginTexts /\ login \in Logins[c] /\ (Earns(login) => Earned(c))
  BY <1>2, ClientTextKinds DEF Typed
<1>4. Reads(login) \in Seq(Asked(c))
  BY <1>3, LoginAsked
<1>5. AuthEarned(c)'
  BY <1>1, <1>3, <1>4, AskEarned DEF AskLogin
<1>6. "await_token" \in Free
  BY DEF Free, ProxySteps
<1>. QED
  BY <1>1, <1>3, <1>5, <1>6, ProxyFree, ProxyAuthStep DEF PeerStep

LEMMA VerifyTokenKeeps ==
  ASSUME SystemIInv, IInv', NEW c \in Conns, VerifyToken(c)
  PROVE  SystemIInv'
<1>1. /\ proxy \in [Conns -> ProxyStates] /\ proxy[c].at = "verify" /\ TypeOK
      /\ proxy[c].said.op = "SAY" /\ proxy[c].said \in ClientTexts
  BY DEF VerifyToken, SystemIInv, SystemTypeOK, ProxyEarned, IInv
<1>2. CASE /\ AskVerify(c) /\ ProxyGoto(c, "await_verdict")
           /\ UNCHANGED <<front, back, running, client, server>>
  <2>1. /\ held[c] # NoText /\ Ask(c, Verify(held[c]))
        /\ Verify(held[c]) \in Requests /\ Reads(Verify(held[c])) \in Seq(Asked(c))
    BY <1>2, VerifyAsked DEF AskVerify
  <2>2. AuthEarned(c)'
    BY <1>2, <2>1, AskEarned
  <2>3. /\ [proxy[c] EXCEPT !.at = "await_verdict"] \in ProxyStates
        /\ [proxy[c] EXCEPT !.at = "await_verdict"].at = "await_verdict"
        /\ [proxy[c] EXCEPT !.at = "await_verdict"].said = proxy[c].said
    BY <1>1 DEF ProxyStates, ProxySteps
  <2>4. proxy' = [proxy EXCEPT ![c] = [proxy[c] EXCEPT !.at = "await_verdict"]]
    BY <1>1, <1>2 DEF ProxyGoto
  <2>5. /\ proxy' \in [Conns -> ProxyStates]
        /\ \A d \in Conns \ {c} : proxy'[d] = proxy[d]
    BY <1>1, <2>3, <2>4
  <2>6. proxy'[c].at = "await_verdict" /\ proxy'[c].said = proxy[c].said
    BY <1>1, <2>3, <2>4
  <2>7. ProxyEarned(c)'
    BY <1>1, <2>6 DEF ProxyEarned
  <2>. QED
    BY <1>2, <2>2, <2>5, <2>7, ProxyAuthStep DEF PeerStep
<1>3. CASE ProxyDie
  BY <1>3, ProxyDieKeeps
<1>4. CASE /\ proxy' = [proxy EXCEPT ![c] =
                TellingError("Invalid token", proxy[c].said, "receive")]
           /\ UNCHANGED <<vars, front, back, running, client, server>>
  <2>1. "Invalid token" \in ProxyErrors /\ "receive" \in Onward
    BY DEF ProxyErrors, Onward
  <2>2. AuthEarned(c)'
    BY <1>4, VarsSame, AuthFrame DEF SystemIInv
  <2>. QED
    BY <1>1, <1>4, <2>1, <2>2, ErrorTold, ProxyTells, ProxyAuthStep
<1>. QED
  BY <1>2, <1>3, <1>4 DEF VerifyToken

LEMMA ReceiveTokenKeeps ==
  ASSUME SystemIInv, IInv', NEW c \in Conns, ReceiveToken(c)
  PROVE  SystemIInv'
<1>1. /\ UNCHANGED <<front, back, running, client, server>>
      /\ proxy \in [Conns -> ProxyStates] /\ proxy[c].said \in ClientTexts \cup {NoCreds}
  BY DEF ReceiveToken, SystemIInv, SystemTypeOK, ProxyStates
<1>2. {"connect_server", "disconnect"} \subseteq Onward /\ "Authentication failed" \in ProxyErrors
  BY DEF Onward, ProxyErrors
<1>3. CASE /\ TakeAnswer(c)
           /\ proxy' = [proxy EXCEPT ![c] =
                          Telling(held'[c], @.said, "connect_server", "disconnect")]
  <2>1. AuthEarned(c)' /\ held'[c] \in Texts
    BY <1>1, <1>3, TakeAnswerEarned
  <2>. DEFINE s == Telling(held'[c], proxy[c].said, "connect_server", "disconnect")
  <2>2. s \in ProxyStates /\ Tells(s)
    BY <1>1, <1>2, <2>1, TellingTyped
  <2>3. proxy' = [proxy EXCEPT ![c] = s]
    BY <1>1, <1>3
  <2>. HIDE DEF s
  <2>. QED
    BY <1>1, <1>3, <2>1, <2>2, <2>3, ProxyTells, ProxyAuthStep DEF PeerStep
<1>4. CASE /\ NoAnswer(c)
           /\ proxy' = [proxy EXCEPT ![c] =
                          TellingError("Authentication failed", @.said, "disconnect")]
  <2>. DEFINE s == TellingError("Authentication failed", proxy[c].said, "disconnect")
  <2>1. s \in ProxyStates /\ Tells(s)
    BY <1>1, <1>2, ErrorTold
  <2>2. proxy' = [proxy EXCEPT ![c] = s]
    BY <1>1, <1>4
  <2>3. AuthEarned(c)'
    BY <1>1, <1>4, NoAnswerEarned
  <2>. HIDE DEF s
  <2>. QED
    BY <1>1, <1>4, <2>1, <2>2, <2>3, ProxyTells, ProxyAuthStep DEF PeerStep
<1>. QED
  BY <1>3, <1>4 DEF ReceiveToken

\* VERIFIED lets a message through, and is told to a session that has earned it.
LEMMA ReceiveVerdictKeeps ==
  ASSUME SystemIInv, IInv', NEW c \in Conns, ReceiveVerdict(c)
  PROVE  SystemIInv'
<1>. DEFINE text == Head(link[c].in["client"])
            refusal == TellingError("Invalid token", proxy[c].said, "receive")
<1>1. /\ UNCHANGED <<front, back, running, client, server>>
      /\ proxy \in [Conns -> ProxyStates]
      /\ proxy[c].said.op = "SAY" /\ proxy[c].said \in ClientTexts
  BY DEF ReceiveVerdict, SystemIInv, SystemTypeOK, ProxyEarned
<1>2. "receive" \in Onward /\ "Invalid token" \in ProxyErrors
  BY DEF Onward, ProxyErrors
<1>3. refusal \in ProxyStates /\ Tells(refusal)
  BY <1>1, <1>2, ErrorTold
<1>4. CASE TakeAnswer(c) /\ proxy' = [proxy EXCEPT ![c] =
             IF text = Verified THEN [@ EXCEPT !.at = "forward", !.verdict = text]
             ELSE [refusal EXCEPT !.verdict = text]]
  <2>1. AuthEarned(c)' /\ text \in Told(c)
    BY <1>1, <1>4, TakeAnswerEarned
  <2>2. text \in Answers
    BY <2>1 DEF Told
  <2>3. CASE text = Verified
    <3>. DEFINE s == [proxy[c] EXCEPT !.at = "forward", !.verdict = text]
    <3>1. Earned(c)
      BY <2>1, <2>3 DEF Told, Verified
    <3>2. s \in ProxyStates /\ s.at = "forward" /\ s.said = proxy[c].said
      <4>1. "forward" \in ProxySteps /\ proxy[c] \in ProxyStates
        BY <1>1 DEF ProxySteps
      <4>. HIDE DEF text
      <4>. QED
        BY <4>1, <2>2 DEF ProxyStates
    <3>3. proxy' = [proxy EXCEPT ![c] = s]
      BY <1>1, <1>4, <2>3
    <3>. HIDE DEF s
    <3>4. /\ proxy' \in [Conns -> ProxyStates] /\ proxy'[c] = s
          /\ \A d \in Conns \ {c} : proxy'[d] = proxy[d]
      BY <1>1, <3>2, <3>3
    <3>5. ProxyEarned(c)'
      BY <1>1, <3>1, <3>2, <3>4, SameCreds DEF ProxyEarned
    <3>. QED
      BY <1>1, <1>4, <2>1, <3>4, <3>5, ProxyAuthStep DEF PeerStep
  <2>4. CASE text # Verified
    <3>. DEFINE s == [refusal EXCEPT !.verdict = text]
    <3>. HIDE DEF text, refusal
    <3>1. s \in ProxyStates /\ Tells(s)
      BY <1>3, <2>2 DEF ProxyStates, Tells
    <3>2. proxy' = [proxy EXCEPT ![c] = s]
      BY <1>4, <2>4
    <3>. HIDE DEF s
    <3>. QED
      BY <1>1, <1>4, <2>1, <3>1, <3>2, ProxyTells, ProxyAuthStep DEF PeerStep
  <2>. QED
    BY <2>3, <2>4
<1>5. CASE NoAnswer(c) /\ proxy' = [proxy EXCEPT ![c] = refusal]
  <2>1. AuthEarned(c)'
    BY <1>1, <1>5, NoAnswerEarned
  <2>. QED
    BY <1>1, <1>3, <1>5, <2>1, ProxyTells, ProxyAuthStep DEF PeerStep
<1>6. \/ TakeAnswer(c) /\ proxy' = [proxy EXCEPT ![c] =
             IF text = Verified THEN [@ EXCEPT !.at = "forward", !.verdict = text]
             ELSE [refusal EXCEPT !.verdict = text]]
      \/ NoAnswer(c) /\ proxy' = [proxy EXCEPT ![c] = refusal]
  BY <1>1 DEF ReceiveVerdict
<1>. QED
  BY <1>4, <1>5, <1>6

LEMMA TellClientKeeps ==
  ASSUME SystemIInv, IInv', NEW c \in Conns, TellClient(c)
  PROVE  SystemIInv'
<1>1. /\ proxy[c].out \in Replies /\ {proxy[c].sent, proxy[c].failed} \subseteq Onward
      /\ front[c] \in LinkType(Typed(c), Replies)
  BY DEF TellClient, SystemIInv, ProxyEarned, ClientEarned
<1>2. PICK o \in WriteOutcomes(front[c], "server", <<proxy[c].out>>) :
        IF o.result = "killed"
        THEN ProxyDie
        ELSE /\ front' = [front EXCEPT ![c] = o.link]
             /\ proxy' = [proxy EXCEPT ![c] =
                  [NoProxy EXCEPT !.at = IF o.result = "sent" THEN proxy[c].sent
                                                              ELSE proxy[c].failed]]
             /\ UNCHANGED <<vars, back, running, client, server>>
  BY DEF TellClient
<1>3. CASE o.result = "killed"
  BY <1>2, <1>3, ProxyDieKeeps
<1>4. CASE o.result # "killed"
  <2>. DEFINE next == IF o.result = "sent" THEN proxy[c].sent ELSE proxy[c].failed
  <2>1. <<proxy[c].out>> \in Seq(Replies)
    BY <1>1
  <2>2. o.link \in LinkType(Typed(c), Replies)
    BY <1>1, <2>1, ServerWriteTyped
  <2>3. next \in Free
    BY <1>1 DEF Onward, Free, ProxySteps
  <2>4. proxy' = [proxy EXCEPT ![c] = [NoProxy EXCEPT !.at = next]]
    BY <1>2, <1>4
  <2>. HIDE DEF next
  <2>5. /\ proxy' \in [Conns -> ProxyStates] /\ ProxyEarned(c)'
        /\ \A d \in Conns \ {c} : proxy'[d] = proxy[d]
    BY <2>3, <2>4, ProxyFree
  <2>. QED
    BY <1>2, <1>4, <2>2, <2>5, ProxyFrontStep
<1>. QED
  BY <1>3, <1>4

\* The connection to the server starts empty.
LEMMA ConnectServerKeeps ==
  ASSUME SystemIInv, IInv', NEW c \in Conns, ConnectServer(c)
  PROVE  SystemIInv'
<1>1. /\ UNCHANGED <<vars, front, running, client>>
      /\ back[c] \in LinkType(Passed(c), Replies) /\ back \in [Conns -> LinkType(Payloads, Replies)]
      /\ server \in [Conns -> ServerStates]
      /\ server[c].at = "send" => Earned(c)
  BY DEF ConnectServer, SystemIInv, SystemTypeOK, ServerEarned
<1>2. CASE /\ back' = [back EXCEPT ![c] = NewLink]
           /\ server' = [server EXCEPT ![c].at = "receive"]
           /\ ProxyGoto(c, "receive")
  <2>. DEFINE s == [server[c] EXCEPT !.at = "receive"]
  <2>1. s \in ServerStates /\ s.at = "receive"
    BY <1>1 DEF ServerStates, ServerSteps
  <2>2. server' = [server EXCEPT ![c] = s]
    BY <1>1, <1>2
  <2>3. "receive" \in Free /\ NewLink \in LinkType(Passed(c), Replies)
    BY NewLinkTyped DEF Free, ProxySteps
  <2>4. /\ proxy' \in [Conns -> ProxyStates] /\ ProxyEarned(c)'
        /\ \A d \in Conns \ {c} : proxy'[d] = proxy[d]
    BY <1>2, <2>3, ProxyFree
  <2>. QED
    BY <1>1, <1>2, <2>1, <2>2, <2>3, <2>4, BackStep
<1>3. CASE ProxyGoto(c, "disconnect") /\ UNCHANGED <<back, server>>
  <2>1. "disconnect" \in Free
    BY DEF Free, ProxySteps
  <2>2. /\ proxy' \in [Conns -> ProxyStates] /\ ProxyEarned(c)'
        /\ \A d \in Conns \ {c} : proxy'[d] = proxy[d]
    BY <1>3, <2>1, ProxyFree
  <2>3. back' = [back EXCEPT ![c] = back[c]] /\ server' = [server EXCEPT ![c] = server[c]]
    BY <1>1, <1>3
  <2>. QED
    BY <1>1, <1>3, <2>2, <2>3, BackStep
<1>. QED
  BY <1>2, <1>3 DEF ConnectServer

\* A step of the proxy's thread on its connection to the server.
LEMMA ProxyBackStep ==
  ASSUME SystemIInv, IInv', NEW c \in Conns, NEW l \in LinkType(Passed(c), Replies),
         back' = [back EXCEPT ![c] = l],
         proxy' \in [Conns -> ProxyStates], ProxyEarned(c)',
         \A d \in Conns \ {c} : proxy'[d] = proxy[d],
         UNCHANGED <<vars, front, running, client, server>>
  PROVE  SystemIInv'
<1>1. /\ server[c] \in ServerStates
      /\ server[c].at = "send" => Earned(c)
      /\ server' = [server EXCEPT ![c] = server[c]]
  BY DEF SystemIInv, SystemTypeOK, ServerEarned
<1>. QED
  BY <1>1, BackStep

\* A message on its way to the server is one of a session that has earned it.
LEMMA ForwardMessageKeeps ==
  ASSUME SystemIInv, IInv', NEW c \in Conns, ForwardMessage(c)
  PROVE  SystemIInv'
<1>. DEFINE m == proxy[c].said
            refusal == TellingError("Server unavailable", m, "disconnect")
            outcomes == IF m.body = "empty" THEN {Outcome("failed", back[c])}
                        ELSE WriteOutcomes(back[c], "client", <<Payload(m.body, m.n)>>)
<1>1. /\ proxy \in [Conns -> ProxyStates] /\ proxy[c].at = "forward" /\ Earned(c)
      /\ m.op = "SAY" /\ m \in ClientTexts
      /\ back[c] \in LinkType(Passed(c), Replies)
  BY DEF ForwardMessage, SystemIInv, SystemTypeOK, ProxyEarned, ServerEarned
<1>2. refusal \in ProxyStates /\ Tells(refusal)
  <2>1. "Server unavailable" \in ProxyErrors /\ "disconnect" \in Onward
    BY DEF ProxyErrors, Onward
  <2>. QED
    BY <1>1, <2>1, ErrorTold
<1>3. PICK o \in outcomes :
        IF o.result = "killed"
        THEN ProxyDie
        ELSE /\ back' = [back EXCEPT ![c] = o.link]
             /\ proxy' = [proxy EXCEPT ![c] =
                  IF o.result = "sent" THEN [@ EXCEPT !.at = "await_reply"] ELSE refusal]
             /\ UNCHANGED <<vars, front, running, client, server>>
  BY DEF ForwardMessage
<1>4. o.link \in LinkType(Passed(c), Replies)
  <2>1. CASE m.body = "empty"
    BY <1>1, <2>1 DEF Outcome
  <2>2. CASE m.body # "empty"
    <3>1. <<Payload(m.body, m.n)>> \in Seq(Passed(c))
      BY <1>1, ClientTextKinds DEF Passed
    <3>2. o \in WriteOutcomes(back[c], "client", <<Payload(m.body, m.n)>>)
      BY <2>2
    <3>. QED
      BY <1>1, <3>1, <3>2, ClientWriteTyped
  <2>. QED
    BY <2>1, <2>2
<1>5. CASE o.result = "killed"
  BY <1>3, <1>5, ProxyDieKeeps
<1>6. CASE o.result = "sent"
  <2>. DEFINE s == [proxy[c] EXCEPT !.at = "await_reply"]
  <2>1. s \in ProxyStates /\ s.at = "await_reply" /\ s.said = m
    BY <1>1 DEF ProxyStates, ProxySteps
  <2>2. /\ proxy' = [proxy EXCEPT ![c] = s] /\ back' = [back EXCEPT ![c] = o.link]
        /\ UNCHANGED <<vars, front, running, client, server>>
    BY <1>1, <1>3, <1>6
  <2>. HIDE DEF s
  <2>3. /\ proxy' \in [Conns -> ProxyStates] /\ proxy'[c] = s
        /\ \A d \in Conns \ {c} : proxy'[d] = proxy[d]
    BY <1>1, <2>1, <2>2
  <2>4. ProxyEarned(c)'
    BY <1>1, <2>1, <2>2, <2>3, SameCreds DEF ProxyEarned
  <2>. QED
    BY <1>4, <2>2, <2>3, <2>4, ProxyBackStep
<1>7. CASE o.result \notin {"killed", "sent"}
  <2>1. /\ proxy' = [proxy EXCEPT ![c] = refusal] /\ back' = [back EXCEPT ![c] = o.link]
        /\ UNCHANGED <<vars, front, running, client, server>>
    BY <1>3, <1>7
  <2>. HIDE DEF refusal
  <2>. QED
    BY <1>2, <1>4, <2>1, ProxyTells, ProxyBackStep
<1>. QED
  BY <1>5, <1>6, <1>7

LEMMA ReceiveReplyKeeps ==
  ASSUME SystemIInv, IInv', NEW c \in Conns, ReceiveReply(c)
  PROVE  SystemIInv'
<1>1. /\ UNCHANGED <<vars, front, running, client, server>>
      /\ proxy \in [Conns -> ProxyStates] /\ proxy[c].said \in ClientTexts \cup {NoCreds}
      /\ back \in [Conns -> LinkType(Payloads, Replies)]
      /\ back[c] \in LinkType(Passed(c), Replies)
  BY DEF ReceiveReply, SystemIInv, SystemTypeOK, ServerEarned, ProxyStates
<1>2. CASE /\ CanRead(back[c], "client")
           /\ back' = [back EXCEPT ![c] = AfterRead(@, "client")]
           /\ proxy' = [proxy EXCEPT ![c] =
                [NoProxy EXCEPT !.at = "tell", !.out = Head(back[c].in["client"]),
                                !.sent = "receive", !.failed = "disconnect"]]
  <2>. DEFINE reply == Head(back[c].in["client"])
              s == [NoProxy EXCEPT !.at = "tell", !.out = reply,
                                   !.sent = "receive", !.failed = "disconnect"]
  <2>1. reply \in Replies /\ AfterRead(back[c], "client") \in LinkType(Passed(c), Replies)
    BY <1>1, <1>2, ClientReadTyped
  <2>2. /\ proxy' = [proxy EXCEPT ![c] = s]
        /\ back' = [back EXCEPT ![c] = AfterRead(back[c], "client")]
    BY <1>1, <1>2
  <2>. HIDE DEF reply
  <2>3. s \in ProxyStates /\ Tells(s)
    <3>1. NoProxy \in ProxyStates
      BY NoProxyTyped
    <3>. QED
      BY <2>1, <3>1 DEF ProxyStates, ProxySteps, Tells, Onward
  <2>. HIDE DEF s
  <2>. QED
    BY <1>1, <2>1, <2>2, <2>3, ProxyTells, ProxyBackStep
<1>3. CASE /\ proxy' = [proxy EXCEPT ![c] =
                          TellingError("Server unavailable", @.said, "disconnect")]
           /\ UNCHANGED back
  <2>. DEFINE s == TellingError("Server unavailable", proxy[c].said, "disconnect")
  <2>1. "Server unavailable" \in ProxyErrors /\ "disconnect" \in Onward
    BY DEF ProxyErrors, Onward
  <2>2. s \in ProxyStates /\ Tells(s)
    BY <1>1, <2>1, ErrorTold
  <2>3. proxy' = [proxy EXCEPT ![c] = s] /\ back' = [back EXCEPT ![c] = back[c]]
    BY <1>1, <1>3
  <2>. HIDE DEF s
  <2>. QED
    BY <1>1, <2>2, <2>3, ProxyTells, ProxyBackStep
<1>. QED
  BY <1>2, <1>3 DEF ReceiveReply

LEMMA DisconnectClientKeeps ==
  ASSUME SystemIInv, IInv', NEW c \in Conns, DisconnectClient(c)
  PROVE  SystemIInv'
<1>1. PICK o \in CloseOutcomes(front[c], "server") :
        IF o.result = "killed"
        THEN ProxyDie
        ELSE /\ front' = [front EXCEPT ![c] = o.link]
             /\ ProxyGoto(c, "drop_server")
             /\ UNCHANGED <<vars, back, running, client, server>>
  BY DEF DisconnectClient
<1>2. o.link \in LinkType(Typed(c), Replies)
  BY CloseTyped DEF SystemIInv, ClientEarned, Ends
<1>3. "drop_server" \in Free
  BY DEF Free, ProxySteps
<1>. QED
  BY <1>1, <1>2, <1>3, ProxyDieKeeps, ProxyFree, ProxyFrontStep

LEMMA DropServerKeeps ==
  ASSUME SystemIInv, IInv', NEW c \in Conns, DropServer(c)
  PROVE  SystemIInv'
<1>1. /\ back \in [Conns -> LinkType(Payloads, Replies)]
      /\ back[c] \in LinkType(Passed(c), Replies) /\ "drop_auth" \in Free
  BY DEF SystemIInv, SystemTypeOK, ServerEarned, Free, ProxySteps
<1>2. CASE \E o \in CloseOutcomes(back[c], "client") :
             IF o.result = "killed"
             THEN ProxyDie
             ELSE /\ back' = [back EXCEPT ![c] = o.link]
                  /\ ProxyGoto(c, "drop_auth")
                  /\ UNCHANGED <<vars, front, running, client, server>>
  <2>1. PICK o \in CloseOutcomes(back[c], "client") :
             IF o.result = "killed"
             THEN ProxyDie
             ELSE /\ back' = [back EXCEPT ![c] = o.link]
                  /\ ProxyGoto(c, "drop_auth")
                  /\ UNCHANGED <<vars, front, running, client, server>>
    BY <1>2
  <2>2. o.link \in LinkType(Passed(c), Replies)
    BY <1>1, CloseTyped DEF Ends
  <2>. QED
    BY <1>1, <2>1, <2>2, ProxyDieKeeps, ProxyFree, ProxyBackStep
<1>3. CASE ProxyGoto(c, "drop_auth") /\ UNCHANGED <<vars, front, back, running, client, server>>
  <2>1. back' = [back EXCEPT ![c] = back[c]]
    BY <1>1, <1>3
  <2>. QED
    BY <1>1, <1>3, <2>1, ProxyFree, ProxyBackStep
<1>. QED
  BY <1>2, <1>3 DEF DropServer

LEMMA DropAuthKeeps ==
  ASSUME SystemIInv, IInv', NEW c \in Conns, DropAuth(c)
  PROVE  SystemIInv'
<1>1. "idle" \in Free
  BY DEF Free, ProxySteps
<1>2. CASE PeerClose(c) /\ ProxyGoto(c, "idle") /\ UNCHANGED <<front, back, running, client, server>>
  <2>1. AuthEarned(c)'
    BY <1>2, PeerCloseEarned
  <2>2. /\ proxy' \in [Conns -> ProxyStates] /\ ProxyEarned(c)'
        /\ \A d \in Conns \ {c} : proxy'[d] = proxy[d]
    BY <1>1, <1>2, ProxyFree
  <2>. QED
    BY <1>2, <2>1, <2>2, PeerCloseStep
<1>3. CASE ProxyDie
  BY <1>3, ProxyDieKeeps
<1>4. CASE ProxyGoto(c, "idle") /\ UNCHANGED <<vars, front, back, running, client, server>>
  <2>1. AuthEarned(c)'
    BY <1>4, VarsSame, AuthFrame DEF SystemIInv
  <2>. QED
    BY <1>1, <1>4, <2>1, ProxyFree, ProxyAuthStep
<1>. QED
  BY <1>2, <1>3, <1>4 DEF DropAuth

\* What the kernel closes is as if the thread had closed it.
LEMMA ProxyEndClosesKeeps ==
  ASSUME SystemIInv, IInv', NEW c \in Conns, ProxyEndCloses(c)
  PROVE  SystemIInv'
<1>1. /\ UNCHANGED <<running, client, proxy, server>>
      /\ front \in [Conns -> LinkType(ClientTexts, Replies)]
      /\ back \in [Conns -> LinkType(Payloads, Replies)]
      /\ front[c] \in LinkType(Typed(c), Replies) /\ back[c] \in LinkType(Passed(c), Replies)
  BY DEF ProxyEndCloses, SystemIInv, SystemTypeOK, ClientEarned, ServerEarned
<1>2. /\ proxy' \in [Conns -> ProxyStates] /\ ProxyEarned(c)'
      /\ \A d \in Conns \ {c} : proxy'[d] = proxy[d]
  BY <1>1, ProxyFrame DEF SystemIInv, SystemTypeOK
<1>3. CASE front' = [front EXCEPT ![c] = Closed(@, "server")] /\ UNCHANGED <<vars, back>>
  <2>1. Closed(front[c], "server") \in LinkType(Typed(c), Replies)
    BY <1>1, ClosedTyped DEF Ends
  <2>2. front' = [front EXCEPT ![c] = Closed(front[c], "server")]
    BY <1>1, <1>3
  <2>. QED
    BY <1>1, <1>2, <1>3, <2>1, <2>2, ProxyFrontStep
<1>4. CASE back' = [back EXCEPT ![c] = Closed(@, "client")] /\ UNCHANGED <<vars, front>>
  <2>1. Closed(back[c], "client") \in LinkType(Passed(c), Replies)
    BY <1>1, ClosedTyped DEF Ends
  <2>2. back' = [back EXCEPT ![c] = Closed(back[c], "client")]
    BY <1>1, <1>4
  <2>. QED
    BY <1>1, <1>2, <1>4, <2>1, <2>2, ProxyBackStep
<1>5. CASE PeerClose(c) /\ UNCHANGED <<front, back>>
  <2>1. AuthEarned(c)'
    BY <1>1, <1>5, PeerCloseEarned
  <2>. QED
    BY <1>1, <1>2, <1>5, <2>1, PeerCloseStep
<1>. QED
  BY <1>3, <1>4, <1>5 DEF ProxyEndCloses

LEMMA ProxyKeeps ==
  ASSUME SystemIInv, IInv', NEW c \in Conns, ProxyThread(c)
  PROVE  SystemIInv'
  BY ConnectAuthKeeps, ReceiveTextKeeps, ForwardLoginKeeps, ReceiveTokenKeeps,
     VerifyTokenKeeps, ReceiveVerdictKeeps, TellClientKeeps, ConnectServerKeeps,
     ForwardMessageKeeps, ReceiveReplyKeeps, DisconnectClientKeeps, DropServerKeeps,
     DropAuthKeeps, ProxyEndClosesKeeps, Zenon DEF ProxyThread, ProxyConnects, ProxyGoesOn

-----------------------------------------------------------------------------
(* Theorems *)

LEMMA SystemInvInit ==
  ASSUME SystemInit
  PROVE  SystemIInv
<1>1. IInv
  BY InitInv DEF SystemInit
<1>2. /\ \A A, B : ClosedLink \in LinkType(A, B)
      /\ NoClient \in ClientStates /\ NoServer \in ServerStates /\ NoProxy \in ProxyStates
  BY NewLinkTyped, NoProxyTyped, SystemAssumption
     DEF NoClient, ClientStates, ClientSteps, Numbers, NoServer, ServerStates, ServerSteps,
         Payload, Payloads
<1>3. SystemTypeOK
  BY <1>1, <1>2 DEF SystemInit, SystemTypeOK, IInv
<1>4. ASSUME NEW c \in Conns
      PROVE  ClientEarned(c) /\ AuthEarned(c) /\ ProxyEarned(c) /\ ServerEarned(c)
  <2>1. ClientEarned(c)
    BY <1>2 DEF SystemInit, ClientEarned, NoClient
  <2>2. AuthEarned(c)
    BY <1>2 DEF SystemInit, Init, AuthEarned, FirstEarned, ClosedLink, NoText
  <2>3. ProxyEarned(c)
    BY DEF SystemInit, ProxyEarned, NoProxy
  <2>4. ServerEarned(c)
    BY <1>2 DEF SystemInit, ServerEarned, NoServer
  <2>. QED
    BY <2>1, <2>2, <2>3, <2>4
<1>. QED
  BY <1>1, <1>3, <1>4 DEF SystemIInv

LEMMA WorldKeeps ==
  ASSUME SystemIInv, IInv', World \/ UNCHANGED sysVars
  PROVE  SystemIInv'
<1>1. CASE ProxyDie
  BY <1>1, ProxyDieKeeps
<1>2. CASE ServerDie
  BY <1>2, ServerDieKeeps
<1>3. CASE Die /\ UNCHANGED <<front, back, running, client, proxy, server>>
  BY <1>3, DieEarned, AuthStep
<1>4. CASE /\ UNCHANGED <<link, pc, message, answer, held>>
           /\ running' \in SUBSET {"proxy", "server"}
           /\ UNCHANGED <<front, back, client, proxy, server>>
  <2>1. SystemTypeOK'
    BY <1>4 DEF SystemIInv, SystemTypeOK, IInv
  <2>2. ASSUME NEW d \in Conns
        PROVE  ClientEarned(d)' /\ AuthEarned(d)' /\ ProxyEarned(d)' /\ ServerEarned(d)'
    BY <1>4, ClientFrame, AuthFrame, ProxyFrame, ServerFrame DEF SystemIInv
  <2>. QED
    BY <2>1, <2>2 DEF SystemIInv
<1>5. running \in SUBSET {"proxy", "server"}
  BY DEF SystemIInv, SystemTypeOK
<1>6. ASSUME Tick \/ Restart, UNCHANGED <<front, back, running, client, proxy, server>>
      PROVE  SystemIInv'
  BY <1>4, <1>5, <1>6 DEF Tick, Restart, locals, peers
<1>7. ASSUME NEW program \in {"proxy", "server"} \ running, running' = running \cup {program},
             UNCHANGED <<vars, front, back, client, proxy, server>>
      PROVE  SystemIInv'
  BY <1>4, <1>5, <1>7 DEF vars
<1>8. CASE UNCHANGED sysVars
  BY <1>4, <1>5, <1>8 DEF sysVars, vars
<1>. QED
  BY <1>1, <1>2, <1>3, <1>6, <1>7, <1>8 DEF World, Crash

LEMMA SystemInvNext ==
  ASSUME Abrupt, SystemIInv, [SystemNext]_sysVars
  PROVE  SystemIInv'
<1>1. IInv'
  BY StepRefines, NextInv DEF SystemIInv
<1>2. ASSUME NEW c \in Conns,
             Connect(c) \/ Say(c) \/ Exit(c) \/ Abandon(c) \/ ClientThread(c)
      PROVE  SystemIInv'
  BY <1>1, <1>2, ConnectKeeps, SayKeeps, LoginKeeps, ClientReceivesKeeps, ClientLeavesKeeps
     DEF ClientThread
<1>3. ASSUME NEW c \in Conns, ProxyThread(c) \/ ServerThread(c) \/ AuthThread(c)
      PROVE  SystemIInv'
  BY <1>1, <1>3, ProxyKeeps, ServerKeeps, HandleKeeps
<1>4. CASE World \/ UNCHANGED sysVars
  BY <1>1, <1>4, WorldKeeps
<1>. QED
  BY <1>2, <1>3, <1>4, Zenon DEF SystemNext

\* The inductive invariant holds of every behaviour of the four programs, when
\* a process may die in the middle of a request.
THEOREM SystemInvariant == Abrupt => (SystemSpec => []SystemIInv)
<1>1. SystemInit => SystemIInv
  BY SystemInvInit
<1>2. Abrupt /\ SystemIInv /\ [SystemNext]_sysVars => SystemIInv'
  BY SystemInvNext
<1>3. ASSUME Abrupt
      PROVE  SystemSpec => []SystemIInv
  <2>1. SystemIInv /\ [SystemNext]_sysVars => SystemIInv'
    BY <1>2, <1>3
  <2>. QED
    BY <1>1, <2>1, PTL DEF SystemSpec
<1>. QED
  BY <1>3

\* Every variable of the four programs keeps its type: no text that crosses a
\* connection is one its reader has no branch for.
THEOREM SystemTyped == Abrupt => (SystemSpec => []SystemTypeOK)
<1>1. SystemIInv => SystemTypeOK
  BY DEF SystemIInv
<1>2. ASSUME Abrupt
      PROVE  SystemSpec => []SystemTypeOK
  <2>1. SystemSpec => []SystemIInv
    BY <1>2, SystemInvariant
  <2>. QED
    BY <1>1, <2>1, PTL
<1>. QED
  BY <1>2

\* A message reaches the server only in a session whose own AUTH had the right
\* password of a registered user, or had a VERIFY of a token behind its byte 256
\* (proxy.cpp:39, 67, 76, 132-138).
THEOREM DeliveredSoundness == Abrupt => (SystemSpec => []DeliveredOnlyForOwnLogin)
<1>1. ASSUME SystemIInv, NEW c \in Conns,
             \/ proxy[c].at \in {"forward", "await_reply"}
             \/ back[c].in["server"] # <<>>
             \/ server[c].at = "send"
      PROVE  Earned(c)
  <2>1. CASE proxy[c].at \in {"forward", "await_reply"}
    BY <1>1, <2>1 DEF SystemIInv, ProxyEarned
  <2>2. CASE server[c].at = "send"
    BY <1>1, <2>2 DEF SystemIInv, ServerEarned
  <2>3. CASE back[c].in["server"] # <<>>
    <3>1. back[c].in["server"] \in Seq(Passed(c))
      BY <1>1 DEF SystemIInv, ServerEarned, LinkType
    <3>2. Head(back[c].in["server"]) \in Passed(c)
      BY <2>3, <3>1
    <3>. QED
      BY <3>2 DEF Passed
  <2>. QED
    BY <1>1, <2>1, <2>2, <2>3
<1>2. SystemIInv => DeliveredOnlyForOwnLogin
  BY <1>1 DEF DeliveredOnlyForOwnLogin, Earned
<1>3. ASSUME Abrupt
      PROVE  SystemSpec => []DeliveredOnlyForOwnLogin
  <2>1. SystemSpec => []SystemIInv
    BY <1>3, SystemInvariant
  <2>. QED
    BY <1>2, <2>1, PTL
<1>. QED
  BY <1>3

\* The proxy, with its clients, is an environment of the kind AuthServer assumes:
\* the four programs implement AuthServer, and what is proved of it holds of them.
THEOREM Refinement == Abrupt => (SystemSpec => RefinesAuthServer)
<1>1. SystemInit => Init
  BY DEF SystemInit
<1>2. ASSUME Abrupt
      PROVE  SystemSpec => RefinesAuthServer
  <2>1. SystemIInv /\ [SystemNext]_sysVars => [Next]_vars
    BY <1>2, StepRefines
  <2>2. SystemSpec => []SystemIInv
    BY <1>2, SystemInvariant
  <2>. QED
    BY <1>1, <2>1, <2>2, PTL DEF SystemSpec, RefinesAuthServer, Spec
<1>. QED
  BY <1>2

\* What AuthServer's theorems say of a server whose peers do as they like holds of
\* the one the proxy talks to: through the deaths of both processes no user has two
\* rows, nobody is VERIFIED who has not logged in, no token outlives a lifetime, and
\* what the proxy keeps for the token is the answer to the AUTH (proxy.cpp:31-39).
COROLLARY ServerSoundInSystem ==
  Abrupt => (SystemSpec => [](/\ TableSound /\ VerifiedOnlyForLoggedIn
                              /\ BoundedLifetime /\ FirstAnswerIsForLogin))
<1>1. ASSUME Abrupt
      PROVE  SystemSpec => [](/\ TableSound /\ VerifiedOnlyForLoggedIn
                              /\ BoundedLifetime /\ FirstAnswerIsForLogin)
  <2>1. SystemSpec => Spec
    BY <1>1, Refinement DEF RefinesAuthServer
  <2>. QED
    BY <2>1, TableSoundness, VerifiedSoundness, LifetimeBounded, FirstAnswerSoundness, PTL
<1>. QED
  BY <1>1

-----------------------------------------------------------------------------
(* One text at a time: RepliesMatch                                          *)

\* A text m put into an empty queue is all there is in it.
LEMMA Alone ==
  ASSUME NEW m
  PROVE  /\ <<>> \o <<m>> = <<m>> /\ <<m>> # <<>>
         /\ Head(<<m>>) = m /\ Tail(<<m>>) = <<>>
  OBVIOUS

\* The queue q has lost what it had, or is the queue it was.
Kept(q, was) == q = <<>> \/ q = was

\* A step that leaves the client alone, puts nothing on its connection and starts
\* no work for it.
LEMMA FrontKept ==
  ASSUME NEW d \in Conns, FrontInTurn(d), client'[d] = client[d],
         Kept(front'[d].in["server"], front[d].in["server"]),
         Kept(front'[d].in["client"], front[d].in["client"]),
         Working(d)' => Working(d) /\ WorksOn(d)' = WorksOn(d)
  PROVE  FrontInTurn(d)'
  BY DEF FrontInTurn, Waiting, Kept

\* A step that puts nothing on the connection to the server and gives its thread
\* nothing to send.
LEMMA BackKept ==
  ASSUME NEW d \in Conns, BackInTurn(d),
         Kept(back'[d].in["server"], back[d].in["server"]),
         Kept(back'[d].in["client"], back[d].in["client"]),
         server'[d].at = "send" => server'[d] = server[d],
         Quiet(d)' => Quiet(d),
         proxy'[d].at = "await_reply" => proxy'[d] = proxy[d]
  PROVE  BackInTurn(d)'
<1>1. CASE Quiet(d)'
  <2>1. Quiet(d) /\ proxy'[d].at # "await_reply"
    BY <1>1 DEF Quiet
  <2>. QED
    BY <2>1 DEF BackInTurn, Kept
<1>2. CASE ~Quiet(d)' /\ proxy'[d].at = "await_reply"
  BY <1>2 DEF BackInTurn, Kept
<1>3. CASE ~Quiet(d)' /\ proxy'[d].at # "await_reply"
  BY <1>3 DEF BackInTurn
<1>. QED
  BY <1>1, <1>2, <1>3

\* A step that leaves every session but c alone.
LEMMA OneTurn ==
  ASSUME InTurn, NEW c \in Conns, FrontInTurn(c)', BackInTurn(c)',
         \A d \in Conns \ {c} :
           /\ front'[d] = front[d] /\ client'[d] = client[d] /\ proxy'[d] = proxy[d]
           /\ back'[d] = back[d] /\ server'[d] = server[d]
  PROVE  InTurn'
<1>1. ASSUME NEW d \in Conns, d # c
      PROVE  FrontInTurn(d)' /\ BackInTurn(d)'
  BY <1>1, FrontKept, BackKept DEF InTurn, Working, WorksOn, Quiet, Kept
<1>. QED
  BY <1>1 DEF InTurn

\* The proxy's thread goes on to a step at which it works on nothing and will not
\* forward anything.
Aside == ProxySteps \ {"forward_login", "await_token", "verify", "await_verdict",
                       "forward", "await_reply", "tell", "receive"}

LEMMA AsideFree ==
  ASSUME NEW d \in Conns, proxy'[d].at \in Aside
  PROVE  ~Working(d)' /\ ~Quiet(d)' /\ proxy'[d].at # "await_reply"
  BY DEF Aside, Working, Quiet

LEMMA ProxyDieTurn ==
  ASSUME InTurn, ProxyDie
  PROVE  InTurn'
<1>1. ASSUME NEW d \in Conns
      PROVE  FrontInTurn(d)' /\ BackInTurn(d)'
  <2>1. proxy'[d].at \in Aside
    BY DEF ProxyDie, NoProxy, Aside, ProxySteps
  <2>2. /\ front'[d] = front[d] /\ client'[d] = client[d]
        /\ back'[d] = back[d] /\ server'[d] = server[d]
    BY DEF ProxyDie
  <2>. QED
    BY <2>1, <2>2, AsideFree, FrontKept, BackKept DEF InTurn, Kept
<1>. QED
  BY <1>1 DEF InTurn

LEMMA ServerDieTurn ==
  ASSUME InTurn, ServerDie
  PROVE  InTurn'
<1>1. ASSUME NEW d \in Conns
      PROVE  FrontInTurn(d)' /\ BackInTurn(d)'
  <2>1. server'[d].at # "send"
    BY DEF ServerDie, NoServer
  <2>2. /\ front'[d] = front[d] /\ client'[d] = client[d]
        /\ back'[d] = back[d] /\ proxy'[d] = proxy[d]
    BY DEF ServerDie
  <2>. QED
    BY <2>1, <2>2, FrontKept, BackKept DEF InTurn, Kept, Working, WorksOn, Quiet
<1>. QED
  BY <1>1 DEF InTurn

-----------------------------------------------------------------------------
(* client.cpp *)

\* A step of the client alone.
LEMMA ClientTurn ==
  ASSUME InTurn, SystemTypeOK, NEW c \in Conns, NEW l, NEW s,
         front' = [front EXCEPT ![c] = l], client' = [client EXCEPT ![c] = s],
         UNCHANGED <<back, proxy, server>>,
         front'[c] = l /\ client'[c] = s => FrontInTurn(c)'
  PROVE  InTurn'
<1>1. /\ front'[c] = l /\ client'[c] = s
      /\ \A d \in Conns \ {c} : front'[d] = front[d] /\ client'[d] = client[d]
  BY DEF SystemTypeOK
<1>2. BackInTurn(c)'
  BY BackKept DEF InTurn, Kept, Quiet
<1>. QED
  BY <1>1, <1>2, OneTurn

LEMMA ConnectTurn ==
  ASSUME InTurn, SystemTypeOK, NEW c \in Conns, Connect(c)
  PROVE  InTurn'
<1>1. /\ front' = [front EXCEPT ![c] = NewLink]
      /\ client' = [client EXCEPT ![c] = [NoClient EXCEPT !.at = "login"]]
      /\ proxy' = [proxy EXCEPT ![c].at = "connect_auth"]
      /\ UNCHANGED <<back, server>>
  BY DEF Connect
<1>2. /\ front'[c] = NewLink /\ client'[c].at = "login" /\ client'[c].count = 0
      /\ proxy'[c].at = "connect_auth"
      /\ \A d \in Conns \ {c} :
           front'[d] = front[d] /\ client'[d] = client[d] /\ proxy'[d] = proxy[d]
  BY <1>1 DEF SystemTypeOK, NoClient, ProxyStates
<1>3. ~Working(c)' /\ ~Quiet(c)'
  BY <1>2 DEF Working, Quiet
<1>4. FrontInTurn(c)'
  BY <1>2, <1>3 DEF FrontInTurn, NewLink
<1>5. BackInTurn(c)'
  BY <1>2, <1>3 DEF BackInTurn
<1>. QED
  BY <1>1, <1>2, <1>4, <1>5, OneTurn

\* A client that does not wait sends one text, and waits for what is said of it.
LEMMA SendsTurn ==
  ASSUME InTurn, SystemTypeOK, NEW c \in Conns, NEW m \in ClientTexts, NEW next,
         ClientSends(c, <<m>>, next),
         client[c].at \in {"login", "prompt"},
         next.at \in {"await_token", "await_reply"}, Number(m) = next.count
  PROVE  InTurn'
<1>1. PICK o \in WriteOutcomes(front[c], "client", <<m>>) :
        /\ front' = [front EXCEPT ![c] = o.link]
        /\ client' = [client EXCEPT ![c] =
             IF o.result = "sent" THEN next ELSE [client[c] EXCEPT !.at = "leave"]]
        /\ UNCHANGED <<vars, back, running, proxy, server>>
  BY DEF ClientSends, SystemTypeOK
<1>2. front[c] \in LinkType(ClientTexts, Replies) /\ client[c] \in ClientStates
  BY DEF SystemTypeOK
<1>3. <<m>> \in Seq(ClientTexts)
  OBVIOUS
<1>4. /\ o.link.in["client"] = front[c].in["client"]
      /\ \/ o.link.in["server"] = front[c].in["server"]
         \/ o.link.in["server"] = front[c].in["server"] \o <<m>>
  <2>1. Queued(front[c], o, "client", <<m>>)
    BY <1>2, <1>3, ClientWriteQueues
  <2>. QED
    BY <2>1 DEF Queued, Peer
<1>5. /\ front[c].in["client"] = <<>> /\ front[c].in["server"] = <<>> /\ ~Working(c)
  BY DEF InTurn, FrontInTurn, Waiting
<1>6. /\ o.link.in["client"] = <<>>
      /\ \/ o.link.in["server"] = <<>>
         \/ /\ o.link.in["server"] # <<>> /\ Tail(o.link.in["server"]) = <<>>
            /\ Head(o.link.in["server"]) = m
  BY <1>4, <1>5, Alone
<1>7. ~Working(c)'
  BY <1>1, <1>5 DEF Working
<1>8. CASE o.result = "sent"
  <2>1. client' = [client EXCEPT ![c] = next]
    BY <1>1, <1>8
  <2>2. ASSUME front'[c] = o.link, client'[c] = next
        PROVE  FrontInTurn(c)'
    BY <1>6, <1>7, <2>2 DEF FrontInTurn, Waiting
  <2>. QED
    BY <1>1, <2>1, <2>2, ClientTurn
<1>9. CASE o.result # "sent"
  <2>. DEFINE s == [client[c] EXCEPT !.at = "leave"]
  <2>1. client' = [client EXCEPT ![c] = s] /\ s.at = "leave"
    BY <1>1, <1>2, <1>9 DEF ClientStates
  <2>2. ASSUME client'[c] = s
        PROVE  FrontInTurn(c)'
    BY <2>1, <2>2 DEF FrontInTurn
  <2>. HIDE DEF s
  <2>. QED
    BY <1>1, <2>1, <2>2, ClientTurn
<1>. QED
  BY <1>8, <1>9

LEMMA LoginTurn ==
  ASSUME InTurn, SystemTypeOK, NEW c \in Conns, Login(c)
  PROVE  InTurn'
<1>1. PICK login \in Logins[c] :
        ClientSends(c, <<login>>,
                    [client[c] EXCEPT !.at = "await_token", !.creds = login])
  BY DEF Login
<1>. DEFINE next == [client[c] EXCEPT !.at = "await_token", !.creds = login]
<1>2. login \in ClientTexts /\ Number(login) = 0
  BY ConstantsAssumption DEF ClientTexts, LoginTexts, Number
<1>3. client[c].at = "login" /\ client[c].count = 0
  BY DEF Login, InTurn, FrontInTurn
<1>4. next.at = "await_token" /\ next.count = 0
  BY <1>3 DEF SystemTypeOK, ClientStates
<1>. HIDE DEF next
<1>. QED
  BY <1>1, <1>2, <1>3, <1>4, SendsTurn DEF next

\* A message that fits the proxy's buffer is one text.
LEMMA SayTurn ==
  ASSUME "huge" \notin Bodies, InTurn, SystemIInv, NEW c \in Conns, Say(c)
  PROVE  InTurn'
<1>. DEFINE n == client[c].count + 1
            m(body) == Said(client[c].own, body, n)
            next == [client[c] EXCEPT !.at = "await_reply", !.count = n]
<1>1. PICK body \in Bodies : \E reads \in SaidReads(m(body)) : ClientSends(c, reads, next)
  BY DEF Say
<1>2. /\ client[c] \in ClientStates /\ client[c].at = "prompt" /\ client[c].own \in Texts
      /\ client[c].count < MaxMessages /\ SystemTypeOK
  BY DEF Say, SystemIInv, SystemTypeOK, ClientEarned
<1>3. n \in Numbers
  BY <1>2, SystemAssumption DEF ClientStates, Numbers
<1>. HIDE DEF n
<1>4. m(body) \in ClientTexts /\ Number(m(body)) = n
  BY <1>2, <1>3 DEF Said, ClientTexts, Number
<1>5. SaidReads(m(body)) = {<<m(body)>>}
  <2>1. m(body).body # "huge"
    BY DEF Said
  <2>. QED
    BY <2>1 DEF SaidReads
<1>6. next.at = "await_reply" /\ next.count = n
  BY <1>2 DEF ClientStates
<1>. HIDE DEF next, m
<1>. QED
  BY <1>1, <1>2, <1>4, <1>5, <1>6, SendsTurn

\* What the client reads is all there was.
LEMMA ClientReceivesTurn ==
  ASSUME InTurn, SystemTypeOK, NEW c \in Conns, ClientReceives(c)
  PROVE  InTurn'
<1>1. /\ UNCHANGED <<back, proxy, server>>
      /\ front[c] \in LinkType(ClientTexts, Replies) /\ client[c] \in ClientStates
      /\ client[c].at \in {"await_token", "await_reply"} /\ FrontInTurn(c)
  BY DEF ClientReceives, SystemTypeOK, InTurn
<1>2. CASE CanRead(front[c], "client")
  <2>. DEFINE l == AfterRead(front[c], "client")
              own == IF client[c].at = "await_token"
                     THEN Head(front[c].in["client"]).text ELSE client[c].own
              s == [client[c] EXCEPT !.at = "prompt", !.own = own]
  <2>1. l.in["client"] = <<>> /\ l.in["server"] = <<>> /\ ~Working(c)
    <3>1. /\ front[c].in["client"] # <<>>
          /\ l.in["client"] = Tail(front[c].in["client"])
          /\ l.in["server"] = front[c].in["server"]
      BY <1>1, <1>2 DEF CanRead, AfterRead, LinkType
    <3>. QED
      BY <1>1, <3>1 DEF FrontInTurn
  <2>. HIDE DEF own
  <2>2. /\ front' = [front EXCEPT ![c] = l] /\ client' = [client EXCEPT ![c] = s]
        /\ s.at = "prompt"
    <3>1. CASE AtEnd(front[c], "client")
      BY <1>2, <3>1 DEF CanRead, AtEnd
    <3>2. CASE /\ front' = [front EXCEPT ![c] = AfterRead(@, "client")]
               /\ client' = [client EXCEPT ![c].at = "prompt", ![c].own = own]
      BY <1>1, <3>2 DEF SystemTypeOK, ClientStates
    <3>. QED
      BY <3>1, <3>2 DEF ClientReceives, own
  <2>. HIDE DEF l, s
  <2>3. ASSUME front'[c] = l, client'[c] = s
        PROVE  FrontInTurn(c)'
    <3>1. ~Working(c)'
      BY <1>1, <2>1 DEF Working
    <3>. QED
      BY <2>1, <2>2, <2>3, <3>1 DEF FrontInTurn
  <2>. QED
    BY <1>1, <2>2, <2>3, ClientTurn
<1>3. CASE ~CanRead(front[c], "client")
  <2>. DEFINE s == [client[c] EXCEPT !.at = "leave"]
  <2>1. /\ client' = [client EXCEPT ![c] = s] /\ front' = [front EXCEPT ![c] = front[c]]
        /\ s.at = "leave"
    BY <1>1, <1>3 DEF ClientReceives, SystemTypeOK, ClientStates
  <2>. HIDE DEF s
  <2>2. ASSUME client'[c] = s
        PROVE  FrontInTurn(c)'
    BY <2>1, <2>2 DEF FrontInTurn
  <2>. QED
    BY <1>1, <2>1, <2>2, ClientTurn
<1>. QED
  BY <1>2, <1>3

\* Of a client that is leaving or has left nothing is asked.
LEMMA ClientLeavesTurn ==
  ASSUME InTurn, SystemTypeOK, NEW c \in Conns, Exit(c) \/ Leave(c) \/ Abandon(c)
  PROVE  InTurn'
<1>1. client[c] \in ClientStates /\ UNCHANGED <<back, proxy, server>>
  BY DEF Exit, Leave, Abandon, ClientEnds, SystemTypeOK
<1>2. PICK l, s : /\ front' = [front EXCEPT ![c] = l]
                  /\ client' = [client EXCEPT ![c] = s] /\ s.at \in {"idle", "leave"}
  <2>1. CASE Exit(c)
    <3>. DEFINE s == [client[c] EXCEPT !.at = "leave"]
    <3>1. /\ client' = [client EXCEPT ![c] = s] /\ front' = [front EXCEPT ![c] = front[c]]
          /\ s.at = "leave"
      BY <1>1, <2>1 DEF Exit, SystemTypeOK, ClientStates
    <3>. HIDE DEF s
    <3>. QED
      BY <3>1
  <2>2. CASE ClientEnds(c)
    <3>. DEFINE s == [NoClient EXCEPT !.creds = client[c].creds]
                l == Closed(front[c], "client")
    <3>1. /\ client' = [client EXCEPT ![c] = s] /\ front' = [front EXCEPT ![c] = l]
          /\ s.at = "idle"
      BY <2>2 DEF ClientEnds, NoClient, SystemTypeOK
    <3>. HIDE DEF s, l
    <3>. QED
      BY <3>1
  <2>. QED
    BY <2>1, <2>2 DEF Leave, Abandon
<1>3. ASSUME client'[c] = s
      PROVE  FrontInTurn(c)'
  BY <1>2, <1>3 DEF FrontInTurn
<1>. QED
  BY <1>1, <1>2, <1>3, ClientTurn

-----------------------------------------------------------------------------
(* server.cpp *)

\* A step of the server alone.
LEMMA ServerTurn ==
  ASSUME InTurn, SystemTypeOK, NEW c \in Conns, NEW l, NEW s,
         back' = [back EXCEPT ![c] = l], server' = [server EXCEPT ![c] = s],
         UNCHANGED <<front, client, proxy>>,
         back'[c] = l /\ server'[c] = s => BackInTurn(c)'
  PROVE  InTurn'
<1>1. /\ back'[c] = l /\ server'[c] = s
      /\ \A d \in Conns \ {c} : back'[d] = back[d] /\ server'[d] = server[d]
  BY DEF SystemTypeOK
<1>2. FrontInTurn(c)'
  BY FrontKept DEF InTurn, Kept, Working, WorksOn
<1>. QED
  BY <1>1, <1>2, OneTurn

\* The same when nothing is put on the connection.
LEMMA ServerIdleTurn ==
  ASSUME InTurn, SystemTypeOK, NEW c \in Conns, NEW l, NEW s,
         back' = [back EXCEPT ![c] = l], server' = [server EXCEPT ![c] = s],
         UNCHANGED <<front, client, proxy>>,
         Kept(l.in["server"], back[c].in["server"]),
         Kept(l.in["client"], back[c].in["client"]),
         s.at # "send" \/ s = server[c]
  PROVE  InTurn'
<1>1. ASSUME back'[c] = l, server'[c] = s
      PROVE  BackInTurn(c)'
  BY <1>1, BackKept DEF InTurn, Quiet
<1>. QED
  BY <1>1, ServerTurn

LEMMA ServerReceiveTurn ==
  ASSUME InTurn, SystemTypeOK, NEW c \in Conns, ServerReceive(c)
  PROVE  InTurn'
<1>1. /\ UNCHANGED <<front, client, proxy>> /\ BackInTurn(c)
      /\ back[c] \in LinkType(Payloads, Replies) /\ server[c] \in ServerStates
  BY DEF ServerReceive, SystemTypeOK, InTurn
<1>2. CASE CanRead(back[c], "server")
  <2>. DEFINE l == AfterRead(back[c], "server")
              s == [at |-> "send", heard |-> Head(back[c].in["server"])]
  <2>1. /\ back[c].in["server"] # <<>>
        /\ l.in["server"] = Tail(back[c].in["server"])
        /\ l.in["client"] = back[c].in["client"]
    BY <1>1, <1>2 DEF CanRead, AfterRead, LinkType
  <2>2. back' = [back EXCEPT ![c] = l] /\ server' = [server EXCEPT ![c] = s]
    <3>1. CASE AtEnd(back[c], "server")
      BY <1>2, <3>1 DEF CanRead, AtEnd
    <3>2. CASE /\ server' = [server EXCEPT ![c] = s]
               /\ back' = [back EXCEPT ![c] = AfterRead(@, "server")]
      BY <3>2 DEF SystemTypeOK
    <3>. QED
      BY <3>1, <3>2 DEF ServerReceive
  <2>3. s.at = "send" /\ s.heard = Head(back[c].in["server"])
    OBVIOUS
  <2>. HIDE DEF l, s
  <2>4. ASSUME back'[c] = l, server'[c] = s
        PROVE  BackInTurn(c)'
    <3>1. ~Quiet(c) /\ ~Quiet(c)' /\ proxy'[c] = proxy[c]
      BY <1>1, <2>1 DEF BackInTurn, Quiet
    <3>2. CASE proxy[c].at = "await_reply"
      BY <1>1, <2>1, <2>3, <2>4, <3>1, <3>2 DEF BackInTurn
    <3>3. CASE proxy[c].at # "await_reply"
      BY <3>1, <3>3 DEF BackInTurn
    <3>. QED
      BY <3>2, <3>3
  <2>. QED
    BY <1>1, <2>2, <2>4, ServerTurn
<1>3. CASE ~CanRead(back[c], "server")
  <2>. DEFINE s == [server[c] EXCEPT !.at = "disconnect"]
  <2>1. /\ server' = [server EXCEPT ![c] = s] /\ back' = [back EXCEPT ![c] = back[c]]
        /\ s.at = "disconnect"
    BY <1>1, <1>3 DEF ServerReceive, SystemTypeOK, ServerStates
  <2>. HIDE DEF s
  <2>. QED
    BY <1>1, <2>1, ServerIdleTurn DEF Kept
<1>. QED
  BY <1>2, <1>3

\* The echo is of the message the server has in hand.
LEMMA ServerSendTurn ==
  ASSUME InTurn, SystemTypeOK, NEW c \in Conns, ServerSend(c)
  PROVE  InTurn'
<1>. DEFINE echo == Answering(Hello, server[c].heard.n)
<1>1. PICK o \in WriteOutcomes(back[c], "server", <<echo>>) :
        IF o.result = "killed"
        THEN ServerDie
        ELSE /\ back' = [back EXCEPT ![c] = o.link]
             /\ server' = [server EXCEPT ![c] = [NoServer EXCEPT
                  !.at = IF o.result = "sent" THEN "receive" ELSE "disconnect"]]
             /\ UNCHANGED <<vars, front, running, client, proxy>>
  BY DEF ServerSend
<1>2. /\ back[c] \in LinkType(Payloads, Replies) /\ server[c] \in ServerStates
      /\ server[c].at = "send" /\ BackInTurn(c)
  BY DEF ServerSend, SystemTypeOK, InTurn
<1>3. echo.about = server[c].heard.n /\ echo \in Replies
  BY <1>2, TextTypes DEF Answering, ServerStates, Payloads, Replies
<1>. HIDE DEF echo
<1>4. Queued(back[c], o, "server", <<echo>>)
  BY <1>2, <1>3, ServerWriteQueues
<1>5. CASE o.result = "killed"
  BY <1>1, <1>5, ServerDieTurn
<1>6. CASE o.result # "killed"
  <2>1. PICK step \in {"receive", "disconnect"} :
          server' = [server EXCEPT ![c] = [NoServer EXCEPT !.at = step]]
    BY <1>1, <1>6
  <2>. DEFINE s == [NoServer EXCEPT !.at = step]
  <2>2. s.at # "send"
    BY DEF NoServer
  <2>. HIDE DEF s
  <2>3. ASSUME back'[c] = o.link, server'[c] = s, UNCHANGED proxy
        PROVE  BackInTurn(c)'
    <3>1. ~Quiet(c)'
      BY <1>2, <2>3 DEF BackInTurn, Quiet
    <3>2. CASE proxy[c].at = "await_reply"
      <4>1. /\ back[c].in["server"] = <<>> /\ back[c].in["client"] = <<>>
            /\ echo.about = Number(proxy[c].said)
        BY <1>2, <1>3, <3>2 DEF BackInTurn
      <4>2. /\ o.link.in["server"] = <<>>
            /\ \/ o.link.in["client"] = <<>>
               \/ /\ Tail(o.link.in["client"]) = <<>>
                  /\ Head(o.link.in["client"]) = echo
        BY <1>4, <4>1, Alone DEF Queued, Peer
      <4>. QED
        BY <2>2, <2>3, <3>1, <4>1, <4>2 DEF BackInTurn
    <3>3. CASE proxy[c].at # "await_reply"
      BY <2>3, <3>1, <3>3 DEF BackInTurn
    <3>. QED
      BY <3>2, <3>3
  <2>4. server' = [server EXCEPT ![c] = s]
    BY <2>1 DEF s
  <2>. QED
    BY <1>1, <1>6, <2>3, <2>4, ServerTurn
<1>. QED
  BY <1>5, <1>6

LEMMA ServerThreadTurn ==
  ASSUME InTurn, SystemTypeOK, NEW c \in Conns, ServerThread(c)
  PROVE  InTurn'
<1>1. back[c] \in LinkType(Payloads, Replies)
  BY DEF SystemTypeOK
<1>2. CASE ServerDisconnect(c)
  <2>1. PICK o \in CloseOutcomes(back[c], "server") :
          IF o.result = "killed"
          THEN ServerDie
          ELSE /\ back' = [back EXCEPT ![c] = o.link]
               /\ server' = [server EXCEPT ![c] = NoServer]
               /\ UNCHANGED <<vars, front, running, client, proxy>>
    BY <1>2 DEF ServerDisconnect
  <2>2. /\ Kept(o.link.in["server"], back[c].in["server"])
        /\ Kept(o.link.in["client"], back[c].in["client"])
    BY <1>1, CloseQueues DEF Ends, Kept
  <2>3. NoServer.at # "send"
    BY DEF NoServer
  <2>. QED
    BY <2>1, <2>2, <2>3, ServerDieTurn, ServerIdleTurn
<1>3. CASE ServerEndCloses(c)
  <2>1. /\ back' = [back EXCEPT ![c] = Closed(back[c], "server")]
        /\ server' = [server EXCEPT ![c] = server[c]]
        /\ UNCHANGED <<front, client, proxy>>
    BY <1>3 DEF ServerEndCloses, SystemTypeOK
  <2>2. /\ Kept(Closed(back[c], "server").in["server"], back[c].in["server"])
        /\ Kept(Closed(back[c], "server").in["client"], back[c].in["client"])
    BY <1>1, ClosedQueues DEF Ends, Kept
  <2>. QED
    BY <2>1, <2>2, ServerIdleTurn
<1>. QED
  BY <1>2, <1>3, ServerReceiveTurn, ServerSendTurn DEF ServerThread

-----------------------------------------------------------------------------
(* proxy.cpp *)

\* A step of the proxy's thread of session c, on any of its connections.
LEMMA ProxyTurn ==
  ASSUME InTurn, SystemTypeOK, NEW c \in Conns, NEW l, NEW k, NEW s,
         front' = [front EXCEPT ![c] = l], back' = [back EXCEPT ![c] = k],
         proxy' = [proxy EXCEPT ![c] = s],
         UNCHANGED <<client, server>>,
         front'[c] = l /\ back'[c] = k /\ proxy'[c] = s => FrontInTurn(c)' /\ BackInTurn(c)'
  PROVE  InTurn'
<1>1. /\ front'[c] = l /\ back'[c] = k /\ proxy'[c] = s
      /\ \A d \in Conns \ {c} :
           front'[d] = front[d] /\ back'[d] = back[d] /\ proxy'[d] = proxy[d]
  BY DEF SystemTypeOK
<1>. QED
  BY <1>1, OneTurn

\* It goes on to something that is no work for the client.
LEMMA AsideTurn ==
  ASSUME InTurn, SystemTypeOK, NEW c \in Conns, NEW l, NEW k, NEW step \in Aside,
         front' = [front EXCEPT ![c] = l], back' = [back EXCEPT ![c] = k],
         ProxyGoto(c, step),
         UNCHANGED <<client, server>>,
         Kept(l.in["server"], front[c].in["server"]),
         Kept(l.in["client"], front[c].in["client"]),
         Kept(k.in["server"], back[c].in["server"]),
         Kept(k.in["client"], back[c].in["client"])
  PROVE  InTurn'
<1>. DEFINE s == [proxy[c] EXCEPT !.at = step]
<1>1. proxy' = [proxy EXCEPT ![c] = s] /\ s.at = step
  BY DEF ProxyGoto, SystemTypeOK, ProxyStates
<1>. HIDE DEF s
<1>2. ASSUME front'[c] = l, back'[c] = k, proxy'[c] = s
      PROVE  FrontInTurn(c)' /\ BackInTurn(c)'
  BY <1>1, <1>2, AsideFree, FrontKept, BackKept DEF InTurn
<1>. QED
  BY <1>1, <1>2, ProxyTurn

\* It goes on to another step of its work on the same text.
LEMMA WorkTurn ==
  ASSUME InTurn, SystemTypeOK, NEW c \in Conns, NEW s,
         proxy' = [proxy EXCEPT ![c] = s],
         UNCHANGED <<front, back, client, server>>,
         Working(c),
         proxy'[c] = s => /\ Working(c)' /\ WorksOn(c)' = WorksOn(c)
                          /\ Quiet(c)' => Quiet(c)
                          /\ s.at # "await_reply"
  PROVE  InTurn'
<1>1. front' = [front EXCEPT ![c] = front[c]] /\ back' = [back EXCEPT ![c] = back[c]]
  BY DEF SystemTypeOK
<1>2. ASSUME proxy'[c] = s
      PROVE  FrontInTurn(c)' /\ BackInTurn(c)'
  BY <1>2, FrontKept, BackKept DEF InTurn, Kept
<1>. QED
  BY <1>1, <1>2, ProxyTurn

LEMMA TellingFields ==
  ASSUME NEW text, NEW m, NEW sent, NEW failed
  PROVE  /\ Telling(text, m, sent, failed).at = "tell"
         /\ Telling(text, m, sent, failed).out.about = Number(m)
         /\ Telling(text, m, sent, failed).sent = sent
         /\ Telling(text, m, sent, failed).failed = failed
  BY DEF Telling, NoProxy, Answering

\* It goes on to tell its client about the text it works on.
LEMMA TellTurn ==
  ASSUME InTurn, SystemTypeOK, NEW c \in Conns, NEW s,
         proxy' = [proxy EXCEPT ![c] = s],
         s.at = "tell", s.out.about = Number(proxy[c].said),
         UNCHANGED <<front, back, client, server>>,
         Working(c), proxy[c].at # "tell",
         "receive" \in {s.sent, s.failed} => Quiet(c)
  PROVE  InTurn'
<1>1. ASSUME proxy'[c] = s
      PROVE  /\ Working(c)' /\ WorksOn(c)' = WorksOn(c)
             /\ Quiet(c)' => Quiet(c)
             /\ s.at # "await_reply"
  BY <1>1 DEF Working, WorksOn, Quiet
<1>. QED
  BY <1>1, WorkTurn

\* It goes on to ask, or to act on the answer.
LEMMA AskTurn ==
  ASSUME InTurn, SystemTypeOK, NEW c \in Conns, NEW s,
         proxy' = [proxy EXCEPT ![c] = s],
         UNCHANGED <<front, back, client, server>>,
         s.said = proxy[c].said,
         \/ proxy[c].at = "forward_login" /\ s.at = "await_token"
         \/ /\ proxy[c].at \in {"verify", "await_verdict"}
            /\ s.at \in {"await_verdict", "forward"}
  PROVE  InTurn'
<1>1. Working(c)
  BY DEF Working
<1>2. ASSUME proxy'[c] = s
      PROVE  /\ Working(c)' /\ WorksOn(c)' = WorksOn(c)
             /\ Quiet(c)' => Quiet(c)
             /\ s.at # "await_reply"
  BY <1>2 DEF Working, WorksOn, Quiet
<1>. QED
  BY <1>1, <1>2, WorkTurn

\* The text the thread takes is the one outstanding.
LEMMA ReceiveTextTurn ==
  ASSUME InTurn, SystemTypeOK, NEW c \in Conns, ReceiveText(c)
  PROVE  InTurn'
<1>1. /\ UNCHANGED <<back, client, server>> /\ FrontInTurn(c) /\ BackInTurn(c)
      /\ front[c] \in LinkType(ClientTexts, Replies)
      /\ back' = [back EXCEPT ![c] = back[c]]
      /\ proxy[c].at \in {"receive_login", "receive"}
      /\ proxy[c].at = "receive" => Quiet(c)
  BY DEF ReceiveText, SystemTypeOK, InTurn, Quiet
<1>2. CASE CanRead(front[c], "server")
  <2>. DEFINE l == AfterRead(front[c], "server")
              m == Head(front[c].in["server"])
              s == Heard(c, m)
  <2>1. /\ front[c].in["server"] # <<>>
        /\ l.in["server"] = Tail(front[c].in["server"])
        /\ l.in["client"] = front[c].in["client"]
    BY <1>1, <1>2 DEF CanRead, AfterRead, LinkType
  <2>2. front' = [front EXCEPT ![c] = l] /\ proxy' = [proxy EXCEPT ![c] = s]
    <3>1. CASE AtEnd(front[c], "server")
      BY <1>2, <3>1 DEF CanRead, AtEnd
    <3>2. CASE /\ front' = [front EXCEPT ![c] = AfterRead(@, "server")]
               /\ proxy' = [proxy EXCEPT ![c] = s]
      BY <3>2 DEF SystemTypeOK
    <3>. QED
      BY <3>1, <3>2 DEF ReceiveText
  <2>3. /\ s.at = "tell" => s.out.about = Number(m)
        /\ s.at # "tell" => s.said = m
        /\ s.at \in {"forward_login", "verify", "tell"}
        /\ s.at = "verify" => proxy[c].at = "receive"
        /\ s.at = "tell" /\ "receive" \in {s.sent, s.failed} => proxy[c].at = "receive"
    <3>. HIDE DEF m
    <3>1. CASE s = [NoProxy EXCEPT !.at = "forward_login", !.said = m]
      BY <3>1 DEF NoProxy
    <3>2. CASE /\ s = [NoProxy EXCEPT !.at = "verify", !.said = m]
               /\ proxy[c].at = "receive"
      BY <3>2 DEF NoProxy
    <3>3. CASE \E e : s = Telling(e, m, "disconnect", "disconnect")
      <4>1. PICK e : s = Telling(e, m, "disconnect", "disconnect")
        BY <3>3
      <4>. HIDE DEF s
      <4>. QED
        BY <4>1, TellingFields
    <3>4. CASE (\E e : s = Telling(e, m, "receive", "receive")) /\ proxy[c].at = "receive"
      <4>1. PICK e : s = Telling(e, m, "receive", "receive")
        BY <3>4
      <4>. HIDE DEF s
      <4>. QED
        BY <3>4, <4>1, TellingFields
    <3>. QED
      BY <1>1, <3>1, <3>2, <3>3, <3>4 DEF Heard, TellingError
  <2>. HIDE DEF l, s
  <2>4. ASSUME front'[c] = l, proxy'[c] = s, back'[c] = back[c]
        PROVE  FrontInTurn(c)' /\ BackInTurn(c)'
    <3>1. /\ client[c].at \notin {"idle", "leave"} =>
               /\ Waiting(c) /\ l.in["client"] = <<>> /\ l.in["server"] = <<>>
               /\ Number(m) = client[c].count
      BY <1>1, <2>1 DEF FrontInTurn
    <3>2. Working(c)' /\ WorksOn(c)' = Number(m)
      BY <2>3, <2>4 DEF Working, WorksOn
    <3>3. FrontInTurn(c)'
      BY <1>1, <2>4, <3>1, <3>2 DEF FrontInTurn, Waiting
    <3>4. Quiet(c)' => Quiet(c)
      BY <1>1, <2>3, <2>4 DEF Quiet
    <3>5. BackInTurn(c)'
      BY <1>1, <2>3, <2>4, <3>4, BackKept DEF Kept
    <3>. QED
      BY <3>3, <3>5
  <2>. QED
    BY <1>1, <2>2, <2>4, ProxyTurn
<1>3. CASE ~CanRead(front[c], "server")
  <2>1. front' = [front EXCEPT ![c] = front[c]] /\ ProxyGoto(c, "disconnect")
    BY <1>3 DEF ReceiveText, SystemTypeOK
  <2>2. "disconnect" \in Aside
    BY DEF Aside, ProxySteps
  <2>. QED
    BY <1>1, <2>1, <2>2, AsideTurn DEF Kept
<1>. QED
  BY <1>2, <1>3

LEMMA ForwardLoginTurn ==
  ASSUME InTurn, SystemTypeOK, NEW c \in Conns, ForwardLogin(c)
  PROVE  InTurn'
<1>. DEFINE s == [proxy[c] EXCEPT !.at = "await_token"]
<1>1. /\ proxy[c].at = "forward_login" /\ UNCHANGED <<front, back, client, server>>
      /\ proxy' = [proxy EXCEPT ![c] = s]
      /\ s.at = "await_token" /\ s.said = proxy[c].said
  BY DEF ForwardLogin, ProxyGoto, SystemTypeOK, ProxyStates
<1>. HIDE DEF s
<1>. QED
  BY <1>1, AskTurn

LEMMA VerifyTokenTurn ==
  ASSUME InTurn, SystemTypeOK, NEW c \in Conns, VerifyToken(c)
  PROVE  InTurn'
<1>1. proxy[c].at = "verify" /\ Working(c) /\ Quiet(c)
  BY DEF VerifyToken, Working, Quiet
<1>2. CASE ProxyGoto(c, "await_verdict") /\ UNCHANGED <<front, back, running, client, server>>
  <2>. DEFINE s == [proxy[c] EXCEPT !.at = "await_verdict"]
  <2>1. /\ proxy' = [proxy EXCEPT ![c] = s]
        /\ s.at = "await_verdict" /\ s.said = proxy[c].said
    BY <1>2 DEF ProxyGoto, SystemTypeOK, ProxyStates
  <2>. HIDE DEF s
  <2>. QED
    BY <1>1, <1>2, <2>1, AskTurn
<1>3. CASE ProxyDie
  BY <1>3, ProxyDieTurn
<1>4. CASE /\ proxy' = [proxy EXCEPT ![c] =
                          TellingError("Invalid token", proxy[c].said, "receive")]
           /\ UNCHANGED <<vars, front, back, running, client, server>>
  <2>. DEFINE s == TellingError("Invalid token", proxy[c].said, "receive")
  <2>1. s.at = "tell" /\ s.out.about = Number(proxy[c].said)
    BY DEF TellingError, Telling, NoProxy, Answering
  <2>2. proxy' = [proxy EXCEPT ![c] = s]
    BY <1>4
  <2>. HIDE DEF s
  <2>. QED
    BY <1>1, <1>4, <2>1, <2>2, TellTurn
<1>. QED
  BY <1>2, <1>3, <1>4 DEF VerifyToken

LEMMA ReceiveTokenTurn ==
  ASSUME InTurn, SystemTypeOK, NEW c \in Conns, ReceiveToken(c)
  PROVE  InTurn'
<1>1. /\ proxy[c].at = "await_token" /\ Working(c)
      /\ UNCHANGED <<front, back, client, server>>
  BY DEF ReceiveToken, Working
<1>2. PICK text, sent :
        /\ proxy' = [proxy EXCEPT ![c] = Telling(text, proxy[c].said, sent, "disconnect")]
        /\ sent \in {"connect_server", "disconnect"}
  <2>1. CASE proxy' = [proxy EXCEPT ![c] =
                         Telling(held'[c], @.said, "connect_server", "disconnect")]
    BY <2>1 DEF SystemTypeOK
  <2>2. CASE proxy' = [proxy EXCEPT ![c] =
                         TellingError("Authentication failed", @.said, "disconnect")]
    BY <2>2 DEF TellingError, SystemTypeOK
  <2>. QED
    BY <2>1, <2>2 DEF ReceiveToken
<1>. DEFINE s == Telling(text, proxy[c].said, sent, "disconnect")
<1>3. /\ s.at = "tell" /\ s.out.about = Number(proxy[c].said)
      /\ s.sent = sent /\ s.failed = "disconnect"
  BY TellingFields
<1>4. proxy' = [proxy EXCEPT ![c] = s]
  BY <1>2
<1>. HIDE DEF s
<1>. QED
  BY <1>1, <1>2, <1>3, <1>4, TellTurn

LEMMA ReceiveVerdictTurn ==
  ASSUME InTurn, SystemTypeOK, NEW c \in Conns, ReceiveVerdict(c)
  PROVE  InTurn'
<1>1. /\ proxy[c].at = "await_verdict" /\ Working(c) /\ Quiet(c)
      /\ UNCHANGED <<front, back, client, server>>
  BY DEF ReceiveVerdict, Working, Quiet
<1>. DEFINE text == Head(link[c].in["client"])
            pass == [proxy[c] EXCEPT !.at = "forward", !.verdict = text]
            deny == TellingError("Invalid token", proxy[c].said, "receive")
            told == [deny EXCEPT !.verdict = text]
<1>2. \/ proxy' = [proxy EXCEPT ![c] = pass]
      \/ proxy' = [proxy EXCEPT ![c] = deny]
      \/ proxy' = [proxy EXCEPT ![c] = told]
  BY DEF ReceiveVerdict, SystemTypeOK
<1>3. pass.at = "forward" /\ pass.said = proxy[c].said
  BY DEF SystemTypeOK, ProxyStates
<1>4. deny.at = "tell" /\ deny.out.about = Number(proxy[c].said)
  BY DEF TellingError, Telling, NoProxy, Answering
<1>5. told.at = "tell" /\ told.out.about = Number(proxy[c].said)
  BY DEF TellingError, Telling, NoProxy, Answering
<1>. HIDE DEF pass, deny, told
<1>. QED
  BY <1>1, <1>2, <1>3, <1>4, <1>5, AskTurn, TellTurn

\* What the client is told is about the text it waits to hear of.
LEMMA TellClientTurn ==
  ASSUME InTurn, SystemIInv, NEW c \in Conns, TellClient(c)
  PROVE  InTurn'
<1>1. /\ SystemTypeOK /\ proxy[c].at = "tell" /\ proxy[c].out \in Replies
      /\ {proxy[c].sent, proxy[c].failed} \subseteq Onward
      /\ front[c] \in LinkType(ClientTexts, Replies)
      /\ FrontInTurn(c) /\ BackInTurn(c) /\ Working(c) /\ WorksOn(c) = proxy[c].out.about
  BY DEF TellClient, SystemIInv, SystemTypeOK, ProxyEarned, InTurn, Working, WorksOn
<1>2. PICK o \in WriteOutcomes(front[c], "server", <<proxy[c].out>>) :
        IF o.result = "killed"
        THEN ProxyDie
        ELSE /\ front' = [front EXCEPT ![c] = o.link]
             /\ proxy' = [proxy EXCEPT ![c] =
                  [NoProxy EXCEPT !.at = IF o.result = "sent" THEN proxy[c].sent
                                                              ELSE proxy[c].failed]]
             /\ UNCHANGED <<vars, back, running, client, server>>
  BY DEF TellClient
<1>3. CASE o.result = "killed"
  BY <1>1, <1>2, <1>3, ProxyDieTurn
<1>4. CASE o.result # "killed"
  <2>. DEFINE next == IF o.result = "sent" THEN proxy[c].sent ELSE proxy[c].failed
              s == [NoProxy EXCEPT !.at = next]
  <2>1. /\ next \in {proxy[c].sent, proxy[c].failed} /\ next \in Onward
        /\ proxy' = [proxy EXCEPT ![c] = s]
        /\ UNCHANGED <<client, server>>
        /\ back' = [back EXCEPT ![c] = back[c]]
    BY <1>1, <1>2, <1>4 DEF SystemTypeOK
  <2>. HIDE DEF next
  <2>2. s.at = next
    BY DEF NoProxy
  <2>. HIDE DEF s
  <2>3. Queued(front[c], o, "server", <<proxy[c].out>>)
    <3>1. <<proxy[c].out>> \in Seq(Replies)
      BY <1>1
    <3>. QED
      BY <1>1, <3>1, ServerWriteQueues
  <2>4. ASSUME front'[c] = o.link, back'[c] = back[c], proxy'[c] = s
        PROVE  FrontInTurn(c)' /\ BackInTurn(c)'
    <3>1. ~Working(c)' /\ (Quiet(c)' => Quiet(c)) /\ s.at # "await_reply"
      BY <1>1, <2>1, <2>2, <2>4 DEF Working, Quiet, Onward
    <3>2. BackInTurn(c)'
      BY <1>1, <2>1, <2>4, <3>1, BackKept DEF Kept
    <3>3. ASSUME client[c].at \notin {"idle", "leave"}
          PROVE  /\ Waiting(c) /\ proxy[c].out.about = client[c].count
                 /\ o.link.in["server"] = <<>>
                 /\ \/ o.link.in["client"] = <<>>
                    \/ /\ Tail(o.link.in["client"]) = <<>>
                       /\ Head(o.link.in["client"]) = proxy[c].out
      <4>1. /\ Waiting(c) /\ proxy[c].out.about = client[c].count
            /\ front[c].in["server"] = <<>> /\ front[c].in["client"] = <<>>
        BY <1>1, <3>3 DEF FrontInTurn
      <4>2. /\ o.link.in["server"] = <<>>
            /\ o.link.in["client"] \in {<<>>, <<>> \o <<proxy[c].out>>}
        BY <2>3, <4>1 DEF Queued, Peer
      <4>3. PICK m : m = proxy[c].out
        OBVIOUS
      <4>4. <<>> \o <<m>> = <<m>> /\ Head(<<m>>) = m /\ Tail(<<m>>) = <<>>
        BY Alone
      <4>5. o.link.in["client"] \in {<<>>, <<m>>}
        BY <4>2, <4>3, <4>4
      <4>. QED
        BY <4>1, <4>2, <4>3, <4>4, <4>5
    <3>4. FrontInTurn(c)'
      BY <2>1, <2>4, <3>1, <3>3 DEF FrontInTurn, Waiting
    <3>. QED
      BY <3>2, <3>4
  <2>. QED
    BY <1>1, <1>2, <1>4, <2>1, <2>4, ProxyTurn
<1>. QED
  BY <1>3, <1>4

\* The connection to the server starts empty, with a thread that has nothing to send.
LEMMA ConnectServerTurn ==
  ASSUME InTurn, SystemTypeOK, NEW c \in Conns, ConnectServer(c)
  PROVE  InTurn'
<1>1. /\ UNCHANGED <<front, client>> /\ proxy[c].at = "connect_server"
      /\ proxy[c] \in ProxyStates /\ server[c] \in ServerStates
  BY DEF ConnectServer, SystemTypeOK
<1>2. CASE /\ back' = [back EXCEPT ![c] = NewLink]
           /\ server' = [server EXCEPT ![c].at = "receive"]
           /\ ProxyGoto(c, "receive")
  <2>1. /\ back'[c] = NewLink /\ server'[c].at = "receive" /\ proxy'[c].at = "receive"
        /\ \A d \in Conns \ {c} :
             back'[d] = back[d] /\ server'[d] = server[d] /\ proxy'[d] = proxy[d]
    BY <1>2 DEF SystemTypeOK, ProxyGoto, ProxyStates, ServerStates
  <2>2. FrontInTurn(c)'
    BY <1>1, <2>1, FrontKept DEF InTurn, Kept, Working
  <2>3. BackInTurn(c)'
    BY <2>1 DEF BackInTurn, NewLink
  <2>. QED
    BY <1>1, <2>1, <2>2, <2>3, OneTurn
<1>3. CASE ProxyGoto(c, "disconnect") /\ UNCHANGED <<back, server>>
  <2>1. /\ front' = [front EXCEPT ![c] = front[c]] /\ back' = [back EXCEPT ![c] = back[c]]
        /\ "disconnect" \in Aside
    BY <1>1, <1>3 DEF SystemTypeOK, Aside, ProxySteps
  <2>. QED
    BY <1>1, <1>3, <2>1, AsideTurn DEF Kept
<1>. QED
  BY <1>2, <1>3 DEF ConnectServer

\* A message is forwarded when nothing is on its way to the server or back.
LEMMA ForwardMessageTurn ==
  ASSUME InTurn, SystemIInv, NEW c \in Conns, ForwardMessage(c)
  PROVE  InTurn'
<1>. DEFINE m == proxy[c].said
            text == Payload(m.body, m.n)
            refusal == TellingError("Server unavailable", m, "disconnect")
            outcomes == IF m.body = "empty" THEN {Outcome("failed", back[c])}
                        ELSE WriteOutcomes(back[c], "client", <<text>>)
<1>1. /\ SystemTypeOK /\ proxy[c] \in ProxyStates /\ proxy[c].at = "forward"
      /\ m.op = "SAY" /\ m \in ClientTexts /\ Number(m) = m.n
      /\ back[c] \in LinkType(Payloads, Replies)
      /\ Working(c) /\ Quiet(c)
  BY DEF ForwardMessage, SystemIInv, SystemTypeOK, ProxyEarned, Working, Quiet, Number
<1>2. /\ back[c].in["client"] = <<>> /\ back[c].in["server"] = <<>> /\ server[c].at # "send"
  BY <1>1 DEF InTurn, BackInTurn
<1>3. PICK o \in outcomes :
        IF o.result = "killed"
        THEN ProxyDie
        ELSE /\ back' = [back EXCEPT ![c] = o.link]
             /\ proxy' = [proxy EXCEPT ![c] =
                  IF o.result = "sent" THEN [@ EXCEPT !.at = "await_reply"] ELSE refusal]
             /\ UNCHANGED <<vars, front, running, client, server>>
  BY DEF ForwardMessage
<1>4. text \in Payloads /\ text.n = Number(m)
  BY <1>1, ClientTextKinds DEF Payload
<1>5. /\ o.link.in["client"] = <<>>
      /\ \/ o.link.in["server"] = <<>>
         \/ /\ Tail(o.link.in["server"]) = <<>>
            /\ Head(o.link.in["server"]) = text
  <2>. HIDE DEF text
  <2>1. CASE m.body = "empty"
    BY <1>2, <2>1 DEF Outcome
  <2>2. CASE m.body # "empty"
    <3>1. <<text>> \in Seq(Payloads)
      BY <1>4
    <3>2. Queued(back[c], o, "client", <<text>>)
      BY <1>1, <2>2, <3>1, ClientWriteQueues
    <3>. QED
      BY <1>2, <3>2, Alone DEF Queued, Peer
  <2>. QED
    BY <2>1, <2>2
<1>6. front' = [front EXCEPT ![c] = front[c]] \/ o.result = "killed"
  BY <1>1, <1>3 DEF SystemTypeOK
<1>7. CASE o.result = "killed"
  BY <1>1, <1>3, <1>7, ProxyDieTurn
<1>8. CASE o.result = "sent"
  <2>. DEFINE s == [proxy[c] EXCEPT !.at = "await_reply"]
  <2>1. s.at = "await_reply" /\ s.said = m
    BY <1>1 DEF ProxyStates
  <2>2. /\ proxy' = [proxy EXCEPT ![c] = s] /\ UNCHANGED <<client, server>>
        /\ front' = [front EXCEPT ![c] = front[c]] /\ back' = [back EXCEPT ![c] = o.link]
    BY <1>1, <1>3, <1>6, <1>8 DEF SystemTypeOK
  <2>. HIDE DEF s
  <2>3. ASSUME front'[c] = front[c], back'[c] = o.link, proxy'[c] = s
        PROVE  FrontInTurn(c)' /\ BackInTurn(c)'
    <3>1. Working(c)' /\ WorksOn(c)' = WorksOn(c) /\ ~Quiet(c)'
      BY <1>1, <2>1, <2>3 DEF Working, WorksOn, Quiet
    <3>2. FrontInTurn(c)'
      BY <1>1, <2>2, <2>3, <3>1, FrontKept DEF InTurn, Kept
    <3>. HIDE DEF text
    <3>3. BackInTurn(c)'
      BY <1>2, <1>4, <1>5, <2>1, <2>2, <2>3, <3>1 DEF BackInTurn
    <3>. QED
      BY <3>2, <3>3
  <2>. QED
    BY <1>1, <2>2, <2>3, ProxyTurn
<1>9. CASE o.result \notin {"killed", "sent"}
  <2>1. /\ refusal.at = "tell" /\ refusal.out.about = Number(m)
        /\ refusal.sent = "disconnect" /\ refusal.failed = "disconnect"
    BY DEF TellingError, Telling, NoProxy, Answering
  <2>2. /\ proxy' = [proxy EXCEPT ![c] = refusal] /\ UNCHANGED <<client, server>>
        /\ front' = [front EXCEPT ![c] = front[c]] /\ back' = [back EXCEPT ![c] = o.link]
    BY <1>3, <1>6, <1>9
  <2>. HIDE DEF refusal
  <2>3. ASSUME front'[c] = front[c], back'[c] = o.link, proxy'[c] = refusal
        PROVE  FrontInTurn(c)' /\ BackInTurn(c)'
    <3>1. Working(c)' /\ WorksOn(c)' = WorksOn(c) /\ ~Quiet(c)'
      BY <1>1, <2>1, <2>3 DEF Working, WorksOn, Quiet
    <3>2. FrontInTurn(c)'
      BY <1>1, <2>2, <2>3, <3>1, FrontKept DEF InTurn, Kept
    <3>3. BackInTurn(c)'
      BY <2>1, <2>3, <3>1 DEF BackInTurn
    <3>. QED
      BY <3>2, <3>3
  <2>. QED
    BY <1>1, <2>2, <2>3, ProxyTurn
<1>. QED
  BY <1>7, <1>8, <1>9

\* The echo the thread takes is that of the message it has forwarded.
LEMMA ReceiveReplyTurn ==
  ASSUME InTurn, SystemTypeOK, NEW c \in Conns, ReceiveReply(c)
  PROVE  InTurn'
<1>1. /\ UNCHANGED <<front, client, server>> /\ BackInTurn(c)
      /\ front' = [front EXCEPT ![c] = front[c]]
      /\ proxy[c].at = "await_reply"
      /\ back[c] \in LinkType(Payloads, Replies)
      /\ Working(c) /\ WorksOn(c) = Number(proxy[c].said)
  BY DEF ReceiveReply, SystemTypeOK, InTurn, Working, WorksOn
<1>2. CASE CanRead(back[c], "client")
  <2>. DEFINE l == AfterRead(back[c], "client")
              reply == Head(back[c].in["client"])
              s == [NoProxy EXCEPT !.at = "tell", !.out = reply,
                                   !.sent = "receive", !.failed = "disconnect"]
  <2>1. /\ back[c].in["client"] # <<>>
        /\ l.in["client"] = Tail(back[c].in["client"])
        /\ l.in["server"] = back[c].in["server"]
    BY <1>1, <1>2 DEF CanRead, AfterRead, LinkType
  <2>2. /\ l.in["client"] = <<>> /\ l.in["server"] = <<>> /\ server[c].at # "send"
        /\ reply.about = Number(proxy[c].said)
    BY <1>1, <2>1 DEF BackInTurn
  <2>. HIDE DEF reply
  <2>3. /\ s.at = "tell" /\ s.out = reply
    BY DEF NoProxy
  <2>4. back' = [back EXCEPT ![c] = l] /\ proxy' = [proxy EXCEPT ![c] = s]
    <3>1. CASE AtEnd(back[c], "client")
      BY <1>2, <3>1 DEF CanRead, AtEnd
    <3>2. CASE /\ back' = [back EXCEPT ![c] = AfterRead(@, "client")]
               /\ proxy' = [proxy EXCEPT ![c] = s]
      BY <3>2 DEF SystemTypeOK
    <3>. QED
      BY <3>1, <3>2 DEF ReceiveReply, reply
  <2>. HIDE DEF l, s
  <2>5. ASSUME front'[c] = front[c], back'[c] = l, proxy'[c] = s
        PROVE  FrontInTurn(c)' /\ BackInTurn(c)'
    <3>1. Working(c)' /\ WorksOn(c)' = WorksOn(c) /\ proxy'[c].at # "await_reply"
      BY <1>1, <2>2, <2>3, <2>5 DEF Working, WorksOn
    <3>2. FrontInTurn(c)'
      BY <1>1, <2>5, <3>1, FrontKept DEF InTurn, Kept
    <3>3. BackInTurn(c)'
      BY <1>1, <2>2, <2>5, <3>1 DEF BackInTurn
    <3>. QED
      BY <3>2, <3>3
  <2>. QED
    BY <1>1, <2>4, <2>5, ProxyTurn
<1>3. CASE ~CanRead(back[c], "client")
  <2>. DEFINE s == TellingError("Server unavailable", proxy[c].said, "disconnect")
  <2>1. /\ s.at = "tell" /\ s.out.about = Number(proxy[c].said)
        /\ s.sent = "disconnect" /\ s.failed = "disconnect"
    BY DEF TellingError, Telling, NoProxy, Answering
  <2>2. proxy' = [proxy EXCEPT ![c] = s] /\ UNCHANGED back
    BY <1>3 DEF ReceiveReply, SystemTypeOK
  <2>. HIDE DEF s
  <2>. QED
    BY <1>1, <2>1, <2>2, TellTurn
<1>. QED
  BY <1>2, <1>3

\* What closes the session puts nothing on its connections.
LEMMA ProxyClosesTurn ==
  ASSUME InTurn, SystemTypeOK, NEW c \in Conns,
         \/ ConnectAuth(c) \/ DisconnectClient(c) \/ DropServer(c) \/ DropAuth(c)
         \/ ProxyEndCloses(c)
  PROVE  InTurn'
<1>1. /\ front[c] \in LinkType(ClientTexts, Replies) /\ back[c] \in LinkType(Payloads, Replies)
      /\ {"receive_login", "disconnect", "drop_server", "drop_auth", "idle"} \subseteq Aside
      /\ \A q : Kept(q, q)
  BY DEF SystemTypeOK, Aside, ProxySteps, Kept
<1>2. CASE ProxyDie
  BY <1>2, ProxyDieTurn
<1>3. CASE /\ \E step \in Aside : ProxyGoto(c, step)
           /\ UNCHANGED <<front, back, client, server>>
  <2>1. front' = [front EXCEPT ![c] = front[c]] /\ back' = [back EXCEPT ![c] = back[c]]
    BY <1>3 DEF SystemTypeOK
  <2>. QED
    BY <1>1, <1>3, <2>1, AsideTurn
<1>4. CASE \E o \in CloseOutcomes(front[c], "server") :
             /\ front' = [front EXCEPT ![c] = o.link]
             /\ ProxyGoto(c, "drop_server")
             /\ UNCHANGED <<vars, back, running, client, server>>
  <2>1. PICK o \in CloseOutcomes(front[c], "server") :
             /\ front' = [front EXCEPT ![c] = o.link]
             /\ ProxyGoto(c, "drop_server")
             /\ UNCHANGED <<vars, back, running, client, server>>
    BY <1>4
  <2>2. /\ Kept(o.link.in["server"], front[c].in["server"])
        /\ Kept(o.link.in["client"], front[c].in["client"])
    BY <1>1, CloseQueues DEF Ends, Kept
  <2>3. back' = [back EXCEPT ![c] = back[c]]
    BY <2>1 DEF SystemTypeOK
  <2>. QED
    BY <1>1, <2>1, <2>2, <2>3, AsideTurn
<1>5. CASE \E o \in CloseOutcomes(back[c], "client") :
             /\ back' = [back EXCEPT ![c] = o.link]
             /\ ProxyGoto(c, "drop_auth")
             /\ UNCHANGED <<vars, front, running, client, server>>
  <2>1. PICK o \in CloseOutcomes(back[c], "client") :
             /\ back' = [back EXCEPT ![c] = o.link]
             /\ ProxyGoto(c, "drop_auth")
             /\ UNCHANGED <<vars, front, running, client, server>>
    BY <1>5
  <2>2. /\ Kept(o.link.in["server"], back[c].in["server"])
        /\ Kept(o.link.in["client"], back[c].in["client"])
    BY <1>1, CloseQueues DEF Ends, Kept
  <2>3. front' = [front EXCEPT ![c] = front[c]]
    BY <2>1 DEF SystemTypeOK
  <2>. QED
    BY <1>1, <2>1, <2>2, <2>3, AsideTurn
<1>6. CASE ProxyEndCloses(c)
  <2>1. proxy[c].at = "idle" /\ ProxyGoto(c, "idle") /\ UNCHANGED <<client, server>>
    BY <1>6 DEF ProxyEndCloses, ProxyGoto, SystemTypeOK, ProxyStates
  <2>2. CASE front' = [front EXCEPT ![c] = Closed(@, "server")] /\ UNCHANGED <<vars, back>>
    <3>1. /\ front' = [front EXCEPT ![c] = Closed(front[c], "server")]
          /\ back' = [back EXCEPT ![c] = back[c]]
      BY <2>2 DEF SystemTypeOK
    <3>2. /\ Kept(Closed(front[c], "server").in["server"], front[c].in["server"])
          /\ Kept(Closed(front[c], "server").in["client"], front[c].in["client"])
      BY <1>1, ClosedQueues DEF Ends, Kept
    <3>. QED
      BY <1>1, <2>1, <3>1, <3>2, AsideTurn
  <2>3. CASE back' = [back EXCEPT ![c] = Closed(@, "client")] /\ UNCHANGED <<vars, front>>
    <3>1. /\ back' = [back EXCEPT ![c] = Closed(back[c], "client")]
          /\ front' = [front EXCEPT ![c] = front[c]]
      BY <2>3 DEF SystemTypeOK
    <3>2. /\ Kept(Closed(back[c], "client").in["server"], back[c].in["server"])
          /\ Kept(Closed(back[c], "client").in["client"], back[c].in["client"])
      BY <1>1, ClosedQueues DEF Ends, Kept
    <3>. QED
      BY <1>1, <2>1, <3>1, <3>2, AsideTurn
  <2>. QED
    BY <1>1, <1>3, <1>6, <2>1, <2>2, <2>3 DEF ProxyEndCloses
<1>7. CASE ConnectAuth(c)
  BY <1>1, <1>3, <1>7 DEF ConnectAuth
<1>8. CASE DisconnectClient(c)
  BY <1>2, <1>4, <1>8 DEF DisconnectClient
<1>9. CASE DropServer(c)
  BY <1>1, <1>2, <1>3, <1>5, <1>9 DEF DropServer
<1>10. CASE DropAuth(c)
  BY <1>1, <1>2, <1>3, <1>10 DEF DropAuth
<1>. QED
  BY <1>6, <1>7, <1>8, <1>9, <1>10

LEMMA ProxyThreadTurn ==
  ASSUME InTurn, SystemIInv, NEW c \in Conns, ProxyThread(c)
  PROVE  InTurn'
<1>1. SystemTypeOK
  BY DEF SystemIInv
<1>2. CASE ReceiveText(c) \/ ForwardLogin(c) \/ ReceiveToken(c) \/ VerifyToken(c) \/ ReceiveVerdict(c)
  BY <1>1, <1>2, ReceiveTextTurn, ForwardLoginTurn, ReceiveTokenTurn, VerifyTokenTurn,
     ReceiveVerdictTurn
<1>3. CASE TellClient(c) \/ ConnectServer(c) \/ ForwardMessage(c) \/ ReceiveReply(c)
  BY <1>1, <1>3, TellClientTurn, ConnectServerTurn, ForwardMessageTurn, ReceiveReplyTurn
<1>4. CASE \/ ConnectAuth(c) \/ DisconnectClient(c) \/ DropServer(c) \/ DropAuth(c)
           \/ ProxyEndCloses(c)
  BY <1>1, <1>4, ProxyClosesTurn
<1>. QED
  BY <1>2, <1>3, <1>4 DEF ProxyThread, ProxyConnects, ProxyGoesOn

-----------------------------------------------------------------------------

LEMMA InTurnInit ==
  ASSUME SystemInit
  PROVE  InTurn
  BY DEF SystemInit, InTurn, FrontInTurn, BackInTurn, Working, Quiet, NoClient, NoProxy

LEMMA InTurnNext ==
  ASSUME "huge" \notin Bodies, SystemIInv, InTurn, [SystemNext]_sysVars
  PROVE  InTurn'
<1>1. SystemTypeOK
  BY DEF SystemIInv
<1>2. ASSUME NEW c \in Conns,
             Connect(c) \/ Say(c) \/ Exit(c) \/ Abandon(c) \/ ClientThread(c)
      PROVE  InTurn'
  BY <1>1, <1>2, ConnectTurn, SayTurn, LoginTurn, ClientReceivesTurn, ClientLeavesTurn
     DEF ClientThread
<1>3. ASSUME NEW c \in Conns, ProxyThread(c) \/ ServerThread(c)
      PROVE  InTurn'
  BY <1>1, <1>3, ProxyThreadTurn, ServerThreadTurn
<1>4. CASE UNCHANGED <<front, back, client, proxy, server>>
  BY <1>4, FrontKept, BackKept DEF InTurn, Kept, Working, WorksOn, Quiet
<1>5. CASE (\E c \in Conns : AuthThread(c)) \/ World \/ UNCHANGED sysVars
  BY <1>4, <1>5, ProxyDieTurn, ServerDieTurn DEF AuthThread, World, sysVars
<1>. QED
  BY <1>2, <1>3, <1>5, Zenon DEF SystemNext

\* The text a client reads next is about what it has asked last
\* (client.cpp:52-76, proxy.cpp:80-155), however the sessions of the proxy, the
\* failures of its connections and the deaths of the processes fall between the
\* two: for messages that fit the proxy's buffer.
THEOREM RepliesSoundness ==
  Abrupt /\ "huge" \notin Bodies => (SystemSpec => []RepliesMatch)
<1>1. InTurn => RepliesMatch
  BY DEF InTurn, FrontInTurn, RepliesMatch, Waiting
<1>2. SystemInit => InTurn
  BY InTurnInit
<1>3. ASSUME Abrupt, "huge" \notin Bodies
      PROVE  SystemSpec => []RepliesMatch
  <2>1. SystemIInv /\ InTurn /\ [SystemNext]_sysVars => InTurn'
    BY <1>3, InTurnNext
  <2>2. SystemSpec => []SystemIInv
    BY <1>3, SystemInvariant
  <2>. QED
    BY <1>1, <1>2, <2>1, <2>2, PTL DEF SystemSpec
<1>. QED
  BY <1>3
=============================================================================
