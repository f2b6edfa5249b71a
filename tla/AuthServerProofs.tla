-------------------------- MODULE AuthServerProofs --------------------------
(***************************************************************************)
(* Theorems about AuthServer, for every number of connections and users, any  *)
(* lifetime, and with every fault: failing queries, peers that leave, SIGPIPE,  *)
(* crashes and restarts.                                                     *)
(***************************************************************************)
EXTENDS AuthServer, TlsLinkProofs

-----------------------------------------------------------------------------
(* Messages *)

\* A request handled by the AUTH branch names a user.
LEMMA AuthMessage ==
  ASSUME NEW m \in Requests, m.op = "AUTH"
  PROVE  m.username \in Users
  BY DEF Requests, AuthRequests, Rest

\* A request handled by the VERIFY branch carries an answer to an AUTH, or some token.
LEMMA VerifyMessage ==
  ASSUME NEW m \in Requests, m.op = "VERIFY"
  PROVE  m.token \in AuthAnswers \cup Tokens
  BY DEF Requests, AuthRequests, Rest

\* What a login is read as begins with its head, an AUTH.
LEMMA ReadsLogin ==
  ASSUME NEW l \in LoginTexts
  PROVE  /\ Reads(l) \in Seq(Requests) /\ Reads(l) # <<>>
         /\ Head(Reads(l)) = l.head /\ l.head \in AuthRequests
         /\ l.tail \in Seq(Requests) /\ Tail(Reads(l)) = l.tail
<1>1. l.op = "LOGIN" /\ l.head \in AuthRequests /\ l.tail \in Seq(Requests)
  BY DEF LoginTexts
<1>2. Reads(l) = <<l.head>> \o l.tail
  BY <1>1 DEF Reads
<1>3. PICK head, tail : head = l.head /\ tail = l.tail
  OBVIOUS
<1>4. head \in Requests /\ tail \in Seq(Requests)
  BY <1>1, <1>3 DEF Requests
<1>5. /\ <<head>> \o tail \in Seq(Requests) /\ <<head>> \o tail # <<>>
      /\ Head(<<head>> \o tail) = head /\ Tail(<<head>> \o tail) = tail
  <2>1. Len(<<head>> \o tail) = 1 + Len(tail) /\ <<head>> \o tail \in Seq(Requests)
    BY <1>4
  <2>2. <<head>> \o tail # <<>> /\ (<<head>> \o tail)[1] = head
    BY <1>4, <2>1
  <2>3. Head(<<head>> \o tail) = head
    BY <1>4, <2>1, <2>2
  <2>4. Tail(<<head>> \o tail) \in Seq(Requests) /\ Len(Tail(<<head>> \o tail)) = Len(tail)
    BY <1>4, <2>1, <2>2
  <2>5. \A k \in 1 .. Len(tail) : Tail(<<head>> \o tail)[k] = tail[k]
    BY <1>4, <2>1, <2>2
  <2>6. Tail(<<head>> \o tail) = tail
    BY <1>4, <2>4, <2>5
  <2>. QED BY <2>1, <2>2, <2>3, <2>6
<1>. QED BY <1>1, <1>2, <1>3, <1>5

\* A request is read whole.
LEMMA ReadsRequest ==
  ASSUME NEW r \in Requests
  PROVE  r.op # "LOGIN" /\ Reads(r) = <<r>> /\ <<r>> \in Seq(Requests)
<1>1. r.op # "LOGIN"
  BY DEF Requests, AuthRequests, Rest
<1>2. <<r>> \in Seq(Requests)
  <2>1. PICK set : set = Requests
    OBVIOUS
  <2>. QED BY <2>1
<1>. QED BY <1>1, <1>2 DEF Reads

\* However a text is split over reads, each read is a request.
LEMMA ReadsTyped ==
  ASSUME NEW r \in LoginTexts \cup Requests
  PROVE  Reads(r) \in Seq(Requests)
<1>1. CASE r \in LoginTexts
  BY <1>1, ReadsLogin
<1>2. CASE r \in Requests
  BY <1>2, ReadsRequest
<1>. QED
  BY <1>1, <1>2

-----------------------------------------------------------------------------
(* Connections: the lemmas of TlsLinkProofs for requests and answers *)

LEMMA RequestRead ==
  ASSUME NEW l \in Links, CanRead(l, "server")
  PROVE  /\ Head(l.in["server"]) \in Requests
         /\ AfterRead(l, "server") \in Links
         /\ AfterRead(l, "server").up = l.up
         /\ AfterRead(l, "server").reset = l.reset
         /\ AfterRead(l, "server").in["client"] = l.in["client"]
  BY ServerReadTyped, ServerReadEffect DEF Links

LEMMA AnswerRead ==
  ASSUME NEW l \in Links, CanRead(l, "client")
  PROVE  /\ Head(l.in["client"]) \in Answers
         /\ AfterRead(l, "client") \in Links
         /\ AfterRead(l, "client").up = l.up
         /\ AfterRead(l, "client").reset = l.reset
  BY ClientReadTyped, ClientReadEffect DEF Links

LEMMA AnswerWritten ==
  ASSUME NEW l \in Links, NEW a \in Answers,
         NEW o \in WriteOutcomes(l, "server", <<a>>)
  PROVE  /\ o.link \in Links
         /\ o.link.up = l.up
         /\ o.link.in["server"] = l.in["server"]
         /\ l.up["client"] /\ ~l.reset =>
              o.link.in["client"] = Append(l.in["client"], a)
         /\ l.up["client"] => o.link.reset = l.reset
<1>1. <<a>> \in Seq(Answers)
  OBVIOUS
<1>2. l.in["client"] \in Seq(Answers)
  BY DEF Links, LinkType
<1>3. l.in["client"] \o <<a>> = Append(l.in["client"], a)
  BY <1>2
<1>4. l \in LinkType(Requests, Answers)
  BY DEF Links
<1>5. o.link \in Links
  BY <1>1, <1>4, ServerWriteTyped DEF Links
<1>6. Wrote(l, o.link, "server", <<a>>)
  BY <1>1, <1>4, ServerWriteEffect
<1>. QED
  BY <1>3, <1>5, <1>6 DEF Wrote, Peer

LEMMA RequestWritten ==
  ASSUME NEW l \in Links, NEW r \in LoginTexts \cup Requests,
         NEW o \in WriteOutcomes(l, "client", Reads(r))
  PROVE  /\ o.link \in Links
         /\ o.link.up = l.up
         /\ o.link.in["client"] = l.in["client"]
         /\ l.up["server"] /\ ~l.reset =>
              o.link.in["server"] = l.in["server"] \o Reads(r)
         /\ l.up["server"] => o.link.reset = l.reset
<1>1. Reads(r) \in Seq(Requests)
  BY ReadsTyped
<1>2. l \in LinkType(Requests, Answers)
  BY DEF Links
<1>3. o.link \in Links
  BY <1>1, <1>2, ClientWriteTyped DEF Links
<1>4. Wrote(l, o.link, "client", Reads(r))
  BY <1>1, <1>2, ClientWriteEffect
<1>. QED
  BY <1>3, <1>4 DEF Wrote, Peer

LEMMA LinkClosed ==
  ASSUME NEW l \in Links, NEW e \in Ends
  PROVE  /\ Closed(l, e) \in Links
         /\ \A o \in CloseOutcomes(l, e) :
              o.link \in Links /\ (o.result # "killed" => o.link = Closed(l, e))
         /\ NewLink \in Links
         /\ ClosedLink \in Links
<1>1. \A o \in CloseOutcomes(l, e) : o.result # "killed" => o.link = Closed(l, e)
  BY DEF CloseOutcomes, Outcome
<1>2. Closed(l, e) \in Links
  BY ClosedTyped DEF Links
<1>3. \A o \in CloseOutcomes(l, e) : o.link \in Links
  BY CloseTyped DEF Links
<1>4. NewLink \in Links /\ ClosedLink \in Links
  BY NewLinkTyped DEF Links
<1>. QED
  BY <1>1, <1>2, <1>3, <1>4

LEMMA ServerClosed ==
  ASSUME NEW l \in Links
  PROVE  /\ ~Closed(l, "server").up["server"]
         /\ Closed(l, "server").up["client"] = l.up["client"]
         /\ l.up["client"] => Closed(l, "server").in["client"] = l.in["client"]
<1>1. Peer("server") = "client" /\ "server" \in Ends
  BY DEF Peer, Ends
<1>. QED
  BY <1>1, ClosedEffect DEF Links

LEMMA ClientClosed ==
  ASSUME NEW l \in Links
  PROVE  /\ ~Closed(l, "client").up["client"]
         /\ Closed(l, "client").up["server"] = l.up["server"]
<1>1. Peer("client") = "server" /\ "client" \in Ends
  BY DEF Peer, Ends
<1>. QED
  BY <1>1, ClosedEffect DEF Links

-----------------------------------------------------------------------------
(* Type correctness *)

\* The rows a statement leaves are rows.
LEMMA InsertedTyped ==
  ASSUME tokens \in SUBSET Rows, NEW u \in Names, NEW e \in Nat
  PROVE  Inserted(u, generateToken(u), e) \in SUBSET Rows
  BY DEF Inserted, Row, Rows, Tokens, generateToken

\* The death of the process leaves every variable in its type.
LEMMA DieTyped ==
  ASSUME TypeOK, Die
  PROVE  TypeOK'
<1>1. link' \in [Conns -> Links]
  BY LinkClosed DEF TypeOK, Die, Ends
<1>2. /\ Rest \in Requests
      /\ Verified \in Answers
      /\ Blank \in Names
  BY DEF Requests, Rest, Answers, Verified, Names
<1>. QED
  BY <1>1, <1>2 DEF TypeOK, Die, Steps, peers

\* The answers the code can give are answers.
LEMMA AnswerTyped ==
  /\ \A text \in ErrorTexts : Error(text) \in Answers
  /\ Verified \in Answers
  /\ \A u \in Names : generateToken(u) \in Answers /\ NewToken(u) \in Answers
  BY DEF Answers, Error, Verified, generateToken, NewToken, Tokens

LEMMA TypeInit ==
  ASSUME Init
  PROVE  TypeOK
<1>1. tokens \in SUBSET Rows /\ loggedIn \in SUBSET Users
  BY ConstantsAssumption DEF Init, Row, Rows, Tokens, generateToken, Names
<1>2. ClosedLink \in Links
  BY NewLinkTyped DEF Links
<1>3. Rest \in Requests /\ Blank \in Names
  BY DEF Requests, Names
<1>. QED
  BY <1>1, <1>2, <1>3, AnswerTyped DEF Init, TypeOK, Steps

\* A read of the next request by a handler, before the branch it takes.
LEMMA TakesTyped ==
  ASSUME TypeOK, NEW c \in Conns, NEW m \in Requests, Takes(c, m)
  PROVE  /\ link' \in [Conns -> Links]
         /\ message' \in [Conns -> Requests]
         /\ UNCHANGED <<tokens, time, up, clock, username, loggedIn, held, awaiting>>
  BY RequestRead DEF TypeOK, Takes, peers

\* What an iteration leaves in the locals.
LEMMA ForgetTyped ==
  ASSUME TypeOK, NEW c \in Conns, Forget(c)
  PROVE  /\ message' \in [Conns -> Requests]
         /\ ttl' \in [Conns -> Nat]
         /\ clock' \in [Conns -> Nat]
         /\ username' \in [Conns -> Names]
         /\ answer' \in [Conns -> Answers]
  BY AnswerTyped DEF TypeOK, Forget, Reset, Requests, Names

\* Type correctness is inductive together with InBranch: the username of a
\* VERIFY would be no name.
LEMMA HandleTyped ==
  ASSUME TypeOK, NEW c \in Conns, InBranch(c), Handle(c)
  PROVE  TypeOK'
<1>. DEFINE Taken == /\ link' \in [Conns -> Links]
                     /\ message' \in [Conns -> Requests]
                     /\ UNCHANGED <<tokens, time, up, clock, username, loggedIn, held, awaiting>>
<1>1. CASE ReceiveAuth(c)
  <2>1. Taken
    BY <1>1, TakesTyped DEF ReceiveAuth
  <2>2. Goto(c, "check_credentials") /\ UNCHANGED <<ttl, answer>>
    BY <1>1, Zenon DEF ReceiveAuth
  <2>. QED
    BY <2>1, <2>2 DEF TypeOK, Goto, Steps
<1>2. CASE ReceiveAuthWithoutPassword(c)
  <2>1. Taken
    BY <1>2, TakesTyped DEF ReceiveAuthWithoutPassword
  <2>2. Reply(c, Error("Invalid request format")) /\ UNCHANGED ttl
    BY <1>2, Zenon DEF ReceiveAuthWithoutPassword
  <2>3. Error("Invalid request format") \in Answers
    BY AnswerTyped DEF ErrorTexts
  <2>. QED
    BY <2>1, <2>2, <2>3 DEF TypeOK, Reply, Goto, Steps
<1>3. CASE ReceiveVerify(c)
  <2>1. Taken
    BY <1>3, TakesTyped DEF ReceiveVerify
  <2>2. /\ ttl' = [ttl EXCEPT ![c] = 0] /\ Goto(c, "read_ttl")
        /\ UNCHANGED answer
    BY <1>3, Zenon DEF ReceiveVerify
  <2>. QED
    BY <2>1, <2>2 DEF TypeOK, Goto, Steps
<1>4. CASE ReceiveOther(c)
  <2>1. Taken
    BY <1>4, TakesTyped DEF ReceiveOther
  <2>2. Reply(c, Error("Invalid request")) /\ UNCHANGED ttl
    BY <1>4, Zenon DEF ReceiveOther
  <2>3. Error("Invalid request") \in Answers
    BY AnswerTyped DEF ErrorTexts
  <2>. QED
    BY <2>1, <2>2, <2>3 DEF TypeOK, Reply, Goto, Steps
<1>5. CASE ReceiveEnd(c)
  BY <1>5 DEF ReceiveEnd, TypeOK, Goto, Steps, locals, peers
<1>6. CASE CheckCredentials(c)
  <2>1. message[c].username \in Users
    BY <1>6, AuthMessage DEF CheckCredentials, TypeOK, InBranch
  <2>2. loggedIn' \in SUBSET Users
    BY <1>6, <2>1 DEF CheckCredentials, TypeOK
  <2>3. Error("Authentication failed") \in Answers
    BY AnswerTyped DEF ErrorTexts
  <2>4. pc' \in [Conns -> Steps] /\ answer' \in [Conns -> Answers]
    <3>1. \/ Goto(c, "store_token") /\ UNCHANGED answer
          \/ Reply(c, Error("Authentication failed"))
      BY <1>6, Zenon DEF CheckCredentials
    <3>2. pc \in [Conns -> Steps] /\ answer \in [Conns -> Answers]
      BY DEF TypeOK
    <3>3. CASE Goto(c, "store_token") /\ UNCHANGED answer
      BY <3>2, <3>3 DEF Goto, Steps
    <3>4. CASE Reply(c, Error("Authentication failed"))
      BY <2>3, <3>2, <3>4 DEF Reply, Goto, Steps
    <3>. QED
      BY <3>1, <3>3, <3>4
  <2>5. clock' \in [Conns -> Nat]
    BY <1>6 DEF CheckCredentials, TypeOK
  <2>6. UNCHANGED <<tokens, time, up, link, message, ttl, username, held, awaiting>>
    BY <1>6 DEF CheckCredentials, peers
  <2>. QED
    BY <2>2, <2>4, <2>5, <2>6 DEF TypeOK
<1>7. CASE StoreToken(c)
  <2>. DEFINE u == message[c].username
  <2>1. u \in Names /\ clock[c] + Lifetime \in Nat
    BY <1>7, AuthMessage, ConstantsAssumption DEF StoreToken, TypeOK, InBranch, Names
  <2>2. tokens' \in SUBSET Rows
    BY <1>7, <2>1, InsertedTyped DEF StoreToken, TypeOK
  <2>. QED
    BY <1>7, <2>1, <2>2, AnswerTyped DEF StoreToken, TypeOK, Reply, Goto, Steps, peers
<1>8. CASE ReadTtl(c)
  <2>1. ttl' \in [Conns -> Nat]
    BY <1>8 DEF ReadTtl, RowsOf, Rows, TypeOK
  <2>2. pc' \in [Conns -> Steps] /\ answer' \in [Conns -> Answers]
    <3>1. \/ Goto(c, "check_expiry") /\ UNCHANGED answer
          \/ Reply(c, Error("Invalid token"))
      BY <1>8, Zenon DEF ReadTtl
    <3>2. Error("Invalid token") \in Answers
      BY AnswerTyped DEF ErrorTexts
    <3>3. pc \in [Conns -> Steps] /\ answer \in [Conns -> Answers]
      BY DEF TypeOK
    <3>4. CASE Goto(c, "check_expiry") /\ UNCHANGED answer
      BY <3>3, <3>4 DEF Goto, Steps
    <3>5. CASE Reply(c, Error("Invalid token"))
      BY <3>2, <3>3, <3>5 DEF Reply, Goto, Steps
    <3>. QED
      BY <3>1, <3>4, <3>5
  <2>3. UNCHANGED <<tokens, time, up, link, message, clock, username, loggedIn, held, awaiting>>
    BY <1>8 DEF ReadTtl, peers
  <2>. QED
    BY <2>1, <2>2, <2>3 DEF TypeOK
<1>9. CASE CheckExpiry(c)
  BY <1>9, AnswerTyped DEF CheckExpiry, TypeOK, Reply, Goto, Steps, peers
<1>10. CASE ReadUsername(c)
  <2>1. username' \in [Conns -> Names]
    BY <1>10 DEF ReadUsername, RowsOf, Rows, TypeOK
  <2>2. pc' \in [Conns -> Steps] /\ answer' \in [Conns -> Answers]
    <3>1. \/ Goto(c, "delete_old") /\ UNCHANGED answer
          \/ Reply(c, Error("Token expired and regeneration failed"))
      BY <1>10, Zenon DEF ReadUsername
    <3>2. Error("Token expired and regeneration failed") \in Answers
      BY AnswerTyped DEF ErrorTexts
    <3>3. pc \in [Conns -> Steps] /\ answer \in [Conns -> Answers]
      BY DEF TypeOK
    <3>4. CASE Goto(c, "delete_old") /\ UNCHANGED answer
      BY <3>3, <3>4 DEF Goto, Steps
    <3>5. CASE Reply(c, Error("Token expired and regeneration failed"))
      BY <3>2, <3>3, <3>5 DEF Reply, Goto, Steps
    <3>. QED
      BY <3>1, <3>4, <3>5
  <2>3. UNCHANGED <<tokens, time, up, link, message, ttl, clock, loggedIn, held, awaiting>>
    BY <1>10 DEF ReadUsername, peers
  <2>. QED
    BY <2>1, <2>2, <2>3 DEF TypeOK
<1>11. CASE DeleteOld(c)
  BY <1>11 DEF DeleteOld, RowsOf, TypeOK, Goto, Steps, locals, peers
<1>12. CASE InsertNew(c)
  <2>1. username[c] \in Names /\ clock[c] + Lifetime \in Nat
    BY ConstantsAssumption DEF TypeOK
  <2>2. tokens' \in SUBSET Rows
    BY <1>12, <2>1, InsertedTyped DEF InsertNew, TypeOK
  <2>. QED
    BY <1>12, <2>1, <2>2, AnswerTyped DEF InsertNew, TypeOK, Reply, Goto, Steps, peers
<1>13. CASE SendAnswer(c)
  <2>1. CASE Die
    BY <2>1, DieTyped
  <2>2. CASE \E o \in WriteOutcomes(link[c], "server", <<answer[c]>>) :
               /\ link' = [link EXCEPT ![c] = o.link]
               /\ Goto(c, "receive")
               /\ Forget(c)
               /\ UNCHANGED <<tokens, time, up, loggedIn, peers>>
    <3>1. link' \in [Conns -> Links]
      BY <2>2, AnswerWritten DEF TypeOK
    <3>. QED
      BY <2>2, <3>1, ForgetTyped DEF TypeOK, Goto, Steps, peers
  <2>. QED
    BY <1>13, <2>1, <2>2, Zenon DEF SendAnswer
<1>14. CASE Disconnect(c)
  <2>1. CASE Die
    BY <2>1, DieTyped
  <2>2. CASE \E o \in CloseOutcomes(link[c], "server") :
               /\ link' = [link EXCEPT ![c] = o.link]
               /\ Goto(c, "idle")
               /\ Forget(c)
               /\ UNCHANGED <<tokens, time, up, loggedIn, peers>>
    <3>1. link' \in [Conns -> Links]
      BY <2>2, LinkClosed DEF TypeOK, Ends
    <3>. QED
      BY <2>2, <3>1, ForgetTyped DEF TypeOK, Goto, Steps, peers
  <2>. QED
    BY <1>14, <2>1, <2>2, Zenon DEF Disconnect
<1>. QED
  BY <1>1, <1>2, <1>3, <1>4, <1>5, <1>6, <1>7, <1>8, <1>9, <1>10, <1>11, <1>12,
     <1>13, <1>14, Zenon DEF Handle

LEMMA ListenTyped ==
  ASSUME TypeOK, NEW c \in Conns, Listen(c)
  PROVE  TypeOK'
  BY LinkClosed DEF Listen, TypeOK, Goto, Steps, locals, peers, Ends

LEMMA PeerTyped ==
  ASSUME TypeOK, NEW c \in Conns, FirstAnswer(c), PeerStep(c)
  PROVE  TypeOK'
<1>1. ASSUME NEW r \in LoginTexts \cup Requests, Ask(c, r)
      PROVE  TypeOK'
  <2>1. link' \in [Conns -> Links]
    BY <1>1, RequestWritten DEF Ask, TypeOK
  <2>. QED
    BY <1>1, <2>1 DEF Ask, UnchangedServer, TypeOK, locals
<1>2. CASE \E r \in Logins[c] : AskLogin(c, r)
  BY <1>1, <1>2, ConstantsAssumption DEF AskLogin
<1>3. CASE AskVerify(c)
  <2>1. Verify(held[c]) \in Requests
    BY <1>3 DEF AskVerify, TypeOK, Verify, Requests
  <2>. QED
    BY <1>1, <1>3, <2>1 DEF AskVerify
<1>4. CASE TakeAnswer(c)
  <2>1. link' \in [Conns -> Links]
    BY <1>4, AnswerRead DEF TakeAnswer, TypeOK
  <2>2. held' \in [Conns -> AuthAnswers \cup {NoText}]
    BY <1>4 DEF TakeAnswer, TypeOK, FirstAnswer, CanRead
  <2>. QED
    BY <1>4, <2>1, <2>2 DEF TakeAnswer, UnchangedServer, TypeOK, locals
<1>5. CASE NoAnswer(c)
  BY <1>5 DEF NoAnswer, UnchangedServer, TypeOK, locals
<1>6. CASE PeerClose(c)
  BY <1>6, LinkClosed DEF PeerClose, UnchangedServer, TypeOK, locals, Ends
<1>. QED
  BY <1>2, <1>3, <1>4, <1>5, <1>6 DEF PeerStep

-----------------------------------------------------------------------------
(* The conversation on one connection *)

\* ConnInv speaks of one connection: it stands when nothing of that one changes.
LEMMA ConnFrame ==
  ASSUME NEW d \in Conns, ConnInv(d),
         pc'[d] = pc[d], link'[d] = link[d], message'[d] = message[d],
         answer'[d] = answer[d], held'[d] = held[d], awaiting'[d] = awaiting[d]
  PROVE  ConnInv(d)'
  BY DEF ConnInv, InBranch, InUse, StartsClean, FirstAnswer, Verifying

\* When the process dies, its peers are left with what it had told them.
LEMMA DieConn ==
  ASSUME TypeOK, NEW d \in Conns, ConnInv(d), Die
  PROVE  ConnInv(d)'
<1>1. /\ pc'[d] = "idle"
      /\ held'[d] = held[d] /\ awaiting'[d] = awaiting[d]
      /\ link[d] \in Links
  BY DEF Die, TypeOK, peers
<1>2. /\ ~link'[d].up["server"]
      /\ link'[d].up["client"] = link[d].up["client"]
      /\ link[d].up["client"] => link'[d].in["client"] = link[d].in["client"]
  <2>1. CASE link[d].up["server"]
    BY <1>1, <2>1, ServerClosed DEF Die
  <2>2. CASE ~link[d].up["server"]
    BY <2>2 DEF Die
  <2>. QED
    BY <2>1, <2>2
<1>. QED
  BY <1>1, <1>2 DEF ConnInv, InBranch, InUse, StartsClean, FirstAnswer, Verifying

\* What the branches can answer an AUTH with.
LEMMA LoginAnswers ==
  /\ \A u \in Users : generateToken(u) \in AuthAnswers
  /\ Error("Invalid request format") \in AuthAnswers
  /\ Error("Authentication failed") \in AuthAnswers
  /\ NoText \notin AuthAnswers
  BY DEF AuthAnswers, generateToken, Error, NoText

\* A handler that takes a request.
LEMMA TakesConn ==
  ASSUME TypeOK, NEW c \in Conns, ConnInv(c), NEW m \in Requests, Takes(c, m)
  PROVE  /\ link'[c] = AfterRead(link[c], "server")
         /\ link'[c].up = link[c].up
         /\ link'[c].reset = link[c].reset
         /\ link'[c].in["client"] = link[c].in["client"]
         /\ message'[c] = m
         /\ held'[c] = held[c] /\ awaiting'[c] = awaiting[c]
         /\ held[c] = NoText /\ link[c].up["client"] /\ link[c].in["client"] = <<>>
              => m.op = "AUTH"
         /\ link[c].up["client"] /\ link[c].up["server"] /\ held[c] = NoText
              => awaiting[c]
         /\ link[c].up["server"]
<1>1. /\ link[c] \in Links
      /\ link'[c] = AfterRead(link[c], "server")
      /\ message'[c] = m
      /\ held'[c] = held[c] /\ awaiting'[c] = awaiting[c]
      /\ pc[c] = "receive"
      /\ CanRead(link[c], "server")
      /\ m = Head(link[c].in["server"])
  BY DEF Takes, TypeOK, peers
<1>2. link[c].in["server"] # <<>> /\ link[c].up["server"]
  BY <1>1 DEF CanRead
<1>. QED
  BY <1>1, <1>2, RequestRead DEF ConnInv, FirstAnswer, StartsClean

LEMMA HandleConn ==
  ASSUME TypeOK, NEW c \in Conns, ConnInv(c), Handle(c), ~Die
  PROVE  ConnInv(c)'
<1>. USE DEF ConnInv, InBranch, InUse, StartsClean, FirstAnswer, Verifying
<1>1. CASE ReceiveAuth(c)
  <2>1. PICK m \in Requests : Takes(c, m) /\ m.op = "AUTH"
    BY <1>1 DEF ReceiveAuth
  <2>2. pc'[c] = "check_credentials" /\ pc[c] = "receive"
    BY <1>1 DEF ReceiveAuth, Goto, Takes, TypeOK
  <2>. QED
    BY <2>1, <2>2, TakesConn
<1>2. CASE ReceiveAuthWithoutPassword(c)
  <2>1. PICK m \in Requests : Takes(c, m) /\ m.op = "AUTH"
    BY <1>2 DEF ReceiveAuthWithoutPassword
  <2>2. /\ pc'[c] = "send" /\ pc[c] = "receive"
        /\ answer'[c] = Error("Invalid request format")
    BY <1>2 DEF ReceiveAuthWithoutPassword, Reply, Goto, Takes, TypeOK
  <2>3. answer'[c] \in AuthAnswers /\ pc'[c] \notin Verifying
    BY <2>2, LoginAnswers
  <2>4. /\ link'[c].up = link[c].up /\ link'[c].reset = link[c].reset
        /\ link'[c].in["client"] = link[c].in["client"]
        /\ held'[c] = held[c] /\ awaiting'[c] = awaiting[c]
        /\ link[c].up["client"] /\ link[c].up["server"] /\ held[c] = NoText => awaiting[c]
        /\ link[c].up["server"]
    BY <2>1, TakesConn
  <2>. QED
    BY <2>2, <2>3, <2>4
<1>3. CASE ReceiveVerify(c)
  <2>1. PICK m \in Requests : Takes(c, m) /\ m.op = "VERIFY"
    BY <1>3 DEF ReceiveVerify
  <2>2. pc'[c] = "read_ttl" /\ pc[c] = "receive"
    BY <1>3 DEF ReceiveVerify, Goto, Takes, TypeOK
  <2>. QED
    BY <2>1, <2>2, TakesConn
<1>4. CASE ReceiveOther(c)
  <2>1. PICK m \in Requests : Takes(c, m) /\ m.op = "OTHER"
    BY <1>4 DEF ReceiveOther
  <2>2. pc'[c] = "send" /\ pc[c] = "receive"
    BY <1>4 DEF ReceiveOther, Reply, Goto, Takes, TypeOK
  <2>. QED
    BY <2>1, <2>2, TakesConn
<1>5. CASE ReceiveEnd(c)
  BY <1>5 DEF ReceiveEnd, AtEnd, Peer, Goto, TypeOK, locals, peers
<1>6. CASE CheckCredentials(c)
  <2>1. /\ pc[c] = "check_credentials"
        /\ \/ pc'[c] = "store_token"
           \/ pc'[c] = "send" /\ answer'[c] = Error("Authentication failed")
        /\ UNCHANGED <<link, message, held, awaiting>>
    BY <1>6 DEF CheckCredentials, Goto, Reply, TypeOK, peers
  <2>. QED
    BY <2>1, LoginAnswers
<1>7. CASE StoreToken(c)
  <2>1. message[c].username \in Users
    BY <1>7, AuthMessage DEF StoreToken, TypeOK
  <2>2. /\ pc[c] = "store_token"
        /\ pc'[c] = "send" /\ answer'[c] = generateToken(message[c].username)
        /\ UNCHANGED <<link, message, held, awaiting>>
    BY <1>7 DEF StoreToken, Goto, Reply, TypeOK, peers
  <2>. QED
    BY <2>1, <2>2, LoginAnswers
<1>8. ASSUME pc[c] \in Verifying, pc'[c] \in Verifying \cup {"send"},
             UNCHANGED <<link, message, held, awaiting>>
      PROVE  ConnInv(c)'
  BY <1>8
<1>9. CASE ReadTtl(c)
  BY <1>8, <1>9 DEF ReadTtl, Goto, Reply, TypeOK, peers
<1>10. CASE CheckExpiry(c)
  BY <1>8, <1>10 DEF CheckExpiry, Goto, Reply, TypeOK, peers
<1>11. CASE ReadUsername(c)
  BY <1>8, <1>11 DEF ReadUsername, Goto, Reply, TypeOK, peers
<1>12. CASE DeleteOld(c)
  BY <1>8, <1>12 DEF DeleteOld, Goto, TypeOK, locals, peers
<1>13. CASE InsertNew(c)
  BY <1>8, <1>13 DEF InsertNew, Goto, Reply, TypeOK, peers
<1>14. CASE SendAnswer(c)
  <2>1. PICK o \in WriteOutcomes(link[c], "server", <<answer[c]>>) :
               /\ link' = [link EXCEPT ![c] = o.link]
               /\ Goto(c, "receive")
               /\ Forget(c)
               /\ UNCHANGED <<tokens, time, up, loggedIn, peers>>
    BY <1>14, Zenon DEF SendAnswer
  <2>2. /\ pc[c] = "send" /\ pc'[c] = "receive"
        /\ link'[c] = o.link
        /\ held'[c] = held[c] /\ awaiting'[c] = awaiting[c]
    BY <1>14, <2>1 DEF SendAnswer, Goto, TypeOK, peers
  <2>3. /\ link'[c].up = link[c].up
        /\ link[c].up["client"] /\ ~link[c].reset =>
             link'[c].in["client"] = Append(link[c].in["client"], answer[c])
        /\ link[c].up["client"] => link'[c].reset = link[c].reset
    BY <2>2, AnswerWritten DEF TypeOK
  <2>4. /\ Append(link[c].in["client"], answer[c]) # <<>>
        /\ Head(Append(link[c].in["client"], answer[c])) =
             IF link[c].in["client"] = <<>> THEN answer[c] ELSE Head(link[c].in["client"])
    <3>1. link[c].in["client"] \in Seq(Answers) /\ answer[c] \in Answers
      BY DEF TypeOK, Links, LinkType
    <3>. QED
      BY <3>1
  <2>. QED
    BY <2>2, <2>3, <2>4
<1>15. CASE Disconnect(c)
  <2>1. PICK o \in CloseOutcomes(link[c], "server") :
               /\ o.result # "killed"
               /\ link' = [link EXCEPT ![c] = o.link]
               /\ Goto(c, "idle")
               /\ Forget(c)
               /\ UNCHANGED <<tokens, time, up, loggedIn, peers>>
    BY <1>15, Zenon DEF Disconnect
  <2>2. /\ pc[c] = "disconnect" /\ pc'[c] = "idle"
        /\ held'[c] = held[c] /\ awaiting'[c] = awaiting[c]
        /\ link'[c] = Closed(link[c], "server")
    BY <1>15, <2>1, LinkClosed DEF Disconnect, Goto, TypeOK, peers, Ends
  <2>. QED
    BY <2>2, ServerClosed DEF TypeOK
<1>. QED
  BY <1>1, <1>2, <1>3, <1>4, <1>5, <1>6, <1>7, <1>9, <1>10, <1>11, <1>12, <1>13,
     <1>14, <1>15, Zenon DEF Handle

\* Every other connection is left alone.
LEMMA HandleFrame ==
  ASSUME TypeOK, NEW c \in Conns, Handle(c), ~Die, NEW d \in Conns, d # c
  PROVE  /\ pc'[d] = pc[d] /\ link'[d] = link[d] /\ message'[d] = message[d]
         /\ ttl'[d] = ttl[d] /\ clock'[d] = clock[d] /\ username'[d] = username[d]
         /\ answer'[d] = answer[d] /\ held'[d] = held[d] /\ awaiting'[d] = awaiting[d]
<1>. USE DEF TypeOK, Goto, Reply, locals, peers
<1>1. CASE ReceiveAuth(c) \/ ReceiveAuthWithoutPassword(c)
             \/ ReceiveVerify(c) \/ ReceiveOther(c) \/ ReceiveEnd(c)
  <2>1. CASE ReceiveAuth(c)
    BY <2>1 DEF ReceiveAuth, Takes
  <2>2. CASE ReceiveAuthWithoutPassword(c)
    BY <2>2 DEF ReceiveAuthWithoutPassword, Takes
  <2>3. CASE ReceiveVerify(c)
    BY <2>3 DEF ReceiveVerify, Takes
  <2>4. CASE ReceiveOther(c)
    BY <2>4 DEF ReceiveOther, Takes
  <2>5. CASE ReceiveEnd(c)
    BY <2>5 DEF ReceiveEnd
  <2>. QED
    BY <1>1, <2>1, <2>2, <2>3, <2>4, <2>5, Zenon
<1>2. CASE CheckCredentials(c)
  BY <1>2 DEF CheckCredentials
<1>3. CASE StoreToken(c)
  BY <1>3 DEF StoreToken
<1>4. CASE ReadTtl(c)
  BY <1>4 DEF ReadTtl
<1>5. CASE CheckExpiry(c)
  BY <1>5 DEF CheckExpiry
<1>6. CASE ReadUsername(c)
  BY <1>6 DEF ReadUsername
<1>7. CASE DeleteOld(c)
  BY <1>7 DEF DeleteOld
<1>8. CASE InsertNew(c)
  BY <1>8 DEF InsertNew
<1>9. CASE SendAnswer(c)
  BY <1>9 DEF SendAnswer, Forget, Reset
<1>10. CASE Disconnect(c)
  BY <1>10 DEF Disconnect, Forget, Reset
<1>. QED
  BY <1>1, <1>2, <1>3, <1>4, <1>5, <1>6, <1>7, <1>8, <1>9, <1>10, Zenon DEF Handle

LEMMA PeerFrame ==
  ASSUME TypeOK, NEW c \in Conns, PeerStep(c), NEW d \in Conns, d # c
  PROVE  /\ pc'[d] = pc[d] /\ link'[d] = link[d] /\ message'[d] = message[d]
         /\ answer'[d] = answer[d] /\ held'[d] = held[d] /\ awaiting'[d] = awaiting[d]
  BY DEF TypeOK, PeerStep, AskLogin, AskVerify, Ask, TakeAnswer, NoAnswer, PeerClose,
         UnchangedServer, locals

LEMMA PeerConn ==
  ASSUME TypeOK, NEW c \in Conns, ConnInv(c), PeerStep(c)
  PROVE  ConnInv(c)'
<1>. USE DEF ConnInv, InBranch, InUse, StartsClean, FirstAnswer, Verifying
<1>1. ASSUME NEW r \in LoginTexts \cup Requests, Ask(c, r),
             held[c] = NoText => r \in LoginTexts
      PROVE  ConnInv(c)'
  <2>1. PICK o \in WriteOutcomes(link[c], "client", Reads(r)) :
               link' = [link EXCEPT ![c] = o.link]
    BY <1>1 DEF Ask
  <2>2. /\ pc' = pc /\ message' = message /\ answer' = answer /\ held' = held
        /\ awaiting'[c]
        /\ link[c].up["client"] /\ ~awaiting[c]
        /\ link'[c] = o.link
    BY <1>1, <2>1 DEF Ask, UnchangedServer, TypeOK, locals
  <2>3. /\ link'[c].up = link[c].up
        /\ link'[c].in["client"] = link[c].in["client"]
        /\ link[c].up["server"] /\ ~link[c].reset =>
             link'[c].in["server"] = link[c].in["server"] \o Reads(r)
        /\ link[c].up["server"] => link'[c].reset = link[c].reset
    BY <1>1, <2>2, RequestWritten DEF TypeOK
  <2>4. CASE link[c].up["server"] /\ held[c] = NoText
    <3>1. link[c].in["server"] = <<>> /\ link[c].in["client"] = <<>> /\ pc[c] = "receive"
      BY <2>2, <2>4
    <3>2. link'[c].in["server"] = Reads(r)
      BY <2>2, <2>3, <2>4, <3>1, ReadsTyped
    <3>3. link'[c].in["server"] # <<>> /\ Head(link'[c].in["server"]).op = "AUTH"
      BY <1>1, <2>4, <3>2, ReadsLogin DEF AuthRequests
    <3>. QED
      BY <1>1, <2>2, <2>3, <2>4, <3>1, <3>3
  <2>5. CASE ~link[c].up["server"] \/ held[c] # NoText
    BY <2>2, <2>3, <2>5
  <2>. QED
    BY <2>4, <2>5
<1>2. CASE \E r \in Logins[c] : AskLogin(c, r)
  BY <1>1, <1>2, ConstantsAssumption DEF AskLogin
<1>3. CASE AskVerify(c)
  <2>1. Verify(held[c]) \in Requests
    BY <1>3 DEF AskVerify, TypeOK, Verify, Requests
  <2>. QED
    BY <1>1, <1>3, <2>1 DEF AskVerify
<1>4. CASE TakeAnswer(c)
  <2>1. /\ pc' = pc /\ message' = message /\ answer' = answer
        /\ ~awaiting'[c]
        /\ link'[c] = AfterRead(link[c], "client")
        /\ CanRead(link[c], "client")
        /\ held'[c] = IF held[c] = NoText THEN Head(link[c].in["client"]) ELSE held[c]
    BY <1>4 DEF TakeAnswer, UnchangedServer, TypeOK, locals
  <2>2. held'[c] # NoText
    BY <2>1, LoginAnswers DEF CanRead
  <2>. QED
    BY <2>1, <2>2, AnswerRead DEF TypeOK, CanRead
<1>5. CASE NoAnswer(c)
  BY <1>5 DEF NoAnswer, AtEnd, Peer, UnchangedServer, TypeOK, locals
<1>6. CASE PeerClose(c)
  <2>1. /\ pc' = pc /\ message' = message /\ answer' = answer
        /\ ~awaiting'[c] /\ held'[c] = NoText
        /\ link'[c] = Closed(link[c], "client")
    BY <1>6 DEF PeerClose, UnchangedServer, TypeOK, locals
  <2>. QED
    BY <2>1, ClientClosed DEF TypeOK
<1>. QED
  BY <1>2, <1>3, <1>4, <1>5, <1>6 DEF PeerStep

-----------------------------------------------------------------------------
(* The table, and what handlers know of it *)

\* Only a clock step changes the time, and nobody is forgotten.
LEMMA HandleMonotone ==
  ASSUME TypeOK, NEW c \in Conns, Handle(c), ~Die
  PROVE  time' = time /\ loggedIn \subseteq loggedIn'
<1>1. CASE SendAnswer(c) \/ Disconnect(c)
  BY <1>1 DEF SendAnswer, Disconnect
<1>2. CASE ~(SendAnswer(c) \/ Disconnect(c))
  BY <1>2 DEF Handle, ReceiveAuth, ReceiveAuthWithoutPassword, ReceiveVerify,
     ReceiveOther, ReceiveEnd, Takes, CheckCredentials, StoreToken, ReadTtl,
     CheckExpiry, ReadUsername, DeleteOld, InsertNew
<1>. QED
  BY <1>1, <1>2

\* An INSERT keeps the table a function of the username when the token inserted is
\* the one of the username.
LEMMA InsertedSound ==
  ASSUME TypeOK, TableSound, BoundedLifetime,
         NEW u \in loggedIn \cup {Blank}, NEW e \in Nat, e <= time + Lifetime,
         NEW table, table = Inserted(u, generateToken(u), e)
  PROVE  /\ \A r, s \in table : r.username = s.username => r = s
         /\ \A r \in table : /\ r.token = generateToken(r.username)
                             /\ r.username \in loggedIn \cup {Blank}
         /\ \A r \in table : r.ttl <= time + Lifetime
<1>1. CASE table = tokens
  BY <1>1 DEF TableSound, BoundedLifetime
<1>2. CASE /\ \A r \in tokens : r.username # u
           /\ table = tokens \cup {Row(u, generateToken(u), e)}
  BY <1>2 DEF TableSound, BoundedLifetime, Row
<1>. QED
  BY <1>1, <1>2 DEF Inserted

LEMMA HandleTable ==
  ASSUME IInv, NEW c \in Conns, Handle(c), ~Die
  PROVE  TableSound' /\ \A r \in tokens' : r.ttl <= time' + Lifetime
<1>1. time' = time /\ loggedIn \subseteq loggedIn'
  BY HandleMonotone DEF IInv
<1>2. ASSUME tokens' \subseteq tokens
      PROVE  TableSound' /\ \A r \in tokens' : r.ttl <= time' + Lifetime
  BY <1>1, <1>2 DEF IInv, TableSound, BoundedLifetime
<1>3. ASSUME NEW u \in loggedIn \cup {Blank},
             tokens' = Inserted(u, generateToken(u), clock[c] + Lifetime)
      PROVE  TableSound' /\ \A r \in tokens' : r.ttl <= time' + Lifetime
  <2>1. /\ clock[c] + Lifetime \in Nat
        /\ clock[c] + Lifetime <= time + Lifetime
    BY ConstantsAssumption DEF IInv, TypeOK, Justified
  <2>. QED
    BY <1>1, <1>3, <2>1, InsertedSound DEF IInv, TableSound
<1>4. CASE StoreToken(c)
  <2>1. message[c].username \in loggedIn
    BY <1>4 DEF StoreToken, IInv, Justified
  <2>. QED
    BY <1>2, <1>3, <1>4, <2>1 DEF StoreToken
<1>5. CASE InsertNew(c)
  <2>1. username[c] \in loggedIn \cup {Blank}
    BY DEF IInv, Justified
  <2>. QED
    BY <1>2, <1>3, <1>5, <2>1 DEF InsertNew
<1>6. CASE DeleteOld(c)
  BY <1>2, <1>6 DEF DeleteOld
<1>7. CASE SendAnswer(c) \/ Disconnect(c)
  BY <1>2, <1>7 DEF SendAnswer, Disconnect
<1>8. CASE \/ ReceiveAuth(c) \/ ReceiveAuthWithoutPassword(c) \/ ReceiveVerify(c)
           \/ ReceiveOther(c) \/ ReceiveEnd(c) \/ CheckCredentials(c)
           \/ ReadTtl(c) \/ CheckExpiry(c) \/ ReadUsername(c)
  BY <1>2, <1>8 DEF ReceiveAuth, ReceiveAuthWithoutPassword, ReceiveVerify,
     ReceiveOther, ReceiveEnd, Takes, CheckCredentials, ReadTtl, CheckExpiry,
     ReadUsername
<1>. QED
  BY <1>4, <1>5, <1>6, <1>7, <1>8 DEF Handle

\* A row with the token of a VERIFY is that of a user who logged in, or of nobody.
LEMMA RowOfUser ==
  ASSUME TypeOK, TableSound, NEW c \in Conns, NEW r \in RowsOf(message[c].token)
  PROVE  /\ r.username \in loggedIn \cup {Blank}
         /\ message[c].token = generateToken(r.username)
  BY DEF TableSound, RowsOf

\* Nothing but VERIFIED reads VERIFIED.
LEMMA NotVerified ==
  /\ \A text \in ErrorTexts : Error(text) # Verified
  /\ \A u \in Names : generateToken(u) # Verified /\ NewToken(u) # Verified
  BY DEF ErrorTexts, Error, Verified, generateToken, NewToken

LEMMA HandleLocals ==
  ASSUME IInv, NEW c \in Conns, Handle(c), ~Die
  PROVE  Justified(c)' /\ ttl'[c] <= time' + Lifetime /\ VerifiedForLoggedIn(c)'
<1>1. time' = time /\ loggedIn \subseteq loggedIn' /\ TypeOK
  BY HandleMonotone DEF IInv
<1>2. InBranch(c) /\ Justified(c) /\ VerifiedForLoggedIn(c) /\ ttl[c] <= time + Lifetime
  BY DEF IInv, ConnInv, BoundedLifetime, VerifiedOnlyForLoggedIn
<1>3. time \in Nat /\ Lifetime \in Nat
  BY ConstantsAssumption DEF IInv, TypeOK
<1>. USE <1>1, <1>2, <1>3 DEF TypeOK, Justified, VerifiedForLoggedIn, Goto, Reply, peers, locals
<1>4. CASE ReceiveAuth(c)
  BY <1>4 DEF ReceiveAuth, Takes
<1>5. CASE ReceiveAuthWithoutPassword(c)
  BY <1>5, NotVerified DEF ReceiveAuthWithoutPassword, Takes, ErrorTexts
<1>6. CASE ReceiveVerify(c)
  BY <1>6 DEF ReceiveVerify, Takes
<1>7. CASE ReceiveOther(c)
  BY <1>7, NotVerified DEF ReceiveOther, Takes, ErrorTexts
<1>8. CASE ReceiveEnd(c)
  BY <1>8 DEF ReceiveEnd
<1>9. CASE CheckCredentials(c)
  <2>1. CASE /\ answer'[c] = Error("Authentication failed")
             /\ pc'[c] = "send"
             /\ UNCHANGED <<clock, loggedIn>>
    <3>1. answer'[c] # Verified
      BY <2>1, NotVerified DEF ErrorTexts
    <3>2. UNCHANGED <<ttl, username, message>>
      BY <1>9 DEF CheckCredentials
    <3>. QED
      BY <2>1, <3>1, <3>2
  <2>2. CASE pc'[c] = "store_token" /\ clock'[c] = time
             /\ message[c].username \in loggedIn'
    <3>1. UNCHANGED <<ttl, username, message>>
      BY <1>9 DEF CheckCredentials
    <3>. QED
      BY <2>2, <3>1
  <2>3. \/ /\ loggedIn' = loggedIn \cup {message[c].username}
           /\ clock'[c] = time /\ pc'[c] = "store_token"
        \/ /\ answer'[c] = Error("Authentication failed") /\ pc'[c] = "send"
           /\ UNCHANGED <<clock, loggedIn>>
    BY <1>9 DEF CheckCredentials
  <2>4. UNCHANGED message
    BY <1>9 DEF CheckCredentials
  <2>. QED
    BY <2>1, <2>2, <2>3, <2>4
<1>10. CASE StoreToken(c)
  BY <1>10 DEF StoreToken, generateToken, Verified
<1>11. CASE ReadTtl(c)
  <2>1. pc[c] = "read_ttl" /\ message[c].op = "VERIFY"
    BY <1>11 DEF ReadTtl, InBranch, Verifying
  <2>2. CASE answer'[c] = Error("Invalid token") /\ pc'[c] = "send" /\ ttl'[c] = ttl[c]
    <3>1. answer'[c] # Verified
      BY <2>2, NotVerified DEF ErrorTexts
    <3>. QED
      BY <1>11, <2>2, <3>1 DEF ReadTtl
  <2>3. UNCHANGED <<clock, username, message, loggedIn>>
    BY <1>11 DEF ReadTtl
  <2>4. CASE pc'[c] = "check_expiry" /\ ttl'[c] = ttl[c]
    BY <2>1, <2>3, <2>4
  <2>5. CASE pc'[c] = "check_expiry" /\ \E r \in RowsOf(message[c].token) : ttl'[c] = r.ttl
    <3>1. PICK r \in RowsOf(message[c].token) : ttl'[c] = r.ttl
      BY <2>5
    <3>2. r.username \in loggedIn \cup {Blank} /\ message[c].token = generateToken(r.username)
      BY <2>1, RowOfUser DEF IInv
    <3>3. r.ttl <= time + Lifetime
      BY DEF IInv, BoundedLifetime, RowsOf
    <3>. QED
      BY <2>3, <2>5, <3>1, <3>2, <3>3
  <2>. QED
    BY <1>11, <2>2, <2>4, <2>5 DEF ReadTtl
<1>12. CASE CheckExpiry(c)
  BY <1>12 DEF CheckExpiry, InBranch, Verifying
<1>13. CASE ReadUsername(c)
  <2>1. pc[c] = "read_username" /\ message[c].op = "VERIFY"
    BY <1>13 DEF ReadUsername, InBranch, Verifying
  <2>2. username'[c] \in loggedIn \cup {Blank}
    <3>1. TypeOK /\ TableSound /\ username[c] \in loggedIn \cup {Blank}
      BY DEF IInv, Justified
    <3>2. \A r \in RowsOf(message[c].token) : r.username \in loggedIn \cup {Blank}
      BY <3>1, RowOfUser
    <3>3. \/ \E r \in RowsOf(message[c].token) :
                username' = [username EXCEPT ![c] = r.username]
          \/ UNCHANGED username
      BY <1>13, Zenon DEF ReadUsername
    <3>. QED
      BY <3>1, <3>2, <3>3 DEF TypeOK
  <2>3. answer'[c] # Verified \/ pc'[c] # "send"
    BY <1>13, NotVerified DEF ReadUsername, ErrorTexts
  <2>4. pc'[c] \in {"delete_old", "send"} /\ UNCHANGED <<ttl, clock, message, loggedIn>>
    BY <1>13 DEF ReadUsername
  <2>. QED
    BY <2>2, <2>3, <2>4
<1>14. CASE DeleteOld(c)
  BY <1>14 DEF DeleteOld
<1>15. CASE InsertNew(c)
  BY <1>15 DEF InsertNew, NewToken, Verified
<1>16. CASE SendAnswer(c)
  BY <1>16 DEF SendAnswer, Forget, Reset
<1>17. CASE Disconnect(c)
  BY <1>17 DEF Disconnect, Forget, Reset
<1>. QED
  BY <1>4, <1>5, <1>6, <1>7, <1>8, <1>9, <1>10, <1>11, <1>12, <1>13, <1>14, <1>15,
     <1>16, <1>17, Zenon DEF Handle

-----------------------------------------------------------------------------
(* The inductive invariant *)

\* What IInv says of the table and of one connection.
LEMMA Parts ==
  ASSUME IInv
  PROVE  /\ TypeOK /\ TableSound
         /\ \A r \in tokens : r.ttl <= time + Lifetime
         /\ \A c \in Conns : /\ ConnInv(c) /\ Justified(c)
                             /\ ttl[c] <= time + Lifetime
                             /\ VerifiedForLoggedIn(c)
  BY DEF IInv, BoundedLifetime, VerifiedOnlyForLoggedIn

\* What a handler has read stands while the clock advances and users log in.
LEMMA LocalsFrame ==
  ASSUME TypeOK, TypeOK', NEW d \in Conns,
         Justified(d), ttl[d] <= time + Lifetime, VerifiedForLoggedIn(d),
         time <= time', loggedIn \subseteq loggedIn',
         pc'[d] = pc[d], message'[d] = message[d], ttl'[d] = ttl[d],
         clock'[d] = clock[d], username'[d] = username[d], answer'[d] = answer[d]
  PROVE  Justified(d)' /\ ttl'[d] <= time' + Lifetime /\ VerifiedForLoggedIn(d)'
<1>1. /\ time \in Nat /\ time' \in Nat /\ Lifetime \in Nat
      /\ ttl[d] \in Nat /\ clock[d] \in Nat
  BY ConstantsAssumption DEF TypeOK
<1>2. ttl'[d] <= time' + Lifetime /\ clock'[d] <= time'
  BY <1>1 DEF Justified
<1>. QED
  BY <1>2 DEF Justified, VerifiedForLoggedIn

LEMMA TableFrame ==
  ASSUME TypeOK, TypeOK', TableSound, \A r \in tokens : r.ttl <= time + Lifetime,
         tokens' = tokens, loggedIn' = loggedIn, time <= time'
  PROVE  TableSound' /\ \A r \in tokens' : r.ttl <= time' + Lifetime
<1>1. /\ time \in Nat /\ time' \in Nat /\ Lifetime \in Nat
      /\ \A r \in tokens : r.ttl \in Nat
  BY ConstantsAssumption DEF TypeOK, Rows
<1>2. \A r \in tokens' : r.ttl <= time' + Lifetime
  BY <1>1
<1>. QED
  BY <1>2 DEF TableSound

LEMMA InitInv ==
  ASSUME Init
  PROVE  IInv
<1>1. TypeOK
  BY TypeInit
<1>2. TableSound
  BY ConstantsAssumption DEF Init, TableSound, Row
<1>3. \A r \in tokens : r.ttl <= time + Lifetime
  BY ConstantsAssumption DEF Init, Row
<1>4. ASSUME NEW c \in Conns
      PROVE  /\ ConnInv(c) /\ Justified(c)
             /\ ttl[c] <= time + Lifetime
             /\ VerifiedForLoggedIn(c)
  <2>1. /\ pc[c] = "idle" /\ link[c] = ClosedLink /\ ttl[c] = 0 /\ clock[c] = 0
        /\ username[c] = Blank /\ held[c] = NoText /\ ~awaiting[c] /\ time = 0
    BY DEF Init
  <2>2. ConnInv(c)
    BY <2>1 DEF ConnInv, InBranch, InUse, StartsClean, FirstAnswer, Verifying, ClosedLink
  <2>3. Justified(c) /\ ttl[c] <= time + Lifetime /\ VerifiedForLoggedIn(c)
    BY <2>1, ConstantsAssumption DEF Justified, VerifiedForLoggedIn
  <2>. QED
    BY <2>2, <2>3
<1>. QED
  BY <1>1, <1>2, <1>3, <1>4 DEF IInv, BoundedLifetime, VerifiedOnlyForLoggedIn

\* The death of the process leaves the table and forgets the locals.
LEMMA DieInv ==
  ASSUME IInv, Die
  PROVE  IInv'
<1>1. TypeOK /\ TypeOK'
  BY DieTyped DEF IInv
<1>2. TableSound' /\ \A r \in tokens' : r.ttl <= time' + Lifetime
  BY <1>1, TableFrame, Parts DEF Die, TypeOK
<1>3. ASSUME NEW d \in Conns
      PROVE  /\ ConnInv(d)' /\ Justified(d)'
             /\ ttl'[d] <= time' + Lifetime /\ VerifiedForLoggedIn(d)'
  <2>1. ConnInv(d)'
    BY <1>1, DieConn, Parts
  <2>2. Justified(d)' /\ ttl'[d] <= time' + Lifetime /\ VerifiedForLoggedIn(d)'
    BY <1>1, ConstantsAssumption DEF Die, TypeOK, Justified, VerifiedForLoggedIn
  <2>. QED
    BY <2>1, <2>2
<1>. QED
  BY <1>1, <1>2, <1>3 DEF IInv, BoundedLifetime, VerifiedOnlyForLoggedIn

LEMMA HandleInv ==
  ASSUME IInv, NEW c \in Conns, Handle(c)
  PROVE  IInv'
<1>1. CASE Die
  BY <1>1, DieInv
<1>2. CASE ~Die
  <2>1. TypeOK /\ TypeOK'
    BY HandleTyped DEF IInv, ConnInv
  <2>2. TableSound' /\ \A r \in tokens' : r.ttl <= time' + Lifetime
    BY <1>2, HandleTable
  <2>3. ConnInv(c)'
    BY <1>2, <2>1, HandleConn DEF IInv
  <2>4. Justified(c)' /\ ttl'[c] <= time' + Lifetime /\ VerifiedForLoggedIn(c)'
    BY <1>2, HandleLocals
  <2>5. ASSUME NEW d \in Conns, d # c
        PROVE  /\ ConnInv(d)' /\ Justified(d)'
               /\ ttl'[d] <= time' + Lifetime /\ VerifiedForLoggedIn(d)'
    <3>1. /\ ConnInv(d) /\ Justified(d)
          /\ ttl[d] <= time + Lifetime /\ VerifiedForLoggedIn(d)
      BY Parts
    <3>2. /\ pc'[d] = pc[d] /\ link'[d] = link[d] /\ message'[d] = message[d]
          /\ ttl'[d] = ttl[d] /\ clock'[d] = clock[d] /\ username'[d] = username[d]
          /\ answer'[d] = answer[d] /\ held'[d] = held[d] /\ awaiting'[d] = awaiting[d]
      BY <1>2, <2>1, <2>5, HandleFrame
    <3>3. time <= time' /\ loggedIn \subseteq loggedIn'
      BY <1>2, <2>1, HandleMonotone DEF TypeOK
    <3>4. ConnInv(d)'
      BY <3>1, <3>2, ConnFrame
    <3>. QED
      BY <2>1, <3>1, <3>2, <3>3, <3>4, LocalsFrame
  <2>. QED
    BY <2>1, <2>2, <2>3, <2>4, <2>5 DEF IInv, BoundedLifetime, VerifiedOnlyForLoggedIn
<1>. QED
  BY <1>1, <1>2

\* A new connection is clean.
LEMMA ListenInv ==
  ASSUME IInv, NEW c \in Conns, Listen(c)
  PROVE  IInv'
<1>1. TypeOK /\ TypeOK'
  BY ListenTyped DEF IInv
<1>2. /\ link[c] = ClosedLink /\ link'[c] = NewLink
      /\ pc'[c] = "receive" /\ pc[c] = "idle"
      /\ UNCHANGED <<tokens, time, message, ttl, clock, username, answer, loggedIn,
                     held, awaiting>>
  <2>1. pc[c] = "idle"
    BY DEF Listen, IInv, ConnInv, InUse, ClosedLink
  <2>. QED
    BY <1>1, <2>1 DEF Listen, Goto, TypeOK, locals, peers
<1>3. TableSound' /\ \A r \in tokens' : r.ttl <= time' + Lifetime
  BY <1>1, <1>2, TableFrame, Parts DEF TypeOK
<1>4. ConnInv(c)'
  <2>1. held[c] = NoText /\ ~awaiting[c]
    BY <1>2, Parts DEF ConnInv, StartsClean, ClosedLink
  <2>. QED
    BY <1>2, <2>1
       DEF ConnInv, InBranch, InUse, StartsClean, FirstAnswer, Verifying, NewLink
<1>5. Justified(c)' /\ ttl'[c] <= time' + Lifetime /\ VerifiedForLoggedIn(c)'
  <2>1. Justified(c) /\ ttl[c] <= time + Lifetime
    BY Parts
  <2>. QED
    BY <1>2, <2>1 DEF Justified, VerifiedForLoggedIn
<1>6. ASSUME NEW d \in Conns, d # c
      PROVE  /\ ConnInv(d)' /\ Justified(d)'
             /\ ttl'[d] <= time' + Lifetime /\ VerifiedForLoggedIn(d)'
  <2>1. /\ ConnInv(d) /\ Justified(d)
        /\ ttl[d] <= time + Lifetime /\ VerifiedForLoggedIn(d)
    BY Parts
  <2>2. pc'[d] = pc[d] /\ link'[d] = link[d]
    BY <1>1, <1>6 DEF Listen, Goto, TypeOK
  <2>3. ConnInv(d)'
    BY <1>2, <2>1, <2>2, ConnFrame
  <2>. QED
    BY <1>1, <1>2, <2>1, <2>2, <2>3, LocalsFrame DEF TypeOK
<1>. QED
  BY <1>1, <1>3, <1>4, <1>5, <1>6 DEF IInv, BoundedLifetime, VerifiedOnlyForLoggedIn

\* A peer touches its connection and nothing else.
LEMMA PeerInv ==
  ASSUME IInv, NEW c \in Conns, PeerStep(c)
  PROVE  IInv'
<1>1. TypeOK /\ TypeOK'
  BY PeerTyped DEF IInv, ConnInv
<1>2. UNCHANGED <<tokens, time, pc, message, ttl, clock, username, answer, loggedIn>>
  BY DEF PeerStep, AskLogin, AskVerify, Ask, TakeAnswer, NoAnswer, PeerClose,
         UnchangedServer, locals
<1>3. TableSound' /\ \A r \in tokens' : r.ttl <= time' + Lifetime
  BY <1>1, <1>2, TableFrame, Parts DEF TypeOK
<1>4. ASSUME NEW d \in Conns
      PROVE  /\ ConnInv(d)' /\ Justified(d)'
             /\ ttl'[d] <= time' + Lifetime /\ VerifiedForLoggedIn(d)'
  <2>1. /\ ConnInv(d) /\ Justified(d)
        /\ ttl[d] <= time + Lifetime /\ VerifiedForLoggedIn(d)
    BY Parts
  <2>2. Justified(d)' /\ ttl'[d] <= time' + Lifetime /\ VerifiedForLoggedIn(d)'
    BY <1>1, <1>2, <2>1, LocalsFrame DEF TypeOK
  <2>3. CASE d = c
    BY <1>1, <2>1, <2>2, <2>3, PeerConn
  <2>4. CASE d # c
    BY <1>1, <2>1, <2>2, <2>4, PeerFrame, ConnFrame
  <2>. QED
    BY <2>3, <2>4
<1>. QED
  BY <1>1, <1>3, <1>4 DEF IInv, BoundedLifetime, VerifiedOnlyForLoggedIn

\* Steps that touch no connection: the clock, a restart, stuttering.
LEMMA QuietInv ==
  ASSUME IInv, Tick \/ Restart \/ UNCHANGED vars
  PROVE  IInv'
<1>1. /\ UNCHANGED <<tokens, link, pc, message, ttl, clock, username, answer,
                     loggedIn, held, awaiting>>
  BY DEF Tick, Restart, vars, locals, peers
<1>2. TypeOK /\ TypeOK' /\ time <= time'
  <2>1. time' \in Nat /\ time <= time'
    BY DEF Tick, Restart, vars, IInv, TypeOK
  <2>2. up' \in BOOLEAN
    BY DEF Tick, Restart, vars, IInv, TypeOK
  <2>. QED
    BY <1>1, <2>1, <2>2 DEF IInv, TypeOK
<1>3. TableSound' /\ \A r \in tokens' : r.ttl <= time' + Lifetime
  BY <1>1, <1>2, TableFrame, Parts
<1>4. ASSUME NEW d \in Conns
      PROVE  /\ ConnInv(d)' /\ Justified(d)'
             /\ ttl'[d] <= time' + Lifetime /\ VerifiedForLoggedIn(d)'
  BY <1>1, <1>2, Parts, ConnFrame, LocalsFrame
<1>. QED
  BY <1>2, <1>3, <1>4 DEF IInv, BoundedLifetime, VerifiedOnlyForLoggedIn

LEMMA NextInv ==
  ASSUME IInv, [Next]_vars
  PROVE  IInv'
<1>1. CASE \E c \in Conns : Listen(c) \/ Handle(c) \/ PeerStep(c)
  BY <1>1, ListenInv, HandleInv, PeerInv
<1>2. CASE Crash
  BY <1>2, DieInv DEF Crash
<1>3. CASE Tick \/ Restart \/ UNCHANGED vars
  BY <1>3, QuietInv
<1>. QED
  BY <1>1, <1>2, <1>3 DEF Next

-----------------------------------------------------------------------------
(* Theorems *)

\* The inductive invariant holds of every behaviour of the threads of
\* auth_server.cpp.
THEOREM Invariant == Spec => []IInv
<1>1. Init => IInv
  BY InitInv
<1>2. IInv /\ [Next]_vars => IInv'
  BY NextInv
<1>. QED
  BY <1>1, <1>2, PTL DEF Spec

\* Every variable keeps its type: no read of a row or of a message yields
\* anything the branch that uses it does not expect.
THEOREM TypeCorrect == Spec => []TypeOK
<1>1. IInv => TypeOK
  BY DEF IInv
<1>. QED
  BY <1>1, Invariant, PTL

\* However the statements of the handlers interleave and whichever of them fail,
\* the table stays a function from users to expiries (the DELETE and the INSERTs
\* of auth_server.cpp:43-44, 81-85).
THEOREM TableSoundness == Spec => []TableSound
<1>1. IInv => TableSound
  BY DEF IInv
<1>. QED
  BY <1>1, Invariant, PTL

\* VERIFIED (auth_server.cpp:63-65) is said of the tokens of users who have logged
\* in and of no others.
THEOREM VerifiedSoundness == Spec => []VerifiedOnlyForLoggedIn
<1>1. IInv => VerifiedOnlyForLoggedIn
  BY DEF IInv
<1>. QED
  BY <1>1, Invariant, PTL

\* No row outlives the clock by more than a lifetime (auth_server.cpp:41, 78).
THEOREM LifetimeBounded == Spec => []BoundedLifetime
<1>1. IInv => BoundedLifetime
  BY DEF IInv
<1>. QED
  BY <1>1, Invariant, PTL

\* What a session of the proxy keeps for its token is an answer to an AUTH of its
\* own (proxy.cpp:31-39).
THEOREM FirstAnswerSoundness == Spec => []FirstAnswerIsForLogin
<1>1. IInv => FirstAnswerIsForLogin
  BY DEF IInv, ConnInv, FirstAnswerIsForLogin
<1>. QED
  BY <1>1, Invariant, PTL
=============================================================================
