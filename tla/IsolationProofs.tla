-------------------------- MODULE IsolationProofs --------------------------
(***************************************************************************)
(* What LoggedInKeepsRow needs, and what AuthServer needs to implement         *)
(* TokenService.  A renewal is a DELETE and an INSERT under a name read before   *)
(* (auth_server.cpp:71-85); between them the row is missing, and nothing but the  *)
(* handler's own progress brings it back.  If no query fails, the process lives,  *)
(* and no user logs in on two connections, it does: requests on one connection    *)
(* are served one after the other, and nobody else touches the row.               *)
(***************************************************************************)
EXTENDS AuthServerProofs, AuthServerImplements

\* A read of a text names user u: it is an AUTH of u, or a VERIFY of u's token.
About(r, u) ==
  \/ r.op = "AUTH" /\ r.username = u
  \/ r.op = "VERIFY" /\ r.token = generateToken(u)

\* The users of connection c: those that some read of what its peer types names.
Own(c) ==
  {u \in Names : \E l \in Logins[c] : \E k \in DOMAIN Reads(l) : About(Reads(l)[k], u)}

\* No query fails, no two connections name the same user, and none names nobody.
Isolated ==
  /\ ~DbFaults
  /\ \A c, d \in Conns : \A u \in Own(c) \cap Own(d) : c = d
  /\ \A c \in Conns : Blank \notin Own(c)

\* A text that is a token at all is the token of a user of connection c.
OwnText(c, text) == text.kind = "token" => text.of \in Own(c)

OwnRequests(c) ==
  {m \in Requests : /\ m.op = "AUTH" => m.username \in Own(c)
                    /\ m.op = "VERIFY" => OwnText(c, m.token)}

OwnAnswers(c) == {a \in Answers : OwnText(c, a)}

\* Nothing in connection c or its handler is about the users of another.
Apart(c) ==
  /\ link[c] \in LinkType(OwnRequests(c), OwnAnswers(c))
  /\ message[c] \in OwnRequests(c)
  /\ answer[c] \in OwnAnswers(c)
  /\ OwnText(c, held[c])

\* User u's row is there, or the next statement of a handler inserts it.
Kept(u) ==
  \/ RowsOf(generateToken(u)) # {}
  \/ \E c \in Conns : pc[c] = "store_token" /\ message[c].username = u
  \/ \E c \in Conns : pc[c] = "insert_new" /\ message[c].token = generateToken(u)

\* A handler that renews the token of a user who has logged in has found its row.
Restores(c) ==
  pc[c] \in {"delete_old", "insert_new"} =>
    \A u \in loggedIn : message[c].token = generateToken(u) => username[c] = u

IsolatedIInv ==
  /\ IInv
  /\ \A c \in Conns : Apart(c) /\ Restores(c)
  /\ \A u \in loggedIn : Kept(u)

-----------------------------------------------------------------------------
(* Connections keep to their own users *)

\* Each read of a login of connection c is about its users.
LEMMA OwnReads ==
  ASSUME NEW c \in Conns, NEW l \in Logins[c]
  PROVE  Reads(l) \in Seq(OwnRequests(c))
<1>1. l \in LoginTexts
  BY ConstantsAssumption
<1>2. Reads(l) \in Seq(Requests)
  BY <1>1, ReadsLogin
<1>3. PICK reads : reads = Reads(l)
  OBVIOUS
<1>4. ASSUME NEW k \in DOMAIN reads PROVE reads[k] \in OwnRequests(c)
  <2>1. reads[k] \in Requests
    BY <1>2, <1>3
  <2>2. PICK r \in Requests : r = reads[k]
    BY <2>1
  <2>3. r.op = "AUTH" => r.username \in Own(c)
    <3>1. r.op = "AUTH" => r.username \in Names
      BY AuthMessage DEF Names
    <3>. QED BY <1>3, <2>2, <3>1 DEF Own, About
  <2>4. r.op = "VERIFY" => OwnText(c, r.token)
    <3>1. CASE r.op = "VERIFY" /\ r.token.kind = "token"
      <4>1. r.token.of \in Names /\ r.token = generateToken(r.token.of)
        BY <3>1, VerifyMessage DEF AuthAnswers, Tokens, Names, generateToken
      <4>. QED BY <1>3, <2>2, <3>1, <4>1 DEF Own, About, OwnText
    <3>. QED BY <3>1 DEF OwnText
  <2>. QED BY <2>2, <2>3, <2>4 DEF OwnRequests
<1>5. reads \in Seq(OwnRequests(c))
  BY <1>2, <1>3, <1>4
<1>. QED BY <1>3, <1>5

\* In isolation a VERIFY of connection c carries an answer to an AUTH: the token of nobody
\* is not among what its peer types.
LEMMA OwnVerify ==
  ASSUME Isolated, NEW c \in Conns, NEW m \in OwnRequests(c), m.op = "VERIFY"
  PROVE  m.token \in AuthAnswers
<1>1. m.token \in AuthAnswers \cup Tokens /\ OwnText(c, m.token)
  BY VerifyMessage DEF OwnRequests
<1>2. Blank \notin Own(c)
  BY DEF Isolated
<1>. QED BY <1>1, <1>2 DEF OwnText, AuthAnswers, Tokens, Names

\* The texts that name no token are every connection's.
LEMMA CommonTexts ==
  ASSUME NEW c \in Conns
  PROVE  /\ Verified \in OwnAnswers(c)
         /\ \A text \in ErrorTexts : Error(text) \in OwnAnswers(c)
         /\ \A u \in Names : NewToken(u) \in OwnAnswers(c)
         /\ Rest \in OwnRequests(c)
         /\ OwnText(c, NoText)
<1>1. Verified \in OwnAnswers(c) /\ \A u \in Names : NewToken(u) \in OwnAnswers(c)
  BY AnswerTyped DEF OwnAnswers, OwnText, Verified, NewToken
<1>2. \A text \in ErrorTexts : Error(text) \in OwnAnswers(c)
  BY AnswerTyped DEF OwnAnswers, OwnText, Error, ErrorTexts
<1>3. Rest \in OwnRequests(c) /\ OwnText(c, NoText)
  BY DEF OwnRequests, OwnText, Requests, Rest, NoText
<1>. QED
  BY <1>1, <1>2, <1>3

\* A step that leaves connection d and its handler's texts alone.
LEMMA ApartFrame ==
  ASSUME NEW d \in Conns, Apart(d), link'[d] = link[d], message'[d] = message[d],
         answer'[d] = answer[d], held'[d] = held[d]
  PROVE  Apart(d)'
  BY DEF Apart, OwnText, OwnRequests, OwnAnswers, Own

LEMMA TakesApart ==
  ASSUME TypeOK, NEW c \in Conns, Apart(c), NEW m \in Requests, Takes(c, m)
  PROVE  /\ link'[c] \in LinkType(OwnRequests(c), OwnAnswers(c))
         /\ message'[c] \in OwnRequests(c)
         /\ OwnText(c, held'[c])
<1>1. /\ link'[c] = AfterRead(link[c], "server")
      /\ message'[c] = Head(link[c].in["server"])
      /\ CanRead(link[c], "server")
      /\ held'[c] = held[c]
  BY DEF Takes, TypeOK, peers
<1>2. link[c] \in LinkType(OwnRequests(c), OwnAnswers(c)) /\ OwnText(c, held[c])
  BY DEF Apart
<1>. QED
  BY <1>1, <1>2, ServerReadTyped

\* Apart(c)' from what its parts are in the next state.
LEMMA ApartNext ==
  ASSUME NEW c \in Conns,
         link'[c] \in LinkType(OwnRequests(c), OwnAnswers(c)),
         message'[c] \in OwnRequests(c), answer'[c] \in OwnAnswers(c),
         OwnText(c, held'[c])
  PROVE  Apart(c)'
  BY DEF Apart, OwnText, OwnRequests, OwnAnswers, Own

LEMMA HandleApart ==
  ASSUME IInv, NEW c \in Conns, Apart(c), Handle(c), ~Die
  PROVE  Apart(c)'
<1>1. TypeOK /\ InBranch(c)
  BY DEF IInv, ConnInv
<1>2. /\ link[c] \in LinkType(OwnRequests(c), OwnAnswers(c))
      /\ message[c] \in OwnRequests(c) /\ answer[c] \in OwnAnswers(c)
      /\ OwnText(c, held[c])
  BY DEF Apart
<1>3. ASSUME NEW m \in Requests, Takes(c, m), answer'[c] \in OwnAnswers(c)
      PROVE  Apart(c)'
  BY <1>1, <1>3, TakesApart, ApartNext
<1>4. ASSUME UNCHANGED <<link, message, held>>, answer'[c] \in OwnAnswers(c)
      PROVE  Apart(c)'
  BY <1>2, <1>4, ApartNext
<1>5. CASE \E m \in Requests : Takes(c, m) /\ UNCHANGED answer
  BY <1>2, <1>3, <1>5
<1>6. CASE \E m \in Requests : Takes(c, m)
             /\ \E text \in ErrorTexts : Reply(c, Error(text))
  BY <1>1, <1>3, <1>6, CommonTexts DEF Reply, TypeOK
<1>7. CASE UNCHANGED <<link, message, held, answer>>
  BY <1>2, <1>4, <1>7
<1>8. CASE /\ UNCHANGED <<link, message, held>>
           /\ \E a \in OwnAnswers(c) : Reply(c, a)
  BY <1>1, <1>4, <1>8 DEF Reply, TypeOK
<1>9. CASE ReceiveAuth(c) \/ ReceiveVerify(c)
  BY <1>5, <1>9 DEF ReceiveAuth, ReceiveVerify
<1>10. CASE ReceiveAuthWithoutPassword(c) \/ ReceiveOther(c)
  BY <1>6, <1>10 DEF ReceiveAuthWithoutPassword, ReceiveOther, ErrorTexts
<1>11. CASE ReceiveEnd(c) \/ DeleteOld(c)
  BY <1>7, <1>11 DEF ReceiveEnd, DeleteOld, locals, peers
<1>12. CASE CheckCredentials(c)
  BY <1>7, <1>8, <1>12, CommonTexts DEF CheckCredentials, ErrorTexts, peers
<1>13. CASE StoreToken(c)
  <2>1. message[c].username \in Own(c) /\ message[c].username \in Users
    BY <1>1, <1>2, <1>13, AuthMessage DEF StoreToken, InBranch, OwnRequests, TypeOK
  <2>2. generateToken(message[c].username) \in OwnAnswers(c)
    BY <2>1, AnswerTyped DEF OwnAnswers, OwnText, generateToken, Names
  <2>. QED
    BY <1>8, <1>13, <2>2 DEF StoreToken, peers
<1>14. CASE ReadTtl(c)
  BY <1>7, <1>8, <1>14, CommonTexts DEF ReadTtl, ErrorTexts, peers
<1>15. CASE CheckExpiry(c)
  BY <1>7, <1>8, <1>15, CommonTexts DEF CheckExpiry, peers
<1>16. CASE ReadUsername(c)
  BY <1>7, <1>8, <1>16, CommonTexts DEF ReadUsername, ErrorTexts, peers
<1>17. CASE InsertNew(c)
  <2>1. NewToken(username[c]) \in OwnAnswers(c)
    BY <1>1, CommonTexts DEF TypeOK
  <2>. QED
    BY <1>8, <1>17, <2>1 DEF InsertNew, peers
<1>18. ASSUME NEW l \in LinkType(OwnRequests(c), OwnAnswers(c)),
              link' = [link EXCEPT ![c] = l], Forget(c), UNCHANGED peers
       PROVE  Apart(c)'
  <2>1. /\ link'[c] = l /\ message'[c] = Rest /\ answer'[c] = Verified
        /\ held'[c] = held[c]
    BY <1>1, <1>18 DEF Forget, Reset, TypeOK, peers
  <2>. QED
    BY <1>2, <2>1, CommonTexts, ApartNext
<1>19. CASE SendAnswer(c)
  <2>1. PICK o \in WriteOutcomes(link[c], "server", <<answer[c]>>) :
               link' = [link EXCEPT ![c] = o.link] /\ Forget(c) /\ UNCHANGED peers
    BY <1>19, Zenon DEF SendAnswer
  <2>2. <<answer[c]>> \in Seq(OwnAnswers(c))
    BY <1>2
  <2>3. o.link \in LinkType(OwnRequests(c), OwnAnswers(c))
    BY <1>2, <2>2, ServerWriteTyped
  <2>. QED
    BY <1>18, <2>1, <2>3
<1>20. CASE Disconnect(c)
  <2>1. PICK o \in CloseOutcomes(link[c], "server") :
               link' = [link EXCEPT ![c] = o.link] /\ Forget(c) /\ UNCHANGED peers
    BY <1>20, Zenon DEF Disconnect
  <2>2. o.link \in LinkType(OwnRequests(c), OwnAnswers(c))
    BY <1>2, CloseTyped DEF Ends
  <2>. QED
    BY <1>18, <2>1, <2>2
<1>. QED
  BY <1>9, <1>10, <1>11, <1>12, <1>13, <1>14, <1>15, <1>16, <1>17, <1>19, <1>20,
     Zenon DEF Handle

\* A session asks for its own users and presents what it was told.
LEMMA PeerApart ==
  ASSUME IInv, NEW c \in Conns, Apart(c), PeerStep(c)
  PROVE  Apart(c)'
<1>1. TypeOK
  BY DEF IInv
<1>2. /\ link[c] \in LinkType(OwnRequests(c), OwnAnswers(c))
      /\ message[c] \in OwnRequests(c) /\ answer[c] \in OwnAnswers(c)
      /\ OwnText(c, held[c])
  BY DEF Apart
<1>3. UNCHANGED <<message, answer>>
  BY DEF PeerStep, AskLogin, AskVerify, Ask, TakeAnswer, NoAnswer, PeerClose,
         UnchangedServer, locals
<1>4. ASSUME link'[c] \in LinkType(OwnRequests(c), OwnAnswers(c)),
             OwnText(c, held'[c])
      PROVE  Apart(c)'
  BY <1>2, <1>3, <1>4, ApartNext
<1>5. ASSUME NEW r, Ask(c, r), Reads(r) \in Seq(OwnRequests(c))
      PROVE  Apart(c)'
  <2>1. PICK o \in WriteOutcomes(link[c], "client", Reads(r)) :
               link' = [link EXCEPT ![c] = o.link]
    BY <1>5 DEF Ask
  <2>2. o.link \in LinkType(OwnRequests(c), OwnAnswers(c))
    BY <1>2, <1>5, ClientWriteTyped
  <2>3. link'[c] = o.link /\ held' = held
    BY <1>1, <1>5, <2>1 DEF Ask, TypeOK
  <2>. QED
    BY <1>2, <1>4, <2>2, <2>3
<1>6. CASE \E r \in Logins[c] : AskLogin(c, r)
  <2>1. PICK r \in Logins[c] : Ask(c, r)
    BY <1>6 DEF AskLogin
  <2>. QED
    BY <1>5, <2>1, OwnReads
<1>7. CASE AskVerify(c)
  <2>1. held[c] \in AuthAnswers
    BY <1>1, <1>7 DEF AskVerify, TypeOK
  <2>2. Verify(held[c]) \in OwnRequests(c)
    BY <1>2, <2>1 DEF OwnRequests, Requests, Verify
  <2>3. Reads(Verify(held[c])) = <<Verify(held[c])>>
    BY DEF Reads, Verify
  <2>4. <<Verify(held[c])>> \in Seq(OwnRequests(c))
    <3>1. PICK r \in OwnRequests(c) : r = Verify(held[c])
      BY <2>2
    <3>. QED BY <3>1
  <2>. QED
    BY <1>5, <1>7, <2>3, <2>4 DEF AskVerify
<1>8. CASE TakeAnswer(c)
  <2>1. /\ link'[c] = AfterRead(link[c], "client")
        /\ CanRead(link[c], "client")
        /\ held'[c] \in {held[c], Head(link[c].in["client"])}
    BY <1>1, <1>8 DEF TakeAnswer, TypeOK
  <2>2. /\ link'[c] \in LinkType(OwnRequests(c), OwnAnswers(c))
        /\ Head(link[c].in["client"]) \in OwnAnswers(c)
    BY <1>2, <2>1, ClientReadTyped
  <2>. QED
    BY <1>2, <1>4, <2>1, <2>2 DEF OwnAnswers
<1>9. CASE NoAnswer(c)
  BY <1>2, <1>4, <1>9 DEF NoAnswer
<1>10. CASE PeerClose(c)
  <2>1. link'[c] = Closed(link[c], "client") /\ held'[c] = NoText
    BY <1>1, <1>10 DEF PeerClose, TypeOK
  <2>2. Closed(link[c], "client") \in LinkType(OwnRequests(c), OwnAnswers(c))
    BY <1>2, ClosedTyped DEF Ends
  <2>. QED
    BY <1>4, <2>1, <2>2, CommonTexts
<1>. QED
  BY <1>6, <1>7, <1>8, <1>9, <1>10 DEF PeerStep

-----------------------------------------------------------------------------
(* The table *)

\* A token that is a user's own names that user.
LEMMA TokenOwner ==
  ASSUME NEW c \in Conns, message[c] \in OwnRequests(c), message[c].op = "VERIFY",
         NEW u, message[c].token = generateToken(u)
  PROVE  u \in Own(c)
  BY DEF OwnRequests, OwnText, generateToken

\* Whom a handler is working for.
LEMMA WorksForOwn ==
  ASSUME IInv, NEW c \in Conns, Apart(c), NEW u
  PROVE  /\ pc[c] \in Verifying /\ message[c].token = generateToken(u) => u \in Own(c)
         /\ pc[c] \in {"check_credentials", "store_token"} => message[c].username \in Own(c)
<1>1. InBranch(c) /\ message[c] \in OwnRequests(c)
  BY DEF IInv, ConnInv, Apart
<1>. QED
  BY <1>1, TokenOwner DEF InBranch, OwnRequests

\* After an INSERT of a user's own token the user's row is there, inserted now or
\* found.
LEMMA InsertedKeeps ==
  ASSUME TableSound, NEW u, NEW e, tokens' = Inserted(u, generateToken(u), e)
  PROVE  RowsOf(generateToken(u))' # {} /\ tokens \subseteq tokens'
<1>1. CASE \E r \in tokens : r.username = u \/ r.token = generateToken(u)
  <2>1. PICK r \in tokens : r.username = u \/ r.token = generateToken(u)
    BY <1>1
  <2>2. r.token = generateToken(u) /\ tokens' = tokens
    BY <1>1, <2>1 DEF Inserted, TableSound
  <2>. QED
    BY <2>1, <2>2 DEF RowsOf
<1>2. CASE ~ \E r \in tokens : r.username = u \/ r.token = generateToken(u)
  <2>1. tokens' = tokens \cup {Row(u, generateToken(u), e)}
    BY <1>2 DEF Inserted
  <2>2. Row(u, generateToken(u), e).token = generateToken(u)
    BY DEF Row
  <2>. QED
    BY <2>1, <2>2 DEF RowsOf
<1>. QED
  BY <1>1, <1>2

\* A row that is there, and another handler's INSERT that is due, are still there
\* after a step that deletes nothing.
LEMMA KeptFrame ==
  ASSUME NEW u, NEW c \in Conns, Kept(u), tokens \subseteq tokens',
         \A d \in Conns \ {c} : pc'[d] = pc[d] /\ message'[d] = message[d],
         ~(pc[c] = "store_token" /\ message[c].username = u),
         ~(pc[c] = "insert_new" /\ message[c].token = generateToken(u))
  PROVE  Kept(u)'
<1>1. CASE RowsOf(generateToken(u)) # {}
  BY <1>1 DEF Kept, RowsOf
<1>2. CASE \E d \in Conns : pc[d] = "store_token" /\ message[d].username = u
  BY <1>2 DEF Kept
<1>3. CASE \E d \in Conns : pc[d] = "insert_new" /\ message[d].token = generateToken(u)
  BY <1>3 DEF Kept
<1>. QED
  BY <1>1, <1>2, <1>3 DEF Kept

\* The users a handler's step adds.
LEMMA HandleLogin ==
  ASSUME IInv, NEW c \in Conns, Handle(c), ~Die, NEW u \in loggedIn', u \notin loggedIn
  PROVE  /\ pc[c] = "check_credentials" /\ pc'[c] = "store_token"
         /\ message[c].username = u /\ message' = message
<1>1. CASE CheckCredentials(c)
  BY <1>1 DEF CheckCredentials, Goto, IInv, TypeOK
<1>2. CASE SendAnswer(c) \/ Disconnect(c)
  BY <1>2, Zenon DEF SendAnswer, Disconnect
<1>3. CASE ~(CheckCredentials(c) \/ SendAnswer(c) \/ Disconnect(c))
  BY <1>3 DEF Handle, ReceiveAuth, ReceiveAuthWithoutPassword, ReceiveVerify,
     ReceiveOther, ReceiveEnd, Takes, StoreToken, ReadTtl, CheckExpiry,
     ReadUsername, DeleteOld, InsertNew
<1>. QED
  BY <1>1, <1>2, <1>3

\* The statements that change the table.
LEMMA HandleTokens ==
  ASSUME NEW c \in Conns, Handle(c), ~Die
  PROVE  \/ StoreToken(c) \/ DeleteOld(c) \/ InsertNew(c)
         \/ /\ tokens' = tokens
            /\ pc[c] \notin {"store_token", "insert_new"}
<1>1. CASE SendAnswer(c) \/ Disconnect(c)
  BY <1>1, Zenon DEF SendAnswer, Disconnect
<1>2. CASE ~(SendAnswer(c) \/ Disconnect(c))
  BY <1>2 DEF Handle, ReceiveAuth, ReceiveAuthWithoutPassword, ReceiveVerify,
     ReceiveOther, ReceiveEnd, Takes, CheckCredentials, ReadTtl, CheckExpiry,
     ReadUsername
<1>. QED
  BY <1>1, <1>2

LEMMA HandleKept ==
  ASSUME IsolatedIInv, ~DbFaults, NEW c \in Conns, Handle(c), ~Die,
         NEW u \in loggedIn'
  PROVE  Kept(u)'
<1>1. IInv /\ TypeOK /\ TableSound
  BY DEF IsolatedIInv, IInv
<1>2. \A d \in Conns \ {c} : pc'[d] = pc[d] /\ message'[d] = message[d]
  BY <1>1, HandleFrame
<1>3. CASE u \notin loggedIn
  BY <1>1, <1>3, HandleLogin DEF Kept
<1>4. CASE u \in loggedIn
  <2>1. Kept(u)
    BY <1>4 DEF IsolatedIInv
  <2>2. CASE StoreToken(c)
    <3>1. PICK v : /\ v = message[c].username
                   /\ tokens' = Inserted(v, generateToken(v), clock[c] + Lifetime)
      BY <2>2 DEF StoreToken
    <3>2. RowsOf(generateToken(v))' # {} /\ tokens \subseteq tokens'
      BY <1>1, <3>1, InsertedKeeps
    <3>3. pc[c] = "store_token"
      BY <2>2 DEF StoreToken
    <3>4. CASE v = u
      BY <3>2, <3>4 DEF Kept, RowsOf
    <3>5. CASE v # u
      BY <1>2, <2>1, <3>1, <3>2, <3>3, <3>5, KeptFrame
    <3>. QED
      BY <3>4, <3>5
  <2>3. CASE DeleteOld(c)
    <3>1. /\ tokens' = tokens \ RowsOf(message[c].token)
          /\ pc[c] = "delete_old" /\ pc'[c] = "insert_new" /\ message' = message
      BY <1>1, <2>3 DEF DeleteOld, Goto, TypeOK, locals
    <3>2. CASE message[c].token = generateToken(u)
      BY <3>1, <3>2 DEF Kept
    <3>3. CASE message[c].token # generateToken(u)
      <4>1. CASE RowsOf(generateToken(u)) # {}
        <5>1. RowsOf(generateToken(u))' # {}
          BY <3>1, <3>3, <4>1 DEF RowsOf
        <5>. QED
          BY <5>1 DEF Kept
      <4>2. CASE \E d \in Conns : pc[d] = "store_token" /\ message[d].username = u
        BY <1>2, <3>1, <4>2 DEF Kept
      <4>3. CASE \E d \in Conns : pc[d] = "insert_new" /\ message[d].token = generateToken(u)
        BY <1>2, <3>1, <4>3 DEF Kept
      <4>. QED
        BY <2>1, <4>1, <4>2, <4>3 DEF Kept
    <3>. QED
      BY <3>2, <3>3
  <2>4. CASE InsertNew(c)
    <3>1. PICK v : /\ v = username[c]
                   /\ tokens' = Inserted(v, generateToken(v), clock[c] + Lifetime)
      BY <2>4 DEF InsertNew
    <3>2. RowsOf(generateToken(v))' # {} /\ tokens \subseteq tokens'
      BY <1>1, <3>1, InsertedKeeps
    <3>3. pc[c] = "insert_new"
      BY <2>4 DEF InsertNew
    <3>4. CASE message[c].token = generateToken(u)
      <4>1. v = u
        BY <1>4, <3>1, <3>3, <3>4 DEF IsolatedIInv, Restores
      <4>. QED
        BY <3>2, <4>1 DEF Kept, RowsOf
    <3>5. CASE message[c].token # generateToken(u)
      BY <1>2, <2>1, <3>2, <3>3, <3>5, KeptFrame
    <3>. QED
      BY <3>4, <3>5
  <2>5. CASE tokens' = tokens /\ pc[c] \notin {"store_token", "insert_new"}
    BY <1>2, <2>1, <2>5, KeptFrame
  <2>. QED
    BY <2>2, <2>3, <2>4, <2>5, HandleTokens
<1>. QED
  BY <1>3, <1>4

\* Before a handler reads the name back, the row is there: of the handlers that
\* could have it to insert, this one is the only one of its user's.
LEMMA RowIsThere ==
  ASSUME IsolatedIInv, Isolated, NEW c \in Conns, pc[c] = "read_username",
         NEW u \in loggedIn, message[c].token = generateToken(u)
  PROVE  RowsOf(message[c].token) # {}
<1>1. IInv /\ Kept(u) /\ \A d \in Conns : Apart(d)
  BY DEF IsolatedIInv
<1>2. u \in Own(c)
  BY <1>1, WorksForOwn DEF Verifying
<1>3. ASSUME NEW d \in Conns, u \in Own(d)
      PROVE  pc[d] = "read_username"
  BY <1>2, <1>3 DEF Isolated
<1>4. ASSUME NEW d \in Conns, pc[d] = "store_token", message[d].username = u
      PROVE  FALSE
  BY <1>1, <1>3, <1>4, WorksForOwn
<1>5. ASSUME NEW d \in Conns, pc[d] = "insert_new", message[d].token = generateToken(u)
      PROVE  FALSE
  BY <1>1, <1>3, <1>5, WorksForOwn DEF Verifying
<1>. QED
  BY <1>1, <1>4, <1>5 DEF Kept

LEMMA HandleRenews ==
  ASSUME IsolatedIInv, Isolated, NEW c \in Conns, Handle(c), ~Die, NEW d \in Conns
  PROVE  Restores(d)'
<1>1. IInv /\ TypeOK /\ TableSound /\ Restores(d) /\ Apart(c) /\ Apart(d)
  BY DEF IsolatedIInv, IInv
<1>2. SUFFICES ASSUME pc'[d] \in {"delete_old", "insert_new"}, NEW u \in loggedIn',
                      message'[d].token = generateToken(u)
               PROVE  username'[d] = u
  BY DEF Restores
<1>3. CASE d # c
  <2>1. /\ pc'[d] = pc[d] /\ message'[d] = message[d] /\ username'[d] = username[d]
    BY <1>1, <1>3, HandleFrame
  <2>2. CASE u \in loggedIn
    BY <1>1, <1>2, <2>1, <2>2 DEF Restores
  <2>3. CASE u \notin loggedIn
    <3>1. u \in Own(c)
      BY <1>1, <2>3, HandleLogin, WorksForOwn
    <3>2. u \in Own(d)
      BY <1>1, <1>2, <2>1, WorksForOwn DEF Verifying
    <3>. QED
      BY <1>3, <3>1, <3>2 DEF Isolated
  <2>. QED
    BY <2>2, <2>3
<1>4. CASE d = c
  <2>1. CASE ReadUsername(c)
    <3>1. /\ pc[c] = "read_username" /\ message' = message /\ loggedIn' = loggedIn
          /\ \/ \E r \in RowsOf(message[c].token) : username'[c] = r.username
             \/ RowsOf(message[c].token) = {}
      BY <1>1, <1>2, <1>4, <2>1 DEF ReadUsername, Reply, Goto, TypeOK
    <3>2. PICK r \in RowsOf(message[c].token) : username'[c] = r.username
      BY <1>2, <1>4, <3>1, RowIsThere
    <3>3. generateToken(r.username) = generateToken(u)
      BY <1>1, <1>2, <1>4, <3>1 DEF RowsOf, TableSound
    <3>4. \A v : generateToken(v).of = v
      BY DEF generateToken
    <3>5. r.username = u
      BY <3>3, <3>4
    <3>. QED
      BY <1>4, <3>2, <3>5
  <2>2. CASE DeleteOld(c)
    <3>1. /\ pc[c] = "delete_old" /\ UNCHANGED <<message, username, loggedIn>>
      BY <2>2 DEF DeleteOld, locals
    <3>. QED
      BY <1>1, <1>2, <1>4, <3>1 DEF Restores
  <2>3. CASE ~(ReadUsername(c) \/ DeleteOld(c))
    <3>1. pc'[c] \notin {"delete_old", "insert_new"}
      <4>. USE <1>1 DEF TypeOK, Goto, Reply
      <4>1. CASE SendAnswer(c) \/ Disconnect(c)
        BY <4>1 DEF SendAnswer, Disconnect
      <4>2. CASE CheckCredentials(c)
        BY <4>2 DEF CheckCredentials
      <4>3. CASE ReadTtl(c) \/ CheckExpiry(c) \/ StoreToken(c) \/ InsertNew(c)
        BY <4>3 DEF ReadTtl, CheckExpiry, StoreToken, InsertNew
      <4>4. CASE ReceiveAuth(c) \/ ReceiveAuthWithoutPassword(c) \/ ReceiveVerify(c)
                   \/ ReceiveOther(c) \/ ReceiveEnd(c)
        BY <4>4 DEF ReceiveAuth, ReceiveAuthWithoutPassword, ReceiveVerify,
                    ReceiveOther, ReceiveEnd, Takes
      <4>. QED
        BY <2>3, <4>1, <4>2, <4>3, <4>4 DEF Handle
    <3>. QED
      BY <1>2, <1>4, <3>1
  <2>. QED
    BY <2>1, <2>2, <2>3
<1>. QED
  BY <1>3, <1>4

-----------------------------------------------------------------------------
(* The invariant and the theorem *)

LEMMA IsolatedInit ==
  ASSUME Init
  PROVE  IsolatedIInv
<1>1. IInv
  BY InitInv
<1>2. ASSUME NEW c \in Conns
      PROVE  Apart(c) /\ Restores(c)
  <2>1. /\ link[c] = ClosedLink /\ message[c] = Rest /\ answer[c] = Verified
        /\ held[c] = NoText /\ pc[c] = "idle"
    BY DEF Init
  <2>2. ClosedLink \in LinkType(OwnRequests(c), OwnAnswers(c))
    BY NewLinkTyped
  <2>. QED
    BY <2>1, <2>2, CommonTexts DEF Apart, Restores
<1>3. ASSUME NEW u \in loggedIn
      PROVE  Kept(u)
  <2>1. PICK expiry : Row(u, generateToken(u), expiry[u]) \in tokens
    BY DEF Init
  <2>2. Row(u, generateToken(u), expiry[u]).token = generateToken(u)
    BY DEF Row
  <2>. QED
    BY <2>1, <2>2 DEF Kept, RowsOf
<1>. QED
  BY <1>1, <1>2, <1>3 DEF IsolatedIInv

\* Steps that no handler takes move no handler and leave the table.
LEMMA OthersIsolated ==
  ASSUME IsolatedIInv, IInv',
         UNCHANGED <<tokens, loggedIn, message, username>>,
         \A c \in Conns : \/ pc'[c] = pc[c]
                          \/ pc[c] = "idle" /\ pc'[c] = "receive",
         \A c \in Conns : Apart(c)'
  PROVE  IsolatedIInv'
<1>1. \A c \in Conns : Restores(c)'
  BY DEF IsolatedIInv, Restores
<1>2. \A u \in loggedIn' : Kept(u)'
  BY DEF IsolatedIInv, Kept, RowsOf
<1>. QED
  BY <1>1, <1>2 DEF IsolatedIInv

LEMMA IsolatedNext ==
  ASSUME IsolatedIInv, Isolated, [Next]_vars, up'
  PROVE  IsolatedIInv'
<1>1. IInv /\ IInv' /\ TypeOK
  BY NextInv DEF IsolatedIInv, IInv
<1>2. \A c \in Conns : Apart(c) /\ Restores(c)
  BY DEF IsolatedIInv
<1>3. ~Die
  BY DEF Die
<1>4. ASSUME NEW c \in Conns, Handle(c)
      PROVE  IsolatedIInv'
  <2>1. \A u \in loggedIn' : Kept(u)'
    BY <1>3, <1>4, HandleKept DEF Isolated
  <2>2. ASSUME NEW d \in Conns
        PROVE  Apart(d)' /\ Restores(d)'
    <3>1. Restores(d)'
      BY <1>3, <1>4, HandleRenews
    <3>2. CASE d = c
      BY <1>1, <1>2, <1>3, <1>4, <3>1, <3>2, HandleApart
    <3>3. CASE d # c
      BY <1>1, <1>2, <1>3, <1>4, <3>1, <3>3, HandleFrame, ApartFrame
    <3>. QED
      BY <3>2, <3>3
  <2>. QED
    BY <1>1, <2>1, <2>2 DEF IsolatedIInv
<1>5. ASSUME NEW c \in Conns, PeerStep(c)
      PROVE  IsolatedIInv'
  <2>1. UNCHANGED <<tokens, pc, message, username, loggedIn>>
    BY <1>5 DEF PeerStep, AskLogin, AskVerify, Ask, TakeAnswer, NoAnswer, PeerClose,
       UnchangedServer, locals
  <2>2. ASSUME NEW d \in Conns
        PROVE  Apart(d)'
    <3>1. CASE d = c
      BY <1>1, <1>2, <1>5, <3>1, PeerApart
    <3>2. CASE d # c
      BY <1>1, <1>2, <1>5, <3>2, PeerFrame, ApartFrame
    <3>. QED
      BY <3>1, <3>2
  <2>. QED
    BY <1>1, <2>1, <2>2, OthersIsolated
<1>6. ASSUME NEW c \in Conns, Listen(c)
      PROVE  IsolatedIInv'
  <2>1. /\ UNCHANGED <<tokens, message, username, answer, loggedIn, held>>
        /\ link' = [link EXCEPT ![c] = NewLink]
        /\ pc' = [pc EXCEPT ![c] = "receive"]
        /\ link[c] = ClosedLink
    BY <1>6 DEF Listen, Goto, locals, peers
  <2>2. pc[c] = "idle"
    BY <1>1, <2>1 DEF IInv, ConnInv, InUse, ClosedLink
  <2>3. ASSUME NEW d \in Conns
        PROVE  Apart(d)'
    <3>1. CASE d # c
      BY <1>1, <1>2, <2>1, <3>1, ApartFrame DEF TypeOK
    <3>2. CASE d = c
      <4>1. link'[c] = NewLink
        BY <1>1, <2>1 DEF TypeOK
      <4>2. link'[c] \in LinkType(OwnRequests(c), OwnAnswers(c))
        BY <4>1, NewLinkTyped
      <4>. QED
        BY <1>2, <2>1, <3>2, <4>2, ApartNext DEF Apart
    <3>. QED
      BY <3>1, <3>2
  <2>4. \A d \in Conns : pc'[d] = pc[d] \/ (pc[d] = "idle" /\ pc'[d] = "receive")
    <3>1. ASSUME NEW d \in Conns
          PROVE  pc'[d] = IF d = c THEN "receive" ELSE pc[d]
      <4>1. pc \in [Conns -> Steps]
        BY <1>1 DEF TypeOK
      <4>2. CASE d = c
        BY <2>1, <4>1, <4>2
      <4>3. CASE d # c
        BY <2>1, <4>1, <4>3
      <4>. QED
        BY <4>2, <4>3
    <3>. QED
      BY <2>2, <3>1
  <2>. QED
    BY <1>1, <2>1, <2>3, <2>4, OthersIsolated
<1>7. ASSUME Tick \/ Restart \/ UNCHANGED vars
      PROVE  IsolatedIInv'
  <2>1. UNCHANGED <<tokens, link, pc, message, username, answer, loggedIn, held>>
    BY <1>7 DEF Tick, Restart, vars, locals, peers
  <2>2. \A d \in Conns : Apart(d)'
    BY <1>2, <2>1, ApartFrame
  <2>. QED
    BY <1>1, <2>1, <2>2, OthersIsolated
<1>. QED
  BY <1>3, <1>4, <1>5, <1>6, <1>7 DEF Next, Crash

\* When nothing fails and no two connections have anything to do with the same user, or
\* any with the token of nobody, a user who has logged in
\* keeps the row through every renewal (auth_server.cpp:71-85): what a handler
\* deletes, that handler puts back, under the name it read.
THEOREM TokensKept == Isolated => (Spec /\ []up => []LoggedInKeepsRow)
<1>1. Init => IsolatedIInv
  BY IsolatedInit
<1>2. Isolated /\ IsolatedIInv /\ up' /\ [Next]_vars => IsolatedIInv'
  BY IsolatedNext
<1>3. IsolatedIInv => LoggedInKeepsRow
  <2>1. SUFFICES ASSUME IsolatedIInv, NEW u \in loggedIn, BusyWith(u) = {}
                 PROVE  RowsOf(generateToken(u)) # {}
    BY DEF LoggedInKeepsRow
  <2>2. Kept(u)
    BY <2>1 DEF IsolatedIInv
  <2>3. ~ \E c \in Conns : pc[c] = "store_token" /\ message[c].username = u
    BY <2>1 DEF BusyWith
  <2>4. ~ \E c \in Conns : pc[c] = "insert_new" /\ message[c].token = generateToken(u)
    BY <2>1 DEF BusyWith, Renewing
  <2>. QED
    BY <2>2, <2>3, <2>4 DEF Kept
<1>4. ASSUME Isolated
      PROVE  Spec /\ []up => []LoggedInKeepsRow
  <2>1. IsolatedIInv /\ up' /\ [Next]_vars => IsolatedIInv'
    BY <1>2, <1>4
  <2>. QED
    BY <1>1, <1>3, <2>1, PTL DEF Spec
<1>. QED
  BY <1>4

-----------------------------------------------------------------------------
(* AuthServer implements TokenService: what the refinement needs of a handler *)

\* The statements before a name is read back from the table.
Nameless == Steps \ {"delete_old", "insert_new", "send", "disconnect"}

\* What handler c has read of its user's row still stands when it is used, the
\* name it read is its request's, the row it deleted is gone until it inserts, and
\* a connection is closed by its peer first.
Serving(c) ==
  /\ link[c].up["client"] => link[c].up["server"]
  /\ pc[c] = "disconnect" => ~link[c].up["client"] /\ link[c].in["server"] = <<>>
  /\ pc[c] = "check_credentials" => message[c].password # "none"
  /\ pc[c] = "check_expiry" =>
       /\ \A r \in RowsOf(message[c].token) : ttl[c] = r.ttl
       /\ RowsOf(message[c].token) = {} => ttl[c] = 0
  /\ pc[c] \in Nameless => username[c] = Blank
  /\ pc[c] \in {"delete_old", "insert_new"} /\ username[c] # Blank =>
       message[c].token = generateToken(username[c])
  /\ pc[c] = "insert_new" => RowsOf(message[c].token) = {}

ServiceIInv == IsolatedIInv /\ \A c \in Conns : Serving(c)

\* The text of a request names rows only if it is the token of a user.
LEMMA RowsOfText ==
  ASSUME TableSound, NEW t \in AuthAnswers, NEW r \in RowsOf(t)
  PROVE  /\ r.username \in loggedIn
         /\ t = generateToken(r.username)
<1>1. t = generateToken(r.username) /\ r.username \in loggedIn \cup {Blank}
  BY DEF TableSound, RowsOf
<1>2. r.username # Blank
  BY <1>1, BlankAssumption DEF AuthAnswers, generateToken
<1>. QED
  BY <1>1, <1>2

\* An INSERT leaves the rows of every other token alone; where no row is, it adds
\* one.
LEMMA InsertedRows ==
  ASSUME TableSound, NEW u, NEW e, tokens' = Inserted(u, generateToken(u), e)
  PROVE  /\ \A t : t # generateToken(u) => RowsOf(t)' = RowsOf(t)
         /\ RowsOf(generateToken(u)) # {} => tokens' = tokens
         /\ RowsOf(generateToken(u)) = {} =>
              RowsOf(generateToken(u))' = {Row(u, generateToken(u), e)}
<1>. DEFINE new == Row(u, generateToken(u), e)
<1>1. new.token = generateToken(u)
  BY DEF Row
<1>2. CASE RowsOf(generateToken(u)) # {}
  <2>1. tokens' = tokens
    BY <1>2 DEF Inserted, RowsOf
  <2>. QED
    BY <1>2, <2>1 DEF RowsOf
<1>3. CASE RowsOf(generateToken(u)) = {}
  <2>1. \A r \in tokens : r.username # u /\ r.token # generateToken(u)
    BY <1>3 DEF RowsOf, TableSound
  <2>2. tokens' = tokens \cup {new}
    BY <2>1 DEF Inserted
  <2>. HIDE DEF new
  <2>3. \A t : t # generateToken(u) => RowsOf(t)' = RowsOf(t)
    BY <1>1, <2>2 DEF RowsOf
  <2>4. RowsOf(generateToken(u))' = {new}
    BY <1>1, <2>1, <2>2 DEF RowsOf
  <2>. QED
    BY <1>3, <2>3, <2>4 DEF new
<1>. QED
  BY <1>2, <1>3

LEMMA DifferentTokens ==
  ASSUME NEW u, NEW v, generateToken(u) = generateToken(v)
  PROVE  u = v
<1>1. \A w : generateToken(w).of = w
  BY DEF generateToken
<1>. QED
  BY <1>1

\* A handler changes the rows of its own connection's users only.
LEMMA PrivateRows ==
  ASSUME ServiceIInv, Isolated, NEW c \in Conns, Handle(c), ~Die,
         NEW u \in Users, u \notin Own(c)
  PROVE  RowsOf(generateToken(u))' = RowsOf(generateToken(u))
<1>1. IInv /\ TypeOK /\ TableSound /\ Apart(c) /\ Serving(c) /\ InBranch(c)
  BY DEF ServiceIInv, IsolatedIInv, IInv, ConnInv
<1>2. CASE StoreToken(c)
  <2>1. PICK v : /\ v = message[c].username
                 /\ tokens' = Inserted(v, generateToken(v), clock[c] + Lifetime)
    BY <1>2 DEF StoreToken, Isolated
  <2>2. pc[c] = "store_token"
    BY <1>2 DEF StoreToken
  <2>3. v # u
    BY <1>1, <2>1, <2>2, WorksForOwn
  <2>. QED
    BY <1>1, <2>1, <2>3, InsertedRows, DifferentTokens
<1>3. CASE DeleteOld(c)
  <2>1. tokens' = tokens \ RowsOf(message[c].token) /\ pc[c] = "delete_old"
    BY <1>3 DEF DeleteOld, Isolated
  <2>2. message[c].token # generateToken(u)
    BY <1>1, <2>1, WorksForOwn DEF Verifying
  <2>. QED
    BY <2>1, <2>2 DEF RowsOf
<1>4. CASE InsertNew(c)
  <2>1. PICK v : /\ v = username[c]
                 /\ tokens' = Inserted(v, generateToken(v), clock[c] + Lifetime)
    BY <1>4 DEF InsertNew, Isolated
  <2>2. pc[c] = "insert_new"
    BY <1>4 DEF InsertNew
  <2>3. v # u
    BY <1>1, <2>1, <2>2, WorksForOwn, BlankAssumption DEF Serving, Verifying
  <2>. QED
    BY <1>1, <2>1, <2>3, InsertedRows, DifferentTokens
<1>5. CASE tokens' = tokens
  BY <1>5 DEF RowsOf
<1>. QED
  BY <1>2, <1>3, <1>4, <1>5, HandleTokens

\* The rows another handler is working on stay as they are.
LEMMA OthersRows ==
  ASSUME ServiceIInv, Isolated, IInv', NEW c \in Conns, Handle(c), ~Die,
         NEW d \in Conns, d # c, pc[d] \in Verifying
  PROVE  RowsOf(message[d].token)' = RowsOf(message[d].token)
<1>1. IInv /\ TypeOK /\ TableSound /\ Apart(d) /\ InBranch(d)
  BY DEF ServiceIInv, IsolatedIInv, IInv, ConnInv
<1>2. message'[d] = message[d]
  BY <1>1, HandleFrame
<1>3. message[d].token \in AuthAnswers
  BY <1>1, OwnVerify DEF Apart, InBranch
<1>4. ASSUME NEW u \in Users, message[d].token = generateToken(u)
      PROVE  RowsOf(message[d].token)' = RowsOf(message[d].token)
  <2>1. u \notin Own(c)
    BY <1>1, <1>4, WorksForOwn DEF Isolated
  <2>. QED
    BY <1>2, <1>4, <2>1, PrivateRows DEF RowsOf
<1>5. ASSUME \A u \in Users : message[d].token # generateToken(u)
      PROVE  RowsOf(message[d].token)' = RowsOf(message[d].token)
  <2>1. message[d].token.kind # "token" \/ message[d].token.of \notin Names
    BY <1>3, <1>5, BlankAssumption DEF AuthAnswers, generateToken
  <2>2. \A u \in Names : message[d].token # generateToken(u)
    BY <2>1 DEF generateToken
  <2>3. \A r \in tokens : r.token # message[d].token
    BY <1>1, <2>2 DEF TableSound, Names, TypeOK
  <2>4. TableSound' /\ loggedIn' \subseteq Users
    BY DEF IInv, TypeOK
  <2>5. \A r \in tokens' : r.token # message[d].token
    BY <2>2, <2>4 DEF TableSound, Names
  <2>. QED
    BY <1>2, <2>3, <2>5 DEF RowsOf
<1>. QED
  BY <1>4, <1>5

\* A step that leaves a connection's handler and its rows alone.
LEMMA ServingFrame ==
  ASSUME NEW d \in Conns, Serving(d),
         link'[d] = link[d], pc'[d] = pc[d], message'[d] = message[d],
         ttl'[d] = ttl[d], username'[d] = username[d],
         pc[d] \in Verifying => RowsOf(message[d].token)' = RowsOf(message[d].token)
  PROVE  Serving(d)'
<1>1. CASE pc[d] \in {"check_expiry", "insert_new"}
  <2>1. RowsOf(message[d].token)' = RowsOf(message[d].token)
    BY <1>1 DEF Verifying
  <2>. QED
    BY <2>1 DEF Serving
<1>2. CASE pc[d] \notin {"check_expiry", "insert_new"}
  BY <1>2 DEF Serving
<1>. QED
  BY <1>1, <1>2

\* The two ends are up, and the peer waits for nothing: nobody has closed.
LEMMA TakesServing ==
  ASSUME TypeOK, NEW c \in Conns, Serving(c), NEW m \in Requests, Takes(c, m)
  PROVE  /\ link'[c].up["client"] => link'[c].up["server"]
         /\ username'[c] = Blank
<1>1. link'[c] = AfterRead(link[c], "server") /\ CanRead(link[c], "server")
  BY DEF Takes, TypeOK
<1>2. link'[c].up = link[c].up
  BY <1>1, RequestRead DEF TypeOK
<1>. QED
  BY <1>2 DEF Takes, Serving, Nameless, Steps

LEMMA HandleServing ==
  ASSUME ServiceIInv, Isolated, NEW c \in Conns, Handle(c), ~Die
  PROVE  Serving(c)'
<1>1. /\ IInv /\ TypeOK /\ TableSound /\ Serving(c) /\ InBranch(c) /\ InUse(c)
      /\ Restores(c) /\ message[c] \in OwnRequests(c)
  BY DEF ServiceIInv, IsolatedIInv, IInv, ConnInv, Apart
<1>. USE <1>1 DEF TypeOK, Goto, Reply
<1>2. ASSUME NEW m \in Requests, Takes(c, m),
             pc'[c] \notin {"disconnect", "check_expiry", "delete_old", "insert_new"},
             pc'[c] = "check_credentials" => message'[c].password # "none"
      PROVE  Serving(c)'
  BY <1>2, TakesServing DEF Serving
<1>3. CASE ReceiveAuth(c)
  BY <1>2, <1>3 DEF ReceiveAuth, Takes
<1>4. CASE ReceiveAuthWithoutPassword(c)
  BY <1>2, <1>4 DEF ReceiveAuthWithoutPassword, Takes
<1>5. CASE ReceiveVerify(c)
  BY <1>2, <1>5 DEF ReceiveVerify, Takes
<1>6. CASE ReceiveOther(c)
  BY <1>2, <1>6 DEF ReceiveOther, Takes
<1>7. CASE ReceiveEnd(c)
  <2>1. /\ pc'[c] = "disconnect" /\ link' = link /\ username' = username
        /\ link[c].in["server"] = <<>> /\ ~link[c].up["client"]
    BY <1>7 DEF ReceiveEnd, AtEnd, Peer, locals
  <2>. QED
    BY <2>1 DEF Serving, Nameless, Steps
<1>8. CASE CheckCredentials(c)
  <2>1. /\ pc'[c] \in {"store_token", "send"} /\ UNCHANGED <<link, username>>
        /\ pc[c] = "check_credentials"
    BY <1>8 DEF CheckCredentials
  <2>. QED
    BY <2>1 DEF Serving, Nameless, Steps
<1>9. CASE StoreToken(c)
  <2>1. pc'[c] = "send" /\ UNCHANGED link
    BY <1>9 DEF StoreToken
  <2>. QED
    BY <2>1 DEF Serving, Nameless, Steps
<1>10. CASE ReadTtl(c)
  <2>1. /\ pc[c] = "read_ttl" /\ pc'[c] = "check_expiry"
        /\ UNCHANGED <<tokens, link, message, username>>
        /\ \/ \E r \in RowsOf(message[c].token) : ttl'[c] = r.ttl
           \/ RowsOf(message[c].token) = {} /\ ttl'[c] = ttl[c]
    BY <1>10 DEF ReadTtl, Isolated
  <2>2. \A r, s \in RowsOf(message[c].token) : r = s
    <3>1. message[c].token \in AuthAnswers
      BY <2>1, OwnVerify DEF InBranch, Verifying
    <3>. QED
      BY <3>1, RowsOfText, DifferentTokens DEF TableSound, RowsOf
  <2>3. ttl[c] = 0
    BY <2>1 DEF IInv, Justified
  <2>4. RowsOf(message[c].token)' = RowsOf(message[c].token)
    BY <2>1 DEF RowsOf
  <2>5. /\ \A r \in RowsOf(message[c].token) : ttl'[c] = r.ttl
        /\ RowsOf(message[c].token) = {} => ttl'[c] = 0
    BY <2>1, <2>2, <2>3
  <2>. QED
    BY <2>1, <2>4, <2>5 DEF Serving, Nameless, Steps
<1>11. CASE CheckExpiry(c)
  <2>1. /\ pc[c] = "check_expiry" /\ pc'[c] \in {"send", "read_username"}
        /\ UNCHANGED <<link, username>>
    BY <1>11 DEF CheckExpiry
  <2>. QED
    BY <2>1 DEF Serving, Nameless, Steps
<1>12. CASE ReadUsername(c)
  <2>1. /\ pc[c] = "read_username" /\ pc'[c] = "delete_old"
        /\ UNCHANGED <<link, message>>
        /\ \/ \E r \in RowsOf(message[c].token) : username'[c] = r.username
           \/ username'[c] = username[c]
    BY <1>12 DEF ReadUsername, Isolated
  <2>2. username[c] = Blank
    BY <2>1 DEF Serving, Nameless, Steps
  <2>3. username'[c] # Blank => message[c].token = generateToken(username'[c])
    BY <2>1, <2>2 DEF TableSound, RowsOf
  <2>. QED
    BY <2>1, <2>3 DEF Serving, Nameless
<1>13. CASE DeleteOld(c)
  <2>1. /\ pc[c] = "delete_old" /\ pc'[c] = "insert_new"
        /\ UNCHANGED <<link, message, username>>
        /\ tokens' = tokens \ RowsOf(message[c].token)
    BY <1>13 DEF DeleteOld, Isolated, locals
  <2>2. RowsOf(message[c].token)' = {}
    BY <2>1 DEF RowsOf
  <2>. QED
    BY <2>1, <2>2 DEF Serving, Nameless
<1>14. CASE InsertNew(c)
  <2>1. pc'[c] = "send" /\ UNCHANGED link
    BY <1>14 DEF InsertNew
  <2>. QED
    BY <2>1 DEF Serving, Nameless, Steps
<1>15. CASE SendAnswer(c)
  <2>1. PICK o \in WriteOutcomes(link[c], "server", <<answer[c]>>) :
              /\ link' = [link EXCEPT ![c] = o.link]
              /\ Goto(c, "receive") /\ Forget(c)
    BY <1>15, Zenon DEF SendAnswer
  <2>2. link'[c].up = link[c].up
    BY <2>1, AnswerWritten
  <2>3. username'[c] = Blank /\ pc'[c] = "receive"
    BY <2>1 DEF Forget, Reset
  <2>. QED
    BY <2>2, <2>3 DEF Serving
<1>16. CASE Disconnect(c)
  <2>1. PICK o \in CloseOutcomes(link[c], "server") :
              /\ o.result # "killed"
              /\ link' = [link EXCEPT ![c] = o.link]
              /\ Goto(c, "idle") /\ Forget(c)
    BY <1>16, Zenon DEF Disconnect
  <2>2. o.link = Closed(link[c], "server")
    BY <2>1, LinkClosed DEF Ends
  <2>3. ~link'[c].up["client"]
    <3>1. pc[c] = "disconnect"
      BY <1>16 DEF Disconnect
    <3>2. link'[c].up["client"] = link[c].up["client"]
      BY <2>1, <2>2, ServerClosed
    <3>. QED
      BY <3>1, <3>2 DEF Serving
  <2>4. username'[c] = Blank /\ pc'[c] = "idle"
    BY <2>1 DEF Forget, Reset
  <2>. QED
    BY <2>3, <2>4 DEF Serving
<1>. QED
  BY <1>3, <1>4, <1>5, <1>6, <1>7, <1>8, <1>9, <1>10, <1>11, <1>12, <1>13, <1>14,
     <1>15, <1>16 DEF Handle

LEMMA PeerServing ==
  ASSUME TypeOK, NEW c \in Conns, ConnInv(c), Serving(c), PeerStep(c)
  PROVE  Serving(c)'
<1>1. UNCHANGED <<tokens, pc, message, ttl, username>>
  BY DEF PeerStep, AskLogin, AskVerify, Ask, TakeAnswer, NoAnswer, PeerClose,
         UnchangedServer, locals
<1>2. RowsOf(message[c].token)' = RowsOf(message[c].token)
  BY <1>1 DEF RowsOf
<1>3. ASSUME link'[c].up["client"] => link'[c].up["server"],
             pc[c] = "disconnect" => ~link'[c].up["client"] /\ link'[c].in["server"] = <<>>
      PROVE  Serving(c)'
  BY <1>1, <1>2, <1>3 DEF Serving
<1>4. link[c] \in Links /\ (link[c].up["client"] => pc[c] # "disconnect")
  BY DEF Serving, TypeOK
<1>5. ASSUME NEW r \in LoginTexts \cup Requests, Ask(c, r)
      PROVE  Serving(c)'
  <2>1. PICK o \in WriteOutcomes(link[c], "client", Reads(r)) :
               link' = [link EXCEPT ![c] = o.link]
    BY <1>5 DEF Ask
  <2>2. link'[c].up = link[c].up /\ link[c].up["client"]
    BY <1>4, <1>5, <2>1, RequestWritten DEF Ask, TypeOK
  <2>. QED
    BY <1>3, <1>4, <2>2 DEF Serving
<1>6. CASE \E r \in Logins[c] : AskLogin(c, r)
  BY <1>5, <1>6, ConstantsAssumption DEF AskLogin
<1>7. CASE AskVerify(c)
  <2>1. Verify(held[c]) \in Requests
    BY <1>7 DEF AskVerify, TypeOK, Verify, Requests
  <2>. QED
    BY <1>5, <1>7, <2>1 DEF AskVerify
<1>8. CASE TakeAnswer(c)
  <2>1. link'[c] = AfterRead(link[c], "client") /\ CanRead(link[c], "client")
    BY <1>8 DEF TakeAnswer, TypeOK
  <2>2. link'[c].up = link[c].up /\ link[c].up["client"]
    BY <1>4, <2>1, AnswerRead DEF CanRead
  <2>. QED
    BY <1>3, <1>4, <2>2 DEF Serving
<1>9. CASE NoAnswer(c)
  BY <1>3, <1>9 DEF NoAnswer, Serving
<1>10. CASE PeerClose(c)
  <2>1. link'[c] = Closed(link[c], "client") /\ link[c].up["client"]
    BY <1>10 DEF PeerClose, TypeOK
  <2>. QED
    BY <1>3, <1>4, <2>1, ClientClosed
<1>. QED
  BY <1>6, <1>7, <1>8, <1>9, <1>10 DEF PeerStep

LEMMA ServiceInit ==
  ASSUME Init
  PROVE  ServiceIInv
<1>1. ASSUME NEW c \in Conns
      PROVE  Serving(c)
  <2>1. link[c] = ClosedLink /\ pc[c] = "idle" /\ username[c] = Blank
    BY DEF Init
  <2>. QED
    BY <2>1 DEF Serving, ClosedLink
<1>. QED
  BY <1>1, IsolatedInit DEF ServiceIInv

\* Who has not yet been connected is idle.
LEMMA Listens ==
  ASSUME IInv, NEW c \in Conns, Listen(c)
  PROVE  /\ UNCHANGED <<tokens, message, ttl, clock, username, answer, loggedIn, time>>
         /\ link[c] = ClosedLink /\ link' = [link EXCEPT ![c] = NewLink]
         /\ link'[c] = NewLink
         /\ pc[c] = "idle" /\ pc'[c] = "receive"
         /\ \A d \in Conns \ {c} : link'[d] = link[d] /\ pc'[d] = pc[d]
<1>1. /\ UNCHANGED <<tokens, message, ttl, clock, username, answer, loggedIn, time>>
      /\ link[c] = ClosedLink
      /\ link' = [link EXCEPT ![c] = NewLink]
      /\ pc' = [pc EXCEPT ![c] = "receive"]
      /\ link \in [Conns -> Links] /\ pc \in [Conns -> Steps]
  BY DEF Listen, Goto, locals, IInv, TypeOK
<1>2. pc[c] = "idle"
  BY <1>1 DEF IInv, ConnInv, InUse, ClosedLink
<1>. QED
  BY <1>1, <1>2

LEMMA ServiceNext ==
  ASSUME ServiceIInv, Isolated, [Next]_vars, up'
  PROVE  ServiceIInv'
<1>1. IsolatedIInv' /\ IInv' /\ TypeOK /\ IInv
  BY IsolatedNext DEF ServiceIInv, IsolatedIInv, IInv
<1>2. \A d \in Conns : Serving(d) /\ ConnInv(d)
  BY DEF ServiceIInv, IsolatedIInv, IInv
<1>3. ~Die
  BY DEF Die
<1>4. ASSUME NEW c \in Conns, Handle(c), NEW d \in Conns
      PROVE  Serving(d)'
  <2>1. CASE d = c
    BY <1>3, <1>4, <2>1, HandleServing
  <2>2. CASE d # c
    <3>1. pc[d] \in Verifying => RowsOf(message[d].token)' = RowsOf(message[d].token)
      BY <1>1, <1>3, <1>4, <2>2, OthersRows
    <3>. QED
      BY <1>1, <1>2, <1>3, <1>4, <2>2, <3>1, HandleFrame, ServingFrame
  <2>. QED
    BY <2>1, <2>2
<1>5. ASSUME NEW c \in Conns, PeerStep(c), NEW d \in Conns
      PROVE  Serving(d)'
  <2>1. UNCHANGED <<tokens, ttl, username>>
    BY <1>5 DEF PeerStep, AskLogin, AskVerify, Ask, TakeAnswer, NoAnswer, PeerClose,
       UnchangedServer, locals
  <2>2. CASE d = c
    BY <1>1, <1>2, <1>5, <2>2, PeerServing
  <2>3. CASE d # c
    BY <1>1, <1>2, <1>5, <2>1, <2>3, PeerFrame, ServingFrame DEF RowsOf
  <2>. QED
    BY <2>2, <2>3
<1>6. ASSUME NEW c \in Conns, Listen(c), NEW d \in Conns
      PROVE  Serving(d)'
  <2>1. CASE d = c
    BY <1>1, <1>2, <1>6, <2>1, Listens DEF Serving, NewLink, Nameless, Steps
  <2>2. CASE d # c
    BY <1>1, <1>2, <1>6, <2>2, Listens, ServingFrame DEF RowsOf
  <2>. QED
    BY <2>1, <2>2
<1>7. CASE Tick \/ Restart \/ UNCHANGED vars
  <2>1. UNCHANGED <<tokens, link, pc, message, ttl, username>>
    BY <1>7 DEF Tick, Restart, vars, locals, peers
  <2>. QED
    BY <1>1, <1>2, <2>1, ServingFrame DEF RowsOf, ServiceIInv
<1>8. CASE \E c \in Conns : Listen(c) \/ Handle(c) \/ PeerStep(c)
  BY <1>1, <1>4, <1>5, <1>6, <1>8 DEF ServiceIInv
<1>. QED
  BY <1>3, <1>7, <1>8 DEF Next, Crash

-----------------------------------------------------------------------------
(* Whose row it is *)

\* Until when u's token is good, or will be: at most one second, none without a
\* token.
Expiry(u) ==
  IF Renews(u) # {} THEN {clock[c] + Lifetime : c \in Renews(u)}
  ELSE IF RowsOf(generateToken(u)) # {}
       THEN {r.ttl : r \in RowsOf(generateToken(u))}
       ELSE {clock[c] + Lifetime : c \in Adds(u)}

\* The same, of a user of connection c.
OwnExpiry(c, u) ==
  IF c \in Renews(u) THEN {clock[c] + Lifetime}
  ELSE IF RowsOf(generateToken(u)) # {}
       THEN {r.ttl : r \in RowsOf(generateToken(u))}
       ELSE IF c \in Adds(u) THEN {clock[c] + Lifetime} ELSE {}

\* Only a user's own connection renews or adds the user's row.
LEMMA BusyOwn ==
  ASSUME IsolatedIInv, NEW u \in Users, NEW c \in Renews(u) \cup Adds(u)
  PROVE  c \in Conns /\ u \in Own(c)
<1>1. IInv /\ c \in Conns /\ Apart(c)
  BY DEF IsolatedIInv, Renews, Adds, Renewing
<1>. QED
  BY <1>1, WorksForOwn DEF Renews, Adds, Renewing, Verifying

LEMMA ExpiryOwn ==
  ASSUME IsolatedIInv, Isolated, NEW c \in Conns, NEW u \in Users, u \in Own(c)
  PROVE  Expiry(u) = OwnExpiry(c, u)
<1>1. \A d \in Renews(u) \cup Adds(u) : d = c
  BY BusyOwn DEF Isolated
<1>2. Renews(u) = {} \/ Renews(u) = {c}
  BY <1>1
<1>3. Adds(u) = {} \/ Adds(u) = {c}
  BY <1>1
<1>. QED
  BY <1>2, <1>3 DEF Expiry, OwnExpiry

\* No user's token ends at two times.
LEMMA ExpiryLone ==
  ASSUME IsolatedIInv, Isolated, NEW u \in Users, NEW x \in Expiry(u), NEW y \in Expiry(u)
  PROVE  x = y
<1>1. \A c, d \in Renews(u) \cup Adds(u) : c = d
  BY BusyOwn DEF Isolated
<1>2. \A r, s \in RowsOf(generateToken(u)) : r = s
  BY DifferentTokens DEF IsolatedIInv, IInv, TableSound, RowsOf
<1>. QED
  BY <1>1, <1>2 DEF Expiry

LEMMA BarIsExpiry ==
  /\ Holders = {u \in Users : Expiry(u) # {}}
  /\ expiryBar = [u \in Holders |-> expiryBar[u]]
  /\ \A u \in Holders : expiryBar[u] \in Expiry(u)
<1>1. Holders = {u \in Users : Expiry(u) # {}}
  BY DEF Holders, Expiry
<1>2. expiryBar = [u \in Holders |-> expiryBar[u]]
  BY DEF expiryBar
<1>3. ASSUME NEW u \in Holders
      PROVE  expiryBar[u] \in Expiry(u)
  <2>1. CASE Renews(u) # {}
    <3>1. PICK c \in Renews(u) : expiryBar[u] = clock[c] + Lifetime
      BY <2>1 DEF expiryBar
    <3>. QED
      BY <2>1, <3>1 DEF Expiry
  <2>2. CASE Renews(u) = {} /\ RowsOf(generateToken(u)) # {}
    <3>1. PICK r \in RowsOf(generateToken(u)) : expiryBar[u] = r.ttl
      BY <2>2 DEF expiryBar
    <3>. QED
      BY <2>2, <3>1 DEF Expiry
  <2>3. CASE Renews(u) = {} /\ RowsOf(generateToken(u)) = {}
    <3>1. Adds(u) # {}
      BY <2>3 DEF Holders
    <3>2. PICK c \in Adds(u) : expiryBar[u] = clock[c] + Lifetime
      BY <2>3, <3>1 DEF expiryBar
    <3>. QED
      BY <2>3, <3>2 DEF Expiry
  <2>. QED
    BY <2>1, <2>2, <2>3
<1>. QED
  BY <1>1, <1>2, <1>3

\* What expiryBar says of a state in which no two connections share a user.
ExpiryKnown ==
  /\ \A u \in Users : \A c \in Renews(u) \cup Adds(u) : c \in Conns /\ u \in Own(c)
  /\ \A u \in Users : \A c \in Conns : u \in Own(c) => Expiry(u) = OwnExpiry(c, u)
  /\ \A u \in Users : \A x, y \in Expiry(u) : x = y
  /\ Holders = {u \in Users : Expiry(u) # {}}
  /\ expiryBar = [u \in Holders |-> expiryBar[u]]
  /\ \A u \in Holders : expiryBar[u] \in Expiry(u)

LEMMA ExpiryIsKnown ==
  ASSUME Isolated
  PROVE  /\ IsolatedIInv => ExpiryKnown
         /\ IsolatedIInv' => ExpiryKnown'
<1>1. IsolatedIInv => ExpiryKnown
  <2>1. SUFFICES ASSUME IsolatedIInv
                 PROVE  ExpiryKnown
    OBVIOUS
  <2>2. \A u \in Users : \A c \in Renews(u) \cup Adds(u) : c \in Conns /\ u \in Own(c)
    BY <2>1, BusyOwn
  <2>3. \A u \in Users : \A c \in Conns : u \in Own(c) => Expiry(u) = OwnExpiry(c, u)
    BY <2>1, ExpiryOwn
  <2>4. \A u \in Users : \A x, y \in Expiry(u) : x = y
    BY <2>1, ExpiryLone
  <2>. QED
    BY <2>2, <2>3, <2>4, BarIsExpiry DEF ExpiryKnown
<1>2. IsolatedIInv' => ExpiryKnown'
  BY <1>1, PTL
<1>. QED
  BY <1>1, <1>2

LEMMA BarKept ==
  ASSUME ExpiryKnown, ExpiryKnown', \A u \in Users : Expiry(u)' = Expiry(u)
  PROVE  expiryBar' = expiryBar
<1>1. Holders' = Holders
  BY DEF ExpiryKnown
<1>2. ASSUME NEW u \in Holders
      PROVE  expiryBar[u]' = expiryBar[u]
  <2>1. u \in Users /\ u \in Holders'
    BY <1>1 DEF ExpiryKnown
  <2>2. expiryBar[u] \in Expiry(u) /\ \A x, y \in Expiry(u) : x = y
    BY <2>1 DEF ExpiryKnown
  <2>3. expiryBar[u]' \in Expiry(u)'
    BY <2>1 DEF ExpiryKnown
  <2>. QED
    BY <2>1, <2>2, <2>3
<1>3. expiryBar = [u \in Holders |-> expiryBar[u]]
  BY DEF ExpiryKnown
<1>4. expiryBar' = [u \in Holders |-> expiryBar[u]']
  BY <1>1 DEF ExpiryKnown
<1>. QED
  BY <1>2, <1>3, <1>4

LEMMA BarExtended ==
  ASSUME ExpiryKnown, ExpiryKnown', NEW v \in Users,
         Expiry(v)' = {time + Lifetime},
         \A u \in Users \ {v} : Expiry(u)' = Expiry(u)
  PROVE  expiryBar' = Service!Extended(v)
<1>1. Holders' = Holders \cup {v}
  BY DEF ExpiryKnown
<1>2. ASSUME NEW u \in Holders \ {v}
      PROVE  expiryBar[u]' = expiryBar[u]
  <2>1. u \in Users \ {v} /\ u \in Holders'
    BY <1>1 DEF ExpiryKnown
  <2>2. expiryBar[u] \in Expiry(u) /\ \A x, y \in Expiry(u) : x = y
    BY <2>1 DEF ExpiryKnown
  <2>3. expiryBar[u]' \in Expiry(u)'
    BY <2>1 DEF ExpiryKnown
  <2>. QED
    BY <2>1, <2>2, <2>3
<1>3. expiryBar[v]' = time + Lifetime
  BY <1>1 DEF ExpiryKnown
<1>4. DOMAIN expiryBar = Holders
  BY DEF ExpiryKnown
<1>5. expiryBar' = [u \in Holders \cup {v} |-> expiryBar[u]']
  BY <1>1 DEF ExpiryKnown
<1>6. Service!Extended(v) =
        [u \in Holders \cup {v} |-> IF u = v THEN time + Lifetime ELSE expiryBar[u]]
  BY <1>4 DEF Service!Extended
<1>. QED
  BY <1>2, <1>3, <1>5, <1>6

\* A handler's step is about no row but those of its own connection's users.
LEMMA OthersExpiry ==
  ASSUME ServiceIInv, Isolated, ExpiryKnown, ExpiryKnown',
         NEW c \in Conns, Handle(c), ~Die, NEW u \in Users, u \notin Own(c)
  PROVE  Expiry(u)' = Expiry(u)
<1>1. TypeOK
  BY DEF ServiceIInv, IsolatedIInv, IInv
<1>2. RowsOf(generateToken(u))' = RowsOf(generateToken(u))
  BY PrivateRows
<1>3. /\ c \notin Renews(u) /\ c \notin Adds(u)
      /\ c \notin Renews(u)' /\ c \notin Adds(u)'
  BY DEF ExpiryKnown, Own
<1>4. \A d \in Conns \ {c} : /\ pc'[d] = pc[d] /\ message'[d] = message[d]
                             /\ username'[d] = username[d] /\ clock'[d] = clock[d]
  BY <1>1, HandleFrame
<1>5. Renews(u)' = Renews(u) /\ Renews(u) \subseteq Conns \ {c}
  BY <1>2, <1>3, <1>4 DEF Renews, Renewing
<1>6. Adds(u)' = Adds(u) /\ Adds(u) \subseteq Conns \ {c}
  BY <1>3, <1>4 DEF Adds
<1>7. {clock[d] + Lifetime : d \in Renews(u)}' = {clock[d] + Lifetime : d \in Renews(u)}
  BY <1>4, <1>5
<1>8. {clock[d] + Lifetime : d \in Adds(u)}' = {clock[d] + Lifetime : d \in Adds(u)}
  BY <1>4, <1>6
<1>9. {r.ttl : r \in RowsOf(generateToken(u))}' = {r.ttl : r \in RowsOf(generateToken(u))}
  BY <1>2
<1>. QED
  BY <1>2, <1>5, <1>6, <1>7, <1>8, <1>9 DEF Expiry

LEMMA HandlerKeeps ==
  ASSUME ServiceIInv, Isolated, ExpiryKnown, ExpiryKnown',
         NEW c \in Conns, Handle(c), ~Die,
         \A u \in Users : u \in Own(c) => OwnExpiry(c, u)' = OwnExpiry(c, u)
  PROVE  expiryBar' = expiryBar
<1>1. ASSUME NEW u \in Users
      PROVE  Expiry(u)' = Expiry(u)
  <2>1. CASE u \in Own(c)
    BY <2>1 DEF ExpiryKnown, Own
  <2>2. CASE u \notin Own(c)
    BY <2>2, OthersExpiry
  <2>. QED
    BY <2>1, <2>2
<1>. QED
  BY <1>1, BarKept

LEMMA HandlerExtends ==
  ASSUME ServiceIInv, Isolated, ExpiryKnown, ExpiryKnown',
         NEW c \in Conns, Handle(c), ~Die, NEW v \in Users, v \in Own(c),
         OwnExpiry(c, v)' = {time + Lifetime},
         \A u \in Users \ {v} : u \in Own(c) => OwnExpiry(c, u)' = OwnExpiry(c, u)
  PROVE  expiryBar' = Service!Extended(v)
<1>1. ASSUME NEW u \in Users \ {v}
      PROVE  Expiry(u)' = Expiry(u)
  <2>1. CASE u \in Own(c)
    BY <2>1 DEF ExpiryKnown, Own
  <2>2. CASE u \notin Own(c)
    BY <2>2, OthersExpiry
  <2>. QED
    BY <2>1, <2>2
<1>2. Expiry(v)' = {time + Lifetime}
  BY DEF ExpiryKnown, Own
<1>. QED
  BY <1>1, <1>2, BarExtended

-----------------------------------------------------------------------------
(* The steps of a handler *)

LEMMA AtOne ==
  ASSUME NEW f, NEW g, NEW c \in Conns, NEW x,
         f = [d \in Conns |-> f[d]], g = [d \in Conns |-> g[d]],
         g[c] = x, \A d \in Conns \ {c} : g[d] = f[d]
  PROVE  g = [f EXCEPT ![c] = x]
  OBVIOUS

\* The three queues of TokenService, connection by connection.
LEMMA Bars ==
  /\ openBar = [d \in Conns |-> openBar[d]] /\ openBar' = [d \in Conns |-> openBar'[d]]
  /\ askedBar = [d \in Conns |-> askedBar[d]] /\ askedBar' = [d \in Conns |-> askedBar'[d]]
  /\ toldBar = [d \in Conns |-> toldBar[d]] /\ toldBar' = [d \in Conns |-> toldBar'[d]]
  BY DEF openBar, askedBar, toldBar

\* The bars of connection d depend on its link and its handler only.
LEMMA OneBar ==
  ASSUME NEW d \in Conns, link'[d] = link[d], pc'[d] = pc[d], message'[d] = message[d],
         Decided(d)' = Decided(d)
  PROVE  /\ openBar'[d] = openBar[d]
         /\ askedBar'[d] = askedBar[d]
         /\ toldBar'[d] = toldBar[d]
  BY DEF openBar, askedBar, toldBar

\* Has handler d found the row it renews?
Finds(d) == \E u \in Users : d \in Renews(u)

LEMMA DecidedFrame ==
  ASSUME NEW d \in Conns, pc'[d] = pc[d], message'[d] = message[d],
         answer'[d] = answer[d], Finds(d)' <=> Finds(d)
  PROVE  Decided(d)' = Decided(d)
<1>1. d \in Renewing' <=> d \in Renewing
  BY DEF Renewing
<1>. QED
  BY <1>1 DEF Decided, Finds

LEMMA OthersBars ==
  ASSUME ServiceIInv, Isolated, ExpiryKnown, ExpiryKnown',
         NEW c \in Conns, Handle(c), ~Die, NEW d \in Conns, d # c
  PROVE  /\ openBar'[d] = openBar[d]
         /\ askedBar'[d] = askedBar[d]
         /\ toldBar'[d] = toldBar[d]
<1>1. TypeOK
  BY DEF ServiceIInv, IsolatedIInv, IInv
<1>2. /\ pc'[d] = pc[d] /\ link'[d] = link[d] /\ message'[d] = message[d]
      /\ username'[d] = username[d] /\ answer'[d] = answer[d]
  BY <1>1, HandleFrame
<1>3. ASSUME NEW u \in Users
      PROVE  d \in Renews(u)' <=> d \in Renews(u)
  <2>1. CASE u \in Own(c)
    BY <2>1 DEF ExpiryKnown, Isolated, Own
  <2>2. CASE u \notin Own(c)
    <3>1. RowsOf(generateToken(u))' = RowsOf(generateToken(u))
      BY <2>2, PrivateRows
    <3>. QED
      BY <1>2, <3>1 DEF Renews, Renewing
  <2>. QED
    BY <2>1, <2>2
<1>4. Decided(d)' = Decided(d)
  BY <1>2, <1>3, DecidedFrame DEF Finds
<1>. QED
  BY <1>2, <1>4, OneBar

LEMMA Stutters ==
  ASSUME expiryBar' = expiryBar, time' = time,
         \A d \in Conns : /\ openBar'[d] = openBar[d]
                          /\ askedBar'[d] = askedBar[d]
                          /\ toldBar'[d] = toldBar[d]
  PROVE  UNCHANGED Service!svars
  BY Bars DEF Service!svars

\* A handler's step that shows nothing.
LEMMA HandlerStutters ==
  ASSUME ServiceIInv, Isolated, ExpiryKnown, ExpiryKnown',
         NEW c \in Conns, Handle(c), ~Die,
         \A u \in Users : u \in Own(c) => OwnExpiry(c, u)' = OwnExpiry(c, u),
         openBar'[c] = openBar[c], askedBar'[c] = askedBar[c], toldBar'[c] = toldBar[c]
  PROVE  UNCHANGED Service!svars
<1>1. expiryBar' = expiryBar
  BY HandlerKeeps
<1>2. time' = time
  BY HandleMonotone DEF ServiceIInv, IsolatedIInv, IInv
<1>. QED
  BY <1>1, <1>2, OthersBars, Stutters

\* A handler's step that serves the oldest request of its connection.
LEMMA HandlerServes ==
  ASSUME ServiceIInv, Isolated, ExpiryKnown, ExpiryKnown',
         NEW c \in Conns, Handle(c), ~Die,
         NEW request, NEW text, NEW table,
         Service!Served(request) = Service!Result(text, table),
         askedBar[c] # <<>>, request = Head(askedBar[c]),
         askedBar'[c] = Tail(askedBar[c]),
         expiryBar' = table,
         openBar'[c] = openBar[c],
         toldBar'[c] = IF openBar[c] THEN Append(toldBar[c], text) ELSE toldBar[c]
  PROVE  Service!Serve(c)
<1>1. time' = time
  BY HandleMonotone DEF ServiceIInv, IsolatedIInv, IInv
<1>2. openBar' = openBar
  BY OthersBars, Bars
<1>3. askedBar' = [askedBar EXCEPT ![c] = Tail(askedBar[c])]
  BY OthersBars, Bars, AtOne
<1>4. toldBar' = [toldBar EXCEPT ![c] =
                    IF openBar[c] THEN Append(toldBar[c], text) ELSE toldBar[c]]
  BY OthersBars, Bars, AtOne
<1>5. /\ Service!Served(Head(askedBar[c])).text = text
      /\ Service!Served(Head(askedBar[c])).table = table
  BY DEF Service!Result
<1>. QED
  BY <1>1, <1>2, <1>3, <1>4, <1>5 DEF Service!Serve

\* What a served request adds to what the peer is told.
LEMMA ToldServed ==
  ASSUME TypeOK, NEW c \in Conns, NEW text, text \in Answers,
         link'[c].up = link[c].up, link'[c].in["client"] = link[c].in["client"],
         Decided(c) = <<>>, Decided(c)' = <<text>>
  PROVE  /\ openBar'[c] = openBar[c]
         /\ toldBar'[c] = IF openBar[c] THEN Append(toldBar[c], text) ELSE toldBar[c]
<1>1. link[c].in["client"] \in Seq(Answers)
  BY DEF TypeOK, Links, LinkType
<1>2. /\ link[c].in["client"] \o <<>> = link[c].in["client"]
      /\ link[c].in["client"] \o <<text>> = Append(link[c].in["client"], text)
  BY <1>1
<1>. QED
  BY <1>2 DEF openBar, toldBar

\* The statements between the read of a request and the moment it is decided.
Asking == {"check_credentials", "read_ttl", "check_expiry"}

\* What is asked of a connection, by the statement its handler is at.
LEMMA AskedAt ==
  ASSUME TypeOK, TypeOK', NEW c \in Conns
  PROVE  /\ pc[c] \in Asking =>
              /\ askedBar[c] = <<message[c]>> \o link[c].in["server"]
              /\ askedBar[c] # <<>>
              /\ Head(askedBar[c]) = message[c]
              /\ Tail(askedBar[c]) = link[c].in["server"]
         /\ pc[c] \notin Asking => askedBar[c] = link[c].in["server"]
         /\ pc'[c] \in Asking => askedBar'[c] = <<message'[c]>> \o link'[c].in["server"]
         /\ pc'[c] \notin Asking => askedBar'[c] = link'[c].in["server"]
<1>1. /\ link[c].in["server"] \in Seq(Requests) /\ message[c] \in Requests
      /\ link'[c].in["server"] \in Seq(Requests)
  BY DEF TypeOK, Links, LinkType
<1>2. /\ <<>> \o link[c].in["server"] = link[c].in["server"]
      /\ <<>> \o link'[c].in["server"] = link'[c].in["server"]
  BY <1>1
<1>3. /\ <<message[c]>> \o link[c].in["server"] # <<>>
      /\ Head(<<message[c]>> \o link[c].in["server"]) = message[c]
      /\ Tail(<<message[c]>> \o link[c].in["server"]) = link[c].in["server"]
  BY <1>1
<1>. QED
  BY <1>2, <1>3 DEF askedBar, Asking

\* TokenService speaks the same protocol.
LEMMA ServiceTexts ==
  /\ \A text : Service!Error(text) = Error(text)
  /\ \A u : Service!generateToken(u) = generateToken(u)
  /\ \A u : Service!NewToken(u) = NewToken(u)
  /\ Service!Verified = Verified
  BY DEF Service!Error, Error, Service!generateToken, generateToken,
         Service!NewToken, NewToken, Service!Verified, Verified

\* The answers of TokenService, branch by branch.
LEMMA ServedOther ==
  ASSUME NEW r \in Requests, r.op = "OTHER"
  PROVE  Service!Served(r) = Service!Result(Error("Invalid request"), expiryBar)
  BY ServiceTexts DEF Service!Served

LEMMA ServedAuth ==
  ASSUME NEW r \in Requests, r.op = "AUTH"
  PROVE  /\ r.password = "none" =>
              Service!Served(r) = Service!Result(Error("Invalid request format"), expiryBar)
         /\ isUserExists(r.username, r.password) =>
              Service!Served(r) =
                Service!Result(generateToken(r.username),
                               IF r.username \in DOMAIN expiryBar THEN expiryBar
                               ELSE Service!Extended(r.username))
         /\ r.password # "none" /\ ~isUserExists(r.username, r.password) =>
              Service!Served(r) = Service!Result(Error("Authentication failed"), expiryBar)
  BY ServiceTexts DEF Service!Served, isUserExists

LEMMA ServedVerify ==
  ASSUME NEW r \in Requests, r.op = "VERIFY", time \in Int
  PROVE  /\ \A u \in DOMAIN expiryBar :
              r.token = generateToken(u) /\ expiryBar[u] \in Int =>
              /\ expiryBar[u] > time =>
                   Service!Served(r) = Service!Result(Verified, expiryBar)
              /\ expiryBar[u] <= time =>
                   Service!Served(r) = Service!Result(NewToken(u), Service!Extended(u))
         /\ (\A u \in DOMAIN expiryBar : r.token # generateToken(u)) =>
              Service!Served(r) = Service!Result(NewToken(Blank), expiryBar)
<1>1. ASSUME NEW u \in DOMAIN expiryBar, r.token = generateToken(u), expiryBar[u] \in Int
      PROVE  /\ expiryBar[u] > time =>
                  Service!Served(r) = Service!Result(Verified, expiryBar)
             /\ expiryBar[u] <= time =>
                  Service!Served(r) = Service!Result(NewToken(u), Service!Extended(u))
  <2>1. r.token.of = u
    BY <1>1 DEF generateToken
  <2>. QED
    BY <1>1, <2>1, ServiceTexts DEF Service!Served
<1>2. ASSUME \A u \in DOMAIN expiryBar : r.token # generateToken(u)
      PROVE  Service!Served(r) = Service!Result(NewToken(Blank), expiryBar)
  <2>1. ~(r.token = generateToken(r.token.of) /\ r.token.of \in DOMAIN expiryBar)
    BY <1>2
  <2>. QED
    BY <2>1, ServiceTexts DEF Service!Served
<1>. QED
  BY <1>1, <1>2

\* Where a handler's statement concerns no row.
Idle == Steps \ {"store_token", "read_username", "delete_old", "insert_new"}

LEMMA IdleExpiry ==
  ASSUME NEW c \in Conns, pc[c] \in Idle, pc'[c] \in Idle, tokens' = tokens, NEW u
  PROVE  OwnExpiry(c, u)' = OwnExpiry(c, u)
<1>1. /\ c \notin Renews(u) /\ c \notin Renews(u)' /\ c \notin Adds(u) /\ c \notin Adds(u)'
  BY DEF Idle, Renews, Renewing, Adds
<1>2. RowsOf(generateToken(u))' = RowsOf(generateToken(u))
  BY DEF RowsOf
<1>. QED
  BY <1>1, <1>2 DEF OwnExpiry

\* Nothing is decided before the credentials are checked or the clock is read.
LEMMA DecidedAt ==
  ASSUME NEW c \in Conns
  PROVE  /\ pc[c] \in Idle \ {"send"} => Decided(c) = <<>>
         /\ pc'[c] \in Idle \ {"send"} => Decided(c)' = <<>>
         /\ pc[c] = "send" => Decided(c) = <<answer[c]>>
         /\ pc'[c] = "send" => Decided(c)' = <<answer'[c]>>
         /\ pc[c] = "store_token" => Decided(c) = <<generateToken(message[c].username)>>
         /\ pc'[c] = "store_token" => Decided(c)' = <<generateToken(message'[c].username)>>
         /\ pc[c] \in {"read_username", "delete_old", "insert_new"} =>
              Decided(c) = IF Finds(c) THEN <<NewToken(message[c].token.of)>>
                           ELSE <<NewToken(Blank)>>
         /\ pc'[c] \in {"read_username", "delete_old", "insert_new"} =>
              Decided(c)' = IF Finds(c)' THEN <<NewToken(message'[c].token.of)>>
                            ELSE <<NewToken(Blank)>>
  BY DEF Idle, Decided, Renewing, Finds

\* A read of a request that is then thought about.
LEMMA TakesStutters ==
  ASSUME ServiceIInv, Isolated, ExpiryKnown, ExpiryKnown', IInv',
         NEW c \in Conns, Handle(c), ~Die, NEW m \in Requests, Takes(c, m),
         pc'[c] \in {"check_credentials", "read_ttl"}
  PROVE  UNCHANGED Service!svars
<1>1. TypeOK /\ TypeOK' /\ ConnInv(c)
  BY DEF ServiceIInv, IsolatedIInv, IInv
<1>2. /\ pc[c] = "receive" /\ tokens' = tokens
      /\ link[c].in["server"] # <<>> /\ m = Head(link[c].in["server"])
      /\ link'[c].in["server"] = Tail(link[c].in["server"])
      /\ link[c].in["server"] \in Seq(Requests)
  <2>1. /\ pc[c] = "receive" /\ tokens' = tokens
        /\ link[c].in["server"] # <<>> /\ m = Head(link[c].in["server"])
    BY DEF Takes, CanRead
  <2>2. link[c] \in Links /\ link'[c] = AfterRead(link[c], "server")
    BY <1>1, TakesConn DEF TypeOK
  <2>3. /\ link'[c].in["server"] = Tail(link[c].in["server"])
        /\ link[c].in["server"] \in Seq(Requests)
    BY <2>2 DEF AfterRead, Links, LinkType
  <2>. QED
    BY <2>1, <2>3
<1>3. /\ link'[c].up = link[c].up /\ link'[c].in["client"] = link[c].in["client"]
      /\ message'[c] = m
  BY <1>1, TakesConn
<1>4. askedBar'[c] = askedBar[c]
  <2>1. askedBar[c] = link[c].in["server"] /\ askedBar'[c] = <<m>> \o link'[c].in["server"]
    BY <1>1, <1>2, <1>3, AskedAt DEF Asking
  <2>. QED
    BY <1>2, <2>1
<1>5. openBar'[c] = openBar[c] /\ toldBar'[c] = toldBar[c]
  <2>1. Decided(c) = <<>> /\ Decided(c)' = <<>>
    BY <1>2, DecidedAt DEF Idle, Steps
  <2>. QED
    BY <1>3, <2>1 DEF openBar, toldBar
<1>6. \A u : OwnExpiry(c, u)' = OwnExpiry(c, u)
  BY <1>2, IdleExpiry DEF Idle, Steps
<1>. QED
  BY <1>4, <1>5, <1>6, HandlerStutters

\* A read of a request that is answered at once.
LEMMA TakesServes ==
  ASSUME ServiceIInv, Isolated, ExpiryKnown, ExpiryKnown', IInv',
         NEW c \in Conns, Handle(c), ~Die, NEW m \in Requests, Takes(c, m),
         NEW text \in Answers, Reply(c, text),
         Service!Served(m) = Service!Result(text, expiryBar)
  PROVE  Service!Serve(c)
<1>1. TypeOK /\ TypeOK' /\ ConnInv(c)
  BY DEF ServiceIInv, IsolatedIInv, IInv
<1>2. /\ pc[c] = "receive" /\ tokens' = tokens
      /\ link[c].in["server"] # <<>> /\ m = Head(link[c].in["server"])
      /\ link'[c].in["server"] = Tail(link[c].in["server"])
  <2>1. /\ pc[c] = "receive" /\ tokens' = tokens
        /\ link[c].in["server"] # <<>> /\ m = Head(link[c].in["server"])
    BY DEF Takes, CanRead
  <2>2. link[c] \in Links /\ link'[c] = AfterRead(link[c], "server")
    BY <1>1, TakesConn DEF TypeOK
  <2>3. link'[c].in["server"] = Tail(link[c].in["server"])
    BY <2>2 DEF AfterRead, Links, LinkType
  <2>. QED
    BY <2>1, <2>3
<1>3. link'[c].up = link[c].up /\ link'[c].in["client"] = link[c].in["client"]
  BY <1>1, TakesConn
<1>4. pc'[c] = "send" /\ answer'[c] = text
  BY <1>1 DEF Reply, Goto, TypeOK
<1>5. askedBar[c] = link[c].in["server"] /\ askedBar'[c] = Tail(askedBar[c])
  BY <1>1, <1>2, <1>4, AskedAt DEF Asking
<1>6. Decided(c) = <<>> /\ Decided(c)' = <<text>>
  BY <1>2, <1>4, DecidedAt DEF Idle, Steps
<1>7. /\ openBar'[c] = openBar[c]
      /\ toldBar'[c] = IF openBar[c] THEN Append(toldBar[c], text) ELSE toldBar[c]
  BY <1>1, <1>3, <1>6, ToldServed
<1>8. expiryBar' = expiryBar
  BY <1>2, <1>4, IdleExpiry, HandlerKeeps DEF Idle, Steps
<1>. QED
  BY <1>2, <1>5, <1>7, <1>8, HandlerServes

\* A statement that leaves the connection alone, between two that are or are not
\* the request's last before it is decided.
LEMMA BarsInside ==
  ASSUME TypeOK, TypeOK', NEW c \in Conns, link' = link, message' = message,
         pc[c] \in Asking <=> pc'[c] \in Asking,
         Decided(c)' = Decided(c)
  PROVE  openBar'[c] = openBar[c] /\ askedBar'[c] = askedBar[c] /\ toldBar'[c] = toldBar[c]
<1>1. openBar'[c] = openBar[c] /\ toldBar'[c] = toldBar[c]
  BY DEF openBar, toldBar
<1>2. askedBar'[c] = askedBar[c]
  BY AskedAt
<1>. QED
  BY <1>1, <1>2

\* A statement at which the request is decided.
LEMMA DecidesServes ==
  ASSUME ServiceIInv, Isolated, ExpiryKnown, ExpiryKnown', IInv',
         NEW c \in Conns, Handle(c), ~Die, link' = link,
         pc[c] \in Asking, pc'[c] \notin Asking,
         NEW text \in Answers, NEW table,
         Decided(c)' = <<text>>, expiryBar' = table,
         Service!Served(message[c]) = Service!Result(text, table)
  PROVE  Service!Serve(c)
<1>1. TypeOK /\ TypeOK'
  BY DEF ServiceIInv, IsolatedIInv, IInv
<1>2. /\ askedBar[c] # <<>> /\ message[c] = Head(askedBar[c])
      /\ askedBar'[c] = Tail(askedBar[c])
  BY <1>1, AskedAt
<1>3. Decided(c) = <<>>
  BY DecidedAt DEF Asking, Idle, Steps
<1>4. /\ openBar'[c] = openBar[c]
      /\ toldBar'[c] = IF openBar[c] THEN Append(toldBar[c], text) ELSE toldBar[c]
  BY <1>1, <1>3, ToldServed
<1>. QED
  BY <1>2, <1>4, HandlerServes

LEMMA CredentialsStep ==
  ASSUME ServiceIInv, Isolated, ExpiryKnown, ExpiryKnown', IInv',
         NEW c \in Conns, Handle(c), ~Die, CheckCredentials(c)
  PROVE  Service!Serve(c)
<1>1. TypeOK /\ TypeOK' /\ InBranch(c) /\ Apart(c) /\ Serving(c)
  BY DEF ServiceIInv, IsolatedIInv, IInv, ConnInv
<1>2. /\ pc[c] = "check_credentials" /\ UNCHANGED <<link, message, tokens>>
      /\ message[c] \in Requests /\ message[c].op = "AUTH"
  BY <1>1 DEF CheckCredentials, InBranch, TypeOK
<1>3. PICK u \in Users : u = message[c].username /\ u \in Own(c)
  BY <1>1, <1>2, AuthMessage, WorksForOwn DEF ServiceIInv, IsolatedIInv
<1>4. \A w : c \notin Renews(w) /\ c \notin Adds(w)
  BY <1>2 DEF Renews, Renewing, Adds
<1>5. \A w : RowsOf(generateToken(w))' = RowsOf(generateToken(w))
  BY <1>2 DEF RowsOf
<1>6. CASE ~isUserExists(u, message[c].password)
  <2>1. pc'[c] = "send" /\ answer'[c] = Error("Authentication failed")
    BY <1>1, <1>3, <1>6 DEF CheckCredentials, Reply, Goto, TypeOK
  <2>2. message[c].password # "none"
    BY <1>1, <1>2 DEF Serving
  <2>3. Service!Served(message[c]) =
          Service!Result(Error("Authentication failed"), expiryBar)
    BY <1>2, <1>3, <1>6, <2>2, ServedAuth
  <2>4. Error("Authentication failed") \in Answers
    BY AnswerTyped DEF ErrorTexts
  <2>5. Decided(c)' = <<Error("Authentication failed")>>
    BY <2>1, DecidedAt
  <2>6. expiryBar' = expiryBar
    BY <1>2, <2>1, IdleExpiry, HandlerKeeps DEF Idle, Steps
  <2>. QED
    BY <1>2, <2>1, <2>3, <2>4, <2>5, <2>6, DecidesServes DEF Asking
<1>7. CASE isUserExists(u, message[c].password)
  <2>1. pc'[c] = "store_token" /\ clock'[c] = time
    BY <1>1, <1>3, <1>7 DEF CheckCredentials, Goto, TypeOK, Isolated
  <2>2. Decided(c)' = <<generateToken(u)>>
    BY <1>2, <1>3, <2>1, DecidedAt
  <2>3. generateToken(u) \in Answers
    BY AnswerTyped DEF Names
  <2>4. Service!Served(message[c]) =
          Service!Result(generateToken(u),
                         IF u \in DOMAIN expiryBar THEN expiryBar
                         ELSE Service!Extended(u))
    BY <1>2, <1>3, <1>7, ServedAuth
  <2>5. \A w : c \notin Renews(w)' /\ (c \in Adds(w)' <=> w = u)
    BY <1>2, <1>3, <2>1 DEF Renews, Renewing, Adds
  <2>6. \A w : w # u => OwnExpiry(c, w)' = OwnExpiry(c, w)
    BY <1>4, <1>5, <2>5 DEF OwnExpiry
  <2>7. u \in DOMAIN expiryBar <=> RowsOf(generateToken(u)) # {}
    <3>1. DOMAIN expiryBar = Holders /\ Expiry(u) = OwnExpiry(c, u)
      BY <1>3 DEF ExpiryKnown
    <3>2. OwnExpiry(c, u) # {} <=> RowsOf(generateToken(u)) # {}
      BY <1>4 DEF OwnExpiry
    <3>. QED
      BY <3>1, <3>2 DEF ExpiryKnown
  <2>8. CASE u \in DOMAIN expiryBar
    <3>1. OwnExpiry(c, u)' = OwnExpiry(c, u)
      BY <1>4, <1>5, <2>5, <2>7, <2>8 DEF OwnExpiry
    <3>2. expiryBar' = expiryBar
      BY <2>6, <3>1, HandlerKeeps
    <3>. QED
      BY <1>2, <2>1, <2>2, <2>3, <2>4, <2>8, <3>2, DecidesServes DEF Asking
  <2>9. CASE u \notin DOMAIN expiryBar
    <3>1. OwnExpiry(c, u)' = {time + Lifetime}
      BY <1>5, <2>1, <2>5, <2>7, <2>9 DEF OwnExpiry
    <3>2. expiryBar' = Service!Extended(u)
      BY <1>3, <2>6, <3>1, HandlerExtends
    <3>. QED
      BY <1>2, <2>1, <2>2, <2>3, <2>4, <2>9, <3>2, DecidesServes DEF Asking
  <2>. QED
    BY <2>8, <2>9
<1>. QED
  BY <1>6, <1>7

\* The clock is read: the token is good, or is renewed now, or nobody's.
LEMMA ExpiryStep ==
  ASSUME ServiceIInv, Isolated, ExpiryKnown, ExpiryKnown', IInv',
         NEW c \in Conns, Handle(c), ~Die, CheckExpiry(c)
  PROVE  Service!Serve(c)
<1>1. TypeOK /\ TypeOK' /\ InBranch(c) /\ Apart(c) /\ Serving(c) /\ IInv /\ TableSound
  BY DEF ServiceIInv, IsolatedIInv, IInv, ConnInv
<1>2. /\ pc[c] = "check_expiry" /\ UNCHANGED <<link, message, tokens, username>>
      /\ message[c] \in Requests /\ message[c].op = "VERIFY"
      /\ clock'[c] = time /\ time \in Nat /\ ttl[c] \in Nat
  BY <1>1 DEF CheckExpiry, InBranch, TypeOK, Verifying
<1>3. \A w : c \notin Renews(w) /\ c \notin Adds(w)
  BY <1>2 DEF Renews, Renewing, Adds
<1>4. \A w : RowsOf(generateToken(w))' = RowsOf(generateToken(w))
  BY <1>2 DEF RowsOf
<1>5. /\ \A r \in RowsOf(message[c].token) : ttl[c] = r.ttl
      /\ RowsOf(message[c].token) = {} => ttl[c] = 0
  BY <1>1, <1>2 DEF Serving
<1>6. ASSUME NEW u \in Users, message[c].token = generateToken(u)
      PROVE  /\ u \in Own(c)
             /\ u \in DOMAIN expiryBar <=> RowsOf(generateToken(u)) # {}
             /\ u \in DOMAIN expiryBar => expiryBar[u] = ttl[c]
  <2>1. u \in Own(c)
    BY <1>1, <1>2, <1>6, WorksForOwn DEF Verifying
  <2>2. DOMAIN expiryBar = Holders /\ Expiry(u) = OwnExpiry(c, u)
    BY <2>1 DEF ExpiryKnown
  <2>3. OwnExpiry(c, u) = {r.ttl : r \in RowsOf(generateToken(u))}
    BY <1>3 DEF OwnExpiry
  <2>4. u \in DOMAIN expiryBar => expiryBar[u] \in Expiry(u)
    BY <2>2 DEF ExpiryKnown
  <2>5. u \in DOMAIN expiryBar <=> Expiry(u) # {}
    BY <2>2 DEF ExpiryKnown
  <2>. QED
    BY <1>5, <1>6, <2>1, <2>2, <2>3, <2>4, <2>5
<1>7. message[c].token \in AuthAnswers
  BY <1>1, <1>2, OwnVerify DEF Apart
<1>8. CASE ttl[c] > time
  <2>1. pc'[c] = "send" /\ answer'[c] = Verified
    BY <1>1, <1>2, <1>8 DEF CheckExpiry, Reply, Goto, TypeOK
  <2>2. PICK r \in RowsOf(message[c].token) : TRUE
    BY <1>2, <1>5, <1>8
  <2>3. PICK u \in Users : message[c].token = generateToken(u)
    BY <1>1, <1>7, <2>2, RowsOfText DEF TypeOK
  <2>4. u \in DOMAIN expiryBar /\ expiryBar[u] = ttl[c]
    BY <1>6, <2>2, <2>3
  <2>5. Service!Served(message[c]) = Service!Result(Verified, expiryBar)
    BY <1>2, <1>8, <2>3, <2>4, ServedVerify
  <2>6. Decided(c)' = <<Verified>> /\ Verified \in Answers
    BY <2>1, DecidedAt, AnswerTyped
  <2>7. expiryBar' = expiryBar
    BY <1>2, <2>1, IdleExpiry, HandlerKeeps DEF Idle, Steps
  <2>. QED
    BY <1>2, <2>1, <2>5, <2>6, <2>7, DecidesServes DEF Asking
<1>9. CASE ~(ttl[c] > time)
  <2>1. pc'[c] = "read_username"
    BY <1>1, <1>2, <1>9 DEF CheckExpiry, Goto, TypeOK
  <2>2. \A w : /\ c \notin Adds(w)'
               /\ c \in Renews(w)' <=> /\ message[c].token = generateToken(w)
                                       /\ RowsOf(generateToken(w)) # {}
    BY <1>2, <1>4, <2>1 DEF Renews, Renewing, Adds
  <2>3. \A w : message[c].token # generateToken(w) => OwnExpiry(c, w)' = OwnExpiry(c, w)
    BY <1>3, <1>4, <2>2 DEF OwnExpiry
  <2>4. CASE \E u \in Users : message[c].token = generateToken(u)
                              /\ RowsOf(generateToken(u)) # {}
    <3>1. PICK u \in Users : /\ message[c].token = generateToken(u)
                             /\ RowsOf(generateToken(u)) # {}
      BY <2>4
    <3>2. u \in Own(c) /\ u \in DOMAIN expiryBar /\ expiryBar[u] = ttl[c]
      BY <1>6, <3>1
    <3>3. Service!Served(message[c]) =
            Service!Result(NewToken(u), Service!Extended(u))
      BY <1>2, <1>9, <3>1, <3>2, ServedVerify
    <3>4. OwnExpiry(c, u)' = {time + Lifetime}
      BY <1>2, <2>2, <3>1 DEF OwnExpiry
    <3>5. \A w \in Users \ {u} : OwnExpiry(c, w)' = OwnExpiry(c, w)
      BY <2>3, <3>1, DifferentTokens
    <3>6. expiryBar' = Service!Extended(u)
      BY <3>2, <3>4, <3>5, HandlerExtends
    <3>7. message[c].token.of = u
      BY <3>1 DEF generateToken
    <3>8. Decided(c)' = <<NewToken(u)>> /\ NewToken(u) \in Answers
      BY <1>2, <2>1, <2>2, <3>1, <3>7, DecidedAt, AnswerTyped DEF Finds, Names
    <3>. QED
      BY <1>2, <2>1, <3>3, <3>6, <3>8, DecidesServes DEF Asking
  <2>5. CASE \A u \in Users : message[c].token = generateToken(u) =>
                              RowsOf(generateToken(u)) = {}
    <3>1. \A u \in DOMAIN expiryBar : message[c].token # generateToken(u)
      BY <1>6, <2>5 DEF ExpiryKnown
    <3>2. Service!Served(message[c]) = Service!Result(NewToken(Blank), expiryBar)
      BY <1>2, <3>1, ServedVerify
    <3>3. \A w \in Users : OwnExpiry(c, w)' = OwnExpiry(c, w)
      BY <1>3, <1>4, <2>2, <2>5 DEF OwnExpiry
    <3>4. expiryBar' = expiryBar
      BY <3>3, HandlerKeeps
    <3>5. Decided(c)' = <<NewToken(Blank)>> /\ NewToken(Blank) \in Answers
      BY <1>2, <2>1, <2>2, <2>5, DecidedAt, AnswerTyped DEF Finds, Names
    <3>. QED
      BY <1>2, <2>1, <3>2, <3>4, <3>5, DecidesServes DEF Asking
  <2>. QED
    BY <2>4, <2>5
<1>. QED
  BY <1>8, <1>9

\* A statement inside a request that shows nothing.
LEMMA InsideStutters ==
  ASSUME ServiceIInv, Isolated, ExpiryKnown, ExpiryKnown', IInv',
         NEW c \in Conns, Handle(c), ~Die, link' = link, message' = message,
         pc[c] \in Asking <=> pc'[c] \in Asking,
         Decided(c)' = Decided(c),
         \A u \in Users : u \in Own(c) => OwnExpiry(c, u)' = OwnExpiry(c, u)
  PROVE  UNCHANGED Service!svars
<1>1. TypeOK /\ TypeOK'
  BY DEF ServiceIInv, IsolatedIInv, IInv
<1>. QED
  BY <1>1, BarsInside, HandlerStutters

LEMMA StoreStep ==
  ASSUME ServiceIInv, Isolated, ExpiryKnown, ExpiryKnown', IInv',
         NEW c \in Conns, Handle(c), ~Die, StoreToken(c)
  PROVE  UNCHANGED Service!svars
<1>1. TypeOK /\ TableSound
  BY DEF ServiceIInv, IsolatedIInv, IInv
<1>2. PICK u : /\ u = message[c].username
               /\ tokens' = Inserted(u, generateToken(u), clock[c] + Lifetime)
  BY DEF StoreToken, Isolated
<1>3. /\ pc[c] = "store_token" /\ pc'[c] = "send" /\ UNCHANGED <<link, message, clock>>
      /\ answer'[c] = generateToken(u)
  BY <1>1, <1>2 DEF StoreToken, Reply, Goto, TypeOK
<1>4. Decided(c)' = Decided(c)
  BY <1>2, <1>3, DecidedAt
<1>5. \A w : /\ c \notin Renews(w) /\ c \notin Renews(w)' /\ c \notin Adds(w)'
             /\ c \in Adds(w) <=> w = u
  BY <1>2, <1>3 DEF Renews, Renewing, Adds
<1>6. /\ \A t : t # generateToken(u) => RowsOf(t)' = RowsOf(t)
      /\ RowsOf(generateToken(u)) # {} => tokens' = tokens
      /\ RowsOf(generateToken(u)) = {} =>
           RowsOf(generateToken(u))' = {Row(u, generateToken(u), clock[c] + Lifetime)}
  BY <1>1, <1>2, InsertedRows
<1>7. ASSUME NEW w \in Users
      PROVE  OwnExpiry(c, w)' = OwnExpiry(c, w)
  <2>1. CASE w # u
    BY <1>5, <1>6, <2>1, DifferentTokens DEF OwnExpiry
  <2>2. CASE w = u /\ RowsOf(generateToken(u)) # {}
    BY <1>5, <1>6, <2>2 DEF OwnExpiry, RowsOf
  <2>3. CASE w = u /\ RowsOf(generateToken(u)) = {}
    <3>1. Row(u, generateToken(u), clock[c] + Lifetime).ttl = clock[c] + Lifetime
      BY DEF Row
    <3>2. OwnExpiry(c, w) = {clock[c] + Lifetime}
      BY <1>5, <2>3 DEF OwnExpiry
    <3>3. OwnExpiry(c, w)' = {r.ttl : r \in RowsOf(generateToken(u))'}
      BY <1>5, <1>6, <2>3 DEF OwnExpiry
    <3>. QED
      BY <1>6, <2>3, <3>1, <3>2, <3>3
  <2>. QED
    BY <2>1, <2>2, <2>3
<1>. QED
  BY <1>3, <1>4, <1>7, InsideStutters DEF Asking

LEMMA ReadTtlStep ==
  ASSUME ServiceIInv, Isolated, ExpiryKnown, ExpiryKnown', IInv',
         NEW c \in Conns, Handle(c), ~Die, ReadTtl(c)
  PROVE  UNCHANGED Service!svars
<1>1. TypeOK
  BY DEF ServiceIInv, IsolatedIInv, IInv
<1>2. /\ pc[c] = "read_ttl" /\ pc'[c] = "check_expiry"
      /\ UNCHANGED <<tokens, link, message>>
  BY <1>1 DEF ReadTtl, Goto, TypeOK, Isolated
<1>3. Decided(c)' = Decided(c)
  BY <1>2, DecidedAt DEF Idle, Steps
<1>4. \A u : OwnExpiry(c, u)' = OwnExpiry(c, u)
  BY <1>2, IdleExpiry DEF Idle, Steps
<1>. QED
  BY <1>2, <1>3, <1>4, InsideStutters DEF Asking

\* Whether a handler renews a user's row is settled before it reads the name.
LEMMA ReadUsernameStep ==
  ASSUME ServiceIInv, Isolated, ExpiryKnown, ExpiryKnown', IInv',
         NEW c \in Conns, Handle(c), ~Die, ReadUsername(c)
  PROVE  UNCHANGED Service!svars
<1>1. TypeOK /\ TableSound /\ Serving(c)
  BY DEF ServiceIInv, IsolatedIInv, IInv
<1>2. /\ pc[c] = "read_username" /\ pc'[c] = "delete_old"
      /\ UNCHANGED <<tokens, link, message, clock>>
      /\ \/ \E r \in RowsOf(message[c].token) : username'[c] = r.username
         \/ RowsOf(message[c].token) = {} /\ username'[c] = username[c]
  BY <1>1 DEF ReadUsername, Goto, TypeOK, Isolated
<1>3. username[c] = Blank
  BY <1>1, <1>2 DEF Serving, Nameless, Steps
<1>4. ASSUME NEW u \in Users
      PROVE  /\ c \in Renews(u)' <=> c \in Renews(u)
             /\ c \notin Adds(u) /\ c \notin Adds(u)'
             /\ RowsOf(generateToken(u))' = RowsOf(generateToken(u))
  <2>1. c \in Renews(u) <=> /\ message[c].token = generateToken(u)
                            /\ RowsOf(generateToken(u)) # {}
    BY <1>2 DEF Renews, Renewing
  <2>2. c \in Renews(u)' <=> message[c].token = generateToken(u) /\ username'[c] = u
    BY <1>2 DEF Renews, Renewing
  <2>3. message[c].token = generateToken(u) =>
          \A r \in RowsOf(message[c].token) : r.username = u
    BY <1>1, DifferentTokens DEF TableSound, RowsOf
  <2>4. u # Blank
    BY BlankAssumption
  <2>. QED
    BY <1>2, <1>3, <2>1, <2>2, <2>3, <2>4 DEF Adds, RowsOf
<1>5. \A u \in Users : OwnExpiry(c, u)' = OwnExpiry(c, u)
  BY <1>2, <1>4 DEF OwnExpiry
<1>6. Decided(c)' = Decided(c)
  BY <1>2, <1>4, DecidedAt DEF Finds
<1>. QED
  BY <1>2, <1>5, <1>6, InsideStutters DEF Asking

LEMMA DeleteStep ==
  ASSUME ServiceIInv, Isolated, ExpiryKnown, ExpiryKnown', IInv',
         NEW c \in Conns, Handle(c), ~Die, DeleteOld(c)
  PROVE  UNCHANGED Service!svars
<1>1. TypeOK /\ TableSound /\ Restores(c)
  BY DEF ServiceIInv, IsolatedIInv, IInv
<1>2. /\ pc[c] = "delete_old" /\ pc'[c] = "insert_new"
      /\ UNCHANGED <<link, message, clock, username>>
      /\ tokens' = tokens \ RowsOf(message[c].token)
  BY <1>1 DEF DeleteOld, Goto, TypeOK, Isolated, locals
<1>3. \A u : /\ c \in Renews(u) <=> message[c].token = generateToken(u) /\ username[c] = u
             /\ c \in Renews(u)' <=> c \in Renews(u)
             /\ c \notin Adds(u) /\ c \notin Adds(u)'
  BY <1>2 DEF Renews, Renewing, Adds
<1>4. ASSUME NEW u \in Users, c \notin Renews(u)
      PROVE  RowsOf(generateToken(u))' = RowsOf(generateToken(u))
  <2>1. CASE message[c].token # generateToken(u)
    BY <1>2, <2>1 DEF RowsOf
  <2>2. CASE message[c].token = generateToken(u)
    <3>1. u \notin loggedIn
      BY <1>1, <1>2, <1>3, <1>4, <2>2 DEF Restores
    <3>2. \A r \in tokens : r.token # generateToken(u)
      BY <1>1, <3>1, BlankAssumption, DifferentTokens DEF TableSound
    <3>. QED
      BY <1>2, <3>2 DEF RowsOf
  <2>. QED
    BY <2>1, <2>2
<1>5. \A u \in Users : OwnExpiry(c, u)' = OwnExpiry(c, u)
  BY <1>2, <1>3, <1>4 DEF OwnExpiry
<1>6. Decided(c)' = Decided(c)
  BY <1>2, <1>3, DecidedAt DEF Finds
<1>. QED
  BY <1>2, <1>5, <1>6, InsideStutters DEF Asking

LEMMA InsertStep ==
  ASSUME ServiceIInv, Isolated, ExpiryKnown, ExpiryKnown', IInv',
         NEW c \in Conns, Handle(c), ~Die, InsertNew(c)
  PROVE  UNCHANGED Service!svars
<1>1. TypeOK /\ TableSound /\ Serving(c)
  BY DEF ServiceIInv, IsolatedIInv, IInv
<1>2. PICK v \in Names :
             /\ v = username[c]
             /\ tokens' = Inserted(v, generateToken(v), clock[c] + Lifetime)
  BY <1>1 DEF InsertNew, Isolated, TypeOK
<1>3. /\ pc[c] = "insert_new" /\ pc'[c] = "send"
      /\ UNCHANGED <<link, message, clock>>
      /\ answer'[c] = NewToken(v)
  BY <1>1, <1>2 DEF InsertNew, Reply, Goto, TypeOK
<1>4. /\ RowsOf(message[c].token) = {}
      /\ v # Blank => message[c].token = generateToken(v)
  BY <1>1, <1>2, <1>3 DEF Serving
<1>5. \A u : /\ c \in Renews(u) <=> message[c].token = generateToken(u) /\ v = u
             /\ c \notin Renews(u)'
             /\ c \notin Adds(u) /\ c \notin Adds(u)'
  BY <1>2, <1>3 DEF Renews, Renewing, Adds
<1>6. /\ \A t : t # generateToken(v) => RowsOf(t)' = RowsOf(t)
      /\ RowsOf(generateToken(v)) = {} =>
           RowsOf(generateToken(v))' = {Row(v, generateToken(v), clock[c] + Lifetime)}
  BY <1>1, <1>2, InsertedRows
<1>7. ASSUME NEW u \in Users
      PROVE  OwnExpiry(c, u)' = OwnExpiry(c, u)
  <2>1. CASE u # v
    BY <1>5, <1>6, <2>1, DifferentTokens DEF OwnExpiry
  <2>2. CASE u = v
    <3>1. v # Blank /\ c \in Renews(u) /\ RowsOf(generateToken(u)) = {}
      BY <1>4, <1>5, <2>2, BlankAssumption
    <3>2. OwnExpiry(c, u) = {clock[c] + Lifetime}
      BY <3>1 DEF OwnExpiry
    <3>3. OwnExpiry(c, u)' = {r.ttl : r \in RowsOf(generateToken(u))'}
      BY <1>5, <1>6, <2>2, <3>1 DEF OwnExpiry
    <3>4. Row(v, generateToken(v), clock[c] + Lifetime).ttl = clock[c] + Lifetime
      BY DEF Row
    <3>. QED
      BY <1>6, <2>2, <3>1, <3>2, <3>3, <3>4
  <2>. QED
    BY <2>1, <2>2
<1>8. Decided(c) = <<NewToken(v)>>
  <2>1. CASE v = Blank
    BY <1>3, <1>5, <2>1, DecidedAt, BlankAssumption DEF Finds
  <2>2. CASE v # Blank
    <3>1. v \in Users /\ message[c].token.of = v
      BY <1>4, <2>2 DEF Names, generateToken
    <3>. QED
      BY <1>3, <1>4, <1>5, <2>2, <3>1, DecidedAt DEF Finds
  <2>. QED
    BY <2>1, <2>2
<1>9. Decided(c)' = Decided(c)
  BY <1>3, <1>8, DecidedAt
<1>. QED
  BY <1>3, <1>7, <1>9, InsideStutters DEF Asking

LEMMA EndStep ==
  ASSUME ServiceIInv, Isolated, ExpiryKnown, ExpiryKnown', IInv',
         NEW c \in Conns, Handle(c), ~Die, ReceiveEnd(c)
  PROVE  UNCHANGED Service!svars
<1>1. TypeOK
  BY DEF ServiceIInv, IsolatedIInv, IInv
<1>2. /\ pc[c] = "receive" /\ pc'[c] = "disconnect"
      /\ UNCHANGED <<tokens, link, message>>
  BY <1>1 DEF ReceiveEnd, Goto, TypeOK, locals
<1>3. Decided(c)' = Decided(c)
  BY <1>2, DecidedAt DEF Idle, Steps
<1>4. \A u : OwnExpiry(c, u)' = OwnExpiry(c, u)
  BY <1>2, IdleExpiry DEF Idle, Steps
<1>. QED
  BY <1>2, <1>3, <1>4, InsideStutters DEF Asking

\* What is sent was decided before, and reaches the peer that is still there.
LEMMA SendStep ==
  ASSUME ServiceIInv, Isolated, ExpiryKnown, ExpiryKnown', IInv',
         NEW c \in Conns, Handle(c), ~Die, SendAnswer(c)
  PROVE  UNCHANGED Service!svars
<1>1. TypeOK /\ TypeOK' /\ InUse(c) /\ Serving(c)
  BY DEF ServiceIInv, IsolatedIInv, IInv, ConnInv
<1>2. pc[c] = "send"
  BY DEF SendAnswer
<1>3. PICK o \in WriteOutcomes(link[c], "server", <<answer[c]>>) :
             /\ link' = [link EXCEPT ![c] = o.link]
             /\ Goto(c, "receive") /\ UNCHANGED tokens
  BY Zenon DEF SendAnswer
<1>4. /\ link'[c] = o.link /\ pc'[c] = "receive" /\ link[c] \in Links
      /\ answer[c] \in Answers /\ link[c].in["client"] \in Seq(Answers)
  <2>1. link[c] \in Links /\ answer[c] \in Answers
    BY <1>1 DEF TypeOK
  <2>2. link'[c] = o.link /\ pc'[c] = "receive"
    BY <1>1, <1>3 DEF Goto, TypeOK
  <2>. QED
    BY <2>1, <2>2 DEF Links, LinkType
<1>5. /\ link'[c].up = link[c].up
      /\ link'[c].in["server"] = link[c].in["server"]
      /\ link[c].up["client"] /\ ~link[c].reset =>
           link'[c].in["client"] = Append(link[c].in["client"], answer[c])
  <2>1. /\ o.link.up = link[c].up
        /\ o.link.in["server"] = link[c].in["server"]
        /\ link[c].up["client"] /\ ~link[c].reset =>
             o.link.in["client"] = Append(link[c].in["client"], answer[c])
    BY <1>4, AnswerWritten
  <2>. QED
    BY <1>4, <2>1
<1>6. Decided(c) = <<answer[c]>> /\ Decided(c)' = <<>>
  BY <1>2, <1>4, DecidedAt DEF Idle, Steps
<1>7. openBar'[c] = openBar[c] /\ toldBar'[c] = toldBar[c]
  <2>1. CASE link[c].up["client"]
    <3>1. ~link[c].reset
      BY <1>1, <2>1 DEF InUse, Serving
    <3>2. /\ link[c].in["client"] \o <<answer[c]>> = Append(link[c].in["client"], answer[c])
          /\ Append(link[c].in["client"], answer[c]) \o <<>> =
               Append(link[c].in["client"], answer[c])
      <4>1. \A t \in Seq(Answers) : /\ t \o <<answer[c]>> = Append(t, answer[c])
                                   /\ Append(t, answer[c]) \o <<>> = Append(t, answer[c])
        BY <1>4
      <4>. QED
        BY <1>4, <4>1
    <3>. QED
      BY <1>5, <1>6, <2>1, <3>1, <3>2 DEF openBar, toldBar
  <2>2. CASE ~link[c].up["client"]
    BY <1>5, <2>2 DEF openBar, toldBar
  <2>. QED
    BY <2>1, <2>2
<1>8. askedBar'[c] = askedBar[c]
  BY <1>1, <1>2, <1>4, <1>5, AskedAt DEF Asking
<1>9. \A u : OwnExpiry(c, u)' = OwnExpiry(c, u)
  BY <1>2, <1>3, <1>4, IdleExpiry DEF Idle, Steps
<1>. QED
  BY <1>7, <1>8, <1>9, HandlerStutters

LEMMA DisconnectStep ==
  ASSUME ServiceIInv, Isolated, ExpiryKnown, ExpiryKnown', IInv',
         NEW c \in Conns, Handle(c), ~Die, Disconnect(c)
  PROVE  UNCHANGED Service!svars
<1>1. TypeOK /\ TypeOK' /\ Serving(c)
  BY DEF ServiceIInv, IsolatedIInv, IInv
<1>2. /\ pc[c] = "disconnect"
      /\ ~link[c].up["client"] /\ link[c].in["server"] = <<>>
  BY <1>1 DEF Disconnect, Serving
<1>3. PICK o \in CloseOutcomes(link[c], "server") :
             /\ o.result # "killed"
             /\ link' = [link EXCEPT ![c] = o.link]
             /\ Goto(c, "idle") /\ UNCHANGED tokens
  BY Zenon DEF Disconnect
<1>4. o.link = ClosedLink
  BY <1>1, <1>2, <1>3, LinkClosed DEF Closed, Peer, Ends, TypeOK
<1>5. /\ link'[c] = ClosedLink /\ pc'[c] = "idle"
      /\ ~link'[c].up["client"] /\ link'[c].in["server"] = <<>>
  BY <1>1, <1>3, <1>4 DEF Goto, TypeOK, ClosedLink
<1>6. openBar'[c] = openBar[c] /\ toldBar'[c] = toldBar[c]
  <2>1. link[c].up["client"] \in BOOLEAN
    BY <1>1 DEF TypeOK, Links, LinkType
  <2>2. link[c].up["client"] = FALSE /\ link'[c].up["client"] = FALSE
    BY <1>2, <1>5, <2>1 DEF ClosedLink
  <2>. QED
    BY <2>2 DEF openBar, toldBar
<1>7. askedBar'[c] = askedBar[c]
  BY <1>1, <1>2, <1>5, AskedAt DEF Asking
<1>8. \A u : OwnExpiry(c, u)' = OwnExpiry(c, u)
  BY <1>2, <1>3, <1>5, IdleExpiry DEF Idle, Steps
<1>. QED
  BY <1>6, <1>7, <1>8, HandlerStutters

\* Every statement of a handler is a request served, or nothing.
LEMMA HandlerStep ==
  ASSUME ServiceIInv, Isolated, ExpiryKnown, ExpiryKnown', IInv',
         NEW c \in Conns, Handle(c), ~Die
  PROVE  Service!Serve(c) \/ UNCHANGED Service!svars
<1>1. TypeOK
  BY DEF ServiceIInv, IsolatedIInv, IInv
<1>2. CASE ReceiveAuth(c) \/ ReceiveVerify(c)
  <2>1. PICK m \in Requests : /\ Takes(c, m)
                              /\ pc'[c] \in {"check_credentials", "read_ttl"}
    BY <1>1, <1>2 DEF ReceiveAuth, ReceiveVerify, Goto, TypeOK
  <2>. QED
    BY <2>1, TakesStutters
<1>3. CASE ReceiveAuthWithoutPassword(c)
  <2>1. PICK m \in Requests : /\ Takes(c, m) /\ m.op = "AUTH" /\ m.password = "none"
                              /\ Reply(c, Error("Invalid request format"))
    BY <1>3 DEF ReceiveAuthWithoutPassword
  <2>2. Error("Invalid request format") \in Answers
    BY AnswerTyped DEF ErrorTexts
  <2>. QED
    BY <2>1, <2>2, ServedAuth, TakesServes
<1>4. CASE ReceiveOther(c)
  <2>1. PICK m \in Requests : /\ Takes(c, m) /\ m.op = "OTHER"
                              /\ Reply(c, Error("Invalid request"))
    BY <1>4 DEF ReceiveOther
  <2>2. Error("Invalid request") \in Answers
    BY AnswerTyped DEF ErrorTexts
  <2>. QED
    BY <2>1, <2>2, ServedOther, TakesServes
<1>. QED
  BY <1>2, <1>3, <1>4, CredentialsStep, ExpiryStep, StoreStep, ReadTtlStep,
     ReadUsernameStep, DeleteStep, InsertStep, EndStep, SendStep, DisconnectStep
     DEF Handle

-----------------------------------------------------------------------------
(* The steps of the environment, and the theorem *)

\* Steps that no handler takes decide nothing.
LEMMA NothingDecided ==
  ASSUME ExpiryKnown, ExpiryKnown',
         UNCHANGED <<tokens, message, clock, username, answer>>,
         \A d \in Conns : \/ pc'[d] = pc[d]
                          \/ pc[d] = "idle" /\ pc'[d] = "receive"
  PROVE  /\ expiryBar' = expiryBar
         /\ \A d \in Conns : Decided(d)' = Decided(d)
<1>1. ASSUME NEW u
      PROVE  Renews(u)' = Renews(u) /\ Adds(u)' = Adds(u)
  BY DEF Renews, Renewing, Adds, RowsOf
<1>2. ASSUME NEW u \in Users
      PROVE  Expiry(u)' = Expiry(u)
  <2>1. RowsOf(generateToken(u))' = RowsOf(generateToken(u))
    BY DEF RowsOf
  <2>2. \A S : {clock'[d] + Lifetime : d \in S} = {clock[d] + Lifetime : d \in S}
    OBVIOUS
  <2>. QED
    BY <1>1, <2>1, <2>2 DEF Expiry
<1>3. expiryBar' = expiryBar
  BY <1>2, BarKept
<1>4. ASSUME NEW d \in Conns
      PROVE  Decided(d)' = Decided(d)
  <2>1. CASE pc'[d] = pc[d]
    BY <1>1, <2>1, DecidedFrame DEF Finds
  <2>2. CASE pc[d] = "idle" /\ pc'[d] = "receive"
    BY <2>2, DecidedAt DEF Idle, Steps
  <2>. QED
    BY <2>1, <2>2
<1>. QED
  BY <1>3, <1>4

LEMMA QueueStart ==
  ASSUME NEW S, NEW x \in Seq(S)
  PROVE  <<>> \in Seq(S) /\ <<>> \o x = x
  OBVIOUS

LEMMA QueueJoined ==
  ASSUME NEW S, NEW x \in Seq(S), NEW y \in Seq(S), NEW z \in Seq(S)
  PROVE  x \o (y \o z) = (x \o y) \o z
  OBVIOUS

LEMMA QueueTail ==
  ASSUME NEW S, NEW x \in Seq(S), NEW y \in Seq(S), x # <<>>
  PROVE  x \o y # <<>> /\ Tail(x \o y) = Tail(x) \o y
  OBVIOUS

\* What a handler is to answer is an answer.
LEMMA DecidedTyped ==
  ASSUME TypeOK, NEW c \in Conns, InBranch(c)
  PROVE  Decided(c) \in Seq(Answers)
<1>1. /\ message[c] \in Requests /\ answer[c] \in Answers /\ pc[c] \in Steps
      /\ <<>> \in Seq(Answers)
  BY DEF TypeOK
<1>2. \A a \in Answers : <<a>> \in Seq(Answers)
  OBVIOUS
<1>3. CASE pc[c] \in Idle \ {"send"}
  BY <1>1, <1>3, DecidedAt
<1>4. CASE pc[c] = "send"
  BY <1>1, <1>2, <1>4, DecidedAt
<1>5. CASE pc[c] = "store_token"
  <2>1. message[c].username \in Names
    BY <1>1, <1>5, AuthMessage DEF InBranch, Names
  <2>. QED
    BY <1>2, <1>5, <2>1, DecidedAt, AnswerTyped
<1>6. CASE pc[c] \in {"read_username", "delete_old", "insert_new"}
  <2>1. Finds(c) => message[c].token.of \in Names
    BY DEF Finds, Renews, generateToken, Names
  <2>2. Blank \in Names
    BY DEF Names
  <2>. QED
    BY <1>2, <1>6, <2>1, <2>2, DecidedAt, AnswerTyped
<1>. QED
  BY <1>1, <1>3, <1>4, <1>5, <1>6 DEF Idle

LEMMA ServiceRequests ==
  /\ \A r : Service!Reads(r) = Reads(r)
  /\ \A c : Service!Texts(c) = Logins[c] \cup [op : {"VERIFY"}, token : AuthAnswers]
<1>1. Service!AuthAnswers = AuthAnswers
  BY DEF Service!AuthAnswers, AuthAnswers
<1>. QED
  BY <1>1 DEF Service!Reads, Reads, Service!Texts

\* Peers see what TokenService's askers see.
LEMMA PeerServes ==
  ASSUME ServiceIInv, ExpiryKnown, ExpiryKnown', IInv', NEW c \in Conns, PeerStep(c)
  PROVE  Service!Next \/ UNCHANGED Service!svars
<1>1. TypeOK /\ TypeOK' /\ InUse(c) /\ InBranch(c) /\ Serving(c)
  BY DEF ServiceIInv, IsolatedIInv, IInv, ConnInv
<1>2. UNCHANGED <<tokens, time, pc, message, clock, username, answer>>
  BY DEF PeerStep, AskLogin, AskVerify, Ask, TakeAnswer, NoAnswer, PeerClose,
         UnchangedServer, locals
<1>3. /\ expiryBar' = expiryBar
      /\ \A d \in Conns : Decided(d)' = Decided(d)
  BY <1>2, NothingDecided
<1>4. \A d \in Conns \ {c} : /\ openBar'[d] = openBar[d]
                             /\ askedBar'[d] = askedBar[d]
                             /\ toldBar'[d] = toldBar[d]
  BY <1>1, <1>2, <1>3, PeerFrame, OneBar
<1>5. /\ link[c] \in Links /\ link'[c] \in Links
      /\ link[c].in["server"] \in Seq(Requests) /\ link'[c].in["server"] \in Seq(Requests)
      /\ link[c].in["client"] \in Seq(Answers) /\ link'[c].in["client"] \in Seq(Answers)
      /\ link[c].up["client"] \in BOOLEAN /\ link'[c].up["client"] \in BOOLEAN
      /\ message[c] \in Requests
  BY <1>1 DEF TypeOK, Links, LinkType
<1>6. PICK head \in Seq(Requests) :
             /\ askedBar[c] = head \o link[c].in["server"]
             /\ askedBar'[c] = head \o link'[c].in["server"]
  <2>1. CASE pc[c] \in Asking
    <3>1. <<message[c]>> \in Seq(Requests)
      BY <1>5
    <3>. QED
      BY <1>1, <1>2, <2>1, <3>1, AskedAt
  <2>2. CASE pc[c] \notin Asking
    <3>1. askedBar[c] = link[c].in["server"] /\ askedBar'[c] = link'[c].in["server"]
      BY <1>1, <1>2, <2>2, AskedAt
    <3>2. /\ <<>> \in Seq(Requests)
          /\ <<>> \o link[c].in["server"] = link[c].in["server"]
          /\ <<>> \o link'[c].in["server"] = link'[c].in["server"]
      BY <1>5, QueueStart
    <3>. QED
      BY <3>1, <3>2
  <2>. QED
    BY <2>1, <2>2
<1>7. PICK last \in Seq(Answers) : Decided(c) = last
  BY <1>1, DecidedTyped
<1>8. ASSUME NEW r \in LoginTexts \cup Requests, Ask(c, r)
      PROVE  Service!Ask(c, r)
  <2>1. PICK o \in WriteOutcomes(link[c], "client", Reads(r)) :
               link' = [link EXCEPT ![c] = o.link]
    BY <1>8 DEF Ask
  <2>2. link'[c] = o.link /\ link[c].up["client"] /\ link[c].up["server"]
        /\ ~link[c].reset
    BY <1>1, <1>8, <2>1 DEF Ask, Serving, InUse, TypeOK
  <2>3. /\ link'[c].up = link[c].up
        /\ link'[c].in["client"] = link[c].in["client"]
        /\ link'[c].in["server"] = link[c].in["server"] \o Reads(r)
    <3>1. /\ o.link.up = link[c].up
          /\ o.link.in["client"] = link[c].in["client"]
          /\ link[c].up["server"] /\ ~link[c].reset =>
               o.link.in["server"] = link[c].in["server"] \o Reads(r)
      BY <1>5, RequestWritten
    <3>. QED
      BY <2>2, <3>1
  <2>4. Reads(r) \in Seq(Requests)
    BY ReadsTyped
  <2>5. askedBar'[c] = askedBar[c] \o Reads(r)
    <3>1. head \o (link[c].in["server"] \o Reads(r)) =
            (head \o link[c].in["server"]) \o Reads(r)
      <4>1. PICK x \in Seq(Requests), y \in Seq(Requests) :
                   x = link[c].in["server"] /\ y = Reads(r)
        BY <1>5, <2>4
      <4>2. head \o (x \o y) = (head \o x) \o y
        BY QueueJoined
      <4>. QED
        BY <4>1, <4>2
    <3>. QED
      BY <1>6, <2>3, <3>1
  <2>6. openBar'[c] = openBar[c] /\ toldBar'[c] = toldBar[c] /\ openBar[c]
    BY <1>3, <2>2, <2>3 DEF openBar, toldBar
  <2>7. askedBar' = [askedBar EXCEPT ![c] = askedBar[c] \o Reads(r)]
    BY <1>4, <2>5, Bars, AtOne
  <2>8. openBar' = openBar /\ toldBar' = toldBar
    BY <1>4, <2>6, Bars
  <2>. QED
    BY <1>2, <1>3, <2>6, <2>7, <2>8, ServiceRequests DEF Service!Ask
<1>9. CASE \E r \in Logins[c] : AskLogin(c, r)
  <2>1. PICK r \in Logins[c] : Ask(c, r)
    BY <1>9 DEF AskLogin
  <2>2. Service!Ask(c, r) /\ r \in Service!Texts(c)
    BY <1>8, <2>1, ConstantsAssumption, ServiceRequests
  <2>. QED
    BY <2>2 DEF Service!Next
<1>10. CASE AskVerify(c)
  <2>1. Verify(held[c]) \in Requests
    BY <1>1, <1>10 DEF AskVerify, TypeOK, Verify, Requests
  <2>2. Verify(held[c]) \in Service!Texts(c)
    BY <1>1, <1>10, ServiceRequests DEF AskVerify, TypeOK, Verify
  <2>3. Service!Ask(c, Verify(held[c]))
    BY <1>8, <1>10, <2>1 DEF AskVerify
  <2>. QED
    BY <2>2, <2>3 DEF Service!Next
<1>11. CASE TakeAnswer(c)
  <2>1. link'[c] = AfterRead(link[c], "client") /\ CanRead(link[c], "client")
    BY <1>1, <1>11 DEF TakeAnswer, TypeOK
  <2>2. /\ link'[c].up = link[c].up
        /\ link'[c].in["server"] = link[c].in["server"]
        /\ link'[c].in["client"] = Tail(link[c].in["client"])
        /\ link[c].in["client"] # <<>> /\ link[c].up["client"]
    BY <1>5, <2>1 DEF AfterRead, CanRead, Links, LinkType
  <2>3. /\ toldBar[c] = link[c].in["client"] \o last
        /\ toldBar'[c] = Tail(link[c].in["client"]) \o last
    BY <1>3, <1>7, <2>2 DEF toldBar
  <2>4. toldBar[c] # <<>> /\ toldBar'[c] = Tail(toldBar[c])
    <3>1. /\ link[c].in["client"] \o last # <<>>
          /\ Tail(link[c].in["client"] \o last) = Tail(link[c].in["client"]) \o last
      BY <1>5, <2>2, QueueTail
    <3>. QED
      BY <2>3, <3>1
  <2>5. openBar'[c] = openBar[c] /\ askedBar'[c] = askedBar[c]
    BY <1>6, <2>2 DEF openBar
  <2>6. toldBar' = [toldBar EXCEPT ![c] = Tail(toldBar[c])]
    BY <1>4, <2>4, Bars, AtOne
  <2>7. openBar' = openBar /\ askedBar' = askedBar
    BY <1>4, <2>5, Bars
  <2>. QED
    BY <1>2, <1>3, <2>4, <2>6, <2>7 DEF Service!Read, Service!Next
<1>12. CASE NoAnswer(c)
  <2>1. link' = link
    BY <1>12 DEF NoAnswer
  <2>. QED
    BY <1>2, <1>3, <2>1, OneBar, Stutters
<1>13. CASE PeerClose(c)
  <2>1. link'[c] = Closed(link[c], "client") /\ link[c].up["client"]
    BY <1>1, <1>13 DEF PeerClose, TypeOK
  <2>2. link[c].up["server"]
    BY <1>1, <2>1 DEF Serving
  <2>3. /\ ~link'[c].up["client"]
        /\ link'[c].in["server"] = link[c].in["server"]
    BY <1>5, <2>1, <2>2 DEF Closed, Peer, Links, LinkType
  <2>4. openBar[c] /\ openBar'[c] = FALSE /\ toldBar'[c] = <<>>
    BY <1>5, <2>1, <2>3 DEF openBar, toldBar
  <2>5. askedBar'[c] = askedBar[c]
    BY <1>6, <2>3
  <2>6. openBar' = [openBar EXCEPT ![c] = FALSE]
    BY <1>4, <2>4, Bars, AtOne
  <2>7. toldBar' = [toldBar EXCEPT ![c] = <<>>]
    BY <1>4, <2>4, Bars, AtOne
  <2>8. askedBar' = askedBar
    BY <1>4, <2>5, Bars
  <2>. QED
    BY <1>2, <1>3, <2>4, <2>6, <2>7, <2>8 DEF Service!Close, Service!Next
<1>. QED
  BY <1>9, <1>10, <1>11, <1>12, <1>13 DEF PeerStep

LEMMA ListenOpens ==
  ASSUME ServiceIInv, ExpiryKnown, ExpiryKnown', IInv', NEW c \in Conns, Listen(c)
  PROVE  Service!Open(c)
<1>1. TypeOK /\ TypeOK' /\ IInv
  BY DEF ServiceIInv, IsolatedIInv, IInv
<1>2. /\ UNCHANGED <<tokens, message, clock, username, answer, time>>
      /\ link[c] = ClosedLink /\ link'[c] = NewLink
      /\ pc[c] = "idle" /\ pc'[c] = "receive"
      /\ \A d \in Conns \ {c} : link'[d] = link[d] /\ pc'[d] = pc[d]
  BY <1>1, Listens
<1>3. /\ expiryBar' = expiryBar
      /\ \A d \in Conns : Decided(d)' = Decided(d)
  BY <1>2, NothingDecided
<1>4. \A d \in Conns \ {c} : /\ openBar'[d] = openBar[d]
                             /\ askedBar'[d] = askedBar[d]
                             /\ toldBar'[d] = toldBar[d]
  BY <1>2, <1>3, OneBar
<1>5. Decided(c) = <<>> /\ Decided(c)' = <<>>
  BY <1>2, DecidedAt DEF Idle, Steps
<1>6. /\ openBar[c] = FALSE /\ openBar'[c] = TRUE
      /\ toldBar[c] = <<>> /\ toldBar'[c] = <<>>
  BY <1>2, <1>5 DEF openBar, toldBar, ClosedLink, NewLink
<1>7. askedBar[c] = <<>> /\ askedBar'[c] = <<>>
  <2>1. link[c].in["server"] = <<>> /\ link'[c].in["server"] = <<>>
    BY <1>2 DEF ClosedLink, NewLink
  <2>. QED
    BY <1>1, <1>2, <2>1, AskedAt DEF Asking
<1>8. openBar' = [openBar EXCEPT ![c] = TRUE]
  BY <1>4, <1>6, Bars, AtOne
<1>9. askedBar' = askedBar /\ toldBar' = toldBar
  BY <1>4, <1>6, <1>7, Bars
<1>. QED
  BY <1>2, <1>3, <1>6, <1>7, <1>8, <1>9 DEF Service!Open

LEMMA ServiceStep ==
  ASSUME ServiceIInv, Isolated, [Next]_vars, up'
  PROVE  Service!Next \/ UNCHANGED Service!svars
<1>1. ServiceIInv' /\ IInv' /\ IInv
  BY ServiceNext DEF ServiceIInv, IsolatedIInv
<1>2. ExpiryKnown /\ ExpiryKnown'
  BY <1>1, ExpiryIsKnown DEF ServiceIInv
<1>3. ~Die
  BY DEF Die
<1>4. CASE \E c \in Conns : Handle(c)
  BY <1>1, <1>2, <1>3, <1>4, HandlerStep DEF Service!Next
<1>5. CASE \E c \in Conns : PeerStep(c)
  BY <1>1, <1>2, <1>5, PeerServes
<1>6. CASE \E c \in Conns : Listen(c)
  BY <1>1, <1>2, <1>6, ListenOpens DEF Service!Next
<1>7. CASE Tick \/ Restart \/ UNCHANGED vars
  <2>1. UNCHANGED <<tokens, link, pc, message, clock, username, answer>>
    BY <1>7 DEF Tick, Restart, vars, locals, peers
  <2>2. /\ expiryBar' = expiryBar
        /\ \A d \in Conns : /\ openBar'[d] = openBar[d]
                            /\ askedBar'[d] = askedBar[d]
                            /\ toldBar'[d] = toldBar[d]
    BY <1>2, <2>1, NothingDecided, OneBar
  <2>3. CASE Tick
    BY <2>2, <2>3, Bars DEF Tick, Service!Tick, Service!Next
  <2>4. CASE Restart \/ UNCHANGED vars
    BY <2>2, <2>4, Stutters DEF Restart, vars
  <2>. QED
    BY <1>7, <2>3, <2>4
<1>. QED
  BY <1>3, <1>4, <1>5, <1>6, <1>7 DEF Next, Crash

LEMMA ServiceStart ==
  ASSUME Init, Isolated
  PROVE  Service!Init
<1>0. PICK us \in SUBSET Registered : \E e \in [us -> 0 .. Lifetime] :
             tokens = {Row(u, generateToken(u), e[u]) : u \in us}
  BY DEF Init
<1>1. PICK e \in [us -> 0 .. Lifetime] :
             tokens = {Row(u, generateToken(u), e[u]) : u \in us}
  BY <1>0
<1>2. /\ time = 0
      /\ \A c \in Conns : pc[c] = "idle" /\ link[c] = ClosedLink
  BY DEF Init
<1>3. ExpiryKnown
  BY IsolatedInit, ExpiryIsKnown
<1>4. us \subseteq Users
  BY ConstantsAssumption
<1>5. ASSUME NEW u \in Users
      PROVE  /\ u \in us => Expiry(u) = {e[u]}
             /\ u \notin us => Expiry(u) = {}
  <2>1. Renews(u) = {} /\ Adds(u) = {}
    BY <1>2 DEF Renews, Renewing, Adds
  <2>2. \A v \in us : /\ Row(v, generateToken(v), e[v]).token = generateToken(v)
                      /\ Row(v, generateToken(v), e[v]).ttl = e[v]
    BY DEF Row
  <2>3. RowsOf(generateToken(u)) =
          {Row(v, generateToken(v), e[v]) : v \in {w \in us : w = u}}
    BY <1>1, <2>2, DifferentTokens DEF RowsOf
  <2>4. CASE u \in us
    <3>1. RowsOf(generateToken(u)) = {Row(u, generateToken(u), e[u])}
      BY <2>3, <2>4
    <3>. QED
      BY <2>1, <2>2, <2>4, <3>1 DEF Expiry
  <2>5. CASE u \notin us
    <3>1. RowsOf(generateToken(u)) = {}
      BY <2>3, <2>5
    <3>. QED
      BY <2>1, <2>5, <3>1 DEF Expiry
  <2>. QED
    BY <2>4, <2>5
<1>6. Holders = us
  BY <1>3, <1>4, <1>5 DEF ExpiryKnown
<1>7. \A u \in us : expiryBar[u] = e[u]
  BY <1>3, <1>4, <1>5, <1>6 DEF ExpiryKnown
<1>8. expiryBar = e
  <2>1. expiryBar = [u \in us |-> expiryBar[u]]
    BY <1>3, <1>6 DEF ExpiryKnown
  <2>2. e = [u \in us |-> e[u]]
    OBVIOUS
  <2>. QED
    BY <1>7, <2>1, <2>2
<1>9. expiryBar \in UNION {[s -> 0 .. Lifetime] : s \in SUBSET Registered}
  BY <1>8
<1>10. ASSUME NEW c \in Conns
       PROVE  openBar[c] = FALSE /\ askedBar[c] = <<>> /\ toldBar[c] = <<>>
  BY <1>2 DEF openBar, askedBar, toldBar, ClosedLink
<1>11. /\ openBar = [c \in Conns |-> FALSE]
       /\ askedBar = [c \in Conns |-> <<>>]
       /\ toldBar = [c \in Conns |-> <<>>]
  BY <1>10, Bars
<1>. QED
  BY <1>2, <1>9, <1>11 DEF Service!Init

\* The refinement, but for its fairness: if no query fails, the process lives and
\* no two connections log in as, or ask about, the same user or any about the token of
\* nobody, the threads of auth_server.cpp, statement by
\* statement and interleaved as they may be, answer as if every request were
\* looked up, renewed and answered in one step: answers come in the order of the
\* requests, none is lost while the peer is there, and the DELETE and the INSERT
\* of a renewal are seen by nobody (ImplementsTokenService).
THEOREM ServiceSoundness == Isolated => (Spec /\ []up => Service!Safety)
<1>1. ASSUME Isolated
      PROVE  Spec /\ []up => Service!Safety
  <2>1. Init => ServiceIInv /\ Service!Init
    BY <1>1, ServiceInit, ServiceStart
  <2>2. ServiceIInv /\ up' /\ [Next]_vars => ServiceIInv'
    BY <1>1, ServiceNext
  <2>3. ServiceIInv /\ up' /\ [Next]_vars => [Service!Next]_(Service!svars)
    BY <1>1, ServiceStep
  <2>. QED
    BY <2>1, <2>2, <2>3, PTL DEF Spec, Service!Safety
<1>. QED
  BY <1>1
=============================================================================
