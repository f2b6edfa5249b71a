------------------------ MODULE AuthServerImplements ------------------------
(***************************************************************************)
(* AuthServer implements TokenService.  A request takes effect when handler   *)
(* reads the clock for it (auth_server.cpp:40, 62): from then on its answer and *)
(* the row it will leave are decided, although the answer is still to be sent   *)
(* and the row is for a while neither the old one nor the new one.             *)
(***************************************************************************)
EXTENDS AuthServer

\* Handlers about to put user u's row back, or to add it.
Renews(u) ==
  {c \in Renewing :
     /\ message[c].token = generateToken(u)
     /\ IF pc[c] = "read_username"
        THEN RowsOf(generateToken(u)) # {}
        ELSE username[c] = u}

Adds(u) == {c \in Conns : pc[c] = "store_token" /\ message[c].username = u}

Holders ==
  {u \in Users : RowsOf(generateToken(u)) # {} \/ Renews(u) # {} \/ Adds(u) # {}}

expiryBar ==
  [u \in Holders |->
     IF Renews(u) # {} THEN clock[CHOOSE c \in Renews(u) : TRUE] + Lifetime
     ELSE IF RowsOf(generateToken(u)) # {}
          THEN (CHOOSE r \in RowsOf(generateToken(u)) : TRUE).ttl
          ELSE clock[CHOOSE c \in Adds(u) : TRUE] + Lifetime]

openBar == [c \in Conns |-> link[c].up["client"]]

askedBar ==
  [c \in Conns |->
     (IF pc[c] \in {"check_credentials", "read_ttl", "check_expiry"}
      THEN <<message[c]>> ELSE <<>>) \o link[c].in["server"]]

\* The answer handler c will send, once it is decided.
Decided(c) ==
  CASE pc[c] = "send" -> <<answer[c]>>
    [] pc[c] = "store_token" -> <<generateToken(message[c].username)>>
    [] c \in Renewing ->
         IF \E u \in Users : c \in Renews(u)
         THEN <<NewToken(message[c].token.of)>> ELSE <<NewToken(Blank)>>
    [] OTHER -> <<>>

toldBar ==
  [c \in Conns |->
     IF link[c].up["client"] THEN link[c].in["client"] \o Decided(c) ELSE <<>>]

Service ==
  INSTANCE TokenService
    WITH expiry <- expiryBar, open <- openBar, asked <- askedBar, told <- toldBar

\* Every behaviour of the threads, statement by statement, is one in which each
\* request is served in a single step, and each request is eventually served.
ImplementsTokenService == Service!Spec
=============================================================================
