------------------------------ MODULE Protocol ------------------------------
(***************************************************************************)
(* The texts the four programs exchange, abstracted to what their handlers   *)
(* tell apart.  A text is a record; two records are equal when the texts are.*)
(***************************************************************************)
EXTENDS Sequences

CONSTANTS
  Users,   \* usernames a client may type; none has a quote in it
  Blank    \* the empty username

ASSUME BlankAssumption == Blank \notin Users

-----------------------------------------------------------------------------
(* What the authentication server answers (auth_server.cpp:27-92).          *)

\* TokenManager::generateToken: username + ".test.test.example", a function of
\* the username alone and different for different usernames.
generateToken(username) == [kind |-> "token", of |-> username]

NewToken(username) == [kind |-> "NEW_TOKEN", of |-> username]

Verified == [kind |-> "VERIFIED", of |-> Blank]

\* An "ERROR: ..." text, named by what follows the prefix.
Error(text) == [kind |-> text, of |-> Blank]

ErrorTexts ==
  {"Invalid request format", "Authentication failed", "Invalid token",
   "Token expired and regeneration failed", "Invalid request"}

Names == Users \cup {Blank}

Tokens == [kind : {"token"}, of : Names]

Answers ==
  Tokens \cup [kind : {"NEW_TOKEN"}, of : Names]
         \cup [kind : ErrorTexts \cup {"VERIFIED"}, of : {Blank}]

-----------------------------------------------------------------------------
(* What it is asked (proxy.cpp:23-25, 58-61), one record per read of its       *)
(* 256-byte buffer.  The password of an AUTH is "right" or "wrong" for the user, *)
(* as far as the read goes; "none" when the read is all username, with no space *)
(* after it.                                                                *)

Passwords == {"right", "wrong", "none"}

Auth(username, password) ==
  [op |-> "AUTH", username |-> username, password |-> password]

Verify(token) == [op |-> "VERIFY", token |-> token]

Rest == [op |-> "OTHER"]   \* a read with neither prefix

\* What can come back for an AUTH.  The proxy takes the first answer of its
\* connection for the session's token, whatever it says, and verifies that
\* (proxy.cpp:39).
AuthAnswers ==
  [kind : {"token"}, of : Users]
    \cup [kind : {"Invalid request format", "Authentication failed"}, of : {Blank}]

\* The empty string, in place of an answer.
NoText == [kind |-> "none", of |-> Blank]

AuthRequests == [op : {"AUTH"}, username : Users, password : Passwords]

Requests ==
  AuthRequests
    \cup [op : {"VERIFY"}, token : AuthAnswers \cup Tokens]
    \cup {Rest}

\* The text a client makes of the username and the password it is given: the first
\* read of it, which begins with "AUTH ", and the reads of what is behind byte 256.
\* Both were typed (client.cpp:42-44), and a read begins wherever the one before it
\* ended: the tail is any request or none.
LoginText(head, tail) == [op |-> "LOGIN", head |-> head, tail |-> tail]

LoginTexts ==
  {l \in [op : {"LOGIN"}, head : AuthRequests, tail : Seq(Requests)] :
     l.head.password = "none" => l.tail # <<>>}

\* The reads a text is delivered as.
Reads(text) == IF text.op = "LOGIN" THEN <<text.head>> \o text.tail ELSE <<text>>
=============================================================================
