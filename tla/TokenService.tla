---------------------------- MODULE TokenService ----------------------------
(***************************************************************************)
(* What auth_server.cpp promises to the sessions that use it: requests of a   *)
(* connection are answered in order, each in one atomic step that looks up and *)
(* renews the asking user's token.  AuthServer is shown to implement this for   *)
(* as long as no two of its threads work for the same user.                    *)
(***************************************************************************)
EXTENDS Integers, Sequences, Protocol

CONSTANTS Conns, Registered, Logins, Lifetime

VARIABLES
  expiry,   \* expiry[u]: when u's token ends, for the users that have one
  time,
  open,     \* the asker of connection c is still there
  asked,    \* requests not served yet
  told      \* answers not read yet

svars == <<expiry, time, open, asked, told>>

Init ==
  /\ expiry \in UNION {[us -> 0 .. Lifetime] : us \in SUBSET Registered}
  /\ time = 0
  /\ open = [c \in Conns |-> FALSE]
  /\ asked = [c \in Conns |-> <<>>]
  /\ told = [c \in Conns |-> <<>>]

Extended(u) ==
  [v \in DOMAIN expiry \cup {u} |-> IF v = u THEN time + Lifetime ELSE expiry[v]]

\* The answer to a request, and the table it leaves.
Result(text, table) == [text |-> text, table |-> table]

Served(request) ==
  CASE request.op = "OTHER" -> Result(Error("Invalid request"), expiry)
    [] request.op = "AUTH" ->
         LET u == request.username IN
         CASE request.password = "none" ->
                Result(Error("Invalid request format"), expiry)
           [] request.password = "right" /\ u \in Registered ->
                Result(generateToken(u),
                       IF u \in DOMAIN expiry THEN expiry ELSE Extended(u))
           [] OTHER -> Result(Error("Authentication failed"), expiry)
    [] request.op = "VERIFY" ->
         LET u == request.token.of
             known == request.token = generateToken(u) /\ u \in DOMAIN expiry
         IN CASE known /\ expiry[u] > time -> Result(Verified, expiry)
              [] known /\ expiry[u] <= time -> Result(NewToken(u), Extended(u))
              [] OTHER -> Result(NewToken(Blank), expiry)

Serve(c) ==
  /\ asked[c] # <<>>
  /\ asked' = [asked EXCEPT ![c] = Tail(@)]
  /\ told' = [told EXCEPT ![c] =
                IF open[c] THEN Append(@, Served(Head(asked[c])).text) ELSE @]
  /\ expiry' = Served(Head(asked[c])).table
  /\ UNCHANGED <<time, open>>

Open(c) ==
  /\ ~open[c]
  /\ asked[c] = <<>>
  /\ open' = [open EXCEPT ![c] = TRUE]
  /\ UNCHANGED <<expiry, time, asked, told>>

\* What the asker of connection c may write.
Texts(c) == Logins[c] \cup [op : {"VERIFY"}, token : AuthAnswers]

Ask(c, text) ==
  /\ open[c]
  /\ asked' = [asked EXCEPT ![c] = @ \o Reads(text)]
  /\ UNCHANGED <<expiry, time, open, told>>

Read(c) ==
  /\ told[c] # <<>>
  /\ told' = [told EXCEPT ![c] = Tail(@)]
  /\ UNCHANGED <<expiry, time, open, asked>>

Close(c) ==
  /\ open[c]
  /\ open' = [open EXCEPT ![c] = FALSE]
  /\ told' = [told EXCEPT ![c] = <<>>]
  /\ UNCHANGED <<expiry, time, asked>>

Tick == time' = time + 1 /\ UNCHANGED <<expiry, open, asked, told>>

Next ==
  \/ \E c \in Conns :
       \/ Serve(c) \/ Open(c) \/ Read(c) \/ Close(c)
       \/ \E text \in Texts(c) : Ask(c, text)
  \/ Tick

\* What may happen, and what must.
Safety == Init /\ [][Next]_svars

Spec == Safety /\ \A c \in Conns : WF_svars(Serve(c))
=============================================================================
