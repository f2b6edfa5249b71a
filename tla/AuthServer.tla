----------------------------- MODULE AuthServer -----------------------------
(***************************************************************************)
(* auth_server.cpp: a thread per connection runs handleClient on one shared  *)
(* SQLite3Provider.  One action per statement that reads or writes something  *)
(* another thread can see: each sqlite3_exec is atomic (SQLite is built        *)
(* thread-safe and every query is a single statement), nothing holds a lock    *)
(* from one query to the next.                                               *)
(*                                                                         *)
(* The peers (connections of the proxy's sessions) and the clock are the        *)
(* environment.  The actions of the peers are parameterised so that a larger   *)
(* specification can take the place of this one's.                           *)
(***************************************************************************)
EXTENDS Integers, Sequences, FiniteSets, Protocol, TlsLink

CONSTANTS
  Conns,       \* connection slots
  Registered,  \* users whose AUTH with the right password is accepted
  Logins,      \* Logins[c]: the AUTH texts the peer of connection c may send
  Lifetime,    \* 3600 seconds
  MaxTime,     \* bound on the clock
  Abrupt,      \* may a peer die while it waits for an answer?
  DbFaults,    \* may sqlite3_exec return an error (disk full, database busy)?
  Crashes      \* may the process die at any moment and be started again?

ASSUME ConstantsAssumption ==
  /\ Registered \subseteq Users
  /\ Logins \in [Conns -> SUBSET LoginTexts]
  /\ Lifetime \in Nat \ {0}
  /\ MaxTime \in Nat
  /\ Abrupt \in BOOLEAN
  /\ DbFaults \in BOOLEAN
  /\ Crashes \in BOOLEAN

VARIABLES
  tokens,    \* the table: rows [username, token, ttl]; survives the process
  time,      \* std::time(nullptr)
  up,        \* the process runs
  link,      \* link[c]: the TLS connection; this program is its "server" end
  pc,        \* pc[c]: the statement handler c is about to execute
  message,   \* receivedMessage
  ttl,       \* ttl, the second the presented token expires
  clock,     \* now, read once per request
  username,  \* username read back from the table
  answer,    \* the text about to be sent
  loggedIn,  \* history: the users whose row some accepted AUTH has justified
  held,      \* the peer: the token it holds (proxy.cpp:207), NoText before a login
  awaiting   \* the peer: it is blocked until the answer to its request comes

peers   == <<held, awaiting>>
locals  == <<message, ttl, clock, username, answer>>
vars    == <<tokens, time, up, link, pc, message, ttl, clock, username,
             answer, loggedIn, held, awaiting>>

Links == LinkType(Requests, Answers)

Row(u, t, expiry) == [username |-> u, token |-> t, ttl |-> expiry]

Rows == [username : Names, token : Tokens, ttl : Nat]

Steps == {"idle", "receive", "check_credentials", "store_token", "read_ttl",
          "check_expiry", "read_username", "delete_old", "insert_new",
          "send", "disconnect"}

TypeOK ==
  /\ tokens \in SUBSET Rows
  /\ time \in Nat
  /\ up \in BOOLEAN
  /\ link \in [Conns -> Links]
  /\ pc \in [Conns -> Steps]
  /\ message \in [Conns -> Requests]
  /\ ttl \in [Conns -> Nat]
  /\ clock \in [Conns -> Nat]
  /\ username \in [Conns -> Names]
  /\ answer \in [Conns -> Answers]
  /\ loggedIn \in SUBSET Users
  /\ held \in [Conns -> AuthAnswers \cup {NoText}]
  /\ awaiting \in [Conns -> BOOLEAN]

\* The table may hold what an earlier run of the program left: a row for some of
\* the registered users, live or expired.
Init ==
  /\ \E us \in SUBSET Registered : \E expiry \in [us -> 0 .. Lifetime] :
       /\ tokens = {Row(u, generateToken(u), expiry[u]) : u \in us}
       /\ loggedIn = us
  /\ time = 0
  /\ up = TRUE
  /\ link = [c \in Conns |-> ClosedLink]
  /\ pc = [c \in Conns |-> "idle"]
  /\ message = [c \in Conns |-> Rest]
  /\ ttl = [c \in Conns |-> 0]
  /\ clock = [c \in Conns |-> 0]
  /\ username = [c \in Conns |-> Blank]
  /\ answer = [c \in Conns |-> Verified]
  /\ held = [c \in Conns |-> NoText]
  /\ awaiting = [c \in Conns |-> FALSE]

-----------------------------------------------------------------------------
(* The table: SQLite3Provider, and the UNIQUE constraints on both columns.    *)

RowsOf(t) == {r \in tokens : r.token = t}

\* Mutant of Inserted: the columns are not UNIQUE.
InsertedTwice(u, t, expiry) == tokens \cup {Row(u, t, expiry)}

\* Mutant of Inserted: a second login extends the row it finds.
InsertedExtending(u, t, expiry) ==
  LET old == {r \in tokens : r.username = u} IN
  (tokens \ old) \cup {Row(u, t, IF old = {} THEN expiry
                                 ELSE (CHOOSE r \in old : TRUE).ttl + Lifetime)}

\* INSERT INTO tokens: refused when the username or the token is there already.
Inserted(u, t, expiry) ==
  IF \E r \in tokens : r.username = u \/ r.token = t
  THEN tokens
  ELSE tokens \cup {Row(u, t, expiry)}

\* SELECT EXISTS(... FROM users ...): nobody changes the users while it runs.  The
\* username is pasted into the statement, so this is for names without a quote.
isUserExists(u, password) == u \in Registered /\ password = "right"

-----------------------------------------------------------------------------
(* Control of a handler *)

Goto(c, step) == pc' = [pc EXCEPT ![c] = step]

Reply(c, text) ==
  /\ answer' = [answer EXCEPT ![c] = text]
  /\ Goto(c, "send")

Reset(c, v, default) == [v EXCEPT ![c] = default]

\* The locals are forgotten at the end of an iteration.
Forget(c) ==
  /\ message' = Reset(c, message, Rest)
  /\ ttl' = Reset(c, ttl, 0)
  /\ clock' = Reset(c, clock, 0)
  /\ username' = Reset(c, username, Blank)
  /\ answer' = Reset(c, answer, Verified)

\* The process ends, by a signal or by SIGPIPE: every handler with it, and the
\* kernel closes every connection.  The table stays.
Die ==
  /\ up' = FALSE
  /\ link' = [c \in Conns |-> IF link[c].up["server"]
                              THEN Closed(link[c], "server") ELSE link[c]]
  /\ pc' = [c \in Conns |-> "idle"]
  /\ message' = [c \in Conns |-> Rest]
  /\ ttl' = [c \in Conns |-> 0]
  /\ clock' = [c \in Conns |-> 0]
  /\ username' = [c \in Conns |-> Blank]
  /\ answer' = [c \in Conns |-> Verified]
  /\ UNCHANGED <<tokens, time, loggedIn, peers>>

-----------------------------------------------------------------------------
(* handleClient *)

\* main accepts the connection and starts the thread.
Listen(c) ==
  /\ up
  /\ link[c] = ClosedLink
  /\ link' = [link EXCEPT ![c] = NewLink]
  /\ Goto(c, "receive")
  /\ UNCHANGED <<tokens, time, up, locals, loggedIn, peers>>

\* The next read of the connection is m.
Takes(c, m) ==
  /\ pc[c] = "receive"
  /\ CanRead(link[c], "server")
  /\ m = Head(link[c].in["server"])
  /\ link' = [link EXCEPT ![c] = AfterRead(@, "server")]
  /\ message' = [message EXCEPT ![c] = m]
  /\ UNCHANGED <<tokens, time, up, clock, username, loggedIn, peers>>

ReceiveAuth(c) == \E m \in Requests :
  /\ Takes(c, m)
  /\ m.op = "AUTH" /\ m.password # "none"
  /\ Goto(c, "check_credentials")
  /\ UNCHANGED <<ttl, answer>>

ReceiveAuthWithoutPassword(c) == \E m \in Requests :
  /\ Takes(c, m)
  /\ m.op = "AUTH" /\ m.password = "none"
  /\ Reply(c, Error("Invalid request format"))
  /\ UNCHANGED ttl

ReceiveVerify(c) == \E m \in Requests :
  /\ Takes(c, m)
  /\ m.op = "VERIFY"
  /\ ttl' = [ttl EXCEPT ![c] = 0]
  /\ Goto(c, "read_ttl")
  /\ UNCHANGED answer

ReceiveOther(c) == \E m \in Requests :
  /\ Takes(c, m)
  /\ m.op = "OTHER"
  /\ Reply(c, Error("Invalid request"))
  /\ UNCHANGED ttl

\* Mutant of ReceiveEnd: the loop goes on after a failed Receive.
ReceiveEndContinues(c) ==
  /\ pc[c] = "receive"
  /\ AtEnd(link[c], "server")
  /\ UNCHANGED vars

ReceiveEnd(c) ==
  /\ pc[c] = "receive"
  /\ AtEnd(link[c], "server")
  /\ Goto(c, "disconnect")
  /\ UNCHANGED <<tokens, time, up, link, locals, loggedIn, peers>>

\* Mutant of CheckCredentials: a failed login is logged and not answered.
CheckCredentialsSilently(c) ==
  /\ pc[c] = "check_credentials"
  /\ IF isUserExists(message[c].username, message[c].password)
     THEN /\ clock' = [clock EXCEPT ![c] = time]
          /\ loggedIn' = loggedIn \cup {message[c].username}
          /\ Goto(c, "store_token")
     ELSE Goto(c, "receive") /\ UNCHANGED <<clock, loggedIn>>
  /\ UNCHANGED <<tokens, time, up, link, message, ttl, username, answer, peers>>

\* isUserExists; on success the token is generated and the clock read.
CheckCredentials(c) ==
  /\ pc[c] = "check_credentials"
  /\ \/ /\ isUserExists(message[c].username, message[c].password)
        /\ clock' = [clock EXCEPT ![c] = time]
        /\ loggedIn' = loggedIn \cup {message[c].username}
        /\ Goto(c, "store_token")
        /\ UNCHANGED answer
     \/ /\ \/ ~isUserExists(message[c].username, message[c].password)
           \/ DbFaults
        /\ Reply(c, Error("Authentication failed"))
        /\ UNCHANGED <<clock, loggedIn>>
  /\ UNCHANGED <<tokens, time, up, link, message, ttl, username, peers>>

\* db.insert logs a failure and returns nothing: the token is sent either way.
StoreToken(c) ==
  /\ pc[c] = "store_token"
  /\ LET u == message[c].username IN
     /\ \/ tokens' = Inserted(u, generateToken(u), clock[c] + Lifetime)
        \/ DbFaults /\ tokens' = tokens
     /\ Reply(c, generateToken(u))
  /\ UNCHANGED <<time, up, link, message, ttl, clock, username, loggedIn, peers>>

\* Mutant of ReadTtl: the callback stores the seconds that are left.
ReadTtlLeft(c) ==
  /\ pc[c] = "read_ttl"
  /\ \/ \E r \in RowsOf(message[c].token) : ttl' = [ttl EXCEPT ![c] = r.ttl - time]
     \/ RowsOf(message[c].token) = {} /\ UNCHANGED ttl
  /\ Goto(c, "check_expiry")
  /\ UNCHANGED <<tokens, time, up, link, message, clock, username, answer, loggedIn, peers>>

\* getTokenTTL: without a row the callback is never called, the query is still
\* SQLITE_OK and ttl keeps its 0.
ReadTtl(c) ==
  /\ pc[c] = "read_ttl"
  /\ \/ /\ \/ \E r \in RowsOf(message[c].token) : ttl' = [ttl EXCEPT ![c] = r.ttl]
           \/ RowsOf(message[c].token) = {} /\ UNCHANGED ttl
        /\ Goto(c, "check_expiry")
        /\ UNCHANGED answer
     \/ /\ DbFaults
        /\ Reply(c, Error("Invalid token"))
        /\ UNCHANGED ttl
  /\ UNCHANGED <<tokens, time, up, link, message, clock, username, loggedIn, peers>>

\* Mutant of CheckExpiry: a token is valid in the second it expires.
CheckExpiryLate(c) ==
  /\ pc[c] = "check_expiry"
  /\ clock' = [clock EXCEPT ![c] = time]
  /\ \/ ttl[c] >= time /\ Reply(c, Verified)
     \/ ttl[c] < time /\ Goto(c, "read_username") /\ UNCHANGED answer
  /\ UNCHANGED <<tokens, time, up, link, message, ttl, username, loggedIn, peers>>

CheckExpiry(c) ==
  /\ pc[c] = "check_expiry"
  /\ clock' = [clock EXCEPT ![c] = time]
  /\ \/ ttl[c] > time /\ Reply(c, Verified)
     \/ ttl[c] <= time /\ Goto(c, "read_username") /\ UNCHANGED answer
  /\ UNCHANGED <<tokens, time, up, link, message, ttl, username, loggedIn, peers>>

\* getUsernameFromToken: without a row the username stays empty, as above.
ReadUsername(c) ==
  /\ pc[c] = "read_username"
  /\ \/ /\ \/ \E r \in RowsOf(message[c].token) :
                username' = [username EXCEPT ![c] = r.username]
           \/ RowsOf(message[c].token) = {} /\ UNCHANGED username
        /\ Goto(c, "delete_old")
        /\ UNCHANGED answer
     \/ /\ DbFaults
        /\ Reply(c, Error("Token expired and regeneration failed"))
        /\ UNCHANGED username
  /\ UNCHANGED <<tokens, time, up, link, message, ttl, clock, loggedIn, peers>>

DeleteOld(c) ==
  /\ pc[c] = "delete_old"
  /\ \/ tokens' = tokens \ RowsOf(message[c].token)
     \/ DbFaults /\ tokens' = tokens
  /\ Goto(c, "insert_new")
  /\ UNCHANGED <<time, up, link, locals, loggedIn, peers>>

\* Mutant of InsertNew: the new token is announced and not stored.
InsertNothing(c) ==
  /\ pc[c] = "insert_new"
  /\ Reply(c, NewToken(username[c]))
  /\ UNCHANGED <<tokens, time, up, link, message, ttl, clock, username, loggedIn, peers>>

InsertNew(c) ==
  /\ pc[c] = "insert_new"
  /\ LET u == username[c] IN
     /\ \/ tokens' = Inserted(u, generateToken(u), clock[c] + Lifetime)
        \/ DbFaults /\ tokens' = tokens
     /\ Reply(c, NewToken(u))
  /\ UNCHANGED <<time, up, link, message, ttl, clock, username, loggedIn, peers>>

\* The result of server.Send is ignored: the loop goes on.
SendAnswer(c) ==
  /\ pc[c] = "send"
  /\ \E o \in WriteOutcomes(link[c], "server", <<answer[c]>>) :
       IF o.result = "killed"
       THEN Die
       ELSE /\ link' = [link EXCEPT ![c] = o.link]
            /\ Goto(c, "receive")
            /\ Forget(c)
            /\ UNCHANGED <<tokens, time, up, loggedIn, peers>>

\* server.Disconnect, and the thread ends.
Disconnect(c) ==
  /\ pc[c] = "disconnect"
  /\ \E o \in CloseOutcomes(link[c], "server") :
       IF o.result = "killed"
       THEN Die
       ELSE /\ link' = [link EXCEPT ![c] = o.link]
            /\ Goto(c, "idle")
            /\ Forget(c)
            /\ UNCHANGED <<tokens, time, up, loggedIn, peers>>

\* What the thread of connection c does.
Handle(c) ==
  \/ ReceiveAuth(c) \/ ReceiveAuthWithoutPassword(c)
  \/ ReceiveVerify(c) \/ ReceiveOther(c) \/ ReceiveEnd(c)
  \/ CheckCredentials(c) \/ StoreToken(c)
  \/ ReadTtl(c) \/ CheckExpiry(c) \/ ReadUsername(c)
  \/ DeleteOld(c) \/ InsertNew(c)
  \/ SendAnswer(c) \/ Disconnect(c)

-----------------------------------------------------------------------------
(* The environment: the sessions of the proxy, one connection each.  A session *)
(* makes one AUTH, takes what comes back for its token, and makes VERIFYs of it; *)
(* it waits for an answer before it does anything else (proxy.cpp:12-77).       *)

UnchangedServer == UNCHANGED <<tokens, time, up, pc, locals, loggedIn>>

Ask(c, text) ==
  /\ link[c].up["client"]
  /\ ~awaiting[c]
  /\ \E o \in WriteOutcomes(link[c], "client", Reads(text)) :
       /\ o.result = "sent"
       /\ link' = [link EXCEPT ![c] = o.link]
  /\ awaiting' = [awaiting EXCEPT ![c] = TRUE]
  /\ UnchangedServer /\ UNCHANGED held

AskLogin(c, login) == held[c] = NoText /\ Ask(c, login)

AskVerify(c) == held[c] # NoText /\ Ask(c, Verify(held[c]))

\* The session reads the answer it waits for; the first is its token.
TakeAnswer(c) ==
  /\ awaiting[c]
  /\ CanRead(link[c], "client")
  /\ held' = [held EXCEPT ![c] = IF @ = NoText THEN Head(link[c].in["client"]) ELSE @]
  /\ awaiting' = [awaiting EXCEPT ![c] = FALSE]
  /\ link' = [link EXCEPT ![c] = AfterRead(@, "client")]
  /\ UnchangedServer

\* The answer will not come: the server's end is closed.  The session is not over.
NoAnswer(c) ==
  /\ awaiting[c]
  /\ AtEnd(link[c], "client")
  /\ awaiting' = [awaiting EXCEPT ![c] = FALSE]
  /\ UnchangedServer /\ UNCHANGED <<link, held>>

\* The session ends, or its process does.
PeerClose(c) ==
  /\ link[c].up["client"]
  /\ link' = [link EXCEPT ![c] = Closed(@, "client")]
  /\ held' = [held EXCEPT ![c] = NoText]
  /\ awaiting' = [awaiting EXCEPT ![c] = FALSE]
  /\ UnchangedServer

Tick ==
  /\ time < MaxTime
  /\ time' = time + 1
  /\ UNCHANGED <<tokens, up, link, pc, locals, loggedIn, peers>>

Crash == Crashes /\ up /\ Die

Restart ==
  /\ ~up
  /\ up' = TRUE
  /\ UNCHANGED <<tokens, time, link, pc, locals, loggedIn, peers>>

PeerStep(c) ==
  \/ \E login \in Logins[c] : AskLogin(c, login)
  \/ AskVerify(c) \/ TakeAnswer(c) \/ NoAnswer(c)
  \/ (Abrupt \/ ~awaiting[c]) /\ PeerClose(c)

Next ==
  \/ \E c \in Conns : Listen(c) \/ Handle(c) \/ PeerStep(c)
  \/ Tick \/ Crash \/ Restart

Spec == Init /\ [][Next]_vars

\* A runnable thread is scheduled; nothing is promised of peers and clock.
Fairness == \A c \in Conns : WF_vars(Handle(c))

FairSpec == Spec /\ Fairness

-----------------------------------------------------------------------------
(* Properties *)

\* The statements of the VERIFY branch before its answer.
Verifying ==
  {"read_ttl", "check_expiry", "read_username", "delete_old", "insert_new"}

\* Handlers that have decided to renew a token they were shown.
Renewing == {c \in Conns : pc[c] \in {"read_username", "delete_old", "insert_new"}}

\* Handlers whose request is about user u's row.
BusyWith(u) ==
  {c \in Renewing : message[c].token = generateToken(u)}
    \cup {c \in Conns : pc[c] = "store_token" /\ message[c].username = u}

\* The table is a partial function from users to expiries: no user has two rows,
\* a row's token is the one generated for its username, and the user of a named
\* row has logged in.  Rows are deleted by token and inserted by a username read
\* back earlier (auth_server.cpp:71-85), so this ties the two columns together
\* across the statements of several handlers.
TableSound ==
  /\ \A r, s \in tokens : r.username = s.username => r = s
  /\ \A r \in tokens : /\ r.token = generateToken(r.username)
                       /\ r.username \in loggedIn \cup {Blank}

\* VERIFIED (auth_server.cpp:63-65) is only ever said of the token of a user who
\* has logged in, whatever other handlers, failures and restarts did to the table
\* between the two queries and the answer, or of the token of nobody: a renewal that
\* finds no name leaves a row for it (auth_server.cpp:71-85).
VerifiedForLoggedIn(c) ==
  pc[c] = "send" /\ answer[c] = Verified =>
    /\ message[c].op = "VERIFY"
    /\ \E u \in loggedIn \cup {Blank} : message[c].token = generateToken(u)

VerifiedOnlyForLoggedIn == \A c \in Conns : VerifiedForLoggedIn(c)

\* No row, and no expiry a handler holds, is further than one lifetime ahead of
\* the clock, however stale the `now' a handler computed it from
\* (auth_server.cpp:40-41, 62, 78).
BoundedLifetime ==
  /\ \A r \in tokens : r.ttl <= time + Lifetime
  /\ \A c \in Conns : ttl[c] <= time + Lifetime

\* The first answer a session reads, which it keeps for its token, answers its own
\* AUTH (proxy.cpp:31-39): no answer to a leftover of a request, or to another
\* session of the same slot, comes before it.
FirstAnswer(c) ==
  held[c] = NoText /\ link[c].up["client"] =>
    IF link[c].in["client"] # <<>>
    THEN Head(link[c].in["client"]) \in AuthAnswers
    ELSE /\ pc[c] = "send" => answer[c] \in AuthAnswers
         /\ pc[c] = "receive" /\ link[c].in["server"] # <<>> =>
              Head(link[c].in["server"]).op = "AUTH"
         /\ pc[c] \notin Verifying

FirstAnswerIsForLogin == \A c \in Conns : FirstAnswer(c)

-----------------------------------------------------------------------------
(* The inductive invariant *)

\* A handler is in the branch of handleClient its request belongs to.
InBranch(c) ==
  /\ pc[c] \in {"check_credentials", "store_token"} => message[c].op = "AUTH"
  /\ pc[c] \in Verifying => message[c].op = "VERIFY"

\* A thread runs exactly while the server's end is open, and a reset connection
\* has lost one of its ends.
InUse(c) ==
  /\ pc[c] # "idle" <=> link[c].up["server"]
  /\ link[c].reset => ~link[c].up["client"] \/ ~link[c].up["server"]

\* A session that has not logged in yet finds the connection empty, and one that
\* is over has left nothing behind.
StartsClean(c) ==
  /\ ~link[c].up["client"] => held[c] = NoText /\ ~awaiting[c]
  /\ link[c].up["client"] /\ link[c].up["server"] /\ held[c] = NoText /\ ~awaiting[c]
       => /\ link[c].in["client"] = <<>> /\ link[c].in["server"] = <<>>
          /\ pc[c] = "receive"

\* What a handler has read stays justified while other handlers change the table:
\* the name it is about to insert is that of a user who logged in (or empty), its
\* `now' is not in the future, and an expiry it has read is that of a row a user's
\* login, or a renewal without a name, put there.
Justified(c) ==
  /\ username[c] \in loggedIn \cup {Blank}
  /\ clock[c] <= time
  /\ pc[c] = "store_token" => message[c].username \in loggedIn
  /\ pc[c] = "read_ttl" => ttl[c] = 0
  /\ pc[c] = "check_expiry" /\ ttl[c] # 0 =>
       \E u \in loggedIn \cup {Blank} : message[c].token = generateToken(u)

ConnInv(c) == InBranch(c) /\ InUse(c) /\ StartsClean(c) /\ FirstAnswer(c)

IInv ==
  /\ TypeOK
  /\ \A c \in Conns : ConnInv(c) /\ Justified(c)
  /\ TableSound /\ BoundedLifetime /\ VerifiedOnlyForLoggedIn

-----------------------------------------------------------------------------

\* Once a user has logged in and as long as no handler works on their row, the
\* row is there: the DELETE and the INSERT of a renewal (auth_server.cpp:81-85)
\* are two statements, and what one handler deletes it must put back.
LoggedInKeepsRow ==
  \A u \in loggedIn :
    BusyWith(u) = {} => RowsOf(generateToken(u)) # {}

\* A peer that has gone is noticed, the thread disconnects and ends
\* (auth_server.cpp:94-100): whichever of its statements it had come to, whatever
\* requests were still unread, and although it goes on to work on them and to write
\* answers to nobody, which may reset the connection and end the process.
PeerGoneFreesThread ==
  \A c \in Conns : ~link[c].up["client"] ~> pc[c] = "idle"

\* "Update the database with the new token" (comment auth_server.cpp:80): when
\* the new token is announced, and no renewal of it is under way, it is in the
\* database.
RenewalUpdatesDatabase ==
  \A c \in Conns : \A u \in Users :
    /\ pc[c] = "send" /\ answer[c] = NewToken(u)
    /\ BusyWith(u) = {}
    => RowsOf(generateToken(u)) # {}

\* "Token not found" (auth_server.cpp:57, "No rows found" sqlite3_provider.cpp:133):
\* a text that is no token of any user is answered as an invalid token.
UnknownTokenIsInvalid ==
  \A c \in Conns :
    /\ pc[c] = "send" /\ message[c].op = "VERIFY"
    /\ message[c].token \notin Tokens
    => answer[c] = Error("Invalid token")

=============================================================================
