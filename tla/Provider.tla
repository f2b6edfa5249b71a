------------------------------ MODULE Provider ------------------------------
(***************************************************************************)
(* One SQLite3Provider, its Logger, and the functions of sqlite3_user.cpp that  *)
(* work with it: what their callers and the log are told of a query, when the    *)
(* database could not be opened, when a statement fails, and when threads of one *)
(* process (auth_server.cpp:104, 121) share the provider without a lock.          *)
(*                                                                         *)
(* The table of tokens is AuthServer's; here a statement on it only succeeds or    *)
(* fails.                                                                   *)
(***************************************************************************)
EXTENDS Naturals

CONSTANTS
  Threads,
  Names,      \* usernames
  Passwords,
  MaxTime,    \* bound on the clock
  MaxCalls    \* bound on the calls

ASSUME ProviderAssumption == MaxTime \in Nat /\ MaxCalls \in Nat

\* What each operation makes of a failed statement's message: it prints it to cerr, turns it
\* into a std::string, or appends it to one.
Printing  == {"isUserExists", "verifyUser"}
Throwing  == {"addUser", "createUsersTable", "insert", "getTokenTTL", "getUsernameFromToken"}
Appending == {"update", "remove"}
Operations == Printing \cup Throwing \cup Appending

\* Those that tell their caller whether the statement has succeeded.
Queries == {"getTokenTTL", "getUsernameFromToken"}

\* Where a call is; a call that has returned is remembered until the thread's next one.
Stages == {"returned", "exec", "time", "localtime", "filling", "strftime", "stamped"}
Logging == {"localtime", "filling", "strftime", "stamped"}

VARIABLES
  opened,  \* sqlite3_open has succeeded
  users,   \* the table of users
  running, \* the process is
  clock,
  tm,      \* localtime's buffer: the times that its fields are of
  count,   \* calls so far
  call,    \* call[t]: the call of thread t
  yes,     \* the threads whose last call has returned true
  times    \* history: the times that calls of log have read that ran at the same
           \* time as the one of t

pvars == <<opened, users, running, clock, tm, count, call, yes, times>>

Times == 0 .. MaxTime

\* What strftime's format asks for: year, month, day, hour, minute, second.
Fields == 6

ProviderTypeOK ==
  /\ opened \in BOOLEAN /\ running \in BOOLEAN
  /\ users \in SUBSET (Names \X Passwords)
  /\ \A u, v \in users : u[1] = v[1] => u = v
  /\ clock \in Times /\ tm \in SUBSET Times
  /\ count \in 0 .. MaxCalls
  /\ call \in [Threads -> [op : Operations, user : Names \X Passwords, at : Stages,
                           level : {"INFO", "ERROR"}, now : Times,
                           stamp : SUBSET Times, read : 0 .. Fields]]
  /\ yes \in SUBSET Threads
  /\ times \in [Threads -> SUBSET Times]

\* A thread that has not called yet is like one whose verifyUser has returned false.
NewCall(op, user, at) ==
  [op |-> op, user |-> user, at |-> at, level |-> "INFO", now |-> 0,
   stamp |-> {}, read |-> 0]

\* The constructor logs whether the database is open, and that is all it does about it.
ProviderInit ==
  /\ opened \in BOOLEAN /\ users = {} /\ running = TRUE
  /\ clock = 0 /\ tm = {0} /\ count = 0
  /\ \E user \in Names \X Passwords :
       call = [t \in Threads |-> NewCall("verifyUser", user, "returned")]
  /\ yes = {} /\ times = [t \in Threads |-> {}]

-----------------------------------------------------------------------------
(* Queries *)

Call(t, op, user) ==
  /\ running /\ call[t].at = "returned" /\ count < MaxCalls
  /\ count' = count + 1
  /\ call' = [call EXCEPT ![t] = NewCall(op, user, "exec")]
  /\ UNCHANGED <<opened, users, running, clock, tm, yes, times>>

Return(t, answer) ==
  /\ call' = [call EXCEPT ![t].at = "returned"]
  /\ yes' = IF answer THEN yes \cup {t} ELSE yes \ {t}

Log(t, level) == call' = [call EXCEPT ![t].at = "time", ![t].level = level] /\ UNCHANGED yes

\* Mutant of CanInsert: username is not UNIQUE.
CanInsertRow(user) == user \notin users

\* users.username is UNIQUE.
CanInsert(user) == \A u \in users : u[1] # user[1]

\* Mutant of Succeeds: who exists is answered without the password.
SucceedsForName(t) ==
  LET c == call[t] IN
  IF c.op \in Printing
  THEN Return(t, \E u \in users : u[1] = c.user[1]) /\ UNCHANGED users
  ELSE /\ Log(t, "INFO")
       /\ c.op = "addUser" => CanInsert(c.user)
       /\ users' = IF c.op = "addUser" THEN users \cup {c.user} ELSE users

\* The statement has succeeded.
Succeeds(t) ==
  LET c == call[t] IN
  IF c.op \in Printing
  THEN Return(t, c.user \in users) /\ UNCHANGED users
  ELSE /\ Log(t, "INFO")
       /\ c.op = "addUser" => CanInsert(c.user)
       /\ users' = IF c.op = "addUser" THEN users \cup {c.user} ELSE users

\* It has failed: UNIQUE, another process has the lock, the disk is full ...
Fails(t) ==
  /\ IF call[t].op \in Printing THEN Return(t, FALSE) ELSE Log(t, "ERROR")
  /\ UNCHANGED users

\* On a database that is not open sqlite3_exec fails and leaves errMsg a null pointer.
\* The stream cerr survives it; std::string throws, which only addUser catches; the
\* operator + of std::string does not survive it.
Unopened(t) ==
  /\ IF call[t].op \in Printing \cup {"addUser"}
     THEN Return(t, FALSE) /\ UNCHANGED running
     ELSE running' = FALSE /\ UNCHANGED <<call, yes>>
  /\ UNCHANGED users

Exec(t) ==
  /\ running /\ call[t].at = "exec"
  /\ IF opened THEN (Succeeds(t) \/ Fails(t)) /\ UNCHANGED running ELSE Unopened(t)
  /\ UNCHANGED <<opened, clock, tm, count, times>>

-----------------------------------------------------------------------------
(* Logger::log *)

Active(t) == call[t].at \in Logging

\* now = time(0).
ReadClock(t) ==
  /\ running /\ call[t].at = "time"
  /\ call' = [call EXCEPT ![t].at = "localtime", ![t].now = clock]
  /\ times' = [u \in Threads |->
                 IF u = t THEN {clock} \cup {call[v].now : v \in {v \in Threads : Active(v)}}
                 ELSE IF Active(u) THEN times[u] \cup {clock} ELSE times[u]]
  /\ UNCHANGED <<opened, users, running, clock, tm, count, yes>>

\* localtime fills the one buffer it has, under the C library's lock, and the readers do
\* not take it: until it returns a field may be of the old time or of the new.
LocalTime(t) ==
  /\ running /\ call[t].at = "localtime"
  /\ \A u \in Threads : call[u].at # "filling"
  /\ tm' = tm \cup {call[t].now}
  /\ call' = [call EXCEPT ![t].at = "filling"]
  /\ UNCHANGED <<opened, users, running, clock, count, yes, times>>

\* Mutant of LocalTimeReturns: what an earlier call has filled in stays.
LocalTimeKeeps(t) ==
  /\ running /\ call[t].at = "filling"
  /\ call' = [call EXCEPT ![t].at = "strftime"]
  /\ UNCHANGED <<opened, users, running, clock, tm, count, yes, times>>

LocalTimeReturns(t) ==
  /\ running /\ call[t].at = "filling"
  /\ tm' = {call[t].now}
  /\ call' = [call EXCEPT ![t].at = "strftime"]
  /\ UNCHANGED <<opened, users, running, clock, count, yes, times>>

\* strftime reads the next field of its format, whichever call it is of by now; in between
\* others may fill the buffer. The stamp is the set of the times its fields are of.
Strftime(t) ==
  /\ running /\ call[t].at = "strftime"
  /\ \E time \in tm :
       call' = [call EXCEPT ![t].stamp = @ \cup {time}, ![t].read = @ + 1,
                            ![t].at = IF call[t].read + 1 = Fields THEN "stamped" ELSE @]
  /\ UNCHANGED <<opened, users, running, clock, tm, count, yes, times>>

\* The line is written. insert says nothing to addUser of the statement it has logged.
Write(t) ==
  /\ running /\ call[t].at = "stamped"
  /\ Return(t, call[t].op \in Queries => call[t].level = "INFO")
  /\ UNCHANGED <<opened, users, running, clock, tm, count, times>>

Tick ==
  /\ clock < MaxTime
  /\ clock' = clock + 1
  /\ UNCHANGED <<opened, users, running, tm, count, call, yes, times>>

ProviderNext ==
  \/ \E t \in Threads :
       \/ \E op \in Operations, user \in Names \X Passwords : Call(t, op, user)
       \/ Exec(t) \/ ReadClock(t)
       \/ LocalTime(t) \/ LocalTimeReturns(t) \/ Strftime(t) \/ Write(t)
  \/ Tick

ProviderSpec == ProviderInit /\ [][ProviderNext]_pvars

-----------------------------------------------------------------------------
(* Properties *)

AnswerHolds(t) ==
  LET c == call[t] IN
  c.at = "returned" =>
    /\ c.op \in Printing /\ t \in yes => opened /\ c.user \in users
    /\ c.op \in Queries /\ t \in yes => opened /\ c.level = "INFO"
    /\ c.op = "addUser" =>
         IF t \in yes THEN opened /\ (c.level = "INFO" => c.user \in users) ELSE ~opened

\* What a caller may conclude from an answer. Whoever is said to exist is in the table
\* with that password (a failed query, or a database that never opened, admits nobody); a
\* token is found only when its query succeeded. Of addUser much less holds: false means
\* that the database is not open, and true that the row is there only if the log says
\* INFO, for insert swallows the error (sqlite3_provider.cpp:39, sqlite3_user.cpp:41).
AnswersHold == \A t \in Threads : AnswerHolds(t)

\* Threads share localtime's buffer without a lock, so the stamp of a log line may be another
\* call's time, or put together from several: at 12:00:00 even 11:00:00 or 12:59:59 may be
\* written. But each of its six fields is that of a time read by a call of log that ran at
\* the same time as this one, never of an older one.
StampOverlaps == \A t \in Threads : call[t].stamp \subseteq times[t]
=============================================================================
