--------------------------- MODULE ProviderProofs ---------------------------
(***************************************************************************)
(* Provider, for any number of threads, names and passwords.                *)
(*                                                                         *)
(* AnswersHold and StampOverlaps speak of calls that have returned and of stamps   *)
(* that are written; AnswersIInv and StampsIInv say what the calls under way have   *)
(* to bring there.                                                          *)
(***************************************************************************)
EXTENDS Provider, TLAPS

\* A call that logs does so on an open database, and is none that only prints; an addUser
\* about to log INFO has stored its row.
Underway(t) ==
  call[t].at \in Logging \cup {"time"} =>
    /\ opened /\ call[t].op \notin Printing
    /\ call[t].op = "addUser" /\ call[t].level = "INFO" => call[t].user \in users

AnswersIInv == AnswersHold /\ \A t \in Threads : Underway(t)

\* Calls of log that run at the same time know of one another's times, and the buffer, once
\* a call has filled it, holds times of calls it has met. What it has read is among them.
Meets(t) ==
  /\ call[t].at \in {"exec", "time", "localtime", "filling"} => call[t].stamp = {}
  /\ Active(t) => \A u \in Threads : Active(u) => call[u].now \in times[t]
  /\ call[t].at \in {"strftime", "stamped"} => tm \subseteq times[t]
  /\ call[t].stamp \subseteq times[t]

StampsIInv == \A t \in Threads : Meets(t)

CallType == [op : Operations, user : Names \X Passwords, at : Stages,
             level : {"INFO", "ERROR"}, now : Times,
             stamp : SUBSET Times, read : 0 .. Fields]

-----------------------------------------------------------------------------
(* Types *)

LEMMA TypedCall ==
  ASSUME ProviderTypeOK, NEW t \in Threads
  PROVE  call \in [Threads -> CallType] /\ call[t] \in CallType
BY DEF ProviderTypeOK, CallType

\* The fields that actions change keep their types.
LEMMA TypedAt ==
  ASSUME NEW c \in CallType, NEW at \in Stages PROVE [c EXCEPT !.at = at] \in CallType
BY DEF CallType

LEMMA TypedLevel ==
  ASSUME NEW c \in CallType, NEW at \in Stages, NEW level \in {"INFO", "ERROR"}
  PROVE  [c EXCEPT !.at = at, !.level = level] \in CallType
BY DEF CallType

LEMMA TypedNow ==
  ASSUME NEW c \in CallType, NEW at \in Stages, NEW now \in Times
  PROVE  [c EXCEPT !.at = at, !.now = now] \in CallType
BY DEF CallType

LEMMA TypedStamp ==
  ASSUME NEW c \in CallType, NEW at \in Stages, NEW stamp \in SUBSET Times,
         NEW read \in 0 .. Fields
  PROVE  [c EXCEPT !.stamp = stamp, !.read = read, !.at = at] \in CallType
BY DEF CallType

LEMMA ReturnKeepsType ==
  ASSUME ProviderTypeOK, NEW t \in Threads, NEW answer, Return(t, answer)
  PROVE  call' \in [Threads -> CallType] /\ yes' \in SUBSET Threads
<1>1. [call[t] EXCEPT !.at = "returned"] \in CallType
  BY TypedCall, TypedAt DEF Stages
<1>2. call' \in [Threads -> CallType]
  BY <1>1, TypedCall DEF Return
<1>. QED BY <1>2 DEF Return, ProviderTypeOK

\* Before its line is stamped a call has fields left to read.
FieldsLeft ==
  \A t \in Threads :
    call[t].at \in Stages \ {"returned", "stamped"} => call[t].read \in 0 .. Fields - 1

ProviderTypeIInv == ProviderTypeOK /\ FieldsLeft

LEMMA StrftimeReads ==
  ASSUME ProviderTypeOK, NEW t \in Threads, Strftime(t)
  PROVE  \E time \in tm, at \in {"strftime", "stamped"} :
           /\ call' = [call EXCEPT ![t] = [call[t] EXCEPT !.stamp = @ \cup {time},
                                                         !.read = @ + 1, !.at = at]]
           /\ at = IF call[t].read + 1 = Fields THEN "stamped" ELSE "strftime"
<1>1. PICK time \in tm :
        call' = [call EXCEPT ![t].stamp = @ \cup {time}, ![t].read = @ + 1,
                             ![t].at = IF call[t].read + 1 = Fields THEN "stamped" ELSE @]
  BY DEF Strftime
<1>. DEFINE at == IF call[t].read + 1 = Fields THEN "stamped" ELSE "strftime"
<1>2. call[t].at = "strftime" /\ at \in {"strftime", "stamped"}
  BY DEF Strftime
<1>. QED BY <1>1, <1>2

\* What of it the other proofs need.
LEMMA StrftimeStamp ==
  ASSUME ProviderTypeOK, NEW t \in Threads, Strftime(t)
  PROVE  /\ call'[t].at \in {"strftime", "stamped"} /\ call'[t].now = call[t].now
         /\ call'[t].op = call[t].op /\ call'[t].level = call[t].level
         /\ call'[t].user = call[t].user
         /\ \E time \in tm : call'[t].stamp = call[t].stamp \cup {time}
         /\ \A u \in Threads \ {t} : call'[u] = call[u]
<1>1. PICK time \in tm, at \in {"strftime", "stamped"} :
        call' = [call EXCEPT ![t] = [call[t] EXCEPT !.stamp = @ \cup {time},
                                                    !.read = @ + 1, !.at = at]]
  BY StrftimeReads
<1>. QED BY <1>1, TypedCall DEF CallType

LEMMA InitType == ProviderInit => ProviderTypeIInv
<1> SUFFICES ASSUME ProviderInit PROVE ProviderTypeIInv
  OBVIOUS
<1>1. 0 \in Times /\ 0 \in 0 .. MaxCalls
  BY ProviderAssumption DEF Times
<1>2. PICK user \in Names \X Passwords :
        call = [t \in Threads |-> NewCall("verifyUser", user, "returned")]
  BY DEF ProviderInit
<1>3. NewCall("verifyUser", user, "returned") \in CallType
  BY <1>1 DEF NewCall, CallType, Operations, Printing, Stages, Fields
<1>4. call \in [Threads -> CallType]
  BY <1>2, <1>3
<1>5. FieldsLeft
  BY <1>2 DEF FieldsLeft, NewCall
<1>. QED BY <1>1, <1>4, <1>5 DEF ProviderInit, ProviderTypeOK, ProviderTypeIInv, CallType

LEMMA CallKeepsType ==
  ASSUME ProviderTypeOK, NEW t \in Threads, NEW op \in Operations,
         NEW user \in Names \X Passwords, Call(t, op, user)
  PROVE  ProviderTypeOK'
<1>1. 0 \in Times /\ count + 1 \in 0 .. MaxCalls
  BY ProviderAssumption DEF Times, ProviderTypeOK, Call
<1>2. NewCall(op, user, "exec") \in CallType
  BY <1>1 DEF NewCall, CallType, Stages, Fields
<1>3. call' \in [Threads -> CallType]
  BY <1>2 DEF ProviderTypeOK, Call, CallType
<1>. QED BY <1>1, <1>3 DEF ProviderTypeOK, Call, CallType

LEMMA ExecKeepsType ==
  ASSUME ProviderTypeOK, NEW t \in Threads, Exec(t)
  PROVE  ProviderTypeOK'
<1>1. call' \in [Threads -> CallType] /\ yes' \in SUBSET Threads
  <2>1. ASSUME NEW answer, Return(t, answer)
        PROVE  call' \in [Threads -> CallType] /\ yes' \in SUBSET Threads
    BY <2>1, ReturnKeepsType
  <2>2. ASSUME NEW level \in {"INFO", "ERROR"}, Log(t, level)
        PROVE  call' \in [Threads -> CallType] /\ yes' \in SUBSET Threads
    <3>1. [call[t] EXCEPT !.at = "time", !.level = level] \in CallType
      BY <2>2, TypedCall, TypedLevel DEF Stages
    <3>. QED BY <2>2, <3>1, TypedCall DEF Log, ProviderTypeOK
  <2>3. CASE opened /\ Succeeds(t)
    BY <2>1, <2>2, <2>3 DEF Succeeds
  <2>4. CASE opened /\ Fails(t)
    BY <2>1, <2>2, <2>4 DEF Fails
  <2>5. CASE ~opened /\ Unopened(t)
    <3>1. CASE Return(t, FALSE)
      BY <3>1, <2>1
    <3>2. CASE UNCHANGED <<call, yes>>
      BY <3>2, TypedCall DEF ProviderTypeOK
    <3>. QED BY <2>5, <3>1, <3>2 DEF Unopened
  <2>. QED BY <2>3, <2>4, <2>5 DEF Exec
<1>2. users' \in SUBSET (Names \X Passwords)
  <2>1. call[t].user \in Names \X Passwords
    BY TypedCall DEF CallType
  <2>2. users \in SUBSET (Names \X Passwords)
    BY DEF ProviderTypeOK
  <2>3. users' = users \/ users' = users \cup {call[t].user}
    BY DEF Exec, Succeeds, Fails, Unopened
  <2>. QED BY <2>1, <2>2, <2>3
<1>3. ASSUME NEW u \in users', NEW v \in users', u[1] = v[1] PROVE u = v
  <2>1. CASE users' = users
    BY <1>3, <2>1 DEF ProviderTypeOK
  <2>2. CASE CanInsert(call[t].user) /\ users' = users \cup {call[t].user}
    BY <1>3, <2>2 DEF ProviderTypeOK, CanInsert
  <2>. QED BY <2>1, <2>2 DEF Exec, Succeeds, Fails, Unopened
<1>4. running' \in BOOLEAN
  BY DEF ProviderTypeOK, Exec, Unopened
<1>. QED BY <1>1, <1>2, <1>3, <1>4 DEF ProviderTypeOK, Exec, CallType

LEMMA ReadClockKeepsType ==
  ASSUME ProviderTypeOK, NEW t \in Threads, ReadClock(t)
  PROVE  ProviderTypeOK'
<1>1. [call[t] EXCEPT !.at = "localtime", !.now = clock] \in CallType
  BY TypedCall, TypedNow DEF ProviderTypeOK, Stages
<1>2. call' \in [Threads -> CallType]
  BY <1>1, TypedCall DEF ReadClock
<1>3. {call[v].now : v \in {v \in Threads : Active(v)}} \in SUBSET Times
  BY DEF ProviderTypeOK
<1>4. times' \in [Threads -> SUBSET Times]
  BY <1>3 DEF ProviderTypeOK, ReadClock
<1>. QED BY <1>2, <1>4 DEF ProviderTypeOK, ReadClock, CallType

LEMMA LocalTimeKeepsType ==
  ASSUME ProviderTypeOK, NEW t \in Threads, LocalTime(t) \/ LocalTimeReturns(t)
  PROVE  ProviderTypeOK'
<1>1. call[t].now \in Times
  BY TypedCall DEF CallType
<1>2. \A at \in Stages : [call[t] EXCEPT !.at = at] \in CallType
  BY TypedCall, TypedAt
<1>3. call' \in [Threads -> CallType]
  BY <1>2, TypedCall DEF LocalTime, LocalTimeReturns, Stages
<1>4. tm' \in SUBSET Times
  BY <1>1 DEF LocalTime, LocalTimeReturns, ProviderTypeOK
<1>. QED BY <1>3, <1>4 DEF ProviderTypeOK, LocalTime, LocalTimeReturns, CallType

LEMMA StrftimeKeepsType ==
  ASSUME ProviderTypeIInv, NEW t \in Threads, Strftime(t)
  PROVE  ProviderTypeOK'
<1>1. ProviderTypeOK /\ call[t].read \in 0 .. Fields - 1
  BY DEF ProviderTypeIInv, FieldsLeft, Strftime, Stages
<1>2. PICK time \in tm, at \in {"strftime", "stamped"} :
        call' = [call EXCEPT ![t] = [call[t] EXCEPT !.stamp = @ \cup {time},
                                                    !.read = @ + 1, !.at = at]]
  BY <1>1, StrftimeReads
<1>3. call[t].stamp \cup {time} \in SUBSET Times /\ call[t].read + 1 \in 0 .. Fields
  BY <1>1, TypedCall DEF ProviderTypeOK, CallType, Fields
<1>4. [call[t] EXCEPT !.stamp = @ \cup {time}, !.read = @ + 1, !.at = at] \in CallType
  BY <1>1, <1>3, TypedCall, TypedStamp DEF Stages
<1>5. call' \in [Threads -> CallType]
  BY <1>1, <1>2, <1>4, TypedCall
<1>. QED BY <1>1, <1>5 DEF ProviderTypeOK, Strftime, CallType

LEMMA WriteKeepsType ==
  ASSUME ProviderTypeOK, NEW t \in Threads, Write(t)
  PROVE  ProviderTypeOK'
<1>1. call' \in [Threads -> CallType] /\ yes' \in SUBSET Threads
  BY ReturnKeepsType DEF Write
<1>. QED BY <1>1 DEF ProviderTypeOK, Write, CallType

LEMMA TickKeepsType == ProviderTypeOK /\ Tick => ProviderTypeOK'
BY ProviderAssumption DEF ProviderTypeOK, Tick, Times

\* A step of t that leaves what it has read, and is no way out of a finished call.
LEMMA FieldsStayLeft ==
  ASSUME FieldsLeft, NEW t \in Threads, \A u \in Threads \ {t} : call'[u] = call[u],
         call'[t].read = call[t].read, call[t].at \in Stages \ {"returned", "stamped"}
  PROVE  FieldsLeft'
BY DEF FieldsLeft

LEMMA NextFieldsLeft ==
  ProviderTypeIInv /\ [ProviderNext]_pvars => FieldsLeft'
<1> SUFFICES ASSUME ProviderTypeIInv, [ProviderNext]_pvars PROVE FieldsLeft'
  OBVIOUS
<1>. USE DEF ProviderTypeIInv
<1>1. CASE call' = call
  BY <1>1 DEF FieldsLeft
<1>2. ASSUME NEW t \in Threads, NEW op \in Operations, NEW user \in Names \X Passwords,
             Call(t, op, user)
      PROVE  FieldsLeft'
  BY <1>2, TypedCall DEF Call, NewCall, FieldsLeft, Fields
<1>3. ASSUME NEW t \in Threads, Exec(t) PROVE FieldsLeft'
  <2>1. CASE call' = [call EXCEPT ![t].at = "returned"]
    BY <1>3, <2>1, TypedCall DEF FieldsLeft, CallType
  <2>2. CASE \E level \in {"INFO", "ERROR"} :
               call' = [call EXCEPT ![t].at = "time", ![t].level = level]
    <3>1. /\ call'[t].read = call[t].read
          /\ \A u \in Threads \ {t} : call'[u] = call[u]
      BY <2>2, TypedCall DEF CallType
    <3>. QED BY <1>3, <3>1, FieldsStayLeft DEF Exec, Stages
  <2>. QED BY <1>1, <1>3, <2>1, <2>2 DEF Exec, Succeeds, Fails, Unopened, Return, Log
<1>4. ASSUME NEW t \in Threads, ReadClock(t) \/ LocalTime(t) \/ LocalTimeReturns(t)
      PROVE  FieldsLeft'
  <2>1. /\ call'[t].read = call[t].read
        /\ \A u \in Threads \ {t} : call'[u] = call[u]
    BY <1>4, TypedCall DEF ReadClock, LocalTime, LocalTimeReturns, CallType
  <2>. QED BY <1>4, <2>1, FieldsStayLeft DEF ReadClock, LocalTime, LocalTimeReturns, Stages
<1>5. ASSUME NEW t \in Threads, Strftime(t) PROVE FieldsLeft'
  <2>1. PICK time \in tm, at \in {"strftime", "stamped"} :
          /\ call' = [call EXCEPT ![t] = [call[t] EXCEPT !.stamp = @ \cup {time},
                                                        !.read = @ + 1, !.at = at]]
          /\ at = IF call[t].read + 1 = Fields THEN "stamped" ELSE "strftime"
    BY <1>5, StrftimeReads
  <2>2. call[t].read \in 0 .. Fields - 1
    BY <1>5 DEF FieldsLeft, Strftime, Stages
  <2>3. /\ call'[t].at = at /\ call'[t].read = call[t].read + 1
        /\ \A u \in Threads \ {t} : call'[u] = call[u]
    BY <2>1, TypedCall DEF CallType
  <2>4. call'[t].at # "stamped" => call'[t].read \in 0 .. Fields - 1
    BY <2>1, <2>2, <2>3 DEF Fields
  <2>. QED BY <2>3, <2>4 DEF FieldsLeft
<1>6. ASSUME NEW t \in Threads, Write(t) PROVE FieldsLeft'
  BY <1>6, TypedCall DEF Write, Return, FieldsLeft, CallType
<1>. QED BY <1>1, <1>2, <1>3, <1>4, <1>5, <1>6 DEF ProviderNext, pvars, Tick

LEMMA NextType == ProviderTypeIInv /\ [ProviderNext]_pvars => ProviderTypeIInv'
<1> SUFFICES ASSUME ProviderTypeIInv, [ProviderNext]_pvars PROVE ProviderTypeOK'
  BY NextFieldsLeft DEF ProviderTypeIInv
<1>. USE DEF ProviderTypeIInv
<1>1. CASE UNCHANGED pvars
  BY <1>1 DEF pvars, ProviderTypeOK
<1>2. CASE ProviderNext
  BY <1>2, CallKeepsType, ExecKeepsType, ReadClockKeepsType, LocalTimeKeepsType,
     StrftimeKeepsType, WriteKeepsType, TickKeepsType DEF ProviderNext
<1>. QED BY <1>1, <1>2

\* Type correctness: among the rest, that no name is ever in the table twice.
THEOREM ProviderTypeCorrect == ProviderSpec => []ProviderTypeOK
<1>1. ProviderTypeIInv => ProviderTypeOK
  BY DEF ProviderTypeIInv
<1>. QED BY <1>1, InitType, NextType, PTL DEF ProviderSpec
-----------------------------------------------------------------------------
(* Answers *)

LEMMA InitAnswers == ProviderInit => AnswersIInv
<1> SUFFICES ASSUME ProviderInit, NEW t \in Threads PROVE AnswerHolds(t) /\ Underway(t)
  BY DEF AnswersIInv, AnswersHold
<1>1. call[t].op = "verifyUser" /\ call[t].at = "returned" /\ t \notin yes
  BY DEF ProviderInit, NewCall
<1>. QED BY <1>1 DEF AnswerHolds, Underway, Logging, Queries

\* What a step of one thread leaves of another's call.
LEMMA OthersAnswersStay ==
  ASSUME AnswersIInv, NEW u \in Threads, call'[u] = call[u], u \in yes' <=> u \in yes,
         users \subseteq users', opened' = opened
  PROVE  AnswerHolds(u)' /\ Underway(u)'
BY DEF AnswersIInv, AnswersHold, AnswerHolds, Underway

LEMMA ReturnAnswers ==
  ASSUME ProviderTypeOK, NEW t \in Threads, NEW answer, Return(t, answer)
  PROVE  /\ call'[t].at = "returned" /\ call'[t].op = call[t].op
         /\ call'[t].user = call[t].user /\ call'[t].level = call[t].level
         /\ Underway(t)'
         /\ \A u \in Threads \ {t} : call'[u] = call[u] /\ (u \in yes' <=> u \in yes)
BY TypedCall DEF Return, Underway, Logging, CallType

LEMMA LogAnswers ==
  ASSUME ProviderTypeOK, NEW t \in Threads, NEW level, Log(t, level)
  PROVE  /\ call'[t].at = "time" /\ call'[t].level = level
         /\ call'[t].op = call[t].op /\ call'[t].user = call[t].user
         /\ AnswerHolds(t)'
         /\ \A u \in Threads \ {t} : call'[u] = call[u] /\ (u \in yes' <=> u \in yes)
BY TypedCall DEF Log, AnswerHolds, CallType

LEMMA CallAnswers ==
  ASSUME ProviderTypeOK, AnswersIInv, NEW t \in Threads, NEW op \in Operations,
         NEW user \in Names \X Passwords, Call(t, op, user)
  PROVE  AnswersIInv'
<1>1. AnswerHolds(t)' /\ Underway(t)'
  BY TypedCall DEF Call, NewCall, AnswerHolds, Underway, Logging
<1>2. \A u \in Threads \ {t} : AnswerHolds(u)' /\ Underway(u)'
  BY OthersAnswersStay, TypedCall DEF Call
<1>. QED BY <1>1, <1>2 DEF AnswersIInv, AnswersHold

LEMMA ExecAnswers ==
  ASSUME ProviderTypeOK, AnswersIInv, NEW t \in Threads, Exec(t)
  PROVE  AnswersIInv'
<1>. DEFINE c == call[t]
<1>1. c \in CallType /\ users \subseteq users' /\ opened' = opened
  BY TypedCall DEF Exec, Succeeds, Fails, Unopened
<1>2. /\ AnswerHolds(t)' /\ Underway(t)'
      /\ \A u \in Threads \ {t} : call'[u] = call[u] /\ (u \in yes' <=> u \in yes)
  <2>1. CASE opened /\ Succeeds(t) /\ c.op \in Printing
    <3>1. Return(t, c.user \in users) /\ users' = users
      BY <2>1 DEF Succeeds
    <3>2. t \in yes' => c.user \in users
      BY <3>1 DEF Return
    <3>3. AnswerHolds(t)'
      BY <1>1, <2>1, <3>1, <3>2, ReturnAnswers DEF AnswerHolds, Printing, Queries
    <3>. QED BY <3>1, <3>3, ReturnAnswers
  <2>2. CASE opened /\ Succeeds(t) /\ c.op \notin Printing
    <3>1. Log(t, "INFO") /\ (c.op = "addUser" => c.user \in users')
      BY <2>2 DEF Succeeds
    <3>2. Underway(t)'
      BY <1>1, <2>2, <3>1, LogAnswers DEF Underway
    <3>. QED BY <3>1, <3>2, LogAnswers
  <2>3. CASE opened /\ Fails(t) /\ c.op \in Printing
    <3>1. Return(t, FALSE)
      BY <2>3 DEF Fails
    <3>2. t \notin yes'
      BY <3>1 DEF Return
    <3>3. AnswerHolds(t)'
      BY <1>1, <2>3, <3>1, <3>2, ReturnAnswers DEF AnswerHolds, Printing, Queries
    <3>. QED BY <3>1, <3>3, ReturnAnswers
  <2>4. CASE opened /\ Fails(t) /\ c.op \notin Printing
    <3>1. Log(t, "ERROR")
      BY <2>4 DEF Fails
    <3>2. Underway(t)'
      BY <1>1, <2>4, <3>1, LogAnswers DEF Underway
    <3>. QED BY <3>1, <3>2, LogAnswers
  <2>5. CASE ~opened /\ Unopened(t)
    <3>1. CASE Return(t, FALSE) /\ c.op \in Printing \cup {"addUser"}
      <4>1. t \notin yes'
        BY <3>1 DEF Return
      <4>2. AnswerHolds(t)'
        BY <1>1, <2>5, <3>1, <4>1, ReturnAnswers DEF AnswerHolds, Printing, Queries
      <4>. QED BY <3>1, <4>2, ReturnAnswers
    <3>2. CASE UNCHANGED <<call, yes>>
      BY <1>1, <2>5, <3>2, OthersAnswersStay
    <3>. QED BY <2>5, <3>1, <3>2 DEF Unopened
  <2>. QED BY <2>1, <2>2, <2>3, <2>4, <2>5 DEF Exec
<1>3. \A u \in Threads \ {t} : AnswerHolds(u)' /\ Underway(u)'
  BY <1>1, <1>2, OthersAnswersStay
<1>. QED BY <1>2, <1>3 DEF AnswersIInv, AnswersHold

\* A step inside log on the way to the line.
LEMMA LogStepAnswers ==
  ASSUME ProviderTypeOK, AnswersIInv, NEW t \in Threads,
         ReadClock(t) \/ LocalTime(t) \/ LocalTimeReturns(t) \/ Strftime(t)
  PROVE  AnswersIInv'
<1>1. /\ call'[t].at \in Logging /\ call[t].at \in Logging \cup {"time"}
      /\ call'[t].op = call[t].op /\ call'[t].level = call[t].level
      /\ call'[t].user = call[t].user
      /\ \A u \in Threads \ {t} : call'[u] = call[u]
      /\ UNCHANGED <<opened, users, yes>>
  <2>1. CASE ReadClock(t)
    BY <2>1, TypedCall DEF ReadClock, Logging, CallType
  <2>2. CASE LocalTime(t) \/ LocalTimeReturns(t)
    BY <2>2, TypedCall DEF LocalTime, LocalTimeReturns, Logging, CallType
  <2>3. CASE Strftime(t)
    BY <2>3, StrftimeStamp DEF Strftime, Logging
  <2>. QED BY <2>1, <2>2, <2>3
<1>2. AnswerHolds(t)' /\ Underway(t)'
  BY <1>1 DEF AnswersIInv, AnswerHolds, Underway, Logging
<1>3. \A u \in Threads \ {t} : AnswerHolds(u)' /\ Underway(u)'
  BY <1>1, OthersAnswersStay
<1>. QED BY <1>2, <1>3 DEF AnswersIInv, AnswersHold

LEMMA WriteAnswers ==
  ASSUME ProviderTypeOK, AnswersIInv, NEW t \in Threads, Write(t)
  PROVE  AnswersIInv'
<1>. DEFINE c == call[t]
<1>1. Return(t, c.op \in Queries => c.level = "INFO") /\ UNCHANGED <<opened, users>>
  BY DEF Write
<1>2. Underway(t) /\ c.at \in Logging
  BY DEF AnswersIInv, Write, Logging
<1>3. AnswerHolds(t)' /\ Underway(t)'
  <2>1. t \in yes' <=> (c.op \in Queries => c.level = "INFO")
    BY <1>1 DEF Return
  <2>2. c.op = "addUser" => c.op \notin Queries
    BY DEF Queries
  <2>. QED BY <1>1, <1>2, <2>1, <2>2, ReturnAnswers DEF AnswerHolds, Underway
<1>4. \A u \in Threads \ {t} : AnswerHolds(u)' /\ Underway(u)'
  BY <1>1, ReturnAnswers, OthersAnswersStay
<1>. QED BY <1>3, <1>4 DEF AnswersIInv, AnswersHold

LEMMA NextAnswers ==
  ProviderTypeOK /\ AnswersIInv /\ [ProviderNext]_pvars => AnswersIInv'
<1> SUFFICES ASSUME ProviderTypeOK, AnswersIInv, [ProviderNext]_pvars PROVE AnswersIInv'
  OBVIOUS
<1>1. CASE UNCHANGED <<opened, users, call, yes>>
  BY <1>1, OthersAnswersStay DEF AnswersIInv, AnswersHold
<1>2. CASE ProviderNext /\ ~Tick
  BY <1>2, CallAnswers, ExecAnswers, LogStepAnswers, WriteAnswers DEF ProviderNext
<1>. QED BY <1>1, <1>2 DEF pvars, Tick

\* Nobody is said to exist who is not in the table, and the rest of what an answer means,
\* however calls interleave, whatever statements fail and whether the database opened.
THEOREM AnswersMeanWhatTheySay == ProviderSpec => []AnswersHold
<1>1. AnswersIInv => AnswersHold
  BY DEF AnswersIInv
<1>. QED BY <1>1, InitAnswers, NextAnswers, ProviderTypeCorrect, PTL DEF ProviderSpec
-----------------------------------------------------------------------------
(* Stamps *)

LEMMA InitStamps == ProviderInit => StampsIInv
<1> SUFFICES ASSUME ProviderInit, NEW t \in Threads PROVE Meets(t)
  BY DEF StampsIInv
<1>1. call[t].at = "returned" /\ call[t].stamp = {}
  BY DEF ProviderInit, NewCall
<1>. QED BY <1>1 DEF Meets, Active, Logging

\* A step of a thread that is not inside log when it is over.
LEMMA QuietStep ==
  ASSUME StampsIInv, NEW t \in Threads, UNCHANGED <<tm, times>>,
         \A u \in Threads \ {t} : call'[u] = call[u], ~Active(t)',
         call'[t].at \in {"exec", "time"} => call'[t].stamp = {},
         call'[t].stamp \subseteq times[t]
  PROVE  StampsIInv'
<1>1. Meets(t)'
  BY DEF Meets, Active, Logging
<1>2. ASSUME NEW u \in Threads \ {t} PROVE Meets(u)'
  BY <1>2 DEF StampsIInv, Meets, Active
<1>. QED BY <1>1, <1>2 DEF StampsIInv

LEMMA CallStamps ==
  ASSUME ProviderTypeOK, StampsIInv, NEW t \in Threads, NEW op \in Operations,
         NEW user \in Names \X Passwords, Call(t, op, user)
  PROVE  StampsIInv'
<1>1. call'[t].at = "exec" /\ call'[t].stamp = {}
  BY TypedCall DEF Call, NewCall
<1>2. \A u \in Threads \ {t} : call'[u] = call[u]
  BY TypedCall DEF Call
<1>. QED BY <1>1, <1>2, QuietStep DEF Call, Active, Logging

LEMMA ExecStamps ==
  ASSUME ProviderTypeOK, StampsIInv, NEW t \in Threads, Exec(t)
  PROVE  StampsIInv'
<1>1. call[t].at = "exec" /\ call[t].stamp = {}
  BY DEF Exec, StampsIInv, Meets
<1>2. /\ call'[t].at \in {"exec", "time", "returned"} /\ call'[t].stamp = call[t].stamp
      /\ \A u \in Threads \ {t} : call'[u] = call[u]
  <2>1. CASE call' = [call EXCEPT ![t].at = "returned"]
    BY <2>1, TypedCall DEF CallType
  <2>2. CASE \E level \in {"INFO", "ERROR"} :
               call' = [call EXCEPT ![t].at = "time", ![t].level = level]
    BY <2>2, TypedCall DEF CallType
  <2>3. CASE call' = call
    BY <1>1, <2>3
  <2>. QED BY <2>1, <2>2, <2>3 DEF Exec, Succeeds, Fails, Unopened, Return, Log
<1>. QED BY <1>1, <1>2, QuietStep DEF Exec, Active, Logging

LEMMA WriteStamps ==
  ASSUME ProviderTypeOK, StampsIInv, NEW t \in Threads, Write(t)
  PROVE  StampsIInv'
<1>1. /\ call'[t].at = "returned" /\ call'[t].stamp = call[t].stamp
      /\ \A u \in Threads \ {t} : call'[u] = call[u]
  BY TypedCall DEF Write, Return, CallType
<1>2. call[t].stamp \subseteq times[t]
  BY DEF StampsIInv, Meets
<1>. QED BY <1>1, <1>2, QuietStep DEF Write, Active, Logging

\* Who is inside log learns the new time, and who comes in learns theirs.
LEMMA ReadClockStamps ==
  ASSUME ProviderTypeOK, StampsIInv, NEW t \in Threads, ReadClock(t)
  PROVE  StampsIInv'
<1>1. /\ call'[t].at = "localtime" /\ call'[t].now = clock /\ call'[t].stamp = call[t].stamp
      /\ call[t].at = "time" /\ tm' = tm
      /\ \A u \in Threads \ {t} : call'[u] = call[u]
  BY TypedCall DEF ReadClock, CallType
<1>2. call[t].stamp = {}
  BY <1>1 DEF StampsIInv, Meets
<1>3. times'[t] = {clock} \cup {call[v].now : v \in {v \in Threads : Active(v)}}
  BY DEF ReadClock
<1>4. ASSUME NEW u \in Threads \ {t}
      PROVE  times'[u] = IF Active(u) THEN times[u] \cup {clock} ELSE times[u]
  BY DEF ReadClock
<1>5. Meets(t)'
  <2>1. ASSUME NEW u \in Threads, Active(u)' PROVE call'[u].now \in times'[t]
    <3>1. CASE u = t
      BY <1>1, <1>3, <3>1
    <3>2. CASE u # t
      BY <1>1, <1>3, <2>1, <3>2 DEF Active
    <3>. QED BY <3>1, <3>2
  <2>. QED BY <1>1, <1>2, <2>1 DEF Meets
<1>6. ASSUME NEW u \in Threads \ {t} PROVE Meets(u)'
  <2>1. Meets(u) /\ call'[u] = call[u]
    BY <1>1 DEF StampsIInv
  <2>2. Active(u) => \A v \in Threads : Active(v)' => call'[v].now \in times'[u]
    BY <1>1, <1>4, <2>1 DEF Meets, Active
  <2>. QED BY <1>1, <1>4, <2>1, <2>2 DEF Meets, Active, Logging
<1>. QED BY <1>5, <1>6 DEF StampsIInv

\* The time that fills the buffer is one that everybody inside log has met; once it has
\* filled it, no older one is left there.
LEMMA LocalTimeStamps ==
  ASSUME ProviderTypeOK, StampsIInv, NEW t \in Threads, LocalTime(t) \/ LocalTimeReturns(t)
  PROVE  StampsIInv'
<1>1. /\ call'[t].now = call[t].now /\ call'[t].stamp = call[t].stamp
      /\ call[t].at \in {"localtime", "filling"} /\ times' = times
      /\ \A u \in Threads \ {t} : call'[u] = call[u]
  BY TypedCall DEF LocalTime, LocalTimeReturns, CallType
<1>2. \/ call'[t].at = "filling" /\ tm' = tm \cup {call[t].now}
      \/ call'[t].at = "strftime" /\ tm' = {call[t].now}
  BY TypedCall DEF LocalTime, LocalTimeReturns, CallType
<1>3. \A u \in Threads : Active(u)' <=> Active(u)
  BY <1>1, <1>2 DEF Active, Logging
<1>4. Active(t) /\ \A u \in Threads : Meets(u)
  BY <1>1 DEF StampsIInv, Active, Logging
<1>5. \A u \in Threads : Active(u) => call[t].now \in times[u]
  BY <1>4 DEF Meets
<1>6. Meets(t)'
  <2>1. call'[t].at = "strftime" => tm' \subseteq times[t]
    BY <1>2, <1>4, <1>5
  <2>. QED BY <1>1, <1>2, <1>3, <1>4, <2>1 DEF Meets
<1>7. ASSUME NEW u \in Threads \ {t} PROVE Meets(u)'
  <2>1. ASSUME call[u].at \in {"strftime", "stamped"} PROVE tm' \subseteq times[u]
    <3>1. Active(u) /\ tm \subseteq times[u]
      BY <1>4, <2>1 DEF Meets, Active, Logging
    <3>. QED BY <1>2, <1>5, <3>1
  <2>2. call'[u] = call[u] /\ \A v \in Threads : call'[v].now = call[v].now
    BY <1>1
  <2>. QED BY <1>1, <1>3, <1>4, <2>1, <2>2 DEF Meets
<1>. QED BY <1>6, <1>7 DEF StampsIInv

LEMMA StrftimeStamps ==
  ASSUME ProviderTypeOK, StampsIInv, NEW t \in Threads, Strftime(t)
  PROVE  StampsIInv'
<1>1. /\ call'[t].at \in {"strftime", "stamped"} /\ call'[t].now = call[t].now
      /\ call[t].at = "strftime" /\ UNCHANGED <<tm, times>>
      /\ \A u \in Threads \ {t} : call'[u] = call[u]
  BY StrftimeStamp DEF Strftime
<1>2. PICK time \in tm : call'[t].stamp = call[t].stamp \cup {time}
  BY StrftimeStamp
<1>3. Meets(t) /\ tm \subseteq times[t]
  BY <1>1 DEF StampsIInv, Meets
<1>4. call'[t].stamp \subseteq times[t]
  BY <1>2, <1>3 DEF Meets
<1>5. \A u \in Threads : Active(u)' <=> Active(u)
  BY <1>1 DEF Active, Logging
<1>6. \A u \in Threads : call'[u].now = call[u].now
  BY <1>1
<1>7. Meets(t)'
  BY <1>1, <1>3, <1>4, <1>5, <1>6 DEF Meets
<1>8. ASSUME NEW u \in Threads \ {t} PROVE Meets(u)'
  BY <1>1, <1>5, <1>6 DEF StampsIInv, Meets
<1>. QED BY <1>7, <1>8 DEF StampsIInv

LEMMA NextStamps ==
  ProviderTypeOK /\ StampsIInv /\ [ProviderNext]_pvars => StampsIInv'
<1> SUFFICES ASSUME ProviderTypeOK, StampsIInv, [ProviderNext]_pvars PROVE StampsIInv'
  OBVIOUS
<1>1. CASE UNCHANGED <<tm, call, times>>
  BY <1>1 DEF StampsIInv, Meets, Active
<1>2. CASE ProviderNext /\ ~Tick
  BY <1>2, CallStamps, ExecStamps, ReadClockStamps, LocalTimeStamps, StrftimeStamps,
     WriteStamps DEF ProviderNext
<1>. QED BY <1>1, <1>2 DEF pvars, Tick

\* Each field of a log line's stamp is that of a time read by a call that logged at the
\* same time, for any number of threads in Logger::log.
THEOREM StampsOverlap == ProviderSpec => []StampOverlaps
<1>1. StampsIInv => StampOverlaps
  BY DEF StampsIInv, Meets, StampOverlaps
<1>. QED BY <1>1, InitStamps, NextStamps, ProviderTypeCorrect, PTL DEF ProviderSpec
=============================================================================
