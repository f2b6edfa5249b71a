------------------------------ MODULE Streams ------------------------------
(***************************************************************************)
(* The loops of Send and Receive of CTCPServer, CTCPClient, CTCPSSLServer and   *)
(* CTCPSSLClient on one connection: the bytes of a sender on their way to a      *)
(* receiver, each at its own pace and in calls of its own.                       *)
(*                                                                         *)
(* One action per return of send, SSL_write, recv or SSL_read; how much of what    *)
(* was asked each of them does is the kernel's choice.  Byte k of the n-th Send     *)
(* is <<n, k>>.  That a write may end the process by SIGPIPE is left to System.     *)
(***************************************************************************)
EXTENDS Integers, Sequences

CONSTANTS
  Kinds,         \* the classes to look at
  Sizes,         \* uSize of a call
  Room,          \* bytes the kernel holds for the receiver before it stops the sender
  MaxSends,      \* bound on the calls of Send
  MaxIterations  \* maxIterations, 100

TCP == {"CTCPServer", "CTCPClient"}
TLS == {"CTCPSSLServer", "CTCPSSLClient"}

ASSUME StreamsAssumption ==
  /\ Kinds \subseteq TCP \cup TLS
  /\ Sizes \subseteq Nat \ {0}
  /\ Room \in Nat \ {0}
  /\ MaxSends \in Nat
  /\ MaxIterations \in Nat \ {0}

VARIABLES
  kind,       \* the class of both ends
  stream,     \* every byte the kernel has taken from the sender, in order
  taken,      \* how many of them it has given to the receiver
  ending,     \* "open", "closed" by the sender, or "reset": an error not yet reported
  rcvTimed,   \* SO_RCVTIMEO is in force
  sndTimed,   \* SO_SNDTIMEO is in force
  out,        \* the Send in progress: its uSize, 0 for none
  sent,       \* its total
  accepted,   \* history: accepted[n] is the uSize of the n-th Send if it returned true
  size,       \* the Receive in progress: its uSize, 0 for none
  fully,      \* its bReadFully
  buffer,     \* its pData
  total,      \* its total, an int
  iterations, \* its iterations
  result,     \* what the last Receive returned
  slips,      \* history: how often recv failed when its call had bytes already
  delivered   \* history: the bytes the Receives have returned, in order

sender   == <<out, sent, accepted>>
receiver == <<taken, size, fully, buffer, total, iterations, result, slips, delivered>>
timeouts == <<rcvTimed, sndTimed>>
svars    == <<kind, stream, ending, timeouts, sender, receiver>>

Bytes == (Nat \ {0}) \X (Nat \ {0})
Junk  == <<0, 0>>  \* what pData holds before it is written

StreamsTypeOK ==
  /\ kind \in Kinds
  /\ stream \in Seq(Bytes) /\ taken \in 0 .. Len(stream)
  /\ ending \in {"open", "closed", "reset"}
  /\ rcvTimed \in BOOLEAN /\ sndTimed \in BOOLEAN
  /\ out \in Sizes \cup {0} /\ sent \in Nat /\ accepted \in Seq(Sizes \cup {0})
  /\ size \in Sizes \cup {0} /\ fully \in BOOLEAN
  /\ buffer \in Seq(Bytes \cup {Junk}) /\ Len(buffer) = size
  /\ total \in Int /\ iterations \in Nat /\ result \in Int
  /\ slips \in Nat /\ delivered \in Seq(Bytes \cup {Junk})

StreamsInit ==
  /\ kind \in Kinds
  /\ stream = <<>> /\ taken = 0 /\ ending = "open"
  /\ rcvTimed = FALSE /\ sndTimed = FALSE
  /\ out = 0 /\ sent = 0 /\ accepted = <<>>
  /\ size = 0 /\ fully = FALSE /\ buffer = <<>>
  /\ total = 0 /\ iterations = 0 /\ result = 0
  /\ slips = 0 /\ delivered = <<>>

-----------------------------------------------------------------------------
(* Send *)

Send(s) ==
  /\ out = 0 /\ Len(accepted) < MaxSends /\ ending # "closed"
  /\ out' = s /\ sent' = 0
  /\ accepted' = Append(accepted, 0)
  /\ UNCHANGED <<kind, stream, ending, timeouts, receiver>>

\* Mutant of Piece: every turn of the loop starts at pData.
PieceAgain(n) == [i \in 1 .. n |-> <<Len(accepted), i>>]

\* The n bytes at pData + total.
Piece(n) == [i \in 1 .. n |-> <<Len(accepted), sent + i>>]

\* An SSL_write that has not been finished is not begun again with the same bytes, so
\* OpenSSL refuses every later one.
Stuck == kind \in TLS /\ \E n \in 1 .. Len(accepted) - 1 : accepted[n] = 0

\* send has taken n bytes; the loop ends with true when it has taken all.
SendTakes(n) ==
  /\ out # 0 /\ ending = "open" /\ ~Stuck
  /\ n <= out - sent /\ Len(stream) - taken + n <= Room
  /\ stream' = stream \o Piece(n)
  /\ IF sent + n < out
     THEN sent' = sent + n /\ UNCHANGED <<out, accepted>>
     ELSE /\ out' = 0 /\ sent' = 0
          /\ accepted' = [accepted EXCEPT ![Len(accepted)] = out]
  /\ UNCHANGED <<kind, ending, timeouts, receiver>>

\* send returns -1, SSL_write 0 or -1: the connection is reset, or the timeout has run
\* out.  Send returns false, whatever has gone before.
SendFails ==
  /\ out # 0
  /\ ending # "open" \/ sndTimed \/ Stuck
  /\ out' = 0 /\ sent' = 0
  /\ UNCHANGED <<kind, stream, ending, timeouts, accepted, receiver>>

SendStep == (\E n \in 1 .. out : SendTakes(n)) \/ SendFails

\* The sender closes between two calls; the connection breaks at any time.
End ==
  /\ ending = "open"
  /\ \/ ending' = "closed" /\ out = 0
     \/ ending' = "reset"
  /\ UNCHANGED <<kind, stream, timeouts, sender, receiver>>

\* With a time other than 0: the client's classes convert the milliseconds to a struct
\* timeval; the server's pass four bytes for one, and what lies behind them decides
\* whether there is a timeout.
ClientTimeouts == {TRUE}
ServerTimeouts == BOOLEAN
Timeouts == IF kind \in {"CTCPServer", "CTCPSSLServer"} THEN ServerTimeouts ELSE ClientTimeouts

SetRcvTimeout ==
  /\ size = 0
  /\ rcvTimed' \in Timeouts
  /\ UNCHANGED <<kind, stream, ending, sndTimed, sender, receiver>>

SetSndTimeout ==
  /\ out = 0
  /\ sndTimed' \in Timeouts
  /\ UNCHANGED <<kind, stream, ending, rcvTimed, sender, receiver>>

-----------------------------------------------------------------------------
(* Receive *)

Receive(s, f) ==
  /\ size = 0
  /\ size' = s /\ fully' = f
  /\ buffer' = [i \in 1 .. s |-> Junk]
  /\ UNCHANGED <<kind, stream, ending, timeouts, sender,
                 taken, total, iterations, result, slips, delivered>>

\* Mutant of Below: both are signed.
BelowSigned(t) == t < size

\* total < uSize compares an int with a size_t: a negative total is beyond every size.
Below(t) == 0 <= t /\ t < size

\* return t: the caller has as many bytes of its buffer as it is told.
Return(b, t) ==
  /\ result' = t
  /\ delivered' = delivered \o SubSeq(b, 1, t)
  /\ size' = 0 /\ fully' = FALSE /\ buffer' = <<>>
  /\ total' = 0 /\ iterations' = 0

\* The condition of the loop, or iterations at its maximum in CTCPSSLServer, after a
\* turn that has left b in the buffer and t in total.
Loop(b, t) ==
  IF /\ fully /\ Below(t)
     /\ kind = "CTCPSSLServer" => iterations + 1 < MaxIterations
  THEN /\ buffer' = b /\ total' = t
       /\ iterations' = iterations + 1
       /\ UNCHANGED <<size, fully, result, delivered>>
  ELSE Return(b, t)

\* Mutant of Filled: every turn of the loop writes at pData.
FilledAtStart(n) == [i \in 1 .. size |-> IF i \in 1 .. n THEN stream[taken + i] ELSE buffer[i]]

\* Mutant of Filled: the buffer becomes as long as what came.
FilledTo(n) == SubSeq(buffer, 1, total) \o SubSeq(stream, taken + 1, taken + n)

\* The n bytes that came, written at pData + total.
Filled(n) == [i \in 1 .. size |-> IF i \in total + 1 .. total + n
                                  THEN stream[taken + i - total] ELSE buffer[i]]

ReceiveTakes(n) ==
  /\ size # 0
  /\ n <= size - total /\ n <= Len(stream) - taken
  /\ taken' = taken + n
  /\ Loop(Filled(n), total + n)
  /\ UNCHANGED <<kind, stream, ending, timeouts, sender, slips>>

\* Mutant of ReceiveEnds: the loop is not left when recv returns 0.
ReceiveEndsNever ==
  /\ size # 0
  /\ taken = Len(stream) /\ ending = "closed"
  /\ IF fully /\ Below(total) THEN UNCHANGED <<size, fully, buffer, total, iterations, result, delivered>>
                             ELSE Return(buffer, total)
  /\ UNCHANGED <<kind, stream, ending, timeouts, sender, taken, slips>>

\* recv returns 0: there is nothing left and the sender has closed.
ReceiveEnds ==
  /\ size # 0
  /\ taken = Len(stream) /\ ending = "closed"
  /\ Return(buffer, total)
  /\ UNCHANGED <<kind, stream, ending, timeouts, sender, taken, slips>>

\* Mutants of Failed: TCP leaves its loop with the error, or with what it has.
FailedAtOnce == Return(buffer, IF kind \in TCP THEN -1 ELSE total)
FailedSilently == Return(buffer, total)

\* recv or SSL_read returns -1.  The classes of TCP add it to total and go on, those
\* of TLS leave the loop.
Failed == IF kind \in TCP THEN Loop(buffer, total - 1) ELSE Return(buffer, total)

\* A reset is reported once, after which the connection counts as closed; a timeout
\* whenever nothing comes.
ReceiveFails ==
  /\ size # 0
  /\ taken = Len(stream)
  /\ \/ ending = "reset" /\ ending' = "closed"
     \/ ending = "open" /\ rcvTimed /\ UNCHANGED ending
  /\ slips' = IF kind \in TCP /\ total > 0 THEN slips + 1 ELSE slips
  /\ Failed
  /\ UNCHANGED <<kind, stream, timeouts, sender, taken>>

ReceiveStep ==
  (\E n \in 1 .. size : ReceiveTakes(n)) \/ ReceiveEnds \/ ReceiveFails

StreamsNext ==
  \/ \E s \in Sizes : Send(s) \/ \E f \in BOOLEAN : Receive(s, f)
  \/ SendStep \/ End \/ SetRcvTimeout \/ SetSndTimeout \/ ReceiveStep

StreamsSpec == StreamsInit /\ [][StreamsNext]_svars

\* A thread runs when the call it waits in can return.
FairStreamsSpec == StreamsSpec /\ WF_svars(SendStep) /\ WF_svars(ReceiveStep)

-----------------------------------------------------------------------------
(* Properties *)

\* No turn of Receive writes outside the caller's buffer: pData + total is in it
\* although -1 is added to total (tcp_server.cpp:189, tcp_client.cpp:235), because the
\* loop compares total with an unsigned size.
WritesInBuffer == size # 0 => total \in 0 .. size - 1

\* What the Receives return, one after the other, is what was sent, without a gap or a
\* repetition, for TLS always and for TCP as long as no recv fails in the
\* middle of a call.
DeliveredInOrder ==
  kind \in TLS \/ slips = 0 =>
    delivered = SubSeq(stream, 1, IF size = 0 THEN taken ELSE Len(delivered))

\* A recv that fails after others of its call costs the caller one byte, which is not
\* returned or is overwritten by the next one; no other byte is lost or returned twice.
EachSlipCostsOneByte == size = 0 => Len(delivered) + slips = taken

\* The stream holds the bytes of the Sends in order: each from its first byte on, all of
\* them when Send has returned true, and for TLS nothing after a Send that returned false.
SendsWholeMessages ==
  /\ \A i \in 1 .. Len(stream) :
       LET n == stream[i][1] k == stream[i][2] IN
       IF k = 1 THEN i > 1 => /\ stream[i - 1][1] < n
                              /\ kind \in TLS => accepted[stream[i - 1][1]] # 0
                ELSE i > 1 /\ stream[i - 1] = <<n, k - 1>>
  /\ \A n \in 1 .. Len(accepted) :
       accepted[n] # 0 => \E i \in 1 .. Len(stream) : stream[i] = <<n, accepted[n]>>

\* "ret == 0 : connection closed, ret < 0 : recv failed" (tcp_server.cpp:171-174): so it
\* is for TCP, a failure after one byte included; the classes of TLS return 0 for a
\* timeout too.  A Receive with bReadFully returns less than it was asked for only when
\* the stream is at its end or recv has failed, or after MaxIterations in CTCPSSLServer.
ResultSaysWhy ==
  [][ size # 0 /\ size' = 0 =>
      /\ result' = 0 => ending # "open" \/ (kind \in TLS /\ rcvTimed)
      /\ result' < 0 => kind \in TCP /\ (ending = "reset" \/ rcvTimed)
      /\ fully /\ result' < size =>
           \/ ending # "open" \/ rcvTimed
           \/ kind = "CTCPSSLServer" /\ iterations = MaxIterations - 1
    ]_svars

\* A call returns when the other side is gone, and when its timeout is in force, whatever
\* the loop of Receive adds to total; but a Receive of TCP that reads fully only once the
\* sender has stopped.  Before that each timeout can take back the byte that came since
\* the last one (tcp_client.cpp:225-237, tcp_server.cpp:181-191): a byte for every timeout
\* would keep the call for ever, though MaxSends leaves no room for it here.
CallsReturn ==
  /\ size # 0 /\ (ending # "open" \/ (rcvTimed /\ (kind \in TLS \/ ~fully))) ~> size = 0
  /\ <>[](out = 0) => (size # 0 /\ rcvTimed ~> size = 0)
  /\ out # 0 /\ (ending # "open" \/ sndTimed) ~> out = 0
=============================================================================
