--------------------------- MODULE StreamsProofs ---------------------------
(***************************************************************************)
(* The invariants of Streams for any sizes, any room in the kernel, any number  *)
(* of calls and any maxIterations.                                          *)
(***************************************************************************)
EXTENDS Streams, SequenceTheorems, TLAPS

Cells == Bytes \cup {Junk}

\* What a Send in progress has left behind: its bytes end the stream, or none of them
\* is in it.
SenderIInv ==
  /\ out = 0 => sent = 0
  /\ out # 0 => sent < out /\ Len(accepted) > 0 /\ accepted[Len(accepted)] = 0
  /\ out # 0 /\ sent = 0 => \A i \in 1 .. Len(stream) : stream[i][1] < Len(accepted)
  /\ sent > 0 => Len(stream) > 0 /\ stream[Len(stream)] = <<Len(accepted), sent>>
  /\ \A i \in 1 .. Len(stream) : stream[i][1] <= Len(accepted)

\* The bytes taken from the stream are those returned, those in the buffer, and one for
\* every slip; only a Receive with bReadFully is ever in its second turn.
ReceiverIInv ==
  /\ size # 0 => total < size
  /\ total >= 0
  /\ ~fully => total = 0
  /\ size = 0 => total = 0 /\ iterations = 0 /\ ~fully
  /\ size # 0 /\ kind = "CTCPSSLServer" => iterations < MaxIterations
  /\ Len(delivered) + total + slips = taken
  /\ kind \in TLS => slips = 0

\* Without a slip the bytes returned and those in the buffer continue each other.
ContentIInv ==
  slips = 0 =>
    /\ \A i \in 1 .. Len(delivered) : delivered[i] = stream[i]
    /\ \A i \in 1 .. total : buffer[i] = stream[Len(delivered) + i]

StreamsIInv ==
  StreamsTypeOK /\ SenderIInv /\ ReceiverIInv /\ ContentIInv /\ SendsWholeMessages

-----------------------------------------------------------------------------
(* The operators *)

LEMMA TabledSeq ==
  ASSUME NEW S, NEW n \in Nat, NEW f \in [1 .. n -> S]
  PROVE  f \in Seq(S) /\ Len(f) = n
<1>1. f \in Seq(S)
  BY SeqDef
<1>2. DOMAIN f = 1 .. Len(f) /\ Len(f) \in Nat
  BY <1>1, LenProperties
<1>3. 1 .. Len(f) = 1 .. n
  BY <1>2
<1>. QED
  BY <1>1, <1>2, <1>3

\* The bytes of a turn of Send are of its message, and follow those sent before.
LEMMA PieceProperties ==
  ASSUME StreamsTypeOK, SenderIInv, out # 0, NEW n \in 1 .. out
  PROVE  /\ Piece(n) \in Seq(Bytes) /\ Len(Piece(n)) = n
         /\ \A i \in 1 .. n : Piece(n)[i] = <<Len(accepted), sent + i>>
<1>1. Len(accepted) \in Nat \ {0} /\ sent \in Nat /\ n \in Nat
  BY LenProperties, StreamsAssumption DEF StreamsTypeOK, SenderIInv
<1>2. \A i \in 1 .. n : <<Len(accepted), sent + i>> \in Bytes
  BY <1>1 DEF Bytes
<1>3. Piece(n) \in [1 .. n -> Bytes]
  BY <1>2 DEF Piece
<1>. QED
  BY <1>1, <1>3, TabledSeq DEF Piece

LEMMA FilledProperties ==
  ASSUME StreamsTypeOK, ReceiverIInv, size # 0, NEW n \in 1 .. size,
         n <= size - total, n <= Len(stream) - taken
  PROVE  /\ Filled(n) \in Seq(Cells) /\ Len(Filled(n)) = size
         /\ \A i \in 1 .. total : Filled(n)[i] = buffer[i]
         /\ \A i \in total + 1 .. total + n : Filled(n)[i] = stream[taken + i - total]
<1>1. /\ size \in Nat /\ total \in Nat /\ taken \in Nat /\ total < size
      /\ Len(buffer) = size /\ Len(stream) \in Nat /\ n \in Nat
  BY StreamsAssumption, LenProperties DEF StreamsTypeOK, ReceiverIInv
<1>2. \A i \in 1 .. size : buffer[i] \in Cells
  BY <1>1, ElementOfSeq DEF StreamsTypeOK, Cells
<1>3. \A i \in 1 .. Len(stream) : stream[i] \in Cells
  BY ElementOfSeq DEF StreamsTypeOK, Cells
<1>4. Filled(n) \in [1 .. size -> Cells]
  <2>1. ASSUME NEW i \in 1 .. size
        PROVE  (IF i \in total + 1 .. total + n THEN stream[taken + i - total] ELSE buffer[i]) \in Cells
    <3>1. CASE i \in total + 1 .. total + n
      <4>1. taken + i - total \in 1 .. Len(stream)
        BY <1>1, <3>1
      <4>. QED
        BY <3>1, <4>1, <1>3
    <3>2. CASE i \notin total + 1 .. total + n
      BY <3>2, <1>2
    <3>. QED
      BY <3>1, <3>2
  <2>. QED
    BY <2>1 DEF Filled
<1>5. Filled(n) \in Seq(Cells) /\ Len(Filled(n)) = size
  BY <1>1, <1>4, TabledSeq
<1>. QED
  BY <1>1, <1>5 DEF Filled

\* A call that returns t appends the first t bytes of its buffer, none when t is
\* not positive.
LEMMA ReturnProperties ==
  ASSUME StreamsTypeOK, size # 0, NEW b \in Seq(Cells), Len(b) = size,
         NEW t \in -1 .. size, Return(b, t)
  PROVE  /\ delivered' \in Seq(Cells)
         /\ Len(delivered') = Len(delivered) + (IF t > 0 THEN t ELSE 0)
         /\ \A i \in 1 .. Len(delivered) : delivered'[i] = delivered[i]
         /\ \A i \in 1 .. t : delivered'[Len(delivered) + i] = b[i]
<1>1. size \in Nat /\ delivered \in Seq(Cells) /\ Len(delivered) \in Nat /\ t \in Int
  BY StreamsAssumption, LenProperties DEF StreamsTypeOK, Cells
<1>2. \A i \in 1 .. t : b[i] \in Cells
  BY <1>1, ElementOfSeq
<1>. DEFINE s == SubSeq(b, 1, t)
<1>3. /\ s \in Seq(Cells)
      /\ Len(s) = IF t > 0 THEN t ELSE 0
      /\ \A i \in 1 .. t : s[i] = b[i]
  <2>1. /\ SubSeq(b, 1, t) \in Seq(Cells)
        /\ Len(SubSeq(b, 1, t)) = IF 1 <= t THEN t - 1 + 1 ELSE 0
        /\ \A i \in 1 .. t - 1 + 1 : SubSeq(b, 1, t)[i] = b[1 + i - 1]
    BY <1>1, <1>2, SubSeqProperties
  <2>. QED
    BY <1>1, <2>1
<1>4. delivered' = delivered \o s
  BY DEF Return
<1>. HIDE DEF s
<1>5. /\ delivered \o s \in Seq(Cells)
      /\ Len(delivered \o s) = Len(delivered) + Len(s)
      /\ \A i \in 1 .. Len(delivered) + Len(s) :
           (delivered \o s)[i] = IF i <= Len(delivered) THEN delivered[i] ELSE s[i - Len(delivered)]
  BY <1>1, <1>3, ConcatProperties
<1>6. \A i \in 1 .. t : delivered'[Len(delivered) + i] = b[i]
  <2>. SUFFICES ASSUME NEW i \in 1 .. t
                PROVE  delivered'[Len(delivered) + i] = b[i]
    OBVIOUS
  <2>1. Len(s) = t /\ Len(delivered) + i \in 1 .. Len(delivered) + Len(s)
    BY <1>1, <1>3
  <2>2. ~(Len(delivered) + i <= Len(delivered)) /\ Len(delivered) + i - Len(delivered) = i
    BY <1>1
  <2>. QED
    BY <1>3, <1>4, <1>5, <2>1, <2>2
<1>. QED
  BY <1>1, <1>3, <1>4, <1>5, <1>6

-----------------------------------------------------------------------------
(* A turn of Receive *)

ReceiverTypeOK ==
  /\ size \in Sizes \cup {0} /\ fully \in BOOLEAN
  /\ buffer \in Seq(Cells) /\ Len(buffer) = size
  /\ total \in Int /\ iterations \in Nat /\ result \in Int
  /\ delivered \in Seq(Cells)

\* Whether the loop goes on or the call returns, with b in the buffer and t in total.
LEMMA TurnKeeps ==
  ASSUME StreamsAssumption, StreamsIInv, size # 0, NEW b \in Seq(Cells), Len(b) = size,
         NEW t \in -1 .. size,
         ~fully => t <= 0 \/ Return(b, t),
         Loop(b, t) \/ Return(b, t),
         taken' \in Nat, slips' \in Nat,
         Len(delivered) + (IF t > 0 THEN t ELSE 0) + slips' = taken',
         kind' = kind, stream' = stream, kind \in TLS => slips' = 0,
         slips' = 0 => slips = 0 /\ \A i \in 1 .. t : b[i] = stream[Len(delivered) + i]
  PROVE  ReceiverTypeOK' /\ ReceiverIInv' /\ ContentIInv'
<1>1. /\ size \in Nat /\ size \in Sizes /\ Len(delivered) \in Nat /\ iterations \in Nat
      /\ fully \in BOOLEAN /\ delivered \in Seq(Cells) /\ result \in Int /\ t \in Int
      /\ MaxIterations \in Nat
  BY LenProperties DEF StreamsAssumption, StreamsIInv, StreamsTypeOK, Cells
<1>2. CASE Return(b, t)
  <2>1. /\ delivered' \in Seq(Cells)
        /\ Len(delivered') = Len(delivered) + (IF t > 0 THEN t ELSE 0)
        /\ \A i \in 1 .. Len(delivered) : delivered'[i] = delivered[i]
        /\ \A i \in 1 .. t : delivered'[Len(delivered) + i] = b[i]
    BY <1>2, ReturnProperties DEF StreamsIInv
  <2>2. /\ size' = 0 /\ fully' = FALSE /\ buffer' = <<>> /\ total' = 0
        /\ iterations' = 0 /\ result' = t
    BY <1>2 DEF Return
  <2>3. ReceiverTypeOK'
    <3>1. <<>> \in Seq(Cells) /\ Len(<<>>) = 0
      BY EmptySeq
    <3>2. buffer' \in Seq(Cells)
      BY <2>2, <3>1
    <3>3. Len(buffer') = size'
      BY <2>2, <3>1
    <3>4. fully' \in BOOLEAN
      BY <2>2, Zenon
    <3>5. /\ size' \in Sizes \cup {0}
          /\ total' \in Int /\ iterations' \in Nat /\ result' \in Int
      BY <1>1, <2>2
    <3>. QED
      BY <2>1, <3>2, <3>3, <3>4, <3>5 DEF ReceiverTypeOK
  <2>4. ReceiverIInv'
    BY <1>1, <2>1, <2>2 DEF ReceiverIInv
  <2>5. ContentIInv'
    <3>. SUFFICES ASSUME slips' = 0, NEW i \in 1 .. Len(delivered')
                  PROVE  delivered'[i] = stream[i]
      BY <2>2 DEF ContentIInv
    <3>1. CASE i <= Len(delivered)
      BY <1>1, <2>1, <3>1 DEF StreamsIInv, ContentIInv
    <3>2. CASE ~(i <= Len(delivered))
      <4>1. i - Len(delivered) \in 1 .. t /\ i = Len(delivered) + (i - Len(delivered))
        BY <1>1, <2>1, <3>2
      <4>. QED
        BY <2>1, <4>1
    <3>. QED
      BY <3>1, <3>2
  <2>. QED
    BY <2>3, <2>4, <2>5
<1>3. CASE ~Return(b, t)
  <2>1. /\ fully /\ 0 <= t /\ t < size
        /\ kind = "CTCPSSLServer" => iterations + 1 < MaxIterations
        /\ buffer' = b /\ total' = t /\ iterations' = iterations + 1
        /\ UNCHANGED <<size, fully, result, delivered>>
    BY <1>3 DEF Loop, Below
  <2>2. ReceiverTypeOK'
    BY <1>1, <2>1 DEF ReceiverTypeOK
  <2>3. ReceiverIInv'
    BY <1>1, <2>1 DEF ReceiverIInv
  <2>4. ContentIInv'
    BY <2>1 DEF ContentIInv, StreamsIInv
  <2>. QED
    BY <2>2, <2>3, <2>4
<1>. QED
  BY <1>2, <1>3

LEMMA ReceiverTyped ==
  ASSUME StreamsIInv, ReceiverTypeOK', taken' \in 0 .. Len(stream), slips' \in Nat,
         ending' \in {"open", "closed", "reset"}, UNCHANGED <<kind, stream, timeouts, sender>>
  PROVE  StreamsTypeOK' /\ SenderIInv' /\ SendsWholeMessages'
<1>1. UNCHANGED <<kind, stream, rcvTimed, sndTimed, out, sent, accepted>>
  BY DEF timeouts, sender
<1>2. StreamsTypeOK'
  BY <1>1 DEF StreamsIInv, StreamsTypeOK, ReceiverTypeOK, Cells
<1>3. SenderIInv'
  BY <1>1 DEF StreamsIInv, SenderIInv
<1>4. SendsWholeMessages'
  BY <1>1 DEF StreamsIInv, SendsWholeMessages
<1>. QED
  BY <1>2, <1>3, <1>4

LEMMA ReceiveTakesKeeps ==
  ASSUME StreamsAssumption, StreamsIInv, NEW n \in 1 .. size, ReceiveTakes(n)
  PROVE  StreamsIInv'
<1>1. /\ size # 0 /\ n <= size - total /\ n <= Len(stream) - taken
      /\ taken' = taken + n /\ Loop(Filled(n), total + n)
      /\ UNCHANGED <<kind, stream, ending, timeouts, sender, slips>>
  BY DEF ReceiveTakes
<1>2. /\ size \in Nat /\ total \in Nat /\ taken \in Nat /\ taken <= Len(stream)
      /\ Len(stream) \in Nat /\ n \in Nat /\ n > 0 /\ slips \in Nat /\ Len(delivered) \in Nat
      /\ Len(delivered) + total + slips = taken
      /\ ~fully => total = 0
      /\ ending \in {"open", "closed", "reset"}
  BY <1>1, LenProperties
     DEF StreamsAssumption, StreamsIInv, StreamsTypeOK, ReceiverIInv
<1>3. /\ Filled(n) \in Seq(Cells) /\ Len(Filled(n)) = size
      /\ \A i \in 1 .. total : Filled(n)[i] = buffer[i]
      /\ \A i \in total + 1 .. total + n : Filled(n)[i] = stream[taken + i - total]
  BY <1>1, FilledProperties DEF StreamsIInv
<1>4. total + n \in -1 .. size /\ total + n > 0
  BY <1>1, <1>2
<1>5. slips = 0 => \A i \in 1 .. total + n : Filled(n)[i] = stream[Len(delivered) + i]
  <2>. SUFFICES ASSUME slips = 0, NEW i \in 1 .. total + n
                PROVE  Filled(n)[i] = stream[Len(delivered) + i]
    OBVIOUS
  <2>1. CASE i <= total
    BY <1>2, <1>3, <2>1 DEF StreamsIInv, ContentIInv
  <2>2. CASE ~(i <= total)
    <3>1. i \in total + 1 .. total + n /\ taken + i - total = Len(delivered) + i
      BY <1>2, <2>2
    <3>. QED
      BY <1>3, <3>1
  <2>. QED
    BY <2>1, <2>2
<1>6. ~fully => Return(Filled(n), total + n)
  BY <1>1 DEF Loop
<1>7. ReceiverTypeOK' /\ ReceiverIInv' /\ ContentIInv'
  <2>1. kind \in TLS => slips' = 0
    BY <1>1 DEF StreamsIInv, ReceiverIInv
  <2>2. taken' \in Nat /\ slips' \in Nat /\ kind' = kind /\ stream' = stream
    BY <1>1, <1>2
  <2>3. Len(delivered) + (IF total + n > 0 THEN total + n ELSE 0) + slips' = taken'
    BY <1>1, <1>2, <1>4
  <2>4. slips' = 0 => slips = 0 /\ \A i \in 1 .. total + n : Filled(n)[i] = stream[Len(delivered) + i]
    BY <1>1, <1>5
  <2>. HIDE DEF StreamsIInv, Loop, Return, Filled
  <2>. QED
    BY <1>1, <1>3, <1>4, <1>6, <2>1, <2>2, <2>3, <2>4, TurnKeeps
<1>8. StreamsTypeOK' /\ SenderIInv' /\ SendsWholeMessages'
  BY <1>1, <1>2, <1>7, ReceiverTyped
<1>. QED
  BY <1>7, <1>8 DEF StreamsIInv

LEMMA ReceiveEndsKeeps ==
  ASSUME StreamsAssumption, StreamsIInv, ReceiveEnds
  PROVE  StreamsIInv'
<1>1. /\ size # 0 /\ Return(buffer, total)
      /\ UNCHANGED <<kind, stream, ending, timeouts, sender, taken, slips>>
  BY DEF ReceiveEnds
<1>2. /\ size \in Nat /\ total \in Nat /\ total < size /\ taken \in Nat /\ taken \in 0 .. Len(stream)
      /\ slips \in Nat /\ Len(delivered) \in Nat
      /\ Len(delivered) + total + slips = taken
      /\ buffer \in Seq(Cells) /\ Len(buffer) = size
      /\ ending \in {"open", "closed", "reset"} /\ (kind \in TLS => slips = 0)
  BY <1>1, LenProperties
     DEF StreamsAssumption, StreamsIInv, StreamsTypeOK, ReceiverIInv, Cells
<1>3. ReceiverTypeOK' /\ ReceiverIInv' /\ ContentIInv'
  <2>1. Len(delivered) + (IF total > 0 THEN total ELSE 0) + slips' = taken'
    BY <1>1, <1>2
  <2>2. total \in -1 .. size
    BY <1>2
  <2>3. slips' = 0 => slips = 0 /\ \A i \in 1 .. total : buffer[i] = stream[Len(delivered) + i]
    BY <1>1 DEF StreamsIInv, ContentIInv
  <2>. QED
    BY <1>1, <1>2, <2>1, <2>2, <2>3, TurnKeeps
<1>4. StreamsTypeOK' /\ SenderIInv' /\ SendsWholeMessages'
  BY <1>1, <1>2, <1>3, ReceiverTyped
<1>. QED
  BY <1>3, <1>4 DEF StreamsIInv

LEMMA ReceiveFailsKeeps ==
  ASSUME StreamsAssumption, StreamsIInv, ReceiveFails
  PROVE  StreamsIInv'
<1>1. /\ size # 0 /\ Failed
      /\ slips' = IF kind \in TCP /\ total > 0 THEN slips + 1 ELSE slips
      /\ UNCHANGED <<kind, stream, timeouts, sender, taken>>
  BY DEF ReceiveFails
<1>2. /\ size \in Nat /\ total \in Nat /\ total < size /\ taken \in Nat /\ taken \in 0 .. Len(stream)
      /\ slips \in Nat /\ Len(delivered) \in Nat
      /\ Len(delivered) + total + slips = taken
      /\ ~fully => total = 0
      /\ buffer \in Seq(Cells) /\ Len(buffer) = size
      /\ ending \in {"open", "closed", "reset"} /\ (kind \in TLS => slips = 0)
  BY <1>1, LenProperties
     DEF StreamsAssumption, StreamsIInv, StreamsTypeOK, ReceiverIInv, Cells
<1>3. ending' \in {"open", "closed", "reset"} /\ slips' \in Nat
  BY <1>1, <1>2 DEF ReceiveFails
<1>4. TCP \cap TLS = {}
  BY DEF TCP, TLS
<1>. DEFINE t == IF kind \in TCP THEN total - 1 ELSE total
<1>5. Loop(buffer, t) \/ Return(buffer, t)
  BY <1>1 DEF Failed
<1>6. t \in -1 .. size /\ (~fully => t <= 0)
  BY <1>2
<1>7. Len(delivered) + (IF t > 0 THEN t ELSE 0) + slips' = taken'
  <2>1. CASE kind \in TCP /\ total > 0
    <3>1. slips' = slips + 1 /\ taken' = taken
      BY <1>1, <2>1
    <3>2. t = total - 1
      BY <2>1
    <3>3. (IF t > 0 THEN t ELSE 0) = total - 1
      BY <1>2, <2>1
    <3>. HIDE DEF t
    <3>. QED
      BY <1>2, <3>1, <3>3
  <2>2. CASE ~(kind \in TCP /\ total > 0)
    <3>1. slips' = slips /\ taken' = taken
      BY <1>1, <2>2
    <3>2. (IF t > 0 THEN t ELSE 0) = total
      BY <1>2, <2>2
    <3>. HIDE DEF t
    <3>. QED
      BY <1>2, <3>1, <3>2
  <2>. QED
    BY <2>1, <2>2
<1>8. slips' = 0 => slips = 0 /\ \A i \in 1 .. t : buffer[i] = stream[Len(delivered) + i]
  <2>. SUFFICES ASSUME slips' = 0
                PROVE  slips = 0 /\ \A i \in 1 .. t : buffer[i] = stream[Len(delivered) + i]
    OBVIOUS
  <2>1. slips = 0 /\ t <= total
    BY <1>1, <1>2
  <2>2. \A i \in 1 .. total : buffer[i] = stream[Len(delivered) + i]
    BY <2>1 DEF StreamsIInv, ContentIInv
  <2>. QED
    BY <1>2, <1>6, <2>1, <2>2
<1>9. kind \in TLS => slips' = 0
  BY <1>1, <1>2, <1>4
<1>10. ReceiverTypeOK' /\ ReceiverIInv' /\ ContentIInv'
  <2>. HIDE DEF t
  <2>. QED
    BY <1>1, <1>2, <1>3, <1>5, <1>6, <1>7, <1>8, <1>9, TurnKeeps
<1>11. StreamsTypeOK' /\ SenderIInv' /\ SendsWholeMessages'
  BY <1>1, <1>2, <1>3, <1>10, ReceiverTyped
<1>. QED
  BY <1>10, <1>11 DEF StreamsIInv

-----------------------------------------------------------------------------
(* The sender's steps *)

LEMMA ReceiverUnchanged ==
  ASSUME StreamsIInv, UNCHANGED <<kind, receiver>>,
         Len(stream') \in Nat, Len(stream') >= Len(stream),
         \A i \in 1 .. Len(stream) : stream'[i] = stream[i]
  PROVE  ReceiverTypeOK' /\ ReceiverIInv' /\ ContentIInv' /\ slips' \in Nat
         /\ taken' \in 0 .. Len(stream')
<1>1. UNCHANGED <<kind, taken, size, fully, buffer, total, iterations, result, slips, delivered>>
  BY DEF receiver
<1>2. /\ ReceiverTypeOK /\ slips \in Nat /\ taken \in 0 .. Len(stream) /\ taken \in Nat
      /\ Len(stream) \in Nat /\ Len(delivered) \in Nat /\ total \in Nat
      /\ Len(delivered) + total + slips = taken
  BY LenProperties DEF StreamsIInv, StreamsTypeOK, ReceiverTypeOK, ReceiverIInv, Cells
<1>3. ReceiverTypeOK'
  BY <1>1, <1>2 DEF ReceiverTypeOK
<1>4. ReceiverIInv'
  BY <1>1 DEF StreamsIInv, ReceiverIInv
<1>5. ContentIInv'
  <2>. SUFFICES ASSUME slips = 0
                PROVE  /\ \A i \in 1 .. Len(delivered) : delivered[i] = stream'[i]
                       /\ \A i \in 1 .. total : buffer[i] = stream'[Len(delivered) + i]
    BY <1>1 DEF ContentIInv
  <2>1. /\ \A i \in 1 .. Len(delivered) : delivered[i] = stream[i]
        /\ \A i \in 1 .. total : buffer[i] = stream[Len(delivered) + i]
    BY DEF StreamsIInv, ContentIInv
  <2>2. \A i \in 1 .. Len(delivered) : i \in 1 .. Len(stream)
    BY <1>2
  <2>3. \A i \in 1 .. total : Len(delivered) + i \in 1 .. Len(stream)
    BY <1>2
  <2>. QED
    BY <2>1, <2>2, <2>3
<1>. QED
  BY <1>1, <1>2, <1>3, <1>4, <1>5

LEMMA SendKeeps ==
  ASSUME StreamsAssumption, StreamsIInv, NEW s \in Sizes, Send(s)
  PROVE  StreamsIInv'
<1>1. /\ out = 0 /\ out' = s /\ sent' = 0 /\ accepted' = Append(accepted, 0)
      /\ UNCHANGED <<kind, stream, ending, rcvTimed, sndTimed, receiver>>
  BY DEF Send, timeouts
<1>2. /\ accepted \in Seq(Sizes \cup {0}) /\ Len(accepted) \in Nat /\ s \in Nat \ {0}
      /\ Len(stream) \in Nat /\ stream \in Seq(Bytes)
  BY LenProperties DEF StreamsAssumption, StreamsIInv, StreamsTypeOK
<1>3. /\ accepted' \in Seq(Sizes \cup {0}) /\ Len(accepted') = Len(accepted) + 1
      /\ \A n \in 1 .. Len(accepted) : accepted'[n] = accepted[n]
      /\ accepted'[Len(accepted')] = 0
  BY <1>1, <1>2
<1>4. \A i \in 1 .. Len(stream) : /\ stream[i][1] \in Nat \ {0}
                                 /\ stream[i][1] <= Len(accepted)
  BY <1>2, ElementOfSeq DEF StreamsIInv, SenderIInv, Bytes
<1>5. /\ ReceiverTypeOK' /\ ReceiverIInv' /\ ContentIInv' /\ slips' \in Nat
      /\ taken' \in 0 .. Len(stream')
  BY <1>1, <1>2, ReceiverUnchanged
<1>6. StreamsTypeOK'
  BY <1>1, <1>2, <1>3, <1>5 DEF StreamsIInv, StreamsTypeOK, ReceiverTypeOK, Cells
<1>7. SenderIInv'
  BY <1>1, <1>2, <1>3, <1>4 DEF SenderIInv
<1>8. SendsWholeMessages'
  <2>1. ASSUME NEW i \in 1 .. Len(stream)
        PROVE  LET n == stream[i][1] k == stream[i][2] IN
                 IF k = 1 THEN i > 1 => /\ stream[i - 1][1] < n
                                        /\ kind \in TLS => accepted'[stream[i - 1][1]] # 0
                          ELSE i > 1 /\ stream[i - 1] = <<n, k - 1>>
    <3>1. i > 1 => stream[i - 1][1] \in 1 .. Len(accepted)
      BY <1>2, <1>4
    <3>. QED
      BY <1>3, <3>1 DEF StreamsIInv, SendsWholeMessages
  <2>2. ASSUME NEW n \in 1 .. Len(accepted'), accepted'[n] # 0
        PROVE  \E i \in 1 .. Len(stream) : stream[i] = <<n, accepted'[n]>>
    <3>1. n \in 1 .. Len(accepted) /\ accepted'[n] = accepted[n]
      BY <1>2, <1>3, <2>2
    <3>. QED
      BY <2>2, <3>1 DEF StreamsIInv, SendsWholeMessages
  <2>. QED
    BY <1>1, <2>1, <2>2 DEF SendsWholeMessages
<1>. QED
  BY <1>5, <1>6, <1>7, <1>8 DEF StreamsIInv

\* The sender's variables after a turn of Send that has taken n bytes.
LEMMA SendTakesSender ==
  ASSUME StreamsAssumption, StreamsIInv, NEW n \in 1 .. out, SendTakes(n)
  PROVE  /\ stream' \in Seq(Bytes) /\ Len(stream') = Len(stream) + n
         /\ \A i \in 1 .. Len(stream) : stream'[i] = stream[i]
         /\ \A i \in 1 .. n : stream'[Len(stream) + i] = <<Len(accepted), sent + i>>
         /\ accepted' \in Seq(Sizes \cup {0}) /\ Len(accepted') = Len(accepted)
         /\ \A m \in 1 .. Len(accepted) - 1 : accepted'[m] = accepted[m]
         /\ \/ /\ sent + n < out /\ sent' = sent + n /\ out' = out
               /\ accepted'[Len(accepted)] = 0
            \/ /\ sent + n = out /\ sent' = 0 /\ out' = 0
               /\ accepted'[Len(accepted)] = out
<1>1. /\ out # 0 /\ n <= out - sent /\ stream' = stream \o Piece(n)
      /\ IF sent + n < out
         THEN sent' = sent + n /\ out' = out /\ accepted' = accepted
         ELSE /\ out' = 0 /\ sent' = 0
              /\ accepted' = [accepted EXCEPT ![Len(accepted)] = out]
  BY DEF SendTakes
<1>2. /\ stream \in Seq(Bytes) /\ Len(stream) \in Nat
      /\ accepted \in Seq(Sizes \cup {0}) /\ Len(accepted) \in Nat \ {0}
      /\ accepted[Len(accepted)] = 0
      /\ out \in Sizes /\ out \in Nat /\ sent \in Nat /\ n \in Nat
  BY <1>1, LenProperties DEF StreamsAssumption, StreamsIInv, StreamsTypeOK, SenderIInv
<1>3. /\ Piece(n) \in Seq(Bytes) /\ Len(Piece(n)) = n
      /\ \A i \in 1 .. n : Piece(n)[i] = <<Len(accepted), sent + i>>
  BY <1>1, PieceProperties DEF StreamsIInv
<1>. DEFINE p == Piece(n)
<1>4. /\ stream \o p \in Seq(Bytes) /\ Len(stream \o p) = Len(stream) + n
      /\ \A i \in 1 .. Len(stream) + n :
           (stream \o p)[i] = IF i <= Len(stream) THEN stream[i] ELSE p[i - Len(stream)]
  BY <1>2, <1>3, ConcatProperties
<1>5. \A i \in 1 .. Len(stream) : stream'[i] = stream[i]
  BY <1>1, <1>2, <1>4
<1>6. \A i \in 1 .. n : stream'[Len(stream) + i] = <<Len(accepted), sent + i>>
  <2>. SUFFICES ASSUME NEW i \in 1 .. n
                PROVE  stream'[Len(stream) + i] = <<Len(accepted), sent + i>>
    OBVIOUS
  <2>1. /\ Len(stream) + i \in 1 .. Len(stream) + n /\ ~(Len(stream) + i <= Len(stream))
        /\ Len(stream) + i - Len(stream) = i
    BY <1>2
  <2>2. stream'[Len(stream) + i] = p[i]
    BY <1>1, <1>4, <2>1
  <2>. QED
    BY <1>3, <2>2
<1>7. CASE sent + n < out
  BY <1>1, <1>2, <1>4, <1>5, <1>6, <1>7
<1>8. CASE ~(sent + n < out)
  <2>1. sent + n = out
    BY <1>1, <1>2, <1>8
  <2>2. accepted' = [accepted EXCEPT ![Len(accepted)] = out] /\ out' = 0 /\ sent' = 0
    BY <1>1, <1>8
  <2>3. /\ accepted' \in Seq(Sizes \cup {0}) /\ Len(accepted') = Len(accepted)
        /\ \A m \in 1 .. Len(accepted) : accepted'[m] = IF m = Len(accepted) THEN out ELSE accepted[m]
    BY <1>2, <2>2, ExceptSeq
  <2>4. /\ accepted'[Len(accepted)] = out
        /\ \A m \in 1 .. Len(accepted) - 1 : accepted'[m] = accepted[m]
    BY <1>2, <2>3
  <2>. QED
    BY <1>1, <1>4, <1>5, <1>6, <2>1, <2>2, <2>3, <2>4
<1>. QED
  BY <1>7, <1>8

LEMMA SendTakesKeeps ==
  ASSUME StreamsAssumption, StreamsIInv, NEW n \in 1 .. out, SendTakes(n)
  PROVE  StreamsIInv'
<1>. DEFINE L == Len(stream)
            A == Len(accepted)
<1>1. /\ stream' \in Seq(Bytes) /\ Len(stream') = L + n
      /\ \A i \in 1 .. L : stream'[i] = stream[i]
      /\ \A i \in 1 .. n : stream'[L + i] = <<A, sent + i>>
      /\ accepted' \in Seq(Sizes \cup {0}) /\ Len(accepted') = A
      /\ \A m \in 1 .. A - 1 : accepted'[m] = accepted[m]
  BY SendTakesSender
<1>2. \/ sent + n < out /\ sent' = sent + n /\ out' = out /\ accepted'[A] = 0
      \/ sent + n = out /\ sent' = 0 /\ out' = 0 /\ accepted'[A] = out
  BY SendTakesSender
<1>3. /\ out # 0 /\ ~Stuck /\ UNCHANGED <<kind, ending, rcvTimed, sndTimed, receiver>>
  BY DEF SendTakes, timeouts
<1>4. /\ stream \in Seq(Bytes) /\ L \in Nat
      /\ A \in Nat /\ A > 0 /\ accepted[A] = 0 /\ sent < out
  BY <1>3, LenProperties DEF StreamsIInv, StreamsTypeOK, SenderIInv
<1>5. out \in Sizes /\ out \in Nat \ {0} /\ sent \in Nat /\ n \in Nat \ {0}
  BY <1>3 DEF StreamsAssumption, StreamsIInv, StreamsTypeOK
<1>6. /\ \A i \in 1 .. L : stream[i][1] \in Nat \ {0} /\ stream[i][1] <= A
      /\ sent = 0 => \A i \in 1 .. L : stream[i][1] < A
      /\ sent > 0 => L > 0 /\ stream[L] = <<A, sent>>
  <2>1. \A i \in 1 .. L : stream[i] \in Bytes
    BY <1>4, ElementOfSeq
  <2>. QED
    BY <1>3, <2>1 DEF StreamsIInv, SenderIInv, Bytes
<1>7. \A i \in 1 .. L :
        IF stream[i][2] = 1
        THEN i > 1 => /\ stream[i - 1][1] < stream[i][1]
                      /\ kind \in TLS => accepted[stream[i - 1][1]] # 0
        ELSE i > 1 /\ stream[i - 1] = <<stream[i][1], stream[i][2] - 1>>
  BY DEF StreamsIInv, SendsWholeMessages
<1>8. /\ ReceiverTypeOK' /\ ReceiverIInv' /\ ContentIInv' /\ slips' \in Nat
      /\ taken' \in 0 .. Len(stream')
  BY <1>1, <1>3, <1>4, <1>5, ReceiverUnchanged
<1>9. StreamsTypeOK'
  <2>1. out' \in Sizes \cup {0} /\ sent' \in Nat
    BY <1>2, <1>5
  <2>. QED
    BY <1>1, <1>3, <1>8, <2>1 DEF StreamsIInv, StreamsTypeOK, ReceiverTypeOK, Cells
<1>10. /\ \A i \in 1 .. L + n : stream'[i][1] \in Nat \ {0} /\ stream'[i][1] <= A
       /\ \A i \in 1 .. L + n :
            IF stream'[i][2] = 1 THEN i > 1 => stream'[i - 1][1] < stream'[i][1]
            ELSE i > 1 /\ stream'[i - 1] = <<stream'[i][1], stream'[i][2] - 1>>
  <2>. HIDE DEF L, A
  <2>1. ASSUME NEW i \in 1 .. L + n, i \notin 1 .. L
        PROVE  i - L \in 1 .. n /\ stream'[i] = <<A, sent + (i - L)>>
    <3>1. i - L \in 1 .. n /\ L + (i - L) = i
      BY <1>4, <1>5, <2>1
    <3>. QED
      BY <1>1, <3>1
  <2>2. ASSUME NEW i \in 1 .. L + n
        PROVE  stream'[i][1] \in Nat \ {0} /\ stream'[i][1] <= A
    <3>1. CASE i \in 1 .. L
      BY <1>1, <1>6, <3>1
    <3>2. CASE i \notin 1 .. L
      BY <1>4, <2>1, <3>2
    <3>. QED
      BY <3>1, <3>2
  <2>3. ASSUME NEW i \in 1 .. L + n
        PROVE  IF stream'[i][2] = 1 THEN i > 1 => stream'[i - 1][1] < stream'[i][1]
               ELSE i > 1 /\ stream'[i - 1] = <<stream'[i][1], stream'[i][2] - 1>>
    <3>1. CASE i \in 1 .. L
      <4>1. i > 1 => i - 1 \in 1 .. L
        BY <1>4, <3>1
      <4>2. stream'[i] = stream[i] /\ (i > 1 => stream'[i - 1] = stream[i - 1])
        BY <1>1, <3>1, <4>1
      <4>3. IF stream[i][2] = 1 THEN i > 1 => stream[i - 1][1] < stream[i][1]
            ELSE i > 1 /\ stream[i - 1] = <<stream[i][1], stream[i][2] - 1>>
        BY <1>7, <3>1
      <4>. QED
        BY <4>2, <4>3
    <3>2. CASE i = L + 1 /\ sent = 0
      <4>1. stream'[i] = <<A, 1>>
        BY <1>1, <1>4, <1>5, <3>2
      <4>2. i > 1 => i - 1 \in 1 .. L
        BY <1>4, <3>2
      <4>3. i > 1 => stream'[i - 1][1] < A
        BY <1>1, <1>6, <3>2, <4>2
      <4>4. stream'[i][1] = A /\ stream'[i][2] = 1
        BY <4>1
      <4>. QED
        BY <1>4, <4>3, <4>4
    <3>3. CASE i = L + 1 /\ sent > 0
      <4>1. stream'[i] = <<A, sent + 1>>
        BY <1>1, <1>4, <1>5, <3>3
      <4>2. L \in 1 .. L /\ i - 1 = L /\ i > 1
        BY <1>4, <1>6, <3>3
      <4>3. stream'[i - 1] = <<A, sent>>
        BY <1>1, <1>6, <3>3, <4>2
      <4>4. sent + 1 # 1 /\ sent + 1 - 1 = sent
        BY <1>5, <3>3
      <4>5. stream'[i][1] = A /\ stream'[i][2] = sent + 1
        BY <4>1
      <4>6. stream'[i - 1] = <<stream'[i][1], stream'[i][2] - 1>> /\ stream'[i][2] # 1
        BY <1>4, <1>5, <4>3, <4>4, <4>5
      <4>. QED
        BY <4>2, <4>6, Zenon
    <3>4. CASE i > L + 1
      <4>1. i - 1 \in 1 .. L + n /\ i - 1 \notin 1 .. L /\ i \notin 1 .. L
        BY <1>4, <1>5, <3>4
      <4>2. stream'[i] = <<A, sent + (i - L)>> /\ stream'[i - 1] = <<A, sent + (i - 1 - L)>>
        BY <2>1, <4>1
      <4>3. i > 1 /\ sent + (i - L) # 1 /\ sent + (i - 1 - L) = sent + (i - L) - 1
        BY <1>4, <1>5, <3>4
      <4>4. stream'[i][1] = A /\ stream'[i][2] = sent + (i - L)
        BY <4>2
      <4>5. stream'[i - 1] = <<stream'[i][1], stream'[i][2] - 1>> /\ stream'[i][2] # 1
        BY <1>4, <1>5, <4>2, <4>3, <4>4
      <4>. QED
        BY <4>3, <4>5, Zenon
    <3>. QED
      BY <1>4, <1>5, <3>1, <3>2, <3>3, <3>4
  <2>. QED
    BY <2>2, <2>3
<1>11. stream'[L + n] = <<A, sent + n>> /\ L + n > 0
  <2>. HIDE DEF L, A
  <2>1. n \in 1 .. n /\ L + n > 0
    BY <1>4, <1>5
  <2>. QED
    BY <1>1, <2>1
<1>12. SenderIInv'
  <2>1. \A i \in 1 .. Len(stream') : stream'[i][1] <= Len(accepted')
    BY <1>1, <1>10
  <2>2. CASE sent' = sent + n /\ out' = out /\ sent + n < out /\ accepted'[A] = 0
    <3>1. sent' > 0 /\ out' # 0 /\ sent' < out' /\ Len(accepted') > 0 /\ accepted'[Len(accepted')] = 0
      BY <1>1, <1>3, <1>4, <1>5, <2>2
    <3>2. Len(stream') > 0 /\ stream'[Len(stream')] = <<Len(accepted'), sent'>>
      BY <1>1, <1>11, <2>2
    <3>. QED
      BY <1>5, <2>1, <3>1, <3>2, <2>2 DEF SenderIInv
  <2>3. CASE sent' = 0 /\ out' = 0
    BY <2>1, <2>3 DEF SenderIInv
  <2>. QED
    BY <1>2, <2>2, <2>3
<1>13. SendsWholeMessages'
  <2>. HIDE DEF L, A
  <2>1. ASSUME NEW i \in 1 .. L + n, stream'[i][2] = 1, i > 1, kind \in TLS
        PROVE  accepted'[stream'[i - 1][1]] # 0
    <3>1. i - 1 \in 1 .. L + n
      BY <1>4, <1>5, <2>1
    <3>2. stream'[i - 1][1] \in 1 .. A - 1
      <4>1. stream'[i - 1][1] < stream'[i][1]
        BY <1>10, <2>1
      <4>2. /\ stream'[i - 1][1] \in Nat \ {0}
            /\ stream'[i][1] \in Nat \ {0} /\ stream'[i][1] <= A
        BY <1>10, <3>1
      <4>. QED
        BY <1>4, <4>1, <4>2
    <3>3. \A m \in 1 .. A - 1 : accepted[m] # 0
      BY <1>3, <2>1 DEF Stuck, A
    <3>. QED
      BY <1>1, <3>2, <3>3
  <2>2. ASSUME NEW m \in 1 .. A, accepted'[m] # 0
        PROVE  \E i \in 1 .. L + n : stream'[i] = <<m, accepted'[m]>>
    <3>1. CASE m < A
      <4>1. m \in 1 .. A - 1 /\ accepted'[m] = accepted[m]
        BY <1>1, <1>4, <3>1
      <4>2. PICK i \in 1 .. L : stream[i] = <<m, accepted[m]>>
        BY <2>2, <4>1 DEF StreamsIInv, SendsWholeMessages, L, A
      <4>3. i \in 1 .. L + n /\ stream'[i] = stream[i]
        BY <1>1, <1>4, <1>5
      <4>. QED
        BY <4>1, <4>2, <4>3
    <3>2. CASE m = A
      <4>1. sent + n = out /\ accepted'[m] = out
        BY <1>2, <2>2, <3>2
      <4>2. L + n \in 1 .. L + n
        BY <1>4, <1>5
      <4>. QED
        BY <1>11, <3>2, <4>1, <4>2
    <3>. QED
      BY <1>4, <3>1, <3>2
  <2>3. \A i \in 1 .. Len(stream') :
          IF stream'[i][2] = 1
          THEN i > 1 => /\ stream'[i - 1][1] < stream'[i][1]
                        /\ kind' \in TLS => accepted'[stream'[i - 1][1]] # 0
          ELSE i > 1 /\ stream'[i - 1] = <<stream'[i][1], stream'[i][2] - 1>>
    BY <1>1, <1>3, <1>10, <2>1
  <2>4. \A m \in 1 .. Len(accepted') :
          accepted'[m] # 0 => \E i \in 1 .. Len(stream') : stream'[i] = <<m, accepted'[m]>>
    BY <1>1, <2>2
  <2>. QED
    BY <2>3, <2>4 DEF SendsWholeMessages
<1>. QED
  BY <1>8, <1>9, <1>12, <1>13 DEF StreamsIInv

LEMMA SendFailsKeeps ==
  ASSUME StreamsAssumption, StreamsIInv, SendFails
  PROVE  StreamsIInv'
<1>1. /\ out' = 0 /\ sent' = 0
      /\ UNCHANGED <<kind, stream, ending, rcvTimed, sndTimed, accepted, receiver>>
  BY DEF SendFails, timeouts
<1>2. Len(stream) \in Nat
  BY LenProperties DEF StreamsIInv, StreamsTypeOK
<1>3. /\ ReceiverTypeOK' /\ ReceiverIInv' /\ ContentIInv' /\ slips' \in Nat
      /\ taken' \in 0 .. Len(stream')
  BY <1>1, <1>2, ReceiverUnchanged
<1>4. StreamsTypeOK'
  BY <1>1, <1>3 DEF StreamsIInv, StreamsTypeOK, ReceiverTypeOK, Cells
<1>5. SenderIInv'
  BY <1>1 DEF StreamsIInv, SenderIInv
<1>6. SendsWholeMessages'
  BY <1>1 DEF StreamsIInv, SendsWholeMessages
<1>. QED
  BY <1>3, <1>4, <1>5, <1>6 DEF StreamsIInv

\* The steps that touch neither the bytes nor the calls.
LEMMA SurroundingsKeep ==
  ASSUME StreamsAssumption, StreamsIInv, End \/ SetRcvTimeout \/ SetSndTimeout
  PROVE  StreamsIInv'
<1>1. /\ ending' \in {"open", "closed", "reset"} /\ rcvTimed' \in BOOLEAN /\ sndTimed' \in BOOLEAN
      /\ UNCHANGED <<kind, stream, out, sent, accepted, receiver>>
  BY DEF End, SetRcvTimeout, SetSndTimeout, Timeouts, ClientTimeouts, ServerTimeouts, timeouts, sender,
         StreamsIInv, StreamsTypeOK
<1>2. Len(stream) \in Nat
  BY LenProperties DEF StreamsIInv, StreamsTypeOK
<1>3. /\ ReceiverTypeOK' /\ ReceiverIInv' /\ ContentIInv' /\ slips' \in Nat
      /\ taken' \in 0 .. Len(stream')
  BY <1>1, <1>2, ReceiverUnchanged
<1>4. StreamsTypeOK'
  BY <1>1, <1>3 DEF StreamsIInv, StreamsTypeOK, ReceiverTypeOK, Cells
<1>5. SenderIInv'
  BY <1>1 DEF StreamsIInv, SenderIInv
<1>6. SendsWholeMessages'
  BY <1>1 DEF StreamsIInv, SendsWholeMessages
<1>. QED
  BY <1>3, <1>4, <1>5, <1>6 DEF StreamsIInv

LEMMA ReceiveKeeps ==
  ASSUME StreamsAssumption, StreamsIInv, NEW s \in Sizes, NEW f \in BOOLEAN, Receive(s, f)
  PROVE  StreamsIInv'
<1>1. /\ size = 0 /\ size' = s /\ fully' = f /\ buffer' = [i \in 1 .. s |-> Junk]
      /\ UNCHANGED <<kind, stream, ending, timeouts, sender,
                     taken, total, iterations, result, slips, delivered>>
  BY DEF Receive
<1>2. s \in Nat \ {0} /\ MaxIterations \in Nat \ {0}
  BY DEF StreamsAssumption
<1>3. buffer' \in Seq(Cells) /\ Len(buffer') = s
  <2>1. buffer' \in [1 .. s -> Cells]
    BY <1>1 DEF Cells
  <2>. QED
    BY <1>2, <2>1, TabledSeq
<1>4. /\ ReceiverTypeOK /\ taken \in 0 .. Len(stream) /\ slips \in Nat
      /\ ending \in {"open", "closed", "reset"} /\ total = 0 /\ iterations = 0
  BY <1>1 DEF StreamsIInv, StreamsTypeOK, ReceiverTypeOK, ReceiverIInv, Cells
<1>5. ReceiverTypeOK'
  BY <1>1, <1>3, <1>4 DEF ReceiverTypeOK
<1>6. ReceiverIInv'
  BY <1>1, <1>2, <1>4 DEF StreamsIInv, ReceiverIInv
<1>7. ContentIInv'
  BY <1>1, <1>4 DEF StreamsIInv, ContentIInv
<1>8. StreamsTypeOK' /\ SenderIInv' /\ SendsWholeMessages'
  BY <1>1, <1>4, <1>5, ReceiverTyped
<1>. QED
  BY <1>6, <1>7, <1>8 DEF StreamsIInv

-----------------------------------------------------------------------------
(* The invariant *)

LEMMA StreamsStart == StreamsAssumption /\ StreamsInit => StreamsIInv
<1>. SUFFICES ASSUME StreamsAssumption, StreamsInit PROVE StreamsIInv
  OBVIOUS
<1>1. /\ <<>> \in Seq(Bytes) /\ <<>> \in Seq(Cells) /\ <<>> \in Seq(Sizes \cup {0})
      /\ Len(<<>>) = 0
  BY EmptySeq
<1>2. /\ stream = <<>> /\ accepted = <<>> /\ buffer = <<>> /\ delivered = <<>>
      /\ taken = 0 /\ out = 0 /\ sent = 0 /\ size = 0 /\ total = 0
      /\ iterations = 0 /\ result = 0 /\ slips = 0 /\ kind \in Kinds /\ ending = "open"
  BY DEF StreamsInit
<1>3. fully = FALSE /\ rcvTimed = FALSE /\ sndTimed = FALSE
  BY DEF StreamsInit
<1>4. fully \in BOOLEAN /\ rcvTimed \in BOOLEAN /\ sndTimed \in BOOLEAN
  BY <1>3, Zenon
<1>5. StreamsTypeOK
  BY <1>1, <1>2, <1>4 DEF StreamsTypeOK, Cells
<1>6. MaxIterations > 0
  BY DEF StreamsAssumption
<1>7. SenderIInv /\ ReceiverIInv /\ ContentIInv /\ SendsWholeMessages
  BY <1>1, <1>2, <1>3, <1>6
     DEF SenderIInv, ReceiverIInv, ContentIInv, SendsWholeMessages
<1>. QED
  BY <1>5, <1>7 DEF StreamsIInv

LEMMA StreamsStutters ==
  ASSUME StreamsIInv, UNCHANGED svars
  PROVE  StreamsIInv'
<1>1. UNCHANGED <<kind, stream, ending, rcvTimed, sndTimed, out, sent, accepted, taken, size, fully,
                  buffer, total, iterations, result, slips, delivered>>
  BY DEF svars, timeouts, sender, receiver
<1>2. StreamsTypeOK'
  BY <1>1 DEF StreamsIInv, StreamsTypeOK
<1>3. SenderIInv' /\ ReceiverIInv'
  BY <1>1 DEF StreamsIInv, SenderIInv, ReceiverIInv
<1>4. ContentIInv' /\ SendsWholeMessages'
  BY <1>1 DEF StreamsIInv, ContentIInv, SendsWholeMessages
<1>. QED
  BY <1>2, <1>3, <1>4 DEF StreamsIInv

LEMMA StreamsStep ==
  ASSUME StreamsAssumption, StreamsIInv, [StreamsNext]_svars
  PROVE  StreamsIInv'
<1>1. CASE \E s \in Sizes : Send(s)
  BY <1>1, SendKeeps
<1>2. CASE \E s \in Sizes : \E f \in BOOLEAN : Receive(s, f)
  BY <1>2, ReceiveKeeps
<1>3. CASE SendStep
  BY <1>3, SendTakesKeeps, SendFailsKeeps DEF SendStep
<1>4. CASE End \/ SetRcvTimeout \/ SetSndTimeout
  BY <1>4, SurroundingsKeep
<1>5. CASE ReceiveStep
  BY <1>5, ReceiveTakesKeeps, ReceiveEndsKeeps, ReceiveFailsKeeps DEF ReceiveStep
<1>6. CASE UNCHANGED svars
  BY <1>6, StreamsStutters
<1>. QED
  BY <1>1, <1>2, <1>3, <1>4, <1>5, <1>6 DEF StreamsNext

\* The invariant the theorems below rest on.
THEOREM StreamsInvariant == StreamsSpec => []StreamsIInv
<1>1. StreamsInit => StreamsIInv
  BY StreamsStart, StreamsAssumption
<1>2. StreamsIInv /\ [StreamsNext]_svars => StreamsIInv'
  BY StreamsStep, StreamsAssumption
<1>. QED
  BY <1>1, <1>2, PTL DEF StreamsSpec

-----------------------------------------------------------------------------
(* The properties *)

\* Every variable keeps its type: in particular buffer is as long as the caller's.
THEOREM StreamsTypeCorrect == StreamsSpec => []StreamsTypeOK
<1>1. StreamsIInv => StreamsTypeOK
  BY DEF StreamsIInv
<1>. QED
  BY <1>1, StreamsInvariant, PTL

\* pData + total stays inside the buffer, for every size and however often recv fails.
THEOREM ReceiveStaysInBuffer == StreamsSpec => []WritesInBuffer
<1>1. StreamsIInv => WritesInBuffer
  BY StreamsAssumption DEF StreamsIInv, StreamsTypeOK, ReceiverIInv, WritesInBuffer
<1>. QED
  BY <1>1, StreamsInvariant, PTL

\* What has been returned is a prefix of the stream, as long as no recv failed in the
\* middle of a call.
THEOREM BytesInOrder == StreamsSpec => []DeliveredInOrder
<1>1. ASSUME StreamsIInv, kind \in TLS \/ slips = 0
      PROVE  delivered = SubSeq(stream, 1, IF size = 0 THEN taken ELSE Len(delivered))
  <2>1. slips = 0
    BY <1>1 DEF StreamsIInv, ReceiverIInv
  <2>2. /\ delivered \in Seq(Cells) /\ stream \in Seq(Cells)
        /\ total \in Nat /\ taken \in Nat /\ taken <= Len(stream)
    BY <1>1, LenProperties, SeqMonotonic
       DEF StreamsIInv, StreamsTypeOK, ReceiverIInv, Cells
  <2>3. Len(delivered) \in Nat /\ Len(stream) \in Nat
    BY <2>2, LenProperties
  <2>4. Len(delivered) + total = taken /\ (size = 0 => total = 0)
    BY <1>1, <2>1, <2>2, <2>3 DEF StreamsIInv, ReceiverIInv
  <2>5. (IF size = 0 THEN taken ELSE Len(delivered)) = Len(delivered)
    BY <2>2, <2>3, <2>4
  <2>6. \A i \in 1 .. Len(delivered) : i \in 1 .. Len(stream) /\ stream[i] \in Cells /\ delivered[i] = stream[i]
    BY <1>1, <2>1, <2>2, <2>3, <2>4, ElementOfSeq DEF StreamsIInv, ContentIInv
  <2>. DEFINE L == Len(delivered)
              s == SubSeq(stream, 1, L)
  <2>7. /\ s \in Seq(Cells) /\ Len(s) = L
        /\ \A i \in 1 .. L : s[i] = stream[i]
    <3>. HIDE DEF L
    <3>0. L \in Nat /\ \A i \in 1 .. L : stream[i] \in Cells
      BY <2>3, <2>6 DEF L
    <3>1. /\ SubSeq(stream, 1, L) \in Seq(Cells)
          /\ Len(SubSeq(stream, 1, L)) = IF 1 <= L THEN L - 1 + 1 ELSE 0
          /\ \A i \in 1 .. L - 1 + 1 : SubSeq(stream, 1, L)[i] = stream[1 + i - 1]
      BY <3>0, SubSeqProperties
    <3>. QED
      BY <3>0, <3>1
  <2>8. delivered = s
    <3>1. \A i \in 1 .. Len(delivered) : delivered[i] = s[i]
      BY <2>6, <2>7
    <3>. HIDE DEF s
    <3>. QED
      BY <2>2, <2>7, <3>1, SeqEqual
  <2>. QED
    BY <2>5, <2>8
<1>2. StreamsIInv => DeliveredInOrder
  BY <1>1 DEF DeliveredInOrder
<1>. QED
  BY <1>2, StreamsInvariant, PTL

\* A recv that fails in the middle of a call costs one byte, however often it happens.
THEOREM SlipsCostBytes == StreamsSpec => []EachSlipCostsOneByte
<1>1. StreamsIInv => EachSlipCostsOneByte
  <2>. SUFFICES ASSUME StreamsIInv, size = 0
                PROVE  Len(delivered) + slips = taken
    BY DEF EachSlipCostsOneByte
  <2>1. total = 0 /\ Len(delivered) + total + slips = taken /\ slips \in Nat /\ Len(delivered) \in Nat
    BY LenProperties DEF StreamsIInv, StreamsTypeOK, ReceiverIInv
  <2>. QED
    BY <2>1
<1>. QED
  BY <1>1, StreamsInvariant, PTL

\* The stream never mixes, repeats or reorders the bytes of two Sends.
THEOREM MessagesWhole == StreamsSpec => []SendsWholeMessages
<1>1. StreamsIInv => SendsWholeMessages
  BY DEF StreamsIInv
<1>. QED
  BY <1>1, StreamsInvariant, PTL

\* What a Receive returns tells why it returned.
THEOREM ResultsSayWhy == StreamsSpec => ResultSaysWhy
<1>. DEFINE Why == size # 0 /\ size' = 0 =>
      /\ result' = 0 => ending # "open" \/ (kind \in TLS /\ rcvTimed)
      /\ result' < 0 => kind \in TCP /\ (ending = "reset" \/ rcvTimed)
      /\ fully /\ result' < size =>
           \/ ending # "open" \/ rcvTimed
           \/ kind = "CTCPSSLServer" /\ iterations = MaxIterations - 1
<1>1. ASSUME StreamsIInv, StreamsNext, size # 0, size' = 0
      PROVE  Why
  <2>1. /\ size \in Nat /\ total \in Nat /\ total < size /\ iterations \in Nat
        /\ ~fully => total = 0
        /\ kind = "CTCPSSLServer" => iterations < MaxIterations
        /\ MaxIterations \in Nat /\ kind \in TCP \cup TLS
    BY <1>1, StreamsAssumption DEF StreamsIInv, StreamsTypeOK, ReceiverIInv
  <2>2. ReceiveStep
    BY <1>1, StreamsAssumption DEF StreamsNext, Send, Receive, SendStep, SendTakes, SendFails, End, SetRcvTimeout,
       SetSndTimeout, receiver
  <2>3. ASSUME NEW n \in 1 .. size, ReceiveTakes(n) PROVE Why
    <3>1. Return(Filled(n), total + n)
      BY <1>1, <2>3 DEF ReceiveTakes, Loop
    <3>2. result' = total + n /\ n \in Nat \ {0}
      BY <2>1, <3>1 DEF Return
    <3>3. fully /\ total + n < size => kind = "CTCPSSLServer" /\ ~(iterations + 1 < MaxIterations)
      <4>1. ~(fully /\ Below(total + n) /\ (kind = "CTCPSSLServer" => iterations + 1 < MaxIterations))
        BY <1>1, <2>3 DEF ReceiveTakes, Loop
      <4>2. total + n < size => Below(total + n)
        BY <2>1, <3>2 DEF Below
      <4>. QED
        BY <4>1, <4>2, Zenon
    <3>. QED
      BY <2>1, <3>2, <3>3
  <2>4. CASE ReceiveEnds
    BY <2>1, <2>4 DEF ReceiveEnds, Return
  <2>5. CASE ReceiveFails
    <3>1. ending = "reset" \/ (ending = "open" /\ rcvTimed)
      BY <2>5 DEF ReceiveFails
    <3>2. CASE kind \in TCP
      <4>1. Return(buffer, total - 1) /\ (fully => ~Below(total - 1) \/ kind = "CTCPSSLServer")
        BY <1>1, <2>5, <3>2 DEF ReceiveFails, Failed, Loop
      <4>2. result' = total - 1 /\ kind # "CTCPSSLServer"
        BY <3>2, <4>1 DEF Return, TCP
      <4>3. total = 0
        BY <2>1, <4>1, <4>2 DEF Below
      <4>. QED
        BY <2>1, <3>1, <3>2, <4>2, <4>3
    <3>3. CASE kind \notin TCP
      <4>1. result' = total /\ kind \in TLS
        BY <2>1, <2>5, <3>3 DEF ReceiveFails, Failed, Return
      <4>. QED
        BY <2>1, <3>1, <4>1
    <3>. QED
      BY <3>2, <3>3
  <2>. QED
    BY <2>2, <2>3, <2>4, <2>5 DEF ReceiveStep
<1>2. StreamsIInv /\ [StreamsNext]_svars => [Why]_svars
  BY <1>1
<1>. QED
  BY <1>2, StreamsInvariant, PTL DEF StreamsSpec, ResultSaysWhy

=============================================================================
