--------------------------- MODULE TlsLinkProofs ---------------------------
(***************************************************************************)
(* What the operators of TlsLink do to a well-typed link, for any two sets    *)
(* of messages: ToServer read by the end that accepted, ToClient by the end    *)
(* that connected.                                                           *)
(***************************************************************************)
EXTENDS TlsLink, TLAPS

LEMMA ServerReadTyped ==
  ASSUME NEW ToServer, NEW ToClient, NEW l \in LinkType(ToServer, ToClient),
         CanRead(l, "server")
  PROVE  /\ Head(l.in["server"]) \in ToServer
         /\ AfterRead(l, "server") \in LinkType(ToServer, ToClient)
<1>1. l.in["server"] \in Seq(ToServer) /\ l.in["server"] # <<>>
  BY DEF LinkType, CanRead
<1>2. Head(l.in["server"]) \in ToServer /\ Tail(l.in["server"]) \in Seq(ToServer)
  BY <1>1
<1>. QED
  BY <1>2 DEF LinkType, AfterRead

LEMMA ClientReadTyped ==
  ASSUME NEW ToServer, NEW ToClient, NEW l \in LinkType(ToServer, ToClient),
         CanRead(l, "client")
  PROVE  /\ Head(l.in["client"]) \in ToClient
         /\ AfterRead(l, "client") \in LinkType(ToServer, ToClient)
<1>1. l.in["client"] \in Seq(ToClient) /\ l.in["client"] # <<>>
  BY DEF LinkType, CanRead
<1>2. Head(l.in["client"]) \in ToClient /\ Tail(l.in["client"]) \in Seq(ToClient)
  BY <1>1
<1>. QED
  BY <1>2 DEF LinkType, AfterRead

\* A write changes only what the peer will read, and the reset flag.
LEMMA ServerWriteTyped ==
  ASSUME NEW ToServer, NEW ToClient, NEW l \in LinkType(ToServer, ToClient),
         NEW reads \in Seq(ToClient), NEW o \in WriteOutcomes(l, "server", reads)
  PROVE  o.link \in LinkType(ToServer, ToClient)
<1>1. CASE l.reset
  BY <1>1 DEF WriteOutcomes, Outcome
<1>2. CASE ~l.reset /\ l.up["client"]
  <2>1. l.in["client"] \o reads \in Seq(ToClient)
    BY DEF LinkType
  <2>2. o.link = [l EXCEPT !.in["client"] = @ \o reads]
    BY <1>2 DEF WriteOutcomes, Outcome, Peer
  <2>. QED
    BY <2>1, <2>2 DEF LinkType
<1>3. CASE ~l.reset /\ ~l.up["client"]
  <2>1. o = [result |-> "sent", link |-> [l EXCEPT !.reset = TRUE]]
    BY <1>3, Zenon DEF WriteOutcomes, Outcome, Peer
  <2>2. [l EXCEPT !.reset = TRUE] \in LinkType(ToServer, ToClient)
    BY DEF LinkType
  <2>. QED
    BY <2>1, <2>2
<1>. QED
  BY <1>1, <1>2, <1>3

LEMMA ClientWriteTyped ==
  ASSUME NEW ToServer, NEW ToClient, NEW l \in LinkType(ToServer, ToClient),
         NEW reads \in Seq(ToServer), NEW o \in WriteOutcomes(l, "client", reads)
  PROVE  o.link \in LinkType(ToServer, ToClient)
<1>1. CASE l.reset
  BY <1>1 DEF WriteOutcomes, Outcome
<1>2. CASE ~l.reset /\ l.up["server"]
  <2>1. l.in["server"] \o reads \in Seq(ToServer)
    BY DEF LinkType
  <2>2. o.link = [l EXCEPT !.in["server"] = @ \o reads]
    BY <1>2 DEF WriteOutcomes, Outcome, Peer
  <2>. QED
    BY <2>1, <2>2 DEF LinkType
<1>3. CASE ~l.reset /\ ~l.up["server"]
  <2>1. o = [result |-> "sent", link |-> [l EXCEPT !.reset = TRUE]]
    BY <1>3, Zenon DEF WriteOutcomes, Outcome, Peer
  <2>2. [l EXCEPT !.reset = TRUE] \in LinkType(ToServer, ToClient)
    BY DEF LinkType
  <2>. QED
    BY <2>1, <2>2
<1>. QED
  BY <1>1, <1>2, <1>3

LEMMA NewLinkTyped ==
  ASSUME NEW ToServer, NEW ToClient
  PROVE  /\ NewLink \in LinkType(ToServer, ToClient)
         /\ ClosedLink \in LinkType(ToServer, ToClient)
  BY DEF NewLink, ClosedLink, LinkType

\* The end that closes is marked closed and forgets what it had not read.
LEMMA EndedTyped ==
  ASSUME NEW ToServer, NEW ToClient, NEW l \in LinkType(ToServer, ToClient),
         NEW s \in Seq(ToServer), NEW t \in Seq(ToClient), NEW b \in BOOLEAN
  PROVE  /\ [l EXCEPT !.up["server"] = FALSE, !.in["server"] = s, !.reset = b]
              \in LinkType(ToServer, ToClient)
         /\ [l EXCEPT !.up["client"] = FALSE, !.in["client"] = t, !.reset = b]
              \in LinkType(ToServer, ToClient)
  BY DEF LinkType

LEMMA ClosedTyped ==
  ASSUME NEW ToServer, NEW ToClient, NEW l \in LinkType(ToServer, ToClient),
         NEW e \in Ends
  PROVE  Closed(l, e) \in LinkType(ToServer, ToClient)
<1>1. CASE ~l.up[Peer(e)]
  BY <1>1, NewLinkTyped DEF Closed
<1>2. CASE l.up[Peer(e)]
  <2>. DEFINE b == l.reset \/ l.in[e] # <<>>
  <2>1. Closed(l, e) = [l EXCEPT !.up[e] = FALSE, !.in[e] = <<>>, !.reset = b]
    BY <1>2, Zenon DEF Closed
  <2>2. <<>> \in Seq(ToServer) /\ <<>> \in Seq(ToClient) /\ b \in BOOLEAN
    OBVIOUS
  <2>. HIDE DEF b
  <2>3. CASE e = "server"
    <3>1. [l EXCEPT !.up["server"] = FALSE, !.in["server"] = <<>>, !.reset = b]
            \in LinkType(ToServer, ToClient)
      BY <2>2, EndedTyped
    <3>. QED
      BY <2>1, <2>3, <3>1, Zenon
  <2>4. CASE e = "client"
    <3>1. [l EXCEPT !.up["client"] = FALSE, !.in["client"] = <<>>, !.reset = b]
            \in LinkType(ToServer, ToClient)
      BY <2>2, EndedTyped
    <3>. QED
      BY <2>1, <2>4, <3>1, Zenon
  <2>. QED
    BY <2>3, <2>4 DEF Ends
<1>. QED
  BY <1>1, <1>2

LEMMA CloseTyped ==
  ASSUME NEW ToServer, NEW ToClient, NEW l \in LinkType(ToServer, ToClient),
         NEW e \in Ends, NEW o \in CloseOutcomes(l, e)
  PROVE  o.link \in LinkType(ToServer, ToClient)
  BY ClosedTyped DEF CloseOutcomes, Outcome

-----------------------------------------------------------------------------
(* What each operator changes and what it leaves alone *)

LEMMA ServerReadEffect ==
  ASSUME NEW ToServer, NEW ToClient, NEW l \in LinkType(ToServer, ToClient)
  PROVE  /\ AfterRead(l, "server").up = l.up
         /\ AfterRead(l, "server").reset = l.reset
         /\ AfterRead(l, "server").in["client"] = l.in["client"]
  BY DEF LinkType, AfterRead

LEMMA ClientReadEffect ==
  ASSUME NEW ToServer, NEW ToClient, NEW l \in LinkType(ToServer, ToClient)
  PROVE  /\ AfterRead(l, "client").up = l.up
         /\ AfterRead(l, "client").reset = l.reset
         /\ AfterRead(l, "client").in["server"] = l.in["server"]
  BY DEF LinkType, AfterRead

\* m is l after a write by end e of what the other end will read as `reads'.
Wrote(l, m, e, reads) ==
  /\ m.up = l.up
  /\ m.in[e] = l.in[e]
  /\ l.up[Peer(e)] /\ ~l.reset => m.in[Peer(e)] = l.in[Peer(e)] \o reads
  /\ l.up[Peer(e)] => m.reset = l.reset

LEMMA ServerWriteEffect ==
  ASSUME NEW ToServer, NEW ToClient, NEW l \in LinkType(ToServer, ToClient),
         NEW reads \in Seq(ToClient), NEW o \in WriteOutcomes(l, "server", reads)
  PROVE  Wrote(l, o.link, "server", reads)
<1>1. CASE l.reset
  <2>1. o.link = l
    BY <1>1 DEF WriteOutcomes, Outcome
  <2>. QED
    BY <1>1, <2>1 DEF Wrote
<1>2. CASE ~l.reset /\ l.up["client"]
  <2>1. o.link = [l EXCEPT !.in["client"] = @ \o reads]
    BY <1>2 DEF WriteOutcomes, Outcome, Peer
  <2>. QED
    BY <1>2, <2>1 DEF LinkType, Wrote, Peer
<1>3. CASE ~l.reset /\ ~l.up["client"]
  <2>1. o = [result |-> "sent", link |-> [l EXCEPT !.reset = TRUE]]
    BY <1>3, Zenon DEF WriteOutcomes, Outcome, Peer
  <2>2. o.link.up = l.up /\ o.link.in = l.in
    BY <2>1 DEF LinkType
  <2>. QED
    BY <1>3, <2>2 DEF Wrote, Peer
<1>. QED
  BY <1>1, <1>2, <1>3

LEMMA ClientWriteEffect ==
  ASSUME NEW ToServer, NEW ToClient, NEW l \in LinkType(ToServer, ToClient),
         NEW reads \in Seq(ToServer), NEW o \in WriteOutcomes(l, "client", reads)
  PROVE  Wrote(l, o.link, "client", reads)
<1>1. CASE l.reset
  <2>1. o.link = l
    BY <1>1 DEF WriteOutcomes, Outcome
  <2>. QED
    BY <1>1, <2>1 DEF Wrote
<1>2. CASE ~l.reset /\ l.up["server"]
  <2>1. o.link = [l EXCEPT !.in["server"] = @ \o reads]
    BY <1>2 DEF WriteOutcomes, Outcome, Peer
  <2>. QED
    BY <1>2, <2>1 DEF LinkType, Wrote, Peer
<1>3. CASE ~l.reset /\ ~l.up["server"]
  <2>1. o = [result |-> "sent", link |-> [l EXCEPT !.reset = TRUE]]
    BY <1>3, Zenon DEF WriteOutcomes, Outcome, Peer
  <2>2. o.link.up = l.up /\ o.link.in = l.in
    BY <2>1 DEF LinkType
  <2>. QED
    BY <1>3, <2>2 DEF Wrote, Peer
<1>. QED
  BY <1>1, <1>2, <1>3

\* A closed end is closed, the other stays as it was and keeps what it has been
\* sent.
LEMMA ClosedEffect ==
  ASSUME NEW ToServer, NEW ToClient, NEW l \in LinkType(ToServer, ToClient),
         NEW e \in Ends
  PROVE  /\ ~Closed(l, e).up[e]
         /\ Closed(l, e).up[Peer(e)] = l.up[Peer(e)]
         /\ l.up[Peer(e)] => Closed(l, e).in[Peer(e)] = l.in[Peer(e)]
<1>1. CASE ~l.up[Peer(e)]
  <2>1. Closed(l, e) = ClosedLink
    BY <1>1 DEF Closed
  <2>2. l.up[Peer(e)] = FALSE
    BY <1>1 DEF LinkType, Ends, Peer
  <2>3. ClosedLink.up[e] = FALSE /\ ClosedLink.up[Peer(e)] = FALSE
    BY DEF ClosedLink, Ends, Peer
  <2>. QED
    BY <1>1, <2>1, <2>2, <2>3
<1>2. CASE l.up[Peer(e)]
  <2>. DEFINE b == l.reset \/ l.in[e] # <<>>
  <2>1. Closed(l, e) = [l EXCEPT !.up[e] = FALSE, !.in[e] = <<>>, !.reset = b]
    BY <1>2, Zenon DEF Closed
  <2>. HIDE DEF b
  <2>2. Closed(l, e).up = [l.up EXCEPT ![e] = FALSE]
    BY <2>1 DEF LinkType
  <2>3. Closed(l, e).in = [l.in EXCEPT ![e] = <<>>]
    BY <2>1 DEF LinkType
  <2>4. CASE e = "server"
    BY <2>2, <2>3, <2>4 DEF LinkType, Peer
  <2>5. CASE e = "client"
    BY <2>2, <2>3, <2>5 DEF LinkType, Peer
  <2>. QED
    BY <2>4, <2>5 DEF Ends
<1>. QED
  BY <1>1, <1>2

\* What is left to read when an end has closed.
LEMMA ClosedQueues ==
  ASSUME NEW ToServer, NEW ToClient, NEW l \in LinkType(ToServer, ToClient),
         NEW e \in Ends
  PROVE  /\ Closed(l, e).in["client"] \in {<<>>, l.in["client"]}
         /\ Closed(l, e).in["server"] \in {<<>>, l.in["server"]}
<1>1. CASE ~l.up[Peer(e)]
  BY <1>1 DEF Closed, ClosedLink
<1>2. CASE l.up[Peer(e)]
  <2>. DEFINE b == l.reset \/ l.in[e] # <<>>
  <2>1. Closed(l, e) = [l EXCEPT !.up[e] = FALSE, !.in[e] = <<>>, !.reset = b]
    BY <1>2, Zenon DEF Closed
  <2>. HIDE DEF b
  <2>2. Closed(l, e).in = [l.in EXCEPT ![e] = <<>>]
    BY <2>1 DEF LinkType
  <2>. QED
    BY <2>2 DEF LinkType, Ends
<1>. QED
  BY <1>1, <1>2

LEMMA CloseQueues ==
  ASSUME NEW ToServer, NEW ToClient, NEW l \in LinkType(ToServer, ToClient),
         NEW e \in Ends, NEW o \in CloseOutcomes(l, e)
  PROVE  /\ o.link.in["client"] \in {<<>>, l.in["client"]}
         /\ o.link.in["server"] \in {<<>>, l.in["server"]}
  BY ClosedQueues DEF CloseOutcomes, Outcome

\* What there is to read after the outcome o of a write of `reads' by end e.
Queued(l, o, e, reads) ==
  /\ o.link.in[e] = l.in[e]
  /\ \/ o.link.in[Peer(e)] = l.in[Peer(e)]
     \/ o.result = "sent" /\ o.link.in[Peer(e)] = l.in[Peer(e)] \o reads

LEMMA ServerWriteQueues ==
  ASSUME NEW ToServer, NEW ToClient, NEW l \in LinkType(ToServer, ToClient),
         NEW reads \in Seq(ToClient), NEW o \in WriteOutcomes(l, "server", reads)
  PROVE  Queued(l, o, "server", reads)
<1>1. CASE l.reset
  BY <1>1 DEF WriteOutcomes, Outcome, Queued
<1>2. CASE ~l.reset /\ l.up["client"]
  <2>1. o.result = "sent" /\ o.link = [l EXCEPT !.in["client"] = @ \o reads]
    BY <1>2 DEF WriteOutcomes, Outcome, Peer
  <2>. QED
    BY <2>1 DEF LinkType, Queued, Peer
<1>3. CASE ~l.reset /\ ~l.up["client"]
  <2>1. o = [result |-> "sent", link |-> [l EXCEPT !.reset = TRUE]]
    BY <1>3, Zenon DEF WriteOutcomes, Outcome, Peer
  <2>. QED
    BY <2>1 DEF LinkType, Queued, Peer
<1>. QED
  BY <1>1, <1>2, <1>3

LEMMA ClientWriteQueues ==
  ASSUME NEW ToServer, NEW ToClient, NEW l \in LinkType(ToServer, ToClient),
         NEW reads \in Seq(ToServer), NEW o \in WriteOutcomes(l, "client", reads)
  PROVE  Queued(l, o, "client", reads)
<1>1. CASE l.reset
  BY <1>1 DEF WriteOutcomes, Outcome, Queued
<1>2. CASE ~l.reset /\ l.up["server"]
  <2>1. o.result = "sent" /\ o.link = [l EXCEPT !.in["server"] = @ \o reads]
    BY <1>2 DEF WriteOutcomes, Outcome, Peer
  <2>. QED
    BY <2>1 DEF LinkType, Queued, Peer
<1>3. CASE ~l.reset /\ ~l.up["server"]
  <2>1. o = [result |-> "sent", link |-> [l EXCEPT !.reset = TRUE]]
    BY <1>3, Zenon DEF WriteOutcomes, Outcome, Peer
  <2>. QED
    BY <2>1 DEF LinkType, Queued, Peer
<1>. QED
  BY <1>1, <1>2, <1>3
=============================================================================
