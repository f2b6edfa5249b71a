--------------------------- MODULE ListenerProofs ---------------------------
(***************************************************************************)
(* Proofs about Listener, for any number of peers and descriptors and with or *)
(* without failing contexts and a rival on the port.                         *)
(***************************************************************************)
EXTENDS Listener, FiniteSetTheorems, TLAPS

LEMMA ListenerInvInit ==
  ASSUME ListenerInit
  PROVE  ListenerIInv
<1>1. ListenerTypeOK
  <2>1. backlog \in Seq(Peers) /\ peer \in [Peers -> PeerSteps]
    BY DEF ListenerInit, PeerSteps
  <2>2. rival \in BOOLEAN
    BY Zenon DEF ListenerInit
  <2>. QED
    BY <2>1, <2>2 DEF ListenerInit, ListenerTypeOK, MainSteps
<1>2. IsFiniteSet(open) /\ Cardinality(open) = 0
  BY FS_EmptySet DEF ListenerInit
<1>3. QueuedOnce /\ DescriptorsHaveOneUser
  BY <1>2, ListenerAssumption DEF ListenerInit, QueuedOnce, DescriptorsHaveOneUser
<1>. QED
  BY <1>1, <1>3 DEF ListenerIInv

\* The head of the queue is nowhere else in it.
LEMMA QueueTail ==
  ASSUME ListenerIInv, backlog # <<>>, backlog' = Tail(backlog)
  PROVE  /\ Head(backlog) \in Peers /\ backlog' \in Seq(Peers)
         /\ Head(backlog) \notin open /\ peer[Head(backlog)] # "away"
         /\ \A i \in DOMAIN backlog' :
              /\ backlog'[i] = backlog[i + 1] /\ i + 1 \in DOMAIN backlog
              /\ backlog'[i] # Head(backlog)
         /\ \A i, j \in DOMAIN backlog' : backlog'[i] = backlog'[j] => i = j
<1>1. backlog \in Seq(Peers)
  BY DEF ListenerIInv, ListenerTypeOK
<1>2. 1 \in DOMAIN backlog /\ Head(backlog) = backlog[1] /\ Head(backlog) \in Peers
  BY <1>1
<1>3. /\ backlog' \in Seq(Peers)
      /\ \A i \in DOMAIN backlog' :
           i \in Nat \ {0} /\ backlog'[i] = backlog[i + 1] /\ i + 1 \in DOMAIN backlog
  BY <1>1
<1>4. \A i, j \in DOMAIN backlog : backlog[i] = backlog[j] => i = j
  BY DEF ListenerIInv, QueuedOnce
<1>5. \A i \in DOMAIN backlog' : backlog'[i] # Head(backlog)
  BY <1>2, <1>3, <1>4
<1>6. \A i, j \in DOMAIN backlog' : backlog'[i] = backlog'[j] => i = j
  BY <1>3, <1>4
<1>. QED
  BY <1>2, <1>3, <1>5, <1>6 DEF ListenerIInv, QueuedOnce

-----------------------------------------------------------------------------
(* main *)

LEMMA AcceptKeeps ==
  ASSUME ListenerIInv, Accept
  PROVE  ListenerIInv'
<1>. USE DEF ListenerIInv
<1>1. /\ at = "accept" /\ backlog # <<>> /\ current = None
      /\ UNCHANGED <<rival, socket, address, delay, peer, threads>>
  BY DEF Accept, QueuedOnce
<1>2. CASE /\ Cardinality(open) < MaxFds
           /\ current' = Head(backlog)
           /\ backlog' = Tail(backlog)
           /\ open' = open \cup {Head(backlog)}
           /\ at' = "context"
  <2>0. PICK p \in Peers : p = Head(backlog)
    BY <1>1, <1>2, QueueTail
  <2>1. /\ backlog' \in Seq(Peers)
        /\ p \notin open /\ peer[p] # "away"
        /\ \A i \in DOMAIN backlog' :
             /\ backlog'[i] = backlog[i + 1] /\ i + 1 \in DOMAIN backlog
             /\ backlog'[i] # p
        /\ \A i, j \in DOMAIN backlog' : backlog'[i] = backlog'[j] => i = j
    BY <1>1, <1>2, <2>0, QueueTail
  <2>2. IsFiniteSet(open) /\ Cardinality(open) \in Nat
    BY FS_CardinalityType DEF QueuedOnce
  <2>3. IsFiniteSet(open') /\ Cardinality(open') = Cardinality(open) + 1
    <3>1. open' = open \cup {p} /\ p \notin open
      BY <1>2, <2>0, <2>1
    <3>. QED
      BY <2>2, <3>1, FS_AddElement
  <2>4. current' = p /\ open' = open \cup {p} /\ at' = "context"
    BY <1>2, <2>0
  <2>5. p # None
    BY ListenerAssumption
  <2>6. ListenerTypeOK'
    BY <1>1, <2>1, <2>4 DEF ListenerTypeOK, MainSteps
  <2>7. QueuedOnce'
    <3>1. \A i \in DOMAIN backlog' : backlog'[i] \notin open' /\ peer'[backlog'[i]] # "away"
      BY <1>1, <2>1, <2>4 DEF QueuedOnce
    <3>2. \A q \in open' : peer'[q] # "away"
      BY <1>1, <2>1, <2>4 DEF QueuedOnce
    <3>3. current' # None <=> at' \in {"context", "handshake"}
      BY <2>4, <2>5
    <3>. QED
      BY <2>1, <2>3, <3>1, <3>2, <3>3 DEF QueuedOnce
  <2>8. DescriptorsHaveOneUser'
    <3>1. p \in open' /\ p \notin threads' /\ ~InBacklog(p)'
      BY <1>1, <2>1, <2>4 DEF InBacklog, ListenerTypeOK
    <3>2. \A q \in threads' :
            q \in open' /\ ~InBacklog(q)' /\ peer'[q] \in {"hello", "gone"}
      BY <1>1, <2>1, <2>4 DEF InBacklog, DescriptorsHaveOneUser
    <3>3. Cardinality(open') <= MaxFds
      BY <1>2, <2>2, <2>3, ListenerAssumption
    <3>. QED
      BY <2>4, <3>1, <3>2, <3>3 DEF DescriptorsHaveOneUser
  <2>. QED
    BY <2>6, <2>7, <2>8
<1>3. CASE Again /\ UNCHANGED <<backlog, open>>
  <2>1. at' = "start" /\ current' = None
    BY <1>3 DEF Again
  <2>2. ListenerTypeOK'
    BY <1>1, <1>3, <2>1 DEF ListenerTypeOK, MainSteps
  <2>3. QueuedOnce' /\ DescriptorsHaveOneUser'
    BY <1>1, <1>3, <2>1 DEF QueuedOnce, DescriptorsHaveOneUser, InBacklog
  <2>. QED
    BY <2>2, <2>3
<1>. QED
  BY <1>2, <1>3 DEF Accept

\* A step of main that leaves the connections alone, or drops the one it works on.
LEMMA DropKeeps ==
  ASSUME ListenerIInv,
         UNCHANGED <<backlog, peer, open, threads>>,
         rival' = rival, socket' \in {"none", "unbound", "bound"},
         address' \in {"nowhere", "port", "elsewhere"},
         at' \in MainSteps, current' \in {current, None},
         current' # None <=> at' \in {"context", "handshake"},
         delay' \in Delays
  PROVE  ListenerIInv'
<1>1. ListenerTypeOK'
  BY DEF ListenerIInv, ListenerTypeOK
<1>2. QueuedOnce'
  BY DEF ListenerIInv, QueuedOnce
<1>3. DescriptorsHaveOneUser'
  BY DEF ListenerIInv, DescriptorsHaveOneUser, InBacklog
<1>. QED
  BY <1>1, <1>2, <1>3 DEF ListenerIInv

LEMMA BeforeAcceptKeeps ==
  ASSUME ListenerIInv, Start \/ Bind \/ ListenAt \/ SelectSocket
  PROVE  ListenerIInv'
<1>0. current = None
  BY DEF Start, Bind, ListenAt, SelectSocket, ListenerIInv, QueuedOnce
<1>1. /\ UNCHANGED <<rival, current, backlog, peer, open, threads>>
      /\ at' \in {"start", "bind", "listen", "select", "accept"}
      /\ socket' \in {"none", "unbound", "bound"}
      /\ address' \in {"nowhere", "port", "elsewhere"}
      /\ delay' \in Delays
  BY <1>0 DEF Start, Bind, ListenAt, SelectSocket, Again, Connections, ListenerIInv, ListenerTypeOK
<1>. QED
  BY <1>0, <1>1, DropKeeps DEF MainSteps

LEMMA LoadContextKeeps ==
  ASSUME ListenerIInv, LoadContext
  PROVE  ListenerIInv'
<1>1. /\ UNCHANGED <<rival, socket, address, delay, backlog, peer, open, threads>>
      /\ \/ at' = "handshake" /\ current' = current
         \/ at' = "start" /\ current' = None
  BY DEF LoadContext, Again
<1>2. current # None
  BY DEF LoadContext, ListenerIInv, QueuedOnce
<1>3. /\ socket \in {"none", "unbound", "bound"}
      /\ address \in {"nowhere", "port", "elsewhere"} /\ delay \in Delays
  BY DEF ListenerIInv, ListenerTypeOK
<1>. QED
  BY <1>1, <1>2, <1>3, DropKeeps DEF MainSteps

\* The connection goes from main to its thread, or to nobody.
LEMMA HandshakeKeeps ==
  ASSUME ListenerIInv, Handshake
  PROVE  ListenerIInv'
<1>. USE DEF ListenerIInv
<1>1. /\ at = "handshake" /\ at' = "start" /\ current' = None
      /\ UNCHANGED <<rival, socket, address, delay, backlog, peer, open>>
      /\ \/ peer[current] \in {"hello", "gone"} /\ threads' = threads \cup {current}
         \/ threads' = threads
  BY DEF Handshake, HandOver, Again
<1>2. current # None /\ current \in open /\ ~InBacklog(current)
  BY <1>1 DEF QueuedOnce, DescriptorsHaveOneUser
<1>3. ListenerTypeOK'
  BY <1>1, <1>2 DEF ListenerTypeOK, MainSteps
<1>4. QueuedOnce'
  BY <1>1 DEF QueuedOnce
<1>5. DescriptorsHaveOneUser'
  BY <1>1, <1>2 DEF DescriptorsHaveOneUser, InBacklog
<1>. QED
  BY <1>3, <1>4, <1>5

-----------------------------------------------------------------------------
(* Threads, peers and the rival *)

LEMMA ThreadEndsKeeps ==
  ASSUME ListenerIInv, NEW p \in Peers, ThreadEnds(p)
  PROVE  ListenerIInv'
<1>. USE DEF ListenerIInv
<1>1. /\ p \in threads /\ threads' = threads \ {p} /\ open' = open \ {p}
      /\ UNCHANGED <<rival, socket, address, delay, at, current, backlog, peer>>
  BY DEF ThreadEnds
<1>2. /\ IsFiniteSet(open') /\ Cardinality(open') <= Cardinality(open)
      /\ Cardinality(open') \in Nat /\ Cardinality(open) \in Nat
  BY <1>1, FS_Subset, FS_CardinalityType DEF QueuedOnce
<1>3. ListenerTypeOK'
  BY <1>1 DEF ListenerTypeOK
<1>4. QueuedOnce'
  BY <1>1, <1>2 DEF QueuedOnce
<1>5. DescriptorsHaveOneUser'
  <2>1. Cardinality(open') <= MaxFds
    BY <1>2, ListenerAssumption DEF DescriptorsHaveOneUser
  <2>. QED
    BY <1>1, <2>1 DEF DescriptorsHaveOneUser, InBacklog
<1>. QED
  BY <1>3, <1>4, <1>5

LEMMA ArriveKeeps ==
  ASSUME ListenerIInv, NEW p \in Peers, Arrive(p)
  PROVE  ListenerIInv'
<1>. USE DEF ListenerIInv
<1>1. /\ peer[p] = "away" /\ backlog' = Append(backlog, p)
      /\ peer' = [peer EXCEPT ![p] = "connected"]
      /\ UNCHANGED <<rival, socket, address, delay, at, current, open, threads>>
  BY DEF Arrive, Become
<1>2. backlog \in Seq(Peers) /\ peer \in [Peers -> PeerSteps] /\ open \in SUBSET Peers
  BY DEF ListenerTypeOK
<1>3. p \notin open /\ ~InBacklog(p)
  BY <1>1 DEF QueuedOnce, InBacklog
<1>4. /\ backlog' \in Seq(Peers)
      /\ \A i \in DOMAIN backlog' :
           \/ i \in DOMAIN backlog /\ backlog'[i] = backlog[i]
           \/ i = Len(backlog) + 1 /\ backlog'[i] = p
  BY <1>1, <1>2
<1>5. peer' \in [Peers -> PeerSteps] /\ peer'[p] = "connected"
  BY <1>1, <1>2 DEF PeerSteps
<1>6. \A q \in Peers : q # p => peer'[q] = peer[q]
  BY <1>1, <1>2
<1>7. ListenerTypeOK'
  BY <1>1, <1>4, <1>5 DEF ListenerTypeOK
<1>8. QueuedOnce'
  <2>1. \A i \in DOMAIN backlog' : backlog'[i] \notin open' /\ peer'[backlog'[i]] # "away"
    BY <1>1, <1>2, <1>3, <1>4, <1>5, <1>6 DEF QueuedOnce
  <2>2. \A i, j \in DOMAIN backlog' : backlog'[i] = backlog'[j] => i = j
    BY <1>3, <1>4 DEF QueuedOnce, InBacklog
  <2>3. \A q \in open' : peer'[q] # "away"
    BY <1>1, <1>2, <1>3, <1>6 DEF QueuedOnce
  <2>. QED
    BY <1>1, <2>1, <2>2, <2>3 DEF QueuedOnce
<1>9. DescriptorsHaveOneUser'
  <2>1. \A q \in open : ~InBacklog(q) => ~InBacklog(q)'
    BY <1>3, <1>4 DEF InBacklog
  <2>2. \A q \in threads' : q \in open' /\ ~InBacklog(q)' /\ peer'[q] \in {"hello", "gone"}
    BY <1>1, <1>2, <1>3, <1>6, <2>1 DEF DescriptorsHaveOneUser
  <2>3. current' # None =>
          current' \in open' /\ current' \notin threads' /\ ~InBacklog(current)'
    BY <1>1, <2>1 DEF DescriptorsHaveOneUser, InBacklog
  <2>4. Cardinality(open') <= MaxFds
    BY <1>1 DEF DescriptorsHaveOneUser
  <2>. QED
    BY <2>2, <2>3, <2>4 DEF DescriptorsHaveOneUser
<1>. QED
  BY <1>7, <1>8, <1>9

LEMMA PeerKeeps ==
  ASSUME ListenerIInv, NEW p \in Peers, Speak(p) \/ Quit(p)
  PROVE  ListenerIInv'
<1>. USE DEF ListenerIInv
<1>1. PICK step \in {"hello", "garbage", "gone"} :
        /\ peer' = [peer EXCEPT ![p] = step]
        /\ peer[p] # "connected" => step = "gone"
        /\ UNCHANGED <<rival, socket, address, delay, at, current, open, threads, backlog>>
  BY DEF Speak, Quit, Become
<1>2. peer \in [Peers -> PeerSteps]
  BY DEF ListenerTypeOK
<1>3. peer' \in [Peers -> PeerSteps]
  BY <1>1, <1>2 DEF PeerSteps
<1>4. \A q \in Peers : peer'[q] = IF q = p THEN step ELSE peer[q]
  BY <1>1, <1>2
<1>5. ListenerTypeOK'
  BY <1>1, <1>3 DEF ListenerTypeOK
<1>6. \A q \in Peers : peer[q] # "away" => peer'[q] # "away"
  BY <1>1, <1>4
<1>7. backlog \in Seq(Peers) /\ open \in SUBSET Peers /\ threads \in SUBSET open
  BY DEF ListenerTypeOK
<1>8. QueuedOnce'
  BY <1>1, <1>6, <1>7 DEF QueuedOnce
<1>9. DescriptorsHaveOneUser'
  BY <1>1, <1>4, <1>7 DEF DescriptorsHaveOneUser, InBacklog
<1>. QED
  BY <1>5, <1>8, <1>9

LEMMA RivalKeeps ==
  ASSUME ListenerIInv, Rival \/ UNCHANGED lvars
  PROVE  ListenerIInv'
<1>1. /\ rival' \in BOOLEAN
      /\ UNCHANGED <<socket, address, delay, at, current, backlog, peer, open, threads>>
  BY DEF Rival, lvars, Connections, ListenerIInv, ListenerTypeOK
<1>. QED
  BY <1>1 DEF ListenerIInv, ListenerTypeOK, QueuedOnce, DescriptorsHaveOneUser, InBacklog

-----------------------------------------------------------------------------
(* The theorems *)

\* The connection main works on, those with a thread and those in the queue are
\* kept apart by every step of main, the threads and the peers.
THEOREM ListenerInvariant == ListenerSpec => []ListenerIInv
<1>1. ListenerInit => ListenerIInv
  BY ListenerInvInit
<1>2. ListenerIInv /\ [ListenerNext]_lvars => ListenerIInv'
  BY AcceptKeeps, BeforeAcceptKeeps, LoadContextKeeps, HandshakeKeeps,
     ThreadEndsKeeps, ArriveKeeps, PeerKeeps, RivalKeeps DEF ListenerNext, Main
<1>. QED
  BY <1>1, <1>2, PTL DEF ListenerSpec

\* A descriptor is used by main or by one thread, and only while it is open; a peer
\* without a handshake has no thread (auth_server.cpp:121-124).
THEOREM DescriptorOwnership == ListenerSpec => []DescriptorsHaveOneUser
<1>1. ListenerIInv => DescriptorsHaveOneUser
  BY DEF ListenerIInv
<1>. QED
  BY ListenerInvariant, <1>1, PTL

\* The accept loop's variables keep their types (tcp_server.cpp:43-143).
THEOREM ListenerTyped == ListenerSpec => []ListenerTypeOK
<1>1. ListenerIInv => ListenerTypeOK
  BY DEF ListenerIInv
<1>. QED
  BY ListenerInvariant, <1>1, PTL

\* As long as the socket is not bound nobody has connected, and there is no address
\* to connect to.
Deaf ==
  socket # "bound" => address # "port" /\ \A p \in Peers : peer[p] = "away"

LEMMA DeafStep ==
  ASSUME ListenerIInv, Deaf, [ListenerNext]_lvars
  PROVE  /\ Deaf'
         /\ socket = "unbound" /\ at # "bind" => socket' = "unbound" /\ at' # "bind"
<1>1. CASE Start \/ Bind \/ ListenAt
  BY <1>1 DEF Start, Bind, ListenAt, Connections, Deaf
<1>2. CASE SelectSocket \/ Accept \/ LoadContext \/ Handshake
  BY <1>2 DEF SelectSocket, Accept, LoadContext, Handshake, HandOver, Again, Deaf
<1>3. ASSUME NEW p \in Peers, Arrive(p) \/ Speak(p) \/ Quit(p) \/ ThreadEnds(p)
      PROVE  /\ Deaf'
             /\ socket = "unbound" /\ at # "bind" => socket' = "unbound" /\ at' # "bind"
  <2>1. UNCHANGED <<socket, address, at>> /\ (socket # "bound" => peer' = peer)
    BY <1>3 DEF Arrive, Speak, Quit, ThreadEnds, Become, Deaf, ListenerIInv, DescriptorsHaveOneUser
  <2>. QED
    BY <2>1 DEF Deaf
<1>4. CASE Rival \/ UNCHANGED lvars
  BY <1>4 DEF Rival, lvars, Connections, Deaf
<1>. QED
  BY <1>1, <1>2, <1>3, <1>4 DEF ListenerNext, Main

\* A process whose first bind failed never has a client, however often main calls
\* Listen and whether or not the port becomes free (tcp_server.cpp:118).
THEOREM FailedBindDeafens == ListenerSpec => FailedBindIsFinal
<1>. DEFINE Failed == socket = "unbound" /\ at # "bind"
            Away   == \A p \in Peers : peer[p] = "away"
<1>1. ListenerInit => Deaf
  BY DEF ListenerInit, Deaf
<1>2. ListenerIInv /\ Deaf /\ [ListenerNext]_lvars => Deaf' /\ (Failed => Failed')
  BY DeafStep
<1>3. Deaf /\ Failed => Away
  BY DEF Deaf
<1>. HIDE DEF Failed, Away
<1>4. ListenerSpec => [](Failed => []Away)
  BY <1>1, <1>2, <1>3, ListenerInvariant, PTL DEF ListenerSpec
<1>. QED
  BY <1>4 DEF Failed, Away, FailedBindIsFinal
=============================================================================
