-------------------------- MODULE SslClientProofs --------------------------
(***************************************************************************)
(* Proofs about SslClient, for any number of Connects, addresses and          *)
(* descriptors: one lemma per call, each for the whole of the inductive        *)
(* invariant, and the theorems it gives.                                     *)
(***************************************************************************)
EXTENDS SslClient, TLAPS

\* A connection of this object is told from Free and from Other.
LEMMA OwnersDiffer ==
  /\ Free \notin Calls /\ Other \notin Calls
  /\ Calls \subseteq Owners /\ Free \in Owners /\ Other \in Owners
  BY SslClientAssumption DEF Calls, Owners, Free, Other

LEMMA InvInit ==
  ASSUME SslClientInit
  PROVE  SslClientIInv
<1>1. SslClientTypeOK
  <2>1. kernel \in [Fds -> Owners]
    BY OwnersDiffer DEF SslClientInit
  <2>2. left \in 0 .. MaxAddresses /\ references \in [Calls -> 0 .. 2]
    BY SslClientAssumption DEF SslClientInit
  <2>3. session \in [Calls -> [state : {"none", "new", "ready", "failed", "freed"},
                               fd : Fds \cup {Invalid}]]
    BY DEF SslClientInit
  <2>. QED
    BY <2>1, <2>2, <2>3 DEF SslClientInit, SslClientTypeOK
<1>2. Stages /\ OwnsItsDescriptor /\ UsesOwnSession /\ FreesOnlyLive
  BY OwnersDiffer DEF SslClientInit, Stages, OwnsItsDescriptor, UsesOwnSession, FreesOnlyLive
<1>3. Sessions
  BY DEF SslClientInit, Sessions, Live, Calls
<1>. QED
  BY <1>1, <1>2, <1>3 DEF SslClientIInv

\* close leaves no descriptor of this object.
LEMMA CloseEffect ==
  ASSUME SslClientTypeOK, Stages, OwnsItsDescriptor, Close
  PROVE  /\ m_eStatus' = "DISCONNECTED"
         /\ m_ConnectSocket' \in Fds \cup {Invalid}
         /\ kernel' \in [Fds -> Owners]
         /\ \A f \in Fds : kernel'[f] \notin Calls
<1>1. CASE m_eStatus = "CONNECTED"
  <2>1. /\ kernel' = [kernel EXCEPT ![m_ConnectSocket] = Free]
        /\ m_eStatus' = "DISCONNECTED" /\ m_ConnectSocket' = Invalid
    BY <1>1 DEF Close
  <2>2. \A f \in Fds : kernel'[f] \notin Calls
    BY <1>1, <2>1, OwnersDiffer DEF SslClientTypeOK, OwnsItsDescriptor
  <2>. QED
    BY <2>1, <2>2, OwnersDiffer DEF SslClientTypeOK
<1>2. CASE m_eStatus = "DISCONNECTED"
  BY <1>2 DEF Close, SslClientTypeOK, OwnsItsDescriptor
<1>. QED
  BY <1>1, <1>2 DEF SslClientTypeOK

-----------------------------------------------------------------------------
(* Connect, stage by stage *)

LEMMA ConnectKeeps ==
  ASSUME SslClientIInv, Connect
  PROVE  SslClientIInv'
<1>. USE DEF SslClientIInv
<1>1. /\ m_eStatus' = "DISCONNECTED"
      /\ m_ConnectSocket' \in Fds \cup {Invalid}
      /\ kernel' \in [Fds -> Owners]
      /\ \A f \in Fds : kernel'[f] \notin Calls
  BY CloseEffect DEF Connect
<1>2. /\ at' = "addresses" /\ used' = <<>> /\ count' = count + 1
      /\ left' \in 0 .. MaxAddresses
      /\ UNCHANGED <<m_pSSL, m_pCTXSSL, result, session, references>>
  BY DEF Connect, heap
<1>3. count \in Nat /\ count' \in Calls /\ count' # 0 /\ m_pSSL \in Nat
  BY <1>2, SslClientAssumption DEF Connect, SslClientTypeOK, Calls
<1>4. SslClientTypeOK'
  BY <1>1, <1>2, <1>3 DEF SslClientTypeOK
<1>5. m_pSSL' < count' /\ session'[count'].state = "none"
  BY <1>2, <1>3 DEF Sessions
<1>6. Stages'
  BY <1>1, <1>2, <1>3, <1>5 DEF Stages
<1>7. Sessions'
  <2>1. \A n \in Calls : n > count' => session'[n].state = "none"
    BY <1>2, <1>3 DEF Sessions, Calls
  <2>2. \A n \in Calls : Live(n)' => session'[n].fd \in Fds
    BY <1>2 DEF Sessions, Live
  <2>3. \A n \in Calls : n = count' => ~Live(n)' /\ session'[n].state # "freed"
    BY <1>5 DEF Live
  <2>4. m_pSSL' <= count'
    BY <1>2, <1>3, <1>5
  <2>. QED
    BY <1>1, <1>2, <2>1, <2>2, <2>3, <2>4 DEF Sessions
<1>8. OwnsItsDescriptor'
  BY <1>1 DEF OwnsItsDescriptor
<1>9. UsesOwnSession' /\ FreesOnlyLive'
  BY <1>2 DEF UsesOwnSession, FreesOnlyLive, Live
<1>. QED
  BY <1>4, <1>6, <1>7, <1>8, <1>9

LEMMA TryAddressKeeps ==
  ASSUME SslClientIInv, TryAddress
  PROVE  SslClientIInv'
<1>. USE DEF SslClientIInv
<1>1. /\ at = "addresses" /\ left > 0 /\ left' = left - 1
      /\ UNCHANGED <<m_pSSL, m_pCTXSSL, count, result, session, references, used>>
  BY DEF TryAddress, heap
<1>2. /\ m_eStatus = "DISCONNECTED" /\ count \in Calls
      /\ count # 0 /\ used = <<>> /\ m_pSSL < count /\ session[count].state = "none"
  BY <1>1 DEF Stages, SslClientTypeOK
<1>3. left' \in 0 .. MaxAddresses
  BY <1>1, SslClientAssumption DEF SslClientTypeOK
<1>4. \A f \in Fds : kernel[f] \notin Calls
  BY <1>2 DEF OwnsItsDescriptor
<1>5. ~Live(count)' /\ session'[count].state # "freed"
  BY <1>1, <1>2 DEF Live
<1>6. UsesOwnSession' /\ FreesOnlyLive'
  BY <1>1, <1>2 DEF UsesOwnSession, FreesOnlyLive, Live
<1>7. CASE UNCHANGED <<at, kernel, m_eStatus>> /\ m_ConnectSocket' \in Fds \cup {Invalid}
  <2>1. SslClientTypeOK'
    BY <1>1, <1>3, <1>7 DEF SslClientTypeOK
  <2>2. Stages'
    BY <1>1, <1>2, <1>7 DEF Stages
  <2>3. Sessions'
    BY <1>1, <1>2, <1>5, <1>7 DEF Sessions, Live
  <2>4. OwnsItsDescriptor'
    BY <1>2, <1>4, <1>7 DEF OwnsItsDescriptor
  <2>. QED
    BY <1>6, <2>1, <2>2, <2>3, <2>4
<1>8. ASSUME NEW f \in Fds, m_ConnectSocket' = f, m_eStatus' = "CONNECTED",
             kernel' = [kernel EXCEPT ![f] = count], at' = "context"
      PROVE  SslClientIInv'
  <2>1. kernel'[f] = count /\ kernel' \in [Fds -> Owners]
    BY <1>2, <1>8, OwnersDiffer DEF SslClientTypeOK
  <2>2. SslClientTypeOK'
    BY <1>1, <1>3, <1>8, <2>1 DEF SslClientTypeOK
  <2>3. Stages'
    BY <1>1, <1>2, <1>8, <2>1 DEF Stages
  <2>4. Sessions'
    BY <1>1, <1>2, <1>5, <1>8 DEF Sessions, Live
  <2>5. OwnsItsDescriptor'
    BY <1>2, <1>4, <1>8, <2>1 DEF OwnsItsDescriptor, SslClientTypeOK
  <2>. QED
    BY <1>6, <2>2, <2>3, <2>4, <2>5
<1>. QED
  BY <1>7, <1>8 DEF TryAddress

LEMMA NoAddressKeeps ==
  ASSUME SslClientIInv, NoAddress
  PROVE  SslClientIInv'
<1>. USE DEF SslClientIInv
<1>1. /\ at = "addresses" /\ at' = "idle" /\ result' = FALSE
      /\ UNCHANGED <<m_eStatus, m_ConnectSocket, m_pSSL, m_pCTXSSL, left, count,
                     kernel, session, references, used>>
  BY DEF NoAddress, Returns, members, heap
<1>2. SslClientTypeOK'
  BY <1>1 DEF SslClientTypeOK
<1>3. Stages' /\ Sessions'
  BY <1>1 DEF Stages, Sessions, Live
<1>4. OwnsItsDescriptor' /\ UsesOwnSession' /\ FreesOnlyLive'
  BY <1>1 DEF OwnsItsDescriptor, UsesOwnSession, FreesOnlyLive, Live
<1>. QED
  BY <1>2, <1>3, <1>4

\* Whichever step fails, the SSL object of an earlier call keeps its context.
LEMMA LoadContextKeeps ==
  ASSUME SslClientIInv, LoadContext
  PROVE  SslClientIInv'
<1>. USE DEF SslClientIInv
<1>1. /\ at = "context"
      /\ UNCHANGED <<m_eStatus, m_ConnectSocket, left, count, kernel, used>>
  BY DEF LoadContext
<1>2. /\ m_eStatus = "CONNECTED" /\ count \in Calls /\ count # 0 /\ used = <<>>
      /\ m_ConnectSocket \in Fds /\ kernel[m_ConnectSocket] = count
      /\ m_pSSL < count /\ session[count].state = "none"
  BY <1>1 DEF Stages, SslClientTypeOK
<1>3. OwnsItsDescriptor' /\ UsesOwnSession'
  BY <1>1, <1>2 DEF OwnsItsDescriptor, UsesOwnSession
<1>4. count \in Nat /\ m_pSSL \in Nat
  BY DEF SslClientTypeOK, Calls
<1>5. CASE /\ \/ m_pCTXSSL' = 0 /\ UNCHANGED references
              \/ m_pCTXSSL' = count /\ references' = [references EXCEPT ![count] = 1]
           /\ Returns(FALSE)
           /\ UNCHANGED <<m_pSSL, session>>
  <2>1. at' = "idle" /\ result' = FALSE
    BY <1>5 DEF Returns
  <2>2. /\ references' \in [Calls -> 0 .. 2]
        /\ m_pCTXSSL' \in {0, count}
        /\ m_pCTXSSL' = count => references'[count] = 1
        /\ \A n \in Calls : n # count => references'[n] = references[n]
    BY <1>2, <1>5 DEF SslClientTypeOK
  <2>3. SslClientTypeOK'
    BY <1>1, <1>2, <1>5, <2>1, <2>2 DEF SslClientTypeOK
  <2>4. Stages' /\ Sessions'
    BY <1>1, <1>2, <1>5, <2>1 DEF Stages, Sessions, Live
  <2>5. FreesOnlyLive'
    <3>. SUFFICES ASSUME m_pSSL # 0, NEW n \in Calls
                  PROVE  /\ Live(m_pSSL)
                         /\ references'[n] >= (IF n = m_pSSL THEN 1 ELSE 0)
                                                + (IF n = m_pCTXSSL' THEN 1 ELSE 0)
      BY <1>5 DEF FreesOnlyLive, Live
    <3>1. /\ Live(m_pSSL)
          /\ references[n] >= (IF n = m_pSSL THEN 1 ELSE 0)
                                + (IF n = m_pCTXSSL THEN 1 ELSE 0)
      BY DEF FreesOnlyLive
    <3>2. references[n] \in 0 .. 2 /\ n \in Nat /\ n # 0
      BY DEF SslClientTypeOK, Calls
    <3>. QED
      BY <1>2, <1>4, <2>2, <3>1, <3>2
  <2>. QED
    BY <1>3, <2>3, <2>4, <2>5
<1>6. CASE /\ m_pCTXSSL' = count /\ m_pSSL' = count
           /\ references' = [references EXCEPT ![count] = 2]
           /\ session' = [session EXCEPT ![count] = [state |-> "new", fd |-> m_ConnectSocket]]
           /\ at' = "handshake"
           /\ UNCHANGED result
  <2>1. /\ session'[count] = [state |-> "new", fd |-> m_ConnectSocket]
        /\ references'[count] = 2
        /\ \A n \in Calls : n # count =>
             session'[n] = session[n] /\ references'[n] = references[n]
    BY <1>2, <1>6 DEF SslClientTypeOK
  <2>2. SslClientTypeOK'
    BY <1>1, <1>2, <1>6 DEF SslClientTypeOK
  <2>3. Stages'
    BY <1>1, <1>2, <1>6, <2>1 DEF Stages
  <2>4. Sessions'
    <3>1. \A n \in Calls : n > count' => session'[n].state = "none"
      BY <1>1, <1>4, <2>1 DEF Sessions, Calls
    <3>2. \A n \in Calls : Live(n)' => session'[n].fd \in Fds
      BY <1>2, <2>1 DEF Sessions, Live
    <3>. QED
      BY <1>1, <1>2, <1>4, <1>6, <2>1, <3>1, <3>2 DEF Sessions, Live
  <2>5. FreesOnlyLive'
    BY <1>1, <1>2, <1>4, <1>6, <2>1 DEF FreesOnlyLive, Live, SslClientTypeOK, Calls
  <2>. QED
    BY <1>3, <2>2, <2>3, <2>4, <2>5
<1>. QED
  BY <1>5, <1>6 DEF LoadContext, heap

LEMMA HandshakeKeeps ==
  ASSUME SslClientIInv, Handshake
  PROVE  SslClientIInv'
<1>. USE DEF SslClientIInv
<1>1. /\ at = "handshake" /\ at' = "idle"
      /\ UNCHANGED <<m_eStatus, m_ConnectSocket, m_pSSL, m_pCTXSSL, left, count,
                     kernel, references, used>>
  BY DEF Handshake, Returns, members
<1>2. PICK done \in BOOLEAN :
        /\ session' = [session EXCEPT ![m_pSSL].state = IF done THEN "ready" ELSE "failed"]
        /\ result' = done
  BY DEF Handshake, Returns
<1>3. /\ m_eStatus = "CONNECTED" /\ count \in Calls /\ m_pSSL = count /\ used = <<>>
      /\ session[count].state = "new"
  BY <1>1 DEF Stages, SslClientTypeOK
<1>4. /\ session'[count].state \in {"ready", "failed"}
      /\ session'[count].fd = session[count].fd
      /\ \A n \in Calls : n # count => session'[n] = session[n]
  BY <1>2, <1>3 DEF SslClientTypeOK
<1>5. \A n \in Calls : Live(n)' <=> Live(n)
  BY <1>3, <1>4 DEF Live
<1>6. SslClientTypeOK'
  BY <1>1, <1>2, <1>3 DEF SslClientTypeOK
<1>7. Stages'
  BY <1>1, <1>3 DEF Stages
<1>8. Sessions'
  <2>1. \A n \in Calls : n > count' => session'[n].state = "none"
    BY <1>1, <1>3, <1>4 DEF Sessions, Calls
  <2>2. \A n \in Calls : Live(n)' => session'[n].fd \in Fds
    BY <1>4, <1>5 DEF Sessions
  <2>. QED
    BY <1>1, <1>3, <1>4, <1>5, <2>1, <2>2 DEF Sessions
<1>9. OwnsItsDescriptor' /\ UsesOwnSession' /\ FreesOnlyLive'
  BY <1>1, <1>3, <1>5 DEF OwnsItsDescriptor, UsesOwnSession, FreesOnlyLive
<1>. QED
  BY <1>6, <1>7, <1>8, <1>9

-----------------------------------------------------------------------------
(* The other calls *)

\* A call on a connected object uses what its last Connect made, if that worked.
LEMMA UsedNowEffect ==
  ASSUME SslClientIInv, at = "idle", m_eStatus = "CONNECTED", m_pSSL # 0, UsedNow
  PROVE  /\ used' \in Calls \X Owners
         /\ result => used' = <<count, count>>
<1>1. m_pSSL \in Calls /\ Live(m_pSSL)
  BY DEF SslClientIInv, SslClientTypeOK, FreesOnlyLive
<1>2. session[m_pSSL].fd \in Fds
  BY <1>1 DEF SslClientIInv, Sessions
<1>3. kernel[session[m_pSSL].fd] \in Owners
  BY <1>2 DEF SslClientIInv, SslClientTypeOK
<1>4. ASSUME result
      PROVE  m_pSSL = count /\ kernel[session[m_pSSL].fd] = count
  <2>1. m_pSSL = count
    BY <1>4 DEF SslClientIInv, Sessions
  <2>2. session[m_pSSL].fd = m_ConnectSocket
    BY <1>1, <2>1 DEF SslClientIInv, Sessions
  <2>3. kernel[m_ConnectSocket] = count
    BY DEF SslClientIInv, Stages
  <2>. QED
    BY <2>1, <2>2, <2>3
<1>. QED
  BY <1>1, <1>3, <1>4 DEF UsedNow

LEMMA SendOrReceiveKeeps ==
  ASSUME SslClientIInv, SendOrReceive
  PROVE  SslClientIInv'
<1>. USE DEF SslClientIInv
<1>1. /\ at = "idle" /\ m_eStatus = "CONNECTED"
      /\ UNCHANGED <<m_eStatus, m_ConnectSocket, m_pSSL, m_pCTXSSL, left, count,
                     result, kernel, session, references>>
  BY DEF SendOrReceive, members, heap
<1>2. OwnsItsDescriptor' /\ FreesOnlyLive' /\ Sessions'
  <2>1. at' \in {"idle", "crashed"}
    BY <1>1 DEF SendOrReceive
  <2>. QED
    BY <1>1, <2>1 DEF OwnsItsDescriptor, FreesOnlyLive, Live, Sessions
<1>3. Stages'
  BY <1>1 DEF SendOrReceive, Stages
<1>4. CASE m_pSSL # 0 /\ UsedNow /\ UNCHANGED at
  <2>1. used' \in Calls \X Owners /\ UsesOwnSession'
    BY <1>1, <1>4, UsedNowEffect DEF UsesOwnSession
  <2>. QED
    BY <1>1, <1>2, <1>3, <1>4, <2>1 DEF SslClientTypeOK
<1>5. CASE m_pSSL = 0 /\ at' = "crashed" /\ UNCHANGED used
  BY <1>1, <1>2, <1>3, <1>5 DEF SslClientTypeOK, UsesOwnSession
<1>. QED
  BY <1>4, <1>5 DEF SendOrReceive

\* Disconnect, and with it the destructor: nothing of this object is left, and
\* nothing is given up that was not there.
LEMMA DisconnectEffect ==
  ASSUME SslClientIInv, at = "idle", DisconnectWhenConnected,
         UNCHANGED <<m_pCTXSSL, left, count, result>>,
         at' \in {"idle", "destroyed"}
  PROVE  SslClientIInv'
<1>. USE DEF SslClientIInv
<1>1. CASE m_eStatus = "CONNECTED" /\ m_pSSL # 0
  <2>1. /\ UsedNow /\ Close /\ m_pSSL' = 0
        /\ session' = [session EXCEPT ![m_pSSL].state = "freed"]
        /\ references' = [n \in Calls |-> references[n]
                            - (IF n = m_pSSL THEN 1 ELSE 0)
                            - (IF n = m_pCTXSSL THEN 1 ELSE 0)]
    BY <1>1 DEF DisconnectWhenConnected, ShutdownSSL
  <2>2. /\ m_eStatus' = "DISCONNECTED"
        /\ m_ConnectSocket' \in Fds \cup {Invalid}
        /\ kernel' \in [Fds -> Owners]
        /\ \A f \in Fds : kernel'[f] \notin Calls
    BY <2>1, CloseEffect
  <2>3. used' \in Calls \X Owners /\ (result => used' = <<count, count>>)
    BY <1>1, <2>1, UsedNowEffect
  <2>4. /\ m_pSSL \in Calls /\ Live(m_pSSL)
        /\ session'[m_pSSL].state = "freed"
        /\ \A n \in Calls : n # m_pSSL => session'[n] = session[n]
    BY <1>1, <2>1 DEF SslClientTypeOK, FreesOnlyLive
  <2>5. references' \in [Calls -> 0 .. 2]
    <3>1. \A n \in Calls :
            /\ references[n] \in 0 .. 2
            /\ references[n] >= (IF n = m_pSSL THEN 1 ELSE 0)
                                  + (IF n = m_pCTXSSL THEN 1 ELSE 0)
      BY <1>1 DEF SslClientTypeOK, FreesOnlyLive
    <3>2. \A n \in Calls : references'[n] \in 0 .. 2
      BY <2>1, <3>1
    <3>. QED
      BY <2>1, <3>2
  <2>6. session' \in [Calls -> [state : {"none", "new", "ready", "failed", "freed"},
                                fd : Fds \cup {Invalid}]]
    BY <2>1, <2>4 DEF SslClientTypeOK
  <2>7. SslClientTypeOK'
    BY <2>1, <2>2, <2>3, <2>5, <2>6 DEF SslClientTypeOK
  <2>8. Stages' /\ OwnsItsDescriptor' /\ UsesOwnSession' /\ FreesOnlyLive'
    BY <2>1, <2>2, <2>3 DEF Stages, OwnsItsDescriptor, UsesOwnSession, FreesOnlyLive
  <2>9. Sessions'
    <3>1. m_pSSL' <= count' /\ count \in Nat /\ m_pSSL \in Nat
      BY <2>1, SslClientAssumption DEF SslClientTypeOK, Calls
    <3>2. \A n \in Calls : n > count' => session'[n].state = "none"
      BY <2>4, <3>1 DEF Sessions, Calls
    <3>3. \A n \in Calls : Live(n)' => n # m_pSSL /\ session'[n].fd \in Fds
      BY <2>4 DEF Sessions, Live
    <3>4. \A n \in Calls : n = count' => ~Live(n)'
      BY <2>4, <3>3 DEF Sessions, Live
    <3>5. \A n \in Calls :
            session'[n].state = "freed" /\ n = count' => references'[n] = 0
      <4>. SUFFICES ASSUME NEW n \in Calls, session'[n].state = "freed", n = count
                    PROVE  references'[n] = 0
        OBVIOUS
      <4>1. CASE n = m_pSSL
        BY <2>1, <2>4, <4>1 DEF Sessions
      <4>2. CASE n # m_pSSL
        <5>1. references[n] = 0
          BY <2>4, <4>2 DEF Sessions
        <5>2. references[n] >= (IF n = m_pCTXSSL THEN 1 ELSE 0)
          BY <1>1, <4>2 DEF FreesOnlyLive
        <5>. QED
          BY <2>1, <4>2, <5>1, <5>2
      <4>. QED
        BY <4>1, <4>2
    <3>. QED
      BY <2>2, <3>1, <3>2, <3>3, <3>4, <3>5 DEF Sessions
  <2>. QED
    BY <2>7, <2>8, <2>9
<1>2. CASE m_eStatus = "CONNECTED" /\ m_pSSL = 0
  <2>1. Close /\ UNCHANGED <<m_pSSL, used, session, references>>
    BY <1>2 DEF DisconnectWhenConnected, ShutdownSSL, heap
  <2>2. /\ m_eStatus' = "DISCONNECTED"
        /\ m_ConnectSocket' \in Fds \cup {Invalid}
        /\ kernel' \in [Fds -> Owners]
        /\ \A f \in Fds : kernel'[f] \notin Calls
    BY <2>1, CloseEffect
  <2>3. SslClientTypeOK'
    BY <2>1, <2>2 DEF SslClientTypeOK
  <2>4. Stages' /\ OwnsItsDescriptor' /\ UsesOwnSession' /\ FreesOnlyLive'
    BY <1>2, <2>1, <2>2 DEF Stages, OwnsItsDescriptor, UsesOwnSession, FreesOnlyLive, Live
  <2>5. Sessions'
    BY <1>2, <2>1, <2>2 DEF Sessions, Live, Calls
  <2>. QED
    BY <2>3, <2>4, <2>5
<1>3. CASE m_eStatus = "DISCONNECTED"
  <2>1. UNCHANGED <<m_eStatus, m_ConnectSocket, m_pSSL, kernel, used, session, references>>
    BY <1>3 DEF DisconnectWhenConnected, heap
  <2>2. SslClientTypeOK'
    BY <2>1 DEF SslClientTypeOK
  <2>3. Stages' /\ Sessions'
    BY <1>3, <2>1 DEF Stages, Sessions, Live
  <2>4. OwnsItsDescriptor' /\ UsesOwnSession' /\ FreesOnlyLive'
    BY <2>1 DEF OwnsItsDescriptor, UsesOwnSession, FreesOnlyLive, Live
  <2>. QED
    BY <2>2, <2>3, <2>4
<1>. QED
  BY <1>1, <1>2, <1>3 DEF SslClientTypeOK

LEMMA DisconnectKeeps ==
  ASSUME SslClientIInv, Disconnect \/ Destroy
  PROVE  SslClientIInv'
  BY DisconnectEffect DEF Disconnect, Destroy

\* Another thread touches no descriptor of this object.
LEMMA OtherThreadKeeps ==
  ASSUME SslClientIInv, OtherThread
  PROVE  SslClientIInv'
<1>. USE DEF SslClientIInv
<1>1. UNCHANGED <<m_eStatus, m_ConnectSocket, m_pSSL, m_pCTXSSL, at, left, count,
                  result, session, references, used>>
  BY DEF OtherThread, members, heap
<1>2. PICK f \in Fds : \/ kernel[f] = Free /\ kernel' = [kernel EXCEPT ![f] = Other]
                       \/ kernel[f] = Other /\ kernel' = [kernel EXCEPT ![f] = Free]
  BY DEF OtherThread
<1>3. /\ kernel[f] \notin Calls /\ kernel'[f] \notin Calls /\ kernel' \in [Fds -> Owners]
      /\ \A g \in Fds : g # f => kernel'[g] = kernel[g]
  BY <1>2, OwnersDiffer DEF SslClientTypeOK
<1>4. SslClientTypeOK'
  BY <1>1, <1>3 DEF SslClientTypeOK
<1>5. Stages'
  BY <1>1, <1>3 DEF Stages, SslClientTypeOK
<1>6. OwnsItsDescriptor'
  BY <1>1, <1>3 DEF OwnsItsDescriptor
<1>7. Sessions' /\ UsesOwnSession' /\ FreesOnlyLive'
  BY <1>1 DEF Sessions, UsesOwnSession, FreesOnlyLive, Live
<1>. QED
  BY <1>4, <1>5, <1>6, <1>7

-----------------------------------------------------------------------------
(* The theorems *)

LEMMA InvNext ==
  ASSUME SslClientIInv, [SslClientNext]_cvars
  PROVE  SslClientIInv'
<1>1. CASE SslClientNext
  BY <1>1, ConnectKeeps, TryAddressKeeps, NoAddressKeeps, LoadContextKeeps,
     HandshakeKeeps, SendOrReceiveKeeps, DisconnectKeeps, OtherThreadKeeps
     DEF SslClientNext
<1>2. CASE UNCHANGED cvars
  BY <1>2 DEF cvars, members, heap, SslClientIInv, SslClientTypeOK, Stages, Sessions,
              OwnsItsDescriptor, UsesOwnSession, FreesOnlyLive, Live
<1>. QED
  BY <1>1, <1>2

\* The inductive invariant holds of an object whatever calls are made and fail
\* (tcp_ssl_client.cpp:28-223).
THEOREM SslClientInvariant == SslClientSpec => []SslClientIInv
<1>1. SslClientInit => SslClientIInv
  BY InvInit
<1>2. SslClientIInv /\ [SslClientNext]_cvars => SslClientIInv'
  BY InvNext
<1>. QED
  BY <1>1, <1>2, PTL DEF SslClientSpec

\* Reference counts stay within what the objects account for, descriptors and SSL
\* objects are those of some Connect (tcp_ssl_client.cpp:28-223).
THEOREM SslClientTyped == SslClientSpec => []SslClientTypeOK
<1>1. SslClientIInv => SslClientTypeOK
  BY DEF SslClientIInv
<1>. QED
  BY SslClientInvariant, <1>1, PTL

\* Whatever the other threads do with the numbers, no call closes a descriptor of
\* theirs or loses one of its own (tcp_client.cpp:91-161, 242-258).
THEOREM DescriptorSoundness == SslClientSpec => []OwnsItsDescriptor
<1>1. SslClientIInv => OwnsItsDescriptor
  BY DEF SslClientIInv
<1>. QED
  BY SslClientInvariant, <1>1, PTL

\* After a Connect that returned true data goes through the session it made, over
\* the connection it made (tcp_ssl_client.cpp:84-96, 130, 187, 211).
THEOREM SessionSoundness == SslClientSpec => []UsesOwnSession
<1>1. SslClientIInv => UsesOwnSession
  BY DEF SslClientIInv
<1>. QED
  BY SslClientInvariant, <1>1, PTL

\* ShutdownSSL frees only what is there, object and contexts (secure_socket.cpp:132-139).
THEOREM FreeSoundness == SslClientSpec => []FreesOnlyLive
<1>1. SslClientIInv => FreesOnlyLive
  BY DEF SslClientIInv
<1>. QED
  BY SslClientInvariant, <1>1, PTL

\* The destructor releases what the last Connect made, but for a context whose files
\* could not be loaded (tcp_ssl_client.cpp:47-81, 205-223).
THEOREM ReleaseSoundness == SslClientSpec => []LastConnectReleased
<1>1. SslClientIInv => LastConnectReleased
  <2>. SUFFICES ASSUME SslClientIInv, at = "destroyed", count > 0
                PROVE  /\ ~Live(count)
                       /\ references[count] # 0 => session[count].state = "none"
    BY DEF LastConnectReleased
  <2>1. count \in Calls /\ m_eStatus = "DISCONNECTED"
    BY DEF SslClientIInv, SslClientTypeOK, Sessions
  <2>2. ~Live(count)
    BY <2>1 DEF SslClientIInv, Sessions
  <2>3. session[count].state \in {"none", "freed"}
    BY <2>1, <2>2 DEF SslClientIInv, SslClientTypeOK, Live
  <2>4. session[count].state = "freed" => references[count] = 0
    BY <2>1 DEF SslClientIInv, Sessions
  <2>. QED
    BY <2>2, <2>3, <2>4
<1>. QED
  BY SslClientInvariant, <1>1, PTL
=============================================================================
