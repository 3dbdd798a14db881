-------------------------- MODULE TlsTransport_proofs --------------------------
(***************************************************************************)
(* Proofs about the TLS connection, for every size of the pools and any    *)
(* number of failures: types, whose each PKCS #11 session is, that MQTT    *)
(* only talks over a connection that is ready; and, for pools larger than  *)
(* the failures, how much the failed connections may leave behind and that *)
(* the SNTP client gets its sockets and sessions.                          *)
(***************************************************************************)
EXTENDS TlsTransport, TLAPS, FiniteSetTheorems

\* The stages in which the agent has a socket that is open, and a context.
WithSocket == {"resolve", "connect", "malloc", "session", "init", "handshake", "mqtt",
               "loop", "close"}
WithContext == {"session", "init", "handshake", "mqtt", "loop", "close", "cleanup"}

\* What the agent has taken for the attempt that it is in.
AgentHolds ==
  /\ agentPc \in WithSocket => net.socket # Null /\ sockets[net.socket] = "mqtt"
  /\ agentPc \in WithContext => net.pTLSContext # Null /\ contexts[net.pTLSContext] # NoContext
  /\ agentPc \in {"create", "resolve", "connect", "malloc", "session"} =>
       \A c \in Contexts : contexts[c].xP11Session = Null
  /\ agentPc \in {"init", "handshake", "mqtt", "loop"} =>
       contexts[net.pTLSContext].xP11Session # Null
  /\ agentPc \in {"mqtt", "loop"} => contexts[net.pTLSContext].state = "up"

\* What the SNTP client has taken for the request that it is in.
SntpHolds ==
  /\ udp # Null => sockets[udp] = "sntp"
  /\ \A s \in Sockets : sockets[s] = "sntp" => s = udp
  /\ sntpPc \in {"port", "request", "response"} => udp # Null
  /\ sntpPc = "wait" => udp = Null
  /\ \A h \in Sessions : sessions[h] = "sntp" => h = random
  /\ random # Null => sntpPc \in {"port", "request"}

TransportInv == TransportTypeOK /\ SessionsAccounted /\ AgentHolds /\ SntpHolds

LEMMA NullIsNone == Null \notin Sockets /\ Null \notin Sessions /\ Null \notin Contexts
  BY DEF Null, Sockets, Sessions, Contexts

-----------------------------------------------------------------------------
(***************************************************************************)
(* The agent's task                                                        *)
(***************************************************************************)

\* prvFreeContext on the context in use leaves the agent without a session, and the
\* SNTP client's as it is.
LEMMA FreesContext ==
  ASSUME TransportInv, NEW state \in ContextStates, net.pTLSContext # Null,
         prvFreeContext(net.pTLSContext, state)
  PROVE  /\ sessions' \in [Sessions -> Users \cup {"free"}]
         /\ contexts' \in [Contexts -> [state : ContextStates, xP11Session : Sessions \cup {Null}]]
         /\ \A h \in Sessions : sessions'[h] # "mqtt"
         /\ \A h \in Sessions : sessions'[h] = "sntp" <=> sessions[h] = "sntp"
         /\ \A c \in Contexts : contexts'[c].xP11Session = Null
         /\ contexts'[net.pTLSContext] = [state |-> state, xP11Session |-> Null]
         /\ \A c \in Contexts \ {net.pTLSContext} : contexts'[c] = contexts[c]
<1> DEFINE c == net.pTLSContext
<1>1. c \in Contexts
  BY DEF TransportInv, TransportTypeOK
<1>2. contexts' = [contexts EXCEPT ![c] = [state |-> state, xP11Session |-> Null]]
  BY DEF prvFreeContext
<1>3. contexts' \in [Contexts -> [state : ContextStates, xP11Session : Sessions \cup {Null}]]
  BY <1>1, <1>2 DEF TransportInv, TransportTypeOK
<1>4. /\ contexts'[c] = [state |-> state, xP11Session |-> Null]
      /\ \A d \in Contexts \ {c} : contexts'[d] = contexts[d]
  BY <1>1, <1>2 DEF TransportInv, TransportTypeOK
<1>5. \A d \in Contexts : contexts'[d].xP11Session = Null
  BY <1>1, <1>4 DEF TransportInv, SessionsAccounted
<1>6. CASE contexts[c].xP11Session = Null
  <2>1. sessions' = sessions
    BY <1>6 DEF prvFreeContext
  <2>2. QED
    BY <2>1, <1>3, <1>4, <1>5, <1>6, NullIsNone DEF TransportInv, TransportTypeOK, SessionsAccounted
<1>7. CASE contexts[c].xP11Session # Null
  <2>1. /\ contexts[c].xP11Session \in Sessions
        /\ sessions[contexts[c].xP11Session] = "mqtt"
        /\ \A h \in Sessions : sessions[h] = "mqtt" => h = contexts[c].xP11Session
    BY <1>1, <1>7 DEF TransportInv, TransportTypeOK, SessionsAccounted
  <2>2. sessions' = [sessions EXCEPT ![contexts[c].xP11Session] = "free"]
    BY <1>7 DEF prvFreeContext
  <2>3. QED
    BY <2>1, <2>2, <1>3, <1>4, <1>5 DEF TransportInv, TransportTypeOK
<1>8. QED  BY <1>6, <1>7

\* The steps that neither take nor free anything.
LEMMA MovesOn ==
  ASSUME TransportInv,
         \/ HostResolved \/ ServerReached \/ ServerNotReached \/ SocketRefused
         \/ ContextRefused \/ MqttAccepted \/ MqttRefused \/ LoopGivesUp \/ CloseFails
  PROVE  TransportInv'
<1> USE DEF MqttAt, Fails, TransportInv, TransportTypeOK, SessionsAccounted, AgentHolds,
            SntpHolds, WithSocket, WithContext, Stages, sntpVars
<1>1. CASE SocketRefused
  BY <1>1, TransportAssumption DEF SocketRefused
<1>2. CASE HostResolved \/ ServerReached \/ ServerNotReached
  BY <1>2, TransportAssumption DEF HostResolved, ServerReached, ServerNotReached
<1>3. CASE ContextRefused
  BY <1>3, NullIsNone, TransportAssumption DEF ContextRefused
<1>4. CASE MqttAccepted \/ MqttRefused \/ LoopGivesUp
  BY <1>4, TransportAssumption DEF MqttAccepted, MqttRefused, LoopGivesUp
<1>5. CASE CloseFails
  BY <1>5, TransportAssumption DEF CloseFails
<1>6. QED  BY <1>1, <1>2, <1>3, <1>4, <1>5

\* The steps that take a socket, a context and a session, and those that set it up.
LEMMA TakesOne ==
  ASSUME TransportInv,
         \/ SocketCreated \/ ContextAllocated \/ SessionOpened \/ ContextSetUp \/ HandshakeDone
  PROVE  TransportInv'
<1> USE DEF MqttAt, TransportInv, TransportTypeOK, SessionsAccounted, AgentHolds,
            SntpHolds, WithSocket, WithContext, Stages, sntpVars
<1>1. CASE SocketCreated
  BY <1>1, NullIsNone DEF SocketCreated, Users
<1>2. CASE ContextAllocated
  BY <1>2, NullIsNone DEF ContextAllocated, NoContext, ContextStates
<1>3. CASE SessionOpened
  BY <1>3, NullIsNone DEF SessionOpened, Users, NoContext
<1>4. CASE ContextSetUp
  BY <1>4, NullIsNone DEF ContextSetUp, NoContext, ContextStates
<1>5. CASE HandshakeDone
  BY <1>5, NullIsNone DEF HandshakeDone, NoContext, ContextStates
<1>6. QED  BY <1>1, <1>2, <1>3, <1>4, <1>5

\* The steps that free a context or a socket.
LEMMA FreesOne ==
  ASSUME TransportInv,
         \/ InitFails \/ HandshakeFails \/ TransportFails \/ SocketClosed \/ ContextReleased
  PROVE  TransportInv'
<1> USE DEF MqttAt, Fails, TransportInv, TransportTypeOK, SessionsAccounted, AgentHolds,
            SntpHolds, WithSocket, WithContext, Stages, sntpVars
<1>1. CASE SocketClosed
  BY <1>1, NullIsNone DEF SocketClosed, Users
<1>2. ASSUME NEW state \in {"zero", "freed", "none"}, net.pTLSContext # Null,
             prvFreeContext(net.pTLSContext, state),
             UNCHANGED <<sockets, sntpVars>>
      PROVE  /\ sessions' \in [Sessions -> Users \cup {"free"}]
             /\ contexts' \in [Contexts -> [state : ContextStates, xP11Session : Sessions \cup {Null}]]
             /\ \A h \in Sessions : sessions'[h] # "mqtt"
             /\ \A c \in Contexts : contexts'[c].xP11Session = Null
             /\ contexts'[net.pTLSContext] = [state |-> state, xP11Session |-> Null]
             /\ SntpHolds'
             /\ random' # Null => sessions'[random'] = "sntp"
  <2>1. state \in ContextStates
    BY DEF ContextStates
  <2>2. QED
    BY <1>2, <2>1, FreesContext
<1>3. failures \in Nat /\ (failures < MaxFailures => failures + 1 \in 0 .. MaxFailures)
  BY TransportAssumption
<1>4. CASE InitFails
  <2>1. net.pTLSContext # Null
    BY <1>4 DEF InitFails
  <2>2. QED
    BY <1>2, <1>3, <1>4, <2>1 DEF InitFails
<1>5. CASE HandshakeFails
  <2>1. net.pTLSContext # Null
    BY <1>5 DEF HandshakeFails
  <2>2. QED
    BY <1>2, <1>3, <1>5, <2>1 DEF HandshakeFails
<1>6. CASE TransportFails
  <2>1. net.pTLSContext # Null
    BY <1>6 DEF TransportFails
  <2>2. QED
    BY <1>2, <1>3, <1>6, <2>1 DEF TransportFails, NoContext
<1>7. CASE ContextReleased
  <2>1. net.pTLSContext # Null
    BY <1>7 DEF ContextReleased
  <2>2. QED
    BY <1>2, <1>7, <2>1 DEF ContextReleased
<1>8. QED  BY <1>1, <1>4, <1>5, <1>6, <1>7

-----------------------------------------------------------------------------
(***************************************************************************)
(* The SNTP client, and the invariant                                      *)
(***************************************************************************)

LEMMA SntpSteps == ASSUME TransportInv, SntpTask PROVE TransportInv'
<1> USE DEF TransportInv, TransportTypeOK, SessionsAccounted, AgentHolds, SntpHolds, agentVars
<1>1. CASE createUdpSocket
  BY <1>1, NullIsNone DEF createUdpSocket, Users
<1>2. CASE RandomSession
  BY <1>2, NullIsNone DEF RandomSession, Users
<1>3. CASE RandomDone
  BY <1>3, NullIsNone DEF RandomDone, Users
<1>4. CASE closeUdpSocket
  BY <1>4, NullIsNone DEF closeUdpSocket, Users
<1>5. QED  BY <1>1, <1>2, <1>3, <1>4 DEF SntpTask

LEMMA InitHolds == TransportInit => TransportInv
  BY NullIsNone, TransportAssumption
    DEF TransportInit, TransportInv, TransportTypeOK, SessionsAccounted, AgentHolds, SntpHolds,
        Stages, NoContext, ContextStates, Users, WithSocket, WithContext

LEMMA StepHolds == TransportInv /\ [Next]_vars => TransportInv'
<1>1. ASSUME TransportInv, UNCHANGED vars PROVE TransportInv'
  BY <1>1 DEF vars, agentVars, sntpVars, TransportInv, TransportTypeOK, SessionsAccounted,
              AgentHolds, SntpHolds
<1>2. QED
  BY <1>1, MovesOn, TakesOne, FreesOne, SntpSteps DEF Next, MqttTask, Connect, Use, Disconnect

LEMMA Invariant == Spec => []TransportInv
  BY InitHolds, StepHolds, PTL DEF Spec

\* Every variable keeps its type: no handle leaves its pool.
THEOREM TransportTypesCorrect == Spec => []TransportTypeOK
<1>1. TransportInv => TransportTypeOK  BY DEF TransportInv
<1>2. QED  BY <1>1, Invariant, PTL

\* prvFreeContext closes the session of its context and no other, once, and no
\* session of the agent is ever without its context.
THEOREM SessionsAreAccounted == Spec => []SessionsAccounted
<1>1. TransportInv => SessionsAccounted  BY DEF TransportInv
<1>2. QED  BY <1>1, Invariant, PTL

\* The command loop only runs over a socket that is open and a context that is up.
THEOREM ConnectedMeansReady == Spec => []ConnectedIsReady
<1>1. TransportInv => ConnectedIsReady
  BY DEF TransportInv, AgentHolds, ConnectedIsReady, WithSocket, WithContext
<1>2. QED  BY <1>1, Invariant, PTL

-----------------------------------------------------------------------------
(***************************************************************************)
(* What the failures leave behind                                          *)
(***************************************************************************)

MqttSockets == {s \in Sockets : sockets[s] = "mqtt"}
HeldContexts == {c \in Contexts : contexts[c] # NoContext}

\* Each failure leaves at most a socket and a context, beside those of the attempt.
Leaks ==
  /\ Cardinality(MqttSockets) <= failures + (IF agentPc \in WithSocket THEN 1 ELSE 0)
  /\ Cardinality(HeldContexts) <= failures + (IF agentPc \in WithContext THEN 1 ELSE 0)

\* Pools larger than the failures.
Ample == MaxSessions >= 2 /\ MaxContexts > MaxFailures

LEMMA PoolsFinite ==
  /\ IsFiniteSet(Sockets) /\ Cardinality(Sockets) = MaxSockets
  /\ IsFiniteSet(Contexts) /\ Cardinality(Contexts) = MaxContexts
<1>1. \A n \in Nat : IsFiniteSet(1 .. n) /\ Cardinality(1 .. n) = n
  BY FS_Interval
<1>2. QED  BY <1>1, TransportAssumption DEF Sockets, Contexts

LEMMA HeldFinite ==
  /\ IsFiniteSet(MqttSockets) /\ Cardinality(MqttSockets) \in Nat
  /\ IsFiniteSet(HeldContexts) /\ Cardinality(HeldContexts) \in Nat
<1>1. IsFiniteSet(MqttSockets) /\ IsFiniteSet(HeldContexts)
  BY PoolsFinite, FS_Subset, MqttSockets \subseteq Sockets, HeldContexts \subseteq Contexts
    DEF MqttSockets, HeldContexts
<1>2. QED  BY <1>1, FS_CardinalityType

\* A session is left for the agent's context: the SNTP client has no more than one.
LEMMA SessionLeft ==
  ASSUME TransportInv, Ample, agentPc = "session"
  PROVE  \E h \in Sessions : sessions[h] = "free"
<1>1. {1, 2} \subseteq Sessions
  BY TransportAssumption DEF Ample, Sessions
<1>2. \A h \in Sessions : sessions[h] # "mqtt"
  <2>1. net.pTLSContext \in Contexts
    BY DEF TransportInv, TransportTypeOK, AgentHolds, WithContext
  <2>2. contexts[net.pTLSContext].xP11Session = Null
    BY <2>1 DEF TransportInv, AgentHolds
  <2>3. QED  BY <2>2, NullIsNone DEF TransportInv, SessionsAccounted
<1>3. \E h \in {1, 2} : h # random
  OBVIOUS
<1>4. QED
  BY <1>1, <1>2, <1>3 DEF TransportInv, TransportTypeOK, SntpHolds, Users

\* Memory is left for another context.
LEMMA ContextLeft ==
  ASSUME TransportInv, Ample, Leaks, agentPc = "malloc"
  PROVE  \E c \in Contexts : contexts[c] = NoContext
<1>1. SUFFICES ASSUME HeldContexts = Contexts PROVE FALSE
  BY DEF HeldContexts
<1>2. Cardinality(HeldContexts) <= failures
  BY HeldFinite, TransportAssumption DEF Leaks, WithContext, TransportInv, TransportTypeOK
<1>3. QED
  BY <1>1, <1>2, PoolsFinite, TransportAssumption DEF Ample, TransportInv, TransportTypeOK

\* The sockets of the agent change by the one of the attempt; the SNTP client's steps
\* leave them alone.
LEMMA SocketSteps ==
  ASSUME TransportInv, Ample, Leaks, [Next]_vars
  PROVE  Cardinality(MqttSockets)' <= failures' + (IF agentPc' \in WithSocket THEN 1 ELSE 0)
<1> DEFINE n == Cardinality(MqttSockets)
<1>1. /\ n \in Nat /\ failures \in Nat
      /\ n <= failures + (IF agentPc \in WithSocket THEN 1 ELSE 0)
  BY HeldFinite DEF Leaks, TransportInv, TransportTypeOK
<1>2. CASE SocketCreated
  <2>1. PICK s \in Sockets : sockets[s] = "free" /\ sockets' = [sockets EXCEPT ![s] = "mqtt"]
    BY <1>2 DEF SocketCreated
  <2>2. MqttSockets' = MqttSockets \cup {s} /\ s \notin MqttSockets
    BY <2>1 DEF MqttSockets, TransportInv, TransportTypeOK
  <2>3. Cardinality(MqttSockets') = n + 1
    BY <2>2, HeldFinite, FS_AddElement
  <2>4. agentPc = "create" /\ agentPc' = "resolve" /\ failures' = failures
    BY <1>2 DEF SocketCreated, MqttAt
  <2>5. QED  BY <1>1, <2>3, <2>4 DEF WithSocket
<1>3. CASE SocketClosed
  <2>1. net.socket \in MqttSockets
    BY <1>3, NullIsNone
      DEF SocketClosed, MqttAt, MqttSockets, TransportInv, TransportTypeOK, AgentHolds, WithSocket
  <2>2. MqttSockets' = MqttSockets \ {net.socket}
    BY <1>3, <2>1 DEF SocketClosed, MqttSockets, TransportInv, TransportTypeOK
  <2>3. Cardinality(MqttSockets') = n - 1
    BY <2>1, <2>2, HeldFinite, FS_RemoveElement
  <2>4. agentPc = "close" /\ agentPc' = "cleanup" /\ failures' = failures
    BY <1>3 DEF SocketClosed, MqttAt
  <2>5. QED  BY <1>1, <2>3, <2>4 DEF WithSocket
<1>4. CASE MqttTask /\ ~SocketCreated /\ ~SocketClosed
  <2>1. MqttSockets' = MqttSockets
    BY <1>4
      DEF MqttSockets, MqttTask, Connect, Use, Disconnect, SocketRefused, HostResolved,
          ServerReached, ServerNotReached, ContextAllocated, ContextRefused, SessionOpened,
          ContextSetUp, InitFails, HandshakeDone, HandshakeFails, MqttAccepted, MqttRefused,
          TransportFails, LoopGivesUp, CloseFails, ContextReleased
  <2>2. \/ failures' = failures + 1
        \/ failures' = failures /\ (agentPc \in WithSocket => agentPc' \in WithSocket)
    BY <1>4, SessionLeft, ContextLeft
      DEF MqttTask, Connect, Use, Disconnect, SocketRefused, HostResolved,
          ServerReached, ServerNotReached, ContextAllocated, ContextRefused, SessionOpened,
          ContextSetUp, InitFails, HandshakeDone, HandshakeFails, MqttAccepted, MqttRefused,
          TransportFails, LoopGivesUp, CloseFails, ContextReleased, MqttAt, Fails, WithSocket
  <2>3. QED  BY <1>1, <2>1, <2>2
<1>5. CASE SntpTask \/ UNCHANGED vars
  <2>1. MqttSockets' = MqttSockets
    BY <1>5, NullIsNone
      DEF MqttSockets, SntpTask, createUdpSocket, RandomSession, RandomDone, closeUdpSocket, vars,
          TransportInv, TransportTypeOK, SntpHolds
  <2>2. agentPc' = agentPc /\ failures' = failures
    BY <1>5 DEF SntpTask, createUdpSocket, RandomSession, RandomDone, closeUdpSocket, vars, agentVars
  <2>3. QED  BY <1>1, <2>1, <2>2
<1>6. QED  BY <1>2, <1>3, <1>4, <1>5 DEF Next

\* So do its contexts.
LEMMA ContextSteps ==
  ASSUME TransportInv, Ample, Leaks, [Next]_vars
  PROVE  Cardinality(HeldContexts)' <= failures' + (IF agentPc' \in WithContext THEN 1 ELSE 0)
<1> DEFINE n == Cardinality(HeldContexts)
<1>1. /\ n \in Nat /\ failures \in Nat
      /\ n <= failures + (IF agentPc \in WithContext THEN 1 ELSE 0)
  BY HeldFinite DEF Leaks, TransportInv, TransportTypeOK
<1>2. CASE ContextAllocated
  <2>1. PICK c \in Contexts : contexts[c] = NoContext /\ contexts' = [contexts EXCEPT ![c].state = "zero"]
    BY <1>2 DEF ContextAllocated
  <2>2. HeldContexts' = HeldContexts \cup {c} /\ c \notin HeldContexts
    BY <2>1 DEF HeldContexts, NoContext, TransportInv, TransportTypeOK
  <2>3. Cardinality(HeldContexts') = n + 1
    BY <2>2, HeldFinite, FS_AddElement
  <2>4. agentPc = "malloc" /\ agentPc' = "session" /\ failures' = failures
    BY <1>2 DEF ContextAllocated, MqttAt
  <2>5. QED  BY <1>1, <2>3, <2>4 DEF WithContext
<1>3. CASE ContextReleased
  <2>1. net.pTLSContext \in HeldContexts /\ net.pTLSContext # Null
    BY <1>3
      DEF ContextReleased, MqttAt, HeldContexts, TransportInv, TransportTypeOK, AgentHolds, WithContext
  <2>2. HeldContexts' = HeldContexts \ {net.pTLSContext}
    BY <1>3, <2>1, FreesContext DEF ContextReleased, HeldContexts, NoContext, ContextStates
  <2>3. Cardinality(HeldContexts') = n - 1
    BY <2>1, <2>2, HeldFinite, FS_RemoveElement
  <2>4. agentPc = "cleanup" /\ agentPc' = "create" /\ failures' = failures
    BY <1>3 DEF ContextReleased, MqttAt
  <2>5. QED  BY <1>1, <2>3, <2>4 DEF WithContext
<1>4. CASE InitFails \/ HandshakeFails \/ TransportFails
  <2>1. /\ net.pTLSContext \in HeldContexts /\ net.pTLSContext # Null
        /\ agentPc \in WithContext
    BY <1>4
      DEF InitFails, HandshakeFails, TransportFails, MqttAt, HeldContexts, TransportInv,
          TransportTypeOK, AgentHolds, WithContext
  <2>2. PICK state \in {"zero", "freed"} : prvFreeContext(net.pTLSContext, state)
    BY <1>4 DEF InitFails, HandshakeFails, TransportFails
  <2>3. HeldContexts' = HeldContexts
    BY <2>1, <2>2, FreesContext DEF HeldContexts, NoContext, ContextStates
  <2>4. \/ failures' = failures + 1
        \/ failures' = failures /\ agentPc' \in WithContext
    BY <1>4, SessionLeft DEF InitFails, HandshakeFails, TransportFails, MqttAt, Fails, WithContext
  <2>5. QED  BY <1>1, <2>1, <2>3, <2>4
<1>5. CASE SessionOpened \/ ContextSetUp \/ HandshakeDone
  <2>1. net.pTLSContext \in HeldContexts
    BY <1>5
      DEF SessionOpened, ContextSetUp, HandshakeDone, MqttAt, HeldContexts, TransportInv,
          TransportTypeOK, AgentHolds, WithContext
  <2>2. HeldContexts' = HeldContexts
    BY <1>5, <2>1, NullIsNone
      DEF SessionOpened, ContextSetUp, HandshakeDone, HeldContexts, NoContext, TransportInv,
          TransportTypeOK
  <2>3. failures' = failures /\ agentPc' \in WithContext
    BY <1>5 DEF SessionOpened, ContextSetUp, HandshakeDone, WithContext
  <2>4. QED  BY <1>1, <2>2, <2>3
<1>6. CASE \/ SocketCreated \/ SocketRefused \/ HostResolved \/ ServerReached \/ ServerNotReached
           \/ ContextRefused \/ MqttAccepted \/ MqttRefused \/ LoopGivesUp
           \/ SocketClosed \/ CloseFails \/ SntpTask \/ UNCHANGED vars
  <2>1. HeldContexts' = HeldContexts
    BY <1>6
      DEF HeldContexts, SocketCreated, SocketRefused, HostResolved, ServerReached, ServerNotReached,
          ContextRefused, MqttAccepted, MqttRefused, LoopGivesUp, SocketClosed, CloseFails,
          SntpTask, createUdpSocket, RandomSession, RandomDone, closeUdpSocket, vars, agentVars
  <2>2. /\ failures' \in {failures, failures + 1}
        /\ agentPc \in WithContext => agentPc' \in WithContext
    BY <1>6
      DEF SocketCreated, SocketRefused, HostResolved, ServerReached, ServerNotReached,
          ContextRefused, MqttAccepted, MqttRefused, LoopGivesUp, SocketClosed, CloseFails,
          SntpTask, createUdpSocket, RandomSession, RandomDone, closeUdpSocket, vars, agentVars,
          MqttAt, Fails, WithContext
  <2>3. QED  BY <1>1, <2>1, <2>2
<1>7. QED
  BY <1>2, <1>3, <1>4, <1>5, <1>6 DEF Next, MqttTask, Connect, Use, Disconnect

LEMMA LeaksInit == TransportInit => Leaks
<1>1. SUFFICES ASSUME TransportInit PROVE Leaks
  OBVIOUS
<1>2. MqttSockets = {} /\ HeldContexts = {}
  BY <1>1 DEF TransportInit, MqttSockets, HeldContexts
<1>3. QED  BY <1>1, <1>2, FS_EmptySet DEF TransportInit, Leaks, WithSocket, WithContext

LEMMA LeaksInvariant == ASSUME Ample PROVE Spec => [](TransportInv /\ Leaks)
<1>1. TransportInv /\ Leaks /\ [Next]_vars => Leaks'
  BY SocketSteps, ContextSteps DEF Leaks
<1>2. QED  BY <1>1, InitHolds, StepHolds, LeaksInit, PTL DEF Spec

\* Where the heap has room for one context more than connections fail, and there is
\* a session for each user, the agent keeps no more than the failures left behind.
THEOREM LeaksAreBounded ==
  ASSUME MaxSessions >= 2, MaxContexts > MaxFailures
  PROVE  Spec => []LeaksBounded
<1>1. TransportInv /\ Leaks => LeaksBounded
  <2>1. WithSocket \cup WithContext \subseteq Stages \ {"create"}
    BY DEF WithSocket, WithContext, Stages
  <2>2. QED
    BY <2>1, HeldFinite
      DEF Leaks, LeaksBounded, MqttSockets, HeldContexts, TransportInv, TransportTypeOK
<1>2. QED  BY <1>1, LeaksInvariant, PTL DEF Ample

\* With two sockets more than connections fail besides, createUdpSocket and
\* generateRandomNumber never meet an empty pool.
THEOREM SntpIsServed ==
  ASSUME MaxSessions >= 2, MaxContexts > MaxFailures, MaxSockets >= MaxFailures + 2
  PROVE  Spec => []SntpServed
<1>1. ASSUME TransportInv, Leaks, sntpPc = "wait"
      PROVE  \E s \in Sockets : sockets[s] = "free"
  <2>1. SUFFICES ASSUME \A s \in Sockets : sockets[s] # "free" PROVE FALSE
    OBVIOUS
  <2>2. MqttSockets = Sockets
    BY <1>1, <2>1, NullIsNone DEF MqttSockets, TransportInv, TransportTypeOK, SntpHolds, Users
  <2>3. Cardinality(MqttSockets) <= failures + 1
    BY <1>1, HeldFinite DEF Leaks, TransportInv, TransportTypeOK
  <2>4. QED
    BY <1>1, <2>2, <2>3, PoolsFinite, TransportAssumption DEF TransportInv, TransportTypeOK
<1>2. ASSUME TransportInv, random = Null
      PROVE  \E h \in Sessions : sessions[h] = "free"
  <2>1. \A h \in Sessions : sessions[h] \in {"mqtt", "free"}
    BY <1>2, NullIsNone DEF TransportInv, TransportTypeOK, SntpHolds, Users
  <2>2. \A h, k \in Sessions : sessions[h] = "mqtt" /\ sessions[k] = "mqtt" => h = k
    BY <1>2 DEF TransportInv, SessionsAccounted
  <2>3. 1 \in Sessions /\ 2 \in Sessions /\ 1 # 2
    BY TransportAssumption DEF Sessions
  <2>4. QED  BY <2>1, <2>2, <2>3
<1>3. TransportInv /\ Leaks /\ SntpServed /\ [Next]_vars => SntpServed'
  <2>1. SUFFICES ASSUME TransportInv, Leaks, SntpServed, [Next]_vars PROVE sntpPc' # "asserted"
    BY DEF SntpServed, Asserted
  <2>2. CASE SntpTask
    BY <1>1, <1>2, <2>1, <2>2
      DEF SntpTask, createUdpSocket, RandomSession, RandomDone, closeUdpSocket, SntpServed, Asserted
  <2>3. CASE MqttTask
    BY <2>1, <2>3
      DEF MqttTask, Connect, Use, Disconnect, SocketCreated, SocketRefused, HostResolved,
          ServerReached, ServerNotReached, ContextAllocated, ContextRefused, SessionOpened,
          ContextSetUp, InitFails, HandshakeDone, HandshakeFails, MqttAccepted, MqttRefused,
          TransportFails, LoopGivesUp, SocketClosed, CloseFails, ContextReleased, sntpVars,
          SntpServed, Asserted
  <2>4. QED
    BY <2>1, <2>2, <2>3 DEF Next, vars, sntpVars, SntpServed, Asserted
<1>4. TransportInit => SntpServed
  BY DEF TransportInit, SntpServed, Asserted
<1>5. QED  BY <1>3, <1>4, LeaksInvariant, PTL DEF Ample, Spec
=============================================================================
