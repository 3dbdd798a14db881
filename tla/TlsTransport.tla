----------------------------- MODULE TlsTransport -----------------------------
(***************************************************************************)
(* The TLS connection of the MQTT agent, from prvSocketConnect to          *)
(* prvSocketDisconnect, with what it takes from the device: a socket, a    *)
(* TLS context of the heap and a PKCS #11 session.  The SNTP client of the *)
(* device advisor build takes sockets and sessions from the same pools,    *)
(* and asserts that it gets them.                                          *)
(*                                                                         *)
(* Transport_Connect leaves what it has taken when it fails, and           *)
(* prvMQTTAgentTask retries it without a disconnect.  A handle is the      *)
(* number of its slot, so that a handle kept too long may be another       *)
(* task's.  The network stack is iot_socket or FreeRTOS+TCP.               *)
(***************************************************************************)
EXTENDS Naturals, FiniteSets

CONSTANTS
  MaxSockets,   \* sockets of the network stack
  MaxSessions,  \* pkcs11configMAX_SESSIONS
  MaxContexts,  \* TLS contexts the heap has room for
  Stacks,       \* network stacks of the build: "iot_socket", "plus_tcp"
  MaxFailures   \* bound: connections that the network, the broker or the heap fails

ASSUME TransportAssumption ==
  /\ MaxSockets \in Nat \ {0}
  /\ MaxSessions \in Nat \ {0}
  /\ MaxContexts \in Nat \ {0}
  /\ Stacks \subseteq {"iot_socket", "plus_tcp"} /\ Stacks # {}
  /\ MaxFailures \in Nat

VARIABLES
  stack,     \* the network stack
  agentPc,   \* where prvMQTTAgentTask is
  net,       \* xNetworkContextMqtt
  sockets,   \* whose each socket of the network stack is
  sessions,  \* whose each PKCS #11 session is
  contexts,  \* the TLS contexts of the heap
  sntpPc,    \* where sntpTask is
  udp,       \* its socket
  random,    \* the session of generateRandomNumber
  failures   \* connections that failed

agentVars == <<agentPc, net, contexts, failures>>
sntpVars == <<sntpPc, udp, random>>
vars == <<stack, agentVars, sockets, sessions, sntpVars>>

-----------------------------------------------------------------------------
Sockets == 1 .. MaxSockets
Sessions == 1 .. MaxSessions
Contexts == 1 .. MaxContexts

Null == 0  \* no socket, CK_INVALID_HANDLE or a null pointer
Users == {"mqtt", "sntp"}

\* A context is not allocated, zero (before and after a failed initialisation), set up,
\* shaken hands with the server, or freed by prvFreeContext but still allocated.
ContextStates == {"none", "zero", "set", "up", "freed"}
NoContext == [state |-> "none", xP11Session |-> Null]

Stages == {"create", "resolve", "connect", "malloc", "session", "init",
           "handshake", "mqtt", "loop", "close", "cleanup"}

TransportInit ==
  /\ stack \in Stacks
  /\ agentPc = "create"
  /\ net = [socket |-> Null, pTLSContext |-> Null]
  /\ sockets = [s \in Sockets |-> "free"]
  /\ sessions = [h \in Sessions |-> "free"]
  /\ contexts = [c \in Contexts |-> NoContext]
  /\ sntpPc = "wait" /\ udp = Null /\ random = Null
  /\ failures = 0

\* A configASSERT that fails stops the device.
Asserted == sntpPc = "asserted"

MqttAt(stage) == ~Asserted /\ agentPc = stage

\* The network, the broker or the heap fails once more.
Fails ==
  /\ failures < MaxFailures
  /\ failures' = failures + 1

-----------------------------------------------------------------------------
(***************************************************************************)
(* prvFreeContext                                                          *)
(***************************************************************************)

\* Mutant: the handle of the session is not reset.
prvFreeContext_KeepsHandle(c, state) ==
  /\ sessions' = IF contexts[c].xP11Session = Null THEN sessions
                 ELSE [sessions EXCEPT ![contexts[c].xP11Session] = "free"]
  /\ contexts' = [contexts EXCEPT ![c].state = state]

\* C_CloseSession closes whatever session has that handle.  What becomes of the memory
\* is the caller's business.  The announcement of the end to the server, which after a
\* close goes to a socket that is closed, has no effect here.
prvFreeContext(c, state) ==
  /\ sessions' = IF contexts[c].xP11Session = Null THEN sessions
                 ELSE [sessions EXCEPT ![contexts[c].xP11Session] = "free"]
  /\ contexts' = [contexts EXCEPT ![c] = [state |-> state, xP11Session |-> Null]]

-----------------------------------------------------------------------------
(***************************************************************************)
(* Transport_Connect                                                       *)
(***************************************************************************)

SocketCreated ==
  /\ MqttAt("create")
  /\ \E s \in Sockets :
       /\ sockets[s] = "free"
       /\ sockets' = [sockets EXCEPT ![s] = "mqtt"]
       /\ net' = [net EXCEPT !.socket = s]
  /\ agentPc' = "resolve"
  /\ UNCHANGED <<stack, sessions, contexts, failures, sntpVars>>

\* No socket is left, or no memory for one.  The retry follows a delay.
SocketRefused ==
  /\ MqttAt("create")
  /\ \/ Fails
     \/ (\A s \in Sockets : sockets[s] # "free") /\ UNCHANGED failures
  /\ net' = [net EXCEPT !.socket = Null]
  /\ UNCHANGED <<stack, agentPc, sockets, sessions, contexts, sntpVars>>

HostResolved ==
  /\ MqttAt("resolve")
  /\ agentPc' = "connect"
  /\ UNCHANGED <<stack, net, sockets, sessions, contexts, failures, sntpVars>>

ServerReached ==
  /\ MqttAt("connect")
  /\ agentPc' = "malloc"
  /\ UNCHANGED <<stack, net, sockets, sessions, contexts, failures, sntpVars>>

\* The host is not found or does not answer: the socket stays as it is.
ServerNotReached ==
  /\ MqttAt("resolve") \/ MqttAt("connect")
  /\ Fails
  /\ agentPc' = "create"
  /\ UNCHANGED <<stack, net, sockets, sessions, contexts, sntpVars>>

\* TLS_Init begins by clearing the context.
ContextAllocated ==
  /\ MqttAt("malloc")
  /\ \E c \in Contexts :
       /\ contexts[c] = NoContext
       /\ contexts' = [contexts EXCEPT ![c].state = "zero"]
       /\ net' = [net EXCEPT !.pTLSContext = c]
  /\ agentPc' = "session"
  /\ UNCHANGED <<stack, sockets, sessions, failures, sntpVars>>

ContextRefused ==
  /\ MqttAt("malloc")
  /\ \/ Fails
     \/ (\A c \in Contexts : contexts[c] # NoContext) /\ UNCHANGED failures
  /\ net' = [net EXCEPT !.pTLSContext = Null]
  /\ agentPc' = "create"
  /\ UNCHANGED <<stack, sockets, sessions, contexts, sntpVars>>

\* Mutant: the handle is counted from the slot after the session's.
SessionOpened_OffByOne ==
  /\ MqttAt("session")
  /\ \E h \in Sessions :
       /\ sessions[h] = "free"
       /\ sessions' = [sessions EXCEPT ![h] = "mqtt"]
       /\ contexts' = [contexts EXCEPT ![net.pTLSContext].xP11Session = h + 1]
  /\ agentPc' = "init"
  /\ UNCHANGED <<stack, net, sockets, failures, sntpVars>>

\* xInitializePkcs11Session, for the context.
SessionOpened ==
  /\ MqttAt("session")
  /\ \E h \in Sessions :
       /\ sessions[h] = "free"
       /\ sessions' = [sessions EXCEPT ![h] = "mqtt"]
       /\ contexts' = [contexts EXCEPT ![net.pTLSContext].xP11Session = h]
  /\ agentPc' = "init"
  /\ UNCHANGED <<stack, net, sockets, failures, sntpVars>>

\* The random generator, the certificates, the configuration and the client's
\* credentials: all these steps only change the context.
ContextSetUp ==
  /\ MqttAt("init")
  /\ contexts' = [contexts EXCEPT ![net.pTLSContext].state = "set"]
  /\ agentPc' = "handshake"
  /\ UNCHANGED <<stack, net, sockets, sessions, failures, sntpVars>>

\* One of the steps of TLS_Init fails: it frees and clears the context.
InitFails ==
  /\ \/ MqttAt("init") /\ Fails
     \/ MqttAt("session") /\ Fails
     \/ MqttAt("session") /\ (\A h \in Sessions : sessions[h] # "free") /\ UNCHANGED failures
  /\ prvFreeContext(net.pTLSContext, "zero")
  /\ agentPc' = "create"
  /\ UNCHANGED <<stack, net, sockets, sntpVars>>

HandshakeDone ==
  /\ MqttAt("handshake")
  /\ contexts' = [contexts EXCEPT ![net.pTLSContext].state = "up"]
  /\ agentPc' = "mqtt"
  /\ UNCHANGED <<stack, net, sockets, sessions, failures, sntpVars>>

\* Mutant: the context is left as it is when the handshake fails.
HandshakeFails_Keeps ==
  /\ MqttAt("handshake")
  /\ Fails
  /\ agentPc' = "create"
  /\ UNCHANGED <<stack, net, sockets, sessions, contexts, sntpVars>>

\* Mutant: the result of the handshake is lost, and the transport is used.
HandshakeFails_Ignored ==
  /\ MqttAt("handshake")
  /\ Fails
  /\ prvFreeContext(net.pTLSContext, "freed")
  /\ agentPc' = "mqtt"
  /\ UNCHANGED <<stack, net, sockets, sntpVars>>

\* The handshake goes on while it only wants to read or to write.
HandshakeFails ==
  /\ MqttAt("handshake")
  /\ Fails
  /\ prvFreeContext(net.pTLSContext, "freed")
  /\ agentPc' = "create"
  /\ UNCHANGED <<stack, net, sockets, sntpVars>>

-----------------------------------------------------------------------------
(***************************************************************************)
(* The connection in use                                                   *)
(***************************************************************************)

MqttAccepted ==
  /\ MqttAt("mqtt")
  /\ agentPc' = "loop"
  /\ UNCHANGED <<stack, net, sockets, sessions, contexts, failures, sntpVars>>

\* The broker refuses or does not answer: the TLS session is still there.
MqttRefused ==
  /\ MqttAt("mqtt")
  /\ Fails
  /\ agentPc' = "close"
  /\ UNCHANGED <<stack, net, sockets, sessions, contexts, sntpVars>>

\* TLS_Recv or TLS_Send meets an error that is not a retry, and invalidates the context.
TransportFails ==
  /\ \/ MqttAt("mqtt") /\ Fails
     \/ MqttAt("loop") /\ UNCHANGED failures
  /\ prvFreeContext(net.pTLSContext, "freed")
  /\ agentPc' = "close"
  /\ UNCHANGED <<stack, net, sockets, sntpVars>>

\* MQTTAgent_CommandLoop gives up for another reason, as a keep-alive without answer.
LoopGivesUp ==
  /\ MqttAt("loop")
  /\ agentPc' = "close"
  /\ UNCHANGED <<stack, net, sockets, sessions, contexts, failures, sntpVars>>

-----------------------------------------------------------------------------
(***************************************************************************)
(* Transport_Disconnect: the socket is closed, then the context goes       *)
(***************************************************************************)

\* Mutant: the socket of a connection that failed is not closed.
SocketClosed_Fails ==
  /\ MqttAt("close")
  /\ sockets' = IF contexts[net.pTLSContext].state = "freed" THEN sockets
                ELSE [sockets EXCEPT ![net.socket] = "free"]
  /\ agentPc' = "cleanup"
  /\ UNCHANGED <<stack, net, sessions, contexts, failures, sntpVars>>

SocketClosed ==
  /\ MqttAt("close")
  /\ sockets' = [sockets EXCEPT ![net.socket] = "free"]
  /\ agentPc' = "cleanup"
  /\ UNCHANGED <<stack, net, sessions, contexts, failures, sntpVars>>

\* iotSocketClose fails, other than for want of a retry; FreeRTOS_closesocket does not,
\* however the graceful shutdown before it went.
CloseFails ==
  /\ MqttAt("close")
  /\ stack = "iot_socket"
  /\ Fails
  /\ agentPc' = "cleanup"
  /\ UNCHANGED <<stack, net, sockets, sessions, contexts, sntpVars>>

\* Mutant: the context is cleaned but its memory is not given back.
ContextReleased_Kept ==
  /\ MqttAt("cleanup")
  /\ prvFreeContext(net.pTLSContext, "freed")
  /\ net' = [net EXCEPT !.pTLSContext = Null]
  /\ agentPc' = "create"
  /\ UNCHANGED <<stack, sockets, failures, sntpVars>>

\* TLS_Cleanup and vPortFree.
ContextReleased ==
  /\ MqttAt("cleanup")
  /\ prvFreeContext(net.pTLSContext, "none")
  /\ net' = [net EXCEPT !.pTLSContext = Null]
  /\ agentPc' = "create"
  /\ UNCHANGED <<stack, sockets, failures, sntpVars>>

-----------------------------------------------------------------------------
(***************************************************************************)
(* The SNTP client: one socket per request, one session per random number  *)
(***************************************************************************)

\* The port is random: generateRandomNumber follows.
createUdpSocket ==
  /\ sntpPc = "wait"
  /\ IF \E s \in Sockets : sockets[s] = "free"
     THEN \E s \in Sockets :
            /\ sockets[s] = "free"
            /\ sockets' = [sockets EXCEPT ![s] = "sntp"]
            /\ udp' = s
            /\ sntpPc' = "port"
     ELSE sntpPc' = "asserted" /\ UNCHANGED <<sockets, udp>>
  /\ UNCHANGED <<stack, agentVars, sessions, random>>

\* generateRandomNumber: it asserts that it got a session.
RandomSession ==
  /\ sntpPc \in {"port", "request"}
  /\ random = Null
  /\ IF \E h \in Sessions : sessions[h] = "free"
     THEN \E h \in Sessions :
            /\ sessions[h] = "free"
            /\ sessions' = [sessions EXCEPT ![h] = "sntp"]
            /\ random' = h
            /\ UNCHANGED sntpPc
     ELSE sntpPc' = "asserted" /\ UNCHANGED <<sessions, random>>
  /\ UNCHANGED <<stack, agentVars, sockets, udp>>

\* The first number is the port the socket is bound to, the second one is of the request.
RandomDone ==
  /\ random # Null
  /\ sessions' = [sessions EXCEPT ![random] = "free"]
  /\ random' = Null
  /\ sntpPc' = IF sntpPc = "port" THEN "request" ELSE "response"
  /\ UNCHANGED <<stack, agentVars, sockets, udp>>

\* Whatever the response: it does not matter here that the next poll may draw another
\* number for its back-off.
closeUdpSocket ==
  /\ sntpPc = "response"
  /\ sockets' = [sockets EXCEPT ![udp] = "free"]
  /\ udp' = Null
  /\ sntpPc' = "wait"
  /\ UNCHANGED <<stack, agentVars, sessions, random>>

-----------------------------------------------------------------------------
Connect ==
  \/ SocketCreated \/ SocketRefused
  \/ HostResolved \/ ServerReached \/ ServerNotReached
  \/ ContextAllocated \/ ContextRefused
  \/ SessionOpened \/ ContextSetUp \/ InitFails
  \/ HandshakeDone \/ HandshakeFails

Use == MqttAccepted \/ MqttRefused \/ TransportFails \/ LoopGivesUp

Disconnect == SocketClosed \/ CloseFails \/ ContextReleased

MqttTask == Connect \/ Use \/ Disconnect

SntpTask == createUdpSocket \/ RandomSession \/ RandomDone \/ closeUdpSocket

Next == MqttTask \/ SntpTask

Spec == TransportInit /\ [][Next]_vars

\* The sockets have time-outs, so no call of the agent task blocks for ever.  Nothing is
\* assumed of the SNTP client.
FairSpec == Spec /\ WF_vars(MqttTask)

-----------------------------------------------------------------------------
(***************************************************************************)
(* Properties                                                              *)
(***************************************************************************)

\* Type invariant of the connection and of what it shares with the SNTP client.
TransportTypeOK ==
  /\ stack \in Stacks
  /\ agentPc \in Stages
  /\ net \in [socket : Sockets \cup {Null}, pTLSContext : Contexts \cup {Null}]
  /\ sockets \in [Sockets -> Users \cup {"free"}]
  /\ sessions \in [Sessions -> Users \cup {"free"}]
  /\ contexts \in [Contexts -> [state : ContextStates, xP11Session : Sessions \cup {Null}]]
  /\ sntpPc \in {"wait", "port", "request", "response", "asserted"}
  /\ udp \in Sockets \cup {Null}
  /\ random \in Sessions \cup {Null}
  /\ failures \in 0 .. MaxFailures

\* No session is lost and no handle outlives its session: a PKCS #11 session of the
\* agent is the one of the context in use, however the attempts before failed and
\* however often prvFreeContext ran, and the SNTP client's session is never closed by
\* the agent.
SessionsAccounted ==
  /\ \A h \in Sessions : sessions[h] = "mqtt" =>
       net.pTLSContext # Null /\ contexts[net.pTLSContext].xP11Session = h
  /\ \A c \in Contexts : contexts[c].xP11Session # Null =>
       c = net.pTLSContext /\ sessions[contexts[c].xP11Session] = "mqtt"
  /\ random # Null => sessions[random] = "sntp"

\* MQTT talks over a socket that is open and the agent's own, in a context whose
\* handshake is done and whose session is open: never over what an error has freed.
ConnectedIsReady ==
  agentPc \in {"mqtt", "loop"} =>
    /\ net.socket # Null /\ sockets[net.socket] = "mqtt"
    /\ net.pTLSContext # Null
    /\ contexts[net.pTLSContext].state = "up"
    /\ contexts[net.pTLSContext].xP11Session # Null

\* A disconnect gives everything back: however many connections were made and lost, the
\* agent holds no more sockets and contexts than the failures left behind, and those of
\* the attempt it is in.
LeaksBounded ==
  LET inUse == IF agentPc = "create" THEN 0 ELSE 1 IN
  /\ Cardinality({s \in Sockets : sockets[s] = "mqtt"}) <= failures + inUse
  /\ Cardinality({c \in Contexts : contexts[c] # NoContext}) <= failures + inUse

\* The agent never takes the last socket or session from the SNTP client, whose
\* configASSERTs would stop the device (pools larger than the failures).
SntpServed == ~Asserted

\* As long as the network and the broker fail only a few times, the agent comes back to
\* its command loop after every loss of the connection.
Reconnects == []<>(agentPc = "loop")
=============================================================================
