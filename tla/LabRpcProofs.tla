----------------------------- MODULE LabRpcProofs -----------------------------
(***************************************************************************)
(* Proofs about module LabRpc, for any servers, calls and restarts.        *)
(***************************************************************************)
EXTENDS LabRpc, TLAPS

\* Places of a call for which ProcessReq has read an instance.
Bound == {"delayed", "waiting", "handled", "reply", "ok"}

\* The registered instance is the newest one, from AddServer to DeleteServer.
Registered ==
    \A s \in Server :
       /\ phase[s] \in {"up", "cut"} => servers[s] = boot[s]
       /\ phase[s] \notin {"up", "cut"} => servers[s] = 0

\* A handler that has returned has left its write in the Persister of its instance,
\* an instance that existed when ProcessReq read it.
Written ==
    \A c \in Call :
       /\ pc[c] \in Bound \/ handler[c] # "none" => inst[c] \in 1..boot[to[c]]
       /\ pc[c] \in {"handled", "reply", "ok"} => handler[c] = "returned"
       /\ handler[c] = "returned" => c \in store[to[c]][inst[c]]
       /\ pc[c] \in {"idle", "sent", "delayed"} => handler[c] = "none"

AckInv == TypeOK /\ Registered /\ Written /\ AckedPersists

\* An instance that is superseded or going down.
Gone(a) ==
    /\ a \in Instance
    /\ \/ a[2] < boot[a[1]]
       \/ a[2] = boot[a[1]] /\ phase[a[1]] \in {"cut", "deleted", "down"}

\* Its ends are disabled, and connected servers are up.
GoneDisabled ==
    /\ \A a \in Instance : Gone(a) => \A t \in Server : <<a, t>> \notin enabled
    /\ \A s \in Server : connected[s] => phase[s] = "up"

\* A call that was made after the crash comes from such an instance and has not got
\* past ReadEndnameInfo.
LateCalls ==
    \A c \in Call :
       /\ ~ live[c] => /\ Gone(from[c])
                       /\ pc[c] \in {"sent", "noReply", "failed"}
       /\ pc[c] \in {"idle", "sent"} \/ ~ live[c] => handler[c] = "none"

SilenceInv == TypeOK /\ GoneDisabled /\ LateCalls
-----------------------------------------------------------------------------
\* The types of the initial states.
LEMMA InitTyped == Init => TypeOK
<1> SUFFICES ASSUME Init PROVE TypeOK
  OBVIOUS
<1> USE NameAssumption
<1>1. enabled \subseteq Caller \X Server
  BY DEF Init, Caller, Instance
<1>2. from \in [Call -> Caller]
  BY DEF Init, Caller
<1>3. /\ servers \in [Server -> 0..MaxBoots] /\ boot \in [Server -> 1..MaxBoots]
      /\ inst \in [Call -> 0..MaxBoots]
  BY DEF Init
<1>4. /\ phase \in [Server -> {"up", "cut", "deleted", "down", "made"}]
      /\ handler \in [Call -> {"none", "running", "returned"}]
      /\ pc \in [Call -> CallPlace]
  BY DEF Init, CallPlace
<1>5. connected \in [Server -> BOOLEAN] /\ cleaned \in BOOLEAN /\ live \in [Call -> BOOLEAN]
  BY Zenon DEF Init
<1>6. /\ store \in [Server -> [1..MaxBoots -> SUBSET Call]]
      /\ saved \in [Server -> SUBSET Call]
  BY DEF Init
<1> QED BY Zenon, <1>1, <1>2, <1>3, <1>4, <1>5, <1>6 DEF Init, TypeOK

\* The types are kept.
LEMMA TypeKept ==
    ASSUME TypeOK, [Next]_vars
    PROVE  TypeOK'
<1> USE NameAssumption DEF TypeOK, callVars, harness
<1>1. ASSUME NEW c \in Call, NEW a \in Caller, NEW t \in Server,
            Send(c, a, t) PROVE TypeOK'
  <2>1. pc' \in [Call -> CallPlace]
    BY <1>1 DEF Send, CallPlace
  <2>2. from' \in [Call -> Caller] /\ to' \in [Call -> Server]
    BY <1>1 DEF Send
  <2>3. live' \in [Call -> BOOLEAN]
    BY <1>1 DEF Send
  <2> QED BY Zenon, <1>1, <2>1, <2>2, <2>3 DEF Send
<1>2. ASSUME NEW c \in Call, Accept(c) PROVE TypeOK'
  <2>1. /\ \E p \in CallPlace : pc' = [pc EXCEPT ![c] = p]
        /\ inst' = inst \/ inst' = [inst EXCEPT ![c] = servers[to[c]]]
    BY <1>2 DEF Accept, CallPlace
  <2>2. pc' \in [Call -> CallPlace]
    BY <2>1
  <2>3. inst' \in [Call -> 0..MaxBoots]
    BY ZenonT(60), <2>1
  <2> QED BY <1>2, <2>2, <2>3 DEF Accept
<1>3. ASSUME NEW c \in Call, Dispatch(c) PROVE TypeOK'
  <2>1. \E p \in CallPlace : pc' = [pc EXCEPT ![c] = p]
    BY <1>3 DEF Dispatch, CallPlace
  <2>2. pc' \in [Call -> CallPlace]
    BY <2>1
  <2>3. handler' \in [Call -> {"none", "running", "returned"}]
    BY Zenon, <1>3 DEF Dispatch
  <2> QED BY <1>3, <2>2, <2>3 DEF Dispatch
<1>4. ASSUME NEW c \in Call, Handler(c) PROVE TypeOK'
  <2> DEFINE row == [store[to[c]] EXCEPT ![inst[c]] = store[to[c]][inst[c]] \cup {c}]
  <2>1. store' = [store EXCEPT ![to[c]] = row]
    BY <1>4 DEF Handler
  <2>2. row \in [1..MaxBoots -> SUBSET Call]
    <3>1. store[to[c]] \in [1..MaxBoots -> SUBSET Call]
      OBVIOUS
    <3>2. inst[c] \in 1..MaxBoots => store[to[c]][inst[c]] \cup {c} \in SUBSET Call
      BY <3>1
    <3> QED BY Zenon, <3>1, <3>2
  <2>3. store' \in [Server -> [1..MaxBoots -> SUBSET Call]]
    BY <2>1, <2>2
  <2>4. handler' \in [Call -> {"none", "running", "returned"}]
    BY <1>4 DEF Handler
  <2> QED BY <1>4, <2>3, <2>4 DEF Handler
<1>5. ASSUME NEW c \in Call, Collect(c) PROVE TypeOK'
  <2>1. \E p \in CallPlace : pc' = [pc EXCEPT ![c] = p]
    BY <1>5 DEF Collect, CallPlace, Returned
  <2> QED BY <1>5, <2>1 DEF Collect
<1>6. ASSUME NEW c \in Call, Conclude(c) PROVE TypeOK'
  <2>1. \E p \in CallPlace : pc' = [pc EXCEPT ![c] = p]
    BY <1>6 DEF Conclude, CallPlace, Returned
  <2> QED BY <1>6, <2>1 DEF Conclude
<1>7. ASSUME NEW c \in Call, Return(c) PROVE TypeOK'
  <2>1. \E p \in CallPlace : pc' = [pc EXCEPT ![c] = p]
    BY Zenon, <1>7 DEF Return, CallPlace, Returned
  <2> QED BY <1>7, <2>1 DEF Return
<1>8. ASSUME NEW s \in Server, Connect(s) PROVE TypeOK'
  BY <1>8 DEF Connect, EndsBetween, Current, Caller, Instance
<1>9. ASSUME NEW s \in Server, Disconnect(s) PROVE TypeOK'
  BY Zenon, <1>9 DEF Disconnect
<1>10. ASSUME NEW s \in Server, DeleteServer(s) PROVE TypeOK'
  BY <1>10 DEF DeleteServer
<1>11. ASSUME NEW s \in Server, CopySaved(s) PROVE TypeOK'
  BY <1>11 DEF CopySaved
<1>12. ASSUME NEW s \in Server, MakeInstance(s) PROVE TypeOK'
  BY <1>12 DEF MakeInstance, NextBoot
<1>13. ASSUME NEW s \in Server, AddServer(s) PROVE TypeOK'
  BY <1>13 DEF AddServer
<1>14. ASSUME NEW s \in Server, EnableClient(s) PROVE TypeOK'
  BY <1>14 DEF EnableClient, Caller
<1>15. ASSUME Cleanup PROVE TypeOK'
  BY <1>15 DEF Cleanup
<1>16. ASSUME UNCHANGED vars PROVE TypeOK'
  BY <1>16 DEF vars
<1> QED
  BY Zenon, <1>1, <1>2, <1>3, <1>4, <1>5, <1>6, <1>7, <1>8, <1>9,
     <1>10, <1>11, <1>12, <1>13, <1>14, <1>15, <1>16 DEF Next

\* Which instance is registered.
LEMMA RegisteredKept ==
    ASSUME TypeOK, Registered, [Next]_vars
    PROVE  Registered'
<1> USE NameAssumption DEF TypeOK, Registered, callVars, harness
<1>1. ASSUME NEW c \in Call, NEW a \in Caller, NEW t \in Server,
            Send(c, a, t) PROVE Registered'
  BY <1>1 DEF Send
<1>2. ASSUME NEW c \in Call, Accept(c) PROVE Registered'
  BY <1>2 DEF Accept
<1>3. ASSUME NEW c \in Call, Dispatch(c) PROVE Registered'
  BY <1>3 DEF Dispatch
<1>4. ASSUME NEW c \in Call, Handler(c) PROVE Registered'
  BY <1>4 DEF Handler
<1>5. ASSUME NEW c \in Call, Collect(c) PROVE Registered'
  BY <1>5 DEF Collect
<1>6. ASSUME NEW c \in Call, Conclude(c) PROVE Registered'
  BY <1>6 DEF Conclude
<1>7. ASSUME NEW c \in Call, Return(c) PROVE Registered'
  BY <1>7 DEF Return
<1>8. ASSUME NEW s \in Server, Connect(s) PROVE Registered'
  BY <1>8 DEF Connect
<1>9. ASSUME NEW s \in Server, Disconnect(s) PROVE Registered'
  BY <1>9 DEF Disconnect
<1>10. ASSUME NEW s \in Server, DeleteServer(s) PROVE Registered'
  BY <1>10 DEF DeleteServer
<1>11. ASSUME NEW s \in Server, CopySaved(s) PROVE Registered'
  BY <1>11 DEF CopySaved
<1>12. ASSUME NEW s \in Server, MakeInstance(s) PROVE Registered'
  BY <1>12 DEF MakeInstance, NextBoot
<1>13. ASSUME NEW s \in Server, AddServer(s) PROVE Registered'
  BY <1>13 DEF AddServer
<1>14. ASSUME NEW s \in Server, EnableClient(s) PROVE Registered'
  BY <1>14 DEF EnableClient
<1>15. ASSUME Cleanup PROVE Registered'
  BY <1>15 DEF Cleanup
<1>16. ASSUME UNCHANGED vars PROVE Registered'
  BY <1>16 DEF vars
<1> QED
  BY Zenon, <1>1, <1>2, <1>3, <1>4, <1>5, <1>6, <1>7, <1>8, <1>9,
     <1>10, <1>11, <1>12, <1>13, <1>14, <1>15, <1>16 DEF Next

\* What handlers have written stays: only the Persister of a new instance is overwritten.
LEMMA WrittenKept ==
    ASSUME TypeOK, Registered, Written, [Next]_vars
    PROVE  Written'
<1> USE NameAssumption DEF TypeOK, Registered, Written, Bound, callVars, harness
<1>1. ASSUME NEW c \in Call, NEW a \in Caller, NEW t \in Server,
            Send(c, a, t) PROVE Written'
  BY <1>1 DEF Send
<1>2. ASSUME NEW c \in Call, Accept(c) PROVE Written'
  <2>1. CASE <<from[c], to[c]>> \in enabled /\ servers[to[c]] # 0
    <3>1. /\ pc' = [pc EXCEPT ![c] = "delayed"]
          /\ inst' = [inst EXCEPT ![c] = servers[to[c]]]
          /\ UNCHANGED <<store, boot, handler, to>>
      BY <1>2, <2>1 DEF Accept
    <3>2. to[c] \in Server /\ servers[to[c]] = boot[to[c]]
      BY <2>1
    <3>3. servers[to[c]] \in 1..boot[to[c]]
      BY <3>2
    <3>4. handler[c] = "none"
      BY <1>2 DEF Accept
    <3> QED BY <3>1, <3>3, <3>4
  <2>2. CASE ~ (<<from[c], to[c]>> \in enabled /\ servers[to[c]] # 0)
    BY <1>2, <2>2 DEF Accept
  <2> QED BY <2>1, <2>2
<1>3. ASSUME NEW c \in Call, Dispatch(c) PROVE Written'
  BY <1>3 DEF Dispatch
<1>4. ASSUME NEW c \in Call, Handler(c) PROVE Written'
  BY <1>4 DEF Handler
<1>5. ASSUME NEW c \in Call, Collect(c) PROVE Written'
  BY <1>5 DEF Collect
<1>6. ASSUME NEW c \in Call, Conclude(c) PROVE Written'
  BY <1>6 DEF Conclude
<1>7. ASSUME NEW c \in Call, Return(c) PROVE Written'
  BY <1>7 DEF Return
<1>8. ASSUME NEW s \in Server, Connect(s) PROVE Written'
  BY <1>8 DEF Connect
<1>9. ASSUME NEW s \in Server, Disconnect(s) PROVE Written'
  BY <1>9 DEF Disconnect
<1>10. ASSUME NEW s \in Server, DeleteServer(s) PROVE Written'
  BY <1>10 DEF DeleteServer
<1>11. ASSUME NEW s \in Server, CopySaved(s) PROVE Written'
  BY <1>11 DEF CopySaved
<1>12. ASSUME NEW s \in Server, MakeInstance(s) PROVE Written'
  BY <1>12 DEF MakeInstance, NextBoot
<1>13. ASSUME NEW s \in Server, AddServer(s) PROVE Written'
  BY <1>13 DEF AddServer
<1>14. ASSUME NEW s \in Server, EnableClient(s) PROVE Written'
  BY <1>14 DEF EnableClient
<1>15. ASSUME Cleanup PROVE Written'
  BY <1>15 DEF Cleanup
<1>16. ASSUME UNCHANGED vars PROVE Written'
  BY <1>16 DEF vars
<1> QED
  BY Zenon, <1>1, <1>2, <1>3, <1>4, <1>5, <1>6, <1>7, <1>8, <1>9,
     <1>10, <1>11, <1>12, <1>13, <1>14, <1>15, <1>16 DEF Next

\* What is acknowledged is durable.
LEMMA AckKept ==
    ASSUME TypeOK, Registered, Written, AckedPersists, [Next]_vars
    PROVE  AckedPersists'
<1> USE NameAssumption DEF TypeOK, Registered, Written, AckedPersists, Durable, Bound, callVars,
            harness
<1>1. ASSUME NEW c \in Call, NEW a \in Caller, NEW t \in Server,
            Send(c, a, t) PROVE AckedPersists'
  BY <1>1 DEF Send
<1>2. ASSUME NEW c \in Call, Accept(c) PROVE AckedPersists'
  BY <1>2 DEF Accept
<1>3. ASSUME NEW c \in Call, Dispatch(c) PROVE AckedPersists'
  BY <1>3 DEF Dispatch
<1>4. ASSUME NEW c \in Call, Handler(c) PROVE AckedPersists'
  BY <1>4 DEF Handler
<1>5. ASSUME NEW c \in Call, Collect(c) PROVE AckedPersists'
  BY <1>5 DEF Collect
<1>6. ASSUME NEW c \in Call, Conclude(c) PROVE AckedPersists'
  <2>1. CASE pc' = [pc EXCEPT ![c] = "noReply"]
    BY <1>6, <2>1 DEF Conclude
  <2>2. CASE ~ IsServerDead(c) /\ pc' = [pc EXCEPT ![c] = "reply"]
    <3>1. servers[to[c]] = inst[c] /\ inst[c] # 0 /\ c \in store[to[c]][inst[c]]
      BY <1>6, <2>2 DEF Conclude, IsServerDead
    <3>2. phase[to[c]] \in {"up", "cut"} /\ inst[c] = boot[to[c]]
      BY <3>1
    <3>3. c \in Durable(to[c])
      BY <3>1, <3>2
    <3> QED BY <1>6, <2>2, <3>3 DEF Conclude
  <2> QED BY Zenon, <1>6, <2>1, <2>2 DEF Conclude
<1>7. ASSUME NEW c \in Call, Return(c) PROVE AckedPersists'
  BY <1>7 DEF Return
<1>8. ASSUME NEW s \in Server, Connect(s) PROVE AckedPersists'
  BY <1>8 DEF Connect
<1>9. ASSUME NEW s \in Server, Disconnect(s) PROVE AckedPersists'
  BY <1>9 DEF Disconnect
<1>10. ASSUME NEW s \in Server, DeleteServer(s) PROVE AckedPersists'
  BY <1>10 DEF DeleteServer
<1>11. ASSUME NEW s \in Server, CopySaved(s) PROVE AckedPersists'
  BY <1>11 DEF CopySaved
<1>12. ASSUME NEW s \in Server, MakeInstance(s) PROVE AckedPersists'
  BY <1>12 DEF MakeInstance, NextBoot
<1>13. ASSUME NEW s \in Server, AddServer(s) PROVE AckedPersists'
  BY <1>13 DEF AddServer
<1>14. ASSUME NEW s \in Server, EnableClient(s) PROVE AckedPersists'
  BY <1>14 DEF EnableClient
<1>15. ASSUME Cleanup PROVE AckedPersists'
  BY <1>15 DEF Cleanup
<1>16. ASSUME UNCHANGED vars PROVE AckedPersists'
  BY <1>16 DEF vars
<1> QED
  BY Zenon, <1>1, <1>2, <1>3, <1>4, <1>5, <1>6, <1>7, <1>8, <1>9,
     <1>10, <1>11, <1>12, <1>13, <1>14, <1>15, <1>16 DEF Next

\* What a server acknowledges survives its crashes.
THEOREM AckedAlwaysPersists == Spec => []AckedPersists
<1>1. Init => AckInv
  <2> SUFFICES ASSUME Init PROVE AckInv
    OBVIOUS
  <2>1. TypeOK
    BY InitTyped
  <2> QED BY <2>1 DEF Init, AckInv, Registered, Written, AckedPersists, Bound
<1>2. AckInv /\ [Next]_vars => AckInv'
  BY TypeKept, RegisteredKept, WrittenKept, AckKept DEF AckInv
<1>3. AckInv => AckedPersists
  BY DEF AckInv
<1> QED BY <1>1, <1>2, <1>3, PTL DEF Spec

\* The ends of an instance that is gone stay disabled: connect enables the ends of
\* newest instances only, of servers that are up.
LEMMA GoneKept ==
    ASSUME TypeOK, GoneDisabled, [Next]_vars
    PROVE  GoneDisabled'
<1> USE NameAssumption DEF TypeOK, GoneDisabled, Gone, Instance, callVars, harness
<1>1. ASSUME NEW c \in Call, NEW a \in Caller, NEW t \in Server,
            Send(c, a, t) PROVE GoneDisabled'
  BY Zenon, <1>1 DEF Send
<1>2. ASSUME NEW c \in Call, Accept(c) PROVE GoneDisabled'
  BY Zenon, <1>2 DEF Accept
<1>3. ASSUME NEW c \in Call, Dispatch(c) PROVE GoneDisabled'
  BY Zenon, <1>3 DEF Dispatch
<1>4. ASSUME NEW c \in Call, Handler(c) PROVE GoneDisabled'
  BY Zenon, <1>4 DEF Handler
<1>5. ASSUME NEW c \in Call, Collect(c) PROVE GoneDisabled'
  BY Zenon, <1>5 DEF Collect
<1>6. ASSUME NEW c \in Call, Conclude(c) PROVE GoneDisabled'
  BY Zenon, <1>6 DEF Conclude
<1>7. ASSUME NEW c \in Call, Return(c) PROVE GoneDisabled'
  BY Zenon, <1>7 DEF Return
<1>8. ASSUME NEW s \in Server, Connect(s) PROVE GoneDisabled'
  <2>1. UNCHANGED <<boot, phase>> /\ phase[s] = "up"
    BY <1>8 DEF Connect
  <2>2. \A r \in Server : connected'[r] => phase[r] = "up"
    BY <1>8 DEF Connect
  <2>3. ASSUME NEW a \in Instance, Gone(a), NEW t \in Server
        PROVE  <<a, t>> \notin enabled'
    <3>1. \A r \in Server : phase[r] = "up" => a # <<r, boot[r]>>
      BY <2>3
    <3>2. <<a, t>> \notin EndsBetween(s, {r \in Server : connected'[r]})
      BY <2>1, <2>2, <3>1 DEF EndsBetween, Current
    <3>3. <<a, t>> \notin enabled
      BY Zenon, <2>3
    <3> QED BY <1>8, <3>2, <3>3 DEF Connect
  <2> QED BY <2>1, <2>2, <2>3
<1>9. ASSUME NEW s \in Server, Disconnect(s) PROVE GoneDisabled'
  <2>1. /\ enabled' = enabled \ EndsBetween(s, Server) /\ boot' = boot
        /\ phase' = phase \/ phase' = [phase EXCEPT ![s] = "cut"]
        /\ connected' = [connected EXCEPT ![s] = FALSE]
    BY <1>9 DEF Disconnect
  <2>2. \A r \in Server : connected'[r] => phase'[r] = "up"
    BY <2>1
  <2>3. ASSUME NEW a \in Instance, Gone(a)', NEW t \in Server
        PROVE  <<a, t>> \notin enabled'
    <3>1. CASE a = <<s, boot[s]>>
      BY <2>1, <3>1 DEF EndsBetween, Current
    <3>2. CASE a # <<s, boot[s]>>
      <4>1. Gone(a)
        BY SMTT(60), <2>1, <2>3, <3>2
      <4> QED BY Zenon, <2>1, <4>1
    <3> QED BY <3>1, <3>2
  <2> QED BY <2>2, <2>3
<1>10. ASSUME NEW s \in Server, DeleteServer(s) PROVE GoneDisabled'
  BY Zenon, <1>10 DEF DeleteServer
<1>11. ASSUME NEW s \in Server, CopySaved(s) PROVE GoneDisabled'
  BY Zenon, <1>11 DEF CopySaved
<1>12. ASSUME NEW s \in Server, MakeInstance(s) PROVE GoneDisabled'
  <2>1. /\ boot' = [boot EXCEPT ![s] = boot[s] + 1] /\ phase[s] = "down"
        /\ phase' = [phase EXCEPT ![s] = "made"]
        /\ UNCHANGED <<enabled, connected>>
    BY Zenon, <1>12 DEF MakeInstance, NextBoot
  <2>2. \A r \in Server : connected'[r] => phase'[r] = "up"
    BY <2>1
  <2>3. ASSUME NEW a \in Instance, Gone(a)' PROVE Gone(a)
    <3>1. a[1] \in Server /\ a[2] \in Int /\ boot \in [Server -> Int]
      OBVIOUS
    <3>2. CASE a[1] = s
      BY <2>1, <2>3, <3>1, <3>2
    <3>3. CASE a[1] # s
      BY <2>1, <2>3, <3>1, <3>3
    <3> QED BY Zenon, <3>2, <3>3
  <2> QED BY Zenon, <2>1, <2>2, <2>3
<1>13. ASSUME NEW s \in Server, AddServer(s) PROVE GoneDisabled'
  BY Zenon, <1>13 DEF AddServer
<1>14. ASSUME NEW s \in Server, EnableClient(s) PROVE GoneDisabled'
  BY SMTT(60), <1>14 DEF EnableClient
<1>15. ASSUME Cleanup PROVE GoneDisabled'
  BY Zenon, <1>15 DEF Cleanup
<1>16. ASSUME UNCHANGED vars PROVE GoneDisabled'
  BY Zenon, <1>16 DEF vars
<1> QED
  BY Zenon, <1>1, <1>2, <1>3, <1>4, <1>5, <1>6, <1>7, <1>8, <1>9,
     <1>10, <1>11, <1>12, <1>13, <1>14, <1>15, <1>16 DEF Next

\* A call that an instance makes after its crash is not let through.
LEMMA LateKept ==
    ASSUME TypeOK, GoneDisabled, LateCalls, [Next]_vars
    PROVE  LateCalls'
<1> USE NameAssumption DEF TypeOK, GoneDisabled, LateCalls, Gone, Instance, callVars, harness
<1>1. ASSUME NEW c \in Call, NEW a \in Caller, NEW t \in Server,
            Send(c, a, t) PROVE LateCalls'
  <2>1. ASSUME a \notin Running
        PROVE  Gone(a)
    <3>1. a \in Instance /\ a[1] \in Server /\ a[2] <= boot[a[1]]
      BY Zenon, <1>1, <2>1 DEF Send, Existing, Running
    <3>2. a = <<a[1], a[2]>> /\ a[2] \in 1..MaxBoots /\ boot[a[1]] \in 1..MaxBoots
      BY SMTT(60), <3>1
    <3>3. CASE a[2] = boot[a[1]]
      <4>1. phase[a[1]] \notin {"made", "up"}
        BY SMTT(60), <2>1, <3>1, <3>2, <3>3 DEF Running, Current
      <4> QED BY SMTT(60), <3>1, <3>3, <4>1
    <3> QED BY SMTT(60), <3>1, <3>2, <3>3
  <2>2. /\ pc' = [pc EXCEPT ![c] = "sent"] /\ from' = [from EXCEPT ![c] = a]
        /\ UNCHANGED <<boot, phase, handler>> /\ pc[c] = "idle"
    BY Zenon, <1>1 DEF Send
  <2>3. live' = [live EXCEPT ![c] = a \in Running]
    BY Zenon, <1>1 DEF Send
  <2>4. live'[c] = (a \in Running) /\ \A d \in Call : d # c => live'[d] = live[d]
    BY SMTT(60), <2>3
  <2>5. handler[c] = "none"
    BY Zenon, <2>2
  <2>6. ~ live'[c] => Gone(a)
    BY Zenon, <2>1, <2>4
  <2> SUFFICES ASSUME NEW d \in Call
               PROVE  /\ ~ live'[d] => /\ Gone(from[d])'
                                       /\ pc'[d] \in {"sent", "noReply", "failed"}
                      /\ pc'[d] \in {"idle", "sent"} \/ ~ live'[d] => handler'[d] = "none"
    BY Zenon
  <2>7. CASE d = c
    BY SMTT(60), <2>2, <2>5, <2>6, <2>7
  <2>8. CASE d # c
    <3>1. /\ from'[d] = from[d] /\ pc'[d] = pc[d] /\ live'[d] = live[d]
          /\ handler'[d] = handler[d]
      BY SMTT(60), <2>2, <2>4, <2>8
    <3>2. Gone(from[d])' <=> Gone(from[d])
      BY Zenon, <2>2, <3>1
    <3> QED BY Zenon, <3>1, <3>2
  <2> QED BY Zenon, <2>7, <2>8
<1>2. ASSUME NEW c \in Call, Accept(c) PROVE LateCalls'
  <2>1. ~ live[c] => <<from[c], to[c]>> \notin enabled
    BY Zenon DEF Caller
  <2>2. ~ live[c] => pc' = [pc EXCEPT ![c] = "noReply"]
    BY Zenon, <1>2, <2>1 DEF Accept
  <2>3. /\ \A d \in Call : d # c => pc'[d] = pc[d]
        /\ pc[c] = "sent" /\ pc'[c] \in {"delayed", "noReply"}
        /\ UNCHANGED <<boot, phase, handler, from, live>>
    BY SMTT(60), <1>2 DEF Accept
  <2>4. ~ live[c] => pc'[c] = "noReply"
    BY <2>2
  <2>5. \A d \in Call : Gone(from[d])' <=> Gone(from[d])
    BY Zenon, <2>3
  <2> QED BY SMTT(60), <2>3, <2>4, <2>5
<1>3. ASSUME NEW c \in Call, Dispatch(c) PROVE LateCalls'
  <2>1. live[c]
    BY Zenon, <1>3 DEF Dispatch
  <2>2. /\ \A d \in Call : d # c => pc'[d] = pc[d] /\ handler'[d] = handler[d]
        /\ pc'[c] \in {"waiting", "noReply"}
        /\ UNCHANGED <<boot, phase, from, live>>
    BY SMTT(60), <1>3 DEF Dispatch
  <2> QED BY SMTT(60), <2>1, <2>2
<1>4. ASSUME NEW c \in Call, Handler(c) PROVE LateCalls'
  BY SMTT(60), <1>4 DEF Handler
<1>5. ASSUME NEW c \in Call, Collect(c) PROVE LateCalls'
  <2>1. /\ \A d \in Call : d # c => pc'[d] = pc[d]
        /\ pc[c] = "waiting" /\ pc'[c] \in {"handled", "noReply"}
        /\ UNCHANGED <<boot, phase, handler, from, live>>
    BY SMTT(60), <1>5 DEF Collect
  <2> QED BY Zenon, <2>1
<1>6. ASSUME NEW c \in Call, Conclude(c) PROVE LateCalls'
  <2>1. /\ \A d \in Call : d # c => pc'[d] = pc[d]
        /\ pc[c] = "handled" /\ pc'[c] \in {"reply", "noReply"}
        /\ UNCHANGED <<boot, phase, handler, from, live>>
    BY SMTT(60), <1>6 DEF Conclude
  <2> QED BY Zenon, <2>1
<1>7. ASSUME NEW c \in Call, Return(c) PROVE LateCalls'
  BY SMTT(60), <1>7 DEF Return
<1>8. ASSUME NEW s \in Server, Connect(s) PROVE LateCalls'
  BY Zenon, <1>8 DEF Connect
<1>9. ASSUME NEW s \in Server, Disconnect(s) PROVE LateCalls'
  BY SMTT(60), <1>9 DEF Disconnect
<1>10. ASSUME NEW s \in Server, DeleteServer(s) PROVE LateCalls'
  BY Zenon, <1>10 DEF DeleteServer
<1>11. ASSUME NEW s \in Server, CopySaved(s) PROVE LateCalls'
  BY Zenon, <1>11 DEF CopySaved
<1>12. ASSUME NEW s \in Server, MakeInstance(s) PROVE LateCalls'
  <2>1. \A a \in Instance : Gone(a) => Gone(a)'
    BY SMTT(60), <1>12 DEF MakeInstance, NextBoot
  <2>2. UNCHANGED <<pc, handler, from, live>>
    BY Zenon, <1>12 DEF MakeInstance
  <2> QED BY Zenon, <2>1, <2>2
<1>13. ASSUME NEW s \in Server, AddServer(s) PROVE LateCalls'
  BY Zenon, <1>13 DEF AddServer
<1>14. ASSUME NEW s \in Server, EnableClient(s) PROVE LateCalls'
  BY Zenon, <1>14 DEF EnableClient
<1>15. ASSUME Cleanup PROVE LateCalls'
  BY Zenon, <1>15 DEF Cleanup
<1>16. ASSUME UNCHANGED vars PROVE LateCalls'
  BY Zenon, <1>16 DEF vars
<1> QED
  BY Zenon, <1>1, <1>2, <1>3, <1>4, <1>5, <1>6, <1>7, <1>8, <1>9,
     <1>10, <1>11, <1>12, <1>13, <1>14, <1>15, <1>16 DEF Next

\* The calls of a crashed instance are never run.
THEOREM OldAlwaysSilent == Spec => []OldInstanceSilent
<1>1. Init => SilenceInv
  <2> SUFFICES ASSUME Init PROVE SilenceInv
    OBVIOUS
  <2>1. TypeOK
    BY InitTyped
  <2>2. \A a \in Instance : ~ Gone(a)
    BY <2>1 DEF Init, Gone, Instance
  <2> QED BY <2>1, <2>2 DEF Init, SilenceInv, GoneDisabled, LateCalls
<1>2. SilenceInv /\ [Next]_vars => SilenceInv'
  BY TypeKept, GoneKept, LateKept DEF SilenceInv
<1>3. SilenceInv => OldInstanceSilent
  BY DEF SilenceInv, LateCalls, OldInstanceSilent
<1> QED BY <1>1, <1>2, <1>3, PTL DEF Spec
\* The enabled ends belong to the clerks and to the newest instances, and only servers
\* that are up are connected.
EndsNewest ==
    /\ \A end \in enabled : end[1] = <<Client, 1>> \/ \E s \in Server : end[1] = Current(s)
    /\ \A s \in Server : connected[s] => phase[s] = "up"

DetachInv == TypeOK /\ EndsNewest /\ DetachedStaysOut

\* Most steps enable no end, and change neither instances nor connections.
LEMMA EndsStay ==
    ASSUME EndsNewest, DetachedStaysOut, UNCHANGED <<enabled, boot, connected>>,
           \A s \in Server : connected[s] => phase'[s] = "up"
    PROVE  EndsNewest' /\ DetachedStaysOut'
  BY Zenon DEF EndsNewest, DetachedStaysOut, Current

\* connect enables ends between newest instances of connected servers.
LEMMA ConnectEnds ==
    ASSUME DetachInv, NEW s \in Server, Connect(s)
    PROVE  EndsNewest' /\ DetachedStaysOut'
<1> USE DEF DetachInv
<1>1. /\ connected' = [connected EXCEPT ![s] = TRUE] /\ UNCHANGED <<boot, phase>>
      /\ phase[s] = "up"
      /\ enabled' = enabled \cup EndsBetween(s, {t \in Server : connected'[t]})
  BY Zenon DEF Connect
<1>2. \A t \in Server : /\ Current(t)' = Current(t) /\ Current(t)[1] = t
                        /\ (connected'[t] <=> connected[t] \/ t = s)
  BY <1>1 DEF Current, TypeOK
<1>3. ASSUME NEW end \in enabled'
      PROVE  \/ end \in enabled
             \/ \E t \in Server : /\ connected'[t]
                                  /\ end = <<Current(s), t>> \/ end = <<Current(t), s>>
  BY Zenon, <1>1 DEF EndsBetween
<1>4. ASSUME NEW end, NEW t \in Server, connected'[t],
             end = <<Current(s), t>> \/ end = <<Current(t), s>>
      PROVE  /\ \E u \in Server : end[1] = Current(u)
             /\ end[1][1] \in {s, t} /\ end[2] \in {s, t}
             /\ connected'[s] /\ connected'[t]
  BY <1>2, <1>4
<1>5. EndsNewest'
  <2>1. \A u \in Server : connected'[u] => phase'[u] = "up"
    BY Zenon, <1>1, <1>2 DEF EndsNewest
  <2>2. ASSUME NEW end \in enabled'
        PROVE  end[1] = <<Client, 1>> \/ \E u \in Server : end[1] = Current(u)'
    <3>1. end[1] = <<Client, 1>> \/ \E u \in Server : end[1] = Current(u)
      BY Zenon, <1>3, <1>4 DEF EndsNewest
    <3>2. ASSUME NEW u \in Server, end[1] = Current(u)
          PROVE  end[1] = Current(u)'
      BY Zenon, <1>2, <3>2
    <3> QED BY Zenon, <3>1, <3>2
  <2> QED BY Zenon, <2>1, <2>2 DEF EndsNewest
<1>6. DetachedStaysOut'
  <2> SUFFICES ASSUME NEW u \in Server, ~ connected'[u], NEW end \in enabled'
               PROVE  end[1][1] # u /\ (end[2] = u => end[1][1] = Client)
    BY Zenon DEF DetachedStaysOut
  <2>1. CASE end \in enabled
    BY Zenon, <1>2, <2>1 DEF DetachedStaysOut
  <2>2. ASSUME NEW t \in Server, connected'[t],
               end = <<Current(s), t>> \/ end = <<Current(t), s>>
        PROVE  end[1][1] # u /\ end[2] # u
    BY Zenon, <1>4, <2>2
  <2> QED BY Zenon, <1>3, <2>1, <2>2
<1> QED BY <1>5, <1>6

\* disconnect disables every enabled end of a server and to it: there are no others than
\* those of newest instances.
LEMMA DisconnectEnds ==
    ASSUME DetachInv, NEW s \in Server, Disconnect(s)
    PROVE  EndsNewest' /\ DetachedStaysOut'
<1> USE DEF DetachInv
<1>1. /\ connected' = [connected EXCEPT ![s] = FALSE] /\ UNCHANGED boot
      /\ phase' = phase \/ phase' = [phase EXCEPT ![s] = "cut"]
      /\ enabled' = enabled \ EndsBetween(s, Server)
  BY Zenon DEF Disconnect
<1>2. \A t \in Server : /\ Current(t)' = Current(t) /\ Current(t)[1] = t
                        /\ (connected'[t] <=> connected[t] /\ t # s)
                        /\ t # s => phase'[t] = phase[t]
  BY <1>1 DEF Current, TypeOK
<1>3. ASSUME NEW end \in enabled'
      PROVE  /\ end \in enabled /\ end = <<end[1], end[2]>> /\ end[2] \in Server
             /\ \A t \in Server : end # <<Current(s), t>> /\ end # <<Current(t), s>>
  <2>1. end \in enabled /\ end \in Caller \X Server
    BY Zenon, <1>1 DEF TypeOK
  <2>2. end = <<end[1], end[2]>> /\ end[2] \in Server
    BY <2>1
  <2> QED BY Zenon, <1>1, <2>1, <2>2 DEF EndsBetween
<1>4. EndsNewest'
  <2>1. \A u \in Server : connected'[u] => phase'[u] = "up"
    BY Zenon, <1>2 DEF EndsNewest
  <2>2. ASSUME NEW end \in enabled'
        PROVE  end[1] = <<Client, 1>> \/ \E u \in Server : end[1] = Current(u)'
    <3>1. end[1] = <<Client, 1>> \/ \E u \in Server : end[1] = Current(u)
      BY Zenon, <1>3 DEF EndsNewest
    <3>2. ASSUME NEW u \in Server, end[1] = Current(u)
          PROVE  end[1] = Current(u)'
      BY Zenon, <1>2, <3>2
    <3> QED BY Zenon, <3>1, <3>2
  <2> QED BY Zenon, <2>1, <2>2 DEF EndsNewest
<1>5. DetachedStaysOut'
  <2> SUFFICES ASSUME NEW u \in Server, ~ connected'[u], NEW end \in enabled'
               PROVE  end[1][1] # u /\ (end[2] = u => end[1][1] = Client)
    BY Zenon DEF DetachedStaysOut
  <2>1. CASE u # s
    BY Zenon, <1>2, <1>3, <2>1 DEF DetachedStaysOut
  <2>2. CASE u = s
    <3>1. CASE end[1] = <<Client, 1>>
      <4>1. end[1][1] = Client
        BY <3>1
      <4> QED BY Zenon, <2>2, <4>1, NameAssumption
    <3>2. ASSUME NEW t \in Server, end[1] = Current(t)
          PROVE  end[1][1] # s /\ end[2] # s
      <4>1. end[1][1] = t
        BY Zenon, <1>2, <3>2
      <4>2. t # s /\ end[2] # s
        BY Zenon, <1>3, <3>2
      <4> QED BY Zenon, <4>1, <4>2
    <3> QED BY Zenon, <1>3, <2>2, <3>1, <3>2 DEF EndsNewest
  <2> QED BY <2>1, <2>2
<1> QED BY <1>4, <1>5

\* A new instance has no enabled ends: its server is detached.
LEMMA NewInstanceEnds ==
    ASSUME DetachInv, NEW s \in Server, MakeInstance(s)
    PROVE  EndsNewest' /\ DetachedStaysOut'
<1> USE DEF DetachInv
<1>1. /\ UNCHANGED <<enabled, connected>> /\ phase[s] = "down"
      /\ boot' = [boot EXCEPT ![s] = NextBoot(s)] /\ phase' = [phase EXCEPT ![s] = "made"]
  BY Zenon DEF MakeInstance
<1>2. \A t \in Server : t # s => Current(t)' = Current(t) /\ phase'[t] = phase[t]
  BY <1>1 DEF Current, TypeOK
<1>3. ~ connected[s] /\ Current(s)[1] = s
  BY <1>1 DEF EndsNewest, Current
<1>4. \A end \in enabled : end[1] # Current(s)
  BY Zenon, <1>3 DEF DetachedStaysOut
<1>5. EndsNewest'
  <2>1. \A u \in Server : connected'[u] => phase'[u] = "up"
    BY Zenon, <1>1, <1>2, <1>3 DEF EndsNewest
  <2> QED BY Zenon, <1>1, <1>2, <1>4, <2>1 DEF EndsNewest
<1> QED BY Zenon, <1>1, <1>5 DEF DetachedStaysOut

\* The ends of detached servers stay disabled.
LEMMA DetachStep ==
    ASSUME DetachInv, [Next]_vars
    PROVE  DetachInv'
<1> USE DEF DetachInv
<1>1. TypeOK'
  BY Zenon, TypeKept
<1>2. ASSUME NEW c \in Call,
             \/ \E a \in Caller, t \in Server : Send(c, a, t)
             \/ Accept(c) \/ Dispatch(c) \/ Handler(c) \/ Collect(c) \/ Conclude(c)
             \/ Return(c)
      PROVE  EndsNewest' /\ DetachedStaysOut'
  <2>1. UNCHANGED <<enabled, boot, connected, phase>>
    BY Zenon, <1>2 DEF Send, Accept, Dispatch, Handler, Collect, Conclude, Return, harness
  <2> QED BY Zenon, <2>1, EndsStay DEF EndsNewest
<1>3. ASSUME NEW s \in Server, DeleteServer(s) \/ CopySaved(s) \/ AddServer(s)
      PROVE  EndsNewest' /\ DetachedStaysOut'
  <2>1. /\ UNCHANGED <<enabled, boot, connected>> /\ phase[s] # "up"
        /\ \A t \in Server : t # s => phase'[t] = phase[t]
    BY <1>3 DEF DeleteServer, CopySaved, AddServer, TypeOK
  <2> QED BY Zenon, <2>1, EndsStay DEF EndsNewest
<1>4. ASSUME NEW s \in Server, EnableClient(s)
      PROVE  EndsNewest' /\ DetachedStaysOut'
  <2>1. /\ UNCHANGED <<boot, connected, phase>>
        /\ \A end \in enabled' : end \in enabled \/ end = <<<<Client, 1>>, s>>
    BY Zenon, <1>4 DEF EnableClient, harness
  <2>2. \A end \in enabled' : end \in enabled \/ (end[1] = <<Client, 1>> /\ end[1][1] = Client)
    BY <2>1
  <2>3. EndsNewest'
    BY Zenon, <2>1, <2>2 DEF EndsNewest, Current
  <2>4. DetachedStaysOut'
    BY Zenon, <2>1, <2>2, NameAssumption DEF DetachedStaysOut
  <2> QED BY <2>3, <2>4
<1>5. ASSUME Cleanup \/ UNCHANGED vars
      PROVE  EndsNewest' /\ DetachedStaysOut'
  <2>1. UNCHANGED <<enabled, boot, connected, phase>>
    BY Zenon, <1>5 DEF Cleanup, vars, harness
  <2> QED BY Zenon, <2>1, EndsStay DEF EndsNewest
<1> QED BY Zenon, <1>1, <1>2, <1>3, <1>4, <1>5, ConnectEnds, DisconnectEnds, NewInstanceEnds
           DEF Next

\* disconnect: a detached server and the others do not reach each other, for any servers
\* and any number of crashes.
THEOREM DetachedAlwaysOut == Spec => []DetachedStaysOut
<1>1. Init => DetachInv
  <2> SUFFICES ASSUME Init PROVE DetachInv
    OBVIOUS
  <2>1. \A s \in Server : connected[s] /\ phase[s] = "up" /\ Current(s) = <<s, 1>>
    BY DEF Init, Current
  <2>2. \A end \in enabled : end[1] = <<Client, 1>> \/ \E s \in Server : end[1] = <<s, 1>>
    BY DEF Init
  <2> QED BY Zenon, <2>1, <2>2, InitTyped DEF DetachInv, EndsNewest, DetachedStaysOut
<1>2. DetachInv /\ [Next]_vars => DetachInv'
  BY Zenon, DetachStep
<1>3. DetachInv => DetachedStaysOut
  BY DEF DetachInv
<1> QED BY <1>1, <1>2, <1>3, PTL DEF Spec
=============================================================================
