------------------------------- MODULE LabRpc -------------------------------
(***************************************************************************)
(* The simulated network (src/labrpc/labrpc.go) under the crash harness    *)
(* (src/raft/config.go, src/kvraft/config.go).  A server name stands for a *)
(* succession of instances, each with its own ends, Persister and labrpc   *)
(* Server.  An instance cannot really be stopped: it may go on to call, to *)
(* run handlers and to write its Persister after its crash.                *)
(*                                                                         *)
(* A call's arguments and reply are left out.  What a handler does that    *)
(* matters here is that it persists something before it returns; the call  *)
(* itself stands for that write.                                           *)
(***************************************************************************)
EXTENDS Integers

CONSTANTS
    Server,     \* server names
    Call,       \* calls; each is made once
    Client,     \* the caller that is not a server: a clerk's ends
    MaxBoots    \* bound: instances per server

ASSUME NameAssumption == Client \notin Server /\ MaxBoots \in Nat \ {0}

VARIABLES
    servers,    \* Network.servers: the registered instance of each name, 0 if none
    enabled,    \* Network.enabled: the ends that are enabled
    boot,       \* the newest instance of each server
    phase,      \* where crash1/ShutdownServer and start1/StartServer stand
    connected,  \* config.connected
    store,      \* what the Persister of each instance holds
    saved,      \* what the harness's copy of a Persister holds
    cleaned,    \* Network.done is closed
    pc,         \* where Call and ProcessReq stand with each call
    handler,    \* where the goroutine stands that runs the call's handler
    from, to,   \* the calling instance and the called server
    inst,       \* the instance ProcessReq has read for the call
    live        \* history: the caller was up when it made the call

harness == <<boot, phase, connected, saved, cleaned>>
callVars == <<pc, handler, from, to, inst, live>>
vars == <<servers, enabled, store, harness, callVars>>
-----------------------------------------------------------------------------
Instance == Server \X (1..MaxBoots)
Caller == Instance \cup {<<Client, 1>>}

\* An end is named after its owner and the server it is connected to; a new instance
\* gets new names.
Current(s) == <<s, boot[s]>>

\* The callers there have been so far, and those that are up.
Existing == {<<Client, 1>>} \cup {a \in Instance : a[2] <= boot[a[1]]}
Running == {<<Client, 1>>} \cup
    {Current(s) : s \in {t \in Server : phase[t] \in {"made", "up"}}}

Returned == {"ok", "failed"}
CallPlace == {"idle", "sent", "delayed", "waiting", "handled", "reply", "noReply"}
             \cup Returned

(* A call                                                                  *)

\* Call sends the request to the network's goroutine.  The goroutines of a crashed
\* instance still make calls, over its own ends.
Send(c, a, t) ==
    /\ pc[c] = "idle" /\ a \in Existing
    /\ pc' = [pc EXCEPT ![c] = "sent"]
    /\ from' = [from EXCEPT ![c] = a] /\ to' = [to EXCEPT ![c] = t]
    /\ live' = [live EXCEPT ![c] = a \in Running]
    /\ UNCHANGED <<servers, enabled, store, harness, handler, inst>>

\* The network's goroutine takes the request, and ProcessReq reads the end.
Accept(c) ==
    /\ pc[c] = "sent" /\ ~ cleaned
    /\ IF <<from[c], to[c]>> \in enabled /\ servers[to[c]] # 0
       THEN /\ pc' = [pc EXCEPT ![c] = "delayed"]
            /\ inst' = [inst EXCEPT ![c] = servers[to[c]]]
       ELSE pc' = [pc EXCEPT ![c] = "noReply"] /\ UNCHANGED inst
    /\ UNCHANGED <<servers, enabled, store, harness, handler, from, to, live>>

\* After a delay an unreliable network may drop the request; else the handler starts
\* in a goroutine of its own.
Dispatch(c) ==
    /\ pc[c] = "delayed"
    /\ \/ pc' = [pc EXCEPT ![c] = "noReply"] /\ UNCHANGED handler
       \/ /\ pc' = [pc EXCEPT ![c] = "waiting"]
          /\ handler' = [handler EXCEPT ![c] = "running"]
    /\ UNCHANGED <<servers, enabled, store, harness, from, to, inst, live>>

\* The handler persists what it has to, in the Persister of its own instance, and
\* returns.  It may also never get here.
Handler(c) ==
    /\ handler[c] = "running"
    /\ handler' = [handler EXCEPT ![c] = "returned"]
    /\ store' = [store EXCEPT ![to[c]][inst[c]] = @ \cup {c}]
    /\ UNCHANGED <<servers, enabled, harness, pc, from, to, inst, live>>

\* Variant of IsServerDead: only the end is looked at.
IsEndDisabled(c) == <<from[c], to[c]>> \notin enabled

IsServerDead(c) == <<from[c], to[c]>> \notin enabled \/ servers[to[c]] # inst[c]

\* ProcessReq waits for the handler, and every 100 ms looks whether the server is
\* still there.
Collect(c) ==
    /\ pc[c] = "waiting"
    /\ \/ handler[c] = "returned" /\ pc' = [pc EXCEPT ![c] = "handled"]
       \/ IsServerDead(c) /\ pc' = [pc EXCEPT ![c] = "noReply"]
    /\ UNCHANGED <<servers, enabled, store, harness, handler, from, to, inst, live>>

\* The last look at the server, after the handler has returned; then the reply goes
\* out, is dropped, or is delayed.
Conclude(c) ==
    /\ pc[c] = "handled"
    /\ \/ pc' = [pc EXCEPT ![c] = "noReply"]
       \/ ~ IsServerDead(c) /\ pc' = [pc EXCEPT ![c] = "reply"]
    /\ UNCHANGED <<servers, enabled, store, harness, handler, from, to, inst, live>>

\* The reply, or the failure, reaches the caller, at once or after a long delay.
Return(c) ==
    /\ pc[c] \in {"reply", "noReply"}
    /\ pc' = [pc EXCEPT ![c] = IF @ = "reply" THEN "ok" ELSE "failed"]
    /\ UNCHANGED <<servers, enabled, store, harness, handler, from, to, inst, live>>
-----------------------------------------------------------------------------
(* The harness                                                             *)

\* Ends between server s and the servers of T, in both directions.
EndsBetween(s, T) == {<<Current(s), t>> : t \in T} \cup {<<Current(t), s>> : t \in T}

\* Variant of Connect: the other servers are not asked whether they are connected.
ConnectBlindly(s) ==
    /\ phase[s] = "up" /\ ~ connected[s]
    /\ connected' = [connected EXCEPT ![s] = TRUE]
    /\ enabled' = enabled \cup EndsBetween(s, Server)
    /\ UNCHANGED <<servers, store, boot, phase, saved, cleaned, callVars>>

\* connect
Connect(s) ==
    /\ phase[s] = "up" /\ ~ connected[s]
    /\ connected' = [connected EXCEPT ![s] = TRUE]
    /\ enabled' = enabled \cup EndsBetween(s, {t \in Server : connected'[t]})
    /\ UNCHANGED <<servers, store, boot, phase, saved, cleaned, callVars>>

\* disconnect; crash1 and ShutdownServer begin with it.
Disconnect(s) ==
    /\ phase[s] = "up"
    /\ connected' = [connected EXCEPT ![s] = FALSE]
    /\ enabled' = enabled \ EndsBetween(s, Server)
    /\ \/ connected[s] /\ UNCHANGED phase
       \/ phase' = [phase EXCEPT ![s] = "cut"]
    /\ UNCHANGED <<servers, store, boot, saved, cleaned, callVars>>

DeleteServer(s) ==
    /\ phase[s] = "cut"
    /\ servers' = [servers EXCEPT ![s] = 0]
    /\ phase' = [phase EXCEPT ![s] = "deleted"]
    /\ UNCHANGED <<enabled, store, boot, connected, saved, cleaned, callVars>>

\* cfg.saved[i].Copy(), and Kill of the instance.
CopySaved(s) ==
    /\ phase[s] = "deleted"
    /\ saved' = [saved EXCEPT ![s] = store[s][boot[s]]]
    /\ phase' = [phase EXCEPT ![s] = "down"]
    /\ UNCHANGED <<servers, enabled, store, boot, connected, cleaned, callVars>>

\* Variant of NextBoot: the restarted server gets the ends of its last instance.
SameBoot(s) == boot[s]

\* Fresh end names, a fresh Persister.
NextBoot(s) == boot[s] + 1

\* start1 and StartServer up to Make: the new instance works on a copy of the copy.
MakeInstance(s) ==
    /\ phase[s] = "down" /\ boot[s] < MaxBoots
    /\ boot' = [boot EXCEPT ![s] = NextBoot(s)]
    /\ store' = [store EXCEPT ![s][NextBoot(s)] = saved[s]]
    /\ phase' = [phase EXCEPT ![s] = "made"]
    /\ UNCHANGED <<servers, enabled, connected, saved, cleaned, callVars>>

AddServer(s) ==
    /\ phase[s] = "made"
    /\ servers' = [servers EXCEPT ![s] = boot[s]]
    /\ phase' = [phase EXCEPT ![s] = "up"]
    /\ UNCHANGED <<enabled, store, boot, connected, saved, cleaned, callVars>>

\* ConnectClient and DisconnectClient
EnableClient(s) ==
    /\ LET end == <<<<Client, 1>>, s>> IN
       enabled' = IF end \in enabled THEN enabled \ {end} ELSE enabled \cup {end}
    /\ UNCHANGED <<servers, store, harness, callVars>>

\* The network's goroutine ends.  Ends are made without the done channel, so that a
\* request that is not taken by then waits for ever.
Cleanup ==
    /\ ~ cleaned /\ cleaned' = TRUE
    /\ UNCHANGED <<servers, enabled, store, boot, phase, connected, saved, callVars>>
-----------------------------------------------------------------------------
\* make_config has started, connected and registered a first instance of every server.
Init ==
    /\ servers = [s \in Server |-> 1] /\ boot = [s \in Server |-> 1]
    /\ enabled = (Server \X {1} \cup {<<Client, 1>>}) \X Server
    /\ phase = [s \in Server |-> "up"] /\ connected = [s \in Server |-> TRUE]
    /\ store = [s \in Server |-> [b \in 1..MaxBoots |-> {}]]
    /\ saved = [s \in Server |-> {}] /\ cleaned = FALSE
    /\ pc = [c \in Call |-> "idle"] /\ handler = [c \in Call |-> "none"]
    /\ from = [c \in Call |-> <<Client, 1>>]
    /\ to \in [Call -> Server]
    /\ inst = [c \in Call |-> 0] /\ live = [c \in Call |-> TRUE]

CallStep(c) == Accept(c) \/ Dispatch(c) \/ Collect(c) \/ Conclude(c) \/ Return(c)

Next ==
    \/ \E c \in Call :
          \/ \E a \in Caller, t \in Server : Send(c, a, t)
          \/ Accept(c) \/ Dispatch(c) \/ Handler(c) \/ Collect(c) \/ Conclude(c)
          \/ Return(c)
    \/ \E s \in Server :
          \/ Connect(s) \/ Disconnect(s) \/ DeleteServer(s) \/ CopySaved(s)
          \/ MakeInstance(s) \/ AddServer(s) \/ EnableClient(s)
    \/ Cleanup

\* The network's goroutines run and their timers expire.  A handler need not return.
Spec == Init /\ [][Next]_vars /\ \A c \in Call : WF_vars(CallStep(c))
-----------------------------------------------------------------------------
TypeOK ==
    /\ servers \in [Server -> 0..MaxBoots] /\ boot \in [Server -> 1..MaxBoots]
    /\ enabled \subseteq Caller \X Server
    /\ phase \in [Server -> {"up", "cut", "deleted", "down", "made"}]
    /\ connected \in [Server -> BOOLEAN] /\ cleaned \in BOOLEAN
    /\ store \in [Server -> [1..MaxBoots -> SUBSET Call]]
    /\ saved \in [Server -> SUBSET Call]
    /\ pc \in [Call -> CallPlace]
    /\ handler \in [Call -> {"none", "running", "returned"}]
    /\ from \in [Call -> Caller] /\ to \in [Call -> Server]
    /\ inst \in [Call -> 0..MaxBoots] /\ live \in [Call -> BOOLEAN]

\* What a server will have on its disk when it runs next.
Durable(s) == IF phase[s] = "down" THEN saved[s] ELSE store[s][boot[s]]

\* A caller that gets a positive reply can rely on what the handler has persisted:
\* no crash, however it falls between the handler, the last look at the server and a
\* delayed reply, leaves it in a Persister that is given up (labrpc.go:264-270,
\* kvraft/config.go:277-282).
AckedPersists == \A c \in Call : pc[c] \in {"reply", "ok"} => c \in Durable(to[c])

\* What a crashed instance calls after its crash is never run: its ends stay disabled
\* although the server is connected again (raft/config.go:143-148).
OldInstanceSilent == \A c \in Call : ~ live[c] => handler[c] = "none"

\* A server that is detached stays out of reach of the others, and they out of its
\* reach, whichever of them crash, restart and connect meanwhile (raft/config.go:260-281;
\* clerks have ends of their own).
DetachedStaysOut ==
    \A s \in Server : ~ connected[s] =>
        \A end \in enabled : end[1][1] # s /\ (end[2] = s => end[1][1] = Client)

\* Call returns, except while its handler does not and the instance that runs it stays
\* registered (labrpc.go:250-262), and unless the network is cleaned up first.
CallReturns ==
    []~cleaned =>
       \A c \in Call : pc[c] = "sent" ~>
          (pc[c] \in Returned \/ [](handler[c] = "running" /\ servers[to[c]] = inst[c]))
=============================================================================
