------------------------------ MODULE Connections ------------------------------
(***************************************************************************)
(* The gRPC connections to the K8sGPT servers: the K8sGPT controller dials *)
(* one per K8sGPT resource and keeps it (clientFor), hands it to the       *)
(* mutation controller over a channel and a goroutine, and closes it when  *)
(* the server's address changes or the resource goes away                  *)
(* (closeClientFor). The mutation controller keeps the first one it gets.  *)
(*                                                                         *)
(* Sources: k8sgpt/k8sgpt_controller.go, init_step.go, finalizer_step.go,  *)
(* preAnalysis_step.go, shared/client.go, cmd/main.go, pkg/client/*.go and *)
(* the NotStarted case of mutation/mutation_controller.go.                 *)
(***************************************************************************)
EXTENDS Naturals, Sequences

CONSTANTS
    Res,         \* the K8sGPT resources, by namespace and name
    Remediating, \* those with auto-remediation enabled
    NoRes,       \* "no reconcile request in hand"
    NoConn,      \* "no connection"
    ChanCap,     \* capacity of the signal channel (10 in cmd/main.go)
    MaxEdits,    \* bound on the resources created and the servers moved
    MaxFaults    \* bound on lost answers and restarts

ASSUME ResAssumption == NoRes \notin Res /\ Remediating \subseteq Res
ASSUME CapAssumption == ChanCap \in Nat \ {0}
ASSUME BoundsAssumption == MaxEdits \in Nat /\ MaxFaults \in Nat

\* A dialled grpc.ClientConn: for which resource, to which address (addresses
\* are numbered in the order they are given), which dial it was.
Conn == [res: Res, addr: Nat, id: Nat]
ASSUME ConnAssumption == NoConn \notin Conn

\* The K8sGPT object as stored: no finalizer matters here but the operator's,
\* which is set before anything is dialled.
K8sGPTRec == [state: {"absent", "live", "deleting"}, ver: Nat]

\* Every resource names a backend of its own; "" is the unset backend.
Backend == Res \cup {""}

VARIABLES
    k8sgpt,      \* the K8sGPT objects in the API server
    kcache,      \* the informer's copy of them
    addr,        \* the address of each server's Service
    edits,       \* resources created and servers moved so far
    faults,      \* lost answers and restarts so far
    \* the K8sGPT controller
    kclients,    \* its map of cached clients
    pc, res,     \* where its worker is, and its request
    copyVer,     \* version of the K8sGPT object it read
    address,     \* the server's address as GenerateAddress found it
    kclient,     \* instance.kclient
    \* the connections
    open,        \* the connections that are open
    dials,       \* dials since the operator started
    \* the hand-over
    signal,      \* the channel
    held,        \* the signal the goroutine is storing, if any
    sharedClient, sharedBackend,
    \* the mutation controller
    mpc, mbackend,  \* where its worker is, and the backend it read
    mclient      \* MutationReconciler.ServerQueryClient

object == <<k8sgpt, kcache, addr, edits>>
controller == <<kclients, pc, res, copyVer, address, kclient, open, dials>>
handover == <<held, sharedClient, sharedBackend>>
mutation == <<mpc, mbackend, mclient>>
vars == <<object, faults, controller, signal, handover, mutation>>

Init ==
    /\ k8sgpt = [r \in Res |-> [state |-> "absent", ver |-> 0]]
    /\ kcache = k8sgpt
    /\ addr = [r \in Res |-> 0]
    /\ edits = 0
    /\ faults = 0
    /\ kclients = [r \in Res |-> NoConn]
    /\ pc = "idle" /\ res = NoRes /\ copyVer = 0 /\ address = 0 /\ kclient = NoConn
    /\ open = {} /\ dials = 0
    /\ signal = <<>>
    /\ held = NoConn
    /\ sharedClient = NoConn /\ sharedBackend = ""
    /\ mpc = "idle" /\ mbackend = "" /\ mclient = NoConn

-----------------------------------------------------------------------------
(***************************************************************************)
(* Users and the cluster.                                                  *)
(***************************************************************************)
CreateK8sGPT(r) ==
    /\ k8sgpt[r].state = "absent"
    /\ edits < MaxEdits
    /\ edits' = edits + 1
    /\ k8sgpt' = [k8sgpt EXCEPT ![r] = [state |-> "live", ver |-> @.ver + 1]]
    /\ UNCHANGED <<kcache, addr, faults, controller, signal, handover, mutation>>

DeleteK8sGPT(r) ==
    /\ k8sgpt[r].state = "live"
    /\ k8sgpt' = [k8sgpt EXCEPT ![r] = [state |-> "deleting", ver |-> @.ver + 1]]
    /\ UNCHANGED <<kcache, addr, edits, faults, controller, signal, handover, mutation>>

\* The Service is recreated and gets another cluster IP.
MoveServer(r) ==
    /\ edits < MaxEdits
    /\ edits' = edits + 1
    /\ addr' = [addr EXCEPT ![r] = @ + 1]
    /\ UNCHANGED <<k8sgpt, kcache, faults, controller, signal, handover, mutation>>

CacheSync(r) ==
    /\ kcache[r] # k8sgpt[r]
    /\ kcache' = [kcache EXCEPT ![r] = k8sgpt[r]]
    /\ UNCHANGED <<k8sgpt, addr, edits, faults, controller, signal, handover, mutation>>

-----------------------------------------------------------------------------
(***************************************************************************)
(* The K8sGPT controller, one worker.                                      *)
(***************************************************************************)
Return ==
    /\ pc' = "idle" /\ res' = NoRes /\ copyVer' = 0 /\ address' = 0 /\ kclient' = NoConn

\* InitStep and FinalizerStep: an object that is not found needs nothing.
StartReconcile(r) ==
    /\ pc = "idle"
    /\ kcache[r].state # "absent"
    /\ pc' = IF kcache[r].state = "deleting" THEN "finalize" ELSE "connect"
    /\ res' = r
    /\ copyVer' = kcache[r].ver
    /\ UNCHANGED <<address, kclient, kclients, open, dials, object, faults, signal, handover, mutation>>

\* The owned resources are gone; the Update without the finalizer lets the
\* object go, unless the copy is stale.
RemoveFinalizer ==
    /\ pc = "finalize"
    /\ \/ /\ k8sgpt[res].ver = copyVer
          /\ k8sgpt' = [k8sgpt EXCEPT ![res] = [state |-> "absent", ver |-> @.ver + 1]]
          /\ pc' = "close"
          /\ UNCHANGED <<res, copyVer, address, kclient>>
       \/ /\ k8sgpt[res].ver # copyVer
          /\ Return
          /\ UNCHANGED k8sgpt
    /\ UNCHANGED <<kcache, addr, edits, kclients, open, dials, faults, signal, handover, mutation>>

\* The same Update, its answer lost.
RemoveFinalizerLost ==
    /\ pc = "finalize"
    /\ faults < MaxFaults
    /\ faults' = faults + 1
    /\ k8sgpt[res].ver = copyVer
    /\ k8sgpt' = [k8sgpt EXCEPT ![res] = [state |-> "absent", ver |-> @.ver + 1]]
    /\ Return
    /\ UNCHANGED <<kcache, addr, edits, kclients, open, dials, signal, handover, mutation>>

\* Mutant of CloseClientFor: the connection is closed and stays in the map.
BugKeepsEntry ==
    /\ pc = "close"
    /\ open' = open \ {kclients[res]}
    /\ Return
    /\ UNCHANGED <<kclients, dials, object, faults, signal, handover, mutation>>

CloseClientFor ==
    /\ pc = "close"
    /\ open' = open \ {kclients[res]}
    /\ kclients' = [kclients EXCEPT ![res] = NoConn]
    /\ Return
    /\ UNCHANGED <<dials, object, faults, signal, handover, mutation>>

\* Mutant of StillOpen: nothing is closed when the address changes.
BugKeepsOld(old) == open

\* The connections left open when clientFor replaces old.
StillOpen(old) == open \ {old}

\* Mutant of Reusable: no client at all counts as one for the address.
BugReusesNone(old) == old = NoConn \/ old.addr = address

\* The cached client is one for the address that was found.
Reusable(old) == old # NoConn /\ old.addr = address

\* Auto-remediation is enabled.
HandsOver(r) == r \in Remediating

\* PreAnalysisStep first looks up the address; the server may move before it is
\* dialled.
GenerateAddress ==
    /\ pc = "connect"
    /\ address' = addr[res]
    /\ pc' = "dial"
    /\ UNCHANGED <<res, copyVer, kclient, kclients, open, dials, object, faults, signal,
                   handover, mutation>>

\* The Service does not answer on its port, or the object has no server yet.
Unreachable ==
    /\ pc = "connect"
    /\ Return
    /\ UNCHANGED <<kclients, open, dials, object, faults, signal, handover, mutation>>

\* clientFor: a client for the address is reused; another is closed and a new
\* one dialled.
ClientFor ==
    LET old == kclients[res]
        new == [res |-> res, addr |-> address, id |-> dials + 1]
        reuse == Reusable(old)
    IN
    /\ pc = "dial"
    /\ kclients' = IF reuse THEN kclients ELSE [kclients EXCEPT ![res] = new]
    /\ kclient' = IF reuse THEN old ELSE new
    /\ open' = IF reuse THEN open ELSE StillOpen(old) \cup {new}
    /\ dials' = IF reuse THEN dials ELSE dials + 1
    /\ pc' = IF HandsOver(res) THEN "signal" ELSE "use"
    /\ UNCHANGED <<res, copyVer, address, object, faults, signal, handover, mutation>>

\* The dial itself fails, after a client of another address was closed.
DialFails ==
    /\ pc = "dial"
    /\ ~ Reusable(kclients[res])
    /\ open' = StillOpen(kclients[res])
    /\ kclients' = [kclients EXCEPT ![res] = NoConn]
    /\ Return
    /\ UNCHANGED <<dials, object, faults, signal, handover, mutation>>

\* The connection and the backend are sent to the other controller; a full
\* channel blocks the worker.
SendSignal ==
    /\ pc = "signal"
    /\ Len(signal) < ChanCap
    /\ signal' = Append(signal, kclient)
    /\ pc' = "use"
    /\ UNCHANGED <<res, copyVer, address, kclient, kclients, open, dials, object, faults,
                   handover, mutation>>

\* AddConfig, AddIntegration and ProcessAnalysis over the connection.
UseClient ==
    /\ pc = "use"
    /\ Return
    /\ UNCHANGED <<kclients, open, dials, object, faults, signal, handover, mutation>>

-----------------------------------------------------------------------------
(***************************************************************************)
(* The goroutine in main: client first, then backend.                      *)
(***************************************************************************)
\* Mutant of Receive: the goroutine stops at the first signal.
BugReceivesOnce ==
    /\ held = NoConn /\ sharedClient = NoConn
    /\ signal # <<>>
    /\ held' = Head(signal)
    /\ signal' = Tail(signal)
    /\ sharedClient' = Head(signal)
    /\ UNCHANGED <<sharedBackend, object, faults, controller, mutation>>

Receive ==
    /\ held = NoConn
    /\ signal # <<>>
    /\ held' = Head(signal)
    /\ signal' = Tail(signal)
    /\ sharedClient' = Head(signal)
    /\ UNCHANGED <<sharedBackend, object, faults, controller, mutation>>

SetBackend ==
    /\ held # NoConn
    /\ sharedBackend' = held.res
    /\ held' = NoConn
    /\ UNCHANGED <<sharedClient, object, faults, controller, signal, mutation>>

-----------------------------------------------------------------------------
(***************************************************************************)
(* The mutation controller on a NotStarted Mutation: the backend is read   *)
(* at the start of every reconcile, the client only once.                  *)
(***************************************************************************)
ReadBackend ==
    /\ mpc = "idle"
    /\ mbackend' = sharedBackend
    /\ mpc' = "client"
    /\ UNCHANGED <<mclient, object, faults, controller, signal, handover>>

TakeClient ==
    /\ mpc = "client"
    /\ mclient' = IF mclient = NoConn THEN sharedClient ELSE mclient
    /\ mpc' = IF mclient' = NoConn THEN "idle" ELSE "query"
    /\ mbackend' = IF mclient' = NoConn THEN "" ELSE mbackend
    /\ UNCHANGED <<object, faults, controller, signal, handover>>

\* The query is sent, with the backend as read; it fails when the connection
\* is closed.
Query ==
    /\ mpc = "query"
    /\ mpc' = "idle" /\ mbackend' = ""
    /\ UNCHANGED <<mclient, object, faults, controller, signal, handover>>

-----------------------------------------------------------------------------
\* The operator restarts: all it holds in memory is gone.
Restart ==
    /\ faults < MaxFaults
    /\ faults' = faults + 1
    /\ kclients' = [r \in Res |-> NoConn]
    /\ open' = {} /\ dials' = 0 /\ signal' = <<>> /\ held' = NoConn
    /\ sharedClient' = NoConn /\ sharedBackend' = ""
    /\ mpc' = "idle" /\ mbackend' = "" /\ mclient' = NoConn
    /\ Return
    /\ UNCHANGED object

Reconcile ==
    \/ RemoveFinalizer \/ CloseClientFor
    \/ GenerateAddress \/ Unreachable \/ ClientFor \/ DialFails
    \/ SendSignal \/ UseClient

Listen == Receive \/ SetBackend

Mutate == ReadBackend \/ TakeClient \/ Query

Next ==
    \/ \E r \in Res : \/ CreateK8sGPT(r) \/ DeleteK8sGPT(r) \/ MoveServer(r)
                      \/ CacheSync(r) \/ StartReconcile(r)
    \/ Reconcile \/ RemoveFinalizerLost
    \/ Listen
    \/ Mutate
    \/ Restart

Spec == Init /\ [][Next]_vars

\* A goroutine that has started runs on: calls return, in the end.
RunsOn == Spec /\ WF_vars(Reconcile) /\ WF_vars(Listen)

\* Moreover the mutation controller runs on, the informer catches up, every
\* object that exists is reconciled again and again, since each reconcile ends
\* in a requeue, and a server that is tried again and again is reached.
FairSpec ==
    /\ RunsOn
    /\ WF_vars(Mutate)
    /\ SF_vars(GenerateAddress) /\ SF_vars(ClientFor)
    /\ \A r \in Res : WF_vars(CacheSync(r)) /\ SF_vars(StartReconcile(r))

-----------------------------------------------------------------------------
ConnOrNone == Conn \cup {NoConn}

\* Every variable has its type.
TypeOK ==
    /\ k8sgpt \in [Res -> K8sGPTRec]
    /\ kcache \in [Res -> K8sGPTRec]
    /\ addr \in [Res -> Nat]
    /\ edits \in Nat /\ faults \in Nat /\ dials \in Nat
    /\ kclients \in [Res -> ConnOrNone]
    /\ pc \in {"idle", "finalize", "close", "connect", "dial", "signal", "use"}
    /\ res \in Res \cup {NoRes}
    /\ pc # "idle" => res \in Res
    /\ copyVer \in Nat /\ address \in Nat
    /\ kclient \in ConnOrNone
    /\ pc \in {"signal", "use"} => kclient \in Conn
    /\ open \in SUBSET Conn
    /\ signal \in Seq(Conn)
    /\ held \in ConnOrNone
    /\ sharedClient \in ConnOrNone /\ sharedBackend \in Backend
    /\ mpc \in {"idle", "client", "query"}
    /\ mbackend \in Backend
    /\ mclient \in ConnOrNone
    /\ mpc = "query" => mclient \in Conn

\* The leak clientFor was written to stop: the open connections are exactly
\* those the map holds, at most one per resource, whatever addresses, dials
\* and deletions do.
OpenIsCached ==
    open = {kclients[r] : r \in Res} \ {NoConn}

\* The worker never calls over a connection that was closed under it.
NoUseAfterClose ==
    pc \in {"signal", "use"} => kclient \in open

\* closeClientFor: a K8sGPT that is gone leaves no connection behind, once the
\* reconcile that let it go is over and as long as no answer was lost.
RemovedIsClosed ==
    faults = 0 =>
      \A r \in Res : k8sgpt[r].state = "absent" /\ res # r => kclients[r] = NoConn

\* A worker that has started always comes back, a full channel included.
ReconcileEnds == pc # "idle" ~> pc = "idle"

-----------------------------------------------------------------------------
(***************************************************************************)
(* What a comment in the code says and the code does not do.              *)
(***************************************************************************)
\* cmd/main.go: the channel is "a necessity for the mutation system to work":
\* as long as live connections are handed over, a mutation controller left
\* with a closed one gets one that is open.
ClientRecovers ==
    mclient # NoConn /\ mclient \notin open ~> mclient \in open \/ open = {}
================================================================================
