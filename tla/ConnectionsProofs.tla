--------------------------- MODULE ConnectionsProofs ---------------------------
(***************************************************************************)
(* Proofs about Connections, for any K8sGPT resources, any capacity of the *)
(* channel and any number of edits and faults: type correctness, no leaked *)
(* connection, no use after close and nothing left of a removed resource.  *)
(***************************************************************************)
EXTENDS Connections, TLAPS

\* The map has a resource's own connection under its name, and what the worker
\* calls over is still in it.
MapInv ==
    /\ \A r \in Res : kclients[r] # NoConn => kclients[r].res = r
    /\ pc \in {"signal", "use"} => kclient = kclients[res]

\* The informer's copy is an older or the present version. A resource is gone
\* only after the informer has shown its deletion, since the Update that lets
\* it go carries the version of a copy in deletion; so no reconcile connects
\* to a resource that is gone.
CopiesInv ==
    /\ \A r \in Res :
         /\ kcache[r].ver <= k8sgpt[r].ver
         /\ kcache[r].ver = k8sgpt[r].ver => kcache[r] = k8sgpt[r]
         /\ k8sgpt[r].state = "absent" => kcache[r].state # "live"
    /\ pc # "idle" => copyVer <= kcache[res].ver
    /\ pc = "finalize" /\ kcache[res].ver = copyVer => kcache[res].state = "deleting"
    /\ pc \in {"connect", "dial", "signal", "use"} => k8sgpt[res].state # "absent"

\* A resource that is gone has no connection but the one the worker is about
\* to close.
ClosedInv ==
    faults = 0 =>
      \A r \in Res :
        k8sgpt[r].state = "absent" /\ ~ (pc = "close" /\ res = r) => kclients[r] = NoConn

IInv == TypeOK /\ OpenIsCached /\ MapInv /\ CopiesInv /\ ClosedInv

-----------------------------------------------------------------------------
\* The operator starts with every variable in its type.
LEMMA TypeInit == Init => TypeOK
  <1> SUFFICES ASSUME Init PROVE TypeOK
    OBVIOUS
  <1> USE DEF Init
  <1>1. k8sgpt \in [Res -> K8sGPTRec] /\ kcache \in [Res -> K8sGPTRec]
    BY DEF K8sGPTRec
  <1>2. addr \in [Res -> Nat] /\ edits \in Nat /\ faults \in Nat /\ dials \in Nat
    OBVIOUS
  <1>3. kclients \in [Res -> ConnOrNone] /\ kclient \in ConnOrNone /\ held \in ConnOrNone
        /\ sharedClient \in ConnOrNone /\ mclient \in ConnOrNone
    BY DEF ConnOrNone
  <1>4. pc = "idle" /\ res = NoRes /\ copyVer \in Nat /\ address \in Nat /\ open \in SUBSET Conn /\ mpc = "idle"
    OBVIOUS
  <1>5. signal \in Seq(Conn)
    <2>1. signal = <<>>
      OBVIOUS
    <2> HIDE DEF Init
    <2> QED
      BY <2>1
  <1>6. sharedBackend \in Backend /\ mbackend \in Backend
    BY DEF Backend
  <1> QED
    BY <1>1, <1>2, <1>3, <1>4, <1>5, <1>6 DEF TypeOK

\* No step of either controller, the goroutine or the users breaks the types;
\* in particular a worker past clientFor has a connection.

LEMMA TypeStep == TypeOK /\ [Next]_vars => TypeOK'
  <1> SUFFICES ASSUME TypeOK, [Next]_vars PROVE TypeOK'
    OBVIOUS
  <1> USE ResAssumption, ConnAssumption
  <1> USE DEF TypeOK, Return, object, controller, handover, mutation
  <1>1. ASSUME NEW r \in Res, CreateK8sGPT(r) PROVE TypeOK'
    BY <1>1 DEF CreateK8sGPT, K8sGPTRec
  <1>2. ASSUME NEW r \in Res, DeleteK8sGPT(r) PROVE TypeOK'
    BY <1>2 DEF DeleteK8sGPT, K8sGPTRec
  <1>3. ASSUME NEW r \in Res, MoveServer(r) PROVE TypeOK'
    BY <1>3 DEF MoveServer
  <1>4. ASSUME NEW r \in Res, CacheSync(r) PROVE TypeOK'
    BY <1>4 DEF CacheSync
  <1>5. ASSUME NEW r \in Res, StartReconcile(r) PROVE TypeOK'
    BY <1>5 DEF StartReconcile, K8sGPTRec
  <1>6. CASE RemoveFinalizer
    <2>1. res \in Res
      BY <1>6 DEF RemoveFinalizer
    <2>2. k8sgpt' \in [Res -> K8sGPTRec]
      <3>1. k8sgpt' \in {k8sgpt, [k8sgpt EXCEPT ![res] = [state |-> "absent", ver |-> @.ver + 1]]}
        BY <1>6 DEF RemoveFinalizer
      <3>2. k8sgpt \in [Res -> K8sGPTRec]
        OBVIOUS
      <3> HIDE DEF TypeOK
      <3>3. k8sgpt[res].ver + 1 \in Nat
        BY <2>1, <3>2 DEF K8sGPTRec
      <3>4. [state |-> "absent", ver |-> k8sgpt[res].ver + 1] \in K8sGPTRec
        BY <3>3 DEF K8sGPTRec
      <3> QED
        BY <2>1, <3>1, <3>2, <3>4
    <2>3. /\ pc' \in {"idle", "close"} /\ res' \in Res \cup {NoRes}
          /\ pc' # "idle" => res' \in Res
          /\ copyVer' \in Nat /\ address' \in Nat /\ kclient' \in ConnOrNone
      BY <1>6, <2>1 DEF RemoveFinalizer, ConnOrNone
    <2> QED
      BY <1>6, <2>2, <2>3 DEF RemoveFinalizer
  <1>7. CASE CloseClientFor
    BY <1>7 DEF CloseClientFor, ConnOrNone
  <1>8. CASE ClientFor
    <2> DEFINE new == [res |-> res, addr |-> address, id |-> dials + 1]
    <2>1. res \in Res /\ kclients[res] \in ConnOrNone
      BY <1>8 DEF ClientFor
    <2>2. new \in Conn
      BY <2>1 DEF Conn
    <2>3. Reusable(kclients[res]) => kclients[res] \in Conn
      BY <2>1 DEF Reusable, ConnOrNone
    <2> HIDE DEF new
    <2>4. kclients' \in [Res -> ConnOrNone] /\ kclient' \in Conn /\ open' \in SUBSET Conn
          /\ dials' \in Nat
      BY <1>8, <2>1, <2>2, <2>3 DEF ClientFor, new, StillOpen, ConnOrNone
    <2>5. pc' \in {"signal", "use"}
      BY <1>8 DEF ClientFor
    <2> QED
      BY <1>8, <2>1, <2>4, <2>5 DEF ClientFor, ConnOrNone
  <1>9. CASE GenerateAddress \/ Unreachable \/ UseClient
    BY <1>9 DEF GenerateAddress, Unreachable, UseClient, ConnOrNone
  <1>10. CASE DialFails
    BY <1>10 DEF DialFails, StillOpen, ConnOrNone
  <1>11. CASE SendSignal
    BY <1>11 DEF SendSignal
  <1>12. CASE RemoveFinalizerLost
    BY <1>12 DEF RemoveFinalizerLost, K8sGPTRec, ConnOrNone
  <1>13. CASE Receive
    BY <1>13 DEF Receive, ConnOrNone
  <1>14. CASE SetBackend
    BY <1>14 DEF SetBackend, ConnOrNone, Backend, Conn
  <1>15. CASE ReadBackend \/ TakeClient \/ Query
    BY <1>15 DEF ReadBackend, TakeClient, Query, ConnOrNone, Backend
  <1>16. CASE Restart
    <2>1. kclients' \in [Res -> ConnOrNone] /\ kclient' \in ConnOrNone /\ held' \in ConnOrNone
          /\ sharedClient' \in ConnOrNone /\ mclient' \in ConnOrNone
      BY <1>16 DEF Restart, ConnOrNone
    <2>2. signal' = <<>>
      BY <1>16 DEF Restart
    <2>3. signal' \in Seq(Conn)
      BY <2>2
    <2>4. sharedBackend' \in Backend /\ mbackend' \in Backend
      BY <1>16 DEF Restart, Backend
    <2>5. pc' = "idle" /\ res' = NoRes /\ copyVer' = 0 /\ address' = 0 /\ open' = {} /\ dials' = 0 /\ mpc' = "idle"
      BY <1>16 DEF Restart
    <2>6. faults' = faults + 1 /\ UNCHANGED <<k8sgpt, kcache, addr, edits>>
      BY <1>16 DEF Restart
    <2> QED
      BY <2>1, <2>3, <2>4, <2>5, <2>6
  <1>17. CASE UNCHANGED vars
    BY <1>17 DEF vars
  <1> QED
    BY <1>1, <1>2, <1>3, <1>4, <1>5, <1>6, <1>7, <1>8, <1>9, <1>10, <1>11, <1>12,
       <1>13, <1>14, <1>15, <1>16, <1>17 DEF Next, Reconcile, Listen, Mutate

-----------------------------------------------------------------------------
\* Users, the informer, the goroutine in main and the mutation controller.
Others ==
    \/ \E r \in Res : CreateK8sGPT(r) \/ DeleteK8sGPT(r) \/ MoveServer(r) \/ CacheSync(r)
    \/ Listen \/ Mutate

\* They leave the K8sGPT controller alone.
LEMMA OthersLeave == Others => UNCHANGED controller
  BY DEF Others, Listen, Mutate, CreateK8sGPT, DeleteK8sGPT, MoveServer, CacheSync,
         Receive, SetBackend, ReadBackend, TakeClient, Query

\* clientFor and closeClientFor keep the map equal to what is open, and the
\* worker's connection in it.
LEMMA MapStep ==
  ASSUME TypeOK, OpenIsCached, MapInv, [Next]_vars
  PROVE  OpenIsCached' /\ MapInv'
  <1> USE ResAssumption, ConnAssumption
  <1> USE DEF OpenIsCached, MapInv
  <1>a. /\ kclients \in [Res -> Conn \cup {NoConn}]
        /\ pc # "idle" => res \in Res
    BY DEF TypeOK, ConnOrNone
  <1>1. CASE UNCHANGED controller
    BY <1>1 DEF controller
  <1>2. ASSUME NEW r \in Res, StartReconcile(r) PROVE OpenIsCached' /\ MapInv'
    BY <1>2 DEF StartReconcile
  <1>3. CASE RemoveFinalizer \/ RemoveFinalizerLost \/ Unreachable \/ UseClient
    BY <1>3 DEF RemoveFinalizer, RemoveFinalizerLost, Unreachable, UseClient, Return
  <1>4. CASE CloseClientFor \/ DialFails
    <2>1. /\ res \in Res
          /\ open' = open \ {kclients[res]}
          /\ kclients' = [kclients EXCEPT ![res] = NoConn]
          /\ pc' = "idle"
      BY <1>4, <1>a DEF CloseClientFor, DialFails, StillOpen, Return
    <2>2. \A r \in Res : kclients'[r] = IF r = res THEN NoConn ELSE kclients[r]
      BY <2>1, <1>a
    <2>3. \A r \in Res : r # res /\ kclients[r] # NoConn => kclients[r] # kclients[res]
      BY <2>1, <1>a
    <2> QED
      BY <2>1, <2>2, <2>3
  <1>5. CASE ClientFor
    <2> DEFINE new == [res |-> res, addr |-> address, id |-> dials + 1]
    <2>1. res \in Res
      BY <1>5, <1>a DEF ClientFor
    <2>2. CASE Reusable(kclients[res])
      BY <1>5, <2>1, <2>2 DEF ClientFor
    <2>3. CASE ~ Reusable(kclients[res])
      <3>1. new \in Conn /\ new.res = res
        BY <2>1 DEF TypeOK, Conn
      <3>2. /\ kclients' = [kclients EXCEPT ![res] = new]
            /\ kclient' = new
            /\ open' = (open \ {kclients[res]}) \cup {new}
            /\ res' = res
        BY <1>5, <2>3 DEF ClientFor, StillOpen
      <3> HIDE DEF new
      <3>3. \A r \in Res : kclients'[r] = IF r = res THEN new ELSE kclients[r]
        BY <3>2, <2>1, <1>a
      <3>4. \A r \in Res : r # res /\ kclients[r] # NoConn => kclients[r] # kclients[res]
        BY <2>1, <1>a
      <3> QED
        BY <3>1, <3>2, <3>3, <3>4, <2>1
    <2> QED
      BY <2>2, <2>3
  <1>6. CASE SendSignal \/ GenerateAddress
    BY <1>6 DEF SendSignal, GenerateAddress
  <1>7. CASE Restart
    <2>1. kclients' = [r \in Res |-> NoConn] /\ open' = {} /\ pc' = "idle"
      BY <1>7 DEF Restart, Return
    <2> QED
      BY <2>1
  <1>8. CASE UNCHANGED vars
    BY <1>1, <1>8 DEF vars
  <1> QED
    BY <1>1, <1>2, <1>3, <1>4, <1>5, <1>6, <1>7, <1>8, OthersLeave
       DEF Next, Reconcile, Others

\* The informer is never ahead, and shows a deletion before the object goes.
LEMMA CopiesStep ==
  ASSUME TypeOK, CopiesInv, [Next]_vars
  PROVE  CopiesInv'
  <1> USE ResAssumption
  <1> USE DEF CopiesInv
  <1>a. /\ k8sgpt \in [Res -> K8sGPTRec] /\ kcache \in [Res -> K8sGPTRec]
        /\ pc # "idle" => res \in Res
        /\ copyVer \in Nat
    BY DEF TypeOK
  <1>1. ASSUME NEW r \in Res, CreateK8sGPT(r) \/ DeleteK8sGPT(r) PROVE CopiesInv'
    <2>1. /\ k8sgpt'[r].state # "absent" /\ k8sgpt'[r].ver = k8sgpt[r].ver + 1
          /\ \A s \in Res : s # r => k8sgpt'[s] = k8sgpt[s]
          /\ UNCHANGED <<kcache, pc, res, copyVer>>
      BY <1>1, <1>a DEF CreateK8sGPT, DeleteK8sGPT, controller, K8sGPTRec
    <2> QED
      BY <2>1, <1>a DEF K8sGPTRec
  <1>2. ASSUME NEW r \in Res, CacheSync(r) PROVE CopiesInv'
    <2>1. /\ kcache'[r] = k8sgpt[r]
          /\ \A s \in Res : s # r => kcache'[s] = kcache[s]
          /\ UNCHANGED <<k8sgpt, pc, res, copyVer>>
      BY <1>2, <1>a DEF CacheSync, controller
    <2> QED
      BY <2>1, <1>a DEF K8sGPTRec
  <1>3. ASSUME NEW r \in Res, MoveServer(r) PROVE CopiesInv'
    BY <1>3 DEF MoveServer, controller
  <1>4. ASSUME NEW r \in Res, StartReconcile(r) PROVE CopiesInv'
    BY <1>4, <1>a DEF StartReconcile, object, K8sGPTRec
  <1>5. CASE RemoveFinalizer \/ RemoveFinalizerLost
    <2>1. CASE k8sgpt[res].ver = copyVer
      <3>1. res \in Res /\ pc = "finalize"
        BY <1>5, <1>a DEF RemoveFinalizer, RemoveFinalizerLost
      <3>2. kcache[res].ver = copyVer /\ kcache[res].state = "deleting"
        <4>1. kcache[res].ver \in Nat
          BY <3>1, <1>a DEF K8sGPTRec
        <4>2. copyVer <= kcache[res].ver /\ kcache[res].ver <= copyVer
          BY <2>1, <3>1
        <4>3. kcache[res].ver = copyVer
          BY <4>1, <4>2, <1>a
        <4> QED
          BY <3>1, <4>3
      <3>3. /\ k8sgpt'[res].ver = k8sgpt[res].ver + 1
            /\ \A s \in Res : s # res => k8sgpt'[s] = k8sgpt[s]
            /\ pc' = "idle" \/ (pc' = "close" /\ UNCHANGED <<res, copyVer>>)
            /\ UNCHANGED kcache
        BY <1>5, <2>1, <3>1, <1>a DEF RemoveFinalizer, RemoveFinalizerLost, Return
      <3> QED
        BY <3>1, <3>2, <3>3, <2>1, <1>a DEF K8sGPTRec
    <2>2. CASE k8sgpt[res].ver # copyVer
      BY <1>5, <2>2 DEF RemoveFinalizer, RemoveFinalizerLost, Return
    <2> QED
      BY <2>1, <2>2
  <1>6. CASE CloseClientFor \/ DialFails \/ Unreachable \/ UseClient \/ Restart
    <2>1. pc' = "idle" /\ UNCHANGED <<k8sgpt, kcache>>
      BY <1>6 DEF CloseClientFor, DialFails, Unreachable, UseClient, Restart, Return, object
    <2> QED
      BY <2>1
  <1>7. CASE GenerateAddress \/ ClientFor \/ SendSignal
    <2>1. /\ pc \in {"connect", "dial", "signal"} /\ pc' \in {"dial", "signal", "use"}
          /\ UNCHANGED <<k8sgpt, kcache, res, copyVer>>
      BY <1>7 DEF GenerateAddress, ClientFor, SendSignal, object
    <2> QED
      BY <2>1
  <1>8. CASE Listen \/ Mutate \/ UNCHANGED vars
    <2>1. UNCHANGED <<k8sgpt, kcache, pc, res, copyVer>>
      BY <1>8 DEF Listen, Mutate, Receive, SetBackend, ReadBackend, TakeClient, Query,
                  object, controller, vars
    <2> QED
      BY <2>1
  <1> QED
    BY <1>1, <1>2, <1>3, <1>4, <1>5, <1>6, <1>7, <1>8 DEF Next, Reconcile

\* Only the worker at "close" leaves the connection of a resource that is gone.
LEMMA ClosedStep ==
  ASSUME TypeOK, CopiesInv, ClosedInv, [Next]_vars
  PROVE  ClosedInv'
  <1> SUFFICES ASSUME faults' = 0, NEW r \in Res, k8sgpt'[r].state = "absent",
                      ~ (pc' = "close" /\ res' = r)
               PROVE  kclients'[r] = NoConn
    BY DEF ClosedInv
  <1> USE ResAssumption
  <1>a. /\ k8sgpt \in [Res -> K8sGPTRec] /\ kclients \in [Res -> ConnOrNone]
        /\ pc # "idle" => res \in Res
        /\ faults \in Nat
    BY DEF TypeOK
  <1>b. k8sgpt[r].state = "absent" /\ faults = 0 /\ ~ (pc = "close" /\ res = r)
        => kclients[r] = NoConn
    BY DEF ClosedInv
  <1>1. ASSUME NEW s \in Res, CreateK8sGPT(s) \/ DeleteK8sGPT(s)
        PROVE  kclients'[r] = NoConn
    <2>1. r # s /\ k8sgpt'[r] = k8sgpt[r]
      BY <1>1, <1>a DEF CreateK8sGPT, DeleteK8sGPT
    <2>2. UNCHANGED <<faults, kclients, pc, res>>
      BY <1>1 DEF CreateK8sGPT, DeleteK8sGPT, controller
    <2> QED
      BY <1>b, <2>1, <2>2
  <1>2. ASSUME NEW s \in Res, MoveServer(s) \/ CacheSync(s) \/ StartReconcile(s)
        PROVE  kclients'[r] = NoConn
    <2>1. UNCHANGED <<faults, kclients, k8sgpt>>
      BY <1>2 DEF MoveServer, CacheSync, StartReconcile, controller, object
    <2>2. pc = "close" => UNCHANGED <<pc, res>>
      BY <1>2 DEF MoveServer, CacheSync, StartReconcile, controller
    <2> QED
      BY <1>b, <2>1, <2>2
  <1>3. CASE RemoveFinalizer
    <2>1. UNCHANGED <<faults, kclients>> /\ pc = "finalize" /\ res \in Res
      BY <1>3, <1>a DEF RemoveFinalizer
    <2>2. CASE k8sgpt[res].ver = copyVer
      <3>1. /\ pc' = "close" /\ res' = res
            /\ k8sgpt' = [k8sgpt EXCEPT ![res] = [state |-> "absent", ver |-> @.ver + 1]]
        BY <1>3, <2>2 DEF RemoveFinalizer
      <3>2. r # res /\ k8sgpt'[r] = k8sgpt[r]
        BY <3>1, <1>a
      <3> QED
        BY <1>b, <2>1, <3>2
    <2>3. CASE k8sgpt[res].ver # copyVer
      <3>1. UNCHANGED k8sgpt
        BY <1>3, <2>3 DEF RemoveFinalizer
      <3> QED
        BY <1>b, <2>1, <3>1
    <2> QED
      BY <2>2, <2>3
  <1>4. CASE RemoveFinalizerLost \/ Restart
    <2>1. faults' = faults + 1
      BY <1>4 DEF RemoveFinalizerLost, Restart
    <2> QED
      BY <1>a, <2>1
  <1>5. CASE CloseClientFor \/ DialFails
    <2>1. res \in Res /\ UNCHANGED <<faults, k8sgpt>>
      BY <1>5, <1>a DEF CloseClientFor, DialFails, object
    <2>2. kclients' = [kclients EXCEPT ![res] = NoConn]
      BY <1>5 DEF CloseClientFor, DialFails
    <2>3. r = res => kclients'[r] = NoConn
      BY <2>1, <2>2, <1>a
    <2>4. r # res => kclients'[r] = kclients[r]
      BY <2>1, <2>2, <1>a
    <2> QED
      BY <1>b, <2>1, <2>3, <2>4
  <1>6. CASE ClientFor
    <2>1. res \in Res /\ UNCHANGED <<faults, k8sgpt>> /\ pc = "dial"
      BY <1>6, <1>a DEF ClientFor, object
    <2>2. r # res
      BY <2>1 DEF CopiesInv
    <2>3. kclients'[r] = kclients[r]
      BY <1>6, <1>a, <2>1, <2>2 DEF ClientFor
    <2> QED
      BY <1>b, <2>1, <2>3
  <1>7. CASE GenerateAddress \/ Unreachable \/ UseClient \/ SendSignal
    <2>1. UNCHANGED <<faults, kclients, k8sgpt>> /\ pc \in {"connect", "use", "signal"}
      BY <1>7 DEF GenerateAddress, Unreachable, UseClient, SendSignal, object
    <2> QED
      BY <1>b, <2>1
  <1>8. CASE Listen \/ Mutate \/ UNCHANGED vars
    <2>1. UNCHANGED <<faults, kclients, k8sgpt, pc, res>>
      BY <1>8 DEF Listen, Mutate, Receive, SetBackend, ReadBackend, TakeClient, Query,
                  object, controller, vars
    <2> QED
      BY <1>b, <2>1
  <1> QED
    BY <1>1, <1>2, <1>3, <1>4, <1>5, <1>6, <1>7, <1>8 DEF Next, Reconcile

-----------------------------------------------------------------------------
\* The inductive invariant of the connections and their hand-over.
THEOREM Invariance == Spec => []IInv
  <1>1. Init => IInv
    <2> SUFFICES ASSUME Init PROVE IInv
      OBVIOUS
    <2>1. TypeOK
      BY TypeInit
    <2>2. OpenIsCached /\ MapInv
      BY DEF Init, OpenIsCached, MapInv
    <2>3. CopiesInv
      <3>1. k8sgpt = [r \in Res |-> [state |-> "absent", ver |-> 0]] /\ kcache = k8sgpt
            /\ pc = "idle"
        BY DEF Init
      <3>2. \A r \in Res : kcache[r] = k8sgpt[r] /\ k8sgpt[r].ver = 0
                           /\ k8sgpt[r].state = "absent"
        BY <3>1
      <3> QED
        BY <3>1, <3>2 DEF CopiesInv
    <2>4. ClosedInv
      BY DEF Init, ClosedInv
    <2> QED
      BY <2>1, <2>2, <2>3, <2>4 DEF IInv
  <1>2. IInv /\ [Next]_vars => IInv'
    BY TypeStep, MapStep, CopiesStep, ClosedStep DEF IInv
  <1> QED
    BY <1>1, <1>2, PTL DEF Spec

\* Every variable of the two controllers and of the hand-over keeps its type;
\* a worker past clientFor, and a query, always has a connection.
THEOREM TypeCorrect == Spec => []TypeOK
  <1>1. IInv => TypeOK
    BY DEF IInv
  <1> QED
    BY <1>1, Invariance, PTL

\* The open connections are those in the map behind clientFor, whatever
\* addresses, dials, deletions and restarts do.
THEOREM NoLeak == Spec => []OpenIsCached
  <1>1. IInv => OpenIsCached
    BY DEF IInv
  <1> QED
    BY <1>1, Invariance, PTL

\* The worker of the K8sGPT controller calls over open connections only.
THEOREM CallsOverOpen == Spec => []NoUseAfterClose
  <1>1. IInv => NoUseAfterClose
    <2> SUFFICES ASSUME IInv, pc \in {"signal", "use"} PROVE kclient \in open
      BY DEF NoUseAfterClose
    <2>1. kclient = kclients[res] /\ kclient \in Conn /\ res \in Res
      BY DEF IInv, MapInv, TypeOK
    <2> QED
      BY <2>1, ConnAssumption DEF IInv, OpenIsCached
  <1> QED
    BY <1>1, Invariance, PTL

\* closeClientFor leaves nothing of a resource that is gone, as long as no
\* answer was lost; however stale the informer, nothing is dialled for it
\* afterwards.
THEOREM NothingLeft == Spec => []RemovedIsClosed
  <1>1. IInv => RemovedIsClosed
    BY DEF IInv, ClosedInv, RemovedIsClosed
  <1> QED
    BY <1>1, Invariance, PTL
================================================================================
