---- MODULE OsmCollectorProofs ----
(* Theorems about OsmCollector, for any meshes, namespaces, pods and queries, and any bounds. *)
EXTENDS OsmCollector, TLAPS

----------------------------------------------------------------------------
(* The inductive invariant *)

InMesh == pc \in {"namespaces", "envoys", "select", "query", "resources"}
InNamespace == pc \in {"envoys", "select", "query", "resources"}
AtPod == pc \in {"select", "query"}

(* Where the loops are: inside what they have taken out of what is left. *)
LoopsInOrder ==
  /\ InMesh => mesh \notin meshesLeft /\ nsLeft \subseteq Monitored[mesh]
  /\ InNamespace => ns \in Monitored[mesh] /\ ns \notin nsLeft /\ podsLeft \subseteq PodsIn(ns)
  /\ AtPod => pod \in PodsIn(ns)
  /\ pc = "query" => pod \in ready

(* What is still to be visited has no forwarder yet. *)
VisitedOnce ==
  \A p \in Pods : fwd[p] # "none" =>
    /\ p \notin podsLeft
    /\ p[1] \notin nsLeft
    /\ \A m \in meshesLeft : p[1] \notin Monitored[m]

(* Only the current pod's forwarder is on its way to listen, and only while Collect waits for it. *)
OnItsWay ==
  \A p \in Pods : fwd[p] \in {"dialing", "connected"} => pc = "select" /\ pod = p

(* A forwarder is ready once it has listened, and it has the port as long as it listens. *)
ReadyWhenListening ==
  \A p \in Pods :
    /\ fwd[p] \in {"none", "dialing", "connected"} => p \notin ready
    /\ fwd[p] \in {"listening", "stopping", "losing"} => p \in ready /\ port = p

(* Nobody else has the port after the current pod's forwarder was ready. *)
PortIsThePods == AtPod /\ pod \in ready => port \in {pod, NoPod}

(* The resources of the namespaces the loop is through with are recorded. *)
ResourcesSoFar ==
  InMesh => \A n \in Monitored[mesh] \ nsLeft :
    ResourceKey(mesh, n) \in DOMAIN data \/ (InNamespace /\ n = ns)

IInv ==
  /\ TypeOK
  /\ LoopsInOrder
  /\ VisitedOnce
  /\ OnItsWay
  /\ ReadyWhenListening
  /\ EarlyErrorsAreReceived
  /\ PortIsThePods
  /\ AnswersAreThePods
  /\ ResourcesSoFar
  /\ MeshesAreWhole

----------------------------------------------------------------------------
(* Operators and steps *)

(* What is left of the queries stays an end of them. *)
LEMMA TailOfSuffix ==
  ASSUME NEW s \in Suffixes(Queries), s # << >>
  PROVE  Tail(s) \in Suffixes(Queries)
<1>1. Queries \in Seq(STRING) /\ Len(Queries) \in Nat
  BY QueryAssumption
<1>2. PICK i \in 1..(Len(Queries) + 1) : s = SubSeq(Queries, i, Len(Queries))
  BY DEF Suffixes
<1>3. i # Len(Queries) + 1
  BY <1>1, <1>2
<1>4. i + 1 \in 1..(Len(Queries) + 1) /\ i \in 1..Len(Queries)
  BY <1>1, <1>3
<1>5. Tail(s) = SubSeq(Queries, i + 1, Len(Queries))
  BY <1>1, <1>2, <1>4
<1> QED
  BY <1>4, <1>5 DEF Suffixes

LEMMA WholeAndNothing == Queries \in Suffixes(Queries) /\ << >> \in Suffixes(Queries)
<1>1. Queries \in Seq(STRING) /\ Len(Queries) \in Nat
  BY QueryAssumption
<1>2. Queries = SubSeq(Queries, 1, Len(Queries)) /\ << >> = SubSeq(Queries, Len(Queries) + 1, Len(Queries))
  BY <1>1
<1>3. 1 \in 1..(Len(Queries) + 1) /\ Len(Queries) + 1 \in 1..(Len(Queries) + 1)
  BY <1>1
<1> QED
  BY <1>2, <1>3 DEF Suffixes

(* The steps of Collect, and the forwarders', by what they touch. *)
Loops == (\E m \in Meshes : NextMesh(m) \/ SkipMesh(m)) \/ (\E n \in Namespaces : NextNamespace(n))
           \/ CollectFails \/ CollectReturns \/ EndEnvoys
Records == NamespaceResources \/ EndMesh
Asks == Query \/ AttemptFails \/ BodyFails
Waits == ReceiveReady \/ ReceiveError \/ EndQueries
Forwards == \E p \in Pods : Forward(p)

LEMMA Steps ==
  ASSUME [Next]_vars
  PROVE  \/ Loops \/ Records \/ Asks \/ Waits \/ Forwards \/ UNCHANGED vars
         \/ \E p \in Pods : StartForwarder(p)
BY DEF Next, Collect, Returned, Loops, Records, Asks, Waits, Forwards

LEMMA FailuresStep ==
  ASSUME TypeOK, [Next]_vars
  PROVE  failures' \in 0..MaxFailures
<1>1. failures \in 0..MaxFailures /\ (Errs => failures' \in 0..MaxFailures)
  BY BoundAssumption DEF TypeOK, Errs
<1>2. Loops \/ Records => failures' = failures \/ Errs
  BY DEF Loops, Records, NextMesh, SkipMesh, NextNamespace, CollectFails, CollectReturns, EndEnvoys,
         NamespaceResources, EndMesh
<1>3. Asks \/ Waits => failures' = failures \/ Errs
  BY DEF Asks, Waits, Query, AttemptFails, BodyFails, ReceiveReady, ReceiveError, EndQueries
<1>4. Forwards => failures' = failures \/ Errs
  BY DEF Forwards, Forward, Dial, Listen, PortTaken, Disconnect, ReleasePort
<1> QED
  BY <1>1, <1>2, <1>3, <1>4, Steps DEF StartForwarder, vars

LEMMA QueriesStep ==
  ASSUME TypeOK, [Next]_vars
  PROVE  queriesLeft' \in Suffixes(Queries) /\ attempt' \in 1..MaxRetries
<1>1. /\ queriesLeft \in Suffixes(Queries) /\ attempt \in 1..MaxRetries /\ 1 \in 1..MaxRetries
      /\ ~GivesUp => attempt + 1 \in 1..MaxRetries
      /\ Queried => Tail(queriesLeft) \in Suffixes(Queries)
  BY TailOfSuffix, BoundAssumption DEF TypeOK, Queried, GivesUp
<1>2. Loops => UNCHANGED <<queriesLeft, attempt>>
  BY DEF Loops, NextMesh, SkipMesh, NextNamespace, CollectFails, CollectReturns, EndEnvoys, loops
<1>3. Asks => queriesLeft' \in Suffixes(Queries) /\ attempt' \in 1..MaxRetries
  BY <1>1 DEF Asks, Query, AttemptFails, BodyFails
<1>4. Waits => queriesLeft' \in Suffixes(Queries) /\ attempt' \in 1..MaxRetries
  BY <1>1, WholeAndNothing DEF Waits, ReceiveReady, ReceiveError, EndQueries, loops
<1>5. Forwards \/ Records => UNCHANGED <<queriesLeft, attempt>>
  BY DEF Forwards, Forward, Dial, Listen, PortTaken, Disconnect, ReleasePort, Forwarder, Records,
         NamespaceResources, EndMesh, loops
<1> QED
  BY <1>1, <1>2, <1>3, <1>4, <1>5, Steps DEF StartForwarder, vars, loops

(* Data is only ever added: an Envoy's answer under its keys, or a namespace's resources. *)
LEMMA DataStep ==
  ASSUME TypeOK, [Next]_vars
  PROVE  /\ data' = data \/ Query \/ NamespaceResources \/ EndMesh
         /\ NamespaceResources =>
              \E keys : /\ data' = Stored(keys, ns) /\ ResourceKey(mesh, ns) \in keys
                        /\ \A k \in keys : k.kind \notin {"envoy", "control_plane"}
         /\ EndMesh =>
              \E keys : /\ data' = Stored(keys, Controller[mesh])
                        /\ ResourceKey(mesh, Controller[mesh]) \in keys
                        /\ \A k \in keys : k.kind # "envoy"
                        /\ \A k \in keys : k.kind = "control_plane" => k = ControlPlaneKey(mesh)
<1>1. ASSUME NEW m, NEW n
      PROVE  /\ \A k \in PodConfigKeys(m, n) \cup PodLogKeys(m, n) \cup {ResourceKey(m, n)} :
                  k.kind \notin {"envoy", "control_plane"}
             /\ ControlPlaneKey(m).kind = "control_plane"
  <2>1. \A k \in PodConfigKeys(m, n) : k.kind = "podConfig"
    <3>1. \A name : Key("podConfig", m, name, "").kind = "podConfig"
      BY DEF Key
    <3> QED
      BY <3>1 DEF PodConfigKeys
  <2>2. \A k \in PodLogKeys(m, n) : k.kind = "podLogs"
    <3>1. \A name : Key("podLogs", m, name, "").kind = "podLogs"
      BY DEF Key
    <3> QED
      BY <3>1 DEF PodLogKeys
  <2>3. ResourceKey(m, n).kind = "resources" /\ ControlPlaneKey(m).kind = "control_plane"
    BY DEF ResourceKey, ControlPlaneKey, Key
  <2> QED
    BY <2>1, <2>2, <2>3
<1>2. ASSUME NamespaceResources
      PROVE  \E keys : /\ data' = Stored(keys, ns) /\ ResourceKey(mesh, ns) \in keys
                       /\ \A k \in keys : k.kind \notin {"envoy", "control_plane"}
  <2>1. \E keys \in {{ResourceKey(mesh, ns)} \cup PodConfigKeys(mesh, ns), {ResourceKey(mesh, ns)}} :
          data' = Stored(keys, ns)
    BY <1>2 DEF NamespaceResources
  <2> QED
    BY <1>1, <1>2, <2>1
<1>3. ASSUME EndMesh
      PROVE  \E keys : /\ data' = Stored(keys, Controller[mesh])
                       /\ ResourceKey(mesh, Controller[mesh]) \in keys
                       /\ \A k \in keys : k.kind # "envoy"
                       /\ \A k \in keys : k.kind = "control_plane" => k = ControlPlaneKey(mesh)
  <2> DEFINE n == Controller[mesh]
             always == {ResourceKey(mesh, n), ControlPlaneKey(mesh)}
  <2>1. PICK some \in {PodConfigKeys(mesh, n) \cup PodLogKeys(mesh, n), PodConfigKeys(mesh, n),
                       PodLogKeys(mesh, n), {}} : data' = Stored(always \cup some, n)
    <3>1. CASE data' = Stored(always \cup PodConfigKeys(mesh, n) \cup PodLogKeys(mesh, n), n)
      <4>1. always \cup PodConfigKeys(mesh, n) \cup PodLogKeys(mesh, n)
              = always \cup (PodConfigKeys(mesh, n) \cup PodLogKeys(mesh, n))
        OBVIOUS
      <4> QED
        BY <3>1, <4>1
    <3>2. CASE \E some \in {PodConfigKeys(mesh, n), PodLogKeys(mesh, n), {}} : data' = Stored(always \cup some, n)
      BY <3>2
    <3> QED
      BY <1>3, <3>1, <3>2 DEF EndMesh
  <2>2. /\ ResourceKey(mesh, n) \in always \cup some
        /\ \A k \in always \cup some : k.kind # "envoy" /\ (k.kind = "control_plane" => k = ControlPlaneKey(mesh))
    BY <1>1
  <2> QED
    BY <1>3, <2>1, <2>2
<1>4. Loops \/ Waits => data' = data
  BY DEF Loops, NextMesh, SkipMesh, NextNamespace, CollectFails, CollectReturns, EndEnvoys, Waits,
         ReceiveReady, ReceiveError, EndQueries
<1>5. Forwards => data' = data
  BY DEF Forwards, Forward, Dial, Listen, PortTaken, Disconnect, ReleasePort, Forwarder
<1>6. Asks => data' = data \/ Query
  BY DEF Asks, AttemptFails, BodyFails
<1> QED
  BY <1>2, <1>3, <1>4, <1>5, <1>6, Steps DEF Records, StartForwarder, vars

(* Who goes from where to where, and who else moves the loops. *)
LEMMA ForwardStep ==
  ASSUME TypeOK, Forwards
  PROVE  /\ UNCHANGED <<pc, loops, attempt, data, stopped>>
         /\ ready \subseteq ready'
BY DEF Forwards, Forward, Dial, Listen, PortTaken, Disconnect, ReleasePort, Forwarder

----------------------------------------------------------------------------
(* Types *)

LEMMA InitIInv == Init => IInv
<1> SUFFICES ASSUME Init PROVE IInv
  OBVIOUS
<1>1. DOMAIN data = {}
  BY DEF Init
<1>2. TypeOK
  BY <1>1, WholeAndNothing, BoundAssumption DEF Init, TypeOK
<1>3. LoopsInOrder /\ VisitedOnce /\ OnItsWay /\ PortIsThePods /\ ResourcesSoFar
  BY DEF Init, LoopsInOrder, VisitedOnce, OnItsWay, PortIsThePods, ResourcesSoFar, InMesh,
         InNamespace, AtPod
<1>4. ReadyWhenListening /\ EarlyErrorsAreReceived
  BY DEF Init, ReadyWhenListening, EarlyErrorsAreReceived
<1>5. AnswersAreThePods /\ MeshesAreWhole
  BY <1>1 DEF AnswersAreThePods, MeshesAreWhole
<1> QED
  BY <1>2, <1>3, <1>4, <1>5 DEF IInv

LEMMA DataTypes ==
  ASSUME TypeOK, LoopsInOrder, [Next]_vars
  PROVE  \A k \in DOMAIN data' : data'[k] \in Pods \cup Namespaces
<1>1. \A k \in DOMAIN data : data[k] \in Pods \cup Namespaces
  BY DEF TypeOK
<1>2. ASSUME NEW keys, NEW from \in Pods \cup Namespaces, data' = Stored(keys, from)
      PROVE  \A k \in DOMAIN data' : data'[k] \in Pods \cup Namespaces
  <2>1. /\ DOMAIN data' = DOMAIN data \cup keys
        /\ \A k \in keys : data'[k] = from
        /\ \A k \in DOMAIN data \ keys : data'[k] = data[k]
    BY <1>2 DEF Stored
  <2> QED
    BY <1>1, <1>2, <2>1
<1>3. CASE Query
  <2>1. data' = Stored({EnvoyKey(mesh, pod, Head(queriesLeft))}, port) /\ port \in Pods
    BY <1>3 DEF Query, Answered, TypeOK
  <2> QED
    BY <1>2, <2>1
<1>4. ns \in Namespaces /\ Controller[mesh] \in Namespaces
  BY ClusterAssumption DEF TypeOK
<1>5. data' = data \/ Query \/ \E keys : data' = Stored(keys, ns) \/ data' = Stored(keys, Controller[mesh])
  BY DataStep
<1> QED
  BY <1>1, <1>2, <1>3, <1>4, <1>5

LEMMA NextTypeOK == TypeOK /\ LoopsInOrder /\ VisitedOnce /\ [Next]_vars => TypeOK'
<1> SUFFICES ASSUME TypeOK, LoopsInOrder, VisitedOnce, [Next]_vars PROVE TypeOK'
  OBVIOUS
<1> DEFINE Pcs == {"meshes", "namespaces", "envoys", "select", "query", "resources", "done", "failed"}
           Fwds == {"none", "dialing", "connected", "listening", "stopping", "losing",
                    "failing", "ended"}
<1>1. /\ failures' \in 0..MaxFailures /\ queriesLeft' \in Suffixes(Queries)
      /\ attempt' \in 1..MaxRetries
      /\ \A k \in DOMAIN data' : data'[k] \in Pods \cup Namespaces
  BY FailuresStep, QueriesStep, DataTypes
<1>2. /\ mesh \in Meshes /\ ns \in Namespaces /\ pod \in Pods \cup {NoPod}
      /\ meshesLeft \subseteq Meshes /\ nsLeft \subseteq Namespaces /\ podsLeft \subseteq Pods
      /\ fwd \in [Pods -> Fwds]
      /\ port \in Pods \cup {NoPod}
      /\ port # NoPod => fwd[port] \in {"listening", "stopping", "losing"}
      /\ ready \subseteq Pods /\ stopped \subseteq Pods /\ pc \in Pcs
  BY DEF TypeOK
<1>3. /\ \A m \in Meshes : Monitored[m] \subseteq Namespaces
      /\ \A n \in Namespaces : PodsIn(n) \subseteq Pods
      /\ \A p \in Pods : p # NoPod
  BY ClusterAssumption DEF PodsIn, Pods
<1>4. ASSUME pc' \in Pcs, mesh' \in Meshes, ns' \in Namespaces, pod' \in Pods \cup {NoPod},
             meshesLeft' \subseteq Meshes, nsLeft' \subseteq Namespaces, podsLeft' \subseteq Pods,
             UNCHANGED forwarding, stopped' \subseteq Pods
      PROVE  TypeOK'
  BY <1>1, <1>2, <1>4 DEF TypeOK, forwarding
<1>5. ASSUME NEW m \in Meshes, NextMesh(m) \/ SkipMesh(m) PROVE TypeOK'
  BY <1>2, <1>3, <1>4, <1>5 DEF NextMesh, SkipMesh, Goes
<1>6. ASSUME NEW n \in Namespaces, NextNamespace(n) PROVE TypeOK'
  BY <1>2, <1>3, <1>4, <1>6 DEF NextNamespace, Goes, AfterEnvoys
<1>7. CASE CollectFails \/ CollectReturns \/ EndEnvoys \/ Records
  BY <1>2, <1>4, <1>7 DEF CollectFails, CollectReturns, EndEnvoys, Records, NamespaceResources,
     EndMesh, Goes, loops, AfterEnvoys
<1>8. ASSUME NEW p \in Pods, StartForwarder(p) PROVE TypeOK'
  <2>1. p \in podsLeft /\ fwd' = [fwd EXCEPT ![p] = "dialing"] /\ UNCHANGED port
    BY <1>8 DEF StartForwarder
  <2>2. fwd[p] = "none"
    BY <2>1 DEF VisitedOnce
  <2>3. fwd' \in [Pods -> Fwds] /\ (port' # NoPod => fwd'[port'] \in {"listening", "stopping", "losing"})
    BY <1>2, <2>1, <2>2
  <2> QED
    BY <1>1, <1>2, <1>8, <2>3 DEF StartForwarder, Goes, TypeOK
<1>9. CASE ReceiveReady
  BY <1>2, <1>4, <1>9 DEF ReceiveReady, Goes
<1>10. CASE ReceiveError
  <2>1. /\ fwd' = [fwd EXCEPT ![pod] = "ended"] /\ fwd[pod] = "failing" /\ UNCHANGED port
        /\ pod \in Pods
    <3>1. pod \in Pods
      BY <1>3, <1>10 DEF LoopsInOrder, AtPod, InNamespace, ReceiveError, Goes, TypeOK
    <3> QED
      BY <1>10, <3>1 DEF ReceiveError
  <2>2. fwd' \in [Pods -> Fwds] /\ (port' # NoPod => fwd'[port'] \in {"listening", "stopping", "losing"})
    BY <1>2, <2>1
  <2> QED
    BY <1>1, <1>2, <1>10, <2>1, <2>2 DEF ReceiveError, Goes, TypeOK, Stop, AfterEnvoys
<1>11. CASE Asks
  BY <1>2, <1>4, <1>11 DEF Asks, Query, AttemptFails, BodyFails
<1>12. CASE EndQueries
  <2>1. pod \in Pods
    BY <1>3, <1>12 DEF LoopsInOrder, AtPod, InNamespace, EndQueries, Goes, TypeOK
  <2> QED
    BY <1>2, <1>4, <1>12, <2>1 DEF EndQueries, Goes, loops, Stop
<1>13. ASSUME NEW p \in Pods, Forward(p) PROVE TypeOK'
  <2>1. /\ fwd' \in [Pods -> Fwds] /\ ready' \subseteq Pods /\ port' \in Pods \cup {NoPod}
        /\ port' # NoPod => fwd'[port'] \in {"listening", "stopping", "losing"}
    <3>1. CASE Dial(p)
      BY <1>2, <3>1 DEF Dial, Forwarder
    <3>2. CASE Listen(p)
      BY <1>2, <3>2 DEF Listen, Forwarder
    <3>3. CASE PortTaken(p)
      BY <1>2, <3>3 DEF PortTaken, Forwarder
    <3>4. CASE Disconnect(p)
      BY <1>2, <3>4 DEF Disconnect, Forwarder
    <3>5. CASE ReleasePort(p)
      BY <1>2, <3>5 DEF ReleasePort, Forwarder
    <3> QED
      BY <1>13, <3>1, <3>2, <3>3, <3>4, <3>5 DEF Forward
  <2>2. UNCHANGED <<pc, loops, attempt, data, stopped>>
    BY <1>13, ForwardStep DEF Forwards
  <2> QED
    BY <1>1, <1>2, <2>1, <2>2 DEF TypeOK, loops
<1>14. CASE UNCHANGED vars
  BY <1>2, <1>4, <1>14 DEF vars, loops
<1> QED
  BY <1>5, <1>6, <1>7, <1>8, <1>9, <1>10, <1>11, <1>12, <1>13, <1>14, Steps DEF Loops, Waits, Forwards

----------------------------------------------------------------------------
(* The invariant is inductive *)

LEMMA NextLoopsInOrder == TypeOK /\ LoopsInOrder /\ [Next]_vars => LoopsInOrder'
<1> SUFFICES ASSUME TypeOK, LoopsInOrder, [Next]_vars PROVE LoopsInOrder'
  OBVIOUS
<1> USE DEF LoopsInOrder, InMesh, InNamespace, AtPod, Goes
<1>1. ASSUME NEW m \in Meshes, NextMesh(m) \/ SkipMesh(m) PROVE LoopsInOrder'
  BY <1>1 DEF NextMesh, SkipMesh
<1>2. ASSUME NEW n \in Namespaces, NextNamespace(n) PROVE LoopsInOrder'
  BY <1>2 DEF NextNamespace, AfterEnvoys
<1>3. CASE CollectFails \/ CollectReturns \/ EndEnvoys \/ Records
  BY <1>3 DEF CollectFails, CollectReturns, EndEnvoys, Records, NamespaceResources, EndMesh,
     loops, AfterEnvoys
<1>4. ASSUME NEW p \in Pods, StartForwarder(p) PROVE LoopsInOrder'
  BY <1>4 DEF StartForwarder
<1>5. CASE ReceiveReady \/ EndQueries
  BY <1>5 DEF ReceiveReady, EndQueries, IsReady, loops, forwarding
<1>6. CASE ReceiveError
  BY <1>6 DEF ReceiveError, AfterEnvoys
<1>7. CASE Asks
  BY <1>7 DEF Asks, Query, AttemptFails, BodyFails, forwarding
<1>8. CASE Forwards
  BY <1>8, ForwardStep DEF loops
<1>9. CASE UNCHANGED vars
  BY <1>9 DEF vars, loops, forwarding
<1> QED
  BY <1>1, <1>2, <1>3, <1>4, <1>5, <1>6, <1>7, <1>8, <1>9, Steps DEF Loops, Waits

(* Only the forwarders, StartForwarder and ReceiveError move a forwarder. *)
LEMMA OthersLeaveForwarders ==
  ASSUME TypeOK, Loops \/ Records \/ Asks \/ ReceiveReady \/ EndQueries \/ UNCHANGED vars
  PROVE  UNCHANGED forwarding
<1>1. Loops \/ Records => UNCHANGED forwarding
  BY DEF Loops, Records, NextMesh, SkipMesh, NextNamespace, CollectFails, CollectReturns, EndEnvoys,
         NamespaceResources, EndMesh
<1>2. Asks \/ ReceiveReady \/ EndQueries => UNCHANGED forwarding
  BY DEF Asks, ReceiveReady, EndQueries, Query, AttemptFails, BodyFails
<1> QED
  BY <1>1, <1>2 DEF vars, forwarding

LEMMA NextVisitedOnce == TypeOK /\ LoopsInOrder /\ VisitedOnce /\ [Next]_vars => VisitedOnce'
<1> SUFFICES ASSUME TypeOK, LoopsInOrder, VisitedOnce, [Next]_vars PROVE VisitedOnce'
  OBVIOUS
<1>1. ASSUME \A p \in Pods : fwd'[p] # "none" => fwd[p] # "none",
             podsLeft' \subseteq podsLeft, nsLeft' \subseteq nsLeft, meshesLeft' \subseteq meshesLeft
      PROVE  VisitedOnce'
  BY <1>1 DEF VisitedOnce
<1>2. ASSUME NEW m \in Meshes, NextMesh(m) PROVE VisitedOnce'
  BY <1>2 DEF NextMesh, VisitedOnce, forwarding
<1>3. ASSUME NEW n \in Namespaces, NextNamespace(n) PROVE VisitedOnce'
  BY <1>3 DEF NextNamespace, VisitedOnce, forwarding, PodsIn
<1>4. ASSUME NEW m \in Meshes, SkipMesh(m) PROVE VisitedOnce'
  BY <1>1, <1>4 DEF SkipMesh, forwarding
<1>5. CASE CollectFails \/ CollectReturns \/ EndEnvoys \/ Records
  BY <1>1, <1>5 DEF CollectFails, CollectReturns, EndEnvoys, Records, NamespaceResources, EndMesh,
     loops, forwarding
<1>6. ASSUME NEW p \in Pods, StartForwarder(p) PROVE VisitedOnce'
  <2>1. /\ p \in podsLeft /\ podsLeft' = podsLeft \ {p} /\ pc = "envoys"
        /\ fwd' = [fwd EXCEPT ![p] = "dialing"]
        /\ UNCHANGED <<mesh, ns, nsLeft, meshesLeft>>
    BY <1>6 DEF StartForwarder, Goes
  <2>2. /\ p[1] = ns /\ ns \in Monitored[mesh] /\ ns \notin nsLeft
        /\ mesh \notin meshesLeft
    BY <2>1 DEF LoopsInOrder, InMesh, InNamespace, PodsIn
  <2>3. \A m \in meshesLeft : p[1] \notin Monitored[m]
    BY <2>2, ClusterAssumption DEF TypeOK
  <2>4. \A q \in Pods : q # p => fwd'[q] = fwd[q]
    BY <2>1 DEF TypeOK
  <2> QED
    BY <2>1, <2>2, <2>3, <2>4 DEF VisitedOnce
<1>7. CASE ReceiveReady \/ EndQueries \/ Asks
  BY <1>1, <1>7 DEF ReceiveReady, EndQueries, Asks, Query, AttemptFails, BodyFails, loops, forwarding
<1>8. CASE ReceiveError
  BY <1>1, <1>8 DEF ReceiveError, TypeOK
<1>9. ASSUME NEW p \in Pods, Forward(p) PROVE VisitedOnce'
  <2>1. \A q \in Pods : fwd'[q] # "none" => fwd[q] # "none"
    BY <1>9 DEF Forward, Dial, Listen, PortTaken, Disconnect, ReleasePort, Forwarder, TypeOK
  <2> QED
    BY <1>1, <1>9, <2>1, ForwardStep DEF Forwards, loops
<1>10. CASE UNCHANGED vars
  BY <1>1, <1>10 DEF vars, loops, forwarding
<1> QED
  BY <1>2, <1>3, <1>4, <1>5, <1>6, <1>7, <1>8, <1>9, <1>10, Steps DEF Loops, Waits, Forwards

(* Collect is at a forwarder's side while that is on its way or fails unready. *)
LEMMA NextForwarders ==
  /\ TypeOK /\ LoopsInOrder /\ VisitedOnce /\ OnItsWay /\ ReadyWhenListening
  /\ EarlyErrorsAreReceived /\ PortIsThePods /\ [Next]_vars
  => OnItsWay' /\ ReadyWhenListening' /\ EarlyErrorsAreReceived' /\ PortIsThePods'
<1> DEFINE Goal == OnItsWay' /\ ReadyWhenListening' /\ EarlyErrorsAreReceived' /\ PortIsThePods'
<1> SUFFICES ASSUME TypeOK, LoopsInOrder, VisitedOnce, OnItsWay, ReadyWhenListening,
                    EarlyErrorsAreReceived, PortIsThePods, [Next]_vars
             PROVE  Goal
  OBVIOUS
<1>0. fwd \in [Pods -> {"none", "dialing", "connected", "listening", "stopping", "losing",
                       "failing", "ended"}]
  BY DEF TypeOK
<1>1. ASSUME UNCHANGED <<pc, pod, forwarding>> PROVE Goal
  BY <1>1 DEF OnItsWay, ReadyWhenListening, EarlyErrorsAreReceived, PortIsThePods, AtPod, forwarding
<1>2. ASSUME UNCHANGED forwarding, pc # "select", ~AtPod' PROVE Goal
  BY <1>2 DEF OnItsWay, ReadyWhenListening, EarlyErrorsAreReceived, PortIsThePods, AtPod, forwarding
<1>3. CASE Loops \/ Records
  <2>1. UNCHANGED forwarding
    BY <1>3, OthersLeaveForwarders
  <2>2. pc # "select" /\ ~AtPod'
    BY <1>3 DEF Loops, Records, NextMesh, SkipMesh, NextNamespace, CollectFails, CollectReturns,
       EndEnvoys, NamespaceResources, EndMesh, Goes, AfterEnvoys, AtPod
  <2> QED
    BY <1>2, <2>1, <2>2
<1>4. CASE Asks
  BY <1>1, <1>4 DEF Asks, Query, AttemptFails, BodyFails
<1>5. CASE EndQueries
  BY <1>2, <1>5 DEF EndQueries, Goes, AtPod
<1>6. CASE ReceiveReady
  BY <1>6 DEF ReceiveReady, Goes, IsReady, forwarding, OnItsWay, ReadyWhenListening,
     EarlyErrorsAreReceived, PortIsThePods, AtPod
<1>7. CASE ReceiveError
  <2>1. /\ pc = "select" /\ ~AtPod' /\ fwd[pod] = "failing" /\ UNCHANGED <<ready, port>>
        /\ fwd' = [fwd EXCEPT ![pod] = "ended"]
    BY <1>7 DEF ReceiveError, Goes, AfterEnvoys, AtPod
  <2>2. \A q \in Pods : fwd'[q] = IF q = pod THEN "ended" ELSE fwd[q]
    BY <1>0, <2>1
  <2> QED
    BY <2>1, <2>2 DEF OnItsWay, ReadyWhenListening, EarlyErrorsAreReceived, PortIsThePods
<1>8. ASSUME NEW p \in Pods, StartForwarder(p) PROVE Goal
  <2>1. /\ pc = "envoys" /\ pc' = "select" /\ pod' = p /\ p \in podsLeft /\ UNCHANGED <<ready, port>>
        /\ fwd' = [fwd EXCEPT ![p] = "dialing"]
    BY <1>8 DEF StartForwarder, Goes
  <2>2. fwd[p] = "none" /\ p \notin ready
    BY <2>1 DEF VisitedOnce, ReadyWhenListening
  <2>3. \A q \in Pods : fwd'[q] = IF q = p THEN "dialing" ELSE fwd[q]
    BY <1>0, <2>1
  <2> QED
    BY <2>1, <2>2, <2>3 DEF OnItsWay, ReadyWhenListening, EarlyErrorsAreReceived, PortIsThePods
<1>9. ASSUME NEW p \in Pods, Forward(p) PROVE Goal
  <2>1. UNCHANGED <<pc, pod>>
    BY <1>9, ForwardStep DEF Forwards, loops
  <2>2. ASSUME NEW from, NEW to, Forwarder(p, from, to)
        PROVE  fwd[p] = from /\ \A q \in Pods : fwd'[q] = IF q = p THEN to ELSE fwd[q]
    BY <1>0, <2>2 DEF Forwarder
  <2> USE DEF OnItsWay, ReadyWhenListening, EarlyErrorsAreReceived, PortIsThePods, AtPod
  <2>3. CASE Dial(p)
    <3>1. UNCHANGED <<port, ready>>
      BY <2>3 DEF Dial
    <3>2. PICK to \in {"connected", "failing"} :
            fwd[p] = "dialing" /\ \A q \in Pods : fwd'[q] = IF q = p THEN to ELSE fwd[q]
      BY <2>2, <2>3 DEF Dial
    <3> QED
      BY <2>1, <3>1, <3>2
  <2>4. CASE Listen(p)
    <3>1. /\ port = NoPod /\ port' = p /\ ready' = ready \cup {p} /\ fwd[p] = "connected"
          /\ \A q \in Pods : fwd'[q] = IF q = p THEN "listening" ELSE fwd[q]
      BY <2>2, <2>4 DEF Listen
    <3>2. /\ pc = "select" /\ pod = p
          /\ \A q \in Pods : fwd[q] \notin {"listening", "stopping", "losing"}
      BY <3>1, ClusterAssumption DEF Pods
    <3> QED
      BY <2>1, <3>1, <3>2
  <2>5. CASE PortTaken(p)
    BY <2>1, <2>2, <2>5 DEF PortTaken
  <2>6. CASE Disconnect(p)
    BY <2>1, <2>2, <2>6 DEF Disconnect
  <2>7. CASE ReleasePort(p)
    BY <2>1, <2>2, <2>7 DEF ReleasePort
  <2> QED
    BY <1>9, <2>3, <2>4, <2>5, <2>6, <2>7 DEF Forward
<1>10. CASE UNCHANGED vars
  BY <1>1, <1>10 DEF vars, loops
<1> QED
  BY <1>3, <1>4, <1>5, <1>6, <1>7, <1>8, <1>9, <1>10, Steps DEF Waits, Forwards

(* Whoever answers a query is the pod it is asked of. *)
LEMMA NextAnswersAreThePods ==
  TypeOK /\ LoopsInOrder /\ PortIsThePods /\ AnswersAreThePods /\ [Next]_vars => AnswersAreThePods'
<1> SUFFICES ASSUME TypeOK, LoopsInOrder, PortIsThePods, AnswersAreThePods, [Next]_vars
             PROVE  AnswersAreThePods'
  OBVIOUS
<1>1. ASSUME NEW keys, NEW from, data' = Stored(keys, from), \A k \in keys : k.kind # "envoy"
      PROVE  AnswersAreThePods'
  <2>1. /\ DOMAIN data' = DOMAIN data \cup keys
        /\ \A k \in DOMAIN data \ keys : data'[k] = data[k]
    BY <1>1 DEF Stored
  <2> QED
    BY <1>1, <2>1 DEF AnswersAreThePods
<1>2. CASE Query
  <2>1. /\ pc = "query" /\ port # NoPod
        /\ data' = Stored({EnvoyKey(mesh, pod, Head(queriesLeft))}, port)
    BY <1>2 DEF Query, Queried, Answered
  <2>2. port = pod /\ pod \in PodsIn(ns) /\ ns \in Monitored[mesh]
    BY <2>1 DEF LoopsInOrder, PortIsThePods, AtPod, InNamespace
  <2> DEFINE key == EnvoyKey(mesh, pod, Head(queriesLeft))
  <2>3. key.mesh = mesh /\ key.of = pod[2] /\ pod = <<ns, pod[2]>>
    BY <2>2 DEF EnvoyKey, Key, PodsIn
  <2>4. data' = Stored({key}, pod)
    BY <2>1, <2>2
  <2> HIDE DEF key
  <2>5. /\ DOMAIN data' = DOMAIN data \cup {key} /\ data'[key] = pod
        /\ \A k \in DOMAIN data \ {key} : data'[k] = data[k]
    BY <2>4 DEF Stored
  <2>6. \E n \in Monitored[key.mesh] : data'[key] = <<n, key.of>>
    BY <2>2, <2>3, <2>5
  <2> QED
    BY <2>5, <2>6 DEF AnswersAreThePods
<1>3. ASSUME data' = data PROVE AnswersAreThePods'
  BY <1>3 DEF AnswersAreThePods
<1>4. CASE NamespaceResources
  <2>1. PICK keys : data' = Stored(keys, ns) /\ \A k \in keys : k.kind \notin {"envoy", "control_plane"}
    BY <1>4, DataStep
  <2> QED
    BY <1>1, <2>1
<1>5. CASE EndMesh
  <2>1. PICK keys : /\ data' = Stored(keys, Controller[mesh])
                    /\ ResourceKey(mesh, Controller[mesh]) \in keys
                    /\ \A k \in keys : k.kind # "envoy"
                    /\ \A k \in keys : k.kind = "control_plane" => k = ControlPlaneKey(mesh)
    BY <1>5, DataStep
  <2>2. \A k \in keys : k.kind # "envoy"
    BY <2>1
  <2> QED
    BY <1>1, <2>1, <2>2
<1> QED
  BY <1>2, <1>3, <1>4, <1>5, DataStep

(* What is recorded stays recorded. *)
LEMMA DataGrows ==
  ASSUME TypeOK, [Next]_vars
  PROVE  /\ DOMAIN data \subseteq DOMAIN data'
         /\ \A m : ControlPlaneKey(m) \in DOMAIN data' =>
              ControlPlaneKey(m) \in DOMAIN data \/ (EndMesh /\ m = mesh)
         /\ NamespaceResources => ResourceKey(mesh, ns) \in DOMAIN data'
         /\ EndMesh => ResourceKey(mesh, Controller[mesh]) \in DOMAIN data'
<1>1. ASSUME NEW m PROVE ControlPlaneKey(m).kind = "control_plane" /\ ControlPlaneKey(m).mesh = m
  BY DEF ControlPlaneKey, Key
<1>2. ~(Query /\ (NamespaceResources \/ EndMesh)) /\ ~(NamespaceResources /\ EndMesh)
  BY DEF Query, Queried, NamespaceResources, EndMesh, Goes
<1>3. CASE Query
  <2>1. data' = Stored({EnvoyKey(mesh, pod, Head(queriesLeft))}, port)
    BY <1>3 DEF Query
  <2>2. EnvoyKey(mesh, pod, Head(queriesLeft)).kind = "envoy"
    BY DEF EnvoyKey, Key
  <2>3. DOMAIN data' = DOMAIN data \cup {EnvoyKey(mesh, pod, Head(queriesLeft))}
    BY <2>1 DEF Stored
  <2> QED
    BY <1>1, <1>2, <1>3, <2>2, <2>3
<1>4. CASE NamespaceResources
  <2>1. PICK keys : /\ data' = Stored(keys, ns) /\ ResourceKey(mesh, ns) \in keys
                    /\ \A k \in keys : k.kind \notin {"envoy", "control_plane"}
    BY <1>4, DataStep
  <2>2. DOMAIN data' = DOMAIN data \cup keys
    BY <2>1 DEF Stored
  <2> QED
    BY <1>1, <1>2, <1>4, <2>1, <2>2
<1>5. CASE EndMesh
  <2>1. PICK keys : /\ data' = Stored(keys, Controller[mesh])
                    /\ ResourceKey(mesh, Controller[mesh]) \in keys
                    /\ \A k \in keys : k.kind = "control_plane" => k = ControlPlaneKey(mesh)
    BY <1>5, DataStep
  <2>2. DOMAIN data' = DOMAIN data \cup keys
    BY <2>1 DEF Stored
  <2>3. ASSUME NEW m, ControlPlaneKey(m) \in keys PROVE m = mesh
    BY <1>1, <2>1, <2>3
  <2> QED
    BY <1>2, <1>5, <2>1, <2>2, <2>3
<1>6. CASE data' = data /\ ~NamespaceResources /\ ~EndMesh
  BY <1>6
<1> QED
  BY <1>3, <1>4, <1>5, <1>6, DataStep

LEMMA NextMeshesAreWhole ==
  TypeOK /\ LoopsInOrder /\ ResourcesSoFar /\ MeshesAreWhole /\ [Next]_vars
    => ResourcesSoFar' /\ MeshesAreWhole'
<1> SUFFICES ASSUME TypeOK, LoopsInOrder, ResourcesSoFar, MeshesAreWhole, [Next]_vars
             PROVE  ResourcesSoFar' /\ MeshesAreWhole'
  OBVIOUS
<1>1. /\ DOMAIN data \subseteq DOMAIN data'
      /\ \A m : ControlPlaneKey(m) \in DOMAIN data' =>
           ControlPlaneKey(m) \in DOMAIN data \/ (EndMesh /\ m = mesh)
      /\ NamespaceResources => ResourceKey(mesh, ns) \in DOMAIN data'
      /\ EndMesh => ResourceKey(mesh, Controller[mesh]) \in DOMAIN data'
  BY DataGrows
<1>2. MeshesAreWhole'
  <2>1. EndMesh => \A n \in Monitored[mesh] : ResourceKey(mesh, n) \in DOMAIN data
    BY DEF EndMesh, Goes, ResourcesSoFar, InMesh, InNamespace
  <2> SUFFICES ASSUME NEW m \in Meshes, ControlPlaneKey(m) \in DOMAIN data',
                      NEW n \in Monitored[m] \cup {Controller[m]}
               PROVE  ResourceKey(m, n) \in DOMAIN data'
    BY DEF MeshesAreWhole
  <2>2. CASE ControlPlaneKey(m) \in DOMAIN data
    BY <1>1, <2>2 DEF MeshesAreWhole
  <2>3. CASE EndMesh /\ m = mesh
    BY <1>1, <2>1, <2>3
  <2> QED
    BY <1>1, <2>2, <2>3
<1> USE DEF ResourcesSoFar, InMesh, InNamespace, Goes
<1>3. ASSUME NEW m \in Meshes, NextMesh(m) \/ SkipMesh(m) PROVE ResourcesSoFar'
  BY <1>3 DEF NextMesh, SkipMesh
<1>4. ASSUME NEW n \in Namespaces, NextNamespace(n) PROVE ResourcesSoFar'
  BY <1>4 DEF NextNamespace, AfterEnvoys
<1>5. CASE CollectFails \/ CollectReturns \/ EndMesh
  BY <1>2, <1>5 DEF CollectFails, CollectReturns, EndMesh
<1>6. CASE NamespaceResources
  BY <1>2, <1>1, <1>6 DEF NamespaceResources, loops
<1>7. ASSUME UNCHANGED <<mesh, ns, nsLeft>>, (InMesh /\ (InNamespace => InNamespace')) \/ UNCHANGED pc
      PROVE  ResourcesSoFar'
  BY <1>1, <1>7
<1>8. CASE EndEnvoys \/ Waits
  BY <1>2, <1>7, <1>8 DEF EndEnvoys, Waits, ReceiveReady, ReceiveError, EndQueries, loops, AfterEnvoys
<1>9. CASE Asks \/ UNCHANGED vars
  BY <1>2, <1>7, <1>9 DEF Asks, Query, AttemptFails, BodyFails, vars, loops
<1>10. CASE Forwards
  BY <1>2, <1>7, <1>10, ForwardStep DEF loops
<1>11. ASSUME NEW p \in Pods, StartForwarder(p) PROVE ResourcesSoFar'
  BY <1>7, <1>11 DEF StartForwarder
<1> QED
  BY <1>2, <1>3, <1>4, <1>5, <1>6, <1>8, <1>9, <1>10, <1>11, Steps DEF Loops, Records

LEMMA Inductive == Spec => []IInv
<1>1. IInv /\ [Next]_vars => IInv'
  <2>1. ASSUME IInv, [Next]_vars
        PROVE  /\ TypeOK' /\ LoopsInOrder' /\ VisitedOnce'
               /\ OnItsWay' /\ ReadyWhenListening' /\ EarlyErrorsAreReceived' /\ PortIsThePods'
               /\ AnswersAreThePods' /\ ResourcesSoFar' /\ MeshesAreWhole'
    <3>1. /\ TypeOK /\ LoopsInOrder /\ VisitedOnce
          /\ OnItsWay /\ ReadyWhenListening /\ EarlyErrorsAreReceived /\ PortIsThePods
          /\ AnswersAreThePods /\ ResourcesSoFar /\ MeshesAreWhole
      BY <2>1 DEF IInv
    <3> QED
      BY <2>1, <3>1, NextTypeOK, NextLoopsInOrder, NextVisitedOnce, NextForwarders,
         NextAnswersAreThePods, NextMeshesAreWhole
  <2> QED
    BY <2>1 DEF IInv
<1> QED
  BY InitIInv, <1>1, PTL DEF Spec

----------------------------------------------------------------------------
(* The theorems *)

(* Every variable keeps its type, and the port belongs to a forwarder that listens. *)
THEOREM TypeCorrect == Spec => []TypeOK
<1>1. IInv => TypeOK
  BY DEF IInv
<1> QED
  BY <1>1, Inductive, PTL

(* What is stored as a pod's was answered by that pod, although every forwarder uses the same *)
(* local port and Collect waits for none of those it has stopped.                             *)
THEOREM AnswersComeFromThePod == Spec => []AnswersAreThePods
<1>1. IInv => AnswersAreThePods
  BY DEF IInv
<1> QED
  BY <1>1, Inductive, PTL

(* No forwarder that fails before it was ready is left with its error. *)
THEOREM NoEarlyErrorIsLeft == Spec => []EarlyErrorsAreReceived
<1>1. IInv => EarlyErrorsAreReceived
  BY DEF IInv
<1> QED
  BY <1>1, Inductive, PTL

(* When a mesh is done the resources of all of its namespaces are recorded, however many of *)
(* its pods could not be asked.                                                             *)
THEOREM DoneMeshIsWhole == Spec => []MeshesAreWhole
<1>1. IInv => MeshesAreWhole
  BY DEF IInv
<1> QED
  BY <1>1, Inductive, PTL
====
