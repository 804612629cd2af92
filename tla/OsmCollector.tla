---- MODULE OsmCollector ----
(***************************************************************************)
(* pkg/collector/osm_collector.go: the collection from the meshes of Open  *)
(* Service Mesh, and utils.GetUrlWithRetries.                              *)
(*                                                                         *)
(* Collect goes through the meshes, for each through its monitored         *)
(* namespaces, and in each through the pods: it asks the Envoy of a pod    *)
(* some queries through a port forwarded to it.  The forwarder is a        *)
(* goroutine of its own, with a channel that says it is ready, one that    *)
(* stops it and one for its error; every forwarder listens on the SAME     *)
(* local port, and nobody waits for one that was stopped to let go of it.  *)
(* Then the resources of the namespace are recorded, and in the end the    *)
(* logs and resources of the controller and the mesh's own objects.        *)
(*                                                                         *)
(* What the API server returns does not change during a collection.  A     *)
(* value is reduced to where it comes from, and the error that is recorded *)
(* in place of a value to the value: the code records either.              *)
(***************************************************************************)
EXTENDS Integers, Sequences

CONSTANTS
  Meshes,      \* deployments of osm-controller
  Namespaces, Names,
  Monitored,   \* mesh -> the namespaces it monitors
  Controller,  \* mesh -> the namespace of its controller
  NamesIn,     \* namespace -> the names of its pods
  Queries,     \* config_dump, clusters, ..., in order
  NoPod,
  MaxRetries,  \* of GetUrlWithRetries; 5 in the code
  MaxFailures  \* bound: errors of the API server, of a pod or of a connection

Pods == Namespaces \X Names
PodsIn(ns) == {ns} \X NamesIn[ns]

ASSUME ClusterAssumption ==
  /\ Monitored \in [Meshes -> SUBSET Namespaces] /\ Controller \in [Meshes -> Namespaces]
  /\ \A m1, m2 \in Meshes : m1 # m2 => Monitored[m1] \cap Monitored[m2] = {}
  /\ NamesIn \in [Namespaces -> SUBSET Names]
  /\ NoPod \notin Pods
ASSUME QueryAssumption == Queries \in Seq(STRING)
ASSUME BoundAssumption == MaxRetries \in Nat \ {0} /\ MaxFailures \in Nat

VARIABLES
  pc,         \* of Collect and what it calls: "meshes", "namespaces", "envoys", "select",
              \* "query", "resources"; "done" or "failed" when it has returned
  mesh, ns, pod,                   \* what the loops are at
  meshesLeft, nsLeft, podsLeft, queriesLeft,
  attempt,    \* of GetUrlWithRetries
  data,       \* key -> where the value comes from
  fwd,        \* pod -> the goroutine of its forwarder
  port,       \* the pod whose forwarder has the local port
  ready,      \* pods whose readyChan is closed
  stopped,    \* pods whose stopChan is closed
  failures    \* steps in which an error occurred

loops == <<mesh, ns, pod, meshesLeft, nsLeft, podsLeft, queriesLeft>>
forwarding == <<fwd, port, ready>>
vars == <<pc, loops, attempt, data, forwarding, stopped, failures>>

----------------------------------------------------------------------------
(* Slips of the code that the properties below must notice. *)

NotWaiting == TRUE
OneTooMany == attempt > MaxRetries
NextNamespaceAtOnce == "namespaces"
NotStopped == stopped

(* The keys of the data, and what is recorded under them. *)
Key(kind, m, of, what) == [kind |-> kind, mesh |-> m, of |-> of, what |-> what]
EnvoyKey(m, p, q) == Key("envoy", m, p[2], q)
PodConfigKeys(m, n) == {Key("podConfig", m, name, "") : name \in NamesIn[n]}
PodLogKeys(m, n) == {Key("podLogs", m, name, "") : name \in NamesIn[n]}
ResourceKey(m, n) == Key("resources", m, n, "")
ControlPlaneKey(m) == Key("control_plane", m, "", "")

Stored(keys, from) ==
  [k \in DOMAIN data \cup keys |-> IF k \in keys THEN from ELSE data[k]]

Init ==
  /\ pc = "meshes"
  /\ mesh \in Meshes /\ ns \in Namespaces /\ pod = NoPod
  /\ meshesLeft = Meshes /\ nsLeft = {} /\ podsLeft = {} /\ queriesLeft = << >>
  /\ attempt = 1
  /\ data = [k \in {} |-> NoPod]
  /\ fwd = [p \in Pods |-> "none"]
  /\ port = NoPod
  /\ ready = {} /\ stopped = {}
  /\ failures = 0

Goes(from, to) == pc = from /\ pc' = to
Errs == failures < MaxFailures /\ failures' = failures + 1

----------------------------------------------------------------------------
(* Collect: the meshes and their namespaces. *)

NextMesh(m) ==
  /\ Goes("meshes", "namespaces") /\ m \in meshesLeft
  /\ mesh' = m /\ meshesLeft' = meshesLeft \ {m} /\ nsLeft' = Monitored[m]
  /\ UNCHANGED <<ns, pod, podsLeft, queriesLeft, attempt, data, forwarding, stopped, failures>>

(* The list of the namespaces monitored by m is not found: log and continue. *)
SkipMesh(m) ==
  /\ Goes("meshes", "meshes") /\ m \in meshesLeft
  /\ Errs
  /\ meshesLeft' = meshesLeft \ {m}
  /\ UNCHANGED <<mesh, ns, pod, nsLeft, podsLeft, queriesLeft, attempt, data, forwarding, stopped>>

(* The deployments or the namespaces cannot be listed, or a deployment has no mesh name. *)
CollectFails ==
  /\ Goes("meshes", "failed") /\ Errs
  /\ UNCHANGED <<loops, attempt, data, forwarding, stopped>>

CollectReturns ==
  /\ Goes("meshes", "done") /\ meshesLeft = {}
  /\ UNCHANGED <<loops, attempt, data, forwarding, stopped, failures>>

AfterEnvoys == "resources"

(* collectDataFromEnvoys lists the pods of the namespace. *)
NextNamespace(n) ==
  /\ n \in nsLeft /\ ns' = n /\ nsLeft' = nsLeft \ {n}
  /\ \/ Goes("namespaces", "envoys") /\ podsLeft' = PodsIn(n) /\ UNCHANGED failures
     \/ Goes("namespaces", AfterEnvoys) /\ podsLeft' = {} /\ Errs
  /\ UNCHANGED <<mesh, pod, meshesLeft, queriesLeft, attempt, data, forwarding, stopped>>

EndEnvoys ==
  /\ Goes("envoys", AfterEnvoys) /\ podsLeft = {}
  /\ UNCHANGED <<loops, attempt, data, forwarding, stopped, failures>>

(* collectNamespaceResources; the pods' configurations are left out when they cannot be listed. *)
NamespaceResources ==
  /\ Goes("resources", "namespaces")
  /\ \/ data' = Stored({ResourceKey(mesh, ns)} \cup PodConfigKeys(mesh, ns), ns) /\ UNCHANGED failures
     \/ data' = Stored({ResourceKey(mesh, ns)}, ns) /\ Errs
  /\ UNCHANGED <<loops, attempt, forwarding, stopped>>

(* The controller's logs and resources, and collectGroundTruth. *)
EndMesh ==
  /\ Goes("namespaces", "meshes") /\ nsLeft = {}
  /\ LET n == Controller[mesh]
         always == {ResourceKey(mesh, n), ControlPlaneKey(mesh)} IN
       \/ data' = Stored(always \cup PodConfigKeys(mesh, n) \cup PodLogKeys(mesh, n), n) /\ UNCHANGED failures
       \/ Errs /\ \E some \in {PodConfigKeys(mesh, n), PodLogKeys(mesh, n), {}} : data' = Stored(always \cup some, n)
  /\ UNCHANGED <<loops, attempt, forwarding, stopped>>

----------------------------------------------------------------------------
(* portForwardAndRunEnvoyQueries *)

StartForwarder(p) ==
  /\ Goes("envoys", "select") /\ p \in podsLeft
  /\ pod' = p /\ podsLeft' = podsLeft \ {p}
  /\ fwd' = [fwd EXCEPT ![p] = "dialing"]
  /\ UNCHANGED <<mesh, ns, meshesLeft, nsLeft, queriesLeft, attempt, data, port, ready, stopped, failures>>

IsReady == pod \in ready
Stop == stopped \cup {pod}   \* the deferred close(stopChan)

ReceiveReady ==
  /\ Goes("select", "query") /\ IsReady
  /\ queriesLeft' = Queries /\ attempt' = 1
  /\ UNCHANGED <<mesh, ns, pod, meshesLeft, nsLeft, podsLeft, data, forwarding, stopped, failures>>

(* An error: the namespace's other pods are left out. *)
ReceiveError ==
  /\ Goes("select", AfterEnvoys) /\ fwd[pod] = "failing"
  /\ fwd' = [fwd EXCEPT ![pod] = "ended"]
  /\ stopped' = Stop
  /\ podsLeft' = {}
  /\ UNCHANGED <<mesh, ns, pod, meshesLeft, nsLeft, queriesLeft, attempt, data, port, ready, failures>>

(* http.Get of the next query. *)
Queried == pc = "query" /\ queriesLeft # << >>
Answered == port # NoPod /\ fwd[port] = "listening"
GivesUp == attempt = MaxRetries

(* Whoever has the port answers, as long as its connection to the pod is open. *)
Query ==
  /\ Queried /\ Answered
  /\ data' = Stored({EnvoyKey(mesh, pod, Head(queriesLeft))}, port)
  /\ queriesLeft' = Tail(queriesLeft) /\ attempt' = 1
  /\ UNCHANGED <<pc, mesh, ns, pod, meshesLeft, nsLeft, podsLeft, forwarding, stopped, failures>>

(* An attempt of GetUrlWithRetries gets no response; after the last the query is logged and passed over. *)
AttemptFails ==
  /\ Queried
  /\ (~Answered /\ UNCHANGED failures) \/ Errs
  /\ IF GivesUp
       THEN queriesLeft' = Tail(queriesLeft) /\ attempt' = 1
       ELSE attempt' = attempt + 1 /\ UNCHANGED queriesLeft
  /\ UNCHANGED <<pc, mesh, ns, pod, meshesLeft, nsLeft, podsLeft, data, forwarding, stopped>>

(* The response breaks off: io.ReadAll's error is returned without another attempt. *)
BodyFails ==
  /\ Queried /\ Answered /\ Errs
  /\ queriesLeft' = Tail(queriesLeft) /\ attempt' = 1
  /\ UNCHANGED <<pc, mesh, ns, pod, meshesLeft, nsLeft, podsLeft, data, forwarding, stopped>>

EndQueries ==
  /\ Goes("query", "envoys") /\ queriesLeft = << >>
  /\ stopped' = Stop
  /\ UNCHANGED <<loops, attempt, data, forwarding, failures>>

----------------------------------------------------------------------------
(* The goroutine of p's forwarder: portForward, ForwardPorts of client-go, and the send of the *)
(* error, which waits for ever once nobody receives.                                           *)

Forwarder(p, from, to) ==
  /\ fwd[p] = from /\ fwd' = [fwd EXCEPT ![p] = to]
  /\ UNCHANGED <<pc, loops, attempt, data, stopped>>

Dial(p) ==
  /\ \/ Forwarder(p, "dialing", "connected") /\ UNCHANGED failures
     \/ Forwarder(p, "dialing", "failing") /\ Errs
  /\ UNCHANGED <<port, ready>>

Listen(p) ==
  /\ port = NoPod
  /\ Forwarder(p, "connected", "listening")
  /\ port' = p /\ ready' = ready \cup {p}
  /\ UNCHANGED failures

(* "unable to listen on any of the requested ports" *)
PortTaken(p) ==
  /\ port # NoPod
  /\ Forwarder(p, "connected", "failing")
  /\ UNCHANGED <<port, ready, failures>>

(* The connection to the pod is closed first, the listener after it. *)
Disconnect(p) ==
  /\ \/ Forwarder(p, "listening", "stopping") /\ p \in stopped /\ UNCHANGED failures
     \/ Forwarder(p, "listening", "losing") /\ Errs
  /\ UNCHANGED <<port, ready>>

ReleasePort(p) ==
  /\ \/ Forwarder(p, "stopping", "ended")
     \/ Forwarder(p, "losing", "failing")
  /\ port' = NoPod
  /\ UNCHANGED <<ready, failures>>

----------------------------------------------------------------------------

Collect ==
  \/ \E m \in Meshes : NextMesh(m) \/ SkipMesh(m)
  \/ \E n \in Namespaces : NextNamespace(n)
  \/ CollectFails \/ CollectReturns \/ EndEnvoys \/ NamespaceResources \/ EndMesh
  \/ \E p \in Pods : StartForwarder(p)
  \/ ReceiveReady \/ ReceiveError \/ Query \/ AttemptFails \/ BodyFails \/ EndQueries

Forward(p) == Dial(p) \/ Listen(p) \/ PortTaken(p) \/ Disconnect(p) \/ ReleasePort(p)

(* Collect has returned; forwarders may be left. *)
Returned == pc \in {"done", "failed"} /\ UNCHANGED vars

Next == Collect \/ Returned \/ \E p \in Pods : Forward(p)

(* Goroutines run, the API server answers, and a stopped forwarder sees that it is. *)
Fairness ==
  /\ WF_vars(Collect)
  /\ \A p \in Pods : WF_vars(Dial(p) \/ Listen(p) \/ PortTaken(p))
                  /\ WF_vars((p \in stopped /\ Disconnect(p)) \/ ReleasePort(p))

Spec == Init /\ [][Next]_vars /\ Fairness

----------------------------------------------------------------------------
(* Properties *)

Suffixes(s) == {SubSeq(s, i, Len(s)) : i \in 1..(Len(s) + 1)}

(* The type of every variable; the port belongs to a forwarder that listens. *)
TypeOK ==
  /\ pc \in {"meshes", "namespaces", "envoys", "select", "query", "resources", "done", "failed"}
  /\ mesh \in Meshes /\ ns \in Namespaces /\ pod \in Pods \cup {NoPod}
  /\ meshesLeft \subseteq Meshes /\ nsLeft \subseteq Namespaces /\ podsLeft \subseteq Pods
  /\ queriesLeft \in Suffixes(Queries)
  /\ attempt \in 1..MaxRetries
  /\ \A k \in DOMAIN data : data[k] \in Pods \cup Namespaces
  /\ fwd \in [Pods -> {"none", "dialing", "connected", "listening", "stopping", "losing",
                       "failing", "ended"}]
  /\ port \in Pods \cup {NoPod}
  /\ port # NoPod => fwd[port] \in {"listening", "stopping", "losing"}
  /\ ready \subseteq Pods /\ stopped \subseteq Pods
  /\ failures \in 0..MaxFailures

(* What is stored as a pod's was answered by that pod, or by one of the same name in another *)
(* monitored namespace, although every forwarder uses the same port and none is waited for   *)
(* (lines 202-253).                                                                          *)
AnswersAreThePods ==
  \A k \in DOMAIN data : k.kind = "envoy" =>
    \E n \in Monitored[k.mesh] : data[k] = <<n, k.of>>

(* The error of a forwarder that never was ready is received: only one that loses its pod    *)
(* after readyChan is closed can be left with an error nobody takes (lines 211-234).         *)
EarlyErrorsAreReceived ==
  \A p \in Pods : fwd[p] = "failing" /\ p \notin ready => pc = "select" /\ pod = p

(* However the Envoys of its namespaces fail, the resources of every namespace of a mesh     *)
(* are recorded before the mesh is done (lines 104-116).                                     *)
MeshesAreWhole ==
  \A m \in Meshes : ControlPlaneKey(m) \in DOMAIN data =>
    \A n \in Monitored[m] \cup {Controller[m]} : ResourceKey(m, n) \in DOMAIN data

(* Collect returns, and no forwarder keeps the port from the next run's collector: every way *)
(* out of portForwardAndRunEnvoyQueries stops its forwarder (line 209).                      *)
PortIsReleased == <>[](pc \in {"done", "failed"} /\ port = NoPod)

(* "collectDataFromEnvoys collects Envoy proxy config for pods in monitored namespace" (line *)
(* 186): without any error of the cluster each of them has been queried.                     *)
EveryPodIsQueried ==
  pc = "done" /\ failures = 0 =>
    \A m \in Meshes : \A n \in Monitored[m] : \A p \in PodsIn(n) : \A i \in 1..Len(Queries) :
      EnvoyKey(m, p, Queries[i]) \in DOMAIN data
====
