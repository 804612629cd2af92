---- MODULE Collectors ----
(***************************************************************************)
(* pkg/collector: Collect of the collectors that go through lists of       *)
(* things to ask for, and the restart of the process when one panics.      *)
(*                                                                         *)
(* Each of them is a plan: the steps that ask the node or Kubernetes for   *)
(* something, in order, each with what the code does when it fails, and    *)
(* the keys that are recorded when it succeeds.  The collectors of a run   *)
(* share nothing (CollectionRun), so one at a time is enough; but a panic  *)
(* in the goroutine of one ends the process.                               *)
(*                                                                         *)
(* What is asked for does not change during a collection, except that      *)
(* pods get the statuses of their containers when they are started.  A     *)
(* value is reduced to the step that asked for it.                         *)
(***************************************************************************)
EXTENDS Integers, Sequences, SequencesExt

CONSTANTS
  Kinds,        \* the collectors of this instance
  NodeLogs,     \* paths: sequences of the names that "/" separates, of which that before a leading
                \* "/" is empty; a name is the sequence of the words that "_" separates
  Namespaces,   \* names
  PodsIn,       \* namespace -> names of pods, a name being the sequence of the words that "-" joins
  ContainersOf, \* pod's name -> names of containers, as those of pods
  Objects,      \* KubernetesObjects: <<namespace, resource>> or <<namespace, resource, name>>
  Described,    \* object -> names of the resources to describe
  Releases, Nodes, Crds,
  InstancesOf,  \* CRD -> its resources
  MaxFailures   \* bound: steps that fail, over all restarts

ASSUME BoundAssumption == MaxFailures \in Nat

(* What the environment, the files and the API server give: lists of names.  An entry of       *)
(* KubernetesObjects with fewer than two parts is logged and passed over, as if not there      *)
(* (kubeobjects_collector.go:55-59).  strings.Fields gives no empty path.                       *)
ASSUME InputAssumption ==
  /\ NodeLogs \in Seq(Seq(Seq(STRING)))
  /\ \A path \in ToSet(NodeLogs) : FlattenSeq(path) # << >>
  /\ Namespaces \in Seq(STRING)
  /\ \A n \in ToSet(Namespaces) :
       /\ PodsIn[n] \in Seq(Seq(STRING))
       /\ \A p \in ToSet(PodsIn[n]) : ContainersOf[p] \in Seq(Seq(STRING))
  /\ Objects \in Seq(Seq(STRING))
  /\ \A o \in ToSet(Objects) : Len(o) >= 2 /\ Described[o] \in Seq(STRING)
  /\ Releases \in Seq(STRING) /\ Nodes \in Seq(STRING) /\ Crds \in Seq(STRING)
  /\ \A c \in ToSet(Crds) : InstancesOf[c] \in Seq(STRING)

VARIABLES
  kind,      \* the collector
  pc,        \* "collecting", "crashed" or "returned"; in Diagnosers also "diagnosed"
  todo,      \* steps left
  result,    \* of Collect: "none" yet, "nil" or "error"
  data,      \* key -> the item recorded
  failed,    \* items that failed in this process
  noted,     \* those that were logged and passed over, or recorded as the error's text
  started,   \* <<namespace, pod>> with the statuses of its containers
  listed,    \* started, as of the latest list of pods
  failures   \* steps that failed, ever

collection == <<todo, result, data, failed, noted, listed>>
vars == <<kind, pc, collection, started, failures>>

----------------------------------------------------------------------------
(* Steps and plans. *)

Ask(of, what, onError, keys) == [of |-> of, what |-> what, onError |-> onError, keys |-> keys]

Each(s, Steps(_)) == FlattenSeq([i \in DOMAIN s |-> Steps(s[i])])

Client == Ask(<<"client">>, << >>, "return", {})

(* strings.Replace(nodeLog, "/", "_", -1): what separates names now joins words.  A "_" in    *)
(* front, which is what an empty first word stands for, is cut off.                           *)
EmptyWord == ""
LogKey(path) ==
  LET words == FlattenSeq(path)
  IN IF Head(words) = EmptyWord THEN Tail(words) ELSE words

(* A slip that LostOnlyToNamesakes must notice: the key leaves out the pod. *)
OnlyItsContainer(p, c) == c

(* pod.Name + "-" + containerName *)
ContainerKey(p, c) == p \o c

DNS == <<Ask(<<"host">>, << >>, "record", {<<"virtualmachine">>}),
         Ask(<<"container">>, << >>, "record", {<<"kubernetes">>})>>

IPTables == <<Ask(<<"iptables">>, << >>, "return", {<<"iptables">>})>>

KubeletCmd == <<Ask(<<"kubelet">>, << >>, "return", {<<"kubeletcmd">>})>>

(* Both at once, for the diagnoser that reads from both: DNS never fails. *)
NetworkConfig == DNS \o KubeletCmd

SystemLogs ==
  Each(<<"docker", "kubelet">>, LAMBDA s : <<Ask(<<s>>, << >>, "return", {<<s>>})>>)

NetworkOutbound ==
  Each(<<"Internet", "AKS API Server", "Azure Container Registry", "Microsoft Container Registry">>,
       LAMBDA t : <<Ask(<<t>>, << >>, "record", {<<t>>})>>)

NodeLog == Each(NodeLogs, LAMBDA path : <<Ask(path, << >>, "return", {LogKey(path)})>>)

PDB ==
  <<Client, Ask(<<"namespaces">>, << >>, "return", {})>>
    \o Each(Namespaces, LAMBDA n : <<Ask(<<n>>, << >>, "return", {<<"pdb", n>>})>>)

(* A pod's step indexes its ContainerStatuses by the containers of its spec. *)
PodsContainerLogs ==
  <<Client>> \o Each(Namespaces, LAMBDA n :
    <<Ask(<<n>>, << >>, "return", {})>> \o Each(PodsIn[n], LAMBDA p :
      <<Ask(<<n>>, <<p>>, "panic", {})>> \o Each(ContainersOf[p], LAMBDA c :
        <<Ask(<<n>>, <<p, c>>, "return", {ContainerKey(p, c)})>>)))

Helm ==
  <<Client, Ask(<<"releases">>, << >>, "return", {})>>
    \o Each(Releases, LAMBDA r : <<Ask(<<r>>, << >>, "log", {})>>)
    \o <<Ask(<<"list">>, << >>, "return", {<<"helm_list">>})>>

KubeObjects ==
  <<Client>> \o Each(Objects, LAMBDA o :
    <<Ask(o, << >>, "log", {})>> \o Each(Described[o], LAMBDA r :
      <<Ask(o, <<r>>, "log", {<<o[1], o[2], r>>})>>))

SystemPerf ==
  <<Client, Ask(<<"nodes">>, << >>, "return", {})>>
    \o Each(Nodes, LAMBDA n : <<Ask(<<"nodes">>, <<n>>, "return_nil", {})>>)
    \o <<Ask(<<"nodes">>, << >>, "return", {<<"nodes">>}), Ask(<<"pods">>, << >>, "return", {})>>
    \o Each(Namespaces, LAMBDA n : Each(PodsIn[n], LAMBDA p : Each(ContainersOf[p], LAMBDA c :
         <<Ask(<<"pods">>, <<n, p, c>>, "return", {})>>)))
    \o <<Ask(<<"pods">>, << >>, "return", {<<"pods">>})>>

(* A version of the API that the cluster does not have is passed over for the next. *)
CrdLists ==
  <<Ask(<<"list", "crds">>, <<"v1">>, "fallback", {}), Ask(<<"list", "crds">>, <<"v1beta1">>, "return", {})>>

StorageVersion(c) == Ask(<<c>>, <<"version">>, "return", {})
ListOf(c) == Ask(<<c>>, <<"list">>, "return", {})
AsYaml(c, what, keys) == Ask(<<c>>, what, "return", keys)

(* The resources are recorded together, once all of them are there. *)
Smi ==
  CrdLists
    \o Each(Crds, LAMBDA c : <<AsYaml(c, <<"yaml">>, {<<"crd", c>>})>>)
    \o Each(Crds, LAMBDA c : <<StorageVersion(c)>>)
    \o Each(Crds, LAMBDA c :
         <<ListOf(c)>> \o Each(InstancesOf[c], LAMBDA r : <<AsYaml(c, <<"list", r>>, {})>>))
    \o <<Ask(<<"resources">>, << >>, "never",
             UNION {{<<"resource", c, r>> : r \in ToSet(InstancesOf[c])} : c \in ToSet(Crds)})>>

Plans == [dns |-> DNS, networkconfig |-> NetworkConfig, iptables |-> IPTables,
          systemlogs |-> SystemLogs, networkoutbound |-> NetworkOutbound, nodelogs |-> NodeLog, poddisruptionbudget |-> PDB,
          podscontainerlogs |-> PodsContainerLogs, helm |-> Helm, kubeobjects |-> KubeObjects,
          systemperf |-> SystemPerf, smi |-> Smi]

ASSUME KindsAssumption == Kinds \subseteq DOMAIN Plans

Plan == Plans[kind]

Pods == UNION {{n} \X ToSet(PodsIn[n]) : n \in ToSet(Namespaces)}

Item(s) == <<s.of, s.what>>

----------------------------------------------------------------------------
(* Slips of the code that the properties below must notice. *)

UnderItsPath(s) == [k \in DOMAIN data \cup {s.of} |-> IF k = s.of THEN Item(s) ELSE data[k]]
AllOthers(s) == 2..Len(todo)
OffByOne(s) == FALSE

----------------------------------------------------------------------------

Init ==
  /\ kind \in Kinds
  /\ pc = "collecting" /\ todo = Plan /\ result = "none"
  /\ data = [k \in {} |-> << >>]
  /\ failed = {} /\ noted = {} /\ listed = {}
  /\ started \in SUBSET Pods
  /\ failures = 0

Stored(s) == [k \in DOMAIN data \cup s.keys |-> IF k \in s.keys THEN Item(s) ELSE data[k]]

(* The first version of the API that answers is the one. *)
OtherVersions(s) == {i \in 2..Len(todo) : s.onError = "fallback" /\ todo[i].of = s.of}

(* What an item that cannot be had leaves nothing to do of. *)
PartsOf(s) == {i \in 2..Len(todo) : todo[i].of = s.of /\ IsStrictPrefix(s.what, todo[i].what)}

(* The next step, after those that follow at once and are passed over. *)
Continue(passed) ==
  \E i \in 2..(Len(todo) + 1) :
    2..(i - 1) \subseteq passed /\ i \notin passed /\ todo' = SubSeq(todo, i, Len(todo))

HasStatuses(s) == <<s.of[1], s.what[1]>> \in listed

At(policies) == pc = "collecting" /\ todo # << >> /\ Head(todo).onError \in policies

Succeed ==
  LET s == Head(todo) IN
  /\ At({"return", "return_nil", "fallback", "log", "record", "never"})
  /\ Continue(OtherVersions(s)) /\ data' = Stored(s)
  /\ listed' = IF s.what = << >> THEN started ELSE listed
  /\ UNCHANGED <<kind, pc, result, failed, noted, started, failures>>

Errs == failures < MaxFailures /\ failures' = failures + 1 /\ failed' = failed \cup {Item(Head(todo))}

(* log.Printf and continue *)
PassOver ==
  LET s == Head(todo) IN
  /\ At({"log"}) /\ Errs
  /\ noted' = noted \cup {Item(s)} /\ Continue(PartsOf(s))
  /\ UNCHANGED <<kind, pc, result, data, listed, started>>

(* IsNotFound and continue *)
FallBack ==
  LET s == Head(todo) IN
  /\ At({"fallback"}) /\ Errs
  /\ noted' = noted \cup {Item(s)} /\ todo' = Tail(todo)
  /\ UNCHANGED <<kind, pc, result, data, listed, started>>

(* The text of the error is recorded as the value. *)
RecordError ==
  LET s == Head(todo) IN
  /\ At({"record"}) /\ Errs
  /\ noted' = noted \cup {Item(s)} /\ todo' = Tail(todo) /\ data' = Stored(s)
  /\ UNCHANGED <<kind, pc, result, listed, started>>

(* "return err" where err is nil is the second case. *)
ReturnError ==
  /\ At({"return", "return_nil", "fallback"}) /\ Errs
  /\ result' = IF Head(todo).onError = "return_nil" THEN "nil" ELSE "error"
  /\ pc' = "returned" /\ todo' = << >>
  /\ UNCHANGED <<kind, data, noted, listed, started>>

CountReady ==
  /\ At({"panic"}) /\ HasStatuses(Head(todo))
  /\ todo' = Tail(todo)
  /\ UNCHANGED <<kind, pc, result, data, failed, noted, listed, started, failures>>

Panic ==
  /\ At({"panic"}) /\ ~HasStatuses(Head(todo))
  /\ pc' = "crashed"
  /\ UNCHANGED <<kind, collection, started, failures>>

ReturnNil ==
  /\ pc = "collecting" /\ todo = << >>
  /\ pc' = "returned" /\ result' = "nil"
  /\ UNCHANGED <<kind, todo, data, failed, noted, listed, started, failures>>

(* kubelet starts the container again, which finds the same run ID. *)
Restart ==
  /\ pc = "crashed" /\ pc' = "collecting"
  /\ todo' = Plan
  /\ data' = [k \in {} |-> << >>]
  /\ failed' = {} /\ noted' = {} /\ listed' = {}
  /\ UNCHANGED <<kind, result, started, failures>>

PodStarts(p) ==
  /\ pc # "returned" /\ p \notin started /\ started' = started \cup {p}
  /\ UNCHANGED <<kind, pc, collection, failures>>

Collect == Succeed \/ PassOver \/ FallBack \/ RecordError \/ ReturnError \/ CountReady \/ Panic \/ ReturnNil

(* Collect has returned. *)
Returned == pc = "returned" /\ UNCHANGED vars

Next == Collect \/ Restart \/ (\E p \in Pods : PodStarts(p)) \/ Returned

(* The API server and the node answer, and kubelet restarts the container; no pod must start. *)
Fairness == WF_vars(Collect) /\ WF_vars(Restart)

Spec == Init /\ [][Next]_vars /\ Fairness

----------------------------------------------------------------------------
(* Properties *)

PlannedKeys == UNION {s.keys : s \in ToSet(Plan)}

(* The type of every variable; only planned keys are recorded. *)
TypeOK ==
  /\ kind \in Kinds /\ pc \in {"collecting", "crashed", "returned", "diagnosed"}
  /\ ToSet(todo) \subseteq ToSet(Plan)
  /\ result \in {"none", "nil", "error"} /\ (result # "none" <=> pc \in {"returned", "diagnosed"})
  /\ DOMAIN data \subseteq PlannedKeys /\ ToSet(data) \subseteq {Item(s) : s \in ToSet(Plan)}
  /\ noted \subseteq failed /\ failed \subseteq {Item(s) : s \in ToSet(Plan)}
  /\ listed \subseteq started /\ started \subseteq Pods
  /\ failures \in 0..MaxFailures

Explained(s) == \E f \in noted : f[1] = s.of /\ IsPrefix(f[2], s.what)

(* "return err" of systemperf_collector.go:74 was taken. *)
SlippedOut == \E s \in ToSet(Plan) : s.onError = "return_nil" /\ Item(s) \in failed

(* A collector that reports success, and is exported for it, has every planned key, or has   *)
(* logged or recorded why not, and no failure of one item has cost it another; but for the   *)
(* one return of a nil error (Collect of every collector).                                   *)
SuccessIsWhole ==
  result = "nil" /\ ~SlippedOut =>
    /\ failed = noted
    /\ \A s \in ToSet(Plan) : s.keys \subseteq DOMAIN data \/ Explained(s)

(* Things that the code gives one key: paths that differ only in "/" for "_", or in one of    *)
(* them in front; containers whose pods and own names join to one name, in one namespace or   *)
(* two; and a resource that is listed by its name and with its kind.                          *)
Namesakes(a, b) ==
  CASE kind = "nodelogs" ->
         \E x, y \in {<< >>, <<EmptyWord>>} : x \o FlattenSeq(a[1]) = y \o FlattenSeq(b[1])
    [] kind = "podscontainerlogs" -> FlattenSeq(a[2]) = FlattenSeq(b[2])
    [] kind = "kubeobjects" -> SubSeq(a[1], 1, 2) \o a[2] = SubSeq(b[1], 1, 2) \o b[2]
    [] OTHER -> a = b

(* After a success a planned key holds its own item, or a namesake's: only those replace one  *)
(* another (nodelogs_collector.go:46-52, pods_containerlogs_collector.go:118-119 and          *)
(* kubeobjects_collector.go:98-99; every other collector's keys are its own).                *)
LostOnlyToNamesakes ==
  result = "nil" /\ ~SlippedOut =>
    \A s \in ToSet(Plan) : Explained(s) \/ \A k \in s.keys : Namesakes(data[k], Item(s))

(* Once all pods have the statuses of their containers, Collect returns, whatever crashed    *)
(* before (pods_containerlogs_collector.go:87-92).                                           *)
EndsOnceStarted == <>[](started = Pods) => <>(pc = "returned")

(* "Container logs (by default all containers in the `kube-system` namespace ...)" (README,   *)
(* line 54): Collect returns, whether or not every pod of the namespace could be started.     *)
CollectEnds == <>(pc = "returned")
====
