---- MODULE MCCollectors ----
(* Small instances of Collectors and Diagnosers. *)
EXTENDS Diagnosers, TLC

(* "/log/a_b" and "/log/a/b" become one key; a path of Windows has no "/". *)
MCNodeLogs ==
  <<<<<<EmptyWord>>, <<"log">>, <<"a", "b">>>>, <<<<EmptyWord>>, <<"log">>, <<"a">>, <<"b">>>>, <<<<"C:log">>>>>>

MCNamespaces == <<"kube-system", "app">>

(* Container "b-c" of pod "a" and container "c" of pod "a-b" share a key, and so do the      *)
(* containers of the pods "a" of two namespaces.                                            *)
MCPodsIn == [n \in {"kube-system", "app"} |-> IF n = "app" THEN <<<<"a">>, <<"a", "b">>>> ELSE <<<<"a">>>>]
MCContainersOf == [p \in {<<"a">>, <<"a", "b">>} |->
  IF p = <<"a">> THEN <<<<"b", "c">>, <<"c">>>> ELSE <<<<"c">>>>]

(* A whole kind of resource with two instances, one of them by its name as well, and the kind *)
(* once more.                                                                                 *)
MCObjects == <<<<"app", "pod">>, <<"app", "pod", "a">>, <<"app", "pod">>>>
MCDescribed == [o \in ToSet(MCObjects) |-> IF o = <<"app", "pod">> THEN <<"a", "a-b">> ELSE <<"a">>]

MCReleases == <<"ingress", "monitor">>
MCNodes == <<"node1", "node2">>
MCCrds == <<"traffictargets", "trafficsplits">>
MCInstancesOf == [c \in ToSet(MCCrds) |-> IF c = "traffictargets" THEN <<"t1", "t2">> ELSE <<>>]

(* As container runtimes write it in a pod; as a virtual machine has it, with one server or   *)
(* two; one whose last word is "nameserver".                                                  *)
InPod == <<<<"search", "svc.cluster.local">>, <<"nameserver", "10.0.0.10">>, <<"options", "ndots:5">>, <<"">>>>
OnVM == <<<<"nameserver", "168.63.129.16">>, <<"">>>>
TwoServers == <<<<"nameserver", "10.0.0.1">>, <<"nameserver", "10.0.0.2">>, <<"">>>>
CutOff == <<<<"#", "no", "nameserver">>>>
MCConfFiles == {InPod, OnVM, TwoServers, CutOff}
DocumentedConfFiles == {InPod, OnVM}

MCCommands ==
  {<<<<"kubelet", "--network-plugin=cni", "--max-pods=110">>, <<"">>>>,
   <<<<"kubelet", "--max-pods=30", "--network-plugin=kubenet", "--v=2">>, <<"">>>>}
MCMaxPodsArgs == ("--max-pods=110" :> 110) @@ ("--max-pods=30" :> 30)
MCPluginArgs == ("--network-plugin=cni" :> "cni") @@ ("--network-plugin=kubenet" :> "kubenet")
====
