---- MODULE DiagnosersProofs ----
(* Theorems about Collectors with the diagnosers after them, for any lists, texts and failures. *)
EXTENDS Diagnosers, SequenceLemmas, TLAPS

----------------------------------------------------------------------------
(* The inductive invariant *)

Steps == ToSet(Plan)

TodoIsPlanned == todo \in Seq(Steps)

(* As long as Collect goes on, every step is still to come, has its keys, or is explained, and *)
(* nothing that failed has gone unnoticed.                                                     *)
WholeSoFar ==
  pc = "collecting" =>
    /\ failed = noted
    /\ \A s \in Steps : s \in ToSet(todo) \/ s.keys \subseteq DOMAIN data \/ Explained(s)

(* A key holds the item of a step that has it. *)
KeysAreOfTheirSteps ==
  \A k \in DOMAIN data : \E s \in Steps : k \in s.keys /\ data[k] = Item(s)

IInv ==
  /\ TypeOK
  /\ TodoIsPlanned
  /\ WholeSoFar
  /\ KeysAreOfTheirSteps
  /\ SuccessIsWhole

----------------------------------------------------------------------------
(* Sequences and plans *)

(* What a plan is: a sequence of steps, of which only those that ask for a value have keys,  *)
(* not a look at a pod's statuses nor a try of one version of several.                        *)
IsPlan(P) ==
  /\ P \in Seq(ToSet(P))
  /\ \A s \in ToSet(P) :
       /\ Len(s.what) \in Nat
       /\ s.onError = "panic" => s.keys = {}
       /\ s.onError = "fallback" => \A t \in ToSet(P) : t.of = s.of => t.keys = {}

(* Steps with a key in common ask for one thing. *)
OneStepAKey(P) == \A s, t \in ToSet(P) : s.keys \cap t.keys # {} => Item(s) = Item(t)

LEMMA InSteps ==
  ASSUME NEW K, NEW P \in Seq(K)
  PROVE  P \in Seq(ToSet(P)) /\ ToSet(P) \subseteq K
<1>1. Len(P) \in Nat /\ DOMAIN P = 1..Len(P) /\ P = [i \in 1..Len(P) |-> P[i]]
  OBVIOUS
<1>2. \A i \in DOMAIN P : P[i] \in ToSet(P) /\ P[i] \in K
  BY <1>1, Elements
<1>3. ToSet(P) \subseteq K
  BY <1>2, Elements
<1>4. P \in Seq(ToSet(P))
  BY <1>1, <1>2
<1> QED
  BY <1>3, <1>4

(* Plans of steps each of which is in a set that is as it should be. *)
LEMMA PlanOfSteps ==
  ASSUME NEW K, NEW P \in Seq(K),
         \A s \in K : /\ Len(s.what) \in Nat
                      /\ s.onError = "panic" => s.keys = {}
                      /\ s.onError = "fallback" => \A t \in K : t.of = s.of => t.keys = {}
  PROVE  IsPlan(P)
BY InSteps DEF IsPlan

LEMMA PlanOfOwnKeys ==
  ASSUME NEW K, NEW P \in Seq(K),
         \A s, t \in K : s.keys \cap t.keys # {} => Item(s) = Item(t)
  PROVE  OneStepAKey(P)
BY InSteps DEF OneStepAKey

(* A list of steps for each of a list of things. *)
LEMMA EachType ==
  ASSUME NEW K, NEW X, NEW s \in Seq(X), NEW f, f = [i \in DOMAIN s |-> f[i]],
         \A i \in DOMAIN s : f[i] \in Seq(K)
  PROVE  FlattenSeq(f) \in Seq(K)
<1>1. Len(s) \in Nat /\ DOMAIN s = 1..Len(s)
  OBVIOUS
<1>2. f \in Seq(Seq(K))
  BY <1>1
<1> QED
  BY <1>2, FlattenType

LEMMA DNSPlan == IsPlan(DNS) /\ OneStepAKey(DNS)
<1> DEFINE h == Ask(<<"host">>, << >>, "record", {<<"virtualmachine">>})
           c == Ask(<<"container">>, << >>, "record", {<<"kubernetes">>})
<1>1. DNS \in Seq({h, c})
  BY DEF DNS
<1>2. \A s \in {h, c} : s.what = << >> /\ s.onError = "record"
  BY DEF Ask
<1>3. h.keys \cap c.keys = {}
  BY DEF Ask
<1> HIDE DEF h, c
<1> QED
  BY <1>1, <1>2, <1>3, PlanOfSteps, PlanOfOwnKeys

LEMMA NetworkConfigPlan == IsPlan(NetworkConfig) /\ OneStepAKey(NetworkConfig)
<1> DEFINE h == Ask(<<"host">>, << >>, "record", {<<"virtualmachine">>})
           c == Ask(<<"container">>, << >>, "record", {<<"kubernetes">>})
           l == Ask(<<"kubelet">>, << >>, "return", {<<"kubeletcmd">>})
<1>1. NetworkConfig \in Seq({h, c, l})
  <2>1. DNS \in Seq({h, c, l}) /\ KubeletCmd \in Seq({h, c, l})
    BY DEF DNS, KubeletCmd
  <2> HIDE DEF h, c, l
  <2> QED
    BY <2>1 DEF NetworkConfig
<1>2. \A s \in {h, c, l} : s.what = << >> /\ s.onError \in {"record", "return"}
  BY DEF Ask
<1>3. h.keys \cap c.keys = {} /\ h.keys \cap l.keys = {} /\ c.keys \cap l.keys = {}
  BY DEF Ask
<1> HIDE DEF h, c, l
<1> QED
  BY <1>1, <1>2, <1>3, PlanOfSteps, PlanOfOwnKeys

LEMMA IPTablesPlan == IsPlan(IPTables) /\ OneStepAKey(IPTables)
<1> DEFINE s == Ask(<<"iptables">>, << >>, "return", {<<"iptables">>})
<1>1. IPTables \in Seq({s})
  BY DEF IPTables
<1>2. s.what = << >> /\ s.onError = "return"
  BY DEF Ask
<1> HIDE DEF s
<1> QED
  BY <1>1, <1>2, PlanOfSteps, PlanOfOwnKeys

(* Plans of one step, named by its key, for each of a list. *)
LEMMA ListPlan ==
  ASSUME NEW N, NEW X \in Seq(N), NEW onError \in {"return", "record"},
         NEW P, P = FlattenSeq([i \in DOMAIN X |-> <<Ask(<<X[i]>>, << >>, onError, {<<X[i]>>})>>])
  PROVE  IsPlan(P) /\ OneStepAKey(P)
<1> DEFINE K == {Ask(<<x>>, << >>, onError, {<<x>>}) : x \in N}
           f == [i \in DOMAIN X |-> <<Ask(<<X[i]>>, << >>, onError, {<<X[i]>>})>>]
<1>1. \A i \in DOMAIN X : f[i] \in Seq(K)
  OBVIOUS
<1>2. P \in Seq(K)
  <2> HIDE DEF K
  <2> QED
    BY <1>1, EachType
<1>3. \A s \in K : s.what = << >> /\ s.onError \in {"record", "return"}
  BY DEF Ask
<1>4. \A s, t \in K : s.keys \cap t.keys # {} => Item(s) = Item(t)
  BY DEF Ask, Item
<1> HIDE DEF K
<1> QED
  BY <1>2, <1>3, <1>4, PlanOfSteps, PlanOfOwnKeys

LEMMA SystemLogsPlan == IsPlan(SystemLogs) /\ OneStepAKey(SystemLogs)
<1> DEFINE X == <<"docker", "kubelet">>
<1>1. X \in Seq({"docker", "kubelet"})
  OBVIOUS
<1>2. SystemLogs = FlattenSeq([i \in DOMAIN X |-> <<Ask(<<X[i]>>, << >>, "return", {<<X[i]>>})>>])
  BY DEF SystemLogs, Each
<1> HIDE DEF X
<1> QED
  BY <1>1, <1>2, ListPlan

LEMMA NetworkOutboundPlan ==
  /\ IsPlan(NetworkOutbound) /\ OneStepAKey(NetworkOutbound)
  /\ \A s \in ToSet(NetworkOutbound) :
       s.keys \cap {<<"virtualmachine">>, <<"kubernetes">>, <<"kubeletcmd">>} = {}
<1> DEFINE a == "Internet"
           b == "AKS API Server"
           c == "Azure Container Registry"
           d == "Microsoft Container Registry"
           X == <<a, b, c, d>>
<1>1. X \in Seq({a, b, c, d})
  <2> HIDE DEF a, b, c, d
  <2> QED
    OBVIOUS
<1>2. NetworkOutbound = FlattenSeq([i \in DOMAIN X |-> <<Ask(<<X[i]>>, << >>, "record", {<<X[i]>>})>>])
  BY DEF NetworkOutbound, Each
<1>3. \A x \in {a, b, c, d} : x # "virtualmachine" /\ x # "kubernetes" /\ x # "kubeletcmd"
  BY Zenon
<1> HIDE DEF X, a, b, c, d
<1>4. IsPlan(NetworkOutbound) /\ OneStepAKey(NetworkOutbound)
  BY <1>1, <1>2, ListPlan
<1>5. \A s \in ToSet(NetworkOutbound) : \E x \in {a, b, c, d} : s.keys = {<<x>>}
  <2> DEFINE N == {a, b, c, d}
             K == {Ask(<<x>>, << >>, "record", {<<x>>}) : x \in N}
             f == [i \in DOMAIN X |-> <<Ask(<<X[i]>>, << >>, "record", {<<X[i]>>})>>]
  <2> HIDE DEF N
  <2>1. X \in Seq(N)
    BY <1>1 DEF N
  <2>2. \A i \in DOMAIN X : f[i] \in Seq(K)
    <3>1. \A i \in DOMAIN X : X[i] \in N
      BY <2>1
    <3>2. \A x \in N : Ask(<<x>>, << >>, "record", {<<x>>}) \in K
      BY Zenon
    <3> HIDE DEF K
    <3>3. \A x \in N : <<Ask(<<x>>, << >>, "record", {<<x>>})>> \in Seq(K)
      BY <3>2, OneElement, Zenon
    <3> QED
      BY <3>1, <3>3
  <2>3. \A s \in K : \E x \in N : s.keys = {<<x>>}
    BY DEF Ask
  <2> HIDE DEF K
  <2>4. FlattenSeq(f) \in Seq(K)
    BY <2>1, <2>2, EachType
  <2>5. ToSet(NetworkOutbound) \subseteq K
    BY <1>2, <2>4, InSteps
  <2> QED
    BY <2>3, <2>5 DEF N
<1>6. ASSUME NEW s \in ToSet(NetworkOutbound), NEW x \in {a, b, c, d}, s.keys = {<<x>>}
      PROVE  s.keys \cap {<<"virtualmachine">>, <<"kubernetes">>, <<"kubeletcmd">>} = {}
  BY <1>3, <1>6
<1> QED
  BY <1>4, <1>5, <1>6

LEMMA NodeLogPlan ==
  /\ IsPlan(NodeLog)
  /\ \A s \in ToSet(NodeLog) : s.keys = {LogKey(s.of)} /\ s.of \in ToSet(NodeLogs)
<1> DEFINE K == {Ask(path, << >>, "return", {LogKey(path)}) : path \in ToSet(NodeLogs)}
           f == [i \in DOMAIN NodeLogs |-> <<Ask(NodeLogs[i], << >>, "return", {LogKey(NodeLogs[i])})>>]
<1>1. NodeLog = FlattenSeq(f)
  BY DEF NodeLog, Each
<1>2. \A i \in DOMAIN NodeLogs : f[i] \in Seq(K)
  <2>1. \A i \in DOMAIN NodeLogs : NodeLogs[i] \in ToSet(NodeLogs)
    BY Elements
  <2>2. \A i \in DOMAIN NodeLogs : f[i] = <<f[i][1]>> /\ f[i][1] \in K
    BY <2>1
  <2> QED
    BY <2>2, OneElement
<1>3. NodeLog \in Seq(K)
  BY <1>1, <1>2, InputAssumption, EachType
<1>4. \A s \in K : /\ s.what = << >> /\ s.onError = "return"
                      /\ s.keys = {LogKey(s.of)} /\ s.of \in ToSet(NodeLogs)
  BY DEF Ask
<1> HIDE DEF K
<1> QED
  BY <1>3, <1>4, PlanOfSteps, InSteps

LEMMA PDBPlan == IsPlan(PDB) /\ OneStepAKey(PDB)
<1> DEFINE A == {Client, Ask(<<"namespaces">>, << >>, "return", {})}
           B == {Ask(<<n>>, << >>, "return", {<<"pdb", n>>}) : n \in STRING}
           K == A \cup B
           a == <<Client, Ask(<<"namespaces">>, << >>, "return", {})>>
           f == [i \in DOMAIN Namespaces |-> <<Ask(<<Namespaces[i]>>, << >>, "return", {<<"pdb", Namespaces[i]>>})>>]
<1>1. PDB = a \o FlattenSeq(f)
  BY DEF PDB, Each
<1>2. \A i \in DOMAIN Namespaces : f[i] \in Seq(K)
  <2>1. \A i \in DOMAIN Namespaces : Namespaces[i] \in STRING
    BY InputAssumption
  <2>2. \A i \in DOMAIN Namespaces : f[i] = <<f[i][1]>> /\ f[i][1] \in K
    BY <2>1
  <2> QED
    BY <2>2, OneElement
<1>3. a \in Seq(K)
  OBVIOUS
<1>4. PDB \in Seq(K)
  <2>1. FlattenSeq(f) \in Seq(K)
    BY <1>2, InputAssumption, EachType
  <2> HIDE DEF K, a, f
  <2> QED
    BY <1>1, <1>3, <2>1
<1>5. \A s \in K : s.what = << >> /\ s.onError = "return"
  BY DEF Ask, Client
<1>6. \A s \in A : s.keys = {}
  BY DEF Ask, Client
<1>7. \A s, t \in B : s.keys \cap t.keys # {} => Item(s) = Item(t)
  BY DEF Ask, Item
<1> HIDE DEF A, B
<1> QED
  BY <1>4, <1>5, <1>6, <1>7, PlanOfSteps, PlanOfOwnKeys

LEMMA HelmPlan == IsPlan(Helm) /\ OneStepAKey(Helm)
<1> DEFINE l == Ask(<<"list">>, << >>, "return", {<<"helm_list">>})
           A == {Client, Ask(<<"releases">>, << >>, "return", {})}
           B == {Ask(<<r>>, << >>, "log", {}) : r \in STRING}
           K == A \cup B \cup {l}
           a == <<Client, Ask(<<"releases">>, << >>, "return", {})>>
           f == [i \in DOMAIN Releases |-> <<Ask(<<Releases[i]>>, << >>, "log", {})>>]
<1>1. Helm = a \o FlattenSeq(f) \o <<l>>
  BY DEF Helm, Each
<1>2. \A i \in DOMAIN Releases : f[i] \in Seq(K)
  <2>1. \A i \in DOMAIN Releases : Releases[i] \in STRING
    BY InputAssumption
  <2>2. \A i \in DOMAIN Releases : f[i] = <<f[i][1]>> /\ f[i][1] \in K
    BY <2>1
  <2> QED
    BY <2>2, OneElement
<1>3. a \in Seq(K) /\ <<l>> \in Seq(K)
  OBVIOUS
<1>4. Helm \in Seq(K)
  <2>1. FlattenSeq(f) \in Seq(K)
    BY <1>2, InputAssumption, EachType
  <2> HIDE DEF K, a, f, l
  <2> QED
    BY <1>1, <1>3, <2>1
<1>5. \A s \in K : s.what = << >> /\ s.onError \in {"return", "log"}
  BY DEF Ask, Client
<1>6. \A s \in A \cup B : s.keys = {}
  BY DEF Ask, Client
<1> HIDE DEF A, B, l
<1> QED
  BY <1>4, <1>5, <1>6, PlanOfSteps, PlanOfOwnKeys

LEMMA PodsContainerLogsPlan ==
  /\ IsPlan(PodsContainerLogs)
  /\ \A s \in ToSet(PodsContainerLogs) : \A k \in s.keys : k = FlattenSeq(s.what)
<1> DEFINE Word == STRING
           Name == Seq(STRING)
           A == {Client} \cup {Ask(<<n>>, << >>, "return", {}) : n \in Word}
           B == {Ask(<<n>>, <<p>>, "panic", {}) : n \in Word, p \in Name}
           askOf(n, p, c) == Ask(<<n>>, <<p, c>>, "return", {ContainerKey(p, c)})
           C == UNION {UNION {{askOf(n, p, c) : c \in Name} : p \in Name} : n \in Word}
           K == A \cup B \cup C
           ofContainer(n, p, c) == <<askOf(n, p, c)>>
           containers(n, p) ==
             [i \in DOMAIN ContainersOf[p] |-> ofContainer(n, p, ContainersOf[p][i])]
           ofPod(n, p) == <<Ask(<<n>>, <<p>>, "panic", {})>> \o FlattenSeq(containers(n, p))
           pods(n) == [i \in DOMAIN PodsIn[n] |-> ofPod(n, PodsIn[n][i])]
           ofNamespace(n) == <<Ask(<<n>>, << >>, "return", {})>> \o FlattenSeq(pods(n))
           all == [i \in DOMAIN Namespaces |-> ofNamespace(Namespaces[i])]
<1>1. PodsContainerLogs = <<Client>> \o FlattenSeq(all)
  BY DEF PodsContainerLogs, Each
<1> HIDE DEF Word, Name
<1>2. /\ Client \in K
      /\ \A n \in Word : Ask(<<n>>, << >>, "return", {}) \in K
      /\ \A n \in Word, p \in Name : Ask(<<n>>, <<p>>, "panic", {}) \in K
      /\ \A n \in Word, p \in Name, c \in Name :
           Ask(<<n>>, <<p, c>>, "return", {ContainerKey(p, c)}) \in K
  <2>1. /\ Client \in A
        /\ \A n \in Word : Ask(<<n>>, << >>, "return", {}) \in A
    OBVIOUS
  <2>2. \A n \in Word, p \in Name : Ask(<<n>>, <<p>>, "panic", {}) \in B
    OBVIOUS
  <2>3. ASSUME NEW n \in Word, NEW p \in Name, NEW c \in Name PROVE askOf(n, p, c) \in C
    <3> HIDE DEF askOf
    <3>1. askOf(n, p, c) \in {askOf(n, p, z) : z \in Name}
      OBVIOUS
    <3>2. {askOf(n, p, z) : z \in Name} \in {{askOf(n, y, z) : z \in Name} : y \in Name}
      OBVIOUS
    <3> QED
      BY <3>1, <3>2
  <2> HIDE DEF A, B, C
  <2> QED
    BY <2>1, <2>2, <2>3
<1>3. /\ \A s \in K : Len(s.what) \in Nat /\ s.onError # "fallback"
      /\ \A s \in A \cup B : s.keys = {}
      /\ \A s \in A \cup C : s.onError # "panic"
  BY DEF Ask, Client
<1>4. \A s \in C : s.keys = {FlattenSeq(s.what)}
  <2>1. ASSUME NEW p \in Name, NEW c \in Name PROVE FlattenSeq(<<p, c>>) = ContainerKey(p, c)
    BY FlattenPair DEF ContainerKey, Name
  <2> QED
    BY <2>1 DEF Ask
<1>5. PodsContainerLogs \in Seq(K)
  <2> HIDE DEF K
  <2>1. ASSUME NEW n \in ToSet(Namespaces), NEW p \in ToSet(PodsIn[n]) PROVE ofPod(n, p) \in Seq(K)
    <3>1. n \in Word /\ p \in Name /\ ContainersOf[p] \in Seq(Name)
      BY InputAssumption, <2>1, InSteps DEF Word, Name
    <3>2. \A c \in Name : ofContainer(n, p, c) \in Seq(K)
      BY <1>2, <3>1, OneElement
    <3> HIDE DEF ofContainer
    <3>5. \A i \in DOMAIN ContainersOf[p] : containers(n, p)[i] \in Seq(K)
      BY <3>1, <3>2
    <3>3. FlattenSeq(containers(n, p)) \in Seq(K)
      BY <3>1, <3>5, EachType
    <3>4. <<Ask(<<n>>, <<p>>, "panic", {})>> \in Seq(K)
      BY <1>2, <3>1, OneElement
    <3> HIDE DEF containers
    <3> QED
      BY <3>3, <3>4
  <2>2. ASSUME NEW n \in ToSet(Namespaces) PROVE ofNamespace(n) \in Seq(K)
    <3>1. n \in Word /\ PodsIn[n] \in Seq(Name)
      BY InputAssumption, <2>2, InSteps DEF Word, Name
    <3> HIDE DEF ofPod
    <3>2. \A i \in DOMAIN PodsIn[n] : pods(n)[i] \in Seq(K)
      BY <2>1, Elements
    <3>3. FlattenSeq(pods(n)) \in Seq(K)
      BY <3>1, <3>2, EachType
    <3>4. <<Ask(<<n>>, << >>, "return", {})>> \in Seq(K)
      BY <1>2, <3>1, OneElement
    <3> HIDE DEF pods
    <3> QED
      BY <3>3, <3>4
  <2> HIDE DEF ofNamespace
  <2>3. \A i \in DOMAIN Namespaces : all[i] \in Seq(K)
    BY <2>2, Elements
  <2>4. FlattenSeq(all) \in Seq(K)
    BY <2>3, InputAssumption, EachType
  <2>5. <<Client>> \in Seq(K)
    BY <1>2, OneElement
  <2> HIDE DEF all
  <2> QED
    BY <1>1, <2>4, <2>5
<1> HIDE DEF A, B, C
<1> QED
  BY <1>3, <1>4, <1>5, PlanOfSteps, InSteps

LEMMA KubeObjectsPlan ==
  /\ IsPlan(KubeObjects)
  /\ \A s \in ToSet(KubeObjects) : \A k \in s.keys : k = SubSeq(s.of, 1, 2) \o s.what
<1> DEFINE Word == STRING
           Object == {o \in Seq(Word) : Len(o) >= 2}
           A == {Client} \cup {Ask(o, << >>, "log", {}) : o \in Object}
           askOf(o, r) == Ask(o, <<r>>, "log", {<<o[1], o[2], r>>})
           B == UNION {{askOf(o, r) : r \in Word} : o \in Object}
           K == A \cup B
           described(o) == [i \in DOMAIN Described[o] |-> <<askOf(o, Described[o][i])>>]
           ofObject(o) == <<Ask(o, << >>, "log", {})>> \o FlattenSeq(described(o))
           all == [i \in DOMAIN Objects |-> ofObject(Objects[i])]
<1>1. KubeObjects = <<Client>> \o FlattenSeq(all)
  BY DEF KubeObjects, Each
<1> HIDE DEF Word
<1>2. ASSUME NEW o \in Object, NEW r \in Word PROVE SubSeq(o, 1, 2) \o <<r>> = <<o[1], o[2], r>>
  BY FirstTwo
<1> HIDE DEF Object
<1>3. /\ Client \in K
      /\ \A o \in Object : Ask(o, << >>, "log", {}) \in K
      /\ \A o \in Object, r \in Word : askOf(o, r) \in K
  <2>1. Client \in A /\ \A o \in Object : Ask(o, << >>, "log", {}) \in A
    OBVIOUS
  <2>2. ASSUME NEW o \in Object, NEW r \in Word PROVE askOf(o, r) \in B
    <3> HIDE DEF askOf
    <3> QED
      OBVIOUS
  <2> HIDE DEF A, B, askOf
  <2> QED
    BY <2>1, <2>2
<1>4. /\ \A s \in K : Len(s.what) \in Nat /\ s.onError \notin {"panic", "fallback"}
      /\ \A s \in A : s.keys = {}
  BY DEF Ask, Client
<1>5. \A s \in B : s.keys = {SubSeq(s.of, 1, 2) \o s.what}
  <2>1. \A o, r : /\ askOf(o, r).of = o /\ askOf(o, r).what = <<r>>
                  /\ askOf(o, r).keys = {<<o[1], o[2], r>>}
    BY DEF Ask
  <2> HIDE DEF askOf
  <2>2. ASSUME NEW s \in B PROVE \E o \in Object, r \in Word : s = askOf(o, r)
    OBVIOUS
  <2> HIDE DEF B
  <2>3. ASSUME NEW s \in B PROVE s.keys = {SubSeq(s.of, 1, 2) \o s.what}
    <3>1. PICK o \in Object, r \in Word : s = askOf(o, r)
      BY <2>2
    <3> DEFINE keyOf(x, w) == SubSeq(x, 1, 2) \o w
    <3>2. keyOf(o, <<r>>) = <<o[1], o[2], r>>
      BY <1>2
    <3> HIDE DEF keyOf
    <3>3. s.keys = {keyOf(s.of, s.what)}
      BY <2>1, <3>1, <3>2
    <3> QED
      BY <3>3 DEF keyOf
  <2> QED
    BY <2>3
<1>6. KubeObjects \in Seq(K)
  <2> HIDE DEF K, askOf
  <2>1. ASSUME NEW o \in ToSet(Objects) PROVE ofObject(o) \in Seq(K)
    <3>1. o \in Object /\ Described[o] \in Seq(Word)
      BY InputAssumption, <2>1, InSteps DEF Word, Object
    <3>2. \A i \in DOMAIN Described[o] : described(o)[i] \in Seq(K)
      BY <1>3, <3>1, OneElement
    <3>3. FlattenSeq(described(o)) \in Seq(K)
      BY <3>1, <3>2, EachType
    <3>4. <<Ask(o, << >>, "log", {})>> \in Seq(K)
      BY <1>3, <3>1, OneElement
    <3> HIDE DEF described
    <3> QED
      BY <3>3, <3>4
  <2> HIDE DEF ofObject
  <2>2. \A i \in DOMAIN Objects : all[i] \in Seq(K)
    BY <2>1, Elements
  <2>3. FlattenSeq(all) \in Seq(K)
    BY <2>2, InputAssumption, EachType
  <2>4. <<Client>> \in Seq(K)
    BY <1>3, OneElement
  <2> HIDE DEF all
  <2> QED
    BY <1>1, <2>3, <2>4
<1> HIDE DEF A, B
<1> QED
  BY <1>4, <1>5, <1>6, PlanOfSteps, InSteps

LEMMA SystemPerfPlan == IsPlan(SystemPerf) /\ OneStepAKey(SystemPerf)
<1> DEFINE Word == STRING
           Name == Seq(STRING)
           ns == Ask(<<"nodes">>, << >>, "return", {<<"nodes">>})
           ps == Ask(<<"pods">>, << >>, "return", {<<"pods">>})
           nodeList == Ask(<<"nodes">>, << >>, "return", {})
           podList == Ask(<<"pods">>, << >>, "return", {})
           nodeOf(n) == Ask(<<"nodes">>, <<n>>, "return_nil", {})
           usageOf(n, p, c) == Ask(<<"pods">>, <<n, p, c>>, "return", {})
           A == {Client, nodeList, podList} \cup {nodeOf(n) : n \in Word}
           B == UNION {UNION {{usageOf(n, p, c) : c \in Name} : p \in Name} : n \in Word}
           K == A \cup B \cup {ns, ps}
           nodes == [i \in DOMAIN Nodes |-> <<nodeOf(Nodes[i])>>]
           containers(n, p) ==
             [i \in DOMAIN ContainersOf[p] |-> <<usageOf(n, p, ContainersOf[p][i])>>]
           pods(n) == [i \in DOMAIN PodsIn[n] |-> FlattenSeq(containers(n, PodsIn[n][i]))]
           all == [i \in DOMAIN Namespaces |-> FlattenSeq(pods(Namespaces[i]))]
<1>1. SystemPerf = <<Client, nodeList>> \o FlattenSeq(nodes) \o <<ns, podList>>
                     \o FlattenSeq(all) \o <<ps>>
  BY DEF SystemPerf, Each
<1>2. /\ \A s \in A \cup B : s.keys = {}
      /\ \A s \in K : Len(s.what) \in Nat /\ s.onError \notin {"panic", "fallback"}
      /\ ns.keys \cap ps.keys = {}
  BY DEF Ask, Client
<1> HIDE DEF Word, Name, nodeOf, usageOf
<1>3. /\ \A n \in Word : nodeOf(n) \in K
      /\ \A n \in Word, p \in Name, c \in Name : usageOf(n, p, c) \in K
  <2>1. \A n \in Word : nodeOf(n) \in A
    OBVIOUS
  <2>2. ASSUME NEW n \in Word, NEW p \in Name, NEW c \in Name PROVE usageOf(n, p, c) \in B
    <3>1. usageOf(n, p, c) \in {usageOf(n, p, z) : z \in Name}
      OBVIOUS
    <3>2. {usageOf(n, p, z) : z \in Name} \in {{usageOf(n, y, z) : z \in Name} : y \in Name}
      OBVIOUS
    <3> QED
      BY <3>1, <3>2
  <2> HIDE DEF A, B
  <2> QED
    BY <2>1, <2>2
<1>4. <<Client, nodeList>> \in Seq(K) /\ <<ns, podList>> \in Seq(K) /\ <<ps>> \in Seq(K)
  <2> HIDE DEF B, ns, ps, nodeList, podList
  <2> QED
    OBVIOUS
<1> HIDE DEF A, B, K
<1>5. FlattenSeq(nodes) \in Seq(K)
  <2>1. Nodes \in Seq(Word)
    BY InputAssumption DEF Word
  <2>2. \A i \in DOMAIN Nodes : nodes[i] \in Seq(K)
    BY <1>3, <2>1, OneElement
  <2> QED
    BY <2>1, <2>2, EachType
<1>6. FlattenSeq(all) \in Seq(K)
  <2>1. ASSUME NEW n \in ToSet(Namespaces), NEW p \in ToSet(PodsIn[n])
        PROVE  FlattenSeq(containers(n, p)) \in Seq(K)
    <3>1. n \in Word /\ p \in Name /\ ContainersOf[p] \in Seq(Name)
      BY InputAssumption, <2>1, InSteps DEF Word, Name
    <3>2. \A c \in Name : <<usageOf(n, p, c)>> \in Seq(K)
      BY <1>3, <3>1, OneElement
    <3>3. \A i \in DOMAIN ContainersOf[p] : containers(n, p)[i] \in Seq(K)
      BY <3>1, <3>2
    <3> QED
      BY <3>1, <3>3, EachType
  <2> HIDE DEF containers
  <2>2. ASSUME NEW n \in ToSet(Namespaces) PROVE FlattenSeq(pods(n)) \in Seq(K)
    <3>1. PodsIn[n] \in Seq(Name)
      BY InputAssumption, <2>2 DEF Name
    <3>2. \A i \in DOMAIN PodsIn[n] : pods(n)[i] \in Seq(K)
      BY <2>1, Elements
    <3> QED
      BY <3>1, <3>2, EachType
  <2> HIDE DEF pods
  <2>3. \A i \in DOMAIN Namespaces : all[i] \in Seq(K)
    BY <2>2, Elements
  <2> QED
    BY <2>3, InputAssumption, EachType
<1>7. SystemPerf \in Seq(K)
  <2> HIDE DEF nodes, all, ns, ps, nodeList, podList
  <2> QED
    BY <1>1, <1>4, <1>5, <1>6
<1> HIDE DEF ns, ps
<1> QED
  BY <1>2, <1>7, PlanOfSteps, PlanOfOwnKeys DEF K

LEMMA SmiPlan == IsPlan(Smi) /\ OneStepAKey(Smi)
<1> DEFINE Word == STRING
           v1 == Ask(<<"list", "crds">>, <<"v1">>, "fallback", {})
           v1beta1 == Ask(<<"list", "crds">>, <<"v1beta1">>, "return", {})
           yamlOf(c) == AsYaml(c, <<"yaml">>, {<<"crd", c>>})
           instance(c, r) == AsYaml(c, <<"list", r>>, {})
           all == Ask(<<"resources">>, << >>, "never",
                    UNION {{<<"resource", c, r>> : r \in ToSet(InstancesOf[c])} : c \in ToSet(Crds)})
           A == {yamlOf(c) : c \in Word}
           B == {StorageVersion(c) : c \in Word} \cup {ListOf(c) : c \in Word}
           C == UNION {{instance(c, r) : r \in Word} : c \in Word}
           K == {v1, v1beta1, all} \cup A \cup B \cup C
           yamls == [i \in DOMAIN Crds |-> <<yamlOf(Crds[i])>>]
           versions == [i \in DOMAIN Crds |-> <<StorageVersion(Crds[i])>>]
           instances(c) == [i \in DOMAIN InstancesOf[c] |-> <<instance(c, InstancesOf[c][i])>>]
           ofCrd(c) == <<ListOf(c)>> \o FlattenSeq(instances(c))
           lists == [i \in DOMAIN Crds |-> ofCrd(Crds[i])]
<1>1. Smi = CrdLists \o FlattenSeq(yamls) \o FlattenSeq(versions) \o FlattenSeq(lists) \o <<all>>
  BY DEF Smi, Each
<1>2. Crds \in Seq(Word) /\ \A c \in ToSet(Crds) : c \in Word /\ InstancesOf[c] \in Seq(Word)
  BY InputAssumption, InSteps DEF Word
<1> HIDE DEF Word
<1>3. /\ \A c \in Word : yamlOf(c) \in K /\ StorageVersion(c) \in K /\ ListOf(c) \in K
      /\ \A c \in Word, r \in Word : instance(c, r) \in K
  <2>1. \A c \in Word : yamlOf(c) \in A /\ StorageVersion(c) \in B /\ ListOf(c) \in B
    OBVIOUS
  <2>2. ASSUME NEW c \in Word, NEW r \in Word PROVE instance(c, r) \in C
    <3> HIDE DEF instance
    <3> QED
      OBVIOUS
  <2> HIDE DEF A, B, C, v1, v1beta1, all, yamlOf, instance
  <2> QED
    BY <2>1, <2>2
<1>4. CrdLists \in Seq(K) /\ <<all>> \in Seq(K)
  <2>1. CrdLists = <<v1, v1beta1>>
    BY DEF CrdLists
  <2> HIDE DEF A, B, C, v1, v1beta1, all
  <2> QED
    BY <2>1
<1>5. /\ \A s \in B \cup C \cup {v1, v1beta1} : s.keys = {}
      /\ \A s \in K : Len(s.what) \in Nat /\ s.onError # "panic"
      /\ \A s \in K : s.onError = "fallback" => s = v1
  BY DEF Ask, AsYaml, StorageVersion, ListOf
<1>6. \A t \in A \cup {all} : t.of # v1.of
  BY DEF Ask, AsYaml
<1>7. \A s, t \in A : s.keys \cap t.keys # {} => Item(s) = Item(t)
  BY DEF Ask, AsYaml, Item
<1>8. \A s \in A : s.keys \cap all.keys = {}
  BY DEF Ask, AsYaml
<1> HIDE DEF A, B, C, K, v1, v1beta1, all, yamlOf, instance
<1>9. FlattenSeq(yamls) \in Seq(K) /\ FlattenSeq(versions) \in Seq(K)
  <2>1. \A i \in DOMAIN Crds : yamls[i] \in Seq(K) /\ versions[i] \in Seq(K)
    BY <1>2, <1>3, OneElement
  <2> QED
    BY <1>2, <2>1, EachType
<1>10. FlattenSeq(lists) \in Seq(K)
  <2>1. ASSUME NEW c \in ToSet(Crds) PROVE ofCrd(c) \in Seq(K)
    <3>1. \A i \in DOMAIN InstancesOf[c] : instances(c)[i] \in Seq(K)
      BY <1>2, <1>3, OneElement
    <3>2. FlattenSeq(instances(c)) \in Seq(K)
      BY <1>2, <3>1, EachType
    <3>3. <<ListOf(c)>> \in Seq(K)
      BY <1>2, <1>3, OneElement
    <3> HIDE DEF instances
    <3> QED
      BY <3>2, <3>3
  <2> HIDE DEF ofCrd
  <2>2. \A i \in DOMAIN Crds : lists[i] \in Seq(K)
    BY <2>1, Elements
  <2> QED
    BY <1>2, <2>2, EachType
<1>11. Smi \in Seq(K)
  <2> HIDE DEF yamls, versions, lists
  <2> QED
    BY <1>1, <1>4, <1>9, <1>10
<1>12. IsPlan(Smi)
  <2>1. \A t \in K : t.of = v1.of => t.keys = {}
    BY <1>5, <1>6 DEF K
  <2> QED
    BY <1>5, <1>11, <2>1, PlanOfSteps
<1>13. OneStepAKey(Smi)
  <2>1. \A s, t \in K : s.keys \cap t.keys # {} => Item(s) = Item(t)
    BY <1>5, <1>7, <1>8 DEF K
  <2> QED
    BY <1>11, <2>1, PlanOfOwnKeys
<1> QED
  BY <1>12, <1>13

LEMMA EveryPlan == \A k \in DOMAIN Plans : IsPlan(Plans[k])
BY DNSPlan, NetworkConfigPlan, IPTablesPlan, SystemLogsPlan, NetworkOutboundPlan, NodeLogPlan, PDBPlan,
   PodsContainerLogsPlan, HelmPlan, KubeObjectsPlan, SystemPerfPlan, SmiPlan DEF Plans

(* A sequence that is another with at most an empty word in front; and two that are one once *)
(* an empty word stands in front of either.                                                  *)
IsOrPrecedes(a, k) == a = k \/ a = <<EmptyWord>> \o k
Level(a, b) == \E x, y \in {<< >>, <<EmptyWord>>} : x \o a = y \o b

(* What LogKey cuts off, if anything. *)
LEMMA LogKeyCuts ==
  ASSUME NEW path \in ToSet(NodeLogs)
  PROVE  FlattenSeq(path) \in Seq(STRING) /\ IsOrPrecedes(FlattenSeq(path), LogKey(path))
<1> DEFINE Word == STRING
<1>1. PICK words : words = FlattenSeq(path)
  OBVIOUS
<1>2. words \in Seq(Word) /\ words # << >>
  <2>1. path \in Seq(Seq(Word))
    BY InputAssumption, InSteps DEF Word
  <2>2. words \in Seq(Word)
    BY <1>1, <2>1, FlattenType
  <2> QED
    BY <1>1, <2>2, InputAssumption
<1> HIDE DEF Word
<1>3. Tail(words) \in Seq(Word) /\ words = <<Head(words)>> \o Tail(words)
  BY <1>2
<1>4. LogKey(path) = IF Head(words) = EmptyWord THEN Tail(words) ELSE words
  BY <1>1 DEF LogKey
<1>5. IsOrPrecedes(words, LogKey(path))
  BY <1>2, <1>3, <1>4 DEF IsOrPrecedes
<1> QED
  BY <1>1, <1>2, <1>5 DEF Word

LEMMA Levelled ==
  ASSUME NEW S, NEW a \in Seq(S), NEW b \in Seq(S), NEW k, IsOrPrecedes(a, k), IsOrPrecedes(b, k)
  PROVE  Level(a, b)
<1>1. << >> \o a = a /\ << >> \o b = b
  OBVIOUS
<1>2. CASE a = b
  BY <1>2 DEF Level
<1>3. CASE a = k /\ b = <<EmptyWord>> \o k
  BY <1>1, <1>3 DEF Level
<1>4. CASE a = <<EmptyWord>> \o k /\ b = k
  BY <1>1, <1>4 DEF Level
<1> QED
  BY <1>2, <1>3, <1>4 DEF IsOrPrecedes

(* Steps that share a key are namesakes: whatever is listed, they alone share one. *)
LEMMA SharersAreNamesakes ==
  ASSUME kind \in Kinds, NEW s \in ToSet(Plan), NEW t \in ToSet(Plan), NEW k \in s.keys, k \in t.keys
  PROVE  Namesakes(Item(t), Item(s))
<1>1. Item(s)[1] = s.of /\ Item(s)[2] = s.what /\ Item(t)[1] = t.of /\ Item(t)[2] = t.what
  BY DEF Item
<1>2. CASE kind = "nodelogs"
  <2>1. Plan = NodeLog
    BY <1>2 DEF Plan, Plans
  <2>2. LogKey(s.of) = LogKey(t.of) /\ s.of \in ToSet(NodeLogs) /\ t.of \in ToSet(NodeLogs)
    BY <2>1, NodeLogPlan
  <2>3. Level(FlattenSeq(t.of), FlattenSeq(s.of))
    BY <2>2, LogKeyCuts, Levelled
  <2> QED
    BY <1>1, <1>2, <2>3 DEF Namesakes, Level
<1>3. CASE kind = "podscontainerlogs"
  <2>1. Plan = PodsContainerLogs
    BY <1>3 DEF Plan, Plans
  <2>2. k = FlattenSeq(s.what) /\ k = FlattenSeq(t.what)
    BY <2>1, PodsContainerLogsPlan
  <2> QED
    BY <1>1, <1>3, <2>2 DEF Namesakes
<1>4. CASE kind = "kubeobjects"
  <2>1. Plan = KubeObjects
    BY <1>4 DEF Plan, Plans
  <2>2. k = SubSeq(s.of, 1, 2) \o s.what /\ k = SubSeq(t.of, 1, 2) \o t.what
    BY <2>1, KubeObjectsPlan
  <2>3. SubSeq(Item(t)[1], 1, 2) \o Item(t)[2] = SubSeq(Item(s)[1], 1, 2) \o Item(s)[2]
    BY <1>1, <2>2
  <2> QED
    BY <1>4, <2>3 DEF Namesakes
<1>5. CASE kind \notin {"nodelogs", "podscontainerlogs", "kubeobjects"}
  <2>1. kind \in DOMAIN Plans
    BY KindsAssumption
  <2>2. OneStepAKey(Plan)
    BY <1>5, <2>1, DNSPlan, NetworkConfigPlan, IPTablesPlan, SystemLogsPlan, NetworkOutboundPlan,
       PDBPlan, HelmPlan, SystemPerfPlan, SmiPlan DEF Plan, Plans
  <2>3. Item(t) = Item(s)
    BY <2>2 DEF OneStepAKey
  <2> QED
    BY <1>5, <2>3 DEF Namesakes
<1> QED
  BY <1>2, <1>3, <1>4, <1>5

LEMMA PlanFacts ==
  ASSUME TypeOK
  PROVE  /\ Plan \in Seq(Steps)
         /\ \A s \in Steps : IsPrefix(s.what, s.what)
         /\ \A s \in Steps : s.onError = "panic" => s.keys = {}
         /\ \A s, t \in Steps : s.onError = "fallback" /\ t.of = s.of => t.keys = {}
<1>1. kind \in DOMAIN Plans /\ Plan = Plans[kind] /\ Steps = ToSet(Plan)
  BY KindsAssumption DEF TypeOK, Steps, Plan
<1>2. IsPlan(Plan)
  BY <1>1, EveryPlan
<1>3. \A s \in Steps : IsPrefix(s.what, s.what)
  BY <1>1, <1>2 DEF IsPlan, IsPrefix
<1> QED
  BY <1>1, <1>2, <1>3 DEF IsPlan

(* What a step asks for stays planned. *)
LEMMA SamePlan ==
  ASSUME kind' = kind
  PROVE  Plan' = Plan /\ Steps' = Steps /\ PlannedKeys' = PlannedKeys
BY DEF Plan, Steps, PlannedKeys

LEMMA KindStays == ASSUME [DNext]_dvars PROVE kind' = kind
BY DEF DNext, Next, Collect, Succeed, PassOver, FallBack, RecordError, ReturnError, CountReady, Panic,
       ReturnNil, Restart, PodStarts, Returned, Diagnose, DiagnosePanics, RunGoesOn, vars, dvars

(* What is stored is of the step that has the key. *)
LEMMA StoredFacts ==
  ASSUME KeysAreOfTheirSteps, NEW s \in Steps, data' = Stored(s), kind' = kind
  PROVE  /\ KeysAreOfTheirSteps'
         /\ DOMAIN data' = DOMAIN data \cup s.keys
<1>1. DOMAIN data' = DOMAIN data \cup s.keys
  BY DEF Stored
<1>2. \A k \in DOMAIN data' : data'[k] = IF k \in s.keys THEN Item(s) ELSE data[k]
  BY DEF Stored
<1>3. \A k \in DOMAIN data' : \E t \in Steps : k \in t.keys /\ data'[k] = Item(t)
  BY <1>1, <1>2 DEF KeysAreOfTheirSteps
<1> QED
  BY <1>1, <1>3, SamePlan DEF KeysAreOfTheirSteps, Item

(* The steps left and what they pass over. *)
LEMMA Continues ==
  ASSUME TodoIsPlanned, todo # << >>, NEW passed, Continue(passed), kind' = kind
  PROVE  /\ TodoIsPlanned'
         /\ \A t \in ToSet(todo) : t = Head(todo) \/ t \in ToSet(todo') \/ \E j \in passed : t = todo[j]
<1>1. PICK i \in 2..(Len(todo) + 1) : 2..(i - 1) \subseteq passed /\ todo' = SubSeq(todo, i, Len(todo))
  BY DEF Continue
<1>2. todo \in Seq(Steps)
  BY DEF TodoIsPlanned
<1>3. /\ SubSeq(todo, i, Len(todo)) \in Seq(Steps)
      /\ \A t \in ToSet(todo) : \/ t = Head(todo) \/ \E j \in 2..(i - 1) : t = todo[j]
                                \/ t \in ToSet(SubSeq(todo, i, Len(todo)))
  BY <1>2, FromTheNext
<1> QED
  BY <1>1, <1>3, SamePlan DEF TodoIsPlanned

LEMMA Advances ==
  ASSUME TodoIsPlanned, todo # << >>, todo' = Tail(todo), kind' = kind
  PROVE  /\ TodoIsPlanned'
         /\ \A t \in ToSet(todo) : t = Head(todo) \/ t \in ToSet(todo')
BY HeadAndTail, SamePlan DEF TodoIsPlanned

(* A step that is next is planned. *)
LEMMA NextIsPlanned ==
  ASSUME TodoIsPlanned, todo # << >>
  PROVE  Head(todo) \in Steps /\ Head(todo) \in ToSet(todo)
BY HeadAndTail DEF TodoIsPlanned

(* What failed and was noted is an item of the plan. *)
LEMMA ErrsFacts ==
  ASSUME TypeOK, TodoIsPlanned, todo # << >>, Errs
  PROVE  /\ failures' \in 0..MaxFailures
         /\ failed' = failed \cup {Item(Head(todo))}
         /\ failed' \subseteq {Item(s) : s \in Steps}
<1>1. failures \in 0..MaxFailures /\ failures < MaxFailures => failures + 1 \in 0..MaxFailures
  BY BoundAssumption
<1>2. Item(Head(todo)) \in {Item(s) : s \in Steps}
  BY NextIsPlanned
<1> QED
  BY <1>1, <1>2 DEF Errs, TypeOK, Steps

(* What remains of the types, once the steps left and the keys are in order. *)
LEMMA Types ==
  ASSUME TodoIsPlanned', KeysAreOfTheirSteps', kind \in Kinds, kind' = kind,
         pc' \in {"collecting", "crashed", "returned", "diagnosed"},
         result' \in {"none", "nil", "error"}, result' # "none" <=> pc' \in {"returned", "diagnosed"},
         noted' \subseteq failed', failed' \subseteq {Item(s) : s \in Steps},
         listed' \subseteq started', started' \subseteq Pods, failures' \in 0..MaxFailures
  PROVE  TypeOK'
<1>1. Plan' = Plan /\ Steps' = Steps /\ PlannedKeys' = PlannedKeys
  BY SamePlan
<1>2. ToSet(todo') \subseteq ToSet(Plan)
  <2>1. todo' \in Seq(Steps)
    BY <1>1 DEF TodoIsPlanned
  <2>2. \A i \in DOMAIN todo' : todo'[i] \in Steps
    BY <2>1
  <2> QED
    BY <2>2, Elements DEF Steps
<1>3. \A k \in DOMAIN data' : \E s \in Steps : k \in s.keys /\ data'[k] = Item(s)
  BY <1>1 DEF KeysAreOfTheirSteps, Item
<1>4. DOMAIN data' \subseteq PlannedKeys
  BY <1>3 DEF PlannedKeys, Steps
<1>5. ToSet(data') \subseteq {Item(s) : s \in ToSet(Plan)}
  BY <1>3, Elements DEF Steps
<1> QED
  BY <1>1, <1>2, <1>4, <1>5 DEF TypeOK, Steps, Item, Pods, ToSet

----------------------------------------------------------------------------
(* The invariant *)

LEMMA InitIInv == DInit => IInv
<1> SUFFICES ASSUME DInit PROVE IInv
  OBVIOUS
<1>1. /\ kind \in Kinds /\ pc = "collecting" /\ todo = Plan /\ result = "none"
      /\ DOMAIN data = {} /\ failed = {} /\ noted = {} /\ listed = {} /\ started \subseteq Pods
      /\ failures = 0
  BY DEF DInit, Init
<1>2. KeysAreOfTheirSteps
  BY <1>1 DEF KeysAreOfTheirSteps
<1>3. 0 \in 0..MaxFailures
  BY BoundAssumption
<1>4. TypeOK
  BY <1>1, <1>3 DEF TypeOK, ToSet
<1>5. TodoIsPlanned
  BY <1>1, <1>4, PlanFacts DEF TodoIsPlanned
<1>6. WholeSoFar
  BY <1>1 DEF WholeSoFar, Steps
<1> QED
  BY <1>1, <1>2, <1>4, <1>5, <1>6 DEF IInv, SuccessIsWhole

(* Every variable keeps its type, what is left is planned, and a key holds its own item. *)
LEMMA NextTypes ==
  ASSUME TypeOK, TodoIsPlanned, KeysAreOfTheirSteps, [DNext]_dvars
  PROVE  TypeOK' /\ TodoIsPlanned' /\ KeysAreOfTheirSteps'
<1>1. kind' = kind /\ kind \in Kinds
  BY KindStays DEF TypeOK
<1>2. Plan' = Plan /\ Steps' = Steps
  BY <1>1, SamePlan
<1>3. data' = data => KeysAreOfTheirSteps'
  BY <1>2 DEF KeysAreOfTheirSteps, Item
<1>4. (todo' = todo \/ todo' = << >>) => TodoIsPlanned'
  <2>1. << >> \in Seq(Steps) /\ todo \in Seq(Steps)
    BY DEF TodoIsPlanned
  <2> QED
    BY <1>2, <2>1 DEF TodoIsPlanned
<1>5. failed' = failed => failed' \subseteq {Item(s) : s \in Steps}
  BY DEF TypeOK, Steps
<1>6. /\ pc \in {"collecting", "crashed", "returned", "diagnosed"}
      /\ result \in {"none", "nil", "error"} /\ (result # "none" <=> pc \in {"returned", "diagnosed"})
      /\ noted \subseteq failed /\ listed \subseteq started /\ started \subseteq Pods
      /\ failures \in 0..MaxFailures
  BY DEF TypeOK
<1>7. CASE Succeed
  <2>1. todo # << >> /\ Continue(OtherVersions(Head(todo))) /\ data' = Stored(Head(todo))
    BY <1>7 DEF Succeed, At
  <2>2. TodoIsPlanned' /\ KeysAreOfTheirSteps'
    BY <1>1, <2>1, Continues, NextIsPlanned, StoredFacts
  <2> QED
    BY <1>1, <1>5, <1>6, <1>7, <2>2, Types DEF Succeed
<1>8. CASE PassOver
  <2>1. todo # << >> /\ Continue(PartsOf(Head(todo))) /\ Errs
    BY <1>8 DEF PassOver, At
  <2>2. TodoIsPlanned' /\ KeysAreOfTheirSteps'
    BY <1>1, <1>3, <1>8, <2>1, Continues DEF PassOver
  <2> QED
    BY <1>1, <1>6, <1>8, <2>1, <2>2, ErrsFacts, Types DEF PassOver
<1>9. CASE FallBack
  <2>1. todo # << >> /\ todo' = Tail(todo) /\ Errs
    BY <1>9 DEF FallBack, At
  <2>2. TodoIsPlanned' /\ KeysAreOfTheirSteps'
    BY <1>1, <1>3, <1>9, <2>1, Advances DEF FallBack
  <2> QED
    BY <1>1, <1>6, <1>9, <2>1, <2>2, ErrsFacts, Types DEF FallBack
<1>10. CASE RecordError
  <2>1. todo # << >> /\ todo' = Tail(todo) /\ Errs /\ data' = Stored(Head(todo))
    BY <1>10 DEF RecordError, At
  <2>2. TodoIsPlanned' /\ KeysAreOfTheirSteps'
    BY <1>1, <2>1, Advances, NextIsPlanned, StoredFacts
  <2> QED
    BY <1>1, <1>6, <1>10, <2>1, <2>2, ErrsFacts, Types DEF RecordError
<1>11. CASE ReturnError
  <2>1. todo # << >> /\ Errs /\ result' \in {"nil", "error"}
    BY <1>11 DEF ReturnError, At
  <2>2. TodoIsPlanned' /\ KeysAreOfTheirSteps'
    BY <1>3, <1>4, <1>11 DEF ReturnError
  <2> QED
    BY <1>1, <1>6, <1>11, <2>1, <2>2, ErrsFacts, Types DEF ReturnError
<1>12. CASE CountReady
  <2>1. todo # << >> /\ todo' = Tail(todo)
    BY <1>12 DEF CountReady, At
  <2>2. TodoIsPlanned' /\ KeysAreOfTheirSteps'
    BY <1>1, <1>3, <1>12, <2>1, Advances DEF CountReady
  <2> QED
    BY <1>1, <1>5, <1>6, <1>12, <2>2, Types DEF CountReady
<1>13. CASE Panic
  <2>1. TodoIsPlanned' /\ KeysAreOfTheirSteps'
    BY <1>3, <1>4, <1>13 DEF Panic, collection
  <2> QED
    BY <1>1, <1>5, <1>6, <1>13, <2>1, Types DEF Panic, collection, At
<1>14. CASE ReturnNil
  <2>1. TodoIsPlanned' /\ KeysAreOfTheirSteps'
    BY <1>3, <1>4, <1>14 DEF ReturnNil
  <2> QED
    BY <1>1, <1>5, <1>6, <1>14, <2>1, Types DEF ReturnNil
<1>15. CASE Restart
  <2>1. TodoIsPlanned'
    BY <1>2, <1>15, PlanFacts DEF Restart, TodoIsPlanned
  <2>2. KeysAreOfTheirSteps'
    BY <1>15 DEF Restart, KeysAreOfTheirSteps
  <2> QED
    BY <1>1, <1>6, <1>15, <2>1, <2>2, Types DEF Restart
<1>16. ASSUME NEW p \in Pods, PodStarts(p)
       PROVE  TypeOK' /\ TodoIsPlanned' /\ KeysAreOfTheirSteps'
  <2>1. TodoIsPlanned' /\ KeysAreOfTheirSteps'
    BY <1>3, <1>4, <1>16 DEF PodStarts, collection
  <2> QED
    BY <1>1, <1>5, <1>6, <1>16, <2>1, Types DEF PodStarts, collection
<1>17. CASE Diagnose
  <2>1. TodoIsPlanned' /\ KeysAreOfTheirSteps'
    BY <1>3, <1>4, <1>17 DEF Diagnose, collection
  <2>2. /\ pc = "returned" /\ pc' = "diagnosed"
        /\ UNCHANGED <<result, failed, noted, listed, started, failures>>
    BY <1>17 DEF Diagnose, collection
  <2> QED
    BY <1>1, <1>5, <1>6, <2>1, <2>2, Types
<1>18. CASE DiagnosePanics
  <2>1. TodoIsPlanned' /\ KeysAreOfTheirSteps'
    BY <1>3, <1>4, <1>18 DEF DiagnosePanics
  <2>2. /\ pc' = "crashed" /\ result' = "none"
        /\ UNCHANGED <<failed, noted, listed, started, failures>>
    BY <1>18 DEF DiagnosePanics
  <2> QED
    BY <1>1, <1>5, <1>6, <2>1, <2>2, Types
<1>19. CASE UNCHANGED vars
  <2>1. TodoIsPlanned' /\ KeysAreOfTheirSteps'
    BY <1>3, <1>4, <1>19 DEF vars, collection
  <2> QED
    BY <1>1, <1>5, <1>6, <1>19, <2>1, Types DEF vars, collection
<1> QED
  BY <1>7, <1>8, <1>9, <1>10, <1>11, <1>12, <1>13, <1>14, <1>15, <1>16, <1>17, <1>18, <1>19
  DEF DNext, Next, Collect, Returned, RunGoesOn, dvars

(* A step of Collect after which it goes on. *)
LEMMA GoesOn ==
  ASSUME WholeSoFar, pc = "collecting", kind' = kind,
         failed' = noted', noted \subseteq noted', DOMAIN data \subseteq DOMAIN data',
         \A t \in ToSet(todo) : t \in ToSet(todo') \/ t.keys \subseteq DOMAIN data' \/ Explained(t)'
  PROVE  WholeSoFar'
<1>1. Steps' = Steps
  BY SamePlan
<1>2. ASSUME NEW s \in Steps, Explained(s) PROVE Explained(s)'
  BY <1>2 DEF Explained
<1>3. \A s \in Steps : s \in ToSet(todo') \/ s.keys \subseteq DOMAIN data' \/ Explained(s)'
  BY <1>2 DEF WholeSoFar
<1> QED
  BY <1>1, <1>3 DEF WholeSoFar, Explained, ToSet

(* What was noted explains the item and its parts. *)
LEMMA NotedExplains ==
  ASSUME TypeOK, TodoIsPlanned, todo # << >>, noted' = noted \cup {Item(Head(todo))},
         NEW t, t = Head(todo) \/ \E j \in PartsOf(Head(todo)) : t = todo[j]
  PROVE  Explained(t)'
<1>1. PICK s : s = Head(todo)
  OBVIOUS
<1>2. Item(s) \in noted' /\ Item(s)[1] = s.of /\ Item(s)[2] = s.what
  BY <1>1 DEF Item
<1>3. IsPrefix(s.what, s.what)
  BY <1>1, NextIsPlanned, PlanFacts
<1>4. s.of = t.of /\ IsPrefix(s.what, t.what)
  BY <1>1, <1>3 DEF PartsOf, IsStrictPrefix
<1> QED
  BY <1>2, <1>4 DEF Explained

(* While Collect goes on, every step is to come, has its keys or is explained; and when it     *)
(* reports success, but for the return of a nil error, nothing is to come.                     *)
LEMMA NextWhole ==
  ASSUME IInv, [DNext]_dvars
  PROVE  WholeSoFar' /\ SuccessIsWhole'
<1>1. kind' = kind /\ Plan' = Plan /\ Steps' = Steps
  BY KindStays, SamePlan
<1>2. TypeOK /\ TodoIsPlanned /\ KeysAreOfTheirSteps /\ WholeSoFar /\ SuccessIsWhole /\ TypeOK'
  BY NextTypes DEF IInv
<1>3. pc' = "collecting" => SuccessIsWhole'
  BY <1>2 DEF TypeOK, SuccessIsWhole
<1>4. CASE Succeed
  <2>1. PICK s : s = Head(todo)
    OBVIOUS
  <2>2. /\ pc = "collecting" /\ pc' = "collecting" /\ todo # << >>
        /\ Continue(OtherVersions(s)) /\ data' = Stored(s)
        /\ s \in Steps /\ UNCHANGED <<failed, noted>>
    BY <1>2, <1>4, <2>1, NextIsPlanned DEF Succeed, At
  <2>3. DOMAIN data' = DOMAIN data \cup s.keys
    BY <1>1, <1>2, <2>2, StoredFacts
  <2>4. \A j \in OtherVersions(s) : todo[j].keys = {}
    <3>1. \A j \in 2..Len(todo) : todo[j] \in Steps
      BY <1>2 DEF TodoIsPlanned
    <3> QED
      BY <1>2, <2>2, <3>1, PlanFacts DEF OtherVersions
  <2>5. \A t \in ToSet(todo) : t \in ToSet(todo') \/ t.keys \subseteq DOMAIN data'
    BY <1>1, <1>2, <2>1, <2>2, <2>3, <2>4, Continues
  <2> QED
    BY <1>1, <1>2, <1>3, <2>2, <2>3, <2>5, GoesOn DEF WholeSoFar
<1>5. CASE PassOver
  <2>1. /\ pc = "collecting" /\ pc' = "collecting" /\ todo # << >> /\ data' = data
        /\ Continue(PartsOf(Head(todo)))
        /\ failed' = failed \cup {Item(Head(todo))} /\ noted' = noted \cup {Item(Head(todo))}
    BY <1>5 DEF PassOver, At, Errs
  <2>2. \A t \in ToSet(todo) : t \in ToSet(todo') \/ Explained(t)'
    BY <1>1, <1>2, <2>1, Continues, NotedExplains
  <2> QED
    BY <1>1, <1>2, <1>3, <2>1, <2>2, GoesOn DEF WholeSoFar
<1>6. CASE FallBack
  <2>1. /\ pc = "collecting" /\ pc' = "collecting" /\ todo # << >> /\ data' = data
        /\ todo' = Tail(todo)
        /\ failed' = failed \cup {Item(Head(todo))} /\ noted' = noted \cup {Item(Head(todo))}
    BY <1>6 DEF FallBack, At, Errs
  <2>2. \A t \in ToSet(todo) : t \in ToSet(todo') \/ Explained(t)'
    BY <1>1, <1>2, <2>1, Advances, NotedExplains
  <2> QED
    BY <1>1, <1>2, <1>3, <2>1, <2>2, GoesOn DEF WholeSoFar
<1>7. CASE RecordError
  <2>1. /\ pc = "collecting" /\ pc' = "collecting" /\ todo # << >> /\ DOMAIN data \subseteq DOMAIN data'
        /\ todo' = Tail(todo)
        /\ failed' = failed \cup {Item(Head(todo))} /\ noted' = noted \cup {Item(Head(todo))}
    BY <1>7 DEF RecordError, At, Errs, Stored
  <2>2. \A t \in ToSet(todo) : t \in ToSet(todo') \/ Explained(t)'
    BY <1>1, <1>2, <2>1, Advances, NotedExplains
  <2> QED
    BY <1>1, <1>2, <1>3, <2>1, <2>2, GoesOn DEF WholeSoFar
<1>8. CASE ReturnError
  <2>1. PICK s : s = Head(todo)
    OBVIOUS
  <2>2. /\ pc' = "returned" /\ todo # << >> /\ s \in Steps
        /\ failed' = failed \cup {Item(s)}
        /\ result' = IF s.onError = "return_nil" THEN "nil" ELSE "error"
    BY <1>2, <1>8, <2>1, NextIsPlanned DEF ReturnError, At, Errs
  <2>3. result' = "nil" => SlippedOut'
    <3>1. result' = "nil" => s.onError = "return_nil" /\ Item(s) \in failed'
      BY <2>2
    <3> QED
      BY <1>1, <2>2, <3>1 DEF SlippedOut, Steps, Item
  <2> QED
    BY <2>2, <2>3 DEF WholeSoFar, SuccessIsWhole
<1>9. CASE CountReady
  <2>1. PICK s : s = Head(todo)
    OBVIOUS
  <2>2. /\ pc = "collecting" /\ pc' = "collecting" /\ todo # << >>
        /\ todo' = Tail(todo) /\ s \in Steps /\ s.onError = "panic"
        /\ UNCHANGED <<data, failed, noted>>
    BY <1>2, <1>9, <2>1, NextIsPlanned DEF CountReady, At
  <2>3. s.keys = {}
    BY <1>2, <2>2, PlanFacts
  <2>4. \A t \in ToSet(todo) : t \in ToSet(todo') \/ t.keys \subseteq DOMAIN data'
    BY <1>1, <1>2, <2>1, <2>2, <2>3, Advances
  <2> QED
    BY <1>1, <1>2, <1>3, <2>2, <2>4, GoesOn DEF WholeSoFar
<1>10. CASE Panic
  <2>1. pc' = "crashed" /\ result' = result /\ pc = "collecting"
    BY <1>10 DEF Panic, collection, At
  <2> QED
    BY <1>2, <2>1 DEF TypeOK, WholeSoFar, SuccessIsWhole
<1>11. CASE ReturnNil
  <2>1. /\ pc = "collecting" /\ pc' = "returned" /\ todo = << >>
        /\ UNCHANGED <<data, failed, noted>>
    BY <1>11 DEF ReturnNil
  <2>2. ToSet(todo) = {}
    BY <2>1 DEF ToSet
  <2>3. failed = noted /\ \A s \in Steps : s.keys \subseteq DOMAIN data \/ Explained(s)
    BY <1>2, <2>1, <2>2 DEF WholeSoFar
  <2>4. \A s \in Steps : Explained(s) => Explained(s)'
    BY <2>1 DEF Explained
  <2> QED
    BY <1>1, <2>1, <2>3, <2>4 DEF WholeSoFar, SuccessIsWhole, Steps
<1>12. CASE Restart
  <2>1. pc' = "collecting" /\ todo' = Plan /\ failed' = noted'
    BY <1>12 DEF Restart
  <2> QED
    BY <1>1, <1>3, <2>1 DEF WholeSoFar, Steps, ToSet
<1>13. ASSUME UNCHANGED <<result, todo, data, failed, noted>>,
              pc' = pc \/ pc' # "collecting"
       PROVE  WholeSoFar' /\ SuccessIsWhole'
  <2>1. \A s \in Steps : Explained(s)' <=> Explained(s)
    BY <1>13 DEF Explained
  <2>2. SlippedOut' <=> SlippedOut
    BY <1>1, <1>13 DEF SlippedOut, Item
  <2> QED
    BY <1>1, <1>2, <1>13, <2>1, <2>2 DEF WholeSoFar, SuccessIsWhole, Steps, ToSet
<1>14. ASSUME NEW p \in Pods, PodStarts(p) PROVE WholeSoFar' /\ SuccessIsWhole'
  BY <1>13, <1>14 DEF PodStarts, collection
<1>15. CASE Diagnose
  <2>1. UNCHANGED <<result, todo, data, failed, noted>> /\ pc' = "diagnosed"
    BY <1>15 DEF Diagnose, collection
  <2> QED
    BY <1>13, <2>1
<1>16. CASE DiagnosePanics
  <2>1. pc' = "crashed" /\ result' = "none"
    BY <1>16 DEF DiagnosePanics
  <2> QED
    BY <2>1 DEF WholeSoFar, SuccessIsWhole
<1>17. CASE UNCHANGED vars
  BY <1>13, <1>17 DEF vars, collection
<1> QED
  BY <1>4, <1>5, <1>6, <1>7, <1>8, <1>9, <1>10, <1>11, <1>12, <1>14, <1>15, <1>16, <1>17
  DEF DNext, Next, Collect, Returned, RunGoesOn, dvars

LEMMA Inductive == DSpec => []IInv
<1>1. IInv /\ [DNext]_dvars => IInv'
  <2> SUFFICES ASSUME IInv, [DNext]_dvars PROVE IInv'
    OBVIOUS
  <2>1. TypeOK' /\ TodoIsPlanned' /\ KeysAreOfTheirSteps'
    BY NextTypes DEF IInv
  <2> QED
    BY <2>1, NextWhole DEF IInv
<1> QED
  BY InitIInv, <1>1, PTL DEF DSpec

----------------------------------------------------------------------------
(* The theorems *)

(* Every variable of Collectors keeps its type: nothing unplanned is asked for or recorded,   *)
(* and nothing is noted that did not fail.                                                    *)
THEOREM TypeCorrect == DSpec => []TypeOK
<1>1. IInv => TypeOK
  BY DEF IInv
<1> QED
  BY <1>1, Inductive, PTL

(* A collector that reports success has every planned key, or has logged or recorded why not,  *)
(* and no failure of one item has cost it another, in whatever steps it failed and however     *)
(* often a panic began it anew; but for the one return of a nil error.                         *)
THEOREM SuccessIsNeverPartial == DSpec => []SuccessIsWhole
<1>1. IInv => SuccessIsWhole
  BY DEF IInv
<1> QED
  BY <1>1, Inductive, PTL

(* After a success a planned key holds its own item or a namesake's: what the files, Kubernetes *)
(* and the environment list may be anything, paths, pods, containers and objects of any names. *)
THEOREM OnlyNamesakesReplace == DSpec => []LostOnlyToNamesakes
<1>1. IInv => LostOnlyToNamesakes
  <2> SUFFICES ASSUME IInv, result = "nil", ~SlippedOut,
                      NEW s \in ToSet(Plan), ~Explained(s), NEW k \in s.keys
               PROVE  Namesakes(data[k], Item(s))
    BY DEF LostOnlyToNamesakes
  <2>1. k \in DOMAIN data
    BY DEF IInv, SuccessIsWhole
  <2>2. PICK t \in ToSet(Plan) : k \in t.keys /\ data[k] = Item(t)
    BY <2>1 DEF IInv, KeysAreOfTheirSteps, Steps
  <2> QED
    BY <2>2, SharersAreNamesakes DEF IInv, TypeOK
<1> QED
  BY <1>1, Inductive, PTL

----------------------------------------------------------------------------
(* Texts *)

Tokens(W) == Seq(W) \ {<< >>}

LEMMA WordsFacts ==
  ASSUME NEW W, NEW line \in Seq(W)
  PROVE  /\ Words(line) \in Seq(Tokens(W)) /\ Len(Words(line)) = Len(line)
         /\ \A j \in 1..Len(line) : Words(line)[j] = <<line[j]>>
<1>1. Len(line) \in Nat /\ DOMAIN line = 1..Len(line) /\ \A j \in 1..Len(line) : line[j] \in W
  OBVIOUS
<1>2. Words(line) = [i \in 1..Len(line) |-> <<line[i]>>]
  BY <1>1 DEF Words
<1>3. \A x \in W : <<x>> \in Tokens(W)
  BY DEF Tokens
<1> QED
  BY <1>1, <1>2, <1>3

LEMMA JoinedFacts ==
  ASSUME NEW W, NEW tokens \in Seq(Tokens(W)), tokens # << >>, NEW line \in Seq(W), line # << >>
  PROVE  /\ Joined(tokens, line) \in Seq(Tokens(W))
         /\ Len(Joined(tokens, line)) = Len(tokens) + Len(line) - 1
         /\ \A t \in 1..(Len(tokens) - 1) : Joined(tokens, line)[t] = tokens[t]
         /\ Joined(tokens, line)[Len(tokens)] = Append(tokens[Len(tokens)], line[1])
         /\ \A j \in 2..Len(line) : Joined(tokens, line)[Len(tokens) + j - 1] = <<line[j]>>
<1> DEFINE a == Front(tokens)
           x == Append(Last(tokens), Head(line))
           r == Tail(line)
           c == Words(r)
<1>1. Joined(tokens, line) = a \o <<x>> \o c
  BY DEF Joined
<1>2. /\ a \in Seq(Tokens(W)) /\ Len(a) = Len(tokens) - 1 /\ \A i \in 1..Len(a) : a[i] = tokens[i]
      /\ Last(tokens) = tokens[Len(tokens)] /\ Last(tokens) \in Tokens(W)
  BY FrontFacts
<1>3. x \in Tokens(W) /\ Head(line) = line[1]
  <2>1. \A y \in Tokens(W), w \in W : Append(y, w) \in Tokens(W)
    BY DEF Tokens
  <2>2. Head(line) = line[1] /\ line[1] \in W
    OBVIOUS
  <2> QED
    BY <1>2, <2>1, <2>2
<1>4. r \in Seq(W) /\ Len(r) = Len(line) - 1 /\ \A i \in 1..Len(r) : r[i] = line[i + 1]
  OBVIOUS
<1> HIDE DEF r
<1>5. c \in Seq(Tokens(W)) /\ Len(c) = Len(r) /\ \A i \in 1..Len(r) : c[i] = <<r[i]>>
  BY <1>4, WordsFacts
<1>6. x = Append(tokens[Len(tokens)], line[1])
  BY <1>2, <1>3
<1>7. Len(tokens) \in Nat /\ Len(line) \in Nat
  OBVIOUS
<1> HIDE DEF a, x, c
<1>d. PICK d : d = Joined(tokens, line)
  OBVIOUS
<1>8. /\ d \in Seq(Tokens(W)) /\ Len(d) = Len(a) + 1 + Len(c)
      /\ \A i \in 1..Len(a) : d[i] = a[i]
      /\ d[Len(a) + 1] = x
      /\ \A i \in 1..Len(c) : d[Len(a) + 1 + i] = c[i]
  <2>1. d = a \o <<x>> \o c
    BY <1>d, <1>1
  <2>x. PICK X : X = Tokens(W)
    OBVIOUS
  <2>2. a \in Seq(X) /\ x \in X /\ c \in Seq(X)
    BY <1>2, <1>3, <1>5, <2>x
  <2>b. PICK b : b = a \o <<x>>
    OBVIOUS
  <2>3. /\ b \in Seq(X) /\ Len(b) = Len(a) + 1 /\ b[Len(a) + 1] = x
        /\ \A i \in 1..Len(a) : b[i] = a[i]
    BY <2>2, <2>b
  <2>4. IsConcat(d, b, c) /\ Len(a) \in Nat /\ Len(c) \in Nat
    BY <2>1, <2>2, <2>b DEF IsConcat
  <2>5. /\ d \in Seq(X) /\ Len(d) = Len(b) + Len(c)
        /\ \A i \in 1..Len(b) : d[i] = b[i]
        /\ \A i \in 1..Len(c) : d[Len(b) + i] = c[i]
    <3>1. b \in Seq(X) /\ c \in Seq(X) /\ IsConcat(d, b, c)
      BY <2>2, <2>3, <2>4
    <3> QED
      BY <3>1, ConcatFacts
  <2>8. d[Len(a) + 1] = x
    BY <2>3, <2>4, <2>5
  <2>9. ASSUME NEW i \in 1..Len(a) PROVE d[i] = a[i]
    BY <2>3, <2>4, <2>5
  <2> QED
    BY <2>3, <2>5, <2>8, <2>9, <2>x
<1>9. ASSUME NEW j \in 2..Len(line) PROVE d[Len(tokens) + j - 1] = <<line[j]>>
  <2>1. j - 1 \in 1..Len(r) /\ Len(a) + 1 + (j - 1) = Len(tokens) + j - 1 /\ (j - 1) + 1 = j
    BY <1>2, <1>4, <1>7
  <2>2. c[j - 1] = <<line[j]>>
    BY <1>4, <1>5, <2>1
  <2> QED
    BY <1>5, <1>8, <2>1, <2>2
<1>10. Len(d) = Len(tokens) + Len(line) - 1 /\ Len(a) + 1 = Len(tokens)
  BY <1>2, <1>4, <1>5, <1>7, <1>8
<1>11. \A t \in 1..(Len(tokens) - 1) : d[t] = tokens[t]
  BY <1>2, <1>8
<1> QED
  BY <1>d, <1>6, <1>8, <1>9, <1>10, <1>11

(* Where the tokens of the first n lines meet, the words do. *)
Meets(tokens, fields) ==
  \A t \in 1..(Len(tokens) - 1) : \E i \in 1..(Len(fields) - 1) :
    fields[i] = <<Last(tokens[t])>> /\ fields[i + 1] = <<Head(tokens[t + 1])>>

(* A token begins with a word of the text, and is that word if there are others on both sides. *)
BeginsInText(text, n, tokens) ==
  \A t \in 1..Len(tokens) : \E l \in 1..n : \E j \in 1..Len(text[l]) :
    /\ Head(tokens[t]) = text[l][j]
    /\ 1 < j /\ j < Len(text[l]) => t < Len(tokens) /\ tokens[t] = <<text[l][j]>>

(* A word with others on both sides is a token. *)
IsAToken(text, n, tokens) ==
  \A l \in 1..n : \A j \in 2..(Len(text[l]) - 1) :
    \E t \in 1..(Len(tokens) - 1) : tokens[t] = <<text[l][j]>>

SplitSoFar(W, text, n, tokens, fields) ==
  /\ tokens \in Seq(Tokens(W)) /\ tokens # << >> /\ fields \in Seq(Tokens(W))
  /\ Meets(tokens, fields)
  /\ BeginsInText(text, n, tokens)
  /\ IsAToken(text, n, tokens)

LEMMA FirstLine ==
  ASSUME NEW W, NEW text \in Seq(Tokens(W)), text # << >>
  PROVE  SplitSoFar(W, text, 1, Words(text[1]), Words(text[1]))
<1>1. PICK line : line = text[1]
  OBVIOUS
<1>2. line \in Seq(W) /\ line # << >>
  BY <1>1 DEF Tokens
<1>3. PICK tokens : tokens = Words(line)
  OBVIOUS
<1>4. /\ tokens \in Seq(Tokens(W)) /\ Len(tokens) = Len(line)
      /\ \A j \in 1..Len(line) : tokens[j] = <<line[j]>>
  BY <1>2, <1>3, WordsFacts
<1>5. Len(line) \in Nat /\ Len(line) >= 1
  BY <1>2
<1>6. \A j \in 1..Len(line) : Head(tokens[j]) = line[j] /\ Last(tokens[j]) = line[j]
  <2>1. \A x : Head(<<x>>) = x /\ Last(<<x>>) = x
    BY DEF Last
  <2> QED
    BY <1>4, <2>1
<1>7. tokens # << >>
  BY <1>4, <1>5
<1>8. Meets(tokens, tokens)
  <2>1. \A t \in 1..(Len(line) - 1) : t \in 1..Len(line) /\ t + 1 \in 1..Len(line)
    BY <1>5
  <2> QED
    BY <1>4, <1>6, <2>1 DEF Meets
<1>9. BeginsInText(text, 1, tokens)
  BY <1>1, <1>4, <1>5, <1>6 DEF BeginsInText
<1>10. IsAToken(text, 1, tokens)
  BY <1>1, <1>4, <1>5 DEF IsAToken
<1> QED
  BY <1>1, <1>3, <1>4, <1>7, <1>8, <1>9, <1>10 DEF SplitSoFar

LEMMA NextLine ==
  ASSUME NEW W, NEW text \in Seq(Tokens(W)), NEW n \in 1..(Len(text) - 1), NEW tokens, NEW fields,
         SplitSoFar(W, text, n, tokens, fields)
  PROVE  SplitSoFar(W, text, n + 1, Joined(tokens, text[n + 1]), fields \o Words(text[n + 1]))
<1>1. n + 1 \in 1..Len(text) /\ n \in Nat /\ \A l \in 1..(n + 1) : l = n + 1 \/ l \in 1..n
  OBVIOUS
<1>2. PICK line : line = text[n + 1]
  OBVIOUS
<1>3. line \in Seq(W) /\ line # << >>
  BY <1>1, <1>2 DEF Tokens
<1>4. tokens \in Seq(Tokens(W)) /\ tokens # << >> /\ fields \in Seq(Tokens(W))
  BY DEF SplitSoFar
<1>5. PICK T : T = Joined(tokens, line)
  OBVIOUS
<1>6. PICK V : V = Words(line)
  OBVIOUS
<1>7. PICK F : F = fields \o V
  OBVIOUS
<1>8. /\ T \in Seq(Tokens(W)) /\ Len(T) = Len(tokens) + Len(line) - 1
      /\ \A t \in 1..(Len(tokens) - 1) : T[t] = tokens[t]
      /\ T[Len(tokens)] = Append(tokens[Len(tokens)], line[1])
      /\ \A j \in 2..Len(line) : T[Len(tokens) + j - 1] = <<line[j]>>
  BY <1>3, <1>4, <1>5, JoinedFacts
<1>9. /\ V \in Seq(Tokens(W)) /\ Len(V) = Len(line)
      /\ \A j \in 1..Len(line) : V[j] = <<line[j]>>
  BY <1>3, <1>6, WordsFacts
<1>10. /\ F \in Seq(Tokens(W)) /\ Len(F) = Len(fields) + Len(line)
       /\ \A i \in 1..Len(fields) : F[i] = fields[i]
       /\ \A j \in 1..Len(line) : F[Len(fields) + j] = <<line[j]>>
  <2>1. /\ F \in Seq(Tokens(W)) /\ Len(F) = Len(fields) + Len(V)
        /\ \A i \in 1..Len(fields) : F[i] = fields[i]
        /\ \A j \in 1..Len(V) : F[Len(fields) + j] = V[j]
    <3> PICK X : X = Tokens(W)
      OBVIOUS
    <3>1. V \in Seq(X) /\ fields \in Seq(X) /\ Len(V) \in Nat /\ Len(fields) \in Nat
      BY <1>4, <1>9
    <3>2. IsConcat(F, fields, V)
      BY <1>7 DEF IsConcat
    <3> QED
      BY <3>1, <3>2, ConcatFacts
  <2> QED
    BY <1>9, <2>1
<1>11. PICK m \in Nat, k \in Nat, q \in Nat :
         m = Len(tokens) /\ m >= 1 /\ k = Len(line) /\ k >= 1 /\ q = Len(fields)
  BY <1>3, <1>4
(* The first and the last word of a token. *)
<1>12. ASSUME NEW t \in 1..(m - 1) PROVE Last(T[t]) = Last(tokens[t])
  BY <1>8, <1>11 DEF Last
<1>13. ASSUME NEW t \in 1..m PROVE Head(T[t]) = Head(tokens[t])
  <2>1. CASE t = m
    <3>1. tokens[m] \in Seq(W) /\ tokens[m] # << >> /\ line[1] \in W
      BY <1>3, <1>4, <1>11 DEF Tokens
    <3>2. \A s \in Seq(W), x \in W : s # << >> => Head(Append(s, x)) = Head(s)
      OBVIOUS
    <3> QED
      BY <1>8, <1>11, <2>1, <3>1, <3>2
  <2>2. CASE t # m
    <3>1. t \in 1..(m - 1)
      BY <1>11, <2>2
    <3> QED
      BY <1>8, <1>11, <3>1
  <2> QED
    BY <2>1, <2>2
<1>14. ASSUME NEW j \in 2..k PROVE T[m + j - 1] = <<line[j]>> /\ Head(T[m + j - 1]) = line[j]
  <2>1. T[m + j - 1] = <<line[j]>>
    BY <1>8, <1>11
  <2> QED
    BY <2>1
<1>15. ASSUME NEW j \in 1..k PROVE Last(T[m + j - 1]) = line[j]
  <2>1. CASE j = 1
    <3>1. tokens[m] \in Seq(W) /\ line[1] \in W /\ m + j - 1 = m
      BY <1>3, <1>4, <1>11, <2>1 DEF Tokens
    <3>2. \A s \in Seq(W), x \in W : Last(Append(s, x)) = x
      BY DEF Last
    <3>3. T[m] = Append(tokens[m], line[1])
      BY <1>8, <1>11
    <3>4. Last(T[m]) = line[1]
      BY <3>1, <3>2, <3>3
    <3> QED
      BY <2>1, <3>1, <3>4
  <2>2. CASE j # 1
    <3>1. j \in 2..k
      BY <2>2
    <3>2. \A x : Last(<<x>>) = x
      BY DEF Last
    <3> QED
      BY <1>14, <3>1, <3>2
  <2> QED
    BY <2>1, <2>2
<1>16. Meets(T, F)
  <2> SUFFICES ASSUME NEW t \in 1..(Len(T) - 1)
               PROVE  \E i \in 1..(Len(F) - 1) : F[i] = <<Last(T[t])>> /\ F[i + 1] = <<Head(T[t + 1])>>
    BY DEF Meets
  <2>1. CASE t < m
    <3>1. t \in 1..(m - 1) /\ t + 1 \in 1..m
      BY <1>11, <2>1
    <3>2. PICK i \in 1..(q - 1) : /\ fields[i] = <<Last(tokens[t])>>
                                  /\ fields[i + 1] = <<Head(tokens[t + 1])>>
      BY <1>11, <3>1 DEF SplitSoFar, Meets
    <3>3. i \in 1..q /\ i + 1 \in 1..q /\ i \in 1..(Len(F) - 1)
      BY <1>10, <1>11
    <3> QED
      BY <1>10, <1>11, <1>12, <1>13, <3>1, <3>2, <3>3
  <2>2. CASE ~(t < m)
    <3>1. PICK j \in 1..(k - 1) : t = m + j - 1
      <4>1. t - m + 1 \in 1..(k - 1) /\ t = m + (t - m + 1) - 1
        BY <1>8, <1>11, <2>2
      <4> QED
        BY <4>1
    <3>2. j \in 1..k /\ j + 1 \in 2..k /\ j + 1 \in 1..k /\ t + 1 = m + (j + 1) - 1
      BY <1>11, <3>1
    <3>3. q + j \in 1..(Len(F) - 1) /\ (q + j) + 1 = q + (j + 1)
      BY <1>10, <1>11
    <3>4. F[q + j] = <<line[j]>> /\ F[q + (j + 1)] = <<line[j + 1]>>
      BY <1>10, <1>11, <3>2
    <3>5. Last(T[t]) = line[j] /\ Head(T[t + 1]) = line[j + 1]
      BY <1>14, <1>15, <3>1, <3>2
    <3> QED
      BY <3>3, <3>4, <3>5
  <2> QED
    BY <2>1, <2>2
<1>17. BeginsInText(text, n + 1, T)
  <2> SUFFICES ASSUME NEW t \in 1..Len(T)
               PROVE  \E l \in 1..(n + 1) : \E j \in 1..Len(text[l]) :
                        /\ Head(T[t]) = text[l][j]
                        /\ 1 < j /\ j < Len(text[l]) => t < Len(T) /\ T[t] = <<text[l][j]>>
    BY DEF BeginsInText
  <2>1. CASE t <= m
    <3>1. t \in 1..m
      BY <1>11, <2>1
    <3>6. PICK l \in 1..n : \E j \in 1..Len(text[l]) :
            /\ Head(tokens[t]) = text[l][j]
            /\ 1 < j /\ j < Len(text[l]) => t < m /\ tokens[t] = <<text[l][j]>>
      BY <1>11, <3>1 DEF SplitSoFar, BeginsInText
    <3>2. PICK j \in 1..Len(text[l]) :
            /\ Head(tokens[t]) = text[l][j]
            /\ 1 < j /\ j < Len(text[l]) => t < m /\ tokens[t] = <<text[l][j]>>
      BY <3>6
    <3>3. t < m => t \in 1..(m - 1) /\ t < Len(T)
      BY <1>8, <1>11
    <3>4. l \in 1..(n + 1)
      BY <1>1
    <3>5. t < m => T[t] = tokens[t]
      BY <1>8, <1>11, <3>3
    <3> QED
      BY <1>13, <3>1, <3>2, <3>3, <3>4, <3>5
  <2>2. CASE ~(t <= m)
    <3>1. PICK j \in 2..k : t = m + j - 1
      <4>1. t - m + 1 \in 2..k /\ t = m + (t - m + 1) - 1
        BY <1>8, <1>11, <2>2
      <4> QED
        BY <4>1
    <3>2. j \in 1..Len(text[n + 1]) /\ n + 1 \in 1..(n + 1) /\ (j < k => t < Len(T))
      BY <1>1, <1>2, <1>8, <1>11, <3>1
    <3> QED
      BY <1>2, <1>11, <1>14, <3>1, <3>2
  <2> QED
    BY <1>11, <2>1, <2>2
<1>18. IsAToken(text, n + 1, T)
  <2> SUFFICES ASSUME NEW l \in 1..(n + 1), NEW j \in 2..(Len(text[l]) - 1)
               PROVE  \E t \in 1..(Len(T) - 1) : T[t] = <<text[l][j]>>
    BY DEF IsAToken
  <2>1. CASE l \in 1..n
    <3>1. PICK t \in 1..(m - 1) : tokens[t] = <<text[l][j]>>
      BY <1>11, <2>1 DEF SplitSoFar, IsAToken
    <3>2. t \in 1..(Len(T) - 1)
      BY <1>8, <1>11
    <3> QED
      BY <1>8, <1>11, <3>1, <3>2
  <2>2. CASE l = n + 1
    <3>1. j \in 2..k /\ m + j - 1 \in 1..(Len(T) - 1)
      BY <1>2, <1>8, <1>11, <2>2
    <3> QED
      BY <1>2, <1>14, <2>2, <3>1
  <2> QED
    BY <1>1, <2>1, <2>2
<1>19. T # << >>
  BY <1>8, <1>11
<1>20. SplitSoFar(W, text, n + 1, T, F)
  BY <1>8, <1>10, <1>16, <1>17, <1>18, <1>19 DEF SplitSoFar
<1> QED
  BY <1>2, <1>5, <1>6, <1>7, <1>20

(* The recursive function in Split exists: Split takes one line after the other. *)
LEMMA SplitSteps ==
  ASSUME NEW W, NEW text \in Seq(Tokens(W)), text # << >>
  PROVE  \E c : /\ Split(text) = c[Len(text)]
               /\ c[1] = Words(text[1])
               /\ \A n \in 1..(Len(text) - 1) : c[n + 1] = Joined(c[n], text[n + 1])
<1> DEFINE N == Len(text)
           X == Tokens(Tokens(W))
           F == [p \in (1..N) \X X |-> Joined(p[2], text[p[1]])]
           R(f) == [n \in 1..N |-> IF n = 1 THEN Words(text[n]) ELSE Joined(f[n-1], text[n])]
           c == CHOOSE f : f = R(f)
<1>1. N \in Nat /\ N >= 1 /\ 1 \in 1..N /\ N \in 1..N
  OBVIOUS
<1>2. \A n \in 1..N : text[n] \in Seq(W) /\ text[n] # << >>
  BY DEF Tokens
<1>3. \A n \in 1..N : Words(text[n]) \in X
  <2>1. ASSUME NEW line \in Seq(W), line # << >> PROVE Words(line) \in X
    <3>1. Len(line) # 0
      BY <2>1
    <3>2. Words(line) \in Seq(Tokens(W)) /\ Len(Words(line)) # 0
      BY <3>1, WordsFacts
    <3>3. Words(line) # << >>
      BY <3>2
    <3> QED
      BY <3>2, <3>3 DEF Tokens
  <2> QED
    BY <1>2, <2>1
<1>4. \A n \in 1..N, x \in X : Joined(x, text[n]) \in X
  <2>1. ASSUME NEW x \in X, NEW line \in Seq(W), line # << >> PROVE Joined(x, line) \in X
    <3>1. x \in Seq(Tokens(W)) /\ x # << >>
      BY DEF Tokens
    <3>2. Len(x) \in Nat /\ Len(x) >= 1 /\ Len(line) \in Nat /\ Len(line) >= 1
      BY <2>1, <3>1
    <3>3. PICK d : d = Joined(x, line)
      OBVIOUS
    <3>4. d \in Seq(Tokens(W)) /\ Len(d) = Len(x) + Len(line) - 1
      BY <2>1, <3>1, <3>3, JoinedFacts
    <3>5. d # << >>
      BY <3>2, <3>4
    <3> QED
      BY <3>3, <3>4, <3>5 DEF Tokens
  <2> QED
    BY <1>2, <2>1
<1>5. F \in [(1..N) \X X -> X]
  BY <1>4
<1>6. \A i \in 1..N, x \in X : F[<<i, x>>] = Joined(x, text[i])
  OBVIOUS
<1>7. PICK g \in [1..N -> X] : Follows(g, 1, N, Words(text[1]), F)
  <2>1. Words(text[1]) \in X /\ 1 \in Nat /\ 1 <= N
    BY <1>1, <1>3
  <2> HIDE DEF F, X, N
  <2> QED
    BY <1>1, <1>5, <2>1, Recursion
<1>8. g = R(g)
  <2>1. ASSUME NEW n \in 1..N
        PROVE  g[n] = IF n = 1 THEN Words(text[n]) ELSE Joined(g[n-1], text[n])
    <3>1. CASE n = 1
      BY <1>7, <3>1 DEF Follows
    <3>2. CASE n # 1
      <4>1. n - 1 \in 1..N
        BY <1>1, <3>2
      <4>2. g[n-1] \in X /\ g[n] = F[<<n, g[n-1]>>]
        <5> HIDE DEF F, X
        <5> QED
          BY <1>7, <3>2, <4>1 DEF Follows
      <4> HIDE DEF F, X
      <4> QED
        BY <1>6, <3>2, <4>2
    <3> QED
      BY <3>1, <3>2
  <2> HIDE DEF X
  <2> QED
    BY <1>7, <2>1
<1>9. c = R(c)
  <2> HIDE DEF R
  <2> QED
    BY <1>8
<1>10. Split(text) = c[N]
  BY DEF Split
<1> HIDE DEF c
<1>11. \A n \in 1..N : c[n] = IF n = 1 THEN Words(text[n]) ELSE Joined(c[n-1], text[n])
  <2>1. \A n \in 1..N : R(c)[n] = IF n = 1 THEN Words(text[n]) ELSE Joined(c[n-1], text[n])
    OBVIOUS
  <2> HIDE DEF R
  <2> QED
    BY <1>9, <2>1
<1>12. c[1] = Words(text[1])
  BY <1>1, <1>11
<1>13. ASSUME NEW n \in 1..(N - 1) PROVE c[n + 1] = Joined(c[n], text[n + 1])
  <2>1. n + 1 \in 1..N /\ n + 1 # 1 /\ (n + 1) - 1 = n
    BY <1>1
  <2>2. c[n + 1] = Joined(c[(n + 1) - 1], text[n + 1])
    BY <1>11, <2>1
  <2> QED
    BY <2>1, <2>2
<1> QED
  BY <1>10, <1>12, <1>13

(* What Split and Fields make of a text, related: proved by induction on its lines. *)
LEMMA SplitFacts ==
  ASSUME NEW W, NEW text \in Seq(Tokens(W)), text # << >>
  PROVE  SplitSoFar(W, text, Len(text), Split(text), Fields(text))
<1> DEFINE N == Len(text)
           seqs == [i \in DOMAIN text |-> Words(text[i])]
<1>1. N \in Nat /\ N >= 1 /\ 1 \in 1..N /\ N \in 1..N
  OBVIOUS
<1>10. PICK c : /\ Split(text) = c[N]
                /\ c[1] = Words(text[1])
                /\ \A n \in 1..(N - 1) : c[n + 1] = Joined(c[n], text[n + 1])
  BY SplitSteps
<1>12. seqs \in Seq(Seq(Tokens(W))) /\ Len(seqs) = N /\ \A i \in 1..N : seqs[i] = Words(text[i])
  <2>1. \A i \in 1..N : Words(text[i]) \in Seq(Tokens(W))
    <3>1. \A i \in 1..N : text[i] \in Seq(W)
      BY DEF Tokens
    <3> QED
      BY <3>1, WordsFacts
  <2>2. DOMAIN text = 1..N
    OBVIOUS
  <2> PICK S : S = Seq(Tokens(W))
    OBVIOUS
  <2>3. seqs = [i \in 1..N |-> Words(text[i])]
    BY <2>2
  <2> HIDE DEF seqs
  <2>4. seqs \in Seq(S) /\ Len(seqs) = N
    BY <1>1, <2>1, <2>3
  <2> QED
    BY <2>3, <2>4
<1>13. Fields(text) = FlattenSeq(seqs)
  BY DEF Fields
<1> HIDE DEF seqs
<1>14. PICK f : Flats(seqs, N, f) /\ FlattenSeq(seqs) = f[N]
  <2>1. seqs # << >>
    BY <1>1, <1>12
  <2> QED
    BY <1>12, <2>1, Flattens
<1> DEFINE T == {n \in Nat : n <= N => SplitSoFar(W, text, n, c[n], f[n])}
<1>15. 1 \in T
  <2>1. c[1] = Words(text[1]) /\ f[1] = Words(text[1])
    BY <1>1, <1>10, <1>12, <1>14 DEF Flats
  <2>2. SplitSoFar(W, text, 1, Words(text[1]), Words(text[1]))
    BY FirstLine
  <2> QED
    BY <2>1, <2>2
<1>16. ASSUME NEW n \in Nat, n >= 1, n \in T PROVE n + 1 \in T
  <2> SUFFICES ASSUME n + 1 <= N PROVE SplitSoFar(W, text, n + 1, c[n + 1], f[n + 1])
    OBVIOUS
  <2>1. n + 1 \in 2..N /\ n + 1 \in 1..N /\ n + 1 # 1 /\ (n + 1) - 1 = n /\ n \in 1..(N - 1)
    BY <1>1, <1>16
  <2>2. c[n + 1] = Joined(c[n], text[n + 1])
    BY <1>10, <2>1
  <2>3. f[n + 1] = f[n] \o Words(text[n + 1])
    <3>1. f[n + 1] = f[n] \o seqs[n + 1]
      BY <1>14, <2>1 DEF Flats
    <3> QED
      BY <1>12, <2>1, <3>1
  <2>4. SplitSoFar(W, text, n, c[n], f[n])
    BY <1>1, <1>16, <2>1
  <2> HIDE DEF T
  <2>5. PICK a, b : a = c[n] /\ b = f[n]
    OBVIOUS
  <2>6. SplitSoFar(W, text, n + 1, Joined(a, text[n + 1]), b \o Words(text[n + 1]))
    BY <2>1, <2>4, <2>5, NextLine
  <2> QED
    BY <2>2, <2>3, <2>5, <2>6
<1> HIDE DEF T
<1>17. N \in T
  BY <1>1, <1>15, <1>16, Induction
<1> QED
  BY <1>1, <1>10, <1>13, <1>14, <1>17 DEF T

----------------------------------------------------------------------------
(* Servers *)

LEMMA TrimFacts ==
  ASSUME NEW W, NEW token \in Tokens(W)
  PROVE  TrimSuffix(token) \in Tokens(W) /\ Head(TrimSuffix(token)) = Head(token)
<1>1. token \in Seq(W) /\ token # << >>
  BY DEF Tokens
<1>2. CASE Len(token) > 1
  <2>1. Front(token) \in Seq(W) /\ Len(Front(token)) = Len(token) - 1 /\ Front(token)[1] = token[1]
    BY <1>1, <1>2, FrontFacts
  <2>2. Front(token) # << >> /\ Head(Front(token)) = Head(token)
    BY <1>1, <1>2, <2>1
  <2> PICK f : f = Front(token)
    OBVIOUS
  <2>3. f \in Tokens(W) /\ Head(f) = Head(token)
    BY <2>1, <2>2 DEF Tokens
  <2>4. TrimSuffix(token) = f \/ TrimSuffix(token) = token
    BY Zenon DEF TrimSuffix
  <2> QED
    BY <2>3, <2>4
<1>3. CASE ~(Len(token) > 1)
  <2>1. TrimSuffix(token) = token
    BY <1>3, Zenon DEF TrimSuffix
  <2> QED
    BY <2>1
<1> QED
  BY <1>2, <1>3

(* The recursive function in GetDns exists. *)
LEMMA GetDnsSteps ==
  ASSUME NEW W, NEW text, Split(text) \in Seq(Tokens(W)), Split(text) # << >>, ~OutOfRange(text)
  PROVE  \E c : /\ GetDns(text) = c[Len(Split(text))]
                /\ c[0] = << >>
                /\ \A n \in 1..Len(Split(text)) :
                     c[n] = IF Split(text)[n] = Nameserver
                            THEN Append(c[n-1], TrimSuffix(Split(text)[n+1])) ELSE c[n-1]
<1> DEFINE words == Split(text)
           N == Len(words)
           X == Seq(Tokens(W))
           After(x, n) == IF words[n] = Nameserver THEN Append(x, TrimSuffix(words[n+1])) ELSE x
           F == [p \in (0..N) \X X |-> After(p[2], p[1])]
           R(f) == [n \in 0..N |-> IF n = 0 THEN << >> ELSE After(f[n-1], n)]
           c == CHOOSE f : f = R(f)
<1>1. N \in Nat /\ N >= 1 /\ N \in 0..N
  OBVIOUS
<1>2. ASSUME NEW n \in 0..N, words[n] = Nameserver PROVE TrimSuffix(words[n+1]) \in Tokens(W)
  <2>1. n # N
    BY <1>1, <1>2 DEF OutOfRange, Last
  <2>2. n + 1 \in 1..N
    BY <1>1, <2>1
  <2>3. words[n + 1] \in Tokens(W)
    BY <2>2
  <2> QED
    BY <2>3, TrimFacts
<1>3. ASSUME NEW n \in 0..N, NEW x \in X PROVE After(x, n) \in X
  <2>1. \A y \in Tokens(W) : Append(x, y) \in X
    OBVIOUS
  <2> QED
    BY <1>2, <2>1
<1> HIDE DEF After
<1>5. F \in [(0..N) \X X -> X]
  BY <1>3
<1>6. \A i \in 0..N, x \in X : F[<<i, x>>] = After(x, i)
  OBVIOUS
<1>7. PICK g \in [0..N -> X] : Follows(g, 0, N, << >>, F)
  <2>1. << >> \in X /\ 0 \in Nat /\ 0 <= N
    BY <1>1
  <2> HIDE DEF F, X, N
  <2> QED
    BY <1>1, <1>5, <2>1, Recursion
<1>8. g = R(g)
  <2>1. ASSUME NEW n \in 0..N
        PROVE  g[n] = IF n = 0 THEN << >> ELSE After(g[n-1], n)
    <3>1. CASE n = 0
      BY <1>7, <3>1 DEF Follows
    <3>2. CASE n # 0
      <4>1. n - 1 \in 0..N
        BY <1>1, <3>2
      <4>2. g[n-1] \in X /\ g[n] = F[<<n, g[n-1]>>]
        <5> HIDE DEF F, X
        <5> QED
          BY <1>7, <3>2, <4>1 DEF Follows
      <4> HIDE DEF F, X
      <4> QED
        BY <1>6, <3>2, <4>2
    <3> QED
      BY <3>1, <3>2
  <2> HIDE DEF X
  <2> QED
    BY <1>7, <2>1
<1>9. c = R(c)
  <2> HIDE DEF R
  <2> QED
    BY <1>8
<1>10. GetDns(text) = c[N]
  BY DEF GetDns, After
<1> HIDE DEF c
<1>11. \A n \in 0..N : c[n] = IF n = 0 THEN << >> ELSE After(c[n-1], n)
  <2>1. \A n \in 0..N : R(c)[n] = IF n = 0 THEN << >> ELSE After(c[n-1], n)
    OBVIOUS
  <2> HIDE DEF R
  <2> QED
    BY <1>9, <2>1
<1>12. c[0] = << >>
  BY <1>1, <1>11
<1>13. ASSUME NEW n \in 1..N PROVE c[n] = After(c[n-1], n)
  <2>1. n \in 0..N /\ n # 0
    BY <1>1
  <2> QED
    BY <1>11, <2>1
<1> QED
  BY <1>10, <1>12, <1>13 DEF After

(* Every server is the token after a "nameserver". *)
AreServers(W, words, dns) ==
  /\ dns \in Seq(Tokens(W))
  /\ \A k \in 1..Len(dns) : \E t \in 1..(Len(words) - 1) :
       words[t] = Nameserver /\ dns[k] = TrimSuffix(words[t + 1])

LEMMA GetDnsFacts ==
  ASSUME NEW W, NEW text, Split(text) \in Seq(Tokens(W)), Split(text) # << >>, ~OutOfRange(text)
  PROVE  AreServers(W, Split(text), GetDns(text))
<1>w. PICK words : words = Split(text)
  OBVIOUS
<1> DEFINE N == Len(words)
<1>1. words \in Seq(Tokens(W)) /\ N \in Nat /\ N >= 1 /\ words[N] # Nameserver
  BY <1>w DEF OutOfRange, Last
<1>2. PICK c : /\ GetDns(text) = c[N]
               /\ c[0] = << >>
               /\ \A n \in 1..N : c[n] = IF words[n] = Nameserver
                                         THEN Append(c[n-1], TrimSuffix(words[n+1])) ELSE c[n-1]
  BY <1>w, GetDnsSteps
<1> DEFINE T == {n \in Nat : n <= N => AreServers(W, words, c[n])}
<1>3. 0 \in T
  <2>1. AreServers(W, words, << >>)
    BY DEF AreServers
  <2> QED
    BY <1>2, <2>1
<1>4. ASSUME NEW n \in Nat, n >= 0, n \in T PROVE n + 1 \in T
  <2> SUFFICES ASSUME n + 1 <= N PROVE AreServers(W, words, c[n + 1])
    OBVIOUS
  <2>1. n + 1 \in 1..N /\ (n + 1) - 1 = n
    BY <1>1
  <2>2. AreServers(W, words, c[n])
    BY <1>1, <1>4, <2>1
  <2>3. CASE words[n + 1] # Nameserver
    <3>1. c[n + 1] = c[n]
      BY <1>2, <2>1, <2>3
    <3> QED
      BY <2>2, <3>1
  <2>4. CASE words[n + 1] = Nameserver
    <3>1. n + 1 \in 1..(N - 1) /\ (n + 1) + 1 \in 1..N
      BY <1>1, <2>1, <2>4
    <3>2. PICK x : x = TrimSuffix(words[(n + 1) + 1])
      OBVIOUS
    <3>3. x \in Tokens(W)
      <4>1. words[(n + 1) + 1] \in Tokens(W)
        BY <1>1, <3>1
      <4> QED
        BY <3>2, <4>1, TrimFacts
    <3>4. c[n + 1] = Append(c[n], x)
      BY <1>2, <2>1, <2>4, <3>2
    <3>5. PICK a, b : a = c[n] /\ b = c[n + 1]
      OBVIOUS
    <3>6. a \in Seq(Tokens(W)) /\ Len(a) \in Nat /\ b = Append(a, x)
      BY <2>2, <3>4, <3>5 DEF AreServers
    <3>7. b \in Seq(Tokens(W)) /\ Len(b) = Len(a) + 1
      BY <3>3, <3>6
    <3>8. ASSUME NEW k \in 1..Len(a) PROVE b[k] = a[k]
      BY <3>3, <3>6
    <3>9. b[Len(a) + 1] = x
      BY <3>3, <3>6
    <3>10. ASSUME NEW k \in 1..Len(b)
           PROVE  \E t \in 1..(N - 1) : words[t] = Nameserver /\ b[k] = TrimSuffix(words[t + 1])
      <4>1. CASE k = Len(a) + 1
        BY <2>4, <3>1, <3>2, <3>9, <4>1
      <4>2. CASE k # Len(a) + 1
        <5>1. k \in 1..Len(a)
          BY <3>6, <3>7, <4>2
        <5>2. PICK t \in 1..(N - 1) : words[t] = Nameserver /\ a[k] = TrimSuffix(words[t + 1])
          BY <2>2, <3>5, <5>1 DEF AreServers
        <5> QED
          BY <3>8, <5>1, <5>2
      <4> QED
        BY <4>1, <4>2
    <3> QED
      BY <3>5, <3>7, <3>10 DEF AreServers
  <2> QED
    BY <2>3, <2>4
<1> HIDE DEF T
<1>5. N \in T
  <2>1. 0 \in Nat /\ N >= 0 /\ N \in Nat
    BY <1>1
  <2>2. \A n \in Nat : n >= 0 => n \in T
    BY <1>3, <1>4, Induction
  <2> HIDE DEF N
  <2> QED
    BY <2>1, <2>2
<1> QED
  BY <1>1, <1>2, <1>5, <1>w DEF T

LEMMA OneServer ==
  ASSUME NEW W, NEW text \in Seq(Tokens(W)), Len(text) = 2, Len(text[1]) = 2,
         text[1][1] = "nameserver", text[2] = <<EmptyWord>>
  PROVE  GetDns(text) = <<<<text[1][2]>>>>
<1>1. text # << >> /\ 1 \in 1..(Len(text) - 1) /\ 1 + 1 = Len(text) /\ Len(text) = 2
  OBVIOUS
<1>2. PICK line, x : line = text[1] /\ x = line[2]
  OBVIOUS
<1>3. line \in Seq(W) /\ Len(line) = 2 /\ line[1] = "nameserver" /\ x \in W
  <2>1. line \in Seq(W) /\ Len(line) = 2 /\ line[1] = "nameserver"
    BY <1>2 DEF Tokens
  <2>2. 2 \in 1..Len(line)
    BY <2>1
  <2> QED
    BY <1>2, <2>1, <2>2
<1>4. <<EmptyWord>> \in Seq(W) /\ <<EmptyWord>> # << >>
  <2>1. 2 \in 1..Len(text)
    OBVIOUS
  <2>2. text[2] \in Tokens(W)
    BY <2>1
  <2> QED
    BY <2>2 DEF Tokens
<1>5. PICK V : V = Words(line)
  OBVIOUS
<1>6. V \in Seq(Tokens(W)) /\ Len(V) = 2 /\ V[1] = Nameserver /\ V[2] = <<x>>
  <2>1. V \in Seq(Tokens(W)) /\ Len(V) = Len(line) /\ \A j \in 1..Len(line) : V[j] = <<line[j]>>
    BY <1>3, <1>5, WordsFacts
  <2>2. 1 \in 1..Len(line) /\ 2 \in 1..Len(line)
    BY <1>3
  <2> QED
    BY <1>2, <1>3, <2>1, <2>2 DEF Nameserver
<1>7. Split(text) = Joined(V, <<EmptyWord>>)
  <2>1. PICK c : /\ Split(text) = c[Len(text)]
                 /\ c[1] = Words(text[1])
                 /\ \A n \in 1..(Len(text) - 1) : c[n + 1] = Joined(c[n], text[n + 1])
    BY <1>1, SplitSteps
  <2>2. Split(text) = c[1 + 1] /\ c[1 + 1] = Joined(c[1], text[1 + 1])
    BY <1>1, <2>1
  <2>3. text[1 + 1] = <<EmptyWord>> /\ c[1] = V
    BY <1>2, <1>5, <2>1
  <2> QED
    BY <2>2, <2>3
<1>8. PICK words, e : words = Split(text) /\ e = <<EmptyWord>>
  OBVIOUS
<1>9. words \in Seq(Tokens(W)) /\ Len(words) = 2 /\ words[1] = Nameserver /\ words[2] = Append(<<x>>, EmptyWord)
  <2>1. e \in Seq(W) /\ e # << >> /\ Len(e) = 1 /\ e[1] = EmptyWord /\ words = Joined(V, e)
    BY <1>4, <1>7, <1>8
  <2>2. V \in Seq(Tokens(W)) /\ V # << >>
    BY <1>6
  <2>3. /\ words \in Seq(Tokens(W)) /\ Len(words) = Len(V) + Len(e) - 1
        /\ \A t \in 1..(Len(V) - 1) : words[t] = V[t]
        /\ words[Len(V)] = Append(V[Len(V)], e[1])
    BY <2>1, <2>2, JoinedFacts
  <2>4. Len(words) = 2 /\ words[1] = V[1] /\ words[2] = Append(V[2], EmptyWord)
    BY <1>6, <2>1, <2>3
  <2> QED
    BY <1>6, <2>3, <2>4
<1>10. Append(<<x>>, EmptyWord) # Nameserver
  BY DEF Nameserver
<1>11. ~OutOfRange(text)
  BY <1>8, <1>9, <1>10 DEF OutOfRange, Last
<1>12. PICK c : /\ GetDns(text) = c[Len(words)]
                /\ c[0] = << >>
                /\ \A n \in 1..Len(words) : c[n] = IF words[n] = Nameserver
                                                   THEN Append(c[n-1], TrimSuffix(words[n+1])) ELSE c[n-1]
  <2>1. Split(text) \in Seq(Tokens(W)) /\ Split(text) # << >>
    BY <1>8, <1>9
  <2> QED
    BY <1>8, <1>11, <2>1, GetDnsSteps
<1>13. c[1] = Append(<< >>, TrimSuffix(Append(<<x>>, EmptyWord)))
  <2>1. 1 \in 1..Len(words) /\ 1 - 1 = 0 /\ 1 + 1 = 2
    BY <1>9
  <2>2. c[1] = Append(c[1-1], TrimSuffix(words[1+1]))
    BY <1>9, <1>12, <2>1
  <2> QED
    BY <1>9, <1>12, <2>1, <2>2
<1>14. c[2] = c[1]
  <2>1. 2 \in 1..Len(words) /\ 2 - 1 = 1
    BY <1>9
  <2>2. c[2] = c[2-1]
    BY <1>9, <1>10, <1>12, <2>1
  <2> QED
    BY <2>1, <2>2
<1>15. TrimSuffix(Append(<<x>>, EmptyWord)) = <<x>>
  <2>1. PICK token : token = Append(<<x>>, EmptyWord)
    OBVIOUS
  <2>2. Len(token) > 1 /\ Last(token) = EmptyWord
    BY <2>1 DEF Last
  <2>3. TrimSuffix(token) = Front(token)
    BY <2>2, Zenon DEF TrimSuffix, EmptyWord
  <2>4. Front(token) = <<x>>
    <3>1. token \in Seq({x, EmptyWord}) /\ token # << >> /\ Len(token) = 2 /\ token[1] = x
      BY <2>1
    <3>2. PICK f : f = Front(token)
      OBVIOUS
    <3>3. f \in Seq({x, EmptyWord}) /\ Len(f) = 1 /\ f[1] = x
      <4>1. /\ f \in Seq({x, EmptyWord}) /\ Len(f) = Len(token) - 1
            /\ \A i \in 1..(Len(token) - 1) : f[i] = token[i]
        BY <3>1, <3>2, FrontFacts
      <4> QED
        BY <3>1, <4>1
    <3>4. f = <<x>>
      BY <3>3
    <3> QED
      BY <3>2, <3>4
  <2> QED
    BY <2>1, <2>3, <2>4
<1>16. Append(<< >>, <<x>>) = <<<<x>>>>
  OBVIOUS
<1> QED
  BY <1>2, <1>9, <1>12, <1>13, <1>14, <1>15, <1>16

----------------------------------------------------------------------------
(* Arguments *)

Found(text, args) == {i \in DOMAIN Split(text) : Head(Split(text)[i]) \in DOMAIN args}

LEMMA LastIsFound ==
  ASSUME NEW N \in Nat, NEW T, T \subseteq 1..N, T # {}
  PROVE  Max(T) \in T
<1> DEFINE U == {n \in Nat : \A i \in T : i <= n}
<1>1. N \in U
  OBVIOUS
<1>2. PICK n \in U : \A m \in U : n <= m
  <2>1. U \subseteq Nat /\ U # {}
    BY <1>1
  <2> HIDE DEF U
  <2> QED
    BY <2>1, LeastNumber
<1>3. n \in T
  <2> SUFFICES ASSUME n \notin T PROVE FALSE
    OBVIOUS
  <2>1. \A i \in T : i \in Nat /\ i >= 1 /\ i <= n /\ i # n
    BY <1>2
  <2>2. ASSUME NEW i \in T PROVE i <= n - 1
    BY <1>2, <2>1
  <2>3. n - 1 \in U
    <3>1. PICK i \in T : i \in Nat /\ i >= 1 /\ i <= n
      BY <2>1
    <3>2. n \in Nat
      BY <1>2
    <3>3. n - 1 \in Nat
      BY <3>1, <3>2
    <3> QED
      BY <2>2, <3>3
  <2>4. n <= n - 1
    BY <1>2, <2>3
  <2> QED
    BY <1>2, <2>4
<1>4. \A i \in T : n >= i
  BY <1>2
<1> QED
  BY <1>3, <1>4 DEF Max

LEMMA PlacesFacts ==
  ASSUME NEW text, NEW args
  PROVE  \A l \in DOMAIN text : \A i \in DOMAIN text[l] :
           text[l][i] \in DOMAIN args <=> <<l, i>> \in Places(text, args)
<1> SUFFICES ASSUME NEW l \in DOMAIN text, NEW i \in DOMAIN text[l]
             PROVE  text[l][i] \in DOMAIN args <=> <<l, i>> \in Places(text, args)
  OBVIOUS
<1> DEFINE D == DOMAIN args
           J(k) == {j \in DOMAIN text[k] : text[k][j] \in D}
           OfLine(k) == {<<k, j>> : j \in J(k)}
<1>1. Places(text, args) = UNION {OfLine(k) : k \in DOMAIN text}
  BY DEF Places
<1>2. \A k : \A j \in J(k) : <<k, j>> \in OfLine(k)
  OBVIOUS
<1>3. ASSUME text[l][i] \in D PROVE <<l, i>> \in OfLine(l)
  BY <1>2, <1>3
<1>4. ASSUME NEW k, <<l, i>> \in OfLine(k) PROVE text[l][i] \in D
  BY <1>4
<1> HIDE DEF OfLine, D
<1> QED
  BY <1>1, <1>3, <1>4 DEF D

(* What the words of a text say of its tokens that are arguments: no argument, none; one, and *)
(* not at either end of its line, that one.                                                   *)
LEMMA FoundFacts ==
  ASSUME NEW W, NEW text \in Seq(Tokens(W)), text # << >>, NEW args
  PROVE  /\ Split(text) \in Seq(Tokens(W))
         /\ Found(text, args) # {} => Max(Found(text, args)) \in Found(text, args)
         /\ Places(text, args) = {} => Found(text, args) = {}
         /\ \A l \in DOMAIN text : \A i \in 2..(Len(text[l]) - 1) :
              Places(text, args) = {<<l, i>>} =>
                /\ Found(text, args) # {}
                /\ \A t \in Found(text, args) : Split(text)[t] = <<text[l][i]>>
<1> DEFINE N == Len(text)
<1>1. PICK tokens, T, D, P : /\ tokens = Split(text) /\ T = Found(text, args)
                             /\ D = DOMAIN args /\ P = Places(text, args)
  OBVIOUS
<1>2. /\ tokens \in Seq(Tokens(W)) /\ BeginsInText(text, N, tokens) /\ IsAToken(text, N, tokens)
  BY <1>1, SplitFacts DEF SplitSoFar
<1>3. Len(tokens) \in Nat /\ T = {t \in 1..Len(tokens) : Head(tokens[t]) \in D}
  BY <1>1, <1>2 DEF Found
<1>4. T # {} => Max(T) \in T
  BY <1>3, LastIsFound
<1>5. /\ DOMAIN text = 1..N
      /\ \A l \in 1..N : DOMAIN text[l] = 1..Len(text[l]) /\ Len(text[l]) \in Nat
  BY DEF Tokens
<1>6. \A l \in 1..N : \A i \in 1..Len(text[l]) : text[l][i] \in D <=> <<l, i>> \in P
  BY <1>1, <1>5, PlacesFacts
<1>7. ASSUME NEW t \in T
      PROVE  \E l \in 1..N : \E j \in 1..Len(text[l]) :
               /\ <<l, j>> \in P
               /\ 1 < j /\ j < Len(text[l]) => tokens[t] = <<text[l][j]>>
  <2>1. t \in 1..Len(tokens) /\ Head(tokens[t]) \in D
    BY <1>3
  <2>2. PICK l \in 1..N : \E j \in 1..Len(text[l]) :
          /\ Head(tokens[t]) = text[l][j]
          /\ 1 < j /\ j < Len(text[l]) => t < Len(tokens) /\ tokens[t] = <<text[l][j]>>
    BY <1>2, <2>1 DEF BeginsInText
  <2>3. PICK j \in 1..Len(text[l]) :
          /\ Head(tokens[t]) = text[l][j]
          /\ 1 < j /\ j < Len(text[l]) => t < Len(tokens) /\ tokens[t] = <<text[l][j]>>
    BY <2>2
  <2>4. <<l, j>> \in P
    BY <1>6, <2>1, <2>3
  <2> QED
    BY <2>3, <2>4
<1>8. P = {} => T = {}
  BY <1>7
<1>9. ASSUME NEW l \in DOMAIN text, NEW i \in 2..(Len(text[l]) - 1), P = {<<l, i>>}
      PROVE  T # {} /\ \A t \in T : tokens[t] = <<text[l][i]>>
  <2>1. l \in 1..N /\ i \in 1..Len(text[l]) /\ 1 < i /\ i < Len(text[l])
    BY <1>5
  <2>2. text[l][i] \in D
    BY <1>6, <1>9, <2>1
  <2>3. PICK t \in 1..(Len(tokens) - 1) : tokens[t] = <<text[l][i]>>
    BY <1>2, <2>1 DEF IsAToken
  <2>4. t \in T
    <3>1. \A x : Head(<<x>>) = x
      OBVIOUS
    <3>2. t \in 1..Len(tokens)
      BY <1>3
    <3> QED
      BY <1>3, <2>2, <2>3, <3>1, <3>2
  <2>5. ASSUME NEW u \in T PROVE tokens[u] = <<text[l][i]>>
    <3>1. PICK k \in 1..N : \E j \in 1..Len(text[k]) :
            /\ <<k, j>> \in P
            /\ 1 < j /\ j < Len(text[k]) => tokens[u] = <<text[k][j]>>
      BY <1>7
    <3>2. PICK j \in 1..Len(text[k]) :
            /\ <<k, j>> \in P
            /\ 1 < j /\ j < Len(text[k]) => tokens[u] = <<text[k][j]>>
      BY <3>1
    <3>3. k = l /\ j = i
      BY <1>9, <3>2
    <3> QED
      BY <2>1, <3>2, <3>3
  <2> QED
    BY <2>4, <2>5
<1> QED
  BY <1>1, <1>2, <1>4, <1>8, <1>9

----------------------------------------------------------------------------
(* What the diagnosers read *)

(* The SMT backend has no STRING, and none with spaces. *)
Word == STRING

LEMMA TextsAreTexts ==
  /\ \A text \in ConfFiles \cup Commands : text \in Seq(Tokens(Word)) /\ text # << >>
  /\ \A text \in {NoText, ErrorText} : text \in Seq(Tokens(Word)) /\ Len(text) = 1
<1>1. \A text \in ConfFiles \cup Commands : text \in Seq(Tokens(Word)) /\ text # << >>
  BY TextAssumption, Zenon DEF Tokens, Word
<1>2. ASSUME NEW W, NEW X, NEW line \in Seq(X), line # << >>, ToSet(line) \subseteq W
      PROVE  <<line>> \in Seq(Tokens(W)) /\ Len(<<line>>) = 1
  <2>1. line \in Seq(ToSet(line))
    BY InSteps
  <2>2. line \in Seq(W)
    BY <1>2, <2>1
  <2> QED
    BY <1>2, <2>2 DEF Tokens
<1>3. \A text \in {NoText, ErrorText} : ToSet(text[1]) \subseteq Word
  BY ArgumentAssumption, Zenon DEF Word
<1>4. \A line : <<line>>[1] = line
  OBVIOUS
<1>5. \A text \in {NoText, ErrorText} : \E X : \E line \in Seq(X) : line # << >> /\ text = <<line>>
  <2>1. ASSUME NEW a PROVE <<a>> \in Seq({a}) /\ <<a>> # << >>
    OBVIOUS
  <2>2. ASSUME NEW a, NEW b, NEW c, NEW d, NEW e, NEW f, NEW g
        PROVE  \E X : <<a, b, c, d, e, f, g>> \in Seq(X) /\ <<a, b, c, d, e, f, g>> # << >>
    <3>1. <<a, b, c, d, e, f, g>> \in Seq({a, b, c, d, e, f, g}) /\ <<a, b, c, d, e, f, g>> # << >>
      OBVIOUS
    <3> QED
      BY <3>1, Zenon
  <2>3. \E X : \E line \in Seq(X) : line # << >> /\ NoText = <<line>>
    BY <2>1, Zenon DEF NoText
  <2>4. \E X : \E line \in Seq(X) : line # << >> /\ ErrorText = <<line>>
    BY <2>2, Zenon DEF ErrorText
  <2> QED
    BY <2>3, <2>4, Zenon
<1>6. ASSUME NEW text \in {NoText, ErrorText} PROVE text \in Seq(Tokens(Word)) /\ Len(text) = 1
  <2>1. PICK X : \E line \in Seq(X) : line # << >> /\ text = <<line>>
    BY <1>5
  <2>2. PICK line \in Seq(X) : line # << >> /\ text = <<line>>
    BY <2>1
  <2>3. ToSet(line) \subseteq Word
    BY <1>3, <1>4, <2>2, Zenon
  <2> QED
    BY <1>2, <2>2, <2>3
<1> QED
  BY <1>1, <1>6

(* A server is a word that stands after "nameserver". *)
LEMMA ServersStandAfter ==
  ASSUME NEW W, NEW text \in Seq(Tokens(W)), text # << >>, ~OutOfRange(text)
  PROVE  /\ GetDns(text) \in Seq(Tokens(W))
         /\ \A k \in DOMAIN GetDns(text) : \E i \in 1..(Len(Fields(text)) - 1) :
              /\ Fields(text)[i] = Nameserver
              /\ Head(Fields(text)[i + 1]) = Head(GetDns(text)[k])
         /\ (\A l \in 1..Len(text) : \A j \in 1..Len(text[l]) : text[l][j] # "nameserver")
              => GetDns(text) = << >>
<1>1. PICK tokens, fields, dns : tokens = Split(text) /\ fields = Fields(text) /\ dns = GetDns(text)
  OBVIOUS
<1>2. /\ tokens \in Seq(Tokens(W)) /\ tokens # << >>
      /\ Meets(tokens, fields) /\ BeginsInText(text, Len(text), tokens)
  BY <1>1, SplitFacts DEF SplitSoFar
<1>3. AreServers(W, tokens, dns)
  BY <1>1, <1>2, GetDnsFacts
<1>4. dns \in Seq(Tokens(W)) /\ DOMAIN dns = 1..Len(dns) /\ Len(tokens) \in Nat
  BY <1>2, <1>3 DEF AreServers
<1>5. \A x : Head(<<x>>) = x /\ Last(<<x>>) = x
  BY DEF Last
<1>6. ASSUME NEW k \in 1..Len(dns)
      PROVE  /\ \E i \in 1..(Len(fields) - 1) : /\ fields[i] = Nameserver
                                                /\ Head(fields[i + 1]) = Head(dns[k])
             /\ \E l \in 1..Len(text) : \E j \in 1..Len(text[l]) : text[l][j] = "nameserver"
  <2>1. PICK t \in 1..(Len(tokens) - 1) : tokens[t] = Nameserver /\ dns[k] = TrimSuffix(tokens[t + 1])
    BY <1>3 DEF AreServers
  <2>2. t \in 1..Len(tokens) /\ t + 1 \in 1..Len(tokens)
    BY <1>4
  <2>3. Head(dns[k]) = Head(tokens[t + 1])
    <3>1. tokens[t + 1] \in Tokens(W)
      BY <1>2, <2>2
    <3> QED
      BY <2>1, <3>1, TrimFacts
  <2>4. PICK i \in 1..(Len(fields) - 1) : /\ fields[i] = <<Last(tokens[t])>>
                                          /\ fields[i + 1] = <<Head(tokens[t + 1])>>
    BY <1>2 DEF Meets
  <2>5. fields[i] = Nameserver /\ Head(fields[i + 1]) = Head(dns[k])
    BY <1>5, <2>1, <2>3, <2>4 DEF Nameserver
  <2>6. \E l \in 1..Len(text) : \E j \in 1..Len(text[l]) : text[l][j] = "nameserver"
    <3>1. Head(tokens[t]) = "nameserver"
      BY <1>5, <2>1 DEF Nameserver
    <3>2. \E l \in 1..Len(text) : \E j \in 1..Len(text[l]) : Head(tokens[t]) = text[l][j]
      BY <1>2, <2>2 DEF BeginsInText
    <3> QED
      BY <3>1, <3>2
  <2> QED
    BY <2>5, <2>6
<1>7. (\A l \in 1..Len(text) : \A j \in 1..Len(text[l]) : text[l][j] # "nameserver") => dns = << >>
  <2> SUFFICES ASSUME \A l \in 1..Len(text) : \A j \in 1..Len(text[l]) : text[l][j] # "nameserver"
               PROVE  dns = << >>
    OBVIOUS
  <2>1. Len(dns) = 0
    <3>1. \A k \in 1..Len(dns) : FALSE
      BY <1>6
    <3> QED
      BY <1>4, <3>1
  <2> QED
    BY <1>4, <2>1
<1> QED
  BY <1>1, <1>4, <1>6, <1>7

(* The text of an error names no server and holds no argument. *)
LEMMA NothingInErrors ==
  ASSUME NEW text \in {NoText, ErrorText}
  PROVE  /\ \A l \in 1..Len(text) : \A j \in 1..Len(text[l]) : text[l][j] # "nameserver"
         /\ \A args \in {MaxPodsArgs, PluginArgs} : Places(text, args) = {}
<1>1. text \in Seq(Tokens(Word)) /\ Len(text) = 1
  BY TextsAreTexts
<1>2. text[1] \in Seq(Word) /\ text # << >>
  <2>1. ASSUME NEW X, NEW s \in Seq(X), Len(s) = 1 PROVE s[1] \in X /\ s # << >>
    BY <2>1
  <2>2. text[1] \in Tokens(Word) /\ text # << >>
    BY <1>1, <2>1, Zenon
  <2> QED
    BY <2>2 DEF Tokens
<1>3. \A x \in ToSet(text[1]) : x # "nameserver"
  <2>1. ASSUME NEW x \in ToSet(NoText[1]) PROVE x # "nameserver"
    <3>1. NoText[1] = <<EmptyWord>>
      <4>1. \A y : <<y>>[1] = y
        OBVIOUS
      <4> QED
        BY <4>1, Zenon DEF NoText, EmptyWord
    <3>2. x = EmptyWord
      BY <3>1 DEF ToSet
    <3>3. EmptyWord # "nameserver"
      BY Zenon DEF EmptyWord
    <3> QED
      BY <3>2, <3>3
  <2>2. ASSUME NEW x \in ToSet(ErrorText[1]) PROVE x # "nameserver"
    <3>1. ASSUME NEW a, NEW b, NEW c, NEW d, NEW e, NEW f, NEW g, NEW y \in ToSet(<<a, b, c, d, e, f, g>>)
          PROVE  y \in {a, b, c, d, e, f, g}
      BY DEF ToSet
    <3>2. x \in {"open", "/etc/resolv.conf:", "no", "such", "file", "or", "directory"}
      <4>1. \A y : <<y>>[1] = y
        OBVIOUS
      <4>2. ErrorText[1] = <<"open", "/etc/resolv.conf:", "no", "such", "file", "or", "directory">>
        BY <4>1, Zenon DEF ErrorText
      <4> QED
        BY <3>1, <4>2, Zenon
    <3> QED
      BY <3>2, Zenon
  <2> QED
    BY <2>1, <2>2
<1>4. \A args \in {MaxPodsArgs, PluginArgs} : \A x \in ToSet(text[1]) : x \notin DOMAIN args
  BY ArgumentAssumption, Zenon
<1>5. DOMAIN text = {1} /\ DOMAIN text[1] = 1..Len(text[1]) /\ \A l \in 1..Len(text) : l = 1
  BY <1>1, <1>2
<1>6. \A j \in DOMAIN text[1] : text[1][j] \in ToSet(text[1])
  BY Elements
<1>7. ASSUME NEW args \in {MaxPodsArgs, PluginArgs} PROVE Places(text, args) = {}
  <2>1. \A l \in DOMAIN text : {j \in DOMAIN text[l] : text[l][j] \in DOMAIN args} = {}
    BY <1>4, <1>5, <1>6
  <2> QED
    BY <2>1 DEF Places
<1> QED
  BY <1>3, <1>5, <1>6, <1>7

----------------------------------------------------------------------------
(* The report *)

(* A report is what Diagnose makes of what the collector has left, which nothing changes after. *)
ReportIsMade ==
  pc = "diagnosed" =>
    /\ kind \in Diagnosed
    /\ ~OutOfRange(HostConf) /\ ~OutOfRange(ContainerConf)
    /\ report = Diagnosis

DIInv ==
  /\ IInv
  /\ says \in Texts
  /\ report # NoReport => pc = "diagnosed"
  /\ ReportIsMade

LEMMA SameDiagnosis ==
  ASSUME UNCHANGED <<kind, data, failed, says>>
  PROVE  /\ HostConf' = HostConf /\ ContainerConf' = ContainerConf /\ KubeletCommand' = KubeletCommand
         /\ Diagnosis' = Diagnosis
<1>1. /\ HostConf' = HostConf /\ ContainerConf' = ContainerConf /\ KubeletCommand' = KubeletCommand
  BY DEF HostConf, ContainerConf, KubeletCommand, Left
<1>2. Outbound' = Outbound
  BY DEF Outbound
<1>3. MaxPods' = MaxPods
  BY <1>1 DEF MaxPods, LastOf
<1>4. NetworkPlugin' = NetworkPlugin
  BY <1>1 DEF NetworkPlugin, LastOf
<1>5. GetDns(HostConf)' = GetDns(HostConf) /\ GetDns(ContainerConf)' = GetDns(ContainerConf)
  BY <1>1
<1> QED
  BY <1>1, <1>2, <1>3, <1>4, <1>5 DEF Diagnosis

LEMMA ReportInductive ==
  ASSUME DIInv, [DNext]_dvars
  PROVE  says' \in Texts' /\ (report' # NoReport => pc' = "diagnosed") /\ ReportIsMade'
<1>1. kind' = kind /\ Texts' = Texts
  BY KindStays DEF Texts
<1>2. says \in Texts /\ (report # NoReport => pc = "diagnosed") /\ ReportIsMade
  BY DEF DIInv
<1>3. ASSUME UNCHANGED <<says, report>>, pc # "diagnosed", pc' # "diagnosed"
      PROVE  says' \in Texts' /\ (report' # NoReport => pc' = "diagnosed") /\ ReportIsMade'
  BY <1>1, <1>2, <1>3 DEF ReportIsMade
<1>4. CASE (Collect \/ Restart) /\ UNCHANGED <<says, report>>
  <2>1. pc # "diagnosed" /\ pc' # "diagnosed"
    BY <1>4 DEF Collect, Succeed, PassOver, FallBack, RecordError, ReturnError, CountReady, Panic,
                ReturnNil, Restart, At
  <2> QED
    BY <1>3, <1>4, <2>1
<1>5. CASE DiagnosePanics
  BY <1>3, <1>5 DEF DiagnosePanics
<1>6. ASSUME UNCHANGED <<kind, pc, data, failed, says, report>>
      PROVE  says' \in Texts' /\ (report' # NoReport => pc' = "diagnosed") /\ ReportIsMade'
  BY <1>1, <1>2, <1>6, SameDiagnosis DEF ReportIsMade, OutOfRange
<1>7. ASSUME NEW p \in Pods, PodStarts(p), UNCHANGED <<says, report>>
      PROVE  says' \in Texts' /\ (report' # NoReport => pc' = "diagnosed") /\ ReportIsMade'
  BY <1>6, <1>7 DEF PodStarts, collection
<1>8. CASE Diagnose
  <2>1. /\ kind \in Diagnosed /\ ~OutOfRange(HostConf) /\ ~OutOfRange(ContainerConf)
        /\ pc' = "diagnosed" /\ report' = Diagnosis /\ UNCHANGED <<kind, data, failed, says>>
    BY <1>8 DEF Diagnose, collection
  <2> QED
    BY <1>1, <1>2, <2>1, SameDiagnosis DEF ReportIsMade, OutOfRange
<1>9. CASE UNCHANGED dvars
  BY <1>6, <1>9 DEF dvars, vars, collection
<1> QED
  BY <1>4, <1>5, <1>7, <1>8, <1>9 DEF DNext, Next, Returned, RunGoesOn, dvars

LEMMA DIInductive == DSpec => []DIInv
<1>1. DInit => DIInv
  <2>1. DInit => says \in Texts /\ report = NoReport /\ pc # "diagnosed"
    BY DEF DInit, Init
  <2> QED
    BY <2>1, InitIInv DEF DIInv, ReportIsMade
<1>2. IInv /\ [DNext]_dvars => IInv'
  BY NextTypes, NextWhole DEF IInv
<1>3. DIInv /\ [DNext]_dvars => DIInv'
  <2> SUFFICES ASSUME DIInv, [DNext]_dvars PROVE DIInv'
    OBVIOUS
  <2>1. says' \in Texts' /\ (report' # NoReport => pc' = "diagnosed") /\ ReportIsMade'
    BY ReportInductive
  <2>2. IInv'
    BY <1>2 DEF DIInv
  <2> QED
    BY <2>1, <2>2 DEF DIInv
<1> QED
  BY <1>1, <1>3, PTL DEF DSpec

(* What a collector has left is a text, if only that of an error. *)
LEMMA LeftFacts ==
  ASSUME IInv, says \in Texts, kind \in Diagnosed,
         NEW key \in {<<"virtualmachine">>, <<"kubernetes">>, <<"kubeletcmd">>}
  PROVE  /\ Left(key) \in Seq(Tokens(Word)) /\ Left(key) # << >>
         /\ ReadWell(key) => Left(key) = says[data[key]]
         /\ ~ReadWell(key) => Left(key) \in {NoText, ErrorText}
         /\ kind = "networkoutbound" => ~ReadWell(key)
<1>1. ReadWell(key) => Left(key) = says[data[key]]
  BY Zenon DEF ReadWell, Left
<1>2. ~ReadWell(key) => Left(key) \in {NoText, ErrorText}
  BY Zenon DEF ReadWell, Left
<1>3. ReadWell(key) => \E s \in Steps : key \in s.keys /\ data[key] = Item(s)
  BY DEF ReadWell, IInv, KeysAreOfTheirSteps
<1>4. kind = "networkoutbound" => ~ReadWell(key)
  <2>1. kind = "networkoutbound" => Steps = ToSet(NetworkOutbound)
    BY DEF Steps, Plan, Plans
  <2> QED
    BY <1>3, <2>1, NetworkOutboundPlan
<1>5. ReadWell(key) => says[data[key]] \in ConfFiles \cup Commands
  <2> SUFFICES ASSUME ReadWell(key) PROVE says[data[key]] \in ConfFiles \cup Commands
    OBVIOUS
  <2>1. PICK items, K : says \in [items -> ConfFiles \cup Commands] /\ items = {Item(s) : s \in K} /\ K = Steps
    <3>1. CASE kind = "dns"
      BY <3>1 DEF Texts, Steps, Plan, Plans
    <3>2. CASE kind = "networkconfig"
      BY <3>2 DEF Texts, Steps, Plan, Plans
    <3> QED
      BY <1>4, <3>1, <3>2 DEF Diagnosed
  <2>2. data[key] \in items
    BY <1>3, <2>1
  <2> QED
    BY <2>1, <2>2
<1>6. Left(key) \in Seq(Tokens(Word)) /\ Left(key) # << >>
  <2>1. CASE ReadWell(key)
    BY <1>1, <1>5, <2>1, TextsAreTexts, Zenon
  <2>2. CASE ~ReadWell(key)
    <3>1. Left(key) \in Seq(Tokens(Word)) /\ Len(Left(key)) = 1
      BY <1>2, <2>2, TextsAreTexts, Zenon
    <3> QED
      BY <3>1
  <2> QED
    BY <2>1, <2>2
<1> QED
  BY <1>1, <1>2, <1>4, <1>6

(* What the words of the command say of the number and the name reported. *)
LEMMA MaxPodsFacts ==
  ASSUME KubeletCommand \in Seq(Tokens(Word)), KubeletCommand # << >>
  PROVE  /\ MaxPods \in Nat
         /\ Places(KubeletCommand, MaxPodsArgs) = {} => MaxPods = 0
         /\ \A l \in DOMAIN KubeletCommand : \A i \in 2..(Len(KubeletCommand[l]) - 1) :
              Places(KubeletCommand, MaxPodsArgs) = {<<l, i>>} => MaxPods = Atoi(<<KubeletCommand[l][i]>>)
<1>1. PICK text, tokens, T : /\ text = KubeletCommand /\ tokens = Split(text)
                             /\ T = Found(text, MaxPodsArgs)
  OBVIOUS
<1>2. MaxPods = IF T = {} THEN 0 ELSE Atoi(tokens[Max(T)])
  BY <1>1 DEF MaxPods, LastOf, Found
<1>3. T # {} => Max(T) \in T /\ Head(tokens[Max(T)]) \in DOMAIN MaxPodsArgs
  <2>1. T # {} => Max(T) \in T
    BY <1>1, FoundFacts
  <2> QED
    BY <1>1, <2>1 DEF Found
<1>4. \A x \in DOMAIN MaxPodsArgs : MaxPodsArgs[x] \in Nat
  BY TextAssumption
<1>5. MaxPods \in Nat
  BY <1>2, <1>3, <1>4 DEF Atoi
<1>6. /\ Places(text, MaxPodsArgs) = {} => T = {}
      /\ \A l \in DOMAIN text : \A i \in 2..(Len(text[l]) - 1) :
           Places(text, MaxPodsArgs) = {<<l, i>>} =>
             T # {} /\ \A t \in T : tokens[t] = <<text[l][i]>>
  BY <1>1, FoundFacts
<1>7. ASSUME NEW l \in DOMAIN text, NEW i \in 2..(Len(text[l]) - 1), Places(text, MaxPodsArgs) = {<<l, i>>}
      PROVE  MaxPods = Atoi(<<text[l][i]>>)
  <2>1. T # {} /\ tokens[Max(T)] = <<text[l][i]>>
    BY <1>3, <1>6, <1>7
  <2> QED
    BY <1>2, <2>1
<1> QED
  BY <1>1, <1>2, <1>5, <1>6, <1>7

LEMMA NetworkPluginFacts ==
  ASSUME KubeletCommand \in Seq(Tokens(Word)), KubeletCommand # << >>
  PROVE  /\ NetworkPlugin \in Seq(Word)
         /\ Places(KubeletCommand, PluginArgs) = {} => NetworkPlugin = <<EmptyWord>>
         /\ \A l \in DOMAIN KubeletCommand : \A i \in 2..(Len(KubeletCommand[l]) - 1) :
              Places(KubeletCommand, PluginArgs) = {<<l, i>>} =>
                NetworkPlugin = Plugin(<<KubeletCommand[l][i]>>)
<1>1. PICK text, tokens, T : /\ text = KubeletCommand /\ tokens = Split(text)
                             /\ T = Found(text, PluginArgs)
  OBVIOUS
<1>2. NetworkPlugin = IF T = {} THEN <<EmptyWord>> ELSE Plugin(tokens[Max(T)])
  BY <1>1, Zenon DEF NetworkPlugin, LastOf, Found, EmptyWord
<1>3. T # {} => Max(T) \in T /\ Max(T) \in DOMAIN tokens /\ Head(tokens[Max(T)]) \in DOMAIN PluginArgs
  <2>1. T # {} => Max(T) \in T
    BY <1>1, FoundFacts
  <2> QED
    BY <1>1, <2>1 DEF Found
<1>4. tokens \in Seq(Tokens(Word))
  BY <1>1, FoundFacts
<1>5. \A x \in DOMAIN PluginArgs : PluginArgs[x] \in Word
  BY TextAssumption, Zenon DEF Word
<1>6. EmptyWord \in Word /\ "azurecni" \in Word
  <2>1. \A x : <<x>>[1] = x /\ x \in ToSet(<<x>>)
    BY DEF ToSet
  <2>2. ToSet(NoText[1]) \subseteq Word
    BY ArgumentAssumption, Zenon DEF Word
  <2>3. NoText[1] = <<EmptyWord>>
    BY <2>1, Zenon DEF NoText, EmptyWord
  <2>4. EmptyWord \in Word
    BY <2>1, <2>2, <2>3
  <2>5. "azurecni" \in Word
    BY ArgumentAssumption, Zenon DEF Word
  <2> QED
    BY <2>4, <2>5
<1>7. ASSUME NEW token \in Tokens(Word), Head(token) \in DOMAIN PluginArgs PROVE Plugin(token) \in Seq(Word)
  <2>1. token \in Seq(Word) /\ token # << >>
    BY DEF Tokens
  <2>2. PICK r : r = Tail(token)
    OBVIOUS
  <2>3. r \in Seq(Word)
    BY <2>1, <2>2
  <2>4. <<PluginArgs[Head(token)]>> \in Seq(Word) /\ <<"azurecni">> \in Seq(Word)
    BY <1>5, <1>6, <1>7
  <2>5. PICK name : name = <<PluginArgs[Head(token)]>> \o r
    OBVIOUS
  <2>6. name \in Seq(Word)
    BY <2>3, <2>4, <2>5
  <2>7. Plugin(token) = name \/ Plugin(token) = <<"azurecni">>
    BY <2>2, <2>5 DEF Plugin
  <2> QED
    BY <2>4, <2>6, <2>7
<1>8. NetworkPlugin \in Seq(Word)
  <2>1. <<EmptyWord>> \in Seq(Word)
    BY <1>6
  <2>2. T # {} => tokens[Max(T)] \in Tokens(Word)
    BY <1>3, <1>4
  <2> QED
    BY <1>2, <1>3, <1>7, <2>1, <2>2
<1>9. /\ Places(text, PluginArgs) = {} => T = {}
      /\ \A l \in DOMAIN text : \A i \in 2..(Len(text[l]) - 1) :
           Places(text, PluginArgs) = {<<l, i>>} =>
             T # {} /\ \A t \in T : tokens[t] = <<text[l][i]>>
  BY <1>1, FoundFacts
<1>10. ASSUME NEW l \in DOMAIN text, NEW i \in 2..(Len(text[l]) - 1), Places(text, PluginArgs) = {<<l, i>>}
       PROVE  NetworkPlugin = Plugin(<<text[l][i]>>)
  <2>1. T # {} /\ tokens[Max(T)] = <<text[l][i]>>
    BY <1>3, <1>9, <1>10
  <2> QED
    BY <1>2, <2>1
<1> QED
  BY <1>1, <1>2, <1>8, <1>9, <1>10

LEMMA NoReportIs ==
  NoReport = [VirtualMachineDNS |-> << >>, KubernetesDNS |-> << >>, NetworkPlugin |-> <<EmptyWord>>,
              MaxPodsPerNode |-> 0, Outbound |-> {}]
BY Zenon DEF NoReport, EmptyWord

LEMMA ReportFields ==
  /\ Diagnosis.VirtualMachineDNS = IF kind = "networkoutbound" THEN << >> ELSE GetDns(HostConf)
  /\ Diagnosis.KubernetesDNS = IF kind = "networkoutbound" THEN << >> ELSE GetDns(ContainerConf)
  /\ Diagnosis.NetworkPlugin = IF kind = "networkoutbound" THEN <<EmptyWord>> ELSE NetworkPlugin
  /\ Diagnosis.MaxPodsPerNode = IF kind = "networkoutbound" THEN 0 ELSE MaxPods
  /\ Diagnosis.Outbound = IF kind = "networkoutbound" THEN Outbound ELSE {}
  /\ Diagnosis = [VirtualMachineDNS |-> Diagnosis.VirtualMachineDNS,
                  KubernetesDNS |-> Diagnosis.KubernetesDNS,
                  NetworkPlugin |-> Diagnosis.NetworkPlugin,
                  MaxPodsPerNode |-> Diagnosis.MaxPodsPerNode,
                  Outbound |-> Diagnosis.Outbound]
<1>1. CASE kind = "networkoutbound"
  BY <1>1, NoReportIs DEF Diagnosis
<1>2. CASE kind # "networkoutbound"
  BY <1>2, NoReportIs DEF Diagnosis
<1> QED
  BY <1>1, <1>2

(* What every diagnosis is made of. *)
LEMMA WhatIsLeft ==
  ASSUME DIInv, pc = "diagnosed"
  PROVE  /\ kind \in Diagnosed /\ report = Diagnosis
         /\ HostConf \in Seq(Tokens(Word)) /\ HostConf # << >> /\ ~OutOfRange(HostConf)
         /\ ContainerConf \in Seq(Tokens(Word)) /\ ContainerConf # << >> /\ ~OutOfRange(ContainerConf)
         /\ KubeletCommand \in Seq(Tokens(Word)) /\ KubeletCommand # << >>
<1>1. /\ kind \in Diagnosed /\ report = Diagnosis
      /\ ~OutOfRange(HostConf) /\ ~OutOfRange(ContainerConf)
  BY DEF DIInv, ReportIsMade
<1>2. IInv /\ says \in Texts
  BY DEF DIInv
<1>3. HostConf \in Seq(Tokens(Word)) /\ HostConf # << >>
  BY <1>1, <1>2, LeftFacts DEF HostConf
<1>4. ContainerConf \in Seq(Tokens(Word)) /\ ContainerConf # << >>
  BY <1>1, <1>2, LeftFacts DEF ContainerConf
<1>5. KubeletCommand \in Seq(Tokens(Word)) /\ KubeletCommand # << >>
  BY <1>1, <1>2, LeftFacts DEF KubeletCommand
<1> QED
  BY <1>1, <1>3, <1>4, <1>5

LEMMA ReportType ==
  ASSUME DIInv
  PROVE  report \in Report
<1> DEFINE Samples == {key[1] : key \in PlannedKeys} \X {"Connected", "Error"}
<1>1. Report = [VirtualMachineDNS : Seq(Seq(Word)), KubernetesDNS : Seq(Seq(Word)),
                NetworkPlugin : Seq(Word), MaxPodsPerNode : Nat, Outbound : SUBSET Samples]
  BY Zenon DEF Report, Word
<1>2. EmptyWord \in Word
  <2>1. \A x : <<x>>[1] = x /\ x \in ToSet(<<x>>)
    BY DEF ToSet
  <2>2. ToSet(NoText[1]) \subseteq Word
    BY ArgumentAssumption, Zenon DEF Word
  <2>3. NoText[1] = <<EmptyWord>>
    BY <2>1, Zenon DEF NoText, EmptyWord
  <2> QED
    BY <2>1, <2>2, <2>3
<1>3. << >> \in Seq(Seq(Word)) /\ <<EmptyWord>> \in Seq(Word)
  BY <1>2
<1>4. CASE pc # "diagnosed"
  <2>1. report = NoReport
    BY <1>4 DEF DIInv
  <2> HIDE DEF Samples
  <2> QED
    BY <1>1, <1>3, <2>1, NoReportIs
<1>5. CASE pc = "diagnosed"
  <2>1. \A s \in Seq(Tokens(Word)) : s \in Seq(Seq(Word))
    BY DEF Tokens
  <2>2. GetDns(HostConf) \in Seq(Seq(Word)) /\ GetDns(ContainerConf) \in Seq(Seq(Word))
    BY <1>5, <2>1, WhatIsLeft, ServersStandAfter
  <2>3. MaxPods \in Nat /\ NetworkPlugin \in Seq(Word)
    BY <1>5, WhatIsLeft, MaxPodsFacts, NetworkPluginFacts
  <2>4. Outbound \in SUBSET Samples
    <3>1. \A key \in DOMAIN data : key \in PlannedKeys
      BY DEF DIInv, IInv, TypeOK
    <3> QED
      BY <3>1 DEF Outbound
  <2> HIDE DEF Samples
  <2>5. PICK d : d = Diagnosis
    OBVIOUS
  <2>6. /\ d = [VirtualMachineDNS |-> d.VirtualMachineDNS, KubernetesDNS |-> d.KubernetesDNS,
                NetworkPlugin |-> d.NetworkPlugin, MaxPodsPerNode |-> d.MaxPodsPerNode,
                Outbound |-> d.Outbound]
        /\ d.VirtualMachineDNS \in Seq(Seq(Word)) /\ d.KubernetesDNS \in Seq(Seq(Word))
        /\ d.NetworkPlugin \in Seq(Word) /\ d.MaxPodsPerNode \in Nat /\ d.Outbound \in SUBSET Samples
    BY <1>3, <2>2, <2>3, <2>4, <2>5, ReportFields
  <2>7. d \in Report
    BY <1>1, <2>6
  <2> QED
    BY <1>5, <2>5, <2>7, WhatIsLeft
<1> QED
  BY <1>4, <1>5

(* Every variable of the diagnosers keeps its type, whatever the files and the command say: what *)
(* they make of texts is servers, a name and a number, and stays unsaid until it is diagnosed.   *)
THEOREM DiagnosersTypeCorrect == DSpec => []DiagnosersTypeOK
<1>1. DIInv => DiagnosersTypeOK
  BY ReportType DEF DIInv, IInv, DiagnosersTypeOK
<1> QED
  BY <1>1, DIInductive, PTL

(* A file of one line, which names a server. *)
OneLine(text) ==
  Len(text) = 2 /\ Len(text[1]) = 2 /\ text[1][1] = "nameserver" /\ text[2] = <<EmptyWord>>

(* What DiagnosisIsOfTheNode says of one file. *)
LEMMA ServersOfFile ==
  ASSUME DIInv, pc = "diagnosed", NEW file \in {"virtualmachine", "kubernetes"}, NEW dns,
         ~OutOfRange(Left(<<file>>)),
         dns = IF kind = "networkoutbound" THEN << >> ELSE GetDns(Left(<<file>>))
  PROVE  /\ ~ReadWell(<<file>>) => dns = << >>
         /\ ReadWell(<<file>>) =>
              /\ \A k \in DOMAIN dns : \E i \in 1..(Len(Fields(says[data[<<file>>]])) - 1) :
                   /\ Fields(says[data[<<file>>]])[i] = Nameserver
                   /\ Head(Fields(says[data[<<file>>]])[i + 1]) = Head(dns[k])
              /\ OneLine(says[data[<<file>>]]) => dns = <<<<says[data[<<file>>]][1][2]>>>>
<1>1. PICK key, text : key = <<file>> /\ text = Left(key)
  OBVIOUS
<1>2. key \in {<<"virtualmachine">>, <<"kubernetes">>, <<"kubeletcmd">>} /\ kind \in Diagnosed
  BY <1>1, WhatIsLeft
<1>3. /\ text \in Seq(Tokens(Word)) /\ text # << >>
      /\ ReadWell(key) => text = says[data[key]]
      /\ ~ReadWell(key) => text \in {NoText, ErrorText}
      /\ kind = "networkoutbound" => ~ReadWell(key)
  BY <1>1, <1>2, LeftFacts DEF DIInv
<1>4. ~OutOfRange(text) /\ dns = IF kind = "networkoutbound" THEN << >> ELSE GetDns(text)
  BY <1>1
<1>5. ~ReadWell(key) => dns = << >>
  <2>1. ~ReadWell(key) => GetDns(text) = << >>
    BY <1>3, <1>4, NothingInErrors, ServersStandAfter
  <2> QED
    BY <1>4, <2>1
<1>6. CASE ReadWell(key)
  <2>1. text = says[data[key]] /\ dns = GetDns(text)
    BY <1>3, <1>4, <1>6
  <2>2. \A k \in DOMAIN dns : \E i \in 1..(Len(Fields(text)) - 1) :
          Fields(text)[i] = Nameserver /\ Head(Fields(text)[i + 1]) = Head(dns[k])
    BY <1>3, <1>4, <2>1, ServersStandAfter
  <2>3. OneLine(text) => dns = <<<<text[1][2]>>>>
    <3>1. text \in Seq(Tokens(Word))
      BY <1>3
    <3>2. OneLine(text) => GetDns(text) = <<<<text[1][2]>>>>
      BY <3>1, OneServer, Zenon DEF OneLine
    <3> QED
      BY <2>1, <3>2, Zenon
  <2>4. text = says[data[<<file>>]] /\ ReadWell(<<file>>)
    BY <1>1, <1>6, <2>1, Zenon
  <2>5. \A k \in DOMAIN dns : \E i \in 1..(Len(Fields(says[data[<<file>>]])) - 1) :
          /\ Fields(says[data[<<file>>]])[i] = Nameserver
          /\ Head(Fields(says[data[<<file>>]])[i + 1]) = Head(dns[k])
    BY <2>2, <2>4
  <2>6. OneLine(says[data[<<file>>]]) => dns = <<<<says[data[<<file>>]][1][2]>>>>
    BY <2>3, <2>4
  <2> QED
    BY <2>4, <2>5, <2>6, Zenon
<1> QED
  BY <1>1, <1>5, <1>6, Zenon

(* Whatever could not be read and however texts are cut into tokens, a diagnosis holds nothing  *)
(* that the node's files and kubelet's command do not say: for texts of any words and any lines. *)
THEOREM DiagnosisOfTheNode == DSpec => []DiagnosisIsOfTheNode
<1>1. ASSUME DIInv, pc = "diagnosed" PROVE DiagnosisIsOfTheNode
  <2>1. /\ kind \in Diagnosed /\ report = Diagnosis
        /\ ~OutOfRange(HostConf) /\ ~OutOfRange(ContainerConf)
        /\ KubeletCommand \in Seq(Tokens(Word)) /\ KubeletCommand # << >>
    BY <1>1, WhatIsLeft
  <2>2. /\ report.VirtualMachineDNS = IF kind = "networkoutbound" THEN << >> ELSE GetDns(HostConf)
        /\ report.KubernetesDNS = IF kind = "networkoutbound" THEN << >> ELSE GetDns(ContainerConf)
        /\ report.NetworkPlugin = IF kind = "networkoutbound" THEN <<EmptyWord>> ELSE NetworkPlugin
        /\ report.MaxPodsPerNode = IF kind = "networkoutbound" THEN 0 ELSE MaxPods
    BY <2>1, ReportFields
  <2>3. /\ kind = "networkoutbound" => ~ReadWell(<<"kubeletcmd">>)
        /\ ~ReadWell(<<"kubeletcmd">>) => KubeletCommand \in {NoText, ErrorText}
    BY <1>1, <2>1, LeftFacts DEF DIInv, KubeletCommand
  <2>4. ~ReadWell(<<"kubeletcmd">>) =>
          Places(KubeletCommand, MaxPodsArgs) = {} /\ Places(KubeletCommand, PluginArgs) = {}
    BY <2>3, NothingInErrors, Zenon
  <2>5. ~ReadWell(<<"kubeletcmd">>) => report.MaxPodsPerNode = 0 /\ report.NetworkPlugin = <<EmptyWord>>
    BY <2>1, <2>2, <2>4, MaxPodsFacts, NetworkPluginFacts
  <2>6. ASSUME NEW l \in DOMAIN KubeletCommand, NEW i \in 2..(Len(KubeletCommand[l]) - 1)
        PROVE  /\ Places(KubeletCommand, MaxPodsArgs) = {<<l, i>>}
                    => report.MaxPodsPerNode = Atoi(<<KubeletCommand[l][i]>>)
               /\ Places(KubeletCommand, PluginArgs) = {<<l, i>>}
                    => report.NetworkPlugin = Plugin(<<KubeletCommand[l][i]>>)
    <3>1. \A x : {x} # {}
      OBVIOUS
    <3>2. CASE kind = "networkoutbound"
      <4>1. Places(KubeletCommand, MaxPodsArgs) = {} /\ Places(KubeletCommand, PluginArgs) = {}
        BY <2>3, <2>4, <3>2
      <4> QED
        BY <3>1, <4>1, Zenon
    <3>3. CASE kind # "networkoutbound"
      <4>1. report.MaxPodsPerNode = MaxPods /\ report.NetworkPlugin = NetworkPlugin
        BY <2>2, <3>3
      <4>2. Places(KubeletCommand, MaxPodsArgs) = {<<l, i>>} => MaxPods = Atoi(<<KubeletCommand[l][i]>>)
        BY <2>1, <2>6, MaxPodsFacts
      <4>3. Places(KubeletCommand, PluginArgs) = {<<l, i>>} =>
              NetworkPlugin = Plugin(<<KubeletCommand[l][i]>>)
        BY <2>1, <2>6, NetworkPluginFacts
      <4> QED
        BY <4>1, <4>2, <4>3, Zenon
    <3> QED
      BY <3>2, <3>3
  <2>7. /\ DOMAIN Servers = {"virtualmachine", "kubernetes"}
        /\ Servers["virtualmachine"] = report.VirtualMachineDNS
        /\ Servers["kubernetes"] = report.KubernetesDNS
    BY DEF Servers
  <2>8. ASSUME NEW file \in {"virtualmachine", "kubernetes"}
        PROVE  /\ ~OutOfRange(Left(<<file>>))
               /\ Servers[file] = IF kind = "networkoutbound" THEN << >> ELSE GetDns(Left(<<file>>))
    BY <2>1, <2>2, <2>7 DEF HostConf, ContainerConf
  <2>9. ASSUME NEW file \in DOMAIN Servers
        PROVE  /\ ~ReadWell(<<file>>) => Servers[file] = << >>
               /\ ReadWell(<<file>>) =>
                    /\ \A k \in DOMAIN Servers[file] :
                         \E i \in 1..(Len(Fields(says[data[<<file>>]])) - 1) :
                           /\ Fields(says[data[<<file>>]])[i] = Nameserver
                           /\ Head(Fields(says[data[<<file>>]])[i + 1]) = Head(Servers[file][k])
                    /\ OneLine(says[data[<<file>>]])
                         => Servers[file] = <<<<says[data[<<file>>]][1][2]>>>>
    <3>1. PICK dns : dns = Servers[file]
      OBVIOUS
    <3>2. file \in {"virtualmachine", "kubernetes"}
      BY <2>7
    <3>3. ~OutOfRange(Left(<<file>>)) /\ dns = IF kind = "networkoutbound" THEN << >> ELSE GetDns(Left(<<file>>))
      BY <2>8, <3>1, <3>2
    <3>4. /\ ~ReadWell(<<file>>) => dns = << >>
          /\ ReadWell(<<file>>) =>
               /\ \A k \in DOMAIN dns : \E i \in 1..(Len(Fields(says[data[<<file>>]])) - 1) :
                    /\ Fields(says[data[<<file>>]])[i] = Nameserver
                    /\ Head(Fields(says[data[<<file>>]])[i + 1]) = Head(dns[k])
               /\ OneLine(says[data[<<file>>]]) => dns = <<<<says[data[<<file>>]][1][2]>>>>
      BY <1>1, <3>2, <3>3, ServersOfFile
    <3> QED
      BY <3>1, <3>4, Zenon
  <2> QED
    BY <2>5, <2>6, <2>9, Zenon DEF DiagnosisIsOfTheNode, OneLine, EmptyWord, Nameserver
<1>2. DIInv /\ pc # "diagnosed" => DiagnosisIsOfTheNode
  BY Zenon DEF DiagnosisIsOfTheNode
<1>3. DIInv => DiagnosisIsOfTheNode
  BY <1>1, <1>2
<1> QED
  BY <1>3, DIInductive, PTL
====
