---- MODULE RuntimeInfo ----
(***************************************************************************)
(* pkg/utils/runtimeInfo.go and knownFilePaths.go, and the first half of   *)
(* run(): how a run gets its configuration, and which collectors that      *)
(* configuration admits.                                                   *)
(*                                                                         *)
(* The ConfigMap and the Secret are volumes of the pod.  kubelet replaces  *)
(* all files of a volume at once, but each volume in its own time, while   *)
(* GetRuntimeInfo asks for one file after the other whether it exists and  *)
(* then opens it.  So a run can see files of several versions, and a file  *)
(* can vanish between the two steps.                                       *)
(*                                                                         *)
(* The run ID file's watcher is ChangeFeed, which FileContentWatcher       *)
(* implements: a notification may be old when it is taken.  Periscope      *)
(* models the process around it, and has all of GetRuntimeInfo in one step.*)
(***************************************************************************)
EXTENDS Integers, Sequences, FiniteSets

CONSTANTS
  ConfigMaps,      \* contents of the ConfigMap: functions from the keys it has to their values
  Secrets,         \* the same for the Secret
  RunIds,          \* the non-empty run IDs
  Empty, Fault,    \* as in ChangeFeed
  MaxConfigs,      \* bound: versions of the ConfigMap's volume
  MaxSecrets,      \* bound: versions of the Secret's
  MaxFailures      \* bound: I/O errors and failures of the steps before the collectors;
                   \* a host name that is not set counts for all of them

ASSUME BoundAssumption ==
  /\ MaxConfigs \in Nat \ {0} /\ MaxSecrets \in Nat \ {0} /\ MaxFailures \in Nat
ASSUME ValueAssumption == Empty \notin RunIds /\ Fault \notin RunIds /\ Empty # Fault
ASSUME RunIdAssumption ==
  \A c \in ConfigMaps :
    "DIAGNOSTIC_RUN_ID" \in DOMAIN c => c["DIAGNOSTIC_RUN_ID"] \in RunIds \cup {Empty}

VARIABLES
  os,         \* runtime.GOOS
  hostName,   \* HOST_NODE_NAME is set
  volume,     \* "config" and "secret" -> the contents projected so far, the last being there
  secretAt,   \* history: version of config -> that of secret when it was projected
  latest, owed,  \* of ChangeFeed
  pc,
  got,        \* per file read: whether it was there, and (history) its volume's version
  errs,       \* what the multierror holds: "io", "vanished", "mandatory"
  began,      \* history: the volumes' versions when GetRuntimeInfo was called
  producers,  \* collectors that are started
  failures

world == <<os, hostName>>
feed == <<latest, owed>>
memory == <<got, errs, began, producers>>
vars == <<world, volume, secretAt, feed, pc, memory, failures>>

----------------------------------------------------------------------------
(* The files, in the order in which they are read. *)

RunIdKey == "DIAGNOSTIC_RUN_ID"
WindowsHpc == "FEATURE_WINHPC"

NodeLogsKey ==
  IF os = "windows" THEN "DIAGNOSTIC_NODELOGS_LIST_WINDOWS" ELSE "DIAGNOSTIC_NODELOGS_LIST_LINUX"

File(v, key) == [volume |-> v, key |-> key]
ConfigReads ==
  <<File("config", RunIdKey), File("config", "COLLECTOR_LIST"),
    File("config", "DIAGNOSTIC_KUBEOBJECTS_LIST"), File("config", NodeLogsKey),
    File("config", "DIAGNOSTIC_CONTAINERLOGS_LIST")>>
SecretReads ==
  <<File("secret", "AZURE_BLOB_ACCOUNT_NAME"), File("secret", "AZURE_BLOB_SAS_KEY"),
    File("secret", "AZURE_BLOB_CONTAINER_NAME"), File("secret", "AZURE_STORAGE_SAS_KEY_TYPE")>>
FeatureReads == <<File("config", WindowsHpc)>>

(* Slips of the code that the properties below must notice. *)
SecretsFirst == SecretReads \o ConfigReads \o FeatureReads
NodeLogsToo(f) == f.key \in {RunIdKey, NodeLogsKey}
LastError == "mandatory" \in errs \/ ~hostName

Reads == ConfigReads \o SecretReads \o FeatureReads
Mandatory(f) == f.key = RunIdKey

----------------------------------------------------------------------------

Version(v) == Len(volume[v])
Content(v) == volume[v][Version(v)]
Versions == [config |-> Version("config"), secret |-> Version("secret")]

RunIdOf(c) == IF RunIdKey \in DOMAIN c THEN c[RunIdKey] ELSE Fault
OnDisk == RunIdOf(Content("config"))

(* What readFileContent returned for a key; a file that is not there counts as empty. *)
Index(key) == CHOOSE i \in 1..Len(Reads) : Reads[i].key = key
Found(key) == got[Index(key)].found
Value(key) == volume[Reads[Index(key)].volume][got[Index(key)].ver][key]

(* main starts the watcher once StringToOSIdentifier knows the operating system. *)
OsKnown == os \in {"linux", "windows"}

Feed == INSTANCE ChangeFeed WITH
  Files <- {RunIdKey}, Subscribers <- {"periscope"}, Contents <- RunIds, MaxWrites <- MaxConfigs,
  disk <- [DIAGNOSTIC_RUN_ID |-> [value |-> OnDisk, ver |-> Version("config")]],
  subscribers <- [DIAGNOSTIC_RUN_ID |-> {"periscope"}], open <- OsKnown

----------------------------------------------------------------------------
(* Which collectors a run has. *)

(* Fields of KnownFilePaths that are set.  Azure Stack Hub has no Windows nodes. *)
KnownPaths ==
  {"AzureJson", "AzureStackCloudJson", "NodeLogsList", "Config", "Secret"} \cup
  (IF os = "windows" THEN {"WindowsLogsOutput"}
   ELSE {"ResolvConfHost", "ResolvConfContainer", "AzureStackCertHost", "AzureStackCertContainer"})

(* A slip that RunsWhatWasConfigured must notice: the file is read once more. *)
ReadAgain(flag) ==
  "COLLECTOR_LIST" \in DOMAIN Content("config") /\ flag \in Content("config")["COLLECTOR_LIST"]

InList(flag) == Found("COLLECTOR_LIST") /\ flag \in Value("COLLECTOR_LIST")
HasFeature == Found(WindowsHpc) /\ Value(WindowsHpc) # Empty

Collectors == {"dns", "kubeletcmd", "networkoutbound", "helm", "iptables", "kubeobjects", "nodelogs",
               "osm", "poddisruptionbudget", "podscontainerlogs", "smi", "systemlogs", "systemperf",
               "windowslogs"}

OnOs(c) ==
  CASE c \in {"dns", "iptables", "kubeletcmd", "systemlogs"} -> os = "linux"
    [] c = "windowslogs" -> os = "windows"
    [] OTHER -> TRUE

(* CheckSupported *)
Supported(c) ==
  /\ OnOs(c)
  /\ c \in {"helm", "podscontainerlogs"} => InList("connectedCluster")
  /\ c \in {"iptables", "kubeletcmd", "nodelogs", "poddisruptionbudget", "systemlogs", "systemperf"}
       => ~InList("connectedCluster")
  /\ c = "osm" => InList("OSM")
  /\ c = "smi" => InList("OSM") \/ InList("SMI")
  /\ c = "windowslogs" => HasFeature /\ Value(RunIdKey) # Empty

----------------------------------------------------------------------------

NotBegun == [config |-> 0, secret |-> 0]
NoMemory == got' = << >> /\ errs' = {} /\ producers' = {} /\ began' = NotBegun

Init ==
  /\ os \in {"linux", "windows"} /\ hostName \in BOOLEAN
  /\ volume \in {[v \in {"config", "secret"} |-> IF v = "config" THEN <<c>> ELSE <<s>>] :
                   c \in ConfigMaps, s \in Secrets}
  /\ secretAt = <<1>>
  /\ latest = [f \in {RunIdKey} |-> Empty] /\ owed = [f \in {RunIdKey} |-> {}]
  /\ pc = "idle"
  /\ got = << >> /\ errs = {} /\ producers = {} /\ began = NotBegun
  /\ failures = IF hostName THEN 0 ELSE MaxFailures

(* kubelet replaces the files of one volume. *)
Project(v, content) ==
  /\ content # Content(v)
  /\ Version(v) < (IF v = "config" THEN MaxConfigs ELSE MaxSecrets)
  /\ volume' = [volume EXCEPT ![v] = Append(@, content)]
  /\ secretAt' = IF v = "config" THEN Append(secretAt, Version("secret")) ELSE secretAt
  /\ UNCHANGED <<world, feed, pc, memory, failures>>

Publish ==
  /\ pc # "fatal" /\ pc # "exited"
  /\ UNCHANGED <<world, volume, secretAt, pc, memory, failures>>
  /\ Feed!Publish(RunIdKey)

(* The runner's goroutine receives a run ID and calls GetRuntimeInfo ... *)
Begin ==
  /\ pc = "idle" /\ latest[RunIdKey] # Fault
  /\ UNCHANGED <<world, volume, secretAt, failures>>
  /\ Feed!Take(RunIdKey, "periscope")
  /\ pc' = "exists" /\ got' = << >> /\ errs' = {} /\ producers' = {} /\ began' = Versions

(* ... or main receives an error, at any time. *)
Abort ==
  /\ pc # "fatal" /\ pc # "exited" /\ latest[RunIdKey] = Fault
  /\ UNCHANGED <<world, volume, secretAt, failures>>
  /\ Feed!Take(RunIdKey, "periscope")
  /\ pc' = "exited" /\ NoMemory

----------------------------------------------------------------------------
(* readFileContent, for one file after the other. *)

Reading(step) == pc = step /\ Len(got) < Len(Reads)
Next1 == Reads[Len(got) + 1]
There == Next1.key \in DOMAIN Content(Next1.volume)

(* The call returns; errs has gained why. *)
Return(found, why) ==
  /\ got' = Append(got, [found |-> found, ver |-> Version(Next1.volume)])
  /\ errs' = errs \cup why
  /\ pc' = "exists"
  /\ UNCHANGED <<world, volume, secretAt, feed, began, producers>>

FileExists ==
  /\ Reading("exists") /\ There
  /\ pc' = "open"
  /\ UNCHANGED <<world, volume, secretAt, feed, memory, failures>>

FileMissing ==
  /\ Reading("exists") /\ ~There
  /\ Return(FALSE, IF Mandatory(Next1) THEN {"mandatory"} ELSE {})
  /\ UNCHANGED failures

ReadContent ==
  /\ Reading("open") /\ There
  /\ LET blank == Mandatory(Next1) /\ Content(Next1.volume)[Next1.key] = Empty
     IN Return(~blank, IF blank THEN {"mandatory"} ELSE {})
  /\ UNCHANGED failures

(* The version that had the file is gone. *)
FileVanished ==
  /\ Reading("open") /\ ~There
  /\ Return(FALSE, {"vanished"})
  /\ UNCHANGED failures

ReadFails ==
  /\ Reading("exists") \/ Reading("open")
  /\ failures < MaxFailures /\ failures' = failures + 1
  /\ Return(FALSE, {"io"})

----------------------------------------------------------------------------
(* The rest of run() up to the collectors, and its end. *)

Over == pc = "exists" /\ Len(got) = Len(Reads)
Failed == errs # {} \/ ~hostName

NoRuntimeInfo ==
  /\ Over /\ Failed
  /\ pc' = "fatal"
  /\ UNCHANGED <<world, volume, secretAt, feed, memory, failures>>

(* InClusterConfig fails, or the copy of the certificate on Azure Stack. *)
FailRun ==
  /\ Over /\ ~Failed
  /\ failures < MaxFailures /\ failures' = failures + 1
  /\ pc' = "exited" /\ NoMemory
  /\ UNCHANGED <<world, volume, secretAt, feed>>

StartCollectors ==
  /\ Over /\ ~Failed
  /\ pc' = "running"
  /\ producers' = {c \in Collectors : Supported(c)}
  /\ UNCHANGED <<world, volume, secretAt, feed, got, errs, began, failures>>

EndRun ==
  /\ pc = "running" /\ pc' = "idle" /\ NoMemory
  /\ UNCHANGED <<world, volume, secretAt, feed, failures>>

Restart ==
  /\ pc \in {"fatal", "exited"} /\ pc' = "idle" /\ NoMemory
  /\ latest' = [f \in {RunIdKey} |-> Empty] /\ owed' = [f \in {RunIdKey} |-> {}]
  /\ UNCHANGED <<world, volume, secretAt, failures>>

GetRuntimeInfo ==
  FileExists \/ FileMissing \/ ReadContent \/ FileVanished \/ ReadFails \/ NoRuntimeInfo
Run == FailRun \/ StartCollectors \/ EndRun

Next ==
  \/ \E c \in ConfigMaps : Project("config", c)
  \/ \E s \in Secrets : Project("secret", s)
  \/ Publish \/ Begin \/ Abort \/ GetRuntimeInfo \/ Run \/ Restart

(* The watcher's and the runner's goroutines run, a run ends, kubelet restarts the container. *)
Fairness ==
  /\ WF_vars(Publish) /\ WF_vars(Begin) /\ WF_vars(Abort)
  /\ WF_vars(GetRuntimeInfo) /\ WF_vars(Run) /\ WF_vars(Restart)

Spec == Init /\ [][Next]_vars /\ Fairness

----------------------------------------------------------------------------
(* Properties *)

(* The type of every variable; no run is started with an error. *)
TypeOK ==
  /\ os \in {"linux", "windows"} /\ hostName \in BOOLEAN
  /\ volume \in [{"config", "secret"} -> Seq(ConfigMaps \cup Secrets)]
  /\ volume["config"] \in Seq(ConfigMaps) /\ volume["secret"] \in Seq(Secrets)
  /\ secretAt \in Seq(1..MaxSecrets) /\ Len(secretAt) = Version("config")
  /\ latest \in [{RunIdKey} -> RunIds \cup {Empty, Fault}]
  /\ owed \in [{RunIdKey} -> SUBSET {"periscope"}]
  /\ pc \in {"idle", "exists", "open", "running", "fatal", "exited"}
  /\ got \in Seq([found : BOOLEAN, ver : Nat]) /\ Len(got) <= Len(Reads)
  /\ errs \subseteq {"io", "vanished", "mandatory"} /\ (pc = "running" => errs = {})
  /\ producers \subseteq Collectors
  /\ failures \in 0..MaxFailures

(* Whatever is projected while the files are read, a run never uses anything older than its  *)
(* run ID: its lists and features are of the version that brought the run ID or a later one, *)
(* and so is the storage configuration that was there when that version came.  This is what  *)
(* "update the AZURE_BLOB_SAS_KEY value in the Secret first" (README.md:132) can rely on,    *)
(* once kubelet has projected it (runtimeInfo.go:43-68).                                     *)
NothingOlderThanRunId ==
  pc = "running" =>
    LET id == Index(RunIdKey)
    IN \A i \in 1..Len(Reads) :
         got[i].ver >= IF Reads[i].volume = "config" THEN got[id].ver ELSE secretAt[got[id].ver]

(* GetRuntimeInfo ends the process only for a reason: no host name, an I/O error, a run ID   *)
(* that is missing or blank, or a projection in the middle of the reading.  Every other file *)
(* may be missing (runtimeInfo.go:93-114).                                                   *)
FailsForCause ==
  pc = "fatal" =>
    ~hostName \/ "io" \in errs \/ OnDisk \in {Empty, Fault} \/ Versions # began

(* The collectors that the documents promise of a ConfigMap whose list is that of one version *)
(* and whose features are those of another: windows-vs-linux.md:7-12, and README.md:113,      *)
(* "'connectedCluster' (enables helm/pods-containerlogs, disables iptables/kubelet/nodelogs/  *)
(* pdb/systemlogs/systemperf), 'OSM' (enables osm/smi), 'SMI' (enables smi)".  The logs of    *)
(* Windows need the feature (windowslogs_collector.go:50-55).                                 *)
Documented(list, feature) ==
  LET flags == IF "COLLECTOR_LIST" \in DOMAIN list THEN list["COLLECTOR_LIST"] ELSE {}
      ofNode == {"iptables", "kubeletcmd", "nodelogs", "poddisruptionbudget", "systemlogs", "systemperf"}
      ofCluster == IF "connectedCluster" \in flags THEN {"helm", "podscontainerlogs"} ELSE ofNode
      ofMesh == IF "OSM" \in flags THEN {"osm", "smi"} ELSE IF "SMI" \in flags THEN {"smi"} ELSE {}
      ofFeature == IF WindowsHpc \in DOMAIN feature /\ feature[WindowsHpc] # Empty THEN {"windowslogs"} ELSE {}
      notOnOs == IF os = "windows" THEN {"dns", "iptables", "kubeletcmd", "systemlogs"} ELSE {"windowslogs"}
  IN ({"dns", "networkoutbound", "kubeobjects"} \cup ofCluster \cup ofMesh \cup ofFeature) \ notOnOs

(* Paths that a collector opens. *)
Needs(c) ==
  CASE c = "dns" -> {"ResolvConfHost", "ResolvConfContainer"}
    [] c = "windowslogs" -> {"WindowsLogsOutput"}
    [] OTHER -> {}

(* A run has the collectors, no fewer and no more, that are documented for what the ConfigMap *)
(* held while GetRuntimeInfo read it: a list that came with the run ID or after it, and       *)
(* features that came with that list or after it.  Nothing of before the call counts, nothing *)
(* of after the last read (CheckSupported reads nothing again), and no file passes for        *)
(* missing that could not be read; a ConfigMap that stays is taken as it is.  Its ID is that  *)
(* of the first of the three versions, and none opens a path its operating system lacks       *)
(* (runtimeInfo.go:39-114, aks-periscope.go:83-114).                                          *)
RunsWhatWasConfigured ==
  pc = "running" =>
    LET config == volume["config"]
        whileReading == began.config..got[Len(got)].ver
    IN /\ \E id, list, feature \in whileReading :
            /\ id <= list /\ list <= feature
            /\ RunIdOf(config[id]) = Value(RunIdKey) /\ Value(RunIdKey) \in RunIds
            /\ producers = Documented(config[list], config[feature])
       /\ \A c \in producers : Needs(c) \subseteq KnownPaths

(* A new run ID that stays is run, although projections make GetRuntimeInfo fail and the      *)
(* process restart, and whichever optional files are missing.                                *)
NewRunIdIsRun ==
  \A r \in RunIds :
    (hostName /\ <>[](OnDisk = r) /\ [](OnDisk = r => [](OnDisk = r)))
      => <>(pc = "running" /\ Value(RunIdKey) = r)
====
