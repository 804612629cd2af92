# AKS Periscope: models, checks and proofs

AKS Periscope runs as a DaemonSet, one process per node. It watches a run ID in
a mounted ConfigMap; whenever the run ID changes it collects logs and
diagnostics of the node and of the cluster and uploads them to a blob container.
On Windows nodes a second pod, a PowerShell script, collects the node's logs
into a shared folder. These modules model the control of that program, check it
with TLC on small instances, and prove its central properties with TLAPS.

## The system

| Component | Source | State | Operations | Interacts by | What is hard | What makes it correct |
|---|---|---|---|---|---|---|
| File content watcher | `pkg/utils/fileContentWatcher.go` | items (content, error, handlers), ticker | AddHandler, Start, poll, send | unbuffered channels | slow clients, missed values, errors | every handler gets the last value, once, in order |
| Process | `cmd/aks-periscope/aks-periscope.go` `main` | two channels, three goroutines | receive a run ID, run, report an error, exit, restart | watcher, kubelet | run ID read twice, coalesced notifications, restarts | a new run ID is run; no needless runs or exits |
| Run | the same file, `run` | producers, two WaitGroups | check, collect, diagnose, zip, upload | shared collectors, exporter | ordering, partial failure | phases; a failure stays its own; the zip is whole |
| Exporter and zip | `pkg/exporter` | none; the blob container | create container, upload values, zip | HTTP to storage | concurrent creation, unreadable values, `log.Fatalf` | what succeeded is in the store |
| Windows logs | `pkg/collector/windowslogs_collector.go`, `deployment/components/win-hpc/CollectDiagnostics.ps1` | shared folder, previousRunId, recorded paths | poll, list, record; collect, remove, expand, mark | files of the host | crashes of the script, logs replaced under a reader | the marker means complete logs; never older ones |
| Runtime configuration | `pkg/utils/runtimeInfo.go`, `knownFilePaths.go`, every `CheckSupported` | none | ask for and open some ten files, admit collectors | two projected volumes | a torn snapshot, a file that vanishes | nothing older than the run ID; an end only for a reason; the documented collectors |
| OSM, SMI collectors | `pkg/collector/osm_collector.go`, `smi_collector.go` | data map, local port | port forward and query each pod, list CRDs | Kubernetes API | forwarding goroutine, port reuse | each pod's answers under its own key |
| Other collectors | `pkg/collector` | data map | commands, files, API lists | Kubernetes, the node | errors in a loop, colliding keys | no value lost without an error |
| Diagnosers | `pkg/diagnoser` | data map | parse what collectors left | collectors | order after the collectors, texts of errors, splitting at spaces | settled data; settings of the node and nothing else |
| Kubernetes command runner | `pkg/utils/kubeCommandRunner.go` | none | print, list, fall back to an older API version | client-go | I/O | a version that is missing is passed over |

The calls: kubelet projects the ConfigMap; the watcher polls the run ID file and
sends its content to the runner's goroutine; the runner calls `run`, which reads
the whole configuration again, starts a goroutine per collector, waits, starts a
goroutine per diagnoser, waits, zips and uploads. An error of the run ID file, or
of `run`, goes to `main`, which exits; kubelet starts the container again.

## Modules

| Module | Models | Uses |
|---|---|---|
| `FileContentWatcher` | the watcher: its poller, its clients' receives, the writers of the files | `ChangeFeed` (abstract specification) |
| `ChangeFeed` | what the watcher promises: publish to all, take once, tell a change that stays | |
| `Periscope` | `main`, the runner, exits and restarts | `FileContentWatcher` as `W`, with one file and one handler |
| `CollectionRun` | `run` from the exporter on, Export, ExportReader, Zip | `PhasedRun` (abstract specification) |
| `PhasedRun` | three phases, results that settle | |
| `WindowsLogs` | the script, the folder, the collector, the reads of its path values | |
| `OsmCollector` | the OSM collector, its port forwarders, `GetUrlWithRetries` | |
| `Collectors` | `Collect` of the twelve other collectors as plans of steps, the versions of the CRD lists, and the restart after a panic | |
| `Diagnosers` | both `Diagnose` methods, after the collectors they read from | extends `Collectors` |
| `RuntimeInfo` | `GetRuntimeInfo` file by file, the known paths, `CheckSupported`, and the process around them | `ChangeFeed` as `Feed`, for the run ID's watcher |
| `FileContentWatcherProofs`, `PeriscopeProofs`, `CollectionRunProofs`, `WindowsLogsProofs`, `OsmCollectorProofs`, `DiagnosersProofs`, `RuntimeInfoProofs` | the theorems about each | `TLAPS` and the library's theorems |
| `SequenceLemmas` | lemmas about sequences that need induction, for `DiagnosersProofs` | `TLAPS` and the library's theorems |
| `MC...` | the instances TLC checks | |

### FileContentWatcher

`disk` is the files with a version per write (history); `item` what the watcher
recorded, `handlers` the registered channel pairs in order, `pass` and `next` the
position of the poller in `checkFilePaths` and `handleUpdated`, `receiving` the
channels on which a client is blocked, `seen` (history) what each channel last
got for each file. `GetContent` with `updateIfChanged` is the step `CheckFile`:
no one else touches an item once the poller runs, and the time between reading
and sending is kept, since each send is a step of its own. A send on an unbuffered
channel is one step with its receive (`Send`), and possible only when the
client receives; `Listen` is the client coming back to its receive, whenever it
likes. The ticker's channel holds one tick. The map of items is walked in any
order. An error's text is not kept: an error always counts as a change, as in
the code.

### Periscope

`main` goes through registering, launching the runner, starting the watcher and
waiting; the runner is idle (receiving), notified, running or failed.
`Receiving`, substituted for the watcher's `receiving`, follows from the two: the
composition adds no freedom to the watcher's clients. `BeginRun` is
`GetRuntimeInfo`'s read of the run ID, later than the notification: it may find
another version. `Ends` is the end of the process: everything in memory goes.
`NoRuntimeInfo` is `log.Fatalf` inside `run`, by a run ID that is missing,
unreadable or blank or by another configuration file; the latter, and failures of
`InClusterConfig` or of the certificate's copy, are bounded by `MaxFailures`.
`RunId` values are model values; a run's inside is `CollectionRun`.

### CollectionRun

`stage` is where each producer's goroutine is, `pending` the two WaitGroup
counters, `pc` and `todo` the position of `run`. A collector records or misses
each key it attempts and may return an error at any point. `OpenStore`,
`UploadKey`, `ExportFails` and `ExportReturns` are `Export`, over three kinds of
storage configuration (none, a SAS for the account, a SAS for one container) and
three clouds: public, Azure Stack, and Azure Stack whose JSON file is missing,
where `GetStorageEndpointSuffix` ends the process (`FatalExport`). The zip is
written entry by entry (`ZipEntry`, `BadZipEntry`). A closure over the loop's
variable is not an issue: the code passes it as an argument.

### WindowsLogs

`ids` is the history of the ConfigMap, `sees` the version each of the two pods
sees. The script's loop is `ReadRunId`, `CollectLogs`, `Remove` (entry by entry,
in any order, the markers too), `StartExpand`, `Expand` (log by log) and `Mark`;
`ScriptFails` is any error in any of them (`$ErrorActionPreference = "Stop"`),
after which kubelet starts the script with no memory. A log in the folder carries
the version it was collected for, and that is all the properties need of its
content. The collector's `data` holds paths, and `Export` and `ZipEntry` read the
folder as it then is.

### OsmCollector

`pc` with `mesh`, `ns`, `pod` and the four `...Left` variables is the position of
`Collect` in its nested loops; `fwd` is where each pod's forwarder goroutine is,
`ready` and `stopped` are its two channels, closed or not, and an error waits to
be sent while the goroutine is `"failing"`. `port` is the one local port they all
use. `data` keeps for each key where its value came from, so that an answer of
the wrong pod would show. `Listen`, `PortTaken`, `Disconnect` and `ReleasePort`
are client-go's `ForwardPorts`: it listens, closes `readyChan`, waits for
`stopChan` or a lost connection, closes the connection and then the listener.
The text of an error that is recorded in place of a value is not told from the
value, and a port that is taken for one of tcp4 and tcp6 only is left out.

### Collectors

`Plans` has for each collector the steps of its `Collect` in order. A step asks
for something; `onError` is what the code does when that fails: `"return"` the
error, `"log"` it and `continue` (`PassOver`, which leaves out what is left of the
same item: an object, or one resource of it), `"record"` its text as the value,
or `"return_nil"`, line 74 of `systemperf_collector.go`. `keys` is what success
records. The step `"panic"` is the loop over a pod's containers that indexes its
statuses. Keys are built as the code builds them: a path is a sequence of names
and a name a sequence of the words that `_` joins, so that replacing `/` by `_` is
flattening; before a leading `/` or `_` stands an empty word, which `LogKey` cuts off.
The names of pods and containers are words joined by `-`. `failed` and
`noted` (history) tell the errors from those that are in the log or the data.
One collector at a time is enough, since they share nothing but the process. The
plan `networkconfig` is the two collectors that one diagnoser reads from, one
after the other: the first never fails. A list of CRDs is asked for in version
`v1` and, if the cluster has no such version, in `v1beta1` (`FallBack`).

### Diagnosers

A diagnoser runs when its collectors have returned, with or without success, and
reads what is then in their fields (`Left`): nothing, the text of an error, or a
text of `says`. Here the content matters, because the code parses it: a text is a
sequence of lines of words, and `Split` is `strings.Split(text, " ")`, whose tokens
join words across the ends of lines. `GetDns`, `MaxPods` and `NetworkPlugin` are the
three loops over those tokens; `DiagnosePanics` is the index past the last one. The
other diagnoser's merging of samples has one sample per value, as a comment in the
code says, so that `Outbound` is one interval per target.

### RuntimeInfo

`volume` holds, for the ConfigMap's and the Secret's volume, the contents that
kubelet has projected so far; `Project` adds one between any two steps, for all
files of one volume at once. `readFileContent` is two steps, `FileExists` and then
`ReadContent` or `FileVanished`, over `Reads`, the files in the order of the code.
`got` remembers whether each file was there and the version it was read from;
`errs` is the multierror by its kinds. The run's second half is `CollectionRun`;
here it is `StartCollectors`, which evaluates every `CheckSupported`, and `EndRun`.
The run ID's watcher is its abstract specification, `ChangeFeed`: what holds here
holds for the watcher that implements it.

## Runs

| Run | Configuration | Shows |
|---|---|---|
| `watcher` | `MCFileContentWatcher.cfg` | a content, or an error, that stays arrives at every handler; no handler is left out of a notification; a channel never gets a content's version twice or an older one; the watcher implements `ChangeFeed`, liveness included |
| `main` | `MCPeriscope.cfg` | a process runs one version at most three times; it exits only for a reason, and not for ever once the file is readable; a new run ID that stays is run to its end |
| `main_reverted` | `MCPeriscopeReverted.cfg` | finding: a run ID that comes back may never be run |
| `run` | `MCCollectionRun.cfg` | diagnosers read settled data; the zip misses nothing; failures are isolated; a run is phased; the run, or the process, ends |
| `windows` | `MCWindowsLogs.cfg` | a marker means complete logs; a run of a new run ID never reads older logs; an undisturbed run is whole, and its zip is what it uploaded; the last run ID gets its logs and keeps them |
| `windows_moved` | `MCWindowsLogsMoved.cfg` | finding: a run may upload the next run's logs as its own |
| `osm` | `MCOsmCollector.cfg` | answers are stored under the pod they are of; early errors are received; a failed namespace costs nothing else; `Collect` returns and the port is let go |
| `osm_port` | `MCOsmCollectorPort.cfg` | finding: a pod may find the port taken by the one before it, and the rest of its namespace is left out |
| `collectors` | `MCCollectors.cfg` | a collector that reports success has all it went for or has said why not (one exception), and values are lost only to namesakes; a diagnosis holds nothing that its node does not, and is made (one exception); crashes over pods without statuses end once the pods have started |
| `collectors_crash` | `MCCollectorsCrash.cfg` | finding: a pod that does not start keeps every run from ending |
| `dns` | `MCCollectorsDns.cfg` | finding: of the name server in a pod's `resolv.conf` no signal is generated |
| `runtime` | `MCRuntimeInfo.cfg` | a run uses nothing older than its run ID; the process ends only for a reason; it has exactly the collectors that are documented for what the ConfigMap held while it was read, and none opens a path its operating system lacks; the last run ID is run |

### Bounds, and why they are enough

- `MaxWrites`, `MaxChanges` (versions of a file): a pass compares a file only with the
  last recorded value, and a notification can be behind by one recorded value and
  one that is being read. In `Periscope` four versions are needed for a version to
  be run three times, and with four `AtMostThreeRuns` is tight (two runs are
  exceeded). In the watcher's run the two files are written twice in all, in any
  order: content, error and content, or one change of each file in a pass.
- `Contents`: two non-empty contents tell apart "changed" and "changed back";
  the watcher's run has one, and the empty and the unreadable file.
- One file with two handlers, and a second file whose handler has the channel of
  one of them, contain every order of a pass and of the range loops.
- `MaxFailures`, `MaxCrashes`: one each, in any step, before or after any other.
  After a crash nothing of the process is left, so a second is a first again.
- Two collectors, one diagnoser that reads both, keys {k1, k2} for one collector:
  the smallest instance with two goroutines in one WaitGroup, a failing one
  beside a succeeding one, and an export that stops between two keys.
- Three ConfigMap versions of two run IDs (one comes back), two logs (one
  removed, one not), one failure of the script in any step: the script that starts
  after it knows nothing, and only the folder may differ from a first start's.
- A mesh with two namespaces and one with none, a pod's name in two namespaces,
  two queries, `MaxRetries` 2 for the code's 5, two errors anywhere: three
  forwarders in a row, two of them in one namespace, so that one may start while
  the one before it ends, in the same namespace or the last; a query that
  succeeds, one that is retried and one that is given up.
- Lists of one to three items, nested lists of two and one, two failures in any
  steps: the first, the middle and the last item may fail, alone or with another,
  of the same outer item or of another; two of three paths, two containers, and two pods of
  one name in two namespaces that share a key; of Kubernetes objects a kind listed
  twice and one of its resources by name as well (one key, and `PassOver` must not
  leave out the second listing); any set of pods started at first.
  The diagnosers' texts: a server on the first line or behind another, two servers,
  a last word "nameserver"; an argument in the middle of a command or at its end.
- Two versions of each of the two volumes, out of five ConfigMaps (blank, with an
  empty collector list, with two different lists, without the run ID) and two Secrets, projected between any two of
  the some twenty steps of the reading; one failure, or a host name that is not set.
  A run reads each file once, so that a third version could only replace the second
  in what it has read.

Symmetry is not used: most runs check liveness.

### Fairness, and why the code justifies it

- A goroutine that can take a step takes it (weak fairness of the poller's, the
  runner's, main's and the producers' steps): the Go scheduler.
- The ticker fires: `time.Ticker`.
- A watcher's client returns to its receive (`Listen`): in `FileContentWatcher`
  an assumption on clients; in `Periscope` it is no assumption but the program.
- A run ends (`EndRun`), a `Collect` and an upload return: assumed, `run` sets no
  deadline, and only the Windows logs collector has a timeout.
- kubelet restarts a container and refreshes a volume (`Restart`,
  `Project("script")`).
- In `RuntimeInfo` a projection, and an I/O error, need not happen; reading goes on,
  runs end and kubelet restarts the container.
- Kubernetes' API answers `Collect` and the forwarders' dials, and a forwarder whose
  `stopChan` is closed sees it; nothing obliges it to before the next one starts.
- In `Collectors` nothing obliges a pod to start: `EndsOnceStarted` has it as its
  premise.
- Nothing obliges a file to change, a run to fail or a process to crash.
- `Periscope`'s weak fairness of `BeginRun \/ NoRuntimeInfo` together: the call
  returns or exits.

## Theorems

For all values of the constants, subject to the named assumptions:

- `FileContentWatcherProofs`: `TypeCorrect`, `NoHandlerIsMissed`,
  `ContentIsAlwaysNewer` and `FeedIsImplemented` (the safety part of
  `ChangeFeed`). `NoHandlerMissed` alone is not inductive: the invariant `IInv`
  adds that nothing is recorded before `Start`, that the handlers of a file have
  distinct channels (otherwise one send overwrites what the other delivered),
  that what an item records was on disk at the recorded version and that nothing
  seen is newer than what is recorded. Assumptions: the special contents are
  distinct from the others, content and error channels are disjoint.
- `CollectionRunProofs`: `TypeCorrect` (a WaitGroup counter is never negative),
  `DataIsSettled`, `NothingIsLeftOut`, `FailuresAreIsolated` and `RunIsPhased`
  (the refinement of `PhasedRun`). The invariant counts: each WaitGroup's counter
  is the cardinality of the set of its goroutines that have not ended
  (`Counted`), which makes a counter of zero mean that none is left
  (`WaitIsOver`); `Ordered` says what the loops and waits have established at each
  `pc`, and `ExportsInStep` relates a producer's blobs to its data at each stage.
  Assumptions: collectors and diagnosers are finite, disjoint sets.
- `PeriscopeProofs`: `TypeCorrect`, `ThreeRunsAtMost` and `ExitIsForCause`, about the
  process with its watcher (the watcher's type invariant is part of `TypeOK`). That
  a version is run three times at most is an invariant that counts: the runs of it
  so far, and `Coming`, what can still start one. That is one for a notification the
  runner has taken, one for a value the poller is sending, one for a version the
  poller has yet to find; only a write of the file, which makes a new version, puts
  anything back into `Coming` (`RunsCounted`). For that the item has to say of the
  disk's version what the disk says (`ItemWasOnDisk`). `ExitsForCause` needs
  `Unspoiled`: while the file was always readable and never blanked, no error is
  recorded, and nothing is sent before there is a run ID. Assumptions: the file is
  there at the start, as version 1 (`MaxWrites` is not 0), and an empty and an
  unreadable file are no run IDs (`ValueAssumption`).
- `WindowsLogsProofs`: `TypeCorrect`, `MarkerKeepsItsWord`, `NothingIsOlder` and
  `UndisturbedIsWhole`, wherever the script is ended and started again. The folder's
  side is `FolderInOrder`: a marker stands beside logs of its own run ID only, for a
  version behind which the script has not gone, and there is none while it expands.
  The reader's side is `FolderIsNew`: once the collector has seen the marker of a new
  run ID, nothing older is or comes into the folder, though the script may be serving
  a later one by then. `FolderStands` says what the run holds at each of its steps as
  long as the script has removed nothing. Assumption: the script's initial
  `previousRunId` is not a run ID (`IdAssumption`).
- `OsmCollectorProofs`: `TypeCorrect`, `AnswersComeFromThePod`, `NoEarlyErrorIsLeft`
  and `DoneMeshIsWhole`, for any meshes, namespaces, pods and queries. That an answer
  is the pod's own rests on the port: only the current pod's forwarder can be about to
  listen (`OnItsWay`), one that listens has the port (`ReadyWhenListening`), and so after
  `readyChan` nobody else has it (`PortIsThePods`); and no pod is visited twice
  (`VisitedOnce`), so that an old forwarder of the same pod is not in the way.
  `ResourcesSoFar` carries `MeshesAreWhole` through the loop over the namespaces.
  Assumptions: a namespace is monitored by one mesh (its label names one), `NoPod` is
  no pod (`ClusterAssumption`), and there is at least one attempt at a query.
- `DiagnosersProofs`: `TypeCorrect`, `SuccessIsNeverPartial` and `OnlyNamesakesReplace`, for
  the twelve collectors under `DSpec`, that is with the diagnosers and the restarts, whatever
  the lists of paths, units, pods, objects, releases and CRDs hold.
  The invariant is `WholeSoFar`: while `Collect` goes on, each planned step is still to
  come, has its keys, or is explained by an item that was noted, and nothing that
  failed is not noted; with no step to come this is `SuccessIsWhole`.
  `KeysAreOfTheirSteps` adds that a key holds the item of a step that has it.
  What the plans themselves must satisfy is proved of each of them (`EveryPlan`): a plan is a
  sequence of steps, a look at a pod's statuses or a try of one API version records nothing
  itself, and only steps of one name share a key (`SharersAreNamesakes`). Assumption: the
  lists are sequences of what they list, and no path is empty (`InputAssumption`).
- `DiagnosersProofs`, of the diagnosers: `DiagnosersTypeCorrect` and `DiagnosisOfTheNode`,
  for texts of any number of lines and words. The invariant `DIInv` adds that a report is
  made in one step and stands as long as what it was made from (`ReportIsMade`): neither
  the data nor the failures change once a diagnoser has run. The rest is about the code's
  parsing. `SplitFacts` relates the tokens of `Split` to the words of the text by three
  facts that are inductive over its lines: where one token ends and the next begins, two
  words of the text follow each other (`Meets`); a token begins with a word of the text
  (`BeginsInText`); a word with others on both sides is a token (`IsAToken`). From them
  `ServersStandAfter` and `OneServer` (`getDns`), `NothingInErrors` (the error's words are no
  arguments and no "nameserver") and `MaxPodsFacts`, `NetworkPluginFacts`. Assumptions: a
  text has a line and a line a word (`TextAssumption`); the words of the error and of the
  empty field are strings and no arguments, and "azurecni" is a string
  (`ArgumentAssumption`), which TLA+ knows of the words written in a module and no prover does.
- `SequenceLemmas`: the library's induction theorems take a predicate as a parameter, which
  none of the provers can instantiate. `Induction` says the same of a set of numbers,
  derived from the well-foundedness of `<`, and `Recursion` that a function defined by
  recursion up to a number exists and satisfies its equations. On these two rest the facts about
  `FlattenSeq`, `Split`, `GetDns` and the plans, all written as recursive functions or with
  the community modules' folds.
- `RuntimeInfoProofs`: `TypeCorrect`, `NothingIsOlder`, `EndsForCause` and
  `RunIsAsConfigured`, for any contents of the two volumes and however often they
  are replaced. None of the
  properties is inductive: `Grown` says that the volumes only grow and that no
  history is ahead of them, `InOrder` says of every prefix of the files read what
  `NothingOlderThanRunId` says of all of them, and `Undisturbed` says what the
  process knows while no volume has been replaced: the file it is about to open is
  there, nothing has vanished, and an error about the run ID is one about the
  file. For `RunsWhatWasConfigured` two more are needed. `Chosen` says that the
  producers of a run remain those that the values it has read select (`SameChoice`:
  projections only add versions). `ReadAsItWas` says what those values are worth: while
  nothing has gone wrong, a file was found if and only if the version it is remembered
  of has it (`Truly`), and the ConfigMap's files are of versions that were there during
  the call, none older than that of a file read before (`InTime`). These versions are
  the witnesses, and `ListIsDocumented` shows that what `CheckSupported` admits is the
  documented set for them, member by member in both directions. Assumptions: there is at least
  one version of each volume, the special run IDs are distinct from the others
  (`ValueAssumption`), and a ConfigMap's run ID is one of `RunIds` or empty
  (`RunIdAssumption`).

Every invariant that a passing run checks is a theorem, and so are its step properties and
the safety part of its refinements. Model-checked only: liveness (`StableContentDelivered`,
`StableErrorDelivered`, the liveness of `ImplementsFeed`, `NewRunIdCompletes`, `NoCrashLoop`,
`RunEnds`, `LogsArrive`, `PortIsReleased`, `EndsOnceStarted`, `DiagnosisEnds`,
`NewRunIdIsRun`), because temporal proofs under fairness and ENABLED are beyond this prover.

## Findings

1. `aks-periscope.go:46`: the run ID is read again by `run`. When the file goes
   r1, r2, r1 around a notification the runner runs r2 for r1's notification, the
   watcher sees no change back to r1, and r1 is never run (`AnyRunIdCompletes`).
   With run IDs that are never reused (the README's convention is a timestamp)
   every one that stays is run (`NewRunIdCompletes`). For the same reason the run ID
   in the log lines of lines 45 and 51 is not always the one that is run.
2. `windowslogs_collector.go:95`: the logs are recorded by path and opened later;
   the script may have replaced them by the next run ID's (`LogsAreOfThisRun`).
   Under unique run IDs they are never older (`NeverOlder`).
3. `osm_collector.go:195`: nobody waits for a stopped forwarder, and all use port
   15000: the next one may find it taken, and its error ends the namespace's loop,
   so that the remaining pods are never queried (`EveryPodIsQueried`).
4. `pods_containerlogs_collector.go:88`: a pod that no node has taken has no
   container statuses; indexing them panics and ends the process, and its
   successor meets the same pod (`CollectEnds`).
5. `networkconfig_diagnoser.go:81`: `getDns` splits at spaces and not at newlines. In the
   form that container runtimes write, `nameserver` begins the second line and is
   joined to the last word of the first: the file is collected, but the signal
   `KubernetesDNS` is null, although "basic diagnostic signals are generated by analyzing
   these raw data" (`src/README.md:38`; `DnsSignalsAreGenerated`).

What the checks showed beside these: a file that goes from a content through an
error to empty is never announced as empty (`fileContentWatcher.go:62`; `ChangeFeed`
says so in `LastContent`), which for the run ID costs nothing. A run may combine the
storage account of one version of the Secret with the SAS of the next: each file is
read from the version that is there. So the procedure of `README.md:132`, "update the
`AZURE_BLOB_SAS_KEY` value in the Secret first", then the run ID, holds once kubelet has
projected the Secret, and no sooner; that much is `NothingOlderThanRunId`. And an
optional file that the ConfigMap loses between `FileExists` and the open ends the
process; its successor then runs the run ID (`NewRunIdIsRun`).
An argument `--max-pods` at the end of kubelet's command line is reported as 0. Further, `systemperf_collector.go:74` returns an error that is nil; it is the
exception that `SuccessIsWhole` names.

## Not modelled

The content of what is collected (but for what the diagnosers parse), its
formatting and redaction; of the Kubernetes command runner the requests and
printers (I/O); accessors such as `stringDataValue.go`; the tests' fixtures; the
deployment beyond the restart of a container and the projection of a ConfigMap and
a Secret. That one call to an API, a command of the node or an upload hangs for
ever is excluded by the fairness stated above.

## Plan

The order is that of importance: first the promise to act on a run ID, then what
a run promises, then the hand-over between two pods and the collector with
goroutines of its own, then the loops of the others, the configuration of a run and
the diagnosers. All of it is done, with theorems about every module that has actions.
What is left open is liveness, which stays with TLC, and the parts listed above as not
modelled.
