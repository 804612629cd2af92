---- MODULE WindowsLogs ----
(***************************************************************************)
(* pkg/collector/windowslogs_collector.go and the script it waits for,     *)
(* deployment/components/win-hpc/CollectDiagnostics.ps1.                   *)
(*                                                                         *)
(* They run in two pods of the same node and share a folder of the host.   *)
(* Each sees the run ID through its own projection of the ConfigMap.  For  *)
(* a run ID it has not just served the script collects logs, replaces the  *)
(* content of the folder by them and adds an empty file named after the    *)
(* run ID.  The collector waits for that file, and then lists, sizes and   *)
(* exports the logs; what it holds of a log is its PATH, which the export  *)
(* and the zip each open again.  Nothing keeps the script from replacing   *)
(* the logs meanwhile.                                                     *)
(*                                                                         *)
(* A log is told apart by the version of the ConfigMap it was collected    *)
(* for.  What an export or a zip entry reads of one log is read in one     *)
(* step.                                                                   *)
(***************************************************************************)
EXTENDS Integers, Sequences, FiniteSets

CONSTANTS
  RunIds,
  Logs,         \* the files collect-windows-logs.ps1 puts in its zip
  NoId,         \* no run ID: an empty projection, or previousRunId of a script that starts
  MaxVersions,  \* bound: run IDs given to the ConfigMap
  MaxFailures   \* bound: ends of the script by an error

ASSUME IdAssumption == NoId \notin RunIds
ASSUME BoundAssumption == MaxVersions \in Nat /\ MaxFailures \in Nat

VARIABLES
  ids,        \* the run IDs of the ConfigMap, oldest first; a version is an index
  sees,       \* "script" and "periscope" -> the version projected into its pod, 0 for none
  script,     \* pc, the version it serves, previousRunId
  markers,    \* run IDs that have a file in the folder
  logs,       \* log -> the version it was collected for, 0 when not in the folder
  collector,  \* pc, and the version of the run
  left,       \* paths the collector's loop, then the zip's, has still to come to
  data,       \* paths recorded
  blobs,      \* log -> version exported by this run, 0 when none
  zipped,     \* log -> version in the zip of this run, 0 when none
  failures,   \* ends of the script by an error so far
  cut,        \* history: the last removal was cut short by one
  disturbed   \* history: a removal was under way or cut short when the collector saw the
              \* marker, or removed a log since

folder == <<markers, logs>>
run == <<collector, left, data, blobs, zipped>>
vars == <<ids, sees, script, folder, run, failures, cut, disturbed>>

Present == {f \in Logs : logs[f] # 0}
None == [f \in Logs |-> 0]
IdOf(v) == IF v = 0 THEN NoId ELSE ids[v]

----------------------------------------------------------------------------
(* Slips of the code that the properties below must notice. *)

NotEmptied == TRUE
MarkedEarly == {ids[script.ver]}
NeverMarked == {}
AnyMarker == markers # {}
WholeFolder == Present \cup markers

Init ==
  /\ ids = << >>
  /\ sees = [p \in {"script", "periscope"} |-> 0]
  /\ script = [pc |-> "loop", ver |-> 0, previous |-> NoId]
  /\ markers = {} /\ logs = None
  /\ collector = [pc |-> "idle", ver |-> 0]
  /\ left = {} /\ data = {} /\ blobs = None /\ zipped = None
  /\ failures = 0
  /\ cut = FALSE
  /\ disturbed = FALSE

----------------------------------------------------------------------------
(* The ConfigMap and its two projections. *)

SetRunId(r) ==
  /\ Len(ids) < MaxVersions
  /\ r # IdOf(Len(ids))
  /\ ids' = Append(ids, r)
  /\ UNCHANGED <<sees, script, folder, run, failures, cut, disturbed>>

(* kubelet brings a pod's volume up to date, in its own time. *)
Project(p) ==
  /\ sees[p] # Len(ids)
  /\ sees' = [sees EXCEPT ![p] = Len(ids)]
  /\ UNCHANGED <<ids, script, folder, run, failures, cut, disturbed>>

----------------------------------------------------------------------------
(* CollectDiagnostics.ps1 *)

Script(from, to) ==
  /\ script.pc = from /\ script' = [script EXCEPT !.pc = to]
  /\ UNCHANGED <<ids, sees, run, failures>>

(* The loop finds a run ID that is not the previous one. *)
ReadRunId ==
  /\ script.pc = "loop"
  /\ IdOf(sees["script"]) \notin {NoId, script.previous}
  /\ script' = [script EXCEPT !.pc = "collect", !.ver = sees["script"]]
  /\ UNCHANGED <<ids, sees, folder, run, failures, cut, disturbed>>

CollectLogs == Script("collect", "remove") /\ UNCHANGED <<folder, cut, disturbed>>

(* Remove-Item, in any order. *)
Remove ==
  /\ Script("remove", "remove")
  /\ \/ \E r \in markers : markers' = markers \ {r} /\ UNCHANGED <<logs, disturbed>>
     \/ \E f \in Present : /\ logs' = [logs EXCEPT ![f] = 0]
                           /\ disturbed' = TRUE
                           /\ UNCHANGED markers
  /\ UNCHANGED cut

Emptied == markers = {} /\ Present = {}

StartExpand ==
  /\ Script("remove", "expand") /\ Emptied
  /\ cut' = FALSE
  /\ UNCHANGED <<folder, disturbed>>

(* Expand-Archive; -Force replaces what is there. *)
Expand ==
  /\ Script("expand", "expand")
  /\ \E f \in Logs :
       /\ logs[f] # script.ver
       /\ logs' = [logs EXCEPT ![f] = script.ver]
  /\ UNCHANGED <<markers, cut, disturbed>>

Marker == IF \A f \in Logs : logs[f] = script.ver THEN {ids[script.ver]} ELSE {}

(* New-Item, and the assignment of previousRunId. *)
Mark ==
  /\ script.pc = "expand" /\ Marker # {}
  /\ markers' = markers \cup Marker
  /\ script' = [script EXCEPT !.pc = "loop", !.previous = ids[script.ver]]
  /\ UNCHANGED <<ids, sees, logs, run, failures, cut, disturbed>>

(* $ErrorActionPreference = "Stop": any error ends the script, and kubelet starts it again. *)
ScriptFails ==
  /\ failures < MaxFailures /\ failures' = failures + 1
  /\ script' = [pc |-> "loop", ver |-> 0, previous |-> NoId]
  /\ cut' = (cut \/ script.pc = "remove")
  /\ UNCHANGED <<ids, sees, folder, run, disturbed>>

----------------------------------------------------------------------------
(* WindowsLogsCollector.Collect, and what run() does with its data. *)

Collector(from, to) ==
  /\ collector.pc = from /\ collector' = [collector EXCEPT !.pc = to]
  /\ UNCHANGED <<ids, sees, script, folder, failures, cut>>

(* A run begins with a new collector; Periscope.tla says when, here it is at any time. *)
BeginRun ==
  /\ collector.pc = "idle" /\ sees["periscope"] # 0
  /\ collector' = [pc |-> "poll", ver |-> sees["periscope"]]
  /\ left' = {} /\ data' = {} /\ blobs' = None /\ zipped' = None
  /\ UNCHANGED <<ids, sees, script, folder, failures, cut, disturbed>>

(* FileExists(completionNotificationPath) *)
Notified == ids[collector.ver] \in markers

SeeMarker ==
  /\ Collector("poll", "list") /\ Notified
  /\ disturbed' = (cut \/ script.pc = "remove")
  /\ UNCHANGED <<left, data, blobs, zipped>>

(* ListFiles of the logs directory *)
Listed == Present

List ==
  /\ Collector("list", "size")
  /\ left' = Listed
  /\ UNCHANGED <<data, blobs, zipped, disturbed>>

(* GetFileSize, and the value that holds the path. *)
Record(f) ==
  /\ Collector("size", "size")
  /\ f \in left /\ logs[f] # 0
  /\ left' = left \ {f} /\ data' = data \cup {f}
  /\ UNCHANGED <<blobs, zipped, disturbed>>

(* Collect returns an error: no marker in 20 minutes, no logs directory, a log that is gone, *)
(* or any other error of the file system.  The run goes on to the zip.                      *)
CollectFails ==
  /\ \E pc \in {"poll", "list", "size"} : Collector(pc, "zip")
  /\ left' = data
  /\ UNCHANGED <<data, blobs, zipped, disturbed>>

CollectReturns ==
  /\ Collector("size", "export") /\ left = {}
  /\ left' = data
  /\ UNCHANGED <<data, blobs, zipped, disturbed>>

Export(f) ==
  /\ Collector("export", "export")
  /\ f \in left /\ logs[f] # 0
  /\ left' = left \ {f} /\ blobs' = [blobs EXCEPT ![f] = logs[f]]
  /\ UNCHANGED <<data, zipped, disturbed>>

(* Every value is exported, or Export stops at one that is gone or cannot be uploaded. *)
EndExport ==
  /\ Collector("export", "zip")
  /\ left' = data
  /\ UNCHANGED <<data, blobs, zipped, disturbed>>

(* An entry of a log that is gone stays empty. *)
ZipEntry(f) ==
  /\ Collector("zip", "zip")
  /\ f \in left
  /\ left' = left \ {f} /\ zipped' = [zipped EXCEPT ![f] = logs[f]]
  /\ UNCHANGED <<data, blobs, disturbed>>

EndRun ==
  /\ Collector("zip", "idle") /\ left = {}
  /\ UNCHANGED <<left, data, blobs, zipped, disturbed>>

(* Periscope's process ends, at any time, and starts again. *)
Restart ==
  /\ collector' = [pc |-> "idle", ver |-> 0]
  /\ left' = {} /\ data' = {} /\ blobs' = None /\ zipped' = None
  /\ UNCHANGED <<ids, sees, script, folder, failures, cut, disturbed>>

----------------------------------------------------------------------------

Config == (\E r \in RunIds : SetRunId(r)) \/ (\E p \in {"script", "periscope"} : Project(p))
Collection == ReadRunId \/ CollectLogs \/ Remove \/ StartExpand \/ Expand \/ Mark
Run ==
  \/ BeginRun \/ SeeMarker \/ List \/ CollectFails \/ CollectReturns \/ EndExport \/ EndRun
  \/ \E f \in Logs : Record(f) \/ Export(f) \/ ZipEntry(f)

Next == Config \/ Collection \/ ScriptFails \/ Run \/ Restart

(* The script runs, and kubelet keeps its volume up to date. *)
Fairness == WF_vars(Project("script")) /\ WF_vars(Collection)

Spec == Init /\ [][Next]_vars /\ Fairness

----------------------------------------------------------------------------
(* Properties *)

(* The type of every variable. *)
TypeOK ==
  /\ ids \in Seq(RunIds) /\ Len(ids) <= MaxVersions
  /\ sees \in [{"script", "periscope"} -> 0..Len(ids)]
  /\ script \in [pc : {"loop", "collect", "remove", "expand"}, ver : 0..Len(ids),
                 previous : RunIds \cup {NoId}]
  /\ script.pc # "loop" => script.ver # 0
  /\ markers \subseteq RunIds
  /\ logs \in [Logs -> 0..Len(ids)]
  /\ collector \in [pc : {"idle", "poll", "list", "size", "export", "zip"}, ver : 0..Len(ids)]
  /\ left \subseteq Logs /\ data \subseteq Logs
  /\ blobs \in [Logs -> 0..Len(ids)] /\ zipped \in [Logs -> 0..Len(ids)]
  /\ failures \in 0..MaxFailures
  /\ cut \in BOOLEAN /\ disturbed \in BOOLEAN

Holds(r) == \A f \in Logs : logs[f] # 0 /\ ids[logs[f]] = r

(* The marker keeps its word: outside a removal, and unless one was cut short, a file named *)
(* after a run ID stands beside all the logs collected for that run ID, though the script   *)
(* is restarted in any step (CollectDiagnostics.ps1:19-29).                                 *)
MarkerMeansComplete ==
  \A r \in markers : script.pc = "remove" \/ cut \/ Holds(r)

(* A run of a run ID the ConfigMap never held before exports and zips no log collected for  *)
(* an earlier one, whatever the two pods see, in whatever order a removal proceeds or is    *)
(* cut short, and although the paths are opened again later                                 *)
(* (windowslogs_collector.go:69-96).                                                        *)
NeverOlder ==
  (\A v \in 1..(collector.ver - 1) : ids[v] # ids[collector.ver]) =>
    \A f \in Logs : \A read \in {blobs[f], zipped[f]} : read # 0 => read >= collector.ver

(* A run that the script leaves alone from the marker on, and whose every step succeeds,    *)
(* exports all the logs of its run ID, and zips the very same (windowslogs_collector.go,    *)
(* azureblob_exporter.go:87-107, zip.go:17-47).                                             *)
UndisturbedRunIsWhole ==
  (collector.pc = "idle" /\ collector.ver # 0 /\ ~disturbed /\ data # {} /\ \A f \in data : blobs[f] # 0)
    => /\ data = Logs /\ blobs = zipped
       /\ \A f \in Logs : ids[blobs[f]] = ids[collector.ver]

(* Once the run ID stays the script serves it, and leaves its logs and marker in place,     *)
(* although it was restarted in the middle (CollectDiagnostics.ps1:13-33).                  *)
LogsArrive ==
  \A r \in RunIds :
    <>[](IdOf(Len(ids)) = r) => <>[](r \in markers /\ Holds(r))

(* "We should now expect to find a 'logs' directory containing all the logs for this run"   *)
(* (windowslogs_collector.go:81): what is exported was collected for the run ID of the run. *)
LogsAreOfThisRun ==
  \A f \in Logs : blobs[f] # 0 => ids[blobs[f]] = ids[collector.ver]
====
