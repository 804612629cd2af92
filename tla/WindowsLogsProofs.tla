---- MODULE WindowsLogsProofs ----
(* Theorems about WindowsLogs, for any run IDs, logs and bounds. *)
EXTENDS WindowsLogs, TLAPS

----------------------------------------------------------------------------
(* The inductive invariant *)

(* The script's side of the folder: a marker beside logs that are all of its run ID, put there *)
(* for a version that the script has not gone behind since.  Only a removal leaves some out.   *)
FolderInOrder ==
  /\ script.pc # "loop" => script.ver <= sees["script"]
  /\ script.pc = "expand" => markers = {}
  /\ \A r \in markers :
       /\ \A f \in Present : ids[logs[f]] = r
       /\ \E v \in 1..sees["script"] : ids[v] = r /\ (script.pc # "loop" => v <= script.ver)

(* The collector has seen its run ID's marker, and the run still uses what it found. *)
Saw == collector.pc \in {"list", "size", "export"} \/ data # {}

NewId == \A v \in 1..(collector.ver - 1) : ids[v] # ids[collector.ver]

(* From then on nothing older comes into the folder, if the run ID is new. *)
FolderIsNew ==
  Saw /\ NewId =>
    /\ collector.ver <= sees["script"]
    /\ script.pc # "loop" => collector.ver <= script.ver
    /\ \A f \in Present : collector.ver <= logs[f]

(* What the collector holds at each step. *)
InStep ==
  /\ collector.pc # "idle" \/ data # {} => collector.ver # 0
  /\ collector.pc \in {"poll", "list"} => data = {}
  /\ collector.pc \in {"poll", "list", "size"} => blobs = None
  /\ collector.pc \in {"export", "zip", "idle"} => left \subseteq data
  /\ collector.pc = "idle" => left = {}

(* As long as the script has removed nothing, the folder is the one the marker stood for, and  *)
(* what was exported and zipped is what is still there.                                        *)
FolderStands ==
  Saw /\ ~disturbed =>
    /\ Holds(ids[collector.ver])
    /\ script.pc = "expand" => Logs = {}
    /\ collector.pc = "size" => data \cup left = Logs
    /\ collector.pc = "export" => data = Logs
    /\ (\E f \in Logs : blobs[f] # 0) => data = Logs
    /\ \A f \in Logs : blobs[f] \in {0, logs[f]}
    /\ collector.pc \in {"zip", "idle"} => \A f \in data \ left : zipped[f] = logs[f]

IInv ==
  /\ TypeOK
  /\ FolderInOrder
  /\ MarkerMeansComplete
  /\ FolderIsNew
  /\ NeverOlder
  /\ InStep
  /\ FolderStands

----------------------------------------------------------------------------
(* Types, and what a step leaves of the ConfigMap's history *)

LEMMA Appended ==
  ASSUME NEW S, NEW s \in Seq(S), NEW e \in S
  PROVE  /\ Append(s, e) \in Seq(S)
         /\ Len(s) \in Nat /\ Len(Append(s, e)) = Len(s) + 1
         /\ \A k \in 1..Len(s) : Append(s, e)[k] = s[k]
  OBVIOUS

LEMMA IdTypes ==
  ASSUME TypeOK
  PROVE  Len(ids) \in Nat /\ \A v \in 1..Len(ids) : ids[v] \in RunIds /\ ids[v] # NoId
<1>1. ids \in Seq(RunIds)
  BY DEF TypeOK
<1> QED
  BY <1>1, IdAssumption

(* Run IDs are only ever added. *)
LEMMA IdsGrow ==
  ASSUME TypeOK, [Next]_vars
  PROVE  /\ ids' \in Seq(RunIds)
         /\ Len(ids') \in Nat /\ Len(ids) <= Len(ids')
         /\ Len(ids') <= MaxVersions
         /\ \A v \in 1..Len(ids) : ids'[v] = ids[v]
<1>1. ids \in Seq(RunIds) /\ Len(ids) <= MaxVersions /\ Len(ids) \in Nat
  BY IdTypes DEF TypeOK
<1>2. ASSUME NEW r \in RunIds, SetRunId(r)
      PROVE  ids' = Append(ids, r) /\ Len(ids) < MaxVersions
  BY <1>2 DEF SetRunId
<1>3. ids' = ids \/ \E r \in RunIds : SetRunId(r)
  BY DEF Next, Config, Project, Collection, Script, ReadRunId, CollectLogs, Remove, StartExpand,
     Expand, Mark, ScriptFails, Run, Collector, BeginRun, SeeMarker, List, Record, CollectFails,
     CollectReturns, Export, EndExport, ZipEntry, EndRun, Restart, vars
<1>4. CASE ids' = ids
  BY <1>1, <1>4
<1>5. ASSUME NEW r \in RunIds, SetRunId(r)
      PROVE  /\ ids' \in Seq(RunIds) /\ Len(ids') = Len(ids) + 1 /\ Len(ids') <= MaxVersions
             /\ \A v \in 1..Len(ids) : ids'[v] = ids[v]
  BY <1>1, <1>2, <1>5, Appended, BoundAssumption
<1> QED
  BY <1>1, <1>3, <1>4, <1>5

LEMMA InitIInv == Init => IInv
<1> SUFFICES ASSUME Init PROVE IInv
  OBVIOUS
<1>1. ids = << >> /\ Len(ids) = 0
  BY DEF Init
<1>2. TypeOK
  <2>1. ids \in Seq(RunIds) /\ Len(ids) <= MaxVersions /\ 0 \in 0..Len(ids)
    BY <1>1, BoundAssumption DEF Init
  <2>2. script \in [pc : {"loop", "collect", "remove", "expand"}, ver : 0..Len(ids),
                    previous : RunIds \cup {NoId}]
    BY <2>1 DEF Init
  <2>3. failures \in 0..MaxFailures
    BY BoundAssumption DEF Init
  <2> QED
    BY <2>1, <2>2, <2>3 DEF Init, TypeOK, None
<1>3. FolderInOrder /\ MarkerMeansComplete
  BY DEF Init, FolderInOrder, MarkerMeansComplete
<1>4. ~Saw /\ FolderIsNew /\ FolderStands
  BY DEF Init, Saw, FolderIsNew, FolderStands
<1>5. NeverOlder
  BY DEF Init, NeverOlder, None
<1>6. InStep
  BY DEF Init, InStep
<1> QED
  BY <1>2, <1>3, <1>4, <1>5, <1>6 DEF IInv

LEMMA NextTypeOK == TypeOK /\ [Next]_vars => TypeOK'
<1> SUFFICES ASSUME TypeOK, [Next]_vars PROVE TypeOK'
  OBVIOUS
<1> DEFINE Versions == 0..Len(ids)
<1>1. /\ ids' \in Seq(RunIds) /\ Len(ids') <= MaxVersions
      /\ \A v \in Versions : v \in 0..Len(ids')
      /\ Len(ids') \in 0..Len(ids')
  BY IdsGrow, IdTypes
<1>2. /\ sees \in [{"script", "periscope"} -> Versions] /\ logs \in [Logs -> Versions]
      /\ blobs \in [Logs -> Versions] /\ zipped \in [Logs -> Versions]
      /\ script.ver \in Versions /\ 0 \in Versions
      /\ \A v \in Versions \ {0} : ids[v] \in RunIds
  BY IdTypes DEF TypeOK
<1>3. ASSUME NEW r \in RunIds, SetRunId(r) PROVE TypeOK'
  BY <1>1, <1>2, <1>3 DEF SetRunId, TypeOK, folder, run
<1>4. ASSUME NEW p \in {"script", "periscope"}, Project(p) PROVE TypeOK'
  BY <1>1, <1>2, <1>4 DEF Project, TypeOK, folder, run
<1>5. CASE ReadRunId
  BY <1>1, <1>2, <1>5 DEF ReadRunId, TypeOK, folder, run, IdOf
<1>6. CASE CollectLogs
  BY <1>1, <1>2, <1>6 DEF CollectLogs, Script, TypeOK, folder, run
<1>7. CASE Remove
  BY <1>1, <1>2, <1>7 DEF Remove, Script, TypeOK, folder, run
<1>8. CASE StartExpand
  BY <1>1, <1>2, <1>8 DEF StartExpand, Script, TypeOK, folder, run
<1>9. CASE Expand
  BY <1>1, <1>2, <1>9 DEF Expand, Script, TypeOK, folder, run
<1>10. CASE Mark
  BY <1>1, <1>2, <1>10 DEF Mark, Marker, TypeOK, folder, run
<1>11. CASE ScriptFails
  BY <1>1, <1>2, <1>11, BoundAssumption DEF ScriptFails, TypeOK, folder, run
<1>12. CASE BeginRun
  BY <1>1, <1>2, <1>12 DEF BeginRun, TypeOK, folder, None
<1>13. CASE SeeMarker
  BY <1>1, <1>2, <1>13 DEF SeeMarker, Collector, TypeOK, folder
<1>14. CASE List
  BY <1>1, <1>2, <1>14 DEF List, Listed, Present, Collector, TypeOK, folder
<1>15. ASSUME NEW f \in Logs, Record(f) PROVE TypeOK'
  BY <1>1, <1>2, <1>15 DEF Record, Collector, TypeOK, folder
<1>16. CASE CollectFails
  BY <1>1, <1>2, <1>16 DEF CollectFails, Collector, TypeOK, folder
<1>17. CASE CollectReturns \/ EndExport \/ EndRun
  BY <1>1, <1>2, <1>17 DEF CollectReturns, EndExport, EndRun, Collector, TypeOK, folder
<1>18. ASSUME NEW f \in Logs, Export(f) PROVE TypeOK'
  BY <1>1, <1>2, <1>18 DEF Export, Collector, TypeOK, folder
<1>19. ASSUME NEW f \in Logs, ZipEntry(f) PROVE TypeOK'
  BY <1>1, <1>2, <1>19 DEF ZipEntry, Collector, TypeOK, folder
<1>20. CASE Restart
  BY <1>1, <1>2, <1>20 DEF Restart, TypeOK, folder, None
<1>21. CASE UNCHANGED vars
  BY <1>21 DEF vars, TypeOK, folder, run
<1> QED
  BY <1>3, <1>4, <1>5, <1>6, <1>7, <1>8, <1>9, <1>10, <1>11, <1>12, <1>13, <1>14, <1>15, <1>16,
     <1>17, <1>18, <1>19, <1>20, <1>21 DEF Next, Config, Collection, Run

----------------------------------------------------------------------------
(* The folder *)

(* Steps that change neither the folder nor the script, and steps of the collector at that. *)
CollectorSteps == Run \/ Restart

LEMMA CollectorLeaves ==
  ASSUME CollectorSteps
  PROVE  UNCHANGED <<ids, sees, script, markers, logs, failures, cut>>
BY DEF CollectorSteps, Run, Collector, BeginRun, SeeMarker, List, Record, CollectFails,
   CollectReturns, Export, EndExport, ZipEntry, EndRun, Restart, folder

(* Only steps of the script and a new run ID touch what the collector holds. *)
LEMMA ScriptLeaves ==
  ASSUME Config \/ Collection \/ ScriptFails
  PROVE  UNCHANGED <<collector, left, data, blobs, zipped>>
BY DEF Config, SetRunId, Project, Collection, Script, ReadRunId, CollectLogs, Remove, StartExpand,
   Expand, Mark, ScriptFails, run

(* A log in the folder is of a version the ConfigMap had. *)
LEMMA PresentTypes ==
  ASSUME TypeOK, NEW f \in Present
  PROVE  f \in Logs /\ logs[f] \in 1..Len(ids) /\ logs[f] \in Nat
<1>1. f \in Logs /\ logs[f] \in 0..Len(ids) /\ logs[f] # 0
  BY DEF TypeOK, Present
<1> QED
  BY <1>1, IdTypes

LEMMA SeesTypes ==
  ASSUME TypeOK
  PROVE  \A p \in {"script", "periscope"} :
           sees[p] \in Nat /\ sees[p] <= Len(ids) /\ sees[p] \in 0..Len(ids)
<1>1. \A p \in {"script", "periscope"} : sees[p] \in 0..Len(ids)
  BY DEF TypeOK
<1> QED
  BY <1>1, IdTypes

(* Steps after which no marker stands that did not stand before, and no log that was not there. *)
LEMMA FolderKept ==
  ASSUME TypeOK, FolderInOrder, [Next]_vars, script'.pc # "expand",
         markers' \subseteq markers, \A f \in Logs : logs'[f] \in {0, logs[f]},
         sees["script"] <= sees'["script"], sees'["script"] \in Nat, sees["script"] <= Len(ids),
         script'.pc = "loop" \/ script'.ver = sees["script"] \/ (script.pc # "loop" /\ script'.ver = script.ver)
  PROVE  FolderInOrder'
<1>1. ASSUME NEW r \in markers', NEW f \in Present' PROVE ids'[logs'[f]] = r
  <2>1. f \in Present /\ logs'[f] = logs[f]
    BY <1>1 DEF Present
  <2> QED
    BY <1>1, <2>1, IdsGrow, PresentTypes DEF FolderInOrder
<1>2. ASSUME NEW r \in markers'
      PROVE  \E v \in 1..sees'["script"] : ids'[v] = r /\ (script'.pc # "loop" => v <= script'.ver)
  <2>1. PICK v \in 1..sees["script"] : ids[v] = r /\ (script.pc # "loop" => v <= script.ver)
    BY <1>2 DEF FolderInOrder
  <2>2. v \in 1..sees'["script"] /\ v \in 1..Len(ids)
    BY <2>1, IdTypes DEF TypeOK
  <2>3. ids'[v] = r
    BY <2>1, <2>2, IdsGrow
  <2> QED
    BY <2>1, <2>2, <2>3
<1>3. script'.pc # "loop" => script'.ver <= sees'["script"]
  <2>1. script.pc # "loop" => script.ver \in Nat
    BY IdTypes DEF TypeOK
  <2>2. sees["script"] \in Nat
    BY SeesTypes
  <2> QED
    BY <2>1, <2>2 DEF FolderInOrder
<1> QED
  BY <1>1, <1>2, <1>3 DEF FolderInOrder

(* kubelet never projects an older version than before. *)
LEMMA SeesGrow ==
  ASSUME TypeOK, [Next]_vars
  PROVE  \A p \in {"script", "periscope"} : sees[p] <= sees'[p] /\ sees'[p] \in Nat
<1>1. sees' = sees \/ \E p \in {"script", "periscope"} : sees' = [sees EXCEPT ![p] = Len(ids)]
  BY DEF Next, Config, SetRunId, Project, Collection, Script, ReadRunId, CollectLogs, Remove, StartExpand,
     Expand, Mark, ScriptFails, Run, Collector, BeginRun, SeeMarker, List, Record, CollectFails,
     CollectReturns, Export, EndExport, ZipEntry, EndRun, Restart, vars
<1>2. sees \in [{"script", "periscope"} -> 0..Len(ids)]
  BY DEF TypeOK
<1> QED
  BY <1>1, <1>2, SeesTypes, IdTypes

LEMMA NextFolderInOrder == IInv /\ [Next]_vars => FolderInOrder'
<1> SUFFICES ASSUME IInv, [Next]_vars PROVE FolderInOrder'
  OBVIOUS
<1>0. TypeOK /\ FolderInOrder
  BY DEF IInv
<1>a. script \in [pc : {"loop", "collect", "remove", "expand"}, ver : 0..Len(ids),
                  previous : RunIds \cup {NoId}]
  BY <1>0 DEF TypeOK
<1>1. CASE Config \/ CollectorSteps \/ UNCHANGED vars
  <2>1. UNCHANGED <<script, markers, logs>>
    BY <1>1, CollectorLeaves DEF Config, SetRunId, Project, vars, folder
  <2>2. \A p \in {"script", "periscope"} :
          sees[p] <= sees'[p] /\ sees'[p] \in Nat /\ sees[p] <= Len(ids)
    BY <1>0, SeesTypes, SeesGrow
  <2>3. CASE script.pc = "expand"
    <3>1. script.ver \in Nat /\ script.ver <= sees["script"] /\ markers = {}
      BY <1>0, <1>a, <2>3, IdTypes DEF FolderInOrder
    <3>2. sees["script"] \in Nat
      BY <1>0, SeesTypes
    <3> QED
      BY <2>1, <2>2, <2>3, <3>1, <3>2 DEF FolderInOrder
  <2>4. CASE script.pc # "expand"
    BY <1>0, <2>1, <2>2, <2>4, FolderKept
  <2> QED
    BY <2>3, <2>4
<1>2. CASE ReadRunId \/ CollectLogs \/ Remove \/ ScriptFails
  <2>1. /\ script'.pc # "expand" /\ markers' \subseteq markers /\ sees' = sees
        /\ \/ script'.pc = "loop" \/ script'.ver = sees["script"]
           \/ script.pc # "loop" /\ script'.ver = script.ver
    <3>1. CASE ReadRunId
      BY <1>a, <3>1 DEF ReadRunId, folder
    <3>2. CASE CollectLogs \/ Remove
      BY <1>a, <3>2 DEF CollectLogs, Remove, Script, folder
    <3>3. CASE ScriptFails
      BY <1>a, <3>3 DEF ScriptFails, folder
    <3> QED
      BY <1>2, <3>1, <3>2, <3>3
  <2>2. \A f \in Logs : logs'[f] \in {0, logs[f]}
    BY <1>0, <1>2 DEF ReadRunId, CollectLogs, Remove, ScriptFails, Script, folder, TypeOK
  <2>3. sees["script"] <= sees'["script"] /\ sees'["script"] \in Nat /\ sees["script"] <= Len(ids)
    BY <1>0, SeesTypes, SeesGrow
  <2> QED
    BY <1>0, <2>1, <2>2, <2>3, FolderKept
<1>3. CASE StartExpand
  BY <1>0, <1>3 DEF StartExpand, Script, Emptied, FolderInOrder, folder
<1>4. CASE Expand
  BY <1>0, <1>4 DEF Expand, Script, FolderInOrder
<1>5. CASE Mark
  <2>1. /\ markers' = {ids[script.ver]} /\ script'.pc = "loop" /\ UNCHANGED <<ids, sees, logs>>
        /\ \A f \in Logs : logs[f] = script.ver
    BY <1>0, <1>5 DEF Mark, Marker, FolderInOrder
  <2>2. script.ver \in 1..sees["script"]
    <3>1. script.ver \in 0..Len(ids) /\ script.ver # 0 /\ script.ver <= sees["script"]
      BY <1>0, <1>5 DEF Mark, FolderInOrder, TypeOK
    <3> QED
      BY <1>0, <3>1, IdTypes, SeesTypes
  <2> QED
    BY <2>1, <2>2 DEF FolderInOrder, Present
<1> QED
  BY <1>1, <1>2, <1>3, <1>4, <1>5 DEF Next, Collection, CollectorSteps

LEMMA HoldsKept ==
  ASSUME TypeOK, [Next]_vars, logs' = logs, NEW r, Holds(r)
  PROVE  Holds(r)'
<1>1. ASSUME NEW f \in Logs PROVE logs[f] # 0 /\ ids'[logs[f]] = r
  <2>1. f \in Present /\ ids[logs[f]] = r
    BY DEF Holds, Present
  <2> QED
    BY <2>1, PresentTypes, IdsGrow DEF Present
<1> QED
  BY <1>1 DEF Holds

LEMMA NextMarkerMeansComplete == IInv /\ [Next]_vars => MarkerMeansComplete'
<1> SUFFICES ASSUME IInv, [Next]_vars PROVE MarkerMeansComplete'
  OBVIOUS
<1>0. TypeOK /\ FolderInOrder /\ MarkerMeansComplete
  BY DEF IInv
<1>1. ASSUME markers' \subseteq markers, logs' = logs, cut => cut',
             script.pc = "remove" => script'.pc = "remove" \/ cut'
      PROVE  MarkerMeansComplete'
  BY <1>0, <1>1, HoldsKept DEF MarkerMeansComplete
<1>2. CASE Config \/ CollectorSteps \/ UNCHANGED vars
  BY <1>1, <1>2, CollectorLeaves DEF Config, SetRunId, Project, vars, folder
<1>3. CASE ReadRunId \/ CollectLogs \/ ScriptFails
  BY <1>1, <1>3 DEF ReadRunId, CollectLogs, ScriptFails, Script, folder
<1>4. CASE Remove
  <2>1. script'.pc = "remove"
    BY <1>0, <1>4 DEF Remove, Script, TypeOK
  <2> QED
    BY <2>1 DEF MarkerMeansComplete
<1>5. CASE StartExpand \/ Expand
  BY <1>0, <1>5 DEF StartExpand, Expand, Emptied, Script, folder, FolderInOrder, MarkerMeansComplete
<1>6. CASE Mark
  <2>1. /\ markers' = {ids[script.ver]} /\ UNCHANGED <<ids, logs>> /\ script.ver # 0
        /\ \A f \in Logs : logs[f] = script.ver
    BY <1>0, <1>6 DEF Mark, Marker, FolderInOrder, TypeOK
  <2> QED
    BY <2>1 DEF MarkerMeansComplete, Holds
<1> QED
  BY <1>2, <1>3, <1>4, <1>5, <1>6 DEF Next, Collection, CollectorSteps

----------------------------------------------------------------------------
(* The collector *)

LEMMA NextInStep == IInv /\ [Next]_vars => InStep'
<1> SUFFICES ASSUME IInv, [Next]_vars PROVE InStep'
  OBVIOUS
<1>0. InStep /\ collector.pc \in {"idle", "poll", "list", "size", "export", "zip"}
      /\ collector \in [pc : {"idle", "poll", "list", "size", "export", "zip"}, ver : 0..Len(ids)]
  BY DEF IInv, TypeOK
<1>1. CASE Config \/ Collection \/ ScriptFails \/ UNCHANGED vars
  BY <1>0, <1>1, ScriptLeaves DEF InStep, vars, run
<1>2. CASE BeginRun \/ Restart
  BY <1>2 DEF BeginRun, Restart, InStep
<1>3. CASE SeeMarker \/ List
  BY <1>0, <1>3 DEF SeeMarker, List, Collector, InStep
<1>4. CASE CollectFails
  BY <1>0, <1>4 DEF CollectFails, Collector, InStep
<1>5. CASE CollectReturns \/ EndExport \/ EndRun
  BY <1>0, <1>5 DEF CollectReturns, EndExport, EndRun, Collector, InStep
<1>6. ASSUME NEW f \in Logs, Record(f) \/ Export(f) \/ ZipEntry(f) PROVE InStep'
  BY <1>0, <1>6 DEF Record, Export, ZipEntry, Collector, InStep
<1> QED
  BY <1>1, <1>2, <1>3, <1>4, <1>5, <1>6 DEF Next, Run

(* Run IDs that come later do not make a run's ID less new. *)
LEMMA NewIdKept ==
  ASSUME TypeOK, [Next]_vars, collector' = collector, NewId'
  PROVE  NewId
<1>1. collector.ver \in 0..Len(ids)
  BY DEF TypeOK
<1>2. CASE collector.ver = 0
  BY <1>2 DEF NewId
<1>3. CASE collector.ver # 0
  <2>1. ASSUME NEW v \in 1..(collector.ver - 1) PROVE ids[v] # ids[collector.ver]
    <3>1. v \in 1..Len(ids) /\ collector.ver \in 1..Len(ids)
      BY <1>1, <1>3, IdTypes
    <3> QED
      BY <3>1, IdsGrow DEF NewId
  <2> QED
    BY <2>1 DEF NewId
<1> QED
  BY <1>2, <1>3

LEMMA VersionTypes ==
  ASSUME TypeOK
  PROVE  collector.ver \in Nat /\ script.ver \in Nat /\ \A f \in Logs : logs[f] \in Nat
<1>1. collector.ver \in 0..Len(ids) /\ script.ver \in 0..Len(ids) /\ \A f \in Logs : logs[f] \in 0..Len(ids)
  BY DEF TypeOK
<1> QED
  BY <1>1, IdTypes

(* What the collector finds with the marker of a new run ID is not older than the run ID. *)
LEMMA SeenIsNew ==
  ASSUME IInv, Notified, NewId, collector.ver # 0
  PROVE  /\ collector.ver <= sees["script"]
         /\ script.pc # "loop" => collector.ver <= script.ver
         /\ \A f \in Present : collector.ver <= logs[f]
<1>0. TypeOK /\ FolderInOrder
  BY DEF IInv
<1>1. ASSUME NEW v \in 1..Len(ids), ids[v] = ids[collector.ver] PROVE collector.ver <= v
  <2>1. v \in Nat /\ v >= 1 /\ collector.ver \in Nat
    BY <1>0, VersionTypes, IdTypes
  <2>2. v \notin 1..(collector.ver - 1)
    BY <1>1 DEF NewId
  <2> QED
    BY <2>1, <2>2
<1>2. \A f \in Present : collector.ver <= logs[f]
  BY <1>0, <1>1, PresentTypes DEF FolderInOrder, Notified
<1>3. PICK v \in 1..sees["script"] :
        ids[v] = ids[collector.ver] /\ (script.pc # "loop" => v <= script.ver)
  BY <1>0 DEF FolderInOrder, Notified
<1>4. v \in 1..Len(ids) /\ v <= sees["script"] /\ v \in Nat /\ sees["script"] \in Nat
  BY <1>0, <1>3, SeesTypes, IdTypes
<1>5. collector.ver <= v
  BY <1>1, <1>3, <1>4
<1>6. collector.ver \in Nat /\ script.ver \in Nat
  BY <1>0, VersionTypes
<1> QED
  BY <1>2, <1>3, <1>4, <1>5, <1>6

LEMMA NextFolderIsNew == IInv /\ [Next]_vars => FolderIsNew'
<1> SUFFICES ASSUME IInv, [Next]_vars, Saw', NewId'
             PROVE  /\ collector'.ver <= sees'["script"]
                    /\ script'.pc # "loop" => collector'.ver <= script'.ver
                    /\ \A f \in Present' : collector'.ver <= logs'[f]
  BY DEF FolderIsNew
<1>0. TypeOK /\ FolderIsNew /\ FolderInOrder
  BY DEF IInv
<1>a. script \in [pc : {"loop", "collect", "remove", "expand"}, ver : 0..Len(ids),
                  previous : RunIds \cup {NoId}]
  BY <1>0 DEF TypeOK
<1>b. /\ collector.ver \in Nat /\ script.ver \in Nat /\ \A f \in Logs : logs[f] \in Nat
      /\ sees["script"] \in Nat /\ sees["script"] <= sees'["script"] /\ sees'["script"] \in Nat
  BY <1>0, VersionTypes, SeesTypes, SeesGrow
<1>1. CASE Config \/ Collection \/ ScriptFails \/ UNCHANGED vars
  <2>1. collector' = collector /\ data' = data
    BY <1>1, ScriptLeaves DEF vars, run
  <2>2. /\ collector.ver <= sees["script"]
        /\ script.pc # "loop" => collector.ver <= script.ver
        /\ \A f \in Logs : logs[f] # 0 => collector.ver <= logs[f]
    BY <1>0, <2>1, NewIdKept DEF FolderIsNew, Saw, Present
  <2>3. collector'.ver <= sees'["script"]
    BY <1>b, <2>1, <2>2
  <2>4. CASE Config \/ UNCHANGED vars
    BY <2>1, <2>2, <2>3, <2>4 DEF Config, SetRunId, Project, vars, folder, Present
  <2>5. CASE ReadRunId
    BY <1>a, <2>1, <2>2, <2>3, <2>5 DEF ReadRunId, folder, Present
  <2>6. CASE CollectLogs \/ Remove \/ StartExpand
    <3>1. script.pc # "loop" /\ script'.ver = script.ver
      BY <1>a, <2>6 DEF CollectLogs, Remove, StartExpand, Script
    <3>2. \A f \in Logs : logs'[f] \in {0, logs[f]}
      BY <1>0, <2>6 DEF CollectLogs, Remove, StartExpand, Script, folder, TypeOK
    <3> QED
      BY <2>1, <2>2, <2>3, <3>1, <3>2 DEF Present
  <2>7. CASE Expand
    <3>1. script.pc # "loop" /\ script'.ver = script.ver
      BY <1>a, <2>7 DEF Expand, Script
    <3>2. \A f \in Logs : logs'[f] \in {script.ver, logs[f]}
      BY <1>0, <2>7 DEF Expand, TypeOK
    <3> QED
      BY <2>1, <2>2, <2>3, <3>1, <3>2 DEF Present
  <2>8. CASE Mark \/ ScriptFails
    <3>1. logs' = logs /\ script'.pc = "loop"
      <4>1. CASE Mark
        BY <1>a, <4>1 DEF Mark
      <4>2. CASE ScriptFails
        BY <4>2 DEF ScriptFails, folder
      <4> QED
        BY <2>8, <4>1, <4>2
    <3> QED
      BY <2>1, <2>2, <2>3, <3>1 DEF Present
  <2> QED
    BY <1>1, <2>4, <2>5, <2>6, <2>7, <2>8 DEF Collection
<1>2. CASE SeeMarker
  <2>1. /\ UNCHANGED <<ids, sees, script, logs, data>> /\ collector'.ver = collector.ver
        /\ Notified /\ collector.pc = "poll"
    BY <1>2 DEF SeeMarker, Collector, folder
  <2>2. NewId /\ collector.ver # 0
    BY <2>1 DEF NewId, IInv, InStep
  <2> QED
    BY <2>1, <2>2, SeenIsNew DEF Present
<1>3. CASE BeginRun \/ Restart
  BY <1>3 DEF BeginRun, Restart, Saw
<1>4. ASSUME Saw, collector'.ver = collector.ver, UNCHANGED <<ids, sees, script, logs>>
      PROVE  /\ collector'.ver <= sees'["script"]
             /\ script'.pc # "loop" => collector'.ver <= script'.ver
             /\ \A f \in Present' : collector'.ver <= logs'[f]
  BY <1>0, <1>4 DEF FolderIsNew, NewId, Present
<1>5. CASE List \/ CollectFails \/ CollectReturns \/ EndExport \/ EndRun
           \/ \E f \in Logs : Record(f) \/ Export(f) \/ ZipEntry(f)
  <2>1. Saw /\ collector'.ver = collector.ver
    BY <1>0, <1>5 DEF List, CollectFails, CollectReturns, EndExport, EndRun, Record, Export, ZipEntry,
       Collector, Saw, TypeOK
  <2> QED
    BY <1>4, <1>5, <2>1, CollectorLeaves DEF CollectorSteps, Run
<1> QED
  BY <1>1, <1>2, <1>3, <1>5 DEF Next, Run

LEMMA NextNeverOlder == IInv /\ [Next]_vars => NeverOlder'
<1> SUFFICES ASSUME IInv, [Next]_vars, NewId'
             PROVE  \A f \in Logs : \A read \in {blobs'[f], zipped'[f]} : read # 0 => read >= collector'.ver
  BY DEF NeverOlder, NewId
<1>0. TypeOK /\ FolderIsNew /\ InStep /\ (NewId => NeverOlder)
  BY DEF IInv
<1>1. ASSUME collector'.ver = collector.ver, NewId,
             \A f \in Logs : blobs'[f] = blobs[f] \/ (Saw /\ blobs'[f] = logs[f]),
             \A f \in Logs : zipped'[f] = zipped[f] \/ (Saw /\ zipped'[f] = logs[f])
      PROVE  \A f \in Logs : \A read \in {blobs'[f], zipped'[f]} : read # 0 => read >= collector'.ver
  <2>1. \A f \in Logs : \A read \in {blobs[f], zipped[f]} : read # 0 => read >= collector.ver
    BY <1>1 DEF IInv, NeverOlder, NewId
  <2>2. Saw => \A f \in Logs : logs[f] # 0 => logs[f] >= collector.ver
    BY <1>0, <1>1, VersionTypes DEF FolderIsNew, Present
  <2> QED
    BY <1>1, <2>1, <2>2
<1>2. CASE Config \/ Collection \/ ScriptFails \/ UNCHANGED vars
  <2>1. UNCHANGED <<collector, blobs, zipped>>
    BY <1>2, ScriptLeaves DEF vars, run
  <2> QED
    BY <1>0, <1>1, <2>1, NewIdKept
<1>3. CASE BeginRun \/ Restart
  BY <1>3 DEF BeginRun, Restart, None
<1>4. ASSUME UNCHANGED ids, collector'.ver = collector.ver PROVE NewId
  BY <1>4 DEF NewId
<1>5. CASE SeeMarker \/ List \/ CollectFails \/ CollectReturns \/ EndExport \/ EndRun
           \/ \E f \in Logs : Record(f)
  <2>1. UNCHANGED <<ids, blobs, zipped>> /\ collector'.ver = collector.ver
    BY <1>0, <1>5 DEF SeeMarker, List, CollectFails, CollectReturns, EndExport, EndRun, Record,
       Collector, TypeOK
  <2> QED
    BY <1>1, <1>4, <2>1
<1>6. ASSUME NEW f \in Logs, Export(f)
      PROVE  \A g \in Logs : \A read \in {blobs'[g], zipped'[g]} : read # 0 => read >= collector'.ver
  <2>1. /\ Saw /\ UNCHANGED <<ids, zipped>> /\ collector'.ver = collector.ver
        /\ blobs' = [blobs EXCEPT ![f] = logs[f]]
    BY <1>0, <1>6 DEF Export, Collector, Saw, TypeOK
  <2>2. \A g \in Logs : blobs'[g] \in {blobs[g], logs[g]}
    BY <1>0, <2>1 DEF TypeOK
  <2> QED
    BY <1>1, <1>4, <2>1, <2>2
<1>7. ASSUME NEW f \in Logs, ZipEntry(f)
      PROVE  \A g \in Logs : \A read \in {blobs'[g], zipped'[g]} : read # 0 => read >= collector'.ver
  <2>1. /\ f \in left /\ collector.pc = "zip" /\ UNCHANGED <<ids, blobs>>
        /\ collector'.ver = collector.ver /\ zipped' = [zipped EXCEPT ![f] = logs[f]]
    BY <1>0, <1>7 DEF ZipEntry, Collector, TypeOK
  <2>2. Saw
    BY <1>0, <2>1 DEF InStep, Saw
  <2>3. \A g \in Logs : zipped'[g] \in {zipped[g], logs[g]}
    BY <1>0, <2>1 DEF TypeOK
  <2> QED
    BY <1>1, <1>4, <2>1, <2>2, <2>3
<1> QED
  BY <1>2, <1>3, <1>5, <1>6, <1>7 DEF Next, Run

----------------------------------------------------------------------------
(* The folder that nobody touched *)

LEMMA NextFolderStands == IInv /\ [Next]_vars => FolderStands'
<1> SUFFICES ASSUME IInv, [Next]_vars, Saw', ~disturbed' PROVE FolderStands'
  BY DEF FolderStands
<1>0. TypeOK /\ FolderStands /\ InStep /\ FolderInOrder /\ MarkerMeansComplete
  BY DEF IInv
<1>a. /\ script \in [pc : {"loop", "collect", "remove", "expand"}, ver : 0..Len(ids),
                     previous : RunIds \cup {NoId}]
      /\ collector \in [pc : {"idle", "poll", "list", "size", "export", "zip"}, ver : 0..Len(ids)]
  BY <1>0 DEF TypeOK
<1>b. data \subseteq Logs /\ left \subseteq Logs
  BY <1>0 DEF TypeOK
<1>1. CASE Config \/ Collection \/ ScriptFails \/ UNCHANGED vars
  <2>1. UNCHANGED <<collector, left, data, blobs, zipped>>
    BY <1>1, ScriptLeaves DEF vars, run
  <2>2. Saw /\ ~disturbed /\ Holds(ids[collector.ver])
    BY <1>0, <1>1, <2>1 DEF Config, SetRunId, Project, Collection, ReadRunId, CollectLogs, Remove,
       StartExpand, Expand, Mark, ScriptFails, Script, vars, Saw, FolderStands
  <2>3. logs' = logs
    <3>1. CASE Expand
      BY <1>0, <2>2, <3>1 DEF Expand, Script, FolderStands
    <3>2. CASE Remove
      BY <3>2 DEF Remove
    <3>3. CASE ~Expand /\ ~Remove
      BY <1>1, <3>3 DEF Config, SetRunId, Project, Collection, ReadRunId, CollectLogs, StartExpand,
         Mark, ScriptFails, Script, folder, vars
    <3> QED
      BY <3>1, <3>2, <3>3
  <2>4. Holds(ids[collector.ver])'
    <3>1. collector.ver \in 1..Len(ids)
      BY <1>0, <1>a, <2>2, IdTypes DEF InStep, Saw
    <3>2. ids'[collector.ver] = ids[collector.ver]
      BY <1>0, <3>1, IdsGrow
    <3>3. \A f \in Logs : logs[f] # 0 /\ ids'[logs[f]] = ids[logs[f]]
      BY <1>0, <2>2, PresentTypes, IdsGrow DEF Holds, Present
    <3> QED
      BY <2>1, <2>2, <2>3, <3>2, <3>3 DEF Holds
  <2>5. script'.pc = "expand" => Logs = {}
    <3>1. CASE StartExpand
      BY <2>2, <3>1 DEF StartExpand, Emptied, Present, Holds
    <3>2. CASE Config \/ UNCHANGED vars
      BY <1>0, <2>2, <3>2 DEF Config, SetRunId, Project, vars, FolderStands
    <3>3. CASE ReadRunId
      BY <1>a, <3>3 DEF ReadRunId
    <3>4. CASE CollectLogs \/ Remove
      BY <1>a, <3>4 DEF CollectLogs, Remove, Script
    <3>5. CASE Expand
      BY <1>0, <2>2, <3>5 DEF Expand, Script, FolderStands
    <3>6. CASE Mark
      BY <1>a, <3>6 DEF Mark
    <3>7. CASE ScriptFails
      BY <3>7 DEF ScriptFails
    <3> QED
      BY <1>1, <3>1, <3>2, <3>3, <3>4, <3>5, <3>6, <3>7 DEF Collection
  <2> QED
    BY <1>0, <2>1, <2>2, <2>3, <2>4, <2>5 DEF FolderStands
<1>2. CASE SeeMarker
  <2>1. /\ UNCHANGED <<ids, script, logs, left, data, blobs, zipped>>
        /\ collector.pc = "poll" /\ collector' = [collector EXCEPT !.pc = "list"]
        /\ Notified /\ ~cut /\ script.pc # "remove"
    BY <1>2 DEF SeeMarker, Collector, folder
  <2>2. Holds(ids[collector.ver]) /\ script.pc # "expand"
    BY <1>0, <2>1 DEF Notified, MarkerMeansComplete, FolderInOrder
  <2>3. blobs = None /\ collector'.pc = "list" /\ collector'.ver = collector.ver
    BY <1>0, <1>a, <2>1 DEF InStep
  <2> QED
    BY <2>1, <2>2, <2>3 DEF FolderStands, Holds, None
<1>3. CASE BeginRun \/ Restart
  BY <1>3 DEF BeginRun, Restart, Saw
<1>4. ASSUME ~disturbed, Saw, collector'.ver = collector.ver, UNCHANGED <<ids, script, logs>>
      PROVE  /\ Holds(ids[collector.ver])' /\ (script'.pc = "expand" => Logs = {})
             /\ \A f \in Logs : blobs[f] \in {0, logs'[f]}
             /\ (\E f \in Logs : blobs[f] # 0) => data = Logs
             /\ Present = Logs
  BY <1>0, <1>4 DEF FolderStands, Holds, Present
<1>5. CASE List
  <2>1. /\ UNCHANGED <<ids, script, logs, data, blobs, zipped>> /\ left' = Present
        /\ collector.pc = "list" /\ collector'.pc = "size" /\ collector'.ver = collector.ver
        /\ Saw /\ ~disturbed
    BY <1>0, <1>a, <1>5 DEF List, Listed, Collector, folder, Saw
  <2>2. data' \cup left' = Logs /\ blobs = None
    BY <1>0, <1>4, <2>1 DEF InStep
  <2> QED
    BY <1>4, <2>1, <2>2 DEF FolderStands, None
<1>6. ASSUME NEW f \in Logs, Record(f) PROVE FolderStands'
  <2>1. /\ UNCHANGED <<ids, script, logs, blobs, zipped>>
        /\ left' = left \ {f} /\ data' = data \cup {f} /\ f \in left
        /\ collector.pc = "size" /\ collector'.pc = "size" /\ collector'.ver = collector.ver
        /\ Saw /\ ~disturbed /\ data \cup left = Logs
    BY <1>0, <1>a, <1>6 DEF Record, Collector, folder, Saw, FolderStands
  <2>2. data' \cup left' = Logs /\ blobs = None
    BY <1>0, <1>b, <2>1 DEF InStep
  <2> QED
    BY <1>4, <2>1, <2>2 DEF FolderStands, None
<1>7. CASE CollectFails
  <2>1. /\ UNCHANGED <<ids, script, logs, data, blobs, zipped, disturbed>> /\ left' = data
        /\ collector'.pc = "zip" /\ collector'.ver = collector.ver
    BY <1>0, <1>a, <1>7 DEF CollectFails, Collector, folder
  <2>2. Saw /\ ~disturbed
    BY <2>1 DEF Saw
  <2> QED
    BY <1>4, <2>1, <2>2 DEF FolderStands
<1>8. CASE CollectReturns
  <2>1. /\ UNCHANGED <<ids, script, logs, data, blobs, zipped, disturbed>> /\ left' = data
        /\ collector.pc = "size" /\ left = {}
        /\ collector'.pc = "export" /\ collector'.ver = collector.ver
    BY <1>0, <1>a, <1>8 DEF CollectReturns, Collector, folder
  <2>2. Saw /\ ~disturbed
    BY <2>1 DEF Saw
  <2>3. data = Logs
    BY <1>0, <2>1, <2>2 DEF FolderStands
  <2> QED
    BY <1>4, <2>1, <2>2, <2>3 DEF FolderStands
<1>9. ASSUME NEW f \in Logs, Export(f) PROVE FolderStands'
  <2>1. /\ UNCHANGED <<ids, script, logs, data, zipped, disturbed>>
        /\ blobs' = [blobs EXCEPT ![f] = logs[f]]
        /\ collector.pc = "export" /\ collector'.pc = "export" /\ collector'.ver = collector.ver
    BY <1>0, <1>a, <1>9 DEF Export, Collector, folder
  <2>2. Saw /\ ~disturbed
    BY <2>1 DEF Saw
  <2>3. data = Logs
    BY <1>0, <2>1, <2>2 DEF FolderStands
  <2>4. \A g \in Logs : blobs'[g] \in {0, logs[g]}
    BY <1>0, <2>1, <2>2 DEF FolderStands, TypeOK
  <2> QED
    BY <1>4, <2>1, <2>2, <2>3, <2>4 DEF FolderStands
<1>10. CASE EndExport
  <2>1. /\ UNCHANGED <<ids, script, logs, data, blobs, zipped, disturbed>> /\ left' = data
        /\ collector.pc = "export" /\ collector'.pc = "zip" /\ collector'.ver = collector.ver
    BY <1>0, <1>a, <1>10 DEF EndExport, Collector, folder
  <2> QED
    BY <1>4, <2>1 DEF FolderStands, Saw
<1>11. ASSUME NEW f \in Logs, ZipEntry(f) PROVE FolderStands'
  <2>1. /\ UNCHANGED <<ids, script, logs, data, blobs, disturbed>> /\ left' = left \ {f} /\ f \in left
        /\ zipped' = [zipped EXCEPT ![f] = logs[f]]
        /\ collector.pc = "zip" /\ collector'.pc = "zip" /\ collector'.ver = collector.ver
    BY <1>0, <1>a, <1>11 DEF ZipEntry, Collector, folder
  <2>2. Saw /\ ~disturbed
    BY <2>1 DEF Saw
  <2>3. \A g \in data \ left' : zipped'[g] = logs[g]
    BY <1>0, <1>b, <2>1, <2>2 DEF FolderStands, TypeOK
  <2> QED
    BY <1>4, <2>1, <2>2, <2>3 DEF FolderStands
<1>12. CASE EndRun
  <2>1. /\ UNCHANGED <<ids, script, logs, left, data, blobs, zipped, disturbed>>
        /\ collector.pc = "zip" /\ collector'.pc = "idle" /\ collector'.ver = collector.ver
    BY <1>0, <1>a, <1>12 DEF EndRun, Collector, folder
  <2>2. Saw /\ ~disturbed
    BY <2>1 DEF Saw
  <2> QED
    BY <1>0, <1>4, <2>1, <2>2 DEF FolderStands
<1> QED
  BY <1>1, <1>2, <1>3, <1>5, <1>6, <1>7, <1>8, <1>9, <1>10, <1>11, <1>12 DEF Next, Run

----------------------------------------------------------------------------
(* The theorems *)

LEMMA Inductive == Spec => []IInv
<1>1. IInv /\ [Next]_vars => IInv'
  <2>1. ASSUME IInv, [Next]_vars
        PROVE  /\ TypeOK' /\ FolderInOrder' /\ MarkerMeansComplete' /\ FolderIsNew' /\ NeverOlder'
               /\ InStep' /\ FolderStands'
    <3>1. TypeOK'
      BY <2>1, NextTypeOK DEF IInv
    <3> QED
      BY <2>1, <3>1, NextFolderInOrder, NextMarkerMeansComplete, NextFolderIsNew, NextNeverOlder,
         NextInStep, NextFolderStands
  <2> QED
    BY <2>1 DEF IInv
<1> QED
  BY InitIInv, <1>1, PTL DEF Spec

(* Every variable keeps its type. *)
THEOREM TypeCorrect == Spec => []TypeOK
<1>1. IInv => TypeOK
  BY DEF IInv
<1> QED
  BY <1>1, Inductive, PTL

(* A marker stands beside all logs of its run ID whenever no removal is under way or was cut  *)
(* short, wherever the script was ended and started again.                                    *)
THEOREM MarkerKeepsItsWord == Spec => []MarkerMeansComplete
<1>1. IInv => MarkerMeansComplete
  BY DEF IInv
<1> QED
  BY <1>1, Inductive, PTL

(* A run of a run ID that the ConfigMap never held before uses no log of an earlier one, in   *)
(* whatever order the two pods see the run IDs and a removal proceeds.                        *)
THEOREM NothingIsOlder == Spec => []NeverOlder
<1>1. IInv => NeverOlder
  BY DEF IInv
<1> QED
  BY <1>1, Inductive, PTL

(* A run that the script leaves alone and whose steps succeed exports every log of its run ID *)
(* and zips the same.                                                                         *)
THEOREM UndisturbedIsWhole == Spec => []UndisturbedRunIsWhole
<1>1. IInv => UndisturbedRunIsWhole
  <2> SUFFICES ASSUME IInv, collector.pc = "idle", ~disturbed, data # {}, \A f \in data : blobs[f] # 0
               PROVE  /\ data = Logs /\ blobs = zipped
                      /\ \A f \in Logs : ids[blobs[f]] = ids[collector.ver]
    BY DEF UndisturbedRunIsWhole
  <2>1. TypeOK /\ FolderStands /\ InStep /\ Saw
    BY DEF IInv, Saw
  <2>2. PICK g \in data : blobs[g] # 0
    OBVIOUS
  <2>3. data = Logs
    BY <2>1, <2>2 DEF FolderStands, TypeOK
  <2>4. \A f \in Logs : /\ blobs[f] = logs[f] /\ zipped[f] = logs[f]
                       /\ ids[logs[f]] = ids[collector.ver]
    BY <2>1, <2>3 DEF FolderStands, InStep, Holds
  <2>5. blobs = zipped
    BY <2>1, <2>4 DEF TypeOK
  <2> QED
    BY <2>3, <2>4, <2>5
<1> QED
  BY <1>1, Inductive, PTL
====
