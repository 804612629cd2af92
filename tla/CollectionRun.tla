---- MODULE CollectionRun ----
(***************************************************************************)
(* One run of Periscope on one node: run() of                              *)
(* cmd/aks-periscope/aks-periscope.go from the construction of the         *)
(* exporter on, with pkg/exporter (the export of a producer's values as    *)
(* blobs, and the zip of all of them).                                     *)
(*                                                                         *)
(* run() starts one goroutine per supported collector, waits for all of    *)
(* them, does the same with the diagnosers, which read what the collectors *)
(* hold, and zips the data of every producer.  A goroutine collects (or    *)
(* diagnoses) and then exports its own data; its errors are only logged.   *)
(* What a collector asks of the node or of Kubernetes is abstracted to the *)
(* keys it may record: each is recorded, or missed by a collector that     *)
(* logs the error and goes on, and Collect may return an error at any      *)
(* point, after some of its keys.                                          *)
(***************************************************************************)
EXTENDS Integers, FiniteSets

CONSTANTS
  Collectors, Diagnosers,
  Keys,      \* keys of a producer's data
  Attempts,  \* producer -> the keys it tries to record
  Reads      \* diagnoser -> the collectors whose data it reads

Producers == Collectors \cup Diagnosers

ASSUME ProducerAssumption ==
  /\ IsFiniteSet(Collectors) /\ IsFiniteSet(Diagnosers)
  /\ Collectors \cap Diagnosers = {}
ASSUME DataAssumption ==
  /\ Attempts \in [Producers -> SUBSET Keys]
  /\ Reads \in [Diagnosers -> SUBSET Collectors]

VARIABLES
  pc,        \* run(): "collect", "diagnose", "zip", "upload" or "done"; "dead" once the process is
  todo,      \* producers the current loop has not come to
  stage,     \* producer -> where its goroutine is
  ok,        \* producer -> Collect or Diagnose returned nil
  left,      \* producer -> keys its goroutine has still to try to record, then to upload
  data,      \* producer -> keys recorded: what GetData returns
  pending,   \* the counters of the WaitGroups collectorGrp and diagnoserGrp
  zipLeft,   \* <<producer, key>> entries of the zip still to write
  zipped,    \* entries written whole
  torn,      \* entries left empty or cut short
  storage,   \* what the run is given: "none", a SAS for the "account" or for one "container"
  stack,     \* the cloud: "public", "stack", or "broken", an Azure Stack without its JSON file
  container, \* the blob container exists
  blobs,     \* producer -> keys uploaded
  failed     \* history: producer -> its export met an error

config == <<storage, stack>>
store == <<container, blobs, failed>>
zip == <<zipLeft, zipped, torn>>
vars == <<pc, todo, stage, ok, left, data, pending, zip, config, store>>

GroupOf(p) == IF p \in Collectors THEN "collectors" ELSE "diagnosers"
Spawned == {p \in Producers : stage[p] \notin {"none", "unsupported"}}   \* dataProducers

----------------------------------------------------------------------------
(* Slips of the code that the properties below must notice. *)

NoWait(g) == TRUE
StopAtUnsupported(c) == {}
StopAtBadEntry(e) == {}
NoDone(p) == pending
DoubleDone(p) == [pending EXCEPT ![GroupOf(p)] = @ - 2]
NoAdd(p) == pending

Init ==
  /\ pc = "collect"
  /\ todo = Collectors
  /\ stage = [p \in Producers |-> "none"]
  /\ ok = [p \in Producers |-> FALSE]
  /\ left = Attempts
  /\ data = [p \in Producers |-> {}]
  /\ pending = [g \in {"collectors", "diagnosers"} |-> 0]
  /\ zipLeft = {} /\ zipped = {} /\ torn = {}
  /\ storage \in {"none", "account", "container"}
  /\ stack \in {"public", "stack", "broken"}
  /\ container \in BOOLEAN
  /\ blobs = [p \in Producers |-> {}]
  /\ failed = [p \in Producers |-> FALSE]

----------------------------------------------------------------------------
(* The goroutine of run(). *)

AfterSkip(c) == todo \ {c}
Add(p) == [pending EXCEPT ![GroupOf(p)] = @ + 1]
AllDone(g) == pending[g] = 0
ZipContent == {e \in Producers \X Keys : e[1] \in Spawned /\ e[2] \in data[e[1]]}

(* CheckSupported returned an error: log and continue.  (Diagnosers have no such check.) *)
SkipUnsupported(c) ==
  /\ pc = "collect" /\ c \in todo \cap Collectors
  /\ todo' = AfterSkip(c)
  /\ stage' = [stage EXCEPT ![c] = "unsupported"]
  /\ UNCHANGED <<pc, ok, left, data, pending, zip, config, store>>

(* append to dataProducers, Add(1), go.  The loop's order is the slice's; any order here. *)
Spawn(p) ==
  /\ pc \in {"collect", "diagnose"} /\ p \in todo
  /\ todo' = todo \ {p}
  /\ pending' = Add(p)
  /\ stage' = [stage EXCEPT ![p] = "running"]
  /\ UNCHANGED <<pc, ok, left, data, zip, config, store>>

(* collectorGrp.Wait() returns; the diagnosers' loop begins. *)
StartDiagnosers ==
  /\ pc = "collect" /\ todo = {} /\ AllDone("collectors")
  /\ pc' = "diagnose" /\ todo' = Diagnosers
  /\ UNCHANGED <<stage, ok, left, data, pending, zip, config, store>>

(* diagnoserGrp.Wait() returns; Zip ranges over the data of every producer. *)
StartZip ==
  /\ pc = "diagnose" /\ todo = {} /\ AllDone("diagnosers")
  /\ pc' = "zip" /\ zipLeft' = ZipContent
  /\ UNCHANGED <<todo, stage, ok, left, data, pending, zipped, torn, config, store>>

ZipEntry(e) ==
  /\ pc = "zip" /\ e \in zipLeft
  /\ zipLeft' = zipLeft \ {e} /\ zipped' = zipped \cup {e}
  /\ UNCHANGED <<pc, todo, stage, ok, left, data, pending, torn, config, store>>

AfterBadEntry(e) == zipLeft \ {e}

(* The value cannot be read: log, leave the entry empty or cut short, continue. *)
BadZipEntry(e) ==
  /\ pc = "zip" /\ e \in zipLeft
  /\ zipLeft' = AfterBadEntry(e) /\ torn' = torn \cup {e}
  /\ UNCHANGED <<pc, todo, stage, ok, left, data, pending, zipped, config, store>>

FinishZip ==
  /\ pc = "zip" /\ zipLeft = {}
  /\ pc' = "upload"
  /\ UNCHANGED <<todo, stage, ok, left, data, pending, zip, config, store>>

----------------------------------------------------------------------------
(* The goroutine of a collector or a diagnoser. *)

Done(p) == [pending EXCEPT ![GroupOf(p)] = @ - 1]   \* the deferred collectorGrp.Done()

Settle(p) == stage' = [stage EXCEPT ![p] = "settled"] /\ pending' = Done(p)

RecordKey(p, k) ==
  /\ pc # "dead" /\ stage[p] = "running" /\ k \in left[p]
  /\ left' = [left EXCEPT ![p] = @ \ {k}]
  /\ data' = [data EXCEPT ![p] = @ \cup {k}]
  /\ UNCHANGED <<pc, todo, stage, ok, pending, zip, config, store>>

(* An error over one key that the collector logs, going on with the next. *)
MissKey(p, k) ==
  /\ pc # "dead" /\ stage[p] = "running" /\ k \in left[p]
  /\ left' = [left EXCEPT ![p] = @ \ {k}]
  /\ UNCHANGED <<pc, todo, stage, ok, data, pending, zip, config, store>>

(* Collect returns an error: what it recorded is not exported, and stays in GetData. *)
CollectFails(p) ==
  /\ pc # "dead" /\ stage[p] = "running"
  /\ Settle(p)
  /\ UNCHANGED <<pc, todo, ok, left, data, zip, config, store>>

CollectReturns(p) ==
  /\ pc # "dead" /\ stage[p] = "running" /\ left[p] = {}
  /\ ok' = [ok EXCEPT ![p] = TRUE]
  /\ stage' = [stage EXCEPT ![p] = "exporting"]
  /\ UNCHANGED <<pc, todo, left, data, pending, zip, config, store>>

----------------------------------------------------------------------------
(* Export: createContainerURL, then one upload per value. *)

Fatal == storage # "none" /\ stack = "broken"
Requests == storage # "none" /\ stack # "broken"

(* The container is created, or exists already; with a SAS for one container no request is made. *)
Opens ==
  /\ Requests
  /\ IF storage = "account" THEN container' = TRUE ELSE UNCHANGED container

OpenStore(p) ==
  /\ pc # "dead" /\ stage[p] = "exporting"
  /\ Opens
  /\ stage' = [stage EXCEPT ![p] = "uploading"]
  /\ left' = [left EXCEPT ![p] = data[p]]
  /\ UNCHANGED <<pc, todo, ok, data, pending, zip, config, blobs, failed>>

UploadKey(p, k) ==
  /\ pc # "dead" /\ stage[p] = "uploading" /\ k \in left[p]
  /\ container
  /\ blobs' = [blobs EXCEPT ![p] = @ \cup {k}]
  /\ left' = [left EXCEPT ![p] = @ \ {k}]
  /\ UNCHANGED <<pc, todo, stage, ok, data, pending, zip, config, container, failed>>

(* Storage is not configured, its URL does not parse, a request fails, or the value cannot be read: Export  *)
(* returns the error and leaves the values it has not come to.                              *)
ExportFails(p) ==
  /\ pc # "dead"
  /\ \/ stage[p] = "exporting" /\ ~Fatal
     \/ stage[p] = "uploading" /\ left[p] # {}
  /\ failed' = [failed EXCEPT ![p] = TRUE]
  /\ Settle(p)
  /\ UNCHANGED <<pc, todo, ok, left, data, zip, config, container, blobs>>

ExportReturns(p) ==
  /\ pc # "dead" /\ stage[p] = "uploading" /\ left[p] = {}
  /\ Settle(p)
  /\ UNCHANGED <<pc, todo, ok, left, data, zip, config, store>>

(* ExportReader: the zip is uploaded, or the error is logged. *)
UploadZip ==
  /\ pc = "upload" /\ ~Fatal
  /\ pc' = "done"
  /\ (Opens \/ UNCHANGED container)
  /\ UNCHANGED <<todo, stage, ok, left, data, pending, zip, config, blobs, failed>>

(* GetStorageEndpointSuffix cannot read the Azure Stack JSON: log.Fatalf ends the process, *)
(* whatever the other goroutines are doing.                                                *)
FatalExport ==
  /\ Fatal
  /\ pc = "upload" \/ (pc # "dead" /\ \E p \in Producers : stage[p] = "exporting")
  /\ pc' = "dead"
  /\ UNCHANGED <<todo, stage, ok, left, data, pending, zip, config, store>>

----------------------------------------------------------------------------

Main ==
  \/ \E p \in Producers : SkipUnsupported(p) \/ Spawn(p)
  \/ StartDiagnosers \/ StartZip \/ FinishZip \/ UploadZip
  \/ \E e \in Producers \X Keys : ZipEntry(e) \/ BadZipEntry(e)

Goroutine(p) ==
  \/ CollectFails(p) \/ CollectReturns(p) \/ OpenStore(p) \/ ExportFails(p) \/ ExportReturns(p)
  \/ \E k \in Keys : RecordKey(p, k) \/ MissKey(p, k) \/ UploadKey(p, k)

(* A run that is over stays so; the next begins with new collectors. *)
Over == pc \in {"done", "dead"} /\ UNCHANGED vars

Next == Main \/ FatalExport \/ Over \/ \E p \in Producers : Goroutine(p)

(* Every goroutine that can run does; that Collect and an upload return is an assumption: *)
(* run() sets no deadline.                                                                *)
Fairness == WF_vars(Main) /\ WF_vars(FatalExport) /\ \A p \in Producers : WF_vars(Goroutine(p))

Spec == Init /\ [][Next]_vars /\ Fairness

----------------------------------------------------------------------------
(* Properties *)

Groups == {"collectors", "diagnosers"}
Stages == {"none", "unsupported", "running", "exporting", "uploading", "settled"}

(* The type of every variable. *)
TypeOK ==
  /\ pc \in {"collect", "diagnose", "zip", "upload", "done", "dead"}
  /\ todo \subseteq Producers
  /\ stage \in [Producers -> Stages]
  /\ ok \in [Producers -> BOOLEAN]
  /\ left \in [Producers -> SUBSET Keys]
  /\ data \in [Producers -> SUBSET Keys]
  /\ pending \in [Groups -> Nat]
  /\ zipLeft \subseteq Producers \X Keys /\ zipped \subseteq Producers \X Keys
  /\ torn \subseteq Producers \X Keys
  /\ storage \in {"none", "account", "container"}
  /\ stack \in {"public", "stack", "broken"}
  /\ container \in BOOLEAN
  /\ blobs \in [Producers -> SUBSET Keys]
  /\ failed \in [Producers -> BOOLEAN]

Settled(p) == stage[p] \in {"unsupported", "settled"}

(* A diagnoser's goroutine runs only when no collector it reads from is still writing (lines *)
(* 103-161): the WaitGroup orders them, and the collectors' own exports too.                 *)
DiagnosersReadSettledData ==
  \A d \in Diagnosers : stage[d] # "none" => \A c \in Reads[d] : Settled(c)

(* What is exported of a producer is all in the zip, or its entry could not be written: Zip  *)
(* misses nothing recorded by any producer that ran, be its collection, its export or        *)
(* another entry in error, and nothing is recorded or uploaded after it (lines 161-171,      *)
(* zip.go:17-47).                                                                            *)
ZipHoldsEverything ==
  pc \in {"zip", "upload", "done"} =>
    \A p \in Spawned : \A k \in data[p] :
      <<p, k>> \in zipLeft \cup zipped \cup torn

(* One producer's failure is its own: when the run ends every producer was run or            *)
(* unsupported, and one that collected everything without an error and met none while        *)
(* exporting has all its values in the store; one whose collection failed has none there     *)
(* (lines 106-130).                                                                          *)
FailuresIsolated ==
  /\ pc = "done" => \A p \in Producers :
       Settled(p) /\ (ok[p] /\ ~failed[p] => blobs[p] = data[p])
  /\ \A p \in Producers : blobs[p] # {} => ok[p]

(* The abstract specification. *)
Phases == INSTANCE PhasedRun WITH
  phase <- IF pc \in {"zip", "upload"} THEN "package" ELSE pc,
  settled <- {p \in Producers : Settled(p)},
  results <- data

(* A run is phased: what the diagnosers and the zip read no longer changes. *)
ImplementsPhases == Phases!Spec

(* A run ends, or the process does: no goroutine forgets Done, whichever way it returns. *)
RunEnds == <>(pc \in {"done", "dead"})
====
