---- MODULE Periscope ----
(***************************************************************************)
(* cmd/aks-periscope/aks-periscope.go, main(): the process that watches    *)
(* the run ID file and does a run whenever it changes, and the DaemonSet   *)
(* that restarts it.                                                       *)
(*                                                                         *)
(* Three goroutines: the poller of FileContentWatcher, the runner that     *)
(* receives from runIdChan and does one run at a time, and main, which     *)
(* receives one error from errChan and exits.  A run reads the run ID      *)
(* again from the file (GetRuntimeInfo), which may have changed since the  *)
(* notification.  A run is here its start, when it reads the               *)
(* configuration, and its end; CollectionRun models what is between.       *)
(***************************************************************************)
EXTENDS Integers, Sequences, FiniteSets

CONSTANTS
  RunIds,       \* the non-empty contents of the run ID file
  Empty, Fault, \* as in FileContentWatcher; a missing file is a Fault too
  MaxWrites,    \* bound: versions of the run ID file
  MaxFailures,  \* bound: runs that fail for another reason than the run ID file
  MaxCrashes    \* bound: panics, evictions, node restarts

RunIdFile == "DIAGNOSTIC_RUN_ID"
RunIdChan == "runIdChan"
ErrChan == "errChan"
Files == {RunIdFile}
ContentChans == {RunIdChan}
ErrChans == {ErrChan}

ASSUME CounterAssumption == MaxWrites \in Nat \ {0} /\ MaxFailures \in Nat /\ MaxCrashes \in Nat
ASSUME ValueAssumption == Empty \notin RunIds /\ Fault \notin RunIds /\ Empty # Fault

VARIABLES
  disk, handlers, item, started, tick, pass, next, seen,  \* as in FileContentWatcher
  main,       \* where main() is, or how the process ended
  runner,     \* pc of the goroutine, the version it was notified of, the version and ID it runs
  completed,  \* history: run IDs whose run() returned nil
  runsOf,     \* history: version -> runs of it started by this process
  failures,   \* failures and crashes so far
  spoiled     \* history: the run ID was ever made unreadable or blanked

watcher == <<handlers, item, started, tick, pass, next, seen>>
run == <<completed, runsOf, failures>>
vars == <<disk, watcher, main, runner, run, spoiled>>

(* runIdChan has a receiver while the runner is idle, errChan while main waits. *)
Receiving ==
  (IF runner.pc = "idle" THEN {RunIdChan} ELSE {})
    \cup (IF main = "waiting" THEN {ErrChan} ELSE {})

W == INSTANCE FileContentWatcher WITH
  Contents <- RunIds, MaxHandlers <- 1, receiving <- Receiving

Alive == main \notin {"exited", "crashed"}
OnDisk == disk[RunIdFile]
Running == runner.pc = "running"
(* A slip of the code that the properties must notice: the runner's goroutine does not loop. *)
AtOnce(pc) == [runner EXCEPT !.pc = IF pc = "idle" /\ Running THEN "none" ELSE pc]

(* The runner as it is, but at pc. *)
At(pc) == [runner EXCEPT !.pc = pc]
NoRunner == [pc |-> "none", ver |-> 0, id |-> Empty]
NoRuns == [v \in 1..MaxWrites |-> 0]

Init ==
  /\ main = "registering"
  /\ runner = NoRunner
  /\ completed = {}
  /\ runsOf = NoRuns
  /\ failures = [run |-> 0, crash |-> 0]
  /\ W!Init
  /\ spoiled = (OnDisk.value = Fault)

----------------------------------------------------------------------------
(* The environment. *)

(* kubelet projects a changed ConfigMap into the volume. *)
ConfigChanges ==
  /\ UNCHANGED <<main, runner, run>>
  /\ W!Write(RunIdFile)
  /\ spoiled' = (spoiled \/ OnDisk'.value \in {Empty, Fault})

(* The process ends and everything it held in memory is gone. *)
Ends(how) ==
  /\ main' = how
  /\ runner' = NoRunner
  /\ runsOf' = NoRuns
  /\ handlers' = [f \in Files |-> << >>]
  /\ item' = [f \in Files |-> [content |-> Empty, err |-> FALSE, ver |-> 0]]
  /\ started' = FALSE /\ tick' = FALSE /\ pass' = {}
  /\ next' = [f \in Files |-> 0]
  /\ seen' = [f \in Files |-> [c \in W!Channels |-> [value |-> Empty, ver |-> 0]]]
  /\ UNCHANGED <<disk, completed, spoiled>>

Crash ==
  /\ Alive /\ failures.crash < MaxCrashes
  /\ failures' = [failures EXCEPT !.crash = @ + 1]
  /\ Ends("crashed")

(* restartPolicy of a DaemonSet's pods is Always. *)
Restart ==
  /\ ~Alive /\ main' = "registering"
  /\ UNCHANGED <<disk, watcher, runner, run, spoiled>>

----------------------------------------------------------------------------
(* main() *)

Main(from, to) == main = from /\ main' = to /\ UNCHANGED <<run, spoiled>>

RegisterHandler ==
  /\ Main("registering", "launching") /\ UNCHANGED runner
  /\ W!AddHandler(RunIdFile, [content |-> RunIdChan, err |-> ErrChan])

GoRunner ==
  /\ Main("launching", "starting") /\ runner' = At("idle")
  /\ W!Listen(RunIdChan)

StartWatcher ==
  /\ Main("starting", "started") /\ UNCHANGED runner
  /\ W!Start

AwaitError ==
  /\ Main("started", "waiting") /\ UNCHANGED runner
  /\ W!Listen(ErrChan)

(* log.Fatalf after the receive from errChan *)
Fatal == main = "fatal" /\ Ends("exited") /\ UNCHANGED failures

----------------------------------------------------------------------------
(* The watcher's goroutine, and the two receives it can be waiting for. *)

Polls == Alive /\ UNCHANGED <<main, runner, run, spoiled>>
Tick == Polls /\ W!Tick
NextPass == Polls /\ W!NextPass
CheckFile == Polls /\ W!CheckFile(RunIdFile)

NotifyRunner ==
  /\ runner.pc = "idle" /\ ~item[RunIdFile].err
  /\ runner' = At("notified")
  /\ UNCHANGED <<main, run, spoiled>>
  /\ W!Send(RunIdFile)

NotifyMain ==
  /\ item[RunIdFile].err
  /\ Main("waiting", "fatal") /\ UNCHANGED runner
  /\ W!Send(RunIdFile)

----------------------------------------------------------------------------
(* The runner's goroutine: lines 42-53 and run(). *)

CountRun == [runsOf EXCEPT ![OnDisk.ver] = @ + 1]

(* GetRuntimeInfo finds a run ID. *)
BeginRun ==
  /\ runner.pc = "notified"
  /\ OnDisk.value \in RunIds
  /\ runner' = [At("running") EXCEPT !.ver = OnDisk.ver, !.id = OnDisk.value]
  /\ runsOf' = CountRun
  /\ UNCHANGED <<disk, watcher, main, completed, failures, spoiled>>

(* GetRuntimeInfo finds the mandatory run ID missing, unreadable or empty, or cannot read *)
(* another file of the configuration: log.Fatalf.                                         *)
NoRuntimeInfo ==
  /\ runner.pc = "notified"
  /\ \/ OnDisk.value \notin RunIds /\ UNCHANGED failures
     \/ failures.run < MaxFailures /\ failures' = [failures EXCEPT !.run = @ + 1]
  /\ Ends("exited")

(* run() returns nil, whatever its collectors, diagnosers and exports returned. *)
EndRun ==
  /\ runner.pc = "running"
  /\ completed' = completed \cup {runner.id}
  /\ runner' = At("idle")
  /\ UNCHANGED <<disk, watcher, main, runsOf, failures, spoiled>>

(* InClusterConfig or the copy of the Azure Stack certificate fails. *)
FailRun ==
  /\ runner.pc = "running" /\ failures.run < MaxFailures
  /\ failures' = [failures EXCEPT !.run = @ + 1]
  /\ runner' = At("failed")
  /\ UNCHANGED <<disk, watcher, main, completed, runsOf, spoiled>>

(* errChan <- err *)
ReportFailure ==
  /\ runner.pc = "failed"
  /\ Main("waiting", "fatal") /\ runner' = At("idle")
  /\ UNCHANGED <<disk, watcher>>

----------------------------------------------------------------------------

Runner == BeginRun \/ NoRuntimeInfo \/ EndRun \/ FailRun \/ ReportFailure
MainSteps == RegisterHandler \/ GoRunner \/ StartWatcher \/ AwaitError \/ Fatal
Watcher == Tick \/ NextPass \/ CheckFile \/ NotifyRunner \/ NotifyMain

Next == ConfigChanges \/ Crash \/ Restart \/ MainSteps \/ Watcher \/ Runner

(* Goroutines that can run do, a run ends (no collector hangs), kubelet restarts the      *)
(* container.  Neither a change of the file nor a crash nor a failure need ever happen.   *)
Fairness ==
  /\ WF_vars(Restart) /\ WF_vars(MainSteps)
  /\ WF_vars(Tick) /\ WF_vars(NextPass) /\ WF_vars(CheckFile)
  /\ WF_vars(NotifyRunner) /\ WF_vars(NotifyMain)
  /\ WF_vars(BeginRun \/ NoRuntimeInfo) /\ WF_vars(EndRun) /\ WF_vars(ReportFailure)

Spec == Init /\ [][Next]_vars /\ Fairness

----------------------------------------------------------------------------
(* Properties *)

(* The type of every variable. *)
TypeOK ==
  /\ W!TypeOK
  /\ main \in {"registering", "launching", "starting", "started", "waiting", "fatal",
               "exited", "crashed"}
  /\ runner \in [pc : {"none", "idle", "notified", "running", "failed"},
                 ver : 0..MaxWrites, id : RunIds \cup {Empty}]
  /\ completed \subseteq RunIds
  /\ runsOf \in [1..MaxWrites -> Nat]
  /\ failures \in [run : 0..MaxFailures, crash : 0..MaxCrashes]
  /\ spoiled \in BOOLEAN

(* Re-reading the file and blocking the poller repeat a run, but boundedly: a process runs *)
(* one version of the run ID at most three times, although the poller can hold one stale   *)
(* notification while the runner takes another (aks-periscope.go:42-63).                   *)
AtMostThreeRuns == \A v \in 1..MaxWrites : runsOf[v] <= 3

(* The process only gives up for a reason: with a run ID file that stays readable, was     *)
(* never blanked after holding a run ID, and with no failed run or unreadable              *)
(* configuration, it does not exit.  A fresh deployment, whose run ID is empty, waits and  *)
(* does not crash (lines 42-59).                                                           *)
ExitsForCause == main \in {"fatal", "exited"} => spoiled \/ failures.run > 0

(* A new run ID (by convention a timestamp, README.md:125) that stays in the file is       *)
(* eventually run to its end, whatever was there before, whichever notification came late, *)
(* and although runs fail and the process restarts.                                        *)
NewRunIdCompletes ==
  \A r \in RunIds :
    (<>[](OnDisk.value = r) /\ [](OnDisk.value = r => [](OnDisk.value = r)))
      => <>(r \in completed)

(* The same for any run ID, one used before included: "To re-run without deleting and     *)
(* recreating resources, you can update the RUN_ID value" (README.md:132).                *)
AnyRunIdCompletes == \A r \in RunIds : <>[](OnDisk.value = r) => <>(r \in completed)

(* Once the file stays readable, empty or not, restarts come to an end: the process does   *)
(* not keep exiting on a blank run ID.                                                     *)
NoCrashLoop == <>[](OnDisk.value # Fault) => <>[](main = "waiting")
====
