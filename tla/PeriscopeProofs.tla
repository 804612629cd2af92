---- MODULE PeriscopeProofs ----
(* Theorems about Periscope, for any run IDs and any bounds on the writes, failures and crashes. *)
EXTENDS Periscope, TLAPS

----------------------------------------------------------------------------
(* The inductive invariant *)

Item == item[RunIdFile]
Sending == next[RunIdFile] # 0

(* There is one handler at most, and a send is to that one. *)
OneHandler == Len(handlers[RunIdFile]) <= 1 /\ next[RunIdFile] \in {0, 1}

(* The item is of a version the file had, and says what that version says. *)
ItemWasOnDisk ==
  /\ Item.ver <= OnDisk.ver
  /\ Item.ver = OnDisk.ver =>
       Item.err = (OnDisk.value = Fault) /\ Item.content = IF OnDisk.value = Fault THEN Empty ELSE OnDisk.value

(* A run ID file that always could be read and was never blanked gives no error, and nothing *)
(* at all before it holds a run ID.                                                          *)
Unspoiled ==
  ~spoiled =>
    /\ OnDisk.value # Fault /\ ~Item.err
    /\ OnDisk.value = Empty => ~Sending /\ Item.content = Empty /\ runner.pc \in {"none", "idle"}

(* A run has a run ID. *)
RunHasId == runner.pc = "running" => runner.id \in RunIds

FailedForCause == runner.pc = "failed" => failures.run > 0

(* What can still start a run of the version on the disk: a notification the runner has taken, *)
(* one that the poller holds, and one that the poller will find.                               *)
One(b) == IF b THEN 1 ELSE 0
Coming == One(runner.pc = "notified") + One(Sending) + One(Item.ver # OnDisk.ver)

RunsCounted ==
  /\ \A v \in 1..MaxWrites : v > OnDisk.ver => runsOf[v] = 0
  /\ OnDisk.value \in RunIds => runsOf[OnDisk.ver] + Coming <= 3

IInv ==
  /\ TypeOK
  /\ OneHandler
  /\ ItemWasOnDisk
  /\ RunHasId
  /\ Unspoiled
  /\ FailedForCause
  /\ ExitsForCause
  /\ RunsCounted
  /\ AtMostThreeRuns

----------------------------------------------------------------------------
(* Types *)

LEMMA Appended ==
  ASSUME NEW S, NEW s \in Seq(S), NEW e \in S
  PROVE  /\ Append(s, e) \in Seq(S)
         /\ Len(s) \in Nat /\ Len(Append(s, e)) = Len(s) + 1
  OBVIOUS

LEMMA InitTypeOK == Init => TypeOK
<1> SUFFICES ASSUME Init PROVE TypeOK
  OBVIOUS
<1>1. disk \in [Files -> [value : W!Values, ver : 1..MaxWrites]]
  <2>1. \A r \in [value : W!Values, ver : {1}] : r \in [value : W!Values, ver : 1..MaxWrites]
    BY CounterAssumption
  <2> QED
    BY <2>1 DEF Init, W!Init
<1>2. /\ handlers \in [Files -> Seq(W!Pairs)] /\ \A f \in Files : Len(handlers[f]) = 0
      /\ next \in [Files -> Nat] /\ \A f \in Files : next[f] = 0
  BY DEF Init, W!Init
<1>3. item \in [Files -> [content : RunIds \cup {Empty}, err : BOOLEAN, ver : 0..MaxWrites]]
  BY CounterAssumption DEF Init, W!Init
<1>4. seen \in [Files -> [W!Channels -> [value : W!Values, ver : 0..MaxWrites]]]
  BY CounterAssumption DEF Init, W!Init, W!Values
<1>5. /\ started \in BOOLEAN /\ tick \in BOOLEAN /\ pass \subseteq W!Watched
      /\ Receiving \subseteq W!Channels
  BY DEF Init, W!Init, Receiving, W!Channels, ContentChans, ErrChans
<1>6. runner \in [pc : {"none", "idle", "notified", "running", "failed"},
                  ver : 0..MaxWrites, id : RunIds \cup {Empty}]
  BY CounterAssumption DEF Init, NoRunner
<1>7. failures \in [run : 0..MaxFailures, crash : 0..MaxCrashes] /\ runsOf \in [1..MaxWrites -> Nat]
  BY CounterAssumption DEF Init, NoRuns
<1>8. \A f \in Files : next[f] <= Len(handlers[f])
  BY <1>2
<1> QED
  BY <1>1, <1>2, <1>3, <1>4, <1>5, <1>6, <1>7, <1>8 DEF Init, TypeOK, W!TypeOK

(* The process ends: memory is as at its start. *)
LEMMA EndsTypes ==
  ASSUME TypeOK, NEW how \in {"exited", "crashed"}, Ends(how),
         failures' \in [run : 0..MaxFailures, crash : 0..MaxCrashes]
  PROVE  TypeOK'
<1>1. /\ handlers' \in [Files -> Seq(W!Pairs)] /\ \A f \in Files : Len(handlers'[f]) = 0
      /\ next' \in [Files -> Nat] /\ \A f \in Files : next'[f] = 0
  BY DEF Ends
<1>2. item' \in [Files -> [content : RunIds \cup {Empty}, err : BOOLEAN, ver : 0..MaxWrites]]
  BY CounterAssumption DEF Ends
<1>3. seen' \in [Files -> [W!Channels -> [value : W!Values, ver : 0..MaxWrites]]]
  BY CounterAssumption DEF Ends, W!Values
<1>4. runner' \in [pc : {"none", "idle", "notified", "running", "failed"},
                   ver : 0..MaxWrites, id : RunIds \cup {Empty}]
      /\ runsOf' \in [1..MaxWrites -> Nat]
  BY CounterAssumption DEF Ends, NoRunner, NoRuns
<1>5. Receiving' \subseteq W!Channels
  BY DEF Receiving, W!Channels, ContentChans, ErrChans
<1>6. \A f \in Files : next'[f] <= Len(handlers'[f])
  BY <1>1
<1> QED
  BY <1>1, <1>2, <1>3, <1>4, <1>5, <1>6 DEF Ends, TypeOK, W!TypeOK, W!Watched

LEMMA ItemTypes ==
  ASSUME TypeOK
  PROVE  /\ OnDisk \in [value : RunIds \cup {Empty, Fault}, ver : 1..MaxWrites]
         /\ Item \in [content : RunIds \cup {Empty}, err : BOOLEAN, ver : 0..MaxWrites]
         /\ OnDisk.ver \in Nat /\ Item.ver \in Nat
<1>1. /\ OnDisk \in [value : RunIds \cup {Empty, Fault}, ver : 1..MaxWrites]
      /\ Item \in [content : RunIds \cup {Empty}, err : BOOLEAN, ver : 0..MaxWrites]
  BY DEF TypeOK, W!TypeOK, W!Values, OnDisk, Item, Files
<1> QED
  BY <1>1, CounterAssumption

LEMMA RunnerTypes ==
  ASSUME TypeOK, NEW pc \in {"none", "idle", "notified", "running", "failed"}
  PROVE  /\ At(pc) \in [pc : {"none", "idle", "notified", "running", "failed"},
                       ver : 0..MaxWrites, id : RunIds \cup {Empty}]
         /\ At(pc).pc = pc /\ At(pc).ver = runner.ver /\ At(pc).id = runner.id
<1>1. runner \in [pc : {"none", "idle", "notified", "running", "failed"},
                  ver : 0..MaxWrites, id : RunIds \cup {Empty}]
  BY DEF TypeOK
<1> QED
  BY <1>1 DEF At

(* What the watcher's step on the file does. *)
LEMMA CheckFileStep ==
  ASSUME TypeOK, CheckFile
  PROVE  /\ UNCHANGED <<disk, handlers, started, tick, seen, main, runner, run, spoiled>>
         /\ pass' \subseteq pass /\ RunIdFile \in pass /\ ~Sending
         /\ \/ /\ UNCHANGED <<item, next>>
               /\ OnDisk.value # Fault /\ OnDisk.value = Item.content
            \/ /\ OnDisk.value = Fault \/ OnDisk.value # Item.content
               /\ item' = [item EXCEPT ![RunIdFile] =
                             [content |-> IF OnDisk.value = Fault THEN Empty ELSE OnDisk.value,
                              err |-> (OnDisk.value = Fault), ver |-> OnDisk.ver]]
               /\ next' = [next EXCEPT ![RunIdFile] = 1]
BY DEF CheckFile, Polls, W!CheckFile, W!Notifying, W!Changed, W!ReadErr, W!ReadContent, W!First,
   OnDisk, Item, Sending, Files

LEMMA SendStep ==
  ASSUME TypeOK, OneHandler, W!Send(RunIdFile)
  PROVE  /\ UNCHANGED <<disk, handlers, item, started, tick, pass>>
         /\ next' = [next EXCEPT ![RunIdFile] = 0]
         /\ Len(handlers[RunIdFile]) = 1 /\ Sending
         /\ seen' \in [Files -> [W!Channels -> [value : W!Values, ver : 0..MaxWrites]]]
<1>1. /\ handlers \in [Files -> Seq(W!Pairs)] /\ next \in [Files -> Nat]
      /\ next[RunIdFile] <= Len(handlers[RunIdFile])
  BY DEF TypeOK, W!TypeOK, Files
<1>2. next[RunIdFile] = 1 /\ Len(handlers[RunIdFile]) = 1
  <2>1. handlers[RunIdFile] \in Seq(W!Pairs) /\ next[RunIdFile] \in {0, 1} /\ next[RunIdFile] # 0
    BY <1>1 DEF OneHandler, W!Send, Files
  <2>2. Len(handlers[RunIdFile]) \in Nat
    BY <2>1
  <2>3. 1 <= Len(handlers[RunIdFile]) /\ Len(handlers[RunIdFile]) <= 1
    BY <1>1, <2>1 DEF OneHandler
  <2>4. \A n \in Nat : 1 <= n /\ n <= 1 => n = 1
    OBVIOUS
  <2> QED
    BY <2>1, <2>2, <2>3, <2>4
<1>3. next' = [next EXCEPT ![RunIdFile] = 0]
  BY <1>2 DEF W!Send
<1>4. handlers[RunIdFile][1] \in W!Pairs
  BY <1>1, <1>2 DEF Files
<1>5. W!Target(RunIdFile, next[RunIdFile]) \in W!Channels
  BY <1>2, <1>4 DEF W!Target, W!Channels, W!Pairs
<1>6. [value |-> W!Recorded(RunIdFile), ver |-> item[RunIdFile].ver] \in [value : W!Values, ver : 0..MaxWrites]
  BY ItemTypes DEF W!Recorded, W!Values, Item
<1>7. seen' \in [Files -> [W!Channels -> [value : W!Values, ver : 0..MaxWrites]]]
  <2>1. seen \in [Files -> [W!Channels -> [value : W!Values, ver : 0..MaxWrites]]]
    BY DEF TypeOK, W!TypeOK
  <2>2. seen' = [seen EXCEPT ![RunIdFile] =
                  [@ EXCEPT ![W!Target(RunIdFile, next[RunIdFile])] =
                     [value |-> W!Recorded(RunIdFile), ver |-> item[RunIdFile].ver]]]
    BY DEF W!Send
  <2> QED
    BY <1>5, <1>6, <2>1, <2>2 DEF Files
<1> QED
  BY <1>2, <1>3, <1>7 DEF W!Send, Sending

LEMMA NextTypeOK == TypeOK /\ OneHandler /\ RunHasId /\ [Next]_vars => TypeOK'
<1> SUFFICES ASSUME TypeOK, OneHandler, RunHasId, [Next]_vars PROVE TypeOK'
  OBVIOUS
<1>0. Receiving' \subseteq W!Channels
  BY DEF Receiving, W!Channels, ContentChans, ErrChans
<1>1. ASSUME UNCHANGED <<disk, watcher>>,
             main' \in {"registering", "launching", "starting", "started", "waiting", "fatal",
                       "exited", "crashed"},
             runner' \in [pc : {"none", "idle", "notified", "running", "failed"},
                         ver : 0..MaxWrites, id : RunIds \cup {Empty}],
             completed' \subseteq RunIds, runsOf' \in [1..MaxWrites -> Nat],
             failures' \in [run : 0..MaxFailures, crash : 0..MaxCrashes], spoiled' \in BOOLEAN
      PROVE  TypeOK'
  BY <1>0, <1>1 DEF TypeOK, W!TypeOK, W!Watched, watcher
<1>2. /\ failures \in [run : 0..MaxFailures, crash : 0..MaxCrashes]
      /\ \A k \in 0..MaxFailures : k < MaxFailures => k + 1 \in 0..MaxFailures
      /\ \A k \in 0..MaxCrashes : k < MaxCrashes => k + 1 \in 0..MaxCrashes
  BY CounterAssumption DEF TypeOK
<1>3. CASE ConfigChanges
  <2>1. disk' \in [Files -> [value : W!Values, ver : 1..MaxWrites]]
    <3>1. PICK v \in W!Values : disk' = [disk EXCEPT ![RunIdFile] = [value |-> v, ver |-> OnDisk.ver + 1]]
      BY <1>3 DEF ConfigChanges, W!Write, OnDisk
    <3>2. OnDisk.ver + 1 \in 1..MaxWrites
      BY <1>3, ItemTypes, CounterAssumption DEF ConfigChanges, W!Write, OnDisk
    <3> QED
      BY <3>1, <3>2 DEF TypeOK, W!TypeOK
  <2>2. spoiled' \in BOOLEAN
    BY <1>3 DEF ConfigChanges, TypeOK
  <2> QED
    BY <1>0, <1>3, <2>1, <2>2 DEF ConfigChanges, W!Write, TypeOK, W!TypeOK, W!Watched, run
<1>4. CASE Crash
  <2>1. failures' \in [run : 0..MaxFailures, crash : 0..MaxCrashes]
    BY <1>2, <1>4 DEF Crash
  <2> QED
    BY <1>4, <2>1, EndsTypes DEF Crash
<1>5. CASE Restart
  BY <1>1, <1>5 DEF Restart, TypeOK, run
<1>6. CASE RegisterHandler
  <2>1. [content |-> RunIdChan, err |-> ErrChan] \in W!Pairs
    BY DEF W!Pairs, ContentChans, ErrChans
  <2>2. handlers' = [handlers EXCEPT ![RunIdFile] = Append(@, [content |-> RunIdChan, err |-> ErrChan])]
    BY <1>6 DEF RegisterHandler, W!AddHandler
  <2>3. /\ handlers \in [Files -> Seq(W!Pairs)] /\ next \in [Files -> Nat]
        /\ \A f \in Files : next[f] <= Len(handlers[f])
    BY DEF TypeOK, W!TypeOK
  <2>4. /\ handlers' \in [Files -> Seq(W!Pairs)]
        /\ Len(handlers'[RunIdFile]) = Len(handlers[RunIdFile]) + 1
        /\ Len(handlers[RunIdFile]) \in Nat
    <3> DEFINE pair == [content |-> RunIdChan, err |-> ErrChan]
    <3>1. handlers[RunIdFile] \in Seq(W!Pairs)
      BY <2>3 DEF Files
    <3>2. /\ Append(handlers[RunIdFile], pair) \in Seq(W!Pairs)
          /\ Len(Append(handlers[RunIdFile], pair)) = Len(handlers[RunIdFile]) + 1
          /\ Len(handlers[RunIdFile]) \in Nat
      BY <2>1, <3>1, Appended
    <3>3. handlers' = [handlers EXCEPT ![RunIdFile] = Append(handlers[RunIdFile], pair)]
      BY <2>2
    <3> HIDE DEF pair
    <3> QED
      BY <2>3, <3>2, <3>3 DEF Files
  <2>5. \A f \in Files : next[f] <= Len(handlers'[f])
    <3>1. next[RunIdFile] \in Nat /\ next[RunIdFile] <= Len(handlers[RunIdFile])
      BY <2>3 DEF Files
    <3> QED
      BY <2>4, <3>1 DEF Files
  <2>6. \A f \in Files : handlers'[f] # << >>
    BY <2>4 DEF Files
  <2> QED
    BY <1>0, <1>6, <2>4, <2>5, <2>6 DEF RegisterHandler, Main, W!AddHandler, TypeOK, W!TypeOK, W!Watched, run
<1>7. CASE GoRunner
  BY <1>1, <1>7, RunnerTypes DEF GoRunner, Main, W!Listen, TypeOK, run, watcher
<1>8. CASE StartWatcher
  BY <1>0, <1>8 DEF StartWatcher, Main, W!Start, TypeOK, W!TypeOK, W!Watched, run
<1>9. CASE AwaitError
  BY <1>1, <1>9 DEF AwaitError, Main, W!Listen, TypeOK, run, watcher
<1>10. CASE Fatal
  BY <1>2, <1>10, EndsTypes DEF Fatal
<1>11. CASE Tick
  BY <1>0, <1>11 DEF Tick, Polls, W!Tick, TypeOK, W!TypeOK, W!Watched, run
<1>12. CASE NextPass
  BY <1>0, <1>12 DEF NextPass, Polls, W!NextPass, TypeOK, W!TypeOK, W!Watched, run
<1>13. CASE CheckFile
  <2>1. item' \in [Files -> [content : RunIds \cup {Empty}, err : BOOLEAN, ver : 0..MaxWrites]]
    <3>1. [content |-> IF OnDisk.value = Fault THEN Empty ELSE OnDisk.value,
           err |-> (OnDisk.value = Fault), ver |-> OnDisk.ver]
            \in [content : RunIds \cup {Empty}, err : BOOLEAN, ver : 0..MaxWrites]
      BY ItemTypes
    <3> QED
      BY <1>13, <3>1, CheckFileStep DEF TypeOK, W!TypeOK
  <2>2. next' \in [Files -> Nat] /\ \A f \in Files : next'[f] <= Len(handlers[f])
    <3>1. Len(handlers[RunIdFile]) >= 1
      BY <1>13, CheckFileStep DEF TypeOK, W!TypeOK, W!Watched, Files
    <3> QED
      BY <1>13, <3>1, CheckFileStep DEF TypeOK, W!TypeOK, Files
  <2> QED
    BY <1>0, <1>13, <2>1, <2>2, CheckFileStep DEF TypeOK, W!TypeOK, W!Watched, run
<1>14. ASSUME W!Send(RunIdFile), UNCHANGED <<run, spoiled>>,
              main' \in {"registering", "launching", "starting", "started", "waiting", "fatal",
                        "exited", "crashed"},
              runner' \in [pc : {"none", "idle", "notified", "running", "failed"},
                          ver : 0..MaxWrites, id : RunIds \cup {Empty}]
       PROVE  TypeOK'
  <2>1. next' \in [Files -> Nat] /\ \A f \in Files : next'[f] <= Len(handlers[f])
    BY <1>14, SendStep DEF TypeOK, W!TypeOK, Files
  <2> QED
    BY <1>0, <1>14, <2>1, SendStep DEF TypeOK, W!TypeOK, W!Watched, run
<1>15. CASE NotifyRunner
  BY <1>14, <1>15, RunnerTypes DEF NotifyRunner, TypeOK
<1>16. CASE NotifyMain
  BY <1>14, <1>16 DEF NotifyMain, Main, TypeOK
<1>17. CASE BeginRun
  <2>1. OnDisk.ver \in 1..MaxWrites /\ OnDisk.value \in RunIds
    BY <1>17, ItemTypes DEF BeginRun
  <2>2. runsOf' \in [1..MaxWrites -> Nat]
    BY <1>17, <2>1 DEF BeginRun, CountRun, TypeOK
  <2>3. runner' \in [pc : {"none", "idle", "notified", "running", "failed"},
                     ver : 0..MaxWrites, id : RunIds \cup {Empty}]
    <3>1. /\ At("running") \in [pc : {"none", "idle", "notified", "running", "failed"},
                                ver : 0..MaxWrites, id : RunIds \cup {Empty}]
          /\ OnDisk.ver \in 0..MaxWrites
      BY <2>1, RunnerTypes, CounterAssumption
    <3>2. runner' = [At("running") EXCEPT !.ver = OnDisk.ver, !.id = OnDisk.value]
      BY <1>17 DEF BeginRun
    <3> QED
      BY <2>1, <3>1, <3>2
  <2> QED
    BY <1>1, <1>17, <2>2, <2>3 DEF BeginRun, TypeOK
<1>18. CASE NoRuntimeInfo
  <2>1. failures' \in [run : 0..MaxFailures, crash : 0..MaxCrashes]
    BY <1>2, <1>18 DEF NoRuntimeInfo
  <2> QED
    BY <1>18, <2>1, EndsTypes DEF NoRuntimeInfo
<1>19. CASE EndRun
  <2>1. completed' \subseteq RunIds
    BY <1>19 DEF EndRun, RunHasId, TypeOK
  <2> QED
    BY <1>1, <1>19, <2>1, RunnerTypes DEF EndRun, TypeOK
<1>20. CASE FailRun
  <2>1. failures' \in [run : 0..MaxFailures, crash : 0..MaxCrashes]
    BY <1>2, <1>20 DEF FailRun
  <2> QED
    BY <1>1, <1>20, <2>1, RunnerTypes DEF FailRun, TypeOK
<1>21. CASE ReportFailure
  BY <1>1, <1>21, RunnerTypes DEF ReportFailure, Main, TypeOK, run
<1>22. CASE UNCHANGED vars
  BY <1>1, <1>22 DEF vars, run, TypeOK
<1> QED
  BY <1>3, <1>4, <1>5, <1>6, <1>7, <1>8, <1>9, <1>10, <1>11, <1>12, <1>13, <1>15, <1>16, <1>17,
     <1>18, <1>19, <1>20, <1>21, <1>22 DEF Next, MainSteps, Watcher, Runner

----------------------------------------------------------------------------
(* What a step leaves alone *)

(* Main goes on, the container restarts, or time passes for the poller. *)
Quiet ==
  /\ UNCHANGED <<disk, handlers, item, next, runner, run, spoiled>>
  /\ main' \in {"fatal", "exited"} => main \in {"fatal", "exited"}

LEMMA Steps ==
  ASSUME [Next]_vars
  PROVE  \/ ConfigChanges \/ Crash \/ Fatal \/ NoRuntimeInfo
         \/ RegisterHandler \/ GoRunner \/ CheckFile \/ NotifyRunner \/ NotifyMain
         \/ BeginRun \/ EndRun \/ FailRun \/ ReportFailure
         \/ Quiet
<1>1. Restart => Quiet
  BY DEF Restart, Quiet, watcher
<1>2. StartWatcher => Quiet
  BY DEF StartWatcher, Main, W!Start, Quiet
<1>3. AwaitError => Quiet
  BY DEF AwaitError, Main, W!Listen, Quiet
<1>4. Tick => Quiet
  BY DEF Tick, Polls, W!Tick, Quiet
<1>5. NextPass => Quiet
  BY DEF NextPass, Polls, W!NextPass, Quiet
<1>6. UNCHANGED vars => Quiet
  BY DEF vars, watcher, Quiet
<1> QED
  BY <1>1, <1>2, <1>3, <1>4, <1>5, <1>6 DEF Next, MainSteps, Watcher, Runner

(* What the process held in memory is gone, and nothing comes but what the poller will find. *)
LEMMA EndsStep ==
  ASSUME TypeOK, NEW how, Ends(how)
  PROVE  /\ UNCHANGED <<disk, completed, spoiled>> /\ main' = how
         /\ runner'.pc = "none"
         /\ Len(handlers[RunIdFile])' = 0 /\ next'[RunIdFile] = 0
         /\ Item' = [content |-> Empty, err |-> FALSE, ver |-> 0]
         /\ \A v \in 1..MaxWrites : runsOf'[v] = 0
BY DEF Ends, NoRunner, NoRuns, Item, Files

(* A written version is the next one, and only a run ID leaves the file unspoiled. *)
LEMMA WriteStep ==
  ASSUME TypeOK, ConfigChanges
  PROVE  /\ UNCHANGED <<handlers, item, next, runner, run, main>>
         /\ OnDisk'.ver = OnDisk.ver + 1
         /\ OnDisk'.value # OnDisk.value
         /\ OnDisk'.value \in RunIds \/ spoiled'
         /\ spoiled => spoiled'
<1>1. PICK v \in W!Values \ {OnDisk.value} :
        disk' = [disk EXCEPT ![RunIdFile] = [value |-> v, ver |-> OnDisk.ver + 1]]
  BY DEF ConfigChanges, W!Write, OnDisk
<1>2. OnDisk' = [value |-> v, ver |-> OnDisk.ver + 1]
  BY <1>1 DEF OnDisk, TypeOK, W!TypeOK, Files
<1> QED
  BY <1>1, <1>2 DEF ConfigChanges, W!Write, W!Values

(* Failures and what spoils the run ID are remembered. *)
LEMMA CausesStay ==
  ASSUME TypeOK, OneHandler, [Next]_vars
  PROVE  /\ failures.run \in Nat /\ failures'.run \in Nat
         /\ failures.run > 0 => failures'.run > 0
         /\ spoiled => spoiled'
<1>1. /\ failures \in [run : 0..MaxFailures, crash : 0..MaxCrashes]
      /\ \A k \in 0..MaxFailures : k \in Nat /\ k + 1 \in Nat /\ k + 1 > 0
  BY CounterAssumption DEF TypeOK
<1>2. \/ failures'.run = failures.run \/ failures'.run = failures.run + 1
  <2>1. ConfigChanges => UNCHANGED failures
    BY DEF ConfigChanges, run
  <2>2. Crash => failures'.run = failures.run
    BY <1>1 DEF Crash
  <2>3. Fatal => UNCHANGED failures
    BY DEF Fatal
  <2>4. NoRuntimeInfo => failures' = failures \/ failures'.run = failures.run + 1
    BY <1>1 DEF NoRuntimeInfo
  <2>5. RegisterHandler \/ GoRunner \/ CheckFile \/ NotifyRunner \/ NotifyMain => UNCHANGED failures
    BY DEF RegisterHandler, GoRunner, CheckFile, Polls, NotifyRunner, NotifyMain, Main, run
  <2>6. BeginRun \/ EndRun \/ ReportFailure => UNCHANGED failures
    BY DEF BeginRun, EndRun, ReportFailure, Main, run
  <2>7. FailRun => failures'.run = failures.run + 1
    BY <1>1 DEF FailRun
  <2>8. Quiet => UNCHANGED failures
    BY DEF Quiet, run
  <2> QED
    BY <2>1, <2>2, <2>3, <2>4, <2>5, <2>6, <2>7, <2>8, Steps
<1>3. failures.run \in Nat /\ failures'.run \in Nat /\ (failures.run > 0 => failures'.run > 0)
  <2>1. failures.run \in 0..MaxFailures
    BY <1>1
  <2> QED
    BY <1>1, <1>2, <2>1
<1>4. spoiled => spoiled'
  BY Steps, CheckFileStep
  DEF ConfigChanges, Crash, Fatal, NoRuntimeInfo, Ends, RegisterHandler, GoRunner, Main,
      NotifyRunner, NotifyMain, BeginRun, EndRun, FailRun, ReportFailure, Quiet
<1> QED
  BY <1>3, <1>4

----------------------------------------------------------------------------
(* The invariant is inductive *)

LEMMA InitIInv == Init => IInv
<1> SUFFICES ASSUME Init PROVE IInv
  OBVIOUS
<1>1. TypeOK
  BY InitTypeOK
<1>2. /\ Item = [content |-> Empty, err |-> FALSE, ver |-> 0] /\ ~Sending
      /\ Len(handlers[RunIdFile]) = 0 /\ next[RunIdFile] = 0
      /\ OnDisk.ver = 1 /\ runner.pc = "none" /\ main = "registering"
      /\ \A v \in 1..MaxWrites : runsOf[v] = 0
      /\ spoiled = (OnDisk.value = Fault)
  BY DEF Init, W!Init, Item, Sending, OnDisk, Files, NoRunner, NoRuns
<1>3. OneHandler /\ ItemWasOnDisk /\ RunHasId /\ FailedForCause /\ ExitsForCause /\ AtMostThreeRuns
  BY <1>2 DEF OneHandler, ItemWasOnDisk, RunHasId, FailedForCause, ExitsForCause, AtMostThreeRuns
<1>4. Unspoiled
  BY <1>2 DEF Unspoiled
<1>5. RunsCounted
  <2>1. Coming = 1
    BY <1>2 DEF Coming, One
  <2>2. 1 \in 1..MaxWrites
    BY CounterAssumption
  <2> QED
    BY <1>2, <2>1, <2>2 DEF RunsCounted
<1> QED
  BY <1>1, <1>3, <1>4, <1>5 DEF IInv

LEMMA NextOneHandler == TypeOK /\ OneHandler /\ [Next]_vars => OneHandler'
<1> SUFFICES ASSUME TypeOK, OneHandler, [Next]_vars PROVE OneHandler'
  OBVIOUS
<1>1. UNCHANGED <<handlers, next>> => OneHandler'
  BY DEF OneHandler
<1>2. ASSUME NEW how, Ends(how) PROVE OneHandler'
  BY <1>2, EndsStep DEF OneHandler
<1>3. CASE RegisterHandler
  <2> DEFINE pair == [content |-> RunIdChan, err |-> ErrChan]
  <2>1. /\ handlers \in [Files -> Seq(W!Pairs)] /\ handlers[RunIdFile] \in Seq(W!Pairs)
        /\ pair \in W!Pairs
    BY DEF TypeOK, W!TypeOK, Files, W!Pairs, ContentChans, ErrChans
  <2>2. /\ handlers' = [handlers EXCEPT ![RunIdFile] = Append(handlers[RunIdFile], pair)]
        /\ Len(handlers[RunIdFile]) < 1 /\ UNCHANGED next
    BY <1>3 DEF RegisterHandler, W!AddHandler
  <2>3. /\ Len(Append(handlers[RunIdFile], pair)) = Len(handlers[RunIdFile]) + 1
        /\ Len(handlers[RunIdFile]) \in Nat
    BY <2>1, Appended
  <2>4. handlers'[RunIdFile] = Append(handlers[RunIdFile], pair)
    BY <2>1, <2>2 DEF Files
  <2> HIDE DEF pair
  <2> QED
    BY <2>2, <2>3, <2>4 DEF OneHandler
<1>4. CASE CheckFile
  BY <1>4, CheckFileStep DEF OneHandler, TypeOK, W!TypeOK, Files
<1>5. CASE NotifyRunner \/ NotifyMain
  BY <1>5, SendStep DEF NotifyRunner, NotifyMain, OneHandler, TypeOK, W!TypeOK, Files
<1> QED
  BY <1>1, <1>2, <1>3, <1>4, <1>5, Steps, CheckFileStep
  DEF ConfigChanges, W!Write, Crash, Fatal, NoRuntimeInfo, GoRunner, W!Listen, BeginRun, EndRun, FailRun, ReportFailure, Quiet,
      watcher

LEMMA NextItemWasOnDisk == TypeOK /\ OneHandler /\ ItemWasOnDisk /\ [Next]_vars => ItemWasOnDisk'
<1> SUFFICES ASSUME TypeOK, OneHandler, ItemWasOnDisk, [Next]_vars PROVE ItemWasOnDisk'
  OBVIOUS
<1>1. UNCHANGED <<disk, item>> => ItemWasOnDisk'
  BY DEF ItemWasOnDisk, OnDisk, Item
<1>2. ASSUME NEW how, Ends(how) PROVE ItemWasOnDisk'
  BY <1>2, EndsStep, ItemTypes DEF ItemWasOnDisk, OnDisk
<1>3. CASE ConfigChanges
  <2>1. Item' = Item /\ OnDisk'.ver = OnDisk.ver + 1
    BY <1>3, WriteStep DEF Item
  <2>2. Item.ver <= OnDisk.ver /\ Item.ver \in Nat /\ OnDisk.ver \in Nat
    BY ItemTypes DEF ItemWasOnDisk
  <2>3. Item'.ver <= OnDisk'.ver /\ Item'.ver # OnDisk'.ver
    BY <2>1, <2>2
  <2> QED
    BY <2>3 DEF ItemWasOnDisk
<1>4. CASE CheckFile
  <2>1. CASE UNCHANGED item
    BY <1>1, <1>4, <2>1, CheckFileStep
  <2>2. CASE item' = [item EXCEPT ![RunIdFile] =
                        [content |-> IF OnDisk.value = Fault THEN Empty ELSE OnDisk.value,
                         err |-> (OnDisk.value = Fault), ver |-> OnDisk.ver]]
    <3>1. /\ Item' = [content |-> IF OnDisk.value = Fault THEN Empty ELSE OnDisk.value,
                      err |-> (OnDisk.value = Fault), ver |-> OnDisk.ver]
          /\ OnDisk' = OnDisk
      BY <1>4, <2>2, CheckFileStep DEF Item, OnDisk, TypeOK, W!TypeOK, Files
    <3> QED
      BY <3>1, ItemTypes DEF ItemWasOnDisk
  <2> QED
    BY <1>4, <2>1, <2>2, CheckFileStep
<1>5. CASE NotifyRunner \/ NotifyMain
  BY <1>1, <1>5, SendStep DEF NotifyRunner, NotifyMain
<1> QED
  BY <1>1, <1>2, <1>3, <1>4, <1>5, Steps
  DEF Crash, Fatal, NoRuntimeInfo, RegisterHandler, W!AddHandler, GoRunner, W!Listen, BeginRun,
      EndRun, FailRun, ReportFailure, Quiet, watcher

LEMMA NextRunHasId == TypeOK /\ OneHandler /\ RunHasId /\ [Next]_vars => RunHasId'
<1> SUFFICES ASSUME TypeOK, OneHandler, RunHasId, [Next]_vars PROVE RunHasId'
  OBVIOUS
<1>1. UNCHANGED runner => RunHasId'
  BY DEF RunHasId
<1>2. ASSUME NEW pc \in {"idle", "notified", "failed"}, runner' = At(pc) PROVE RunHasId'
  BY <1>2, RunnerTypes DEF RunHasId
<1>3. ASSUME NEW how, Ends(how) PROVE RunHasId'
  BY <1>3, EndsStep DEF RunHasId
<1>4. CASE BeginRun
  <2>1. runner'.id = OnDisk.value /\ OnDisk.value \in RunIds
    BY <1>4, RunnerTypes DEF BeginRun
  <2> QED
    BY <2>1 DEF RunHasId
<1> QED
  BY <1>1, <1>2, <1>3, <1>4, Steps, CheckFileStep
  DEF ConfigChanges, Crash, Fatal, NoRuntimeInfo, RegisterHandler, GoRunner, NotifyRunner, NotifyMain, EndRun,
      FailRun, ReportFailure, Quiet

LEMMA NextFailedForCause == TypeOK /\ OneHandler /\ FailedForCause /\ [Next]_vars => FailedForCause'
<1> SUFFICES ASSUME TypeOK, OneHandler, FailedForCause, [Next]_vars PROVE FailedForCause'
  OBVIOUS
<1>1. UNCHANGED runner => FailedForCause'
  BY CausesStay DEF FailedForCause
<1>2. ASSUME NEW pc \in {"idle", "notified"}, runner' = At(pc) PROVE FailedForCause'
  BY <1>2, RunnerTypes DEF FailedForCause
<1>3. ASSUME NEW how, Ends(how) PROVE FailedForCause'
  BY <1>3, EndsStep DEF FailedForCause
<1>4. CASE BeginRun
  BY <1>4, RunnerTypes DEF BeginRun, FailedForCause
<1>5. CASE FailRun
  <2>1. failures'.run = failures.run + 1 /\ failures.run \in Nat
    BY <1>5, CausesStay DEF FailRun, TypeOK
  <2> QED
    BY <2>1 DEF FailedForCause
<1> QED
  BY <1>1, <1>2, <1>3, <1>4, <1>5, Steps, CheckFileStep
  DEF ConfigChanges, Crash, Fatal, NoRuntimeInfo, RegisterHandler, GoRunner, NotifyRunner, NotifyMain, EndRun,
      ReportFailure, Quiet

LEMMA NextUnspoiled ==
  TypeOK /\ OneHandler /\ ItemWasOnDisk /\ Unspoiled /\ [Next]_vars => Unspoiled'
<1> SUFFICES ASSUME TypeOK, OneHandler, ItemWasOnDisk, Unspoiled, [Next]_vars, ~spoiled'
             PROVE  /\ OnDisk'.value # Fault /\ ~Item'.err
                    /\ OnDisk'.value = Empty =>
                         ~Sending' /\ Item'.content = Empty /\ runner'.pc \in {"none", "idle"}
  BY DEF Unspoiled
<1>1. /\ ~spoiled /\ OnDisk.value # Fault /\ ~Item.err
      /\ OnDisk.value = Empty => ~Sending /\ Item.content = Empty /\ runner.pc \in {"none", "idle"}
  BY CausesStay DEF Unspoiled
<1>2. ASSUME UNCHANGED <<disk, item, next>>,
             runner'.pc \in {"none", "idle"} \/ runner'.pc = runner.pc
                \/ runner.pc \notin {"none", "idle"}
      PROVE  /\ OnDisk'.value # Fault /\ ~Item'.err
             /\ OnDisk'.value = Empty =>
                  ~Sending' /\ Item'.content = Empty /\ runner'.pc \in {"none", "idle"}
  BY <1>1, <1>2 DEF OnDisk, Item, Sending
<1>3. ASSUME NEW how, Ends(how)
      PROVE  /\ OnDisk'.value # Fault /\ ~Item'.err
             /\ OnDisk'.value = Empty =>
                  ~Sending' /\ Item'.content = Empty /\ runner'.pc \in {"none", "idle"}
  BY <1>1, <1>3, EndsStep DEF OnDisk, Sending
<1>4. CASE ConfigChanges
  <2>1. Item' = Item /\ OnDisk'.value \in RunIds
    BY <1>4, WriteStep DEF Item
  <2> QED
    BY <1>1, <2>1, ValueAssumption
<1>5. CASE CheckFile
  <2>1. UNCHANGED <<disk, runner>>
    BY <1>5, CheckFileStep
  <2>2. CASE UNCHANGED <<item, next>>
    BY <1>2, <2>1, <2>2
  <2>3. CASE OnDisk.value # Empty /\ item' = [item EXCEPT ![RunIdFile] =
                        [content |-> IF OnDisk.value = Fault THEN Empty ELSE OnDisk.value,
                         err |-> (OnDisk.value = Fault), ver |-> OnDisk.ver]]
    <3>1. ~Item'.err /\ OnDisk' = OnDisk
      BY <1>1, <2>1, <2>3 DEF Item, OnDisk, TypeOK, W!TypeOK, Files
    <3> QED
      BY <1>1, <2>3, <3>1
  <2> QED
    BY <1>1, <1>5, <2>2, <2>3, CheckFileStep
<1>6. CASE NotifyRunner
  <2>1. UNCHANGED <<disk, item>> /\ Sending
    BY <1>6, SendStep DEF NotifyRunner
  <2> QED
    BY <1>1, <2>1 DEF OnDisk, Item
<1>7. CASE NotifyMain
  BY <1>1, <1>7 DEF NotifyMain, Item
<1>8. CASE BeginRun \/ EndRun \/ FailRun \/ ReportFailure
  BY <1>2, <1>8 DEF BeginRun, EndRun, FailRun, ReportFailure, watcher
<1>9. CASE GoRunner
  BY <1>2, <1>9, RunnerTypes DEF GoRunner, W!Listen
<1>10. CASE RegisterHandler \/ Quiet
  BY <1>2, <1>10 DEF RegisterHandler, W!AddHandler, Quiet
<1> QED
  BY <1>3, <1>4, <1>5, <1>6, <1>7, <1>8, <1>9, <1>10, Steps DEF Crash, Fatal, NoRuntimeInfo

LEMMA NextExitsForCause ==
  IInv /\ [Next]_vars => ExitsForCause'
<1> SUFFICES ASSUME IInv, [Next]_vars PROVE ExitsForCause'
  OBVIOUS
<1>1. TypeOK /\ OneHandler /\ Unspoiled /\ FailedForCause /\ ExitsForCause
  BY DEF IInv
<1>2. ASSUME spoiled \/ failures.run > 0 PROVE ExitsForCause'
  BY <1>1, <1>2, CausesStay DEF ExitsForCause
<1>3. ASSUME main' \in {"fatal", "exited"} => main \in {"fatal", "exited"} PROVE ExitsForCause'
  BY <1>1, <1>3, CausesStay DEF ExitsForCause
<1>4. CASE Crash
  BY <1>4 DEF Crash, Ends, ExitsForCause
<1>5. CASE Fatal
  BY <1>3, <1>5 DEF Fatal
<1>6. CASE NoRuntimeInfo
  <2>1. CASE OnDisk.value \notin RunIds
    <3>1. OnDisk.value \in {Empty, Fault} /\ runner.pc = "notified"
      BY <1>1, <1>6, <2>1, ItemTypes DEF NoRuntimeInfo
    <3> QED
      BY <1>1, <1>2, <3>1 DEF Unspoiled
  <2>2. CASE failures' = [failures EXCEPT !.run = @ + 1]
    <3>1. failures'.run = failures.run + 1 /\ failures.run \in Nat
      BY <1>1, <2>2, CausesStay DEF TypeOK
    <3> QED
      BY <3>1 DEF ExitsForCause
  <2> QED
    BY <1>6, <2>1, <2>2 DEF NoRuntimeInfo
<1>7. CASE NotifyMain
  BY <1>1, <1>2, <1>7 DEF NotifyMain, Unspoiled, Item
<1>8. CASE ReportFailure
  BY <1>1, <1>2, <1>8 DEF ReportFailure, FailedForCause
<1>9. CASE ConfigChanges \/ CheckFile \/ NotifyRunner \/ BeginRun \/ EndRun \/ FailRun
  BY <1>3, <1>9 DEF ConfigChanges, CheckFile, Polls, NotifyRunner, BeginRun, EndRun, FailRun
<1>10. CASE RegisterHandler \/ GoRunner \/ Quiet
  BY <1>3, <1>10 DEF RegisterHandler, GoRunner, Main, Quiet
<1> QED
  BY <1>4, <1>5, <1>6, <1>7, <1>8, <1>9, <1>10, Steps

LEMMA NextRunsCounted ==
  IInv /\ [Next]_vars => RunsCounted' /\ AtMostThreeRuns'
<1> SUFFICES ASSUME IInv, [Next]_vars PROVE RunsCounted' /\ AtMostThreeRuns'
  OBVIOUS
<1>1. TypeOK /\ OneHandler /\ ItemWasOnDisk /\ RunsCounted /\ AtMostThreeRuns
  BY DEF IInv
<1>2. /\ runsOf \in [1..MaxWrites -> Nat]
      /\ OnDisk.ver \in 1..MaxWrites /\ OnDisk.ver \in Nat /\ OnDisk.value \in RunIds \cup {Empty, Fault}
      /\ runsOf[OnDisk.ver] \in Nat
      /\ Coming \in Nat /\ Coming' \in Nat
  BY <1>1, ItemTypes DEF TypeOK, Coming, One
<1>3. ASSUME UNCHANGED <<disk, runsOf>>, OnDisk.value \in RunIds => Coming' <= Coming
      PROVE  RunsCounted' /\ AtMostThreeRuns'
  BY <1>1, <1>2, <1>3 DEF RunsCounted, AtMostThreeRuns, OnDisk
<1>4. ASSUME UNCHANGED <<disk, runsOf, item, next>>, runner'.pc = "notified" => runner.pc = "notified"
      PROVE  RunsCounted' /\ AtMostThreeRuns'
  <2>1. Coming' <= Coming
    BY <1>4 DEF Coming, One, Sending, Item, OnDisk
  <2> QED
    BY <1>3, <1>4, <2>1
<1>5. ASSUME NEW how, Ends(how) PROVE RunsCounted' /\ AtMostThreeRuns'
  <2>1. /\ \A v \in 1..MaxWrites : runsOf'[v] = 0
        /\ OnDisk' = OnDisk /\ runner'.pc = "none" /\ ~Sending'
    BY <1>1, <1>5, EndsStep DEF OnDisk, Sending
  <2>2. Coming' <= 1
    BY <2>1 DEF Coming, One
  <2> QED
    BY <1>2, <2>1, <2>2 DEF RunsCounted, AtMostThreeRuns
<1>6. CASE ConfigChanges
  <2>1. UNCHANGED <<runsOf, runner>> /\ OnDisk'.ver = OnDisk.ver + 1 /\ TypeOK'
    BY <1>1, <1>6, WriteStep, NextTypeOK DEF run, IInv
  <2>2. OnDisk'.ver \in 1..MaxWrites
    BY <2>1, ItemTypes DEF OnDisk, TypeOK, W!TypeOK, Files
  <2>3. Coming' <= 3
    BY DEF Coming, One
  <2>4. \A v \in 1..MaxWrites : v > OnDisk.ver => runsOf[v] = 0
    BY <1>1 DEF RunsCounted
  <2>5. /\ \A v \in 1..MaxWrites : v > OnDisk'.ver => runsOf'[v] = 0
        /\ runsOf'[OnDisk'.ver] = 0
    BY <1>2, <2>1, <2>2, <2>4
  <2>6. \A k \in Nat : k <= 3 => 0 + k <= 3
    OBVIOUS
  <2>7. RunsCounted'
    <3>1. /\ \A v \in 1..MaxWrites : v > (OnDisk.ver)' => runsOf'[v] = 0
          /\ (runsOf[OnDisk.ver])' = 0
      BY <2>5
    <3> QED
      BY <1>2, <2>3, <2>6, <3>1 DEF RunsCounted
  <2> QED
    BY <1>1, <2>1, <2>7 DEF AtMostThreeRuns
<1>7. CASE CheckFile
  <2>1. UNCHANGED <<disk, runsOf, runner>> /\ ~Sending
    BY <1>1, <1>7, CheckFileStep DEF run
  <2>2. CASE UNCHANGED <<item, next>>
    BY <1>4, <2>1, <2>2
  <2>3. CASE /\ OnDisk.value = Fault \/ OnDisk.value # Item.content
             /\ item' = [item EXCEPT ![RunIdFile] =
                           [content |-> IF OnDisk.value = Fault THEN Empty ELSE OnDisk.value,
                            err |-> (OnDisk.value = Fault), ver |-> OnDisk.ver]]
    <3>1. Item'.ver = OnDisk'.ver
      BY <1>1, <2>1, <2>3 DEF Item, OnDisk, TypeOK, W!TypeOK, Files
    <3>2. OnDisk.value \in RunIds => Item.ver # OnDisk.ver
      BY <1>1, <2>3, ValueAssumption DEF ItemWasOnDisk
    <3>3. OnDisk.value \in RunIds => Coming' <= Coming
      BY <2>1, <3>1, <3>2 DEF Coming, One
    <3> QED
      BY <1>3, <2>1, <3>3
  <2> QED
    BY <1>1, <1>7, <2>2, <2>3, CheckFileStep
<1>8. CASE NotifyRunner
  <2>1. UNCHANGED <<disk, runsOf, item>> /\ Sending /\ runner.pc = "idle"
    BY <1>1, <1>8, SendStep DEF NotifyRunner, run
  <2>2. next'[RunIdFile] = 0
    BY <1>1, <1>8, SendStep DEF NotifyRunner, TypeOK, W!TypeOK, Files
  <2>3. Coming' <= Coming
    BY <2>1, <2>2 DEF Coming, One, Sending, Item, OnDisk
  <2> QED
    BY <1>3, <2>1, <2>3
<1>9. CASE NotifyMain
  <2>1. UNCHANGED <<disk, runsOf, item, runner>> /\ Sending
    BY <1>1, <1>9, SendStep DEF NotifyMain, Main, run
  <2>2. Coming' <= Coming
    BY <2>1 DEF Coming, One, Item, OnDisk
  <2> QED
    BY <1>3, <2>1, <2>2
<1>10. CASE BeginRun
  <2>1. /\ UNCHANGED <<disk, item, next>> /\ runner.pc = "notified" /\ OnDisk.value \in RunIds
        /\ runsOf' = [runsOf EXCEPT ![OnDisk.ver] = @ + 1]
    BY <1>10 DEF BeginRun, CountRun, watcher
  <2>2. runner'.pc = "running"
    BY <1>1, <1>10, RunnerTypes DEF BeginRun
  <2>3. Coming = Coming' + 1
    BY <2>1, <2>2 DEF Coming, One, Sending, Item, OnDisk
  <2>4. runsOf[OnDisk.ver] + Coming <= 3
    BY <1>1, <2>1 DEF RunsCounted
  <2>5. runsOf'[OnDisk.ver] = runsOf[OnDisk.ver] + 1
    BY <1>2, <2>1
  <2>6. runsOf'[OnDisk.ver] + Coming' <= 3 /\ runsOf'[OnDisk.ver] <= 3
    BY <1>2, <2>3, <2>4, <2>5
  <2>7. \A v \in 1..MaxWrites : v # OnDisk.ver => runsOf'[v] = runsOf[v]
    BY <1>2, <2>1
  <2>8. OnDisk' = OnDisk
    BY <2>1 DEF OnDisk
  <2>9. RunsCounted'
    BY <1>1, <1>2, <2>6, <2>7, <2>8 DEF RunsCounted
  <2> QED
    BY <1>1, <2>6, <2>7, <2>9 DEF AtMostThreeRuns
<1>11. CASE EndRun \/ FailRun \/ ReportFailure
  BY <1>1, <1>4, <1>11, RunnerTypes DEF EndRun, FailRun, ReportFailure, Main, watcher, run
<1>12. CASE RegisterHandler \/ GoRunner
  BY <1>1, <1>4, <1>12, RunnerTypes DEF RegisterHandler, GoRunner, Main, W!AddHandler, W!Listen, run
<1>13. CASE Quiet
  BY <1>4, <1>13 DEF Quiet, run
<1> QED
  BY <1>5, <1>6, <1>7, <1>8, <1>9, <1>10, <1>11, <1>12, <1>13, Steps DEF Crash, Fatal, NoRuntimeInfo

LEMMA Inductive == Spec => []IInv
<1>1. IInv /\ [Next]_vars => IInv'
  <2> SUFFICES ASSUME IInv, [Next]_vars PROVE IInv'
    OBVIOUS
  <2>1. /\ TypeOK /\ OneHandler /\ ItemWasOnDisk /\ RunHasId /\ Unspoiled /\ FailedForCause
    BY DEF IInv
  <2>2. TypeOK' /\ OneHandler' /\ ItemWasOnDisk' /\ RunHasId' /\ Unspoiled' /\ FailedForCause'
    BY <2>1, NextTypeOK, NextOneHandler, NextItemWasOnDisk, NextRunHasId, NextUnspoiled,
       NextFailedForCause
  <2>3. ExitsForCause' /\ RunsCounted' /\ AtMostThreeRuns'
    BY NextExitsForCause, NextRunsCounted
  <2> QED
    BY <2>2, <2>3 DEF IInv
<1> QED
  BY InitIInv, <1>1, PTL DEF Spec

----------------------------------------------------------------------------
(* The theorems *)

(* Every variable keeps its type, the watcher's among them. *)
THEOREM TypeCorrect == Spec => []TypeOK
<1>1. IInv => TypeOK
  BY DEF IInv
<1> QED
  BY <1>1, Inductive, PTL

(* However long the run ID file changes and however the process fails and restarts, a process *)
(* runs one version of the run ID at most three times.                                        *)
THEOREM ThreeRunsAtMost == Spec => []AtMostThreeRuns
<1>1. IInv => AtMostThreeRuns
  BY DEF IInv
<1> QED
  BY <1>1, Inductive, PTL

(* With a run ID file that stays readable and is never blanked, a process whose runs do not *)
(* fail does not exit: a late or stale notification is never taken for an error.            *)
THEOREM ExitIsForCause == Spec => []ExitsForCause
<1>1. IInv => ExitsForCause
  BY DEF IInv
<1> QED
  BY <1>1, Inductive, PTL
====
