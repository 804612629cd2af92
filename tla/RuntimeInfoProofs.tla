---- MODULE RuntimeInfoProofs ----
(* Theorems about RuntimeInfo, for any contents of the ConfigMap and the Secret and any bounds. *)
EXTENDS RuntimeInfo, TLAPS

Step == Len(got) + 1

(* The volumes only grow, and what is remembered of them is not ahead of them. *)
Grown ==
  /\ Version("config") >= 1 /\ Version("secret") >= 1
  /\ Version("secret") <= MaxSecrets
  /\ \A k \in 1..Len(secretAt) : secretAt[k] <= Version("secret")
  /\ began \in [config : Nat, secret : Nat]
  /\ began.config <= Version("config") /\ began.secret <= Version("secret")

(* What was read, file by file. *)
InOrder ==
  /\ pc = "running" => Len(got) = Len(Reads)
  /\ \A i \in 1..Len(got) :
       /\ got[i].ver \in 1..Version(Reads[i].volume)
       /\ got[i].ver >= IF Reads[i].volume = "config" THEN got[1].ver ELSE secretAt[got[1].ver]

(* As long as nothing has been projected since GetRuntimeInfo was called, a file that existed *)
(* is there, and what is wrong with the run ID is wrong with the file.                        *)
Undisturbed ==
  /\ pc = "open" => Len(got) < Len(Reads)
  /\ pc = "fatal" => errs # {} \/ ~hostName
  /\ Versions = began =>
       /\ pc = "open" => There
       /\ "vanished" \notin errs
       /\ "mandatory" \in errs => OnDisk \in {Empty, Fault}

IInv == TypeOK /\ Grown /\ InOrder /\ Undisturbed

(* What the file with number i was read out of; and what was found is what was there, the run *)
(* ID included.                                                                               *)
Then(i) == volume[Reads[i].volume][got[i].ver]
Truly(i) ==
  /\ got[i].found <=> Reads[i].key \in DOMAIN Then(i)
  /\ i = 1 => RunIdOf(Then(1)) \in RunIds

(* The ConfigMap's files were read one after the other, none before the call. *)
InTime(i) ==
  Reads[i].volume = "config" =>
    /\ began.config <= got[i].ver
    /\ \A j \in 1..i : Reads[j].volume = "config" => got[j].ver <= got[i].ver

(* As long as nothing went wrong, what was read is what was there. *)
ReadAsItWas == \A i \in 1..Len(got) : InTime(i) /\ (errs = {} => Truly(i))

----------------------------------------------------------------------------
(* The files *)

LEMMA TenReads ==
  /\ Len(Reads) = 10
  /\ \A i \in 1..10 : /\ Reads[i].volume = IF i \in 6..9 THEN "secret" ELSE "config"
                      /\ Reads[i].key = RunIdKey <=> i = 1
<1>1. Len(ConfigReads) = 5 /\ Len(SecretReads) = 4 /\ Len(FeatureReads) = 1
  BY DEF ConfigReads, SecretReads, FeatureReads
<1>2. Len(Reads) = 10
  BY <1>1 DEF Reads, ConfigReads, SecretReads, FeatureReads
<1>3. ASSUME NEW i \in 1..5 PROVE Reads[i] = ConfigReads[i]
  BY <1>1 DEF Reads, ConfigReads, SecretReads, FeatureReads
<1>4. ASSUME NEW i \in 6..9 PROVE Reads[i] = SecretReads[i - 5]
  BY <1>1 DEF Reads, ConfigReads, SecretReads, FeatureReads
<1>5. Reads[10] = FeatureReads[1]
  BY <1>1 DEF Reads, ConfigReads, SecretReads, FeatureReads
<1>6. ASSUME NEW i \in 1..5
      PROVE  ConfigReads[i].volume = "config" /\ (ConfigReads[i].key = RunIdKey <=> i = 1)
  BY DEF ConfigReads, File, RunIdKey, NodeLogsKey
<1>7. ASSUME NEW i \in 1..4
      PROVE  SecretReads[i].volume = "secret" /\ SecretReads[i].key # RunIdKey
  BY DEF SecretReads, File, RunIdKey
<1>8. FeatureReads[1].volume = "config" /\ FeatureReads[1].key # RunIdKey
  BY DEF FeatureReads, File, RunIdKey, WindowsHpc
<1> QED
  BY <1>2, <1>3, <1>4, <1>5, <1>6, <1>7, <1>8

LEMMA FirstIsRunId == Index(RunIdKey) = 1
  BY TenReads DEF Index

LEMMA SameReads == ASSUME os' = os PROVE Reads' = Reads
  BY DEF Reads, ConfigReads, SecretReads, FeatureReads, File, NodeLogsKey, RunIdKey, WindowsHpc

----------------------------------------------------------------------------
(* Sequences *)

LEMMA Element ==
  ASSUME NEW S, NEW s \in Seq(S)
  PROVE  Len(s) \in Nat /\ \A k \in 1..Len(s) : s[k] \in S
  OBVIOUS

LEMMA Appended ==
  ASSUME NEW S, NEW s \in Seq(S), NEW e \in S
  PROVE  /\ Len(Append(s, e)) = Len(s) + 1
         /\ \A k \in 1..Len(s) : Append(s, e)[k] = s[k]
         /\ Append(s, e)[Len(s) + 1] = e
  OBVIOUS

----------------------------------------------------------------------------
(* Types *)

LEMMA ContentTypes ==
  ASSUME TypeOK, Version("config") >= 1, Version("secret") >= 1
  PROVE  /\ Content("config") \in ConfigMaps /\ Content("secret") \in Secrets
         /\ OnDisk \in RunIds \cup {Empty, Fault}
<1>1. Content("config") \in ConfigMaps /\ Content("secret") \in Secrets
  BY DEF TypeOK, Content, Version
<1>2. RunIdOf(Content("config")) \in RunIds \cup {Empty, Fault}
  BY <1>1, RunIdAssumption DEF RunIdOf, RunIdKey
<1> QED
  BY <1>1, <1>2 DEF OnDisk

LEMMA InitIInv == Init => IInv
<1> SUFFICES ASSUME Init PROVE IInv
  OBVIOUS
<1>0. PICK c \in ConfigMaps, s \in Secrets :
        volume = [v \in {"config", "secret"} |-> IF v = "config" THEN <<c>> ELSE <<s>>]
  BY DEF Init
<1>1. Version("config") = 1 /\ Version("secret") = 1
  BY <1>0 DEF Version
<1>2. TypeOK
  <2>1. /\ volume \in [{"config", "secret"} -> Seq(ConfigMaps \cup Secrets)]
        /\ volume["config"] \in Seq(ConfigMaps) /\ volume["secret"] \in Seq(Secrets)
    BY <1>0
  <2>2. secretAt \in Seq(1..MaxSecrets) /\ Len(secretAt) = Version("config")
    BY <1>1, BoundAssumption DEF Init
  <2>3. failures \in 0..MaxFailures
    BY BoundAssumption DEF Init
  <2> QED
    BY <2>1, <2>2, <2>3, TenReads DEF Init, TypeOK
<1>3. Grown
  BY <1>1, BoundAssumption DEF Init, Grown, NotBegun
<1>4. InOrder /\ Undisturbed
  BY <1>1 DEF Init, InOrder, Undisturbed, Versions, NotBegun
<1> QED
  BY <1>2, <1>3, <1>4 DEF IInv

(* A call of readFileContent that returns: what it leaves as it was, and what it adds. *)
LEMMA ReturnTypes ==
  ASSUME TypeOK, Grown, NEW found \in BOOLEAN, NEW why \in SUBSET {"io", "vanished", "mandatory"},
         Len(got) < Len(Reads), Return(found, why), failures' \in 0..MaxFailures
  PROVE  TypeOK'
<1>1. Reads' = Reads
  BY SameReads DEF Return, world
<1>2. Step \in 1..10
  <2>1. got \in Seq([found : BOOLEAN, ver : Nat])
    BY DEF TypeOK
  <2>2. Len(got) \in Nat
    BY <2>1
  <2>3. Len(got) < 10
    BY TenReads
  <2> QED
    BY <2>2, <2>3 DEF Step
<1>3. Version(Next1.volume) \in Nat
  BY <1>2, TenReads DEF Next1, Step, Version, TypeOK
<1>4. got' \in Seq([found : BOOLEAN, ver : Nat]) /\ Len(got') <= Len(Reads')
  BY <1>1, <1>2, <1>3, TenReads DEF Return, TypeOK, Step
<1> QED
  BY <1>4 DEF Return, TypeOK, world, feed, Version

LEMMA NextTypes == IInv /\ [Next]_vars => TypeOK'
<1> SUFFICES ASSUME IInv, [Next]_vars PROVE TypeOK'
  OBVIOUS
<1> USE DEF IInv
<1>1. ASSUME NEW c \in ConfigMaps, Project("config", c) PROVE TypeOK'
  <2>1. volume' = [volume EXCEPT !["config"] = Append(@, c)] /\ Version("config") < MaxConfigs
    BY <1>1 DEF Project
  <2>2. /\ volume' \in [{"config", "secret"} -> Seq(ConfigMaps \cup Secrets)]
        /\ volume'["config"] \in Seq(ConfigMaps) /\ volume'["secret"] \in Seq(Secrets)
        /\ Len(volume'["config"]) = Version("config") + 1
    BY <2>1 DEF TypeOK, Version
  <2>3. Version("secret") \in 1..MaxSecrets
    <3>1. volume["secret"] \in Seq(Secrets)
      BY DEF TypeOK
    <3> QED
      BY <3>1 DEF Grown, Version
  <2>4. secretAt' = Append(secretAt, Version("secret"))
    BY <1>1 DEF Project
  <2>5. secretAt' \in Seq(1..MaxSecrets) /\ Len(secretAt') = Len(secretAt) + 1
    <3>1. secretAt \in Seq(1..MaxSecrets)
      BY DEF TypeOK
    <3> HIDE DEF IInv
    <3> QED
      BY <2>3, <2>4, <3>1
  <2>6. Reads' = Reads
    BY <1>1, SameReads DEF Project, world
  <2> QED
    BY <1>1, <2>2, <2>5, <2>6 DEF Project, TypeOK, world, feed, memory, Version
<1>2. ASSUME NEW s \in Secrets, Project("secret", s) PROVE TypeOK'
  <2>1. volume' = [volume EXCEPT !["secret"] = Append(@, s)] /\ Version("secret") < MaxSecrets
    BY <1>2 DEF Project
  <2>2. /\ volume' \in [{"config", "secret"} -> Seq(ConfigMaps \cup Secrets)]
        /\ volume'["config"] = volume["config"] /\ volume'["secret"] \in Seq(Secrets)
    BY <2>1 DEF TypeOK
  <2>3. Reads' = Reads
    BY <1>2, SameReads DEF Project, world
  <2> QED
    BY <1>2, <2>2, <2>3 DEF Project, TypeOK, world, feed, memory, Version
<1>3. CASE Publish
  <2>1. latest' = [latest EXCEPT ![RunIdKey] = OnDisk] /\ owed' = [owed EXCEPT ![RunIdKey] = {"periscope"}]
    BY <1>3 DEF Publish, Feed!Publish, RunIdKey
  <2>2. Reads' = Reads
    BY <1>3, SameReads DEF Publish, world
  <2> QED
    BY <1>3, <2>1, <2>2, ContentTypes DEF Publish, TypeOK, Grown, world, memory, Version
<1>4. ASSUME Feed!Take(RunIdKey, "periscope"), UNCHANGED <<world, volume, secretAt, failures>>,
             pc' \in {"exists", "exited"}, got' = << >>, errs' = {}, producers' = {}
      PROVE  TypeOK'
  <2>1. latest' = latest /\ owed' = [owed EXCEPT ![RunIdKey] = @ \ {"periscope"}]
    BY <1>4 DEF Feed!Take
  <2> QED
    BY <1>4, <2>1, TenReads, SameReads DEF TypeOK, world, Version
<1>5. CASE Begin
  BY <1>4, <1>5 DEF Begin
<1>6. CASE Abort
  BY <1>4, <1>6 DEF Abort, NoMemory
<1>7. CASE FileExists
  BY <1>7, SameReads DEF FileExists, TypeOK, world, feed, memory, Version
<1>8. CASE FileMissing
  BY <1>8, ReturnTypes DEF FileMissing, Reading, TypeOK
<1>9. CASE ReadContent
  BY <1>9, ReturnTypes DEF ReadContent, Reading, TypeOK
<1>10. CASE FileVanished
  BY <1>10, ReturnTypes DEF FileVanished, Reading, TypeOK
<1>11. CASE ReadFails
  <2>1. Len(got) < Len(Reads) /\ Return(FALSE, {"io"})
    BY <1>11 DEF ReadFails, Reading
  <2>2. failures' \in 0..MaxFailures
    BY <1>11, BoundAssumption DEF ReadFails, TypeOK
  <2> QED
    BY <2>1, <2>2, ReturnTypes
<1>12. CASE NoRuntimeInfo
  BY <1>12, SameReads DEF NoRuntimeInfo, TypeOK, world, feed, memory, Version
<1>13. CASE FailRun
  <2>1. failures' \in 0..MaxFailures
    BY <1>13, BoundAssumption DEF FailRun, TypeOK
  <2> QED
    BY <1>13, <2>1, SameReads, TenReads DEF FailRun, TypeOK, NoMemory, world, feed, Version
<1>14. CASE StartCollectors
  BY <1>14, SameReads DEF StartCollectors, Failed, TypeOK, world, feed, Version
<1>15. CASE EndRun
  BY <1>15, SameReads, TenReads DEF EndRun, TypeOK, NoMemory, world, feed, Version
<1>16. CASE Restart
  BY <1>16, SameReads, TenReads DEF Restart, TypeOK, NoMemory, world, Version
<1>17. CASE UNCHANGED vars
  BY <1>17, SameReads DEF vars, TypeOK, world, feed, memory, Version
<1> QED
  BY <1>1, <1>2, <1>3, <1>5, <1>6, <1>7, <1>8, <1>9, <1>10, <1>11, <1>12, <1>13, <1>14, <1>15,
     <1>16, <1>17 DEF Next, GetRuntimeInfo, Run

----------------------------------------------------------------------------
(* The volumes *)

LEMMA VolumeTypes ==
  ASSUME TypeOK
  PROVE  /\ Version("config") \in Nat /\ Version("secret") \in Nat
         /\ Len(secretAt) = Version("config")
         /\ \A k \in 1..Len(secretAt) : secretAt[k] \in Nat
<1>1. volume["config"] \in Seq(ConfigMaps) /\ volume["secret"] \in Seq(Secrets)
  BY DEF TypeOK
<1>2. secretAt \in Seq(1..MaxSecrets)
  BY DEF TypeOK
<1>3. \A k \in 1..Len(secretAt) : secretAt[k] \in 1..MaxSecrets
  BY <1>2, Element
<1>4. \A k \in 1..MaxSecrets : k \in Nat
  BY BoundAssumption
<1> QED
  BY <1>1, <1>3, <1>4 DEF TypeOK, Version

(* A projection makes a volume longer by one and leaves the other; whatever was remembered is *)
(* now behind.                                                                                *)
LEMMA ProjectedConfig ==
  ASSUME TypeOK, Grown, NEW c \in ConfigMaps, Project("config", c)
  PROVE  /\ Version("config")' = Version("config") + 1 /\ Version("secret")' = Version("secret")
         /\ Len(secretAt') = Len(secretAt) + 1
         /\ \A k \in 1..Len(secretAt) : secretAt'[k] = secretAt[k]
         /\ secretAt'[Len(secretAt) + 1] = Version("secret")
         /\ Versions' # began' /\ Grown'
<1>1. volume' = [volume EXCEPT !["config"] = Append(@, c)] /\ secretAt' = Append(secretAt, Version("secret"))
  BY DEF Project
<1>2. Version("config")' = Version("config") + 1 /\ Version("secret")' = Version("secret")
  BY <1>1 DEF TypeOK, Version
<1>3. secretAt \in Seq(1..MaxSecrets)
  BY DEF TypeOK
<1>4. /\ Len(secretAt') = Len(secretAt) + 1
      /\ \A k \in 1..Len(secretAt) : secretAt'[k] = secretAt[k]
      /\ secretAt'[Len(secretAt) + 1] = Version("secret")
  BY <1>1, <1>3
<1>5. began' = began
  BY DEF Project, memory
<1>6. Versions' # began'
  BY <1>2, <1>5, VolumeTypes DEF Versions, Grown
<1>7. \A k \in 1..Len(secretAt') : secretAt'[k] <= Version("secret")'
  BY <1>2, <1>4, VolumeTypes DEF Grown
<1>8. Grown'
  BY <1>2, <1>5, <1>7, VolumeTypes DEF Grown
<1> QED
  BY <1>2, <1>4, <1>6, <1>8

LEMMA ProjectedSecret ==
  ASSUME TypeOK, Grown, NEW s \in Secrets, Project("secret", s)
  PROVE  /\ Version("config")' = Version("config") /\ Version("secret")' = Version("secret") + 1
         /\ secretAt' = secretAt /\ Versions' # began' /\ Grown'
<1>1. volume' = [volume EXCEPT !["secret"] = Append(@, s)] /\ secretAt' = secretAt /\ began' = began
      /\ Version("secret") < MaxSecrets
  BY DEF Project, memory
<1>2. Version("config")' = Version("config") /\ Version("secret")' = Version("secret") + 1
  BY <1>1 DEF TypeOK, Version
<1>3. Versions' # began'
  BY <1>1, <1>2, VolumeTypes DEF Versions, Grown
<1>4. Grown'
  BY <1>1, <1>2, VolumeTypes, BoundAssumption DEF Grown
<1> QED
  BY <1>1, <1>2, <1>3, <1>4

(* Every other step leaves them. *)
LEMMA GrownSame ==
  ASSUME TypeOK, Grown, UNCHANGED <<volume, secretAt>>, began' \in {began, NotBegun, Versions}
  PROVE  Grown'
<1>1. Version("config")' = Version("config") /\ Version("secret")' = Version("secret")
  BY DEF Version
<1>2. /\ began' \in [config : Nat, secret : Nat]
      /\ began'.config <= Version("config") /\ began'.secret <= Version("secret")
  BY VolumeTypes DEF Grown, NotBegun, Versions
<1> QED
  BY <1>1, <1>2 DEF Grown

LEMMA NextGrown == IInv /\ [Next]_vars => Grown'
<1> SUFFICES ASSUME IInv, [Next]_vars PROVE Grown'
  OBVIOUS
<1> USE DEF IInv
<1>1. ASSUME NEW c \in ConfigMaps, Project("config", c) PROVE Grown'
  BY <1>1, ProjectedConfig
<1>2. ASSUME NEW s \in Secrets, Project("secret", s) PROVE Grown'
  BY <1>2, ProjectedSecret
<1>3. CASE UNCHANGED <<volume, secretAt>> /\ began' \in {began, NotBegun, Versions}
  BY <1>3, GrownSame
<1>4. CASE Publish \/ Begin \/ Abort
  BY <1>3, <1>4 DEF Publish, Begin, Abort, NoMemory, memory
<1>5. CASE GetRuntimeInfo
  BY <1>3, <1>5 DEF GetRuntimeInfo, FileExists, FileMissing, ReadContent, FileVanished, ReadFails,
     NoRuntimeInfo, Return, memory
<1>6. CASE Run \/ Restart
  BY <1>3, <1>6 DEF Run, FailRun, StartCollectors, EndRun, Restart, NoMemory
<1>7. CASE UNCHANGED vars
  BY <1>3, <1>7 DEF vars, memory
<1> QED
  BY <1>1, <1>2, <1>4, <1>5, <1>6, <1>7 DEF Next

----------------------------------------------------------------------------
(* What was read *)

LEMMA GotLength == ASSUME TypeOK PROVE Len(got) \in 0..10
<1>1. Len(got) \in Nat
  <2>1. got \in Seq([found : BOOLEAN, ver : Nat])
    BY DEF TypeOK
  <2> QED
    BY <2>1, Element
<1>2. Len(got) <= 10
  BY TenReads DEF TypeOK
<1>3. \A n \in Nat : n <= 10 => n \in 0..10
  OBVIOUS
<1> QED
  BY <1>1, <1>2, <1>3

LEMMA StepRange ==
  ASSUME TypeOK, Len(got) < Len(Reads)
  PROVE  Step \in 1..10 /\ Next1 = Reads[Step]
<1>1. Len(got) < 10
  BY TenReads
<1>2. Step \in 1..10
  BY <1>1, GotLength DEF Step
<1> QED
  BY <1>2 DEF Step, Next1

(* A call of readFileContent that returns adds one file to those that were read. *)
LEMMA ReturnAppends ==
  ASSUME TypeOK, NEW found \in BOOLEAN, NEW why, Len(got) < Len(Reads), Return(found, why)
  PROVE  /\ Step \in 1..10 /\ Next1 = Reads[Step] /\ Reads' = Reads
         /\ Len(got') = Step
         /\ got'[Step] = [found |-> found, ver |-> Version(Reads[Step].volume)]
         /\ \A i \in 1..Len(got) : got'[i] = got[i]
<1> DEFINE last == [found |-> found, ver |-> Version(Next1.volume)]
<1>1. got' = Append(got, last)
  BY DEF Return
<1>2. Reads' = Reads
  BY SameReads DEF Return, world
<1>3. Step \in 1..10 /\ Next1 = Reads[Step]
  BY StepRange
<1>4. last \in [found : BOOLEAN, ver : Nat]
  BY <1>3, TenReads, VolumeTypes
<1>5. got \in Seq([found : BOOLEAN, ver : Nat])
  BY DEF TypeOK
<1>6. last = [found |-> found, ver |-> Version(Reads[Step].volume)]
  BY <1>3
<1> HIDE DEF last
<1>7. Len(got') = Step /\ got'[Step] = last /\ \A i \in 1..Len(got) : got'[i] = got[i]
  BY <1>1, <1>4, <1>5, Appended DEF Step
<1> QED
  BY <1>2, <1>3, <1>6, <1>7

LEMMA ReturnInOrder ==
  ASSUME IInv, NEW found \in BOOLEAN, NEW why, Len(got) < Len(Reads), Return(found, why)
  PROVE  InOrder'
<1> USE DEF IInv
<1> DEFINE last == got'[Step]
<1>1. pc' = "exists" /\ volume' = volume /\ secretAt' = secretAt
  BY DEF Return
<1>2. Reads' = Reads
  BY ReturnAppends
<1>3. Step \in 1..10
  BY ReturnAppends
<1>4. /\ Len(got') = Step
      /\ got'[Step] = last
      /\ \A i \in 1..Len(got) : got'[i] = got[i]
  BY ReturnAppends
<1>5. last.ver = Version(Reads[Step].volume)
  <2>1. last = [found |-> found, ver |-> Version(Reads[Step].volume)]
    BY ReturnAppends
  <2> QED
    BY <2>1
<1>6. Version("config") >= 1 /\ Version("secret") >= 1
      /\ Len(secretAt) = Version("config") /\ Version("config") \in Nat /\ Version("secret") \in Nat
  BY VolumeTypes DEF Grown
<1>7. ASSUME NEW i \in 1..Step
      PROVE  /\ got'[i].ver \in 1..Version(Reads[i].volume)
             /\ got'[i].ver >= IF Reads[i].volume = "config" THEN got'[1].ver ELSE secretAt[got'[1].ver]
  <2>1. CASE i < Step
    <3>1. i \in 1..Len(got) /\ 1 \in 1..Len(got)
      BY <1>3, <2>1, GotLength DEF Step
    <3> QED
      BY <1>4, <3>1 DEF InOrder
  <2>2. CASE i = Step /\ Step = 1
    <3>1. Reads[1].volume = "config"
      BY TenReads
    <3> QED
      BY <1>4, <1>5, <1>6, <2>2, <3>1
  <2>3. CASE i = Step /\ Step > 1
    <3>1. 1 \in 1..Len(got) /\ Reads[1].volume = "config"
      BY <1>3, <2>3, GotLength, TenReads DEF Step
    <3>2. got'[1].ver \in 1..Version("config")
      BY <1>4, <3>1 DEF InOrder
    <3>3. secretAt[got'[1].ver] <= Version("secret")
      BY <1>6, <3>2 DEF Grown
    <3>4. Reads[i].volume \in {"config", "secret"}
      BY <1>3, <2>3, TenReads
    <3> HIDE DEF last, IInv
    <3> QED
      BY <1>4, <1>5, <1>6, <2>3, <3>2, <3>3, <3>4
  <2> QED
    BY <1>3, <2>1, <2>2, <2>3
<1> QED
  BY <1>1, <1>2, <1>4, <1>7 DEF InOrder, Version

LEMMA NextInOrder == IInv /\ [Next]_vars => InOrder'
<1> SUFFICES ASSUME IInv, [Next]_vars PROVE InOrder'
  OBVIOUS
<1>0. /\ TypeOK /\ Grown /\ InOrder
      /\ \A i \in 1..Len(got) : i \in 1..10 /\ 1 \in 1..Len(got)
  <2>1. \A n \in 0..10 : \A i \in 1..n : i \in 1..10 /\ 1 \in 1..n
    OBVIOUS
  <2> QED
    BY <2>1, GotLength DEF IInv
<1>1. ASSUME UNCHANGED <<volume, secretAt, got, os>>, pc' = "running" => Len(got) = Len(Reads)
      PROVE  InOrder'
  <2>1. Reads' = Reads
    BY <1>1, SameReads
  <2> QED
    BY <1>0, <1>1, <2>1 DEF InOrder, Version
<1>2. ASSUME got' = << >>, pc' # "running" PROVE InOrder'
  BY <1>2 DEF InOrder
<1>3. ASSUME NEW v \in {"config", "secret"}, UNCHANGED <<got, pc, os>>,
             Version("config") <= Version("config")', Version("config")' \in Nat,
             Version("secret") <= Version("secret")', Version("secret")' \in Nat,
             \A k \in 1..Len(secretAt) : secretAt'[k] = secretAt[k]
      PROVE  InOrder'
  <2>1. Reads' = Reads
    BY <1>3, SameReads
  <2>2. ASSUME NEW i \in 1..Len(got)
        PROVE  /\ got[i].ver \in 1..Version(Reads[i].volume)'
               /\ got[i].ver >= IF Reads[i].volume = "config" THEN got[1].ver ELSE secretAt'[got[1].ver]
    <3>1. Reads[i].volume \in {"config", "secret"} /\ Reads[1].volume = "config"
      BY <1>0, <2>2, TenReads
    <3>2. got[1].ver \in 1..Len(secretAt)
      BY <1>0, <2>2, <3>1, VolumeTypes DEF InOrder
    <3>3. got[i].ver \in 1..Version(Reads[i].volume)
      BY <1>0, <2>2 DEF InOrder
    <3>4. got[i].ver \in 1..Version(Reads[i].volume)'
      BY <1>0, <1>3, <2>1, <3>1, <3>3, VolumeTypes
    <3> QED
      BY <1>0, <1>3, <2>2, <3>2, <3>4 DEF InOrder
  <2> QED
    BY <1>0, <1>3, <2>1, <2>2 DEF InOrder
<1>4. ASSUME NEW c \in ConfigMaps, Project("config", c) PROVE InOrder'
  <2>1. UNCHANGED <<got, pc, os>>
    BY <1>4 DEF Project, world, memory
  <2> QED
    BY <1>0, <1>3, <1>4, <2>1, ProjectedConfig, VolumeTypes
<1>5. ASSUME NEW s \in Secrets, Project("secret", s) PROVE InOrder'
  <2>1. UNCHANGED <<got, pc, os>>
    BY <1>5 DEF Project, world, memory
  <2> QED
    BY <1>0, <1>3, <1>5, <2>1, ProjectedSecret, VolumeTypes
<1>6. CASE Publish
  BY <1>0, <1>1, <1>6 DEF Publish, world, memory, InOrder
<1>7. CASE Begin \/ Abort \/ FailRun \/ EndRun \/ Restart
  BY <1>2, <1>7 DEF Begin, Abort, FailRun, EndRun, Restart, NoMemory
<1>8. CASE FileExists \/ NoRuntimeInfo \/ StartCollectors
  BY <1>1, <1>8 DEF FileExists, NoRuntimeInfo, StartCollectors, Over, world, memory
<1>9. CASE FileMissing \/ ReadContent \/ FileVanished \/ ReadFails
  BY <1>9, ReturnInOrder DEF FileMissing, ReadContent, FileVanished, ReadFails, Reading
<1>10. CASE UNCHANGED vars
  BY <1>0, <1>1, <1>10 DEF vars, world, memory, InOrder
<1> QED
  BY <1>4, <1>5, <1>6, <1>7, <1>8, <1>9, <1>10 DEF Next, GetRuntimeInfo, Run

----------------------------------------------------------------------------
(* What went wrong *)

LEMMA NextUndisturbed == IInv /\ [Next]_vars => Undisturbed'
<1> SUFFICES ASSUME IInv, [Next]_vars PROVE Undisturbed'
  OBVIOUS
<1>0. TypeOK /\ Grown /\ Undisturbed
  BY DEF IInv
<1>1. ASSUME UNCHANGED <<volume, os, got, began, errs, hostName>>, pc' = pc \/ pc' = "running"
      PROVE  Undisturbed'
  <2>1. Reads' = Reads /\ Versions' = Versions /\ OnDisk' = OnDisk
    BY <1>1, SameReads DEF Versions, Version, OnDisk, Content
  <2>2. There' = There
    BY <1>1, <2>1 DEF There, Next1, Content, Version
  <2> QED
    BY <1>0, <1>1, <2>1, <2>2 DEF Undisturbed
<1>2. ASSUME errs' = {}, pc' \notin {"open", "fatal"} PROVE Undisturbed'
  BY <1>2 DEF Undisturbed
<1>3. ASSUME NEW c \in ConfigMaps, Project("config", c) PROVE Undisturbed'
  <2>1. Reads' = Reads /\ UNCHANGED <<pc, got, errs, hostName>>
    BY <1>3, SameReads DEF Project, world, memory
  <2> QED
    BY <1>0, <1>3, <2>1, ProjectedConfig DEF Undisturbed
<1>4. ASSUME NEW s \in Secrets, Project("secret", s) PROVE Undisturbed'
  <2>1. Reads' = Reads /\ UNCHANGED <<pc, got, errs, hostName>>
    BY <1>4, SameReads DEF Project, world, memory
  <2> QED
    BY <1>0, <1>4, <2>1, ProjectedSecret DEF Undisturbed
<1>5. ASSUME NEW found, NEW why, Return(found, why),
             Versions = began => "vanished" \notin why,
             "mandatory" \in why => OnDisk \in {Empty, Fault}
      PROVE  Undisturbed'
  <2>1. /\ pc' = "exists" /\ errs' = errs \cup why /\ began' = began
        /\ Versions' = Versions /\ OnDisk' = OnDisk
    BY <1>5 DEF Return, Versions, Version, OnDisk, Content
  <2> QED
    BY <1>0, <1>5, <2>1 DEF Undisturbed
<1>6. ASSUME Len(got) < Len(Reads), Mandatory(Next1) PROVE Next1 = File("config", RunIdKey)
  <2>1. Next1 = Reads[1]
    BY <1>0, <1>6, StepRange, TenReads DEF Mandatory
  <2> QED
    BY <2>1, TenReads DEF Reads, ConfigReads, SecretReads, FeatureReads
<1>7. CASE Publish
  BY <1>1, <1>7 DEF Publish, world, memory
<1>8. CASE Begin \/ Abort \/ FailRun \/ EndRun \/ Restart
  BY <1>2, <1>8 DEF Begin, Abort, FailRun, EndRun, Restart, NoMemory
<1>9. CASE FileExists
  <2>1. Len(got) < Len(Reads) /\ There /\ pc' = "open"
        /\ UNCHANGED <<volume, os, got, began, errs, hostName>>
    BY <1>9 DEF FileExists, Reading, world, memory
  <2>2. Reads' = Reads /\ Versions' = Versions /\ OnDisk' = OnDisk
    BY <2>1, SameReads DEF Versions, Version, OnDisk, Content
  <2>3. There'
    BY <2>1, <2>2 DEF There, Next1, Content, Version
  <2> QED
    BY <1>0, <2>1, <2>2, <2>3 DEF Undisturbed
<1>10. CASE FileMissing
  <2>1. PICK why \in {{"mandatory"}, {}} :
          Return(FALSE, why) /\ (why = {"mandatory"} => Mandatory(Next1))
    BY <1>10 DEF FileMissing
  <2>2. "mandatory" \in why => OnDisk \in {Empty, Fault}
    BY <1>6, <1>10, <2>1 DEF FileMissing, Reading, There, OnDisk, RunIdOf, File
  <2> QED
    BY <1>5, <2>1, <2>2
<1>11. CASE ReadContent
  <2>1. PICK found \in BOOLEAN, why \in {{"mandatory"}, {}} :
          /\ Return(found, why)
          /\ why = {"mandatory"} => Mandatory(Next1) /\ Content(Next1.volume)[Next1.key] = Empty
    BY <1>11 DEF ReadContent
  <2>2. "mandatory" \in why => OnDisk \in {Empty, Fault}
    BY <1>6, <1>11, <2>1 DEF ReadContent, Reading, There, OnDisk, RunIdOf, File
  <2> QED
    BY <1>5, <2>1, <2>2
<1>12. CASE FileVanished
  <2>1. Versions # began
    BY <1>0, <1>12 DEF FileVanished, Reading, Undisturbed
  <2> QED
    BY <1>5, <1>12, <2>1 DEF FileVanished
<1>13. CASE ReadFails
  BY <1>5, <1>13 DEF ReadFails
<1>14. CASE NoRuntimeInfo
  <2>1. UNCHANGED <<volume, os, got, began, errs, hostName>> /\ pc' = "fatal"
        /\ (errs # {} \/ ~hostName)
    BY <1>14 DEF NoRuntimeInfo, Failed, world, memory
  <2>2. Versions' = Versions /\ OnDisk' = OnDisk
    BY <2>1 DEF Versions, Version, OnDisk, Content
  <2> QED
    BY <1>0, <2>1, <2>2 DEF Undisturbed
<1>15. CASE StartCollectors
  BY <1>1, <1>15 DEF StartCollectors, world
<1>16. CASE UNCHANGED vars
  BY <1>1, <1>16 DEF vars, world, memory
<1> QED
  BY <1>3, <1>4, <1>7, <1>8, <1>9, <1>10, <1>11, <1>12, <1>13, <1>14, <1>15, <1>16
     DEF Next, GetRuntimeInfo, Run

----------------------------------------------------------------------------
(* The invariant is inductive *)

LEMMA Inductive == Spec => []IInv
<1>1. IInv /\ [Next]_vars => IInv'
  <2>1. ASSUME IInv, [Next]_vars PROVE TypeOK' /\ Grown' /\ InOrder' /\ Undisturbed'
    BY <2>1, NextTypes, NextGrown, NextInOrder, NextUndisturbed
  <2> QED
    BY <2>1 DEF IInv
<1> QED
  BY InitIInv, <1>1, PTL DEF Spec

----------------------------------------------------------------------------
(* The collectors of a run *)

(* While a run goes on, its collectors are those that what it has read admits, although the *)
(* ConfigMap may have changed.                                                              *)
Chosen == pc = "running" => producers = {c \in Collectors : Supported(c)}

LEMMA ListAndFeature ==
  /\ Index(RunIdKey) = 1 /\ Index("COLLECTOR_LIST") = 2 /\ Index(WindowsHpc) = 10
  /\ Reads[2].key = "COLLECTOR_LIST" /\ Reads[10].key = WindowsHpc
<1>1. /\ Reads[1].key = RunIdKey /\ Reads[2].key = "COLLECTOR_LIST"
      /\ Reads[3].key = "DIAGNOSTIC_KUBEOBJECTS_LIST" /\ Reads[4].key = NodeLogsKey
      /\ Reads[5].key = "DIAGNOSTIC_CONTAINERLOGS_LIST"
  BY DEF Reads, ConfigReads, SecretReads, FeatureReads, File
<1>2. /\ Reads[6].key = "AZURE_BLOB_ACCOUNT_NAME" /\ Reads[7].key = "AZURE_BLOB_SAS_KEY"
      /\ Reads[8].key = "AZURE_BLOB_CONTAINER_NAME" /\ Reads[9].key = "AZURE_STORAGE_SAS_KEY_TYPE"
      /\ Reads[10].key = WindowsHpc
  BY DEF Reads, ConfigReads, SecretReads, FeatureReads, File
<1>3. \A i \in 1..10 : (Reads[i].key = "COLLECTOR_LIST" <=> i = 2) /\ (Reads[i].key = WindowsHpc <=> i = 10)
  BY <1>1, <1>2 DEF RunIdKey, NodeLogsKey, WindowsHpc
<1> QED
  BY <1>1, <1>2, <1>3, FirstIsRunId, TenReads DEF Index

(* What has been read stays what it is. *)
LEMMA SameChoice ==
  ASSUME IInv, pc = "running", UNCHANGED <<os, got>>,
         \A v \in {"config", "secret"} : \A k \in 1..Version(v) : volume'[v][k] = volume[v][k]
  PROVE  {c \in Collectors : Supported(c)}' = {c \in Collectors : Supported(c)}
<1>1. Reads' = Reads
  BY SameReads
<1>2. ASSUME NEW key, Index(key) \in 1..10
      PROVE  Found(key)' = Found(key) /\ Value(key)' = Value(key)
  <2>1. Index(key)' = Index(key)
    BY <1>1 DEF Index
  <2> DEFINE i == Index(key)
             v == Reads[i].volume
  <2>2. i \in 1..Len(got) /\ v \in {"config", "secret"}
    BY <1>2, TenReads DEF IInv, InOrder
  <2>3. got[i].ver \in 1..Version(v)
    BY <2>2 DEF IInv, InOrder
  <2>4. volume'[v][got[i].ver] = volume[v][got[i].ver]
    BY <2>2, <2>3
  <2> QED
    BY <1>1, <2>1, <2>4 DEF Found, Value
<1>3. ASSUME NEW flag PROVE InList(flag)' <=> InList(flag)
  BY <1>2, ListAndFeature DEF InList
<1>4. HasFeature' <=> HasFeature
  BY <1>2, ListAndFeature DEF HasFeature, WindowsHpc
<1>5. Value(RunIdKey)' = Value(RunIdKey)
  BY <1>2, ListAndFeature DEF RunIdKey
<1>6. ASSUME NEW c \in Collectors PROVE Supported(c)' <=> Supported(c)
  <2>1. OnOs(c)' <=> OnOs(c)
    BY DEF OnOs
  <2> QED
    BY <1>3, <1>4, <1>5, <2>1 DEF Supported
<1> QED
  BY <1>6 DEF Collectors

LEMMA NextChosen == IInv /\ Chosen /\ [Next]_vars => Chosen'
<1> SUFFICES ASSUME IInv, Chosen, [Next]_vars, pc' = "running"
             PROVE  producers' = {c \in Collectors : Supported(c)}'
  BY DEF Chosen
<1>1. ASSUME UNCHANGED <<os, volume, got, producers, pc>>
      PROVE  producers' = {c \in Collectors : Supported(c)}'
  BY <1>1, SameChoice DEF Chosen
<1>2. ASSUME NEW v \in {"config", "secret"}, NEW content \in ConfigMaps \cup Secrets, Project(v, content)
      PROVE  producers' = {c \in Collectors : Supported(c)}'
  <2>1. /\ volume' = [volume EXCEPT ![v] = Append(@, content)]
        /\ UNCHANGED <<os, got, producers, pc>>
    BY <1>2 DEF Project, world, memory
  <2>2. volume \in [{"config", "secret"} -> Seq(ConfigMaps \cup Secrets)]
    BY DEF IInv, TypeOK
  <2>3. \A k \in 1..Len(volume[v]) : Append(volume[v], content)[k] = volume[v][k]
    BY <2>2, Appended
  <2>4. \A w \in {"config", "secret"} : \A k \in 1..Version(w) : volume'[w][k] = volume[w][k]
    BY <2>1, <2>2, <2>3 DEF Version
  <2> QED
    BY <2>1, <2>4, SameChoice DEF Chosen
<1>3. CASE StartCollectors
  <2>1. UNCHANGED <<os, volume, got>> /\ producers' = {c \in Collectors : Supported(c)}
    BY <1>3 DEF StartCollectors, world
  <2>2. Reads' = Reads
    BY <2>1, SameReads
  <2>3. \A c \in Collectors : Supported(c)' <=> Supported(c)
    BY <2>1, <2>2 DEF Supported, OnOs, InList, HasFeature, Found, Value, Index
  <2> QED
    BY <2>1, <2>3 DEF Collectors
<1>4. CASE Publish
  BY <1>1, <1>4 DEF Publish, world, memory
<1>5. CASE UNCHANGED vars
  BY <1>1, <1>5 DEF vars, world, memory
<1>6. ~(Begin \/ Abort \/ GetRuntimeInfo \/ FailRun \/ EndRun \/ Restart)
  BY DEF Begin, Abort, GetRuntimeInfo, FileExists, FileMissing, ReadContent, FileVanished, ReadFails,
         NoRuntimeInfo, Return, FailRun, EndRun, Restart
<1> QED
  BY <1>2, <1>3, <1>4, <1>5, <1>6 DEF Next, Run

LEMMA AlwaysChosen == Spec => []Chosen
<1>1. Init => Chosen
  BY DEF Init, Chosen
<1> QED
  BY <1>1, NextChosen, Inductive, PTL DEF Spec

----------------------------------------------------------------------------
(* What was read is what was there *)

(* No step changes a version that was projected. *)
LEMMA VersionsStay ==
  ASSUME TypeOK, [Next]_vars
  PROVE  \A v \in {"config", "secret"} : \A k \in 1..Version(v) : volume'[v][k] = volume[v][k]
<1>1. ASSUME NEW v \in {"config", "secret"}, NEW content \in ConfigMaps \cup Secrets, Project(v, content)
      PROVE  \A w \in {"config", "secret"} : \A k \in 1..Version(w) : volume'[w][k] = volume[w][k]
  <2>1. volume' = [volume EXCEPT ![v] = Append(@, content)]
    BY <1>1 DEF Project
  <2>2. volume \in [{"config", "secret"} -> Seq(ConfigMaps \cup Secrets)]
    BY DEF TypeOK
  <2>3. \A k \in 1..Len(volume[v]) : Append(volume[v], content)[k] = volume[v][k]
    BY <2>2, Appended
  <2> QED
    BY <2>1, <2>2, <2>3 DEF Version
<1>2. CASE UNCHANGED volume
  BY <1>2
<1>3. CASE Publish \/ Begin \/ Abort \/ Restart
  BY <1>2, <1>3 DEF Publish, Begin, Abort, Restart
<1>4. CASE GetRuntimeInfo \/ Run
  BY <1>2, <1>4 DEF GetRuntimeInfo, FileExists, FileMissing, ReadContent, FileVanished, ReadFails,
     NoRuntimeInfo, Return, Run, FailRun, StartCollectors, EndRun
<1>5. CASE UNCHANGED vars
  BY <1>2, <1>5 DEF vars
<1> QED
  BY <1>1, <1>3, <1>4, <1>5 DEF Next

(* What was read before a step stays true after it. *)
LEMMA StillAsItWas ==
  ASSUME IInv, [Next]_vars, Reads' = Reads, began' = began, errs \subseteq errs',
         \A i \in 1..Len(got) : got'[i] = got[i], ReadAsItWas
  PROVE  \A i \in 1..Len(got) : InTime(i)' /\ (errs' = {} => Truly(i)')
<1> SUFFICES ASSUME NEW i \in 1..Len(got) PROVE InTime(i)' /\ (errs' = {} => Truly(i)')
  OBVIOUS
<1>0. /\ 1 \in 1..Len(got) /\ \A j \in 1..i : j \in 1..Len(got)
      /\ \A k \in 1..Len(got) : k \in 1..10
  <2>1. Len(got) \in 0..10
    BY GotLength DEF IInv
  <2>2. \A n \in 0..10 : \A k \in 1..n : k \in 1..10 /\ 1 \in 1..n /\ \A j \in 1..k : j \in 1..n
    OBVIOUS
  <2> QED
    BY <2>1, <2>2
<1>1. InTime(i)'
  <2>1. InTime(i)
    BY DEF ReadAsItWas
  <2> QED
    BY <1>0, <2>1 DEF InTime
<1>2. ASSUME NEW k \in 1..Len(got) PROVE Then(k)' = Then(k)
  <2>1. Reads[k].volume \in {"config", "secret"}
    BY <1>0, TenReads
  <2>2. got[k].ver \in 1..Version(Reads[k].volume)
    BY DEF IInv, InOrder
  <2>3. volume'[Reads[k].volume][got[k].ver] = volume[Reads[k].volume][got[k].ver]
    BY <2>1, <2>2, VersionsStay DEF IInv
  <2> QED
    BY <2>3 DEF Then
<1>3. ASSUME errs' = {} PROVE Truly(i)'
  <2>1. Truly(i)
    BY <1>3 DEF ReadAsItWas
  <2>2. RunIdOf(Then(1)') = RunIdOf(Then(1))
    BY <1>0, <1>2
  <2>3. Then(i)' = Then(i)
    BY <1>2
  <2> QED
    BY <2>1, <2>2, <2>3 DEF Truly
<1> QED
  BY <1>1, <1>3

LEMMA ReturnAsItWas ==
  ASSUME IInv, ReadAsItWas, [Next]_vars, NEW found \in BOOLEAN, NEW why, Len(got) < Len(Reads),
         Return(found, why),
         why = {} => (found <=> There) /\ (Mandatory(Next1) => OnDisk \in RunIds)
  PROVE  ReadAsItWas'
<1>0. PICK n : n = Step
  OBVIOUS
<1>1. /\ n \in 1..10 /\ n = Len(got) + 1 /\ Next1 = Reads[n] /\ Reads' = Reads
      /\ Len(got') = n
      /\ got'[n] = [found |-> found, ver |-> Version(Reads[n].volume)]
      /\ \A i \in 1..Len(got) : got'[i] = got[i]
  BY <1>0, ReturnAppends DEF IInv, Step
<1>2. volume' = volume /\ began' = began /\ errs' = errs \cup why
  BY DEF Return
<1>3. Len(got) \in 0..10
  BY GotLength DEF IInv
<1>4. ASSUME NEW i \in 1..Len(got) PROVE InTime(i)' /\ (errs' = {} => Truly(i)')
  BY <1>1, <1>2, StillAsItWas
<1>5. InTime(n)'
  <2> SUFFICES ASSUME Reads[n].volume = "config"
               PROVE  /\ began.config <= got'[n].ver
                      /\ \A j \in 1..n : Reads[j].volume = "config" => got'[j].ver <= got'[n].ver
    BY <1>1, <1>2 DEF InTime
  <2>1. got'[n].ver = Version("config") /\ Version("config") \in Nat
    BY <1>1, VolumeTypes DEF IInv
  <2>2. began.config <= Version("config")
    BY DEF IInv, Grown
  <2>3. ASSUME NEW j \in 1..n, Reads[j].volume = "config" PROVE got'[j].ver <= Version("config")
    <3>1. CASE j = n
      BY <2>1, <3>1
    <3>2. CASE j # n
      <4>1. j \in 1..Len(got)
        BY <1>1, <1>3, <3>2
      <4>2. got[j].ver \in 1..Version("config")
        BY <2>3, <4>1 DEF IInv, InOrder
      <4> QED
        BY <1>1, <2>1, <4>1, <4>2
    <3> QED
      BY <3>1, <3>2
  <2> QED
    BY <2>1, <2>2, <2>3
<1>6. ASSUME errs' = {} PROVE Truly(n)'
  <2>1. found <=> There
    BY <1>2, <1>6
  <2>2. Mandatory(Next1) => OnDisk \in RunIds
    BY <1>2, <1>6
  <2>3. Then(n)' = Content(Next1.volume)
    BY <1>1, <1>2 DEF Then, Content, Version
  <2>4. got'[n].found <=> Reads[n].key \in DOMAIN Then(n)'
    BY <1>1, <2>1, <2>3 DEF There
  <2>5. ASSUME n = 1 PROVE RunIdOf(Then(1)') \in RunIds
    <3>1. Mandatory(Next1) /\ Next1.volume = "config"
      BY <1>1, <2>5, TenReads DEF Mandatory
    <3> QED
      BY <2>2, <2>3, <2>5, <3>1 DEF OnDisk
  <2> QED
    BY <1>1, <2>4, <2>5 DEF Truly
<1>7. \A i \in 1..n : i \in 1..Len(got) \/ i = n
  BY <1>1, <1>3
<1> QED
  BY <1>1, <1>4, <1>5, <1>6, <1>7 DEF ReadAsItWas

LEMMA NextAsItWas == IInv /\ ReadAsItWas /\ [Next]_vars => ReadAsItWas'
<1> SUFFICES ASSUME IInv, ReadAsItWas, [Next]_vars PROVE ReadAsItWas'
  OBVIOUS
<1>1. ASSUME UNCHANGED <<os, got, errs, began>> PROVE ReadAsItWas'
  <2>1. Reads' = Reads
    BY <1>1, SameReads
  <2> QED
    BY <1>1, <2>1, StillAsItWas DEF ReadAsItWas
<1>2. ASSUME got' = << >> PROVE ReadAsItWas'
  BY <1>2 DEF ReadAsItWas
<1>3. ASSUME Len(got) < Len(Reads), Mandatory(Next1) PROVE Next1 = File("config", RunIdKey)
  <2>1. Next1 = Reads[1]
    BY <1>3, StepRange, TenReads DEF Mandatory, IInv
  <2> QED
    BY <2>1, TenReads DEF Reads, ConfigReads, SecretReads, FeatureReads
<1>4. CASE FileMissing
  <2>1. PICK why \in {{"mandatory"}, {}} : Return(FALSE, why) /\ (why = {} => ~Mandatory(Next1))
    BY <1>4 DEF FileMissing
  <2> QED
    BY <1>4, <2>1, ReturnAsItWas DEF FileMissing, Reading
<1>5. CASE ReadContent
  <2>1. PICK found \in BOOLEAN, why \in {{"mandatory"}, {}} :
          /\ Return(found, why)
          /\ why = {} => found /\ ~(Mandatory(Next1) /\ Content(Next1.volume)[Next1.key] = Empty)
    BY <1>5 DEF ReadContent
  <2>2. ASSUME why = {}, Mandatory(Next1) PROVE OnDisk \in RunIds
    <3>1. RunIdKey \in DOMAIN Content("config") /\ Content("config")[RunIdKey] # Empty
      BY <1>3, <1>5, <2>1, <2>2 DEF ReadContent, Reading, There, File
    <3>2. Content("config") \in ConfigMaps
      BY ContentTypes DEF IInv, Grown
    <3> QED
      BY <3>1, <3>2, RunIdAssumption DEF OnDisk, RunIdOf, RunIdKey
  <2> QED
    BY <1>5, <2>1, <2>2, ReturnAsItWas DEF ReadContent, Reading
<1>6. CASE FileVanished \/ ReadFails
  <2>1. PICK why \in {{"vanished"}, {"io"}} : Return(FALSE, why) /\ Len(got) < Len(Reads)
    BY <1>6 DEF FileVanished, ReadFails, Reading
  <2> QED
    BY <2>1, ReturnAsItWas
<1>7. CASE (\E c \in ConfigMaps : Project("config", c)) \/ (\E s \in Secrets : Project("secret", s))
  BY <1>1, <1>7 DEF Project, world, memory
<1>8. CASE Publish \/ FileExists \/ NoRuntimeInfo \/ StartCollectors
  BY <1>1, <1>8 DEF Publish, FileExists, NoRuntimeInfo, StartCollectors, world, memory
<1>9. CASE Begin \/ Abort \/ FailRun \/ EndRun \/ Restart
  BY <1>2, <1>9 DEF Begin, Abort, FailRun, EndRun, Restart, NoMemory
<1>10. CASE UNCHANGED vars
  BY <1>1, <1>10 DEF vars, world, memory
<1> QED
  BY <1>4, <1>5, <1>6, <1>7, <1>8, <1>9, <1>10 DEF Next, GetRuntimeInfo, Run

LEMMA AlwaysAsItWas == Spec => []ReadAsItWas
<1>1. Init => ReadAsItWas
  BY DEF Init, ReadAsItWas
<1> QED
  BY <1>1, NextAsItWas, Inductive, PTL DEF Spec

(* CheckSupported, asked of every collector, admits those documented for what was read. *)
LEMMA ListIsDocumented ==
  ASSUME TypeOK, Value(RunIdKey) # Empty, NEW l, NEW f,
         \A flag : InList(flag) <=> "COLLECTOR_LIST" \in DOMAIN l /\ flag \in l["COLLECTOR_LIST"],
         HasFeature <=> WindowsHpc \in DOMAIN f /\ f[WindowsHpc] # Empty
  PROVE  {c \in Collectors : Supported(c)} = Documented(l, f)
<1> DEFINE flags == IF "COLLECTOR_LIST" \in DOMAIN l THEN l["COLLECTOR_LIST"] ELSE {}
<1>1. \A flag : InList(flag) <=> flag \in flags
  OBVIOUS
<1>2. os \in {"linux", "windows"}
  BY DEF TypeOK
<1>3. ASSUME NEW c \in Collectors PROVE Supported(c) <=> c \in Documented(l, f)
  BY <1>1, <1>2, <1>3 DEF Documented, Supported, OnOs, Collectors
<1>4. Documented(l, f) \subseteq Collectors
  BY DEF Documented, Collectors
<1> QED
  BY <1>3, <1>4

----------------------------------------------------------------------------
(* The theorems *)

(* Every variable keeps its type, and no run is started with an error. *)
THEOREM TypeCorrect == Spec => []TypeOK
<1>1. IInv => TypeOK
  BY DEF IInv
<1> QED
  BY <1>1, Inductive, PTL

(* However often the volumes are replaced while they are read, a run uses nothing that is     *)
(* older than its run ID: the ConfigMap's files are of that version or a later one, and the   *)
(* Secret's of the version that was there when it came, or a later one.                       *)
THEOREM NothingIsOlder == Spec => []NothingOlderThanRunId
<1>1. IInv => NothingOlderThanRunId
  <2> SUFFICES ASSUME IInv, pc = "running" PROVE NothingOlderThanRunId
    BY DEF NothingOlderThanRunId
  <2>1. InOrder /\ Len(got) = Len(Reads)
    BY DEF IInv, InOrder
  <2> QED
    BY <2>1, FirstIsRunId DEF InOrder, NothingOlderThanRunId
<1> QED
  BY <1>1, Inductive, PTL

(* GetRuntimeInfo ends the process only without a host name, after an I/O error, for a run ID *)
(* that is missing or blank, or when a volume was replaced while it was reading.              *)
THEOREM EndsForCause == Spec => []FailsForCause
<1>1. IInv => FailsForCause
  <2> SUFFICES ASSUME IInv, pc = "fatal", hostName, "io" \notin errs, Versions = began
               PROVE  OnDisk \in {Empty, Fault}
    BY DEF FailsForCause
  <2>1. errs # {} /\ errs \subseteq {"io", "vanished", "mandatory"}
    BY DEF IInv, TypeOK, Undisturbed
  <2>2. "mandatory" \in errs
    BY <2>1 DEF IInv, Undisturbed
  <2> QED
    BY <2>2 DEF IInv, Undisturbed
<1> QED
  BY <1>1, Inductive, PTL

(* However the ConfigMap is replaced while it is read or afterwards, a run has exactly the     *)
(* collectors documented for a list and features that it held while it was read, one no        *)
(* earlier than the other and neither before the run's ID, which is never blank; and none      *)
(* opens a path its operating system lacks.                                                    *)
THEOREM RunIsAsConfigured == Spec => []RunsWhatWasConfigured
<1>1. IInv /\ Chosen /\ ReadAsItWas => RunsWhatWasConfigured
  <2> SUFFICES ASSUME IInv, Chosen, ReadAsItWas, pc = "running" PROVE RunsWhatWasConfigured
    BY DEF RunsWhatWasConfigured
  <2> DEFINE config == volume["config"]
             id == got[1].ver
             list == got[2].ver
             feature == got[10].ver
  <2>1. producers = {c \in Collectors : Supported(c)} /\ errs = {} /\ Len(got) = 10
    BY TenReads DEF Chosen, IInv, TypeOK, InOrder
  <2>2. \A i \in {1, 2, 10} :
          /\ InTime(i) /\ Truly(i)
          /\ Reads[i].volume = "config" /\ got[i].ver \in 1..Version("config")
    BY <2>1, TenReads DEF ReadAsItWas, IInv, InOrder
  <2>3. /\ began.config \in Nat /\ began.config <= id
        /\ id <= list /\ list <= feature
        /\ id \in Nat /\ list \in Nat /\ feature \in Nat
    <3>1. began.config \in Nat /\ Version("config") \in Nat
      BY VolumeTypes DEF IInv, Grown
    <3>2. id \in Nat /\ list \in Nat /\ feature \in Nat
      BY <2>2, <3>1
    <3>3. began.config <= id /\ id <= list /\ list <= feature
      BY <2>2 DEF InTime
    <3> QED
      BY <3>1, <3>2, <3>3
  <2>4. {id, list, feature} \subseteq began.config..got[Len(got)].ver
    BY <2>1, <2>3
  <2>5. RunIdOf(config[id]) = Value(RunIdKey) /\ Value(RunIdKey) \in RunIds
    <3>1. RunIdOf(config[id]) \in RunIds
      BY <2>2 DEF Truly, Then
    <3>2. RunIdOf(config[id]) = config[id][RunIdKey]
      BY <3>1, ValueAssumption DEF RunIdOf
    <3> QED
      BY <2>2, <3>1, <3>2, FirstIsRunId DEF Value
  <2>6. ASSUME NEW flag
        PROVE  InList(flag) <=> "COLLECTOR_LIST" \in DOMAIN config[list] /\ flag \in config[list]["COLLECTOR_LIST"]
    BY <2>2, ListAndFeature DEF InList, Found, Value, Truly, Then
  <2>7. HasFeature <=> WindowsHpc \in DOMAIN config[feature] /\ config[feature][WindowsHpc] # Empty
    BY <2>2, ListAndFeature DEF HasFeature, Found, Value, Truly, Then
  <2>8. producers = Documented(config[list], config[feature])
    <3>1. Value(RunIdKey) # Empty /\ TypeOK
      BY <2>5, ValueAssumption DEF IInv
    <3>2. {c \in Collectors : Supported(c)} = Documented(config[list], config[feature])
      BY <2>6, <2>7, <3>1, ListIsDocumented
    <3> QED
      BY <2>1, <3>2
  <2>9. ASSUME NEW c \in producers PROVE Needs(c) \subseteq KnownPaths
    BY <2>1 DEF Needs, KnownPaths, Supported, OnOs
  <2> QED
    BY <2>3, <2>4, <2>5, <2>8, <2>9 DEF RunsWhatWasConfigured
<1> QED
  BY <1>1, Inductive, AlwaysChosen, AlwaysAsItWas, PTL
====
