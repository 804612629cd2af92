---- MODULE CollectionRunProofs ----
(* Theorems about CollectionRun, for any collectors, diagnosers and keys. *)
EXTENDS CollectionRun, FiniteSetTheorems, TLAPS

Busy(p) == stage[p] \in {"running", "exporting", "uploading"}
BusyOf(S) == {p \in S : Busy(p)}

(* TypeOK, except that the counters are not known to be natural numbers before Counted. *)
Types ==
  /\ pc \in {"collect", "diagnose", "zip", "upload", "done", "dead"}
  /\ todo \subseteq Producers
  /\ stage \in [Producers -> Stages]
  /\ ok \in [Producers -> BOOLEAN]
  /\ left \in [Producers -> SUBSET Keys]
  /\ data \in [Producers -> SUBSET Keys]
  /\ pending \in [Groups -> Int]
  /\ zipLeft \subseteq Producers \X Keys /\ zipped \subseteq Producers \X Keys
  /\ torn \subseteq Producers \X Keys
  /\ storage \in {"none", "account", "container"}
  /\ stack \in {"public", "stack", "broken"}
  /\ container \in BOOLEAN
  /\ blobs \in [Producers -> SUBSET Keys]
  /\ failed \in [Producers -> BOOLEAN]

(* The counter of each WaitGroup is the number of its goroutines that have not ended. *)
Counted ==
  /\ pending["collectors"] = Cardinality(BusyOf(Collectors))
  /\ pending["diagnosers"] = Cardinality(BusyOf(Diagnosers))

(* What the loops and the waits of run() have established when it is at pc. *)
Ordered ==
  /\ pc = "collect" =>
       /\ todo \subseteq Collectors
       /\ \A d \in Diagnosers : stage[d] = "none"
       /\ \A c \in Collectors : c \in todo <=> stage[c] = "none"
  /\ pc = "diagnose" =>
       /\ todo \subseteq Diagnosers
       /\ \A d \in Diagnosers : d \in todo <=> stage[d] = "none"
  /\ \A d \in Diagnosers : stage[d] # "none" => \A c \in Collectors : Settled(c)
  /\ pc \in {"diagnose", "zip", "upload", "done"} => \A c \in Collectors : Settled(c)
  /\ pc \in {"zip", "upload", "done"} => \A p \in Producers : Settled(p)

(* A producer's blobs against its data, by the stage of its goroutine. *)
ExportsInStep ==
  \A p \in Producers :
    /\ stage[p] \in {"none", "unsupported", "running"} => ~ok[p] /\ blobs[p] = {}
    /\ stage[p] = "exporting" => ok[p] /\ blobs[p] = {}
    /\ stage[p] = "uploading" => ok[p] /\ data[p] = blobs[p] \cup left[p]
    /\ stage[p] = "settled" /\ ok[p] /\ ~failed[p] => blobs[p] = data[p]
    /\ blobs[p] # {} => ok[p]

IInv == Types /\ Counted /\ Ordered /\ ExportsInStep /\ ZipHoldsEverything

----------------------------------------------------------------------------
(* Types *)

LEMMA InitTypes == Init => Types
<1> SUFFICES ASSUME Init PROVE Types
  OBVIOUS
<1>1. left \in [Producers -> SUBSET Keys]
  BY DataAssumption DEF Init
<1>2. pending \in [Groups -> Int] /\ stage \in [Producers -> Stages] /\ todo \subseteq Producers
  BY DEF Init, Groups, Stages, Producers
<1>3. /\ data \in [Producers -> SUBSET Keys] /\ blobs \in [Producers -> SUBSET Keys]
      /\ ok \in [Producers -> BOOLEAN] /\ failed \in [Producers -> BOOLEAN]
  BY DEF Init
<1> QED
  BY <1>1, <1>2, <1>3 DEF Init, Types

LEMMA NextTypes == Types /\ [Next]_vars => Types'
<1> SUFFICES ASSUME Types, [Next]_vars PROVE Types'
  OBVIOUS
<1> USE DEF Types, Stages, zip, config, store
<1>1. ASSUME NEW p \in Producers, SkipUnsupported(p) PROVE Types'
  BY <1>1 DEF SkipUnsupported, AfterSkip
<1>2. ASSUME NEW p \in Producers, Spawn(p) PROVE Types'
  BY <1>2 DEF Spawn, Add, Groups, GroupOf
<1>3. CASE StartDiagnosers
  BY <1>3 DEF StartDiagnosers, Producers
<1>4. CASE StartZip
  BY <1>4 DEF StartZip, ZipContent
<1>5. CASE FinishZip
  BY <1>5 DEF FinishZip
<1>6. CASE UploadZip
  BY <1>6 DEF UploadZip, Opens
<1>7. ASSUME NEW e \in Producers \X Keys, ZipEntry(e) \/ BadZipEntry(e) PROVE Types'
  BY <1>7 DEF ZipEntry, BadZipEntry, AfterBadEntry
<1>8. CASE FatalExport
  BY <1>8 DEF FatalExport
<1>9. CASE UNCHANGED vars
  BY <1>9 DEF vars
<1>10. ASSUME NEW p \in Producers, CollectFails(p) \/ ExportFails(p) \/ ExportReturns(p) PROVE Types'
  <2>1. Settle(p) /\ UNCHANGED <<pc, todo, ok, left, data, zip, config, container, blobs>>
    BY <1>10 DEF CollectFails, ExportFails, ExportReturns, store
  <2>2. stage' \in [Producers -> Stages]
    BY <2>1 DEF Settle
  <2>3. pending' \in [Groups -> Int]
    BY <2>1 DEF Settle, Done, Groups, GroupOf
  <2>4. failed' \in [Producers -> BOOLEAN]
    BY <1>10 DEF CollectFails, ExportFails, ExportReturns, store
  <2> QED
    BY <2>1, <2>2, <2>3, <2>4
<1>11. ASSUME NEW p \in Producers, CollectReturns(p) PROVE Types'
  BY <1>11 DEF CollectReturns
<1>12. ASSUME NEW p \in Producers, OpenStore(p) PROVE Types'
  BY <1>12 DEF OpenStore, Opens
<1>13. ASSUME NEW p \in Producers, NEW k \in Keys, RecordKey(p, k) PROVE Types'
  BY <1>13 DEF RecordKey
<1>14. ASSUME NEW p \in Producers, NEW k \in Keys, MissKey(p, k) PROVE Types'
  BY <1>14 DEF MissKey
<1>15. ASSUME NEW p \in Producers, NEW k \in Keys, UploadKey(p, k) PROVE Types'
  BY <1>15 DEF UploadKey
<1> QED
  BY <1>1, <1>2, <1>3, <1>4, <1>5, <1>6, <1>7, <1>8, <1>9, <1>10, <1>11, <1>12, <1>13, <1>14, <1>15
  DEF Next, Main, Goroutine, Over

----------------------------------------------------------------------------
(* The WaitGroups *)

LEMMA BusyIsFinite ==
  ASSUME NEW S \in SUBSET Producers
  PROVE  IsFiniteSet(BusyOf(S))
<1>1. IsFiniteSet(Producers)
  BY ProducerAssumption, FS_Union DEF Producers
<1>2. BusyOf(S) \in SUBSET Producers
  BY DEF BusyOf
<1> QED
  BY <1>1, <1>2, FS_Subset

(* What a change of one producer's stage does to the busy ones of a set. *)
LEMMA BusyChange ==
  ASSUME Types, NEW p \in Producers, NEW s \in Stages, stage' = [stage EXCEPT ![p] = s],
         NEW S \in SUBSET Producers
  PROVE  BusyOf(S)' = IF p \in S /\ s \in {"running", "exporting", "uploading"}
                        THEN BusyOf(S) \cup {p} ELSE BusyOf(S) \ {p}
  BY DEF BusyOf, Busy, Types

LEMMA CountSame ==
  ASSUME Types, Counted, NEW p \in Producers, Busy(p), NEW s \in Stages,
         s \in {"running", "exporting", "uploading"},
         stage' = [stage EXCEPT ![p] = s], pending' = pending
  PROVE  Counted'
<1>1. ASSUME NEW S \in SUBSET Producers PROVE BusyOf(S)' = BusyOf(S)
  <2>1. p \in S => p \in BusyOf(S)
    BY DEF BusyOf
  <2>2. p \notin S => p \notin BusyOf(S)
    BY DEF BusyOf
  <2> QED
    <3>1. BusyOf(S)' = IF p \in S THEN BusyOf(S) \cup {p} ELSE BusyOf(S) \ {p}
      BY BusyChange
    <3> QED
      BY <2>1, <2>2, <3>1
<1>2. BusyOf(Collectors)' = BusyOf(Collectors) /\ BusyOf(Diagnosers)' = BusyOf(Diagnosers)
  BY <1>1 DEF Producers
<1> QED
  BY <1>2 DEF Counted

LEMMA CountMore ==
  ASSUME Types, Counted, NEW p \in Producers, stage[p] = "none",
         stage' = [stage EXCEPT ![p] = "running"], pending' = Add(p)
  PROVE  Counted'
<1>1. /\ BusyOf(Collectors)' = IF p \in Collectors THEN BusyOf(Collectors) \cup {p} ELSE BusyOf(Collectors)
      /\ BusyOf(Diagnosers)' = IF p \in Diagnosers THEN BusyOf(Diagnosers) \cup {p} ELSE BusyOf(Diagnosers)
      /\ p \notin BusyOf(Collectors) /\ p \notin BusyOf(Diagnosers)
  <2>1. "running" \in Stages /\ Collectors \in SUBSET Producers /\ Diagnosers \in SUBSET Producers
    BY DEF Stages, Producers
  <2>2. p \notin BusyOf(Collectors) /\ p \notin BusyOf(Diagnosers)
    BY DEF BusyOf, Busy
  <2>3. ASSUME NEW S \in SUBSET Producers
        PROVE  BusyOf(S)' = IF p \in S THEN BusyOf(S) \cup {p} ELSE BusyOf(S) \ {p}
    BY <2>1, BusyChange
  <2> QED
    BY <2>1, <2>2, <2>3
<1>2. IsFiniteSet(BusyOf(Collectors)) /\ IsFiniteSet(BusyOf(Diagnosers))
  BY BusyIsFinite DEF Producers
<1>3. /\ Cardinality(BusyOf(Collectors) \cup {p}) = Cardinality(BusyOf(Collectors)) + 1
      /\ Cardinality(BusyOf(Diagnosers) \cup {p}) = Cardinality(BusyOf(Diagnosers)) + 1
  BY <1>1, <1>2, FS_AddElement
<1>4. p \in Collectors <=> p \notin Diagnosers
  BY ProducerAssumption DEF Producers
<1> QED
  BY <1>1, <1>3, <1>4 DEF Counted, Add, GroupOf, Types, Groups

LEMMA CountLess ==
  ASSUME Types, Counted, NEW p \in Producers, Busy(p), Settle(p)
  PROVE  Counted'
<1>1. /\ BusyOf(Collectors)' = BusyOf(Collectors) \ {p}
      /\ BusyOf(Diagnosers)' = BusyOf(Diagnosers) \ {p}
      /\ p \in BusyOf(Collectors) <=> p \in Collectors
      /\ p \in BusyOf(Diagnosers) <=> p \in Diagnosers
  BY BusyChange DEF Settle, BusyOf, Stages, Producers
<1>2. IsFiniteSet(BusyOf(Collectors)) /\ IsFiniteSet(BusyOf(Diagnosers))
  BY BusyIsFinite DEF Producers
<1>3. /\ Cardinality(BusyOf(Collectors)') =
           IF p \in Collectors THEN Cardinality(BusyOf(Collectors)) - 1 ELSE Cardinality(BusyOf(Collectors))
      /\ Cardinality(BusyOf(Diagnosers)') =
           IF p \in Diagnosers THEN Cardinality(BusyOf(Diagnosers)) - 1 ELSE Cardinality(BusyOf(Diagnosers))
  BY <1>1, <1>2, FS_RemoveElement
<1>4. p \in Collectors <=> p \notin Diagnosers
  BY ProducerAssumption DEF Producers
<1> QED
  BY <1>3, <1>4 DEF Counted, Settle, Done, GroupOf, Types, Groups

(* A WaitGroup whose counter is 0 has no goroutine left. *)
LEMMA WaitIsOver ==
  ASSUME Counted
  PROVE  /\ AllDone("collectors") => \A c \in Collectors : ~Busy(c)
         /\ AllDone("diagnosers") => \A d \in Diagnosers : ~Busy(d)
<1>1. IsFiniteSet(BusyOf(Collectors)) /\ IsFiniteSet(BusyOf(Diagnosers))
  BY BusyIsFinite DEF Producers
<1>2. /\ AllDone("collectors") => BusyOf(Collectors) = {}
      /\ AllDone("diagnosers") => BusyOf(Diagnosers) = {}
  BY <1>1, FS_EmptySet DEF Counted, AllDone
<1> QED
  BY <1>2 DEF BusyOf

(* A goroutine is only busy in the phase of its kind. *)
LEMMA BusyPhase ==
  ASSUME Types, Ordered, NEW p \in Producers, Busy(p), pc # "dead"
  PROVE  \/ pc = "collect" /\ p \in Collectors
         \/ pc = "diagnose" /\ p \in Diagnosers
  BY DEF Types, Ordered, Busy, Settled, Producers

----------------------------------------------------------------------------
(* The induction *)

LEMMA InitIInv == Init => IInv
<1> SUFFICES ASSUME Init PROVE IInv
  OBVIOUS
<1>1. \A p \in Producers : stage[p] = "none" /\ ~ok[p] /\ blobs[p] = {}
  BY DEF Init
<1>2. Counted
  <2>1. BusyOf(Collectors) = {} /\ BusyOf(Diagnosers) = {}
    BY <1>1 DEF BusyOf, Busy, Producers
  <2> QED
    BY <2>1, FS_EmptySet DEF Counted, Init
<1>3. Ordered
  BY <1>1 DEF Init, Ordered, Producers
<1>4. ExportsInStep /\ ZipHoldsEverything
  BY <1>1 DEF Init, ExportsInStep, ZipHoldsEverything
<1> QED
  BY InitTypes, <1>2, <1>3, <1>4 DEF IInv

(* What a step of a goroutine leaves in order, whichever step it is. *)
LEMMA GoroutineOrdered ==
  ASSUME IInv, NEW p \in Producers, Busy(p), pc # "dead", pc' = pc, todo' = todo,
         NEW s \in {"running", "exporting", "uploading", "settled"},
         stage' = [stage EXCEPT ![p] = s]
  PROVE  Ordered' /\ ZipHoldsEverything'
<1>1. \/ pc = "collect" /\ p \in Collectors
      \/ pc = "diagnose" /\ p \in Diagnosers
  BY BusyPhase DEF IInv
<1>2. stage'[p] = s /\ s # "none" /\ stage[p] # "none"
      /\ \A q \in Producers \ {p} : stage'[q] = stage[q]
  BY DEF IInv, Types, Busy
<1>3. CASE pc = "collect" /\ p \in Collectors
  <2>1. \A d \in Diagnosers : stage'[d] = "none"
    BY <1>2, <1>3, ProducerAssumption DEF IInv, Ordered, Producers
  <2>2. \A c \in Collectors : c \in todo <=> stage'[c] = "none"
    BY <1>2, <1>3 DEF IInv, Ordered, Producers
  <2> QED
    BY <1>3, <2>1, <2>2 DEF IInv, Ordered, ZipHoldsEverything
<1>4. CASE pc = "diagnose" /\ p \in Diagnosers
  <2>1. \A c \in Collectors : stage'[c] = stage[c]
    BY <1>2, <1>4, ProducerAssumption DEF Producers
  <2>2. \A d \in Diagnosers : d \in todo <=> stage'[d] = "none"
    BY <1>2, <1>4 DEF IInv, Ordered, Producers
  <2> QED
    BY <1>4, <2>1, <2>2 DEF IInv, Ordered, ZipHoldsEverything, Settled
<1> QED
  BY <1>1, <1>3, <1>4

LEMMA GoroutineIInv ==
  ASSUME IInv, Types', NEW p \in Producers, Goroutine(p)
  PROVE  IInv'
<1> USE DEF IInv, zip, config, store
<1> DEFINE Same(q) == ok'[q] = ok[q] /\ blobs'[q] = blobs[q] /\ data'[q] = data[q]
                        /\ left'[q] = left[q] /\ stage'[q] = stage[q] /\ failed'[q] = failed[q]
<1>1. CASE CollectFails(p) \/ ExportReturns(p)
  <2>1. /\ Busy(p) /\ Settle(p) /\ stage' = [stage EXCEPT ![p] = "settled"]
        /\ pc # "dead" /\ UNCHANGED <<pc, todo, ok, left, data, blobs, failed>>
    BY <1>1 DEF CollectFails, ExportReturns, Busy, Settle
  <2>2. Counted' /\ Ordered' /\ ZipHoldsEverything'
    BY <2>1, CountLess, GoroutineOrdered
  <2>3. ok[p] => blobs[p] = data[p]
    BY <1>1 DEF CollectFails, ExportReturns, ExportsInStep, Types
  <2>4. ExportsInStep'
    BY <2>1, <2>3 DEF ExportsInStep, Types, Busy
  <2> QED
    BY <2>2, <2>4
<1>2. CASE ExportFails(p)
  <2>1. /\ Busy(p) /\ Settle(p) /\ stage' = [stage EXCEPT ![p] = "settled"]
        /\ failed' = [failed EXCEPT ![p] = TRUE]
        /\ pc # "dead" /\ UNCHANGED <<pc, todo, ok, left, data, blobs>>
    BY <1>2 DEF ExportFails, Busy, Settle
  <2>2. Counted' /\ Ordered' /\ ZipHoldsEverything'
    BY <2>1, CountLess, GoroutineOrdered
  <2>3. ExportsInStep'
    BY <2>1 DEF ExportsInStep, Types, Busy
  <2> QED
    BY <2>2, <2>3
<1>3. CASE CollectReturns(p)
  <2>1. /\ Busy(p) /\ stage[p] = "running" /\ stage' = [stage EXCEPT ![p] = "exporting"]
        /\ ok' = [ok EXCEPT ![p] = TRUE]
        /\ pc # "dead" /\ UNCHANGED <<pc, todo, left, data, pending, blobs, failed>>
    BY <1>3 DEF CollectReturns, Busy
  <2>2. Counted' /\ Ordered' /\ ZipHoldsEverything'
    BY <2>1, CountSame, GoroutineOrdered DEF Stages
  <2>3. ExportsInStep'
    BY <2>1 DEF ExportsInStep, Types
  <2> QED
    BY <2>2, <2>3
<1>4. CASE OpenStore(p)
  <2>1. /\ Busy(p) /\ stage[p] = "exporting" /\ stage' = [stage EXCEPT ![p] = "uploading"]
        /\ left' = [left EXCEPT ![p] = data[p]]
        /\ pc # "dead" /\ UNCHANGED <<pc, todo, ok, data, pending, blobs, failed>>
    BY <1>4 DEF OpenStore, Busy
  <2>2. Counted' /\ Ordered' /\ ZipHoldsEverything'
    BY <2>1, CountSame, GoroutineOrdered DEF Stages
  <2>3. ExportsInStep'
    BY <2>1 DEF ExportsInStep, Types
  <2> QED
    BY <2>2, <2>3
<1>5. ASSUME NEW k \in Keys, RecordKey(p, k) \/ MissKey(p, k) PROVE IInv'
  <2>1. /\ Busy(p) /\ stage[p] = "running" /\ stage' = [stage EXCEPT ![p] = "running"]
        /\ pc # "dead" /\ UNCHANGED <<pc, todo, stage, ok, pending, blobs, failed>>
        /\ \A q \in Producers \ {p} : left'[q] = left[q] /\ data'[q] = data[q]
    BY <1>5 DEF RecordKey, MissKey, Busy, Types
  <2>2. Counted' /\ Ordered' /\ ZipHoldsEverything'
    BY <2>1, CountSame, GoroutineOrdered DEF Stages
  <2>3. ExportsInStep'
    BY <2>1 DEF ExportsInStep, Types
  <2> QED
    BY <2>2, <2>3
<1>6. ASSUME NEW k \in Keys, UploadKey(p, k) PROVE IInv'
  <2>1. /\ Busy(p) /\ stage[p] = "uploading" /\ stage' = [stage EXCEPT ![p] = "uploading"]
        /\ pc # "dead" /\ UNCHANGED <<pc, todo, stage, ok, data, pending, failed>>
        /\ k \in left[p]
        /\ blobs' = [blobs EXCEPT ![p] = @ \cup {k}]
        /\ left' = [left EXCEPT ![p] = @ \ {k}]
    BY <1>6 DEF UploadKey, Busy, Types
  <2>2. Counted' /\ Ordered' /\ ZipHoldsEverything'
    BY <2>1, CountSame, GoroutineOrdered DEF Stages
  <2>3. ExportsInStep'
    BY <2>1 DEF ExportsInStep, Types
  <2> QED
    BY <2>2, <2>3
<1> QED
  BY <1>1, <1>2, <1>3, <1>4, <1>5, <1>6 DEF Goroutine

LEMMA MainIInv ==
  ASSUME IInv, Types', Main
  PROVE  IInv'
<1> USE DEF IInv, zip, config, store
<1>1. ASSUME NEW c \in Producers, SkipUnsupported(c) PROVE IInv'
  <2>1. /\ pc = "collect" /\ c \in Collectors /\ c \in todo /\ todo' = todo \ {c} /\ stage[c] = "none"
        /\ stage' = [stage EXCEPT ![c] = "unsupported"]
        /\ UNCHANGED <<pc, ok, left, data, pending, blobs, failed>>
    BY <1>1 DEF SkipUnsupported, AfterSkip, Ordered
  <2>2. Counted'
    <3>1. ASSUME NEW S \in SUBSET Producers PROVE BusyOf(S)' = BusyOf(S)
      BY <2>1, BusyChange DEF BusyOf, Busy, Stages
    <3>2. BusyOf(Collectors)' = BusyOf(Collectors) /\ BusyOf(Diagnosers)' = BusyOf(Diagnosers)
      BY <3>1 DEF Producers
    <3> QED
      BY <2>1, <3>2 DEF Counted
  <2>3. Ordered'
    BY <2>1, ProducerAssumption DEF Ordered, Types, Producers
  <2>4. ExportsInStep' /\ ZipHoldsEverything'
    BY <2>1 DEF ExportsInStep, ZipHoldsEverything, Types
  <2> QED
    BY <2>2, <2>3, <2>4
<1>2. ASSUME NEW p \in Producers, Spawn(p) PROVE IInv'
  <2>1. /\ pc \in {"collect", "diagnose"} /\ p \in todo /\ todo' = todo \ {p} /\ stage[p] = "none"
        /\ stage' = [stage EXCEPT ![p] = "running"] /\ pending' = Add(p)
        /\ UNCHANGED <<pc, ok, left, data, blobs, failed>>
    BY <1>2 DEF Spawn, Ordered
  <2>2. Counted'
    BY <2>1, CountMore
  <2>3. Ordered'
    <3>1. CASE pc = "collect"
      BY <2>1, <3>1, ProducerAssumption DEF Ordered, Types, Producers
    <3>2. CASE pc = "diagnose"
      <4>1. p \in Diagnosers /\ \A c \in Collectors : stage'[c] = stage[c]
        BY <2>1, <3>2, ProducerAssumption DEF Ordered, Types, Producers
      <4>2. \A d \in Diagnosers : d \in todo' <=> stage'[d] = "none"
        BY <2>1, <3>2 DEF Ordered, Types, Producers
      <4> QED
        BY <2>1, <3>2, <4>1, <4>2 DEF Ordered, Settled
    <3> QED
      BY <2>1, <3>1, <3>2
  <2>4. ExportsInStep' /\ ZipHoldsEverything'
    BY <2>1 DEF ExportsInStep, ZipHoldsEverything, Types
  <2> QED
    BY <2>2, <2>3, <2>4
<1>3. CASE StartDiagnosers
  <2>1. /\ pc = "collect" /\ todo = {} /\ AllDone("collectors") /\ pc' = "diagnose" /\ todo' = Diagnosers
        /\ UNCHANGED <<stage, ok, left, data, pending, blobs, failed>>
    BY <1>3 DEF StartDiagnosers
  <2>2. \A c \in Collectors : Settled(c)
    BY <2>1, WaitIsOver DEF Ordered, Types, Stages, Settled, Busy, Producers
  <2>3. Counted' /\ ExportsInStep' /\ ZipHoldsEverything'
    BY <2>1 DEF Counted, BusyOf, Busy, ExportsInStep, ZipHoldsEverything
  <2>4. Ordered'
    BY <2>1, <2>2 DEF Ordered, Settled
  <2> QED
    BY <2>3, <2>4
<1>4. CASE StartZip
  <2>1. /\ pc = "diagnose" /\ todo = {} /\ AllDone("diagnosers") /\ pc' = "zip" /\ zipLeft' = ZipContent
        /\ UNCHANGED <<todo, stage, ok, left, data, pending, blobs, failed>>
    BY <1>4 DEF StartZip
  <2>2. \A p \in Producers : Settled(p)
    BY <2>1, WaitIsOver DEF Ordered, Types, Stages, Settled, Busy, Producers
  <2>3. Counted' /\ ExportsInStep'
    BY <2>1 DEF Counted, BusyOf, Busy, ExportsInStep
  <2>4. Ordered'
    BY <2>1, <2>2 DEF Ordered, Settled, Producers
  <2>5. ZipHoldsEverything'
    <3>1. \A p \in Spawned, k \in Keys : k \in data[p] => <<p, k>> \in ZipContent
      BY DEF ZipContent, Spawned
    <3>2. \A p \in Producers : data[p] \subseteq Keys
      BY DEF Types
    <3> QED
      BY <2>1, <3>1, <3>2 DEF ZipHoldsEverything, Spawned
  <2> QED
    BY <2>3, <2>4, <2>5
<1>5. CASE FinishZip \/ UploadZip
  <2>1. /\ pc \in {"zip", "upload"} /\ pc' \in {"upload", "done"}
        /\ UNCHANGED <<todo, stage, ok, left, data, pending, zipLeft, zipped, torn, blobs, failed>>
    BY <1>5 DEF FinishZip, UploadZip
  <2> QED
    BY <2>1 DEF Counted, BusyOf, Busy, Ordered, Settled, ExportsInStep, ZipHoldsEverything, Spawned
<1>6. ASSUME NEW e \in Producers \X Keys, ZipEntry(e) \/ BadZipEntry(e) PROVE IInv'
  <2>1. /\ UNCHANGED <<pc, todo, stage, ok, left, data, pending, blobs, failed>>
        /\ zipLeft \cup zipped \cup torn = zipLeft' \cup zipped' \cup torn'
    BY <1>6 DEF ZipEntry, BadZipEntry, AfterBadEntry
  <2> QED
    BY <2>1 DEF Counted, BusyOf, Busy, Ordered, Settled, ExportsInStep, ZipHoldsEverything, Spawned
<1> QED
  BY <1>1, <1>2, <1>3, <1>4, <1>5, <1>6 DEF Main

LEMMA NextIInv == IInv /\ [Next]_vars => IInv'
<1> SUFFICES ASSUME IInv, [Next]_vars PROVE IInv'
  OBVIOUS
<1>1. Types'
  BY NextTypes DEF IInv
<1>2. CASE FatalExport
  <2>1. pc' = "dead" /\ UNCHANGED <<todo, stage, ok, left, data, pending, blobs, failed>>
    BY <1>2 DEF FatalExport, store
  <2> QED
    BY <1>1, <2>1 DEF IInv, Counted, BusyOf, Busy, Ordered, Settled, ExportsInStep, ZipHoldsEverything
<1>3. CASE UNCHANGED vars
  BY <1>1, <1>3 DEF vars, store, zip, config, IInv, Counted, BusyOf, Busy, Ordered, Settled,
    ExportsInStep, ZipHoldsEverything, Spawned
<1> QED
  BY <1>1, <1>2, <1>3, MainIInv, GoroutineIInv DEF Next, Over

LEMMA Inductive == Spec => []IInv
  BY InitIInv, NextIInv, PTL DEF Spec

----------------------------------------------------------------------------
(* The properties *)

(* Every variable has its type; in particular no WaitGroup counter goes below zero, where *)
(* Done would panic (aks-periscope.go:113-116, 135-146).                                  *)
THEOREM TypeCorrect == Spec => []TypeOK
<1>1. IInv => TypeOK
  <2> SUFFICES ASSUME IInv PROVE TypeOK
    OBVIOUS
  <2>1. IsFiniteSet(BusyOf(Collectors)) /\ IsFiniteSet(BusyOf(Diagnosers))
    BY BusyIsFinite DEF Producers
  <2>2. pending["collectors"] \in Nat /\ pending["diagnosers"] \in Nat
    BY <2>1, FS_CardinalityType DEF IInv, Counted
  <2>3. pending \in [Groups -> Nat]
    BY <2>2 DEF IInv, Types, Groups
  <2> QED
    BY <2>3 DEF IInv, Types, TypeOK
<1> QED
  BY <1>1, Inductive, PTL

(* A diagnoser's goroutine runs only when no collector it reads from is still writing: what *)
(* the Wait of line 132 is for (aks-periscope.go:103-161).                                  *)
THEOREM DataIsSettled == Spec => []DiagnosersReadSettledData
<1>1. IInv => DiagnosersReadSettledData
  BY DataAssumption DEF IInv, Ordered, DiagnosersReadSettledData
<1> QED
  BY <1>1, Inductive, PTL

(* The zip misses nothing that a producer that ran has recorded (aks-periscope.go:161-171, *)
(* zip.go:17-47).                                                                          *)
THEOREM NothingIsLeftOut == Spec => []ZipHoldsEverything
<1>1. IInv => ZipHoldsEverything
  BY DEF IInv
<1> QED
  BY <1>1, Inductive, PTL

(* The failure of one producer, in collecting or exporting, costs the others nothing *)
(* (aks-periscope.go:106-130).                                                       *)
THEOREM FailuresAreIsolated == Spec => []FailuresIsolated
<1>1. IInv => FailuresIsolated
  <2> SUFFICES ASSUME IInv PROVE FailuresIsolated
    OBVIOUS
  <2>1. \A p \in Producers : blobs[p] # {} => ok[p]
    BY DEF IInv, ExportsInStep
  <2>2. ASSUME pc = "done", NEW p \in Producers
        PROVE  Settled(p) /\ (ok[p] /\ ~failed[p] => blobs[p] = data[p])
    <3>1. Settled(p)
      BY <2>2 DEF IInv, Ordered
    <3> QED
      BY <3>1 DEF IInv, ExportsInStep, Settled
  <2> QED
    BY <2>1, <2>2 DEF FailuresIsolated
<1> QED
  BY <1>1, Inductive, PTL

(* A run is phased: collectors and diagnosers write their data each in their own phase and *)
(* until they settle, and nobody writes what the next phase reads (aks-periscope.go:73-172). *)
THEOREM RunIsPhased == Spec => ImplementsPhases
<1> DEFINE phase == IF pc \in {"zip", "upload"} THEN "package" ELSE pc
           settled == {p \in Producers : Settled(p)}
<1>1. Init => Phases!Init
  BY DEF Init, Phases!Init, Phases!Producers, Producers, Settled
<1>2. IInv /\ IInv' /\ [Next]_vars => [Phases!Next]_(Phases!vars)
  <2> SUFFICES ASSUME IInv, IInv', [Next]_vars PROVE [Phases!Next]_(Phases!vars)
    OBVIOUS
  <2> USE DEF IInv, zip, config, store, Phases!vars, Phases!Producers, Producers
  <2>1. ASSUME NEW p \in Producers, pc # "dead", Busy(p)
        PROVE  /\ phase = pc /\ p \notin settled
               /\ \/ pc = "collect" /\ p \in Collectors
                  \/ pc = "diagnose" /\ p \in Diagnosers
    BY <2>1, BusyPhase DEF Busy, Settled
  (* A goroutine that has not ended may produce and settle. *)
  <2>2. ASSUME NEW p \in Producers, pc # "dead", Busy(p) PROVE Phases!Works(p)
    BY <2>1, <2>2 DEF Phases!Works
  (* A change of stage that settles nobody is a stutter. *)
  <2>3. ASSUME NEW p \in Producers, NEW s \in {"running", "exporting", "uploading"},
               ~Settled(p), stage' = [stage EXCEPT ![p] = s]
        PROVE  settled' = settled
    BY <2>3 DEF Settled, Types
  (* One that settles p settles p alone. *)
  <2>4. ASSUME NEW p \in Producers, NEW s \in {"settled", "unsupported"},
               stage' = [stage EXCEPT ![p] = s]
        PROVE  settled' = settled \cup {p}
    BY <2>4 DEF Settled, Types
  <2>5. ASSUME NEW p \in Producers, SkipUnsupported(p) PROVE [Phases!Next]_(Phases!vars)
    <3>1. pc = "collect" /\ p \in Collectors /\ stage[p] = "none" /\ settled' = settled \cup {p}
          /\ UNCHANGED <<pc, data>>
      BY <2>4, <2>5 DEF SkipUnsupported, Ordered
    <3>2. Phases!Settle(p)
      BY <3>1 DEF Phases!Settle, Phases!Works, Settled
    <3> QED
      BY <3>2 DEF Phases!Next
  <2>6. ASSUME NEW p \in Producers, Spawn(p) PROVE [Phases!Next]_(Phases!vars)
    <3>1. stage[p] = "none" /\ UNCHANGED <<pc, data>>
      BY <2>6 DEF Spawn, Ordered
    <3>2. settled' = settled
      BY <2>3, <2>6, <3>1 DEF Spawn, Settled
    <3> QED
      BY <3>1, <3>2
  <2>7. CASE StartDiagnosers
    <3>1. pc = "collect" /\ pc' = "diagnose" /\ UNCHANGED <<stage, data>>
      BY <2>7 DEF StartDiagnosers
    <3>2. settled' = settled
      BY <3>1 DEF Settled
    <3>3. \A c \in Collectors : Settled(c)
      BY <3>1 DEF Ordered, Settled
    <3>4. Phases!Diagnose
      BY <3>1, <3>2, <3>3 DEF Phases!Diagnose
    <3> QED
      BY <3>4 DEF Phases!Next
  <2>8. CASE StartZip
    <3>1. pc = "diagnose" /\ pc' = "zip" /\ UNCHANGED <<stage, data>>
      BY <2>8 DEF StartZip
    <3>2. settled' = settled
      BY <3>1 DEF Settled
    <3>3. \A p \in Producers : Settled(p)
      BY <3>1 DEF Ordered, Settled
    <3>4. Phases!Package
      BY <3>1, <3>2, <3>3 DEF Phases!Package
    <3> QED
      BY <3>4 DEF Phases!Next
  <2>9. CASE FinishZip \/ UploadZip \/ FatalExport
    <3>1. UNCHANGED <<stage, data>>
          /\ \/ pc = "zip" /\ pc' = "upload"
             \/ pc = "upload" /\ pc' = "done"
             \/ pc \notin {"done", "dead"} /\ pc' = "dead"
      BY <2>9 DEF FinishZip, UploadZip, FatalExport, Types, Ordered, Settled
    <3>2. settled' = settled
      BY <3>1 DEF Settled
    <3>3. phase' = phase \/ Phases!End
      BY <3>1, <3>2 DEF Phases!End
    <3> QED
      BY <3>1, <3>2, <3>3 DEF Phases!Next
  <2>10. ASSUME NEW e \in Producers \X Keys, ZipEntry(e) \/ BadZipEntry(e)
         PROVE  [Phases!Next]_(Phases!vars)
    <3>1. UNCHANGED <<pc, stage, data>>
      BY <2>10 DEF ZipEntry, BadZipEntry
    <3> QED
      BY <3>1 DEF Settled
  <2>11. CASE UNCHANGED vars
    BY <2>11 DEF vars, Settled
  <2>12. ASSUME NEW p \in Producers, Goroutine(p) PROVE [Phases!Next]_(Phases!vars)
    <3>1. CASE CollectFails(p) \/ ExportFails(p) \/ ExportReturns(p)
      <4>1. /\ Busy(p) /\ pc # "dead" /\ stage' = [stage EXCEPT ![p] = "settled"]
            /\ UNCHANGED <<pc, data>>
        BY <3>1 DEF CollectFails, ExportFails, ExportReturns, Settle, Busy
      <4>2. Phases!Settle(p)
        BY <4>1, <2>2, <2>4 DEF Phases!Settle
      <4> QED
        BY <4>2 DEF Phases!Next
    <3>2. CASE CollectReturns(p) \/ OpenStore(p)
      <4>1. UNCHANGED <<pc, data>> /\ ~Settled(p)
        BY <3>2 DEF CollectReturns, OpenStore, Settled
      <4>2. settled' = settled
        BY <3>2, <4>1, <2>3 DEF CollectReturns, OpenStore
      <4> QED
        BY <4>1, <4>2
    <3>3. ASSUME NEW k \in Keys, RecordKey(p, k) PROVE [Phases!Next]_(Phases!vars)
      <4>1. /\ Busy(p) /\ pc # "dead" /\ UNCHANGED <<pc, stage>>
            /\ data' = [data EXCEPT ![p] = @ \cup {k}]
        BY <3>3 DEF RecordKey, Busy
      <4>2. Phases!Produce(p)
        BY <4>1, <2>2 DEF Phases!Produce, Settled
      <4> QED
        BY <4>2 DEF Phases!Next
    <3>4. ASSUME NEW k \in Keys, MissKey(p, k) \/ UploadKey(p, k)
          PROVE  [Phases!Next]_(Phases!vars)
      <4>1. UNCHANGED <<pc, stage, data>>
        BY <3>4 DEF MissKey, UploadKey
      <4> QED
        BY <4>1 DEF Settled
    <3> QED
      BY <2>12, <3>1, <3>2, <3>3, <3>4 DEF Goroutine
  <2> QED
    BY <2>5, <2>6, <2>7, <2>8, <2>9, <2>10, <2>11, <2>12 DEF Next, Main, Over
<1> QED
  BY <1>1, <1>2, Inductive, PTL DEF Spec, Phases!Spec, ImplementsPhases
====
