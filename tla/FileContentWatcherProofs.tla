---- MODULE FileContentWatcherProofs ----
(* Theorems about FileContentWatcher, for any files, channels, contents and bounds. *)
EXTENDS FileContentWatcher, TLAPS

LEMMA TargetIsChannel ==
  ASSUME TypeOK, NEW f \in Files, NEW i \in 1..Len(handlers[f])
  PROVE  Target(f, i) \in Channels /\ handlers[f][i].content \in Channels
<1>1. handlers[f] \in Seq(Pairs)
  BY DEF TypeOK
<1>2. handlers[f][i] \in Pairs
  BY <1>1
<1> QED
  BY <1>2 DEF Target, Pairs, Channels

LEMMA VersionsAreNumbers ==
  ASSUME TypeOK, NEW f \in Files
  PROVE  /\ item[f].ver \in Nat /\ disk[f].ver \in Nat /\ next[f] \in Nat
         /\ \A c \in Channels : seen[f][c].ver \in Nat
  BY BoundAssumption DEF TypeOK

LEMMA InitTypeOK == Init => TypeOK
<1> SUFFICES ASSUME Init PROVE TypeOK
  OBVIOUS
<1>1. disk \in [Files -> [value : Values, ver : 1..MaxWrites]]
  <2>1. \A r \in [value : Values, ver : {1}] : r \in [value : Values, ver : 1..MaxWrites]
    BY BoundAssumption
  <2> QED
    BY <2>1 DEF Init
<1>2. item \in [Files -> [content : Contents \cup {Empty}, err : BOOLEAN, ver : 0..MaxWrites]]
  BY BoundAssumption DEF Init
<1>3. seen \in [Files -> [Channels -> [value : Values, ver : 0..MaxWrites]]]
  BY BoundAssumption DEF Init, Values
<1>4. handlers \in [Files -> Seq(Pairs)] /\ \A f \in Files : Len(handlers[f]) = 0
  BY DEF Init
<1>5. next \in [Files -> Nat] /\ \A f \in Files : next[f] = 0
  BY DEF Init
<1>6. started \in BOOLEAN /\ tick \in BOOLEAN /\ pass \subseteq Watched /\ receiving \subseteq Channels
  BY DEF Init
<1>7. \A f \in Files : next[f] <= Len(handlers[f])
  BY <1>4, <1>5
<1> QED
  BY <1>1, <1>2, <1>3, <1>4, <1>5, <1>6, <1>7 DEF TypeOK

LEMMA NextTypeOK == TypeOK /\ [Next]_vars => TypeOK'
<1> SUFFICES ASSUME TypeOK, [Next]_vars PROVE TypeOK'
  OBVIOUS
<1> USE BoundAssumption, ValueAssumption
<1>1. ASSUME NEW f \in Files, Write(f) PROVE TypeOK'
  BY <1>1 DEF Write, TypeOK, Values, Watched
<1>2. ASSUME NEW c \in Channels, Listen(c) PROVE TypeOK'
  BY <1>2 DEF Listen, TypeOK, Watched
<1>3. ASSUME NEW f \in Files, NEW p \in Pairs, AddHandler(f, p) PROVE TypeOK'
  BY <1>3 DEF AddHandler, TypeOK, Watched
<1>4. CASE Start
  BY <1>4 DEF Start, TypeOK, Watched
<1>5. CASE Tick
  BY <1>5 DEF Tick, TypeOK, Watched
<1>6. CASE NextPass
  BY <1>6 DEF NextPass, TypeOK, Watched
<1>7. ASSUME NEW f \in Files, CheckFile(f) PROVE TypeOK'
  <2> DEFINE read == [content |-> ReadContent(f), err |-> ReadErr(f), ver |-> disk[f].ver]
             Items == [content : Contents \cup {Empty}, err : BOOLEAN, ver : 0..MaxWrites]
  <2>1. read \in Items
    BY DEF ReadContent, ReadErr, TypeOK, Values
  <2>2. item' = [item EXCEPT ![f] = read] \/ item' = item
    BY <1>7 DEF CheckFile
  <2>3. item' \in [Files -> Items]
    <3> HIDE DEF read, Items
    <3>1. item \in [Files -> Items]
      BY DEF TypeOK, Items
    <3> QED
      BY <2>1, <2>2, <3>1
  <2>4. Len(handlers[f]) >= 1
    BY <1>7 DEF CheckFile, TypeOK, Watched
  <2>5. next' = [next EXCEPT ![f] = 1] \/ next' = next
    BY <1>7 DEF CheckFile, First
  <2>6. next' \in [Files -> Nat] /\ \A g \in Files : next'[g] <= Len(handlers[g])
    <3>1. next \in [Files -> Nat] /\ \A g \in Files : next[g] <= Len(handlers[g])
      BY DEF TypeOK
    <3> QED
      BY <2>4, <2>5, <3>1
  <2> QED
    BY <1>7, <2>3, <2>6 DEF CheckFile, TypeOK, Watched
<1>8. ASSUME NEW f \in Files, Send(f) PROVE TypeOK'
  <2>1. next[f] \in 1..Len(handlers[f])
    BY <1>8 DEF Send, TypeOK
  <2>2. Target(f, next[f]) \in Channels
    BY <2>1, TargetIsChannel
  <2>3. Recorded(f) \in Values /\ item[f].ver \in 0..MaxWrites
    BY DEF Recorded, TypeOK, Values
  <2>4. seen' \in [Files -> [Channels -> [value : Values, ver : 0..MaxWrites]]]
    BY <1>8, <2>2, <2>3 DEF Send, TypeOK
  <2>5. next' \in [Files -> Nat] /\ \A g \in Files : next'[g] <= Len(handlers[g])
    BY <1>8, <2>1 DEF Send, TypeOK
  <2> QED
    BY <1>8, <2>4, <2>5 DEF Send, TypeOK, Watched
<1>9. CASE UNCHANGED vars
  BY <1>9 DEF vars, TypeOK, Watched
<1> QED
  BY <1>1, <1>2, <1>3, <1>4, <1>5, <1>6, <1>7, <1>8, <1>9
  DEF Next, Environment, Client, Watcher

(* Every variable of the watcher keeps its type: in particular a range loop of            *)
(* handleUpdated never goes past the last handler.                                       *)
THEOREM TypeCorrect == Spec => []TypeOK
  BY InitTypeOK, NextTypeOK, PTL DEF Spec

----------------------------------------------------------------------------
(* The inductive invariant behind the other two theorems. *)

(* No file is recorded, checked or notified before Start: AddHandler finds nothing owed. *)
QuietBeforeStart ==
  ~started => \A f \in Files : f \notin pass /\ next[f] = 0 /\ item[f].ver = 0

(* A client gave a channel once per file, so a send to one handler is none to another. *)
DistinctChannels ==
  \A f \in Files : \A i, j \in 1..Len(handlers[f]) :
    handlers[f][i].content = handlers[f][j].content => i = j

(* An item is a version the file had, and says what that version says. *)
ItemWasOnDisk ==
  \A f \in Files :
    /\ item[f].ver <= disk[f].ver
    /\ item[f].ver = disk[f].ver => item[f].err = ReadErr(f) /\ item[f].content = ReadContent(f)
    /\ item[f].err => item[f].content = Empty

(* What a channel last got is no newer than the item; what its handler still waits for is newer. *)
SeenIsOlder ==
  \A f \in Files :
    /\ \A c \in Channels : seen[f][c].ver <= item[f].ver
    /\ \A i \in 1..Len(handlers[f]) :
         next[f] # 0 /\ next[f] <= i /\ ~item[f].err
           => seen[f][handlers[f][i].content].ver < item[f].ver

IInv ==
  /\ TypeOK
  /\ QuietBeforeStart
  /\ DistinctChannels
  /\ ItemWasOnDisk
  /\ SeenIsOlder
  /\ NoHandlerMissed

LEMMA InitIInv == Init => IInv
<1> SUFFICES ASSUME Init PROVE IInv
  OBVIOUS
<1>1. TypeOK
  BY InitTypeOK
<1>2. \A f \in Files : handlers[f] = << >> /\ next[f] = 0
  BY DEF Init
<1>3. \A f \in Files : item[f].ver = 0 /\ ~item[f].err /\ disk[f].ver = 1 /\ \A c \in Channels : seen[f][c].ver = 0
  BY DEF Init
<1>4. QuietBeforeStart
  BY <1>2, <1>3 DEF Init, QuietBeforeStart
<1>5. DistinctChannels /\ NoHandlerMissed
  BY <1>2, <1>3 DEF DistinctChannels, NoHandlerMissed
<1>6. ItemWasOnDisk /\ SeenIsOlder
  BY <1>2, <1>3 DEF ItemWasOnDisk, SeenIsOlder
<1> QED
  BY <1>1, <1>4, <1>5, <1>6 DEF IInv

LEMMA CheckFileIInv ==
  ASSUME IInv, TypeOK', NEW f \in Files, CheckFile(f)
  PROVE  IInv'
<1> DEFINE read == [content |-> ReadContent(f), err |-> ReadErr(f), ver |-> disk[f].ver]
<1>1. /\ \A g \in Files : next[g] = 0
      /\ UNCHANGED <<disk, handlers, started, seen>>
      /\ started /\ pass' \subseteq pass
  BY DEF CheckFile, Notifying, IInv, QuietBeforeStart
<1>2. CASE UNCHANGED <<item, next>>
  BY <1>1, <1>2 DEF IInv, QuietBeforeStart, DistinctChannels, ItemWasOnDisk, SeenIsOlder,
    NoHandlerMissed, Recorded, Target, ReadErr, ReadContent
<1>3. CASE Changed(f) /\ item' = [item EXCEPT ![f] = read] /\ next' = [next EXCEPT ![f] = 1]
  <2>1. /\ item'[f] = read /\ next'[f] = 1
        /\ \A g \in Files \ {f} : item'[g] = item[g] /\ next'[g] = 0
    BY <1>1, <1>3 DEF TypeOK, IInv
  <2>2. ItemWasOnDisk'
    <3>1. ReadErr(f)' = ReadErr(f) /\ ReadContent(f)' = ReadContent(f)
      BY <1>1 DEF ReadErr, ReadContent
    <3>2. ASSUME NEW g \in Files \ {f}
          PROVE  ReadErr(g)' = ReadErr(g) /\ ReadContent(g)' = ReadContent(g)
      BY <1>1 DEF ReadErr, ReadContent
    <3>3. disk[f].ver \in Nat /\ (ReadErr(f) => ReadContent(f) = Empty)
      BY VersionsAreNumbers DEF IInv, ReadContent
    <3> QED
      BY <1>1, <2>1, <3>1, <3>2, <3>3 DEF IInv, ItemWasOnDisk
  <2>3. ~ReadErr(f) => item[f].ver < disk[f].ver
    BY <1>3 DEF IInv, TypeOK, ItemWasOnDisk, Changed
  <2>4. ASSUME NEW c \in Channels PROVE
          /\ seen[f][c].ver <= disk[f].ver
          /\ ~ReadErr(f) => seen[f][c].ver < disk[f].ver
    BY <2>3, <2>4 DEF IInv, TypeOK, SeenIsOlder, ItemWasOnDisk
  <2>5. \A i \in 1..Len(handlers[f]) : handlers[f][i].content \in Channels
    BY TargetIsChannel DEF IInv
  <2>6. SeenIsOlder'
    <3> SUFFICES ASSUME NEW g \in Files
        PROVE /\ \A c \in Channels : seen[g][c].ver <= item'[g].ver
              /\ \A i \in 1..Len(handlers[g]) :
                   next'[g] # 0 /\ next'[g] <= i /\ ~item'[g].err
                     => seen[g][handlers[g][i].content].ver < item'[g].ver
      BY <1>1 DEF SeenIsOlder
    <3>1. CASE g = f
      BY <3>1, <2>1, <2>4, <2>5
    <3>2. CASE g # f
      BY <3>2, <2>1 DEF IInv, SeenIsOlder
    <3> QED
      BY <3>1, <3>2
  <2>7. NoHandlerMissed'
    <3> SUFFICES ASSUME NEW g \in Files, NEW i \in 1..Len(handlers[g]),
                        item'[g].ver > 0, next'[g] = 0 \/ i < next'[g]
        PROVE seen[g][Target(g, i)'] = [value |-> Recorded(g)', ver |-> item'[g].ver]
      BY <1>1 DEF NoHandlerMissed
    <3>1. g # f
      BY <2>1
    <3> QED
      BY <3>1, <1>1, <2>1 DEF IInv, NoHandlerMissed, Target, Recorded
  <2> QED
    BY <1>1, <2>2, <2>6, <2>7 DEF IInv, QuietBeforeStart, DistinctChannels
<1> QED
  BY <1>2, <1>3 DEF CheckFile, First

LEMMA SendIInv ==
  ASSUME IInv, TypeOK', NEW f \in Files, Send(f)
  PROVE  IInv'
<1> DEFINE n == next[f]
           c == Target(f, n)
           sent == [value |-> Recorded(f), ver |-> item[f].ver]
<1>1. UNCHANGED <<disk, handlers, item, started, pass>> /\ started
  BY DEF Send, IInv, QuietBeforeStart
<1>2. n \in 1..Len(handlers[f]) /\ c \in Channels
  BY TargetIsChannel DEF Send, IInv, TypeOK
<1>3. /\ seen'[f] = [seen[f] EXCEPT ![c] = sent]
      /\ \A g \in Files \ {f} : seen'[g] = seen[g] /\ next'[g] = next[g]
      /\ next'[f] = IF n = Len(handlers[f]) THEN 0 ELSE n + 1
  BY DEF Send, IInv, TypeOK
<1>4. seen'[f][c] = sent /\ \A k \in Channels \ {c} : seen'[f][k] = seen[f][k]
  BY <1>2, <1>3 DEF IInv, TypeOK
<1>5. SeenIsOlder'
  <2> SUFFICES ASSUME NEW g \in Files
      PROVE /\ \A k \in Channels : seen'[g][k].ver <= item[g].ver
            /\ \A i \in 1..Len(handlers[g]) :
                 next'[g] # 0 /\ next'[g] <= i /\ ~item[g].err
                   => seen'[g][handlers[g][i].content].ver < item[g].ver
    BY <1>1 DEF SeenIsOlder
  <2>1. CASE g # f
    BY <2>1, <1>3 DEF IInv, SeenIsOlder
  <2>2. CASE g = f
    <3>1. \A k \in Channels : seen'[f][k].ver <= item[f].ver
      BY <1>4, VersionsAreNumbers DEF IInv, SeenIsOlder
    <3>2. ASSUME NEW i \in 1..Len(handlers[f]), next'[f] # 0, next'[f] <= i, ~item[f].err
          PROVE  seen'[f][handlers[f][i].content].ver < item[f].ver
      <4>1. n < i /\ n # 0
        BY <3>2, <1>2, <1>3
      <4>2. handlers[f][i].content \in Channels /\ handlers[f][i].content # c
        <5>1. c = handlers[f][n].content
          BY <3>2 DEF Target
        <5>2. handlers[f][i].content \in Channels
          BY TargetIsChannel DEF IInv
        <5> QED
          BY <4>1, <5>1, <5>2, <1>2 DEF IInv, DistinctChannels
      <4>3. seen[f][handlers[f][i].content].ver < item[f].ver
        BY <4>1, <3>2 DEF IInv, TypeOK, SeenIsOlder
      <4> QED
        BY <4>2, <4>3, <1>4
    <3> QED
      BY <2>2, <3>1, <3>2
  <2> QED
    BY <2>1, <2>2
<1>6. NoHandlerMissed'
  <2> SUFFICES ASSUME NEW g \in Files, NEW i \in 1..Len(handlers[g]),
                      item[g].ver > 0, next'[g] = 0 \/ i < next'[g]
      PROVE seen'[g][Target(g, i)] = [value |-> Recorded(g), ver |-> item[g].ver]
    BY <1>1 DEF NoHandlerMissed, Target, Recorded
  <2>1. CASE g # f
    BY <2>1, <1>3 DEF IInv, NoHandlerMissed
  <2>2. CASE g = f /\ Target(f, i) = c
    BY <2>2, <1>4
  <2>3. CASE g = f /\ Target(f, i) # c
    <3>1. i < n
      BY <2>3, <1>2, <1>3 DEF IInv, TypeOK
    <3>2. Target(f, i) \in Channels
      BY <2>3, TargetIsChannel DEF IInv
    <3>3. seen[f][Target(f, i)] = sent
      BY <2>3, <3>1 DEF IInv, NoHandlerMissed
    <3> QED
      BY <2>3, <3>2, <3>3, <1>4
  <2> QED
    BY <2>1, <2>2, <2>3
<1>7. QuietBeforeStart' /\ DistinctChannels' /\ ItemWasOnDisk'
  BY <1>1 DEF IInv, QuietBeforeStart, DistinctChannels, ItemWasOnDisk, ReadErr, ReadContent
<1> QED
  BY <1>5, <1>6, <1>7 DEF IInv

LEMMA NextIInv == IInv /\ [Next]_vars => IInv'
<1> SUFFICES ASSUME IInv, [Next]_vars PROVE IInv'
  OBVIOUS
<1>1. TypeOK'
  BY NextTypeOK DEF IInv
<1> USE DEF IInv, QuietBeforeStart, DistinctChannels, ItemWasOnDisk, SeenIsOlder, NoHandlerMissed,
        Target, Recorded, ReadErr, ReadContent
<1>2. ASSUME NEW f \in Files, Write(f) PROVE IInv'
  <2>1. /\ UNCHANGED <<handlers, item, started, pass, next, seen>>
        /\ \A g \in Files \ {f} : disk'[g] = disk[g]
        /\ disk'[f].ver = disk[f].ver + 1
    BY <1>2 DEF Write, TypeOK
  <2>2. ItemWasOnDisk'
    BY <2>1, VersionsAreNumbers
  <2> QED
    BY <1>1, <2>1, <2>2
<1>3. ASSUME NEW c \in Channels, Listen(c) PROVE IInv'
  BY <1>1, <1>3 DEF Listen
<1>4. ASSUME NEW f \in Files, NEW p \in Pairs, AddHandler(f, p) PROVE IInv'
  <2>1. UNCHANGED <<disk, item, started, pass, next, seen>> /\ ~started
    BY <1>4 DEF AddHandler
  <2>2. handlers' = [handlers EXCEPT ![f] = Append(@, p)]
    BY <1>4 DEF AddHandler
  <2>3. DistinctChannels'
    BY <1>4, <2>2 DEF AddHandler, TypeOK
  <2>4. SeenIsOlder' /\ NoHandlerMissed'
    BY <2>1 DEF TypeOK
  <2> QED
    BY <1>1, <2>1, <2>3, <2>4
<1>5. CASE Start
  BY <1>1, <1>5 DEF Start
<1>6. CASE Tick
  BY <1>1, <1>6 DEF Tick
<1>7. CASE NextPass
  BY <1>1, <1>7 DEF NextPass
<1>8. ASSUME NEW f \in Files, CheckFile(f) PROVE IInv'
  BY <1>1, <1>8, CheckFileIInv
<1>9. ASSUME NEW f \in Files, Send(f) PROVE IInv'
  BY <1>1, <1>9, SendIInv
<1>10. CASE UNCHANGED vars
  BY <1>1, <1>10 DEF vars
<1> QED
  BY <1>2, <1>3, <1>4, <1>5, <1>6, <1>7, <1>8, <1>9, <1>10
  DEF Next, Environment, Client, Watcher

LEMMA Inductive == Spec => []IInv
  BY InitIInv, NextIInv, PTL DEF Spec

(* No handler of a file is left out of a notification, or told it late or otherwise than   *)
(* the others (fileContentWatcher.go:71-84).                                              *)
THEOREM NoHandlerIsMissed == Spec => []NoHandlerMissed
<1>1. IInv => NoHandlerMissed
  BY DEF IInv
<1> QED
  BY Inductive, <1>1, PTL

(* A channel is never sent the same version of a content twice, nor an older one.         *)
THEOREM ContentIsAlwaysNewer == Spec => ContentIsNewer
<1> DEFINE Newer ==
      \A f \in Files : \A i \in 1..Len(handlers[f]) :
        (next[f] = i /\ next'[f] # i /\ ~item[f].err)
          => seen[f][handlers[f][i].content].ver < item[f].ver
<1>1. IInv /\ [Next]_vars => [Newer]_vars
  <2> SUFFICES ASSUME IInv, NEW f \in Files, NEW i \in 1..Len(handlers[f]),
                      next[f] = i, ~item[f].err
      PROVE seen[f][handlers[f][i].content].ver < item[f].ver
    OBVIOUS
  <2> QED
    BY DEF IInv, SeenIsOlder
<1> QED
  BY Inductive, <1>1, PTL DEF Spec, ContentIsNewer

----------------------------------------------------------------------------
(* The watcher implements the safety part of ChangeFeed. *)

LEMMA FeedInit == Init => Feed!Init
<1> SUFFICES ASSUME Init PROVE Feed!Init
  OBVIOUS
<1>1. \A f \in Files : Registered(f) = {} /\ Owed(f) = {} /\ Recorded(f) = Empty
  BY DEF Init, Registered, Owed, Recorded
<1> QED
  BY <1>1 DEF Init, Feed!Init, Values, Feed!Values

(* Feed's variables depend on these alone. *)
LEMMA FeedStutter ==
  UNCHANGED <<disk, handlers, item, started, next>> => UNCHANGED Feed!vars
  BY DEF Feed!vars, Registered, Owed, Recorded

LEMMA FeedSubscribe ==
  ASSUME IInv, NEW f \in Files, NEW p \in Pairs, AddHandler(f, p)
  PROVE  Feed!Subscribe(f, p)
<1>1. UNCHANGED <<disk, item, started, next>> /\ ~started
  BY DEF AddHandler
<1>2. handlers[f] \in Seq(Pairs) /\ handlers'[f] = Append(handlers[f], p)
  BY DEF AddHandler, IInv, TypeOK
<1>3. \A g \in Files \ {f} : handlers'[g] = handlers[g]
  BY DEF AddHandler, IInv, TypeOK
<1>4. p \notin Registered(f)
  BY DEF AddHandler, Registered
<1>5. Registered(f)' = Registered(f) \cup {p}
  <2>1. Len(handlers'[f]) = Len(handlers[f]) + 1 /\ Len(handlers[f]) \in Nat
    BY <1>2
  <2>2. \A i \in 1..Len(handlers[f]) : handlers'[f][i] = handlers[f][i]
    BY <1>2
  <2>3. handlers'[f][Len(handlers[f]) + 1] = p
    BY <1>2
  <2>4. 1..Len(handlers'[f]) = (1..Len(handlers[f])) \cup {Len(handlers[f]) + 1}
    BY <2>1
  <2> QED
    BY <2>2, <2>3, <2>4 DEF Registered
<1>6. \A g \in Files \ {f} : Registered(g)' = Registered(g)
  BY <1>3 DEF Registered
<1>7. \A g \in Files : Owed(g) = {} /\ Owed(g)' = {} /\ Recorded(g)' = Recorded(g)
  BY <1>1 DEF Owed, Recorded, IInv, QuietBeforeStart
<1> QED
  BY <1>1, <1>4, <1>5, <1>6, <1>7 DEF Feed!Subscribe

LEMMA FeedPublish ==
  ASSUME IInv, NEW f \in Files, CheckFile(f), Changed(f)
  PROVE  Feed!Publish(f)
<1>1. /\ UNCHANGED <<disk, handlers, started>> /\ started
      /\ \A g \in Files : next[g] = 0
  BY DEF CheckFile, Notifying, IInv, QuietBeforeStart
<1>2. /\ item'[f] = [content |-> ReadContent(f), err |-> ReadErr(f), ver |-> disk[f].ver]
      /\ next'[f] = 1
      /\ \A g \in Files \ {f} : item'[g] = item[g] /\ next'[g] = next[g]
  BY DEF CheckFile, IInv, TypeOK, First
<1>3. Len(handlers[f]) >= 1 /\ Registered(f) # {}
  <2>1. handlers[f] \in Seq(Pairs) /\ handlers[f] # << >>
    BY DEF CheckFile, IInv, TypeOK, Watched
  <2>2. 1 \in 1..Len(handlers[f])
    BY <2>1
  <2>3. handlers[f][1] \in Registered(f)
    BY <2>2 DEF Registered
  <2> QED
    BY <2>2, <2>3
<1>4. Owed(f) = {} /\ Owed(f)' = Registered(f)
  <2>1. \A j \in 1..Len(handlers[f]) : next'[f] # 0 /\ next'[f] <= j
    BY <1>2
  <2> QED
    BY <2>1, <1>1 DEF Owed, Registered
<1>5. \A g \in Files \ {f} : Owed(g)' = Owed(g) /\ Recorded(g)' = Recorded(g)
  BY <1>1, <1>2 DEF Owed, Recorded
<1>6. Recorded(f)' = disk[f].value
  <2>1. item'[f].err = ReadErr(f) /\ item'[f].content = ReadContent(f)
    BY <1>2
  <2>2. Recorded(f)' = IF ReadErr(f) THEN Fault ELSE ReadContent(f)
    BY <2>1 DEF Recorded
  <2> QED
    BY <2>2 DEF ReadErr, ReadContent
<1>7. disk[f].value = Fault \/ disk[f].value # (IF Recorded(f) = Fault THEN Empty ELSE Recorded(f))
  BY ValueAssumption DEF Changed, Recorded, ReadErr, ReadContent, IInv, TypeOK, ItemWasOnDisk
<1>8. Feed!News(f)
  BY <1>7 DEF Feed!News, Feed!LastContent
<1>9. \A g \in Files : Registered(g)' = Registered(g)
  BY <1>1 DEF Registered
<1> QED
  BY <1>1, <1>3, <1>4, <1>5, <1>6, <1>8, <1>9 DEF Feed!Publish

LEMMA FeedTake ==
  ASSUME IInv, NEW f \in Files, Send(f)
  PROVE  Feed!Take(f, handlers[f][next[f]])
<1> DEFINE n == next[f]
<1>1. UNCHANGED <<disk, handlers, item, started>> /\ \A g \in Files \ {f} : next'[g] = next[g]
  BY DEF Send, IInv, TypeOK
<1>2. n \in 1..Len(handlers[f]) /\ n # 0 /\ Len(handlers[f]) \in Nat
  BY DEF Send, IInv, TypeOK
<1>3. next'[f] = IF n = Len(handlers[f]) THEN 0 ELSE n + 1
  BY DEF Send, IInv, TypeOK
<1>4. \A j \in 1..Len(handlers[f]) :
        (next'[f] # 0 /\ next'[f] <= j) <=> (n <= j /\ j # n)
  BY <1>2, <1>3
<1>5. \A i, j \in 1..Len(handlers[f]) : handlers[f][i] = handlers[f][j] => i = j
  BY DEF IInv, DistinctChannels
<1>6. Owed(f)' = Owed(f) \ {handlers[f][n]} /\ handlers[f][n] \in Owed(f)
  BY <1>1, <1>2, <1>4, <1>5 DEF Owed
<1>7. \A g \in Files \ {f} : Owed(g)' = Owed(g)
  BY <1>1 DEF Owed
<1>8. \A g \in Files : Registered(g)' = Registered(g) /\ Recorded(g)' = Recorded(g)
  BY <1>1 DEF Registered, Recorded
<1> QED
  BY <1>1, <1>6, <1>7, <1>8 DEF Feed!Take

LEMMA FeedNext == IInv /\ [Next]_vars => [Feed!Next]_(Feed!vars)
<1> SUFFICES ASSUME IInv, [Next]_vars PROVE Feed!Next \/ UNCHANGED Feed!vars
  OBVIOUS
<1>1. ASSUME NEW f \in Files, Write(f) PROVE Feed!Next
  <2>1. \A g \in Files : Registered(g)' = Registered(g) /\ Owed(g)' = Owed(g) /\ Recorded(g)' = Recorded(g)
    BY <1>1 DEF Write, Registered, Owed, Recorded
  <2>2. Feed!Write(f)
    BY <1>1, <2>1 DEF Write, Feed!Write, Values, Feed!Values
  <2> QED
    BY <2>2 DEF Feed!Next
<1>2. ASSUME NEW c \in Channels, Listen(c) PROVE UNCHANGED Feed!vars
  BY <1>2, FeedStutter DEF Listen
<1>3. ASSUME NEW f \in Files, NEW p \in Pairs, AddHandler(f, p) PROVE Feed!Next
  BY <1>3, FeedSubscribe DEF Feed!Next
<1>4. CASE Start
  <2>1. Feed!Open
    BY <1>4 DEF Start, Feed!Open, Registered, Owed, Recorded
  <2> QED
    BY <2>1 DEF Feed!Next
<1>5. CASE Tick \/ NextPass
  BY <1>5, FeedStutter DEF Tick, NextPass
<1>6. ASSUME NEW f \in Files, CheckFile(f) PROVE Feed!Next \/ UNCHANGED Feed!vars
  <2>1. CASE Changed(f)
    BY <1>6, <2>1, FeedPublish DEF Feed!Next
  <2>2. CASE ~Changed(f)
    BY <1>6, <2>2, FeedStutter DEF CheckFile
  <2> QED
    BY <2>1, <2>2
<1>7. ASSUME NEW f \in Files, Send(f) PROVE Feed!Next
  <2>1. handlers[f][next[f]] \in Pairs
    BY <1>7 DEF Send, IInv, TypeOK
  <2> QED
    BY <1>7, <2>1, FeedTake DEF Feed!Next
<1>8. CASE UNCHANGED vars
  BY <1>8, FeedStutter DEF vars
<1> QED
  BY <1>1, <1>2, <1>3, <1>4, <1>5, <1>6, <1>7, <1>8 DEF Next, Environment, Client, Watcher

(* The watcher publishes a file's value to all of its handlers and not again before each  *)
(* has taken it, and never an unchanged content: it implements ChangeFeed, but for its    *)
(* liveness, which TLC checks (fileContentWatcher.go:58-109).                             *)
THEOREM FeedIsImplemented == Spec => Feed!SafeSpec
  BY Inductive, FeedInit, FeedNext, PTL DEF Spec, Feed!SafeSpec
====
