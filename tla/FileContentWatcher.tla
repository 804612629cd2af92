---- MODULE FileContentWatcher ----
(***************************************************************************)
(* pkg/utils/fileContentWatcher.go: a poller that tells registered         *)
(* channels when a small file changes or cannot be read.                   *)
(*                                                                         *)
(* One goroutine polls.  In a pass it takes the watched files in map order *)
(* (any order), reads each one, and, when updateIfChanged says so, sends   *)
(* to the handlers of that file one after the other on UNBUFFERED          *)
(* channels: a send waits until the client is receiving on that channel.   *)
(* The files change at any time and the clients take as long as they like. *)
(*                                                                         *)
(* GetContent and updateIfChanged are one step: only this goroutine reads  *)
(* or writes an item after Start, and a value that is stale by the time it *)
(* is sent is still modelled, since every send is a later step.            *)
(* Clients call AddHandler before Start (its comment, line 42) and give a  *)
(* channel once per file.                                                  *)
(***************************************************************************)
EXTENDS Integers, Sequences, FiniteSets

CONSTANTS
  Files,         \* paths a client may watch
  ContentChans,  \* chan string
  ErrChans,      \* chan error
  Contents,      \* the non-empty contents a file may have
  Empty,         \* the empty content, ""
  Fault,         \* a file that cannot be opened or read
  MaxWrites,     \* bound: versions a file goes through
  MaxHandlers    \* bound: handlers of one file

Values == Contents \cup {Empty, Fault}

ASSUME ValueAssumption == Empty \notin Contents /\ Fault \notin Contents /\ Empty # Fault
ASSUME BoundAssumption == MaxWrites \in Nat \ {0} /\ MaxHandlers \in Nat
ASSUME ChannelAssumption == ContentChans \cap ErrChans = {}

VARIABLES
  disk,       \* file -> its value, and a version that every write increments
  handlers,   \* file -> the registered channel pairs, in registration order
  item,       \* file -> the content and error last recorded; ver is history: the version read
  started,    \* w.ticker is set
  tick,       \* a tick waits in the ticker's channel, which holds at most one
  pass,       \* files this pass of checkFilePaths has still to check
  next,       \* file -> index of the handler it sends to, 0 when not in handleUpdated
  receiving,  \* channels some client is blocked receiving on
  seen        \* history: file -> channel -> what was last received there

vars == <<disk, handlers, item, started, tick, pass, next, receiving, seen>>

Channels == ContentChans \cup ErrChans
Pairs == [content : ContentChans, err : ErrChans]
Watched == {f \in Files : handlers[f] # << >>}
Notifying == \E f \in Files : next[f] # 0

----------------------------------------------------------------------------
(* The file that is read, and what the item records of it. *)

ReadErr(f) == disk[f].value = Fault
ReadContent(f) == IF ReadErr(f) THEN Empty ELSE disk[f].value

(* item.content and item.err as one value: an error is recorded with content "" *)
Recorded(f) == IF item[f].err THEN Fault ELSE item[f].content

(* The channel of f's i-th handler that handleUpdated picks. *)
Target(f, i) == IF item[f].err THEN handlers[f][i].err ELSE handlers[f][i].content

----------------------------------------------------------------------------
(* Slips of the code that the properties below must notice. *)

AlwaysChanged(f) == TRUE
ContentOnlyChanged(f) == ReadContent(f) # item[f].content
NeverRecovers(f) == ReadErr(f) \/ (~item[f].err /\ ReadContent(f) # item[f].content)
Second(f) == 2
SkipFirst(f) == IF Len(handlers[f]) > 1 THEN 2 ELSE 1

----------------------------------------------------------------------------

Init ==
  /\ disk \in [Files -> [value : Values, ver : {1}]]
  /\ handlers = [f \in Files |-> << >>]
  /\ item = [f \in Files |-> [content |-> Empty, err |-> FALSE, ver |-> 0]]
  /\ started = FALSE
  /\ tick = FALSE
  /\ pass = {}
  /\ next = [f \in Files |-> 0]
  /\ receiving = {}
  /\ seen = [f \in Files |-> [c \in Channels |-> [value |-> Empty, ver |-> 0]]]

(* Anyone rewrites a file, empties it, or makes it unreadable. *)
Write(f) ==
  /\ disk[f].ver < MaxWrites
  /\ \E v \in Values \ {disk[f].value} :
       disk' = [disk EXCEPT ![f] = [value |-> v, ver |-> disk[f].ver + 1]]
  /\ UNCHANGED <<handlers, item, started, tick, pass, next, receiving, seen>>

(* A client's goroutine comes (back) to its receive. *)
Listen(c) ==
  /\ c \notin receiving
  /\ receiving' = receiving \cup {c}
  /\ UNCHANGED <<disk, handlers, item, started, tick, pass, next, seen>>

AddHandler(f, p) ==
  /\ ~started
  /\ Len(handlers[f]) < MaxHandlers
  /\ \A i \in 1..Len(handlers[f]) :
       handlers[f][i].content # p.content /\ handlers[f][i].err # p.err
  /\ handlers' = [handlers EXCEPT ![f] = Append(@, p)]
  /\ UNCHANGED <<disk, item, started, tick, pass, next, receiving, seen>>

(* A second Start finds the ticker set and does nothing. *)
Start ==
  /\ ~started
  /\ started' = TRUE
  /\ pass' = Watched
  /\ UNCHANGED <<disk, handlers, item, tick, next, receiving, seen>>

(* The ticker fires; it drops the tick when one is already waiting. *)
Tick ==
  /\ started
  /\ ~tick
  /\ tick' = TRUE
  /\ UNCHANGED <<disk, handlers, item, started, pass, next, receiving, seen>>

NextPass ==
  /\ started /\ pass = {} /\ ~Notifying
  /\ tick
  /\ tick' = FALSE
  /\ pass' = Watched
  /\ UNCHANGED <<disk, handlers, item, started, next, receiving, seen>>

Changed(f) == ReadErr(f) \/ ReadContent(f) # item[f].content
First(f) == 1

(* updateIfChanged; when it returns true handleUpdated begins. *)
CheckFile(f) ==
  /\ f \in pass /\ ~Notifying
  /\ pass' = pass \ {f}
  /\ IF Changed(f)
       THEN /\ item' = [item EXCEPT ![f] = [content |-> ReadContent(f), err |-> ReadErr(f),
                                            ver |-> disk[f].ver]]
            /\ next' = [next EXCEPT ![f] = First(f)]
       ELSE UNCHANGED <<item, next>>
  /\ UNCHANGED <<disk, handlers, started, tick, receiving, seen>>

(* handler <- item.content (or item.err): the send and the receive are one step. *)
Send(f) ==
  /\ next[f] # 0
  /\ LET c == Target(f, next[f]) IN
       /\ c \in receiving
       /\ receiving' = receiving \ {c}
       /\ seen' = [seen EXCEPT ![f][c] = [value |-> Recorded(f), ver |-> item[f].ver]]
  /\ next' = [next EXCEPT ![f] = IF @ = Len(handlers[f]) THEN 0 ELSE @ + 1]
  /\ UNCHANGED <<disk, handlers, item, started, tick, pass>>

----------------------------------------------------------------------------

Environment == \E f \in Files : Write(f)
Client ==
  \/ \E c \in Channels : Listen(c)
  \/ \E f \in Files, p \in Pairs : AddHandler(f, p)
  \/ Start
Watcher == NextPass \/ \E f \in Files : CheckFile(f) \/ Send(f)

Next == Environment \/ Client \/ Tick \/ Watcher

(* The runtime runs a goroutine that can run, and the ticker keeps firing; the *)
(* clients are assumed to come back to their receive, as main and its runner do. *)
(* The files need never change.                                              *)
Fairness ==
  /\ WF_vars(Tick)
  /\ WF_vars(NextPass)
  /\ \A f \in Files : WF_vars(CheckFile(f)) /\ WF_vars(Send(f))
  /\ \A c \in Channels : WF_vars(Listen(c))

Spec == Init /\ [][Next]_vars /\ Fairness

----------------------------------------------------------------------------
(* Properties *)

(* The type of every variable. *)
TypeOK ==
  /\ disk \in [Files -> [value : Values, ver : 1..MaxWrites]]
  /\ handlers \in [Files -> Seq(Pairs)]
  /\ item \in [Files -> [content : Contents \cup {Empty}, err : BOOLEAN, ver : 0..MaxWrites]]
  /\ started \in BOOLEAN /\ tick \in BOOLEAN
  /\ pass \subseteq Watched
  /\ next \in [Files -> Nat]
  /\ \A f \in Files : next[f] <= Len(handlers[f])
  /\ receiving \subseteq Channels
  /\ seen \in [Files -> [Channels -> [value : Values, ver : 0..MaxWrites]]]

(* No handler is left out: whatever the item records has reached, at that version, every *)
(* handler the range loops of handleUpdated have passed, and every handler once they are *)
(* done (fileContentWatcher.go:71-84).                                                   *)
NoHandlerMissed ==
  \A f \in Files : \A i \in 1..Len(handlers[f]) :
    (item[f].ver > 0 /\ (next[f] = 0 \/ i < next[f]))
      => seen[f][Target(f, i)] = [value |-> Recorded(f), ver |-> item[f].ver]

(* The watcher never sends a channel the same version of a content twice, nor an older   *)
(* one, however polls, slow clients and errors interleave (updateIfChanged, lines 58-69). *)
ContentIsNewer ==
  [][\A f \in Files : \A i \in 1..Len(handlers[f]) :
       (next[f] = i /\ next'[f] # i /\ ~item[f].err)
         => seen[f][handlers[f][i].content].ver < item[f].ver]_vars

(* A value that stays is eventually what every handler of the file last got, and stays so, *)
(* although polls miss the values between: a non-empty content on the content channel, an  *)
(* error on the error channel.                                                             *)
StableContentDelivered ==
  \A f \in Files, v \in Contents :
    <>[](disk[f].value = v /\ started)
      => <>[](\A i \in 1..Len(handlers[f]) : seen[f][handlers[f][i].content].value = v)
StableErrorDelivered ==
  \A f \in Files :
    <>[](disk[f].value = Fault /\ started)
      => <>[](\A i \in 1..Len(handlers[f]) : seen[f][handlers[f][i].err].ver = disk[f].ver)

(* The abstract specification: the subscribers are the registered channel pairs, and owed *)
(* the latest value are the handlers handleUpdated has still to send to.                  *)
Registered(f) == {handlers[f][i] : i \in 1..Len(handlers[f])}
Owed(f) == {handlers[f][i] : i \in {j \in 1..Len(handlers[f]) : next[f] # 0 /\ next[f] <= j}}

Feed == INSTANCE ChangeFeed WITH
  Subscribers <- Pairs,
  subscribers <- [f \in Files |-> Registered(f)],
  open <- started,
  latest <- [f \in Files |-> Recorded(f)],
  owed <- [f \in Files |-> Owed(f)]

(* The watcher implements ChangeFeed, its liveness included: a change that stays on the   *)
(* disk is published, whatever the other files and their handlers do, and every handler   *)
(* takes every published value exactly once before the next (lines 58-109).              *)
ImplementsFeed == Feed!Spec
====
