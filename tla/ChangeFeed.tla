---- MODULE ChangeFeed ----
(***************************************************************************)
(* What FileContentWatcher promises its clients, with no polling, no       *)
(* ticker, no order among files or handlers and no channels: a file's      *)
(* value is published to all of its subscribers, and not again before each *)
(* of them has taken it; an unchanged content is never published, an error *)
(* may be repeated; a change that stays is published.                      *)
(***************************************************************************)
EXTENDS Integers

CONSTANTS Files, Subscribers, Contents, Empty, Fault, MaxWrites

Values == Contents \cup {Empty, Fault}

VARIABLES
  disk,         \* file -> [value, ver], as in FileContentWatcher
  subscribers,  \* file -> who is told
  open,         \* the feed publishes, and takes no more subscribers
  latest,       \* file -> what was last published
  owed          \* file -> subscribers yet to take it

vars == <<disk, subscribers, open, latest, owed>>

(* After an error the last content counts as "". *)
LastContent(f) == IF latest[f] = Fault THEN Empty ELSE latest[f]
News(f) == disk[f].value = Fault \/ disk[f].value # LastContent(f)

Init ==
  /\ disk \in [Files -> [value : Values, ver : {1}]]
  /\ subscribers = [f \in Files |-> {}]
  /\ open = FALSE
  /\ latest = [f \in Files |-> Empty]
  /\ owed = [f \in Files |-> {}]

Write(f) ==
  /\ disk[f].ver < MaxWrites
  /\ \E v \in Values \ {disk[f].value} :
       disk' = [disk EXCEPT ![f] = [value |-> v, ver |-> disk[f].ver + 1]]
  /\ UNCHANGED <<subscribers, open, latest, owed>>

Subscribe(f, s) ==
  /\ ~open
  /\ s \notin subscribers[f]
  /\ subscribers' = [subscribers EXCEPT ![f] = @ \cup {s}]
  /\ UNCHANGED <<disk, open, latest, owed>>

Open ==
  /\ ~open /\ open' = TRUE
  /\ UNCHANGED <<disk, subscribers, latest, owed>>

Publish(f) ==
  /\ open /\ subscribers[f] # {} /\ owed[f] = {}
  /\ News(f)
  /\ latest' = [latest EXCEPT ![f] = disk[f].value]
  /\ owed' = [owed EXCEPT ![f] = subscribers[f]]
  /\ UNCHANGED <<disk, subscribers, open>>

Take(f, s) ==
  /\ s \in owed[f]
  /\ owed' = [owed EXCEPT ![f] = @ \ {s}]
  /\ UNCHANGED <<disk, subscribers, open, latest>>

Next ==
  \/ Open
  \/ \E f \in Files :
       \/ Write(f) \/ Publish(f)
       \/ \E s \in Subscribers : Subscribe(f, s) \/ Take(f, s)

SafeSpec == Init /\ [][Next]_vars

Spec ==
  /\ SafeSpec
  /\ \A f \in Files :
       WF_vars(Publish(f)) /\ \A s \in Subscribers : WF_vars(Take(f, s))
====
