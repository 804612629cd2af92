---- MODULE PhasedRun ----
(***************************************************************************)
(* What a run promises, with no goroutines, WaitGroups, uploads or zip     *)
(* entries: it goes through three phases; a producer adds to its results   *)
(* only in the phase of its kind and only until it settles; a phase ends   *)
(* when all its producers have settled, so that whatever reads the results *)
(* later, the diagnosers and the zip, reads data that nobody writes.       *)
(***************************************************************************)
CONSTANTS Collectors, Diagnosers, Keys

Producers == Collectors \cup Diagnosers

VARIABLES phase, settled, results

vars == <<phase, settled, results>>

Init ==
  /\ phase = "collect"
  /\ settled = {}
  /\ results = [p \in Producers |-> {}]

Works(p) ==
  /\ p \notin settled
  /\ \/ phase = "collect" /\ p \in Collectors
     \/ phase = "diagnose" /\ p \in Diagnosers

Produce(p) ==
  /\ Works(p)
  /\ \E k \in Keys : results' = [results EXCEPT ![p] = @ \cup {k}]
  /\ UNCHANGED <<phase, settled>>

Settle(p) ==
  /\ Works(p)
  /\ settled' = settled \cup {p}
  /\ UNCHANGED <<phase, results>>

Diagnose ==
  /\ phase = "collect" /\ Collectors \subseteq settled
  /\ phase' = "diagnose"
  /\ UNCHANGED <<settled, results>>

Package ==
  /\ phase = "diagnose" /\ Producers \subseteq settled
  /\ phase' = "package"
  /\ UNCHANGED <<settled, results>>

(* The run is over, or its process died in any phase. *)
End ==
  /\ \/ phase = "package" /\ phase' = "done"
     \/ phase # "done" /\ phase' = "dead"
  /\ UNCHANGED <<settled, results>>

Next == Diagnose \/ Package \/ End \/ \E p \in Producers : Produce(p) \/ Settle(p)

Spec == Init /\ [][Next]_vars
====
