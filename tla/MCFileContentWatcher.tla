---- MODULE MCFileContentWatcher ----
(* A small instance of FileContentWatcher: one file with two handlers, and one whose handler *)
(* shares its channels with the first.                                                       *)
EXTENDS FileContentWatcher, SequencesExt

CONSTANTS f1, f2, k1, k2, e1, e2,
          MaxChanges  \* bound: writes after the first version, of both files together

Clients ==
  (f1 :> <<[content |-> k1, err |-> e1], [content |-> k2, err |-> e2]>>)
    @@ (f2 :> <<[content |-> k1, err |-> e1]>>)

(* The clients register in this order, any of them late or never, and nobody else does. *)
MCNext ==
  /\ Next
  /\ \A f \in Files : IsPrefix(handlers'[f], Clients[f])
  /\ disk'[f1].ver + disk'[f2].ver - 2 <= MaxChanges

MCSpec == Init /\ [][MCNext]_vars /\ Fairness
====
