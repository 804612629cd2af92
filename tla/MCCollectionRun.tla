---- MODULE MCCollectionRun ----
(* Small instances of CollectionRun. *)
EXTENDS CollectionRun

CONSTANTS dns, kubeletcmd, networkconfig, k1, k2

(* The diagnosers of run(): networkconfig reads dns and kubeletcmd. *)
MCAttempts ==
  [p \in {dns, kubeletcmd, networkconfig} |-> IF p = dns THEN {k1, k2} ELSE {k1}]
MCReads == [d \in {networkconfig} |-> {dns, kubeletcmd}]
====
