---- MODULE MCWindowsLogs ----
(* Small instances of WindowsLogs. *)
EXTENDS WindowsLogs
====
