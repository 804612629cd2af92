---- MODULE MCRuntimeInfo ----
(* A small instance of RuntimeInfo. *)
EXTENDS RuntimeInfo, TLC

Base == ("DIAGNOSTIC_CONTAINERLOGS_LIST" :> "kube-system") @@ ("DIAGNOSTIC_KUBEOBJECTS_LIST" :> "kube-system/pod")

(* A fresh deployment; a run as the default has it; one in a mesh; one with other lists, and *)
(* the Windows feature; the run ID is lost.                                                 *)
Fresh == Base @@ (RunIdKey :> "")
Default == Base @@ (RunIdKey :> "r1") @@ ("COLLECTOR_LIST" :> {})
First == Base @@ (RunIdKey :> "r1") @@ ("COLLECTOR_LIST" :> {"OSM"})
           @@ ("DIAGNOSTIC_NODELOGS_LIST_LINUX" :> "/var/log/syslog")
Second == Base @@ (RunIdKey :> "r2") @@ ("COLLECTOR_LIST" :> {"connectedCluster", "SMI"})
           @@ (WindowsHpc :> "1")
MCConfigMaps == {Fresh, Default, First, Second, Base}

(* A SAS for the account, and one for a container. *)
Account == ("AZURE_BLOB_ACCOUNT_NAME" :> "account") @@ ("AZURE_BLOB_SAS_KEY" :> "?sas")
             @@ ("AZURE_BLOB_CONTAINER_NAME" :> "container")
MCSecrets == {Account, Account @@ ("AZURE_STORAGE_SAS_KEY_TYPE" :> "Container")}
====
