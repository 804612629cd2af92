---- MODULE MCOsmCollector ----
(* Small instances of OsmCollector. *)
EXTENDS OsmCollector

CONSTANTS m1, m2, osm, app, web, n1, n2, n3

(* Mesh m1 monitors two namespaces with two pods and one; m2 monitors none. *)
MCMonitored == [m \in {m1, m2} |-> IF m = m1 THEN {app, web} ELSE {}]
MCController == [m \in {m1, m2} |-> osm]
MCNamesIn == [n \in {osm, app, web} |-> IF n = osm THEN {n3} ELSE IF n = app THEN {n1, n2} ELSE {n1}]
MCQueries == <<"config_dump", "stats">>
====
