---------------------------- MODULE MCSiemExport ----------------------------
(* SiemExport for TLC: a good event beside one that a sink, or the database, *)
(* rejects.                                                                  *)
EXTENDS SiemExport

CONSTANTS e1, e2

MCKinds == {k \in [{e1, e2} -> Fates] : k[e1] = "good" /\ k[e2] # "good"}
============================================================================
