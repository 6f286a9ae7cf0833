--------------------------- MODULE MCBenchmarkApp ---------------------------
(* Two trackers and a detector, as in apps/cpunanotracker_benchmark.yaml.  *)
EXTENDS BenchmarkApp

MCProcessors == {"nanotrack", "flowtrack", "yolo"}
MCKind == [p \in MCProcessors |-> IF p = "yolo" THEN "detector" ELSE "tracker"]
=============================================================================
