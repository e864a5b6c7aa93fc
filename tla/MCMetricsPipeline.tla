------------------------- MODULE MCMetricsPipeline -------------------------
(***************************************************************************)
(* Small instances of MetricsPipeline: two concurrent requests and, as in  *)
(* the code, the GPU collector as the only one with an Err path.           *)
(***************************************************************************)
EXTENDS MetricsPipeline
=============================================================================
