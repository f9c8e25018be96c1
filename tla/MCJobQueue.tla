----------------------------- MODULE MCJobQueue -----------------------------
(* Small instances of JobQueue for TLC.                                    *)
EXTENDS JobQueue

\* Row 1 is a job with retries (flow_metrics_cleanup), further rows are jobs
\* without (flow_execution).
RetriedThenSingleShot == [j \in Jobs |-> IF j = 1 THEN 2 ELSE 1]
=============================================================================
