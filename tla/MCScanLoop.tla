---------------------------- MODULE MCScanLoop ----------------------------
(* Instances of ScanLoop for TLC: what the environment does in each run.   *)
EXTENDS ScanLoop, TLC

Interchangeable == Permutations(Browsers) \cup Permutations(Tasks)

\* the rotation, beside uploads from the browser extension, with launches that
\* fail and restarts at any moment
RotationEntries == {"upload", "launchFails", "restart"}

\* everything that can happen
OperatorEntries == AllEntries

\* game maintenance, with captures, uploads and restarts beside a cycle;
\* a manual scan takes the timer away
MaintenanceEntries == {"maintenance", "collect", "calibrate", "upload",
                       "restart"}
===========================================================================
