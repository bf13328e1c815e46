-------------------------------- MODULE ScanRow --------------------------------
(***************************************************************************)
(* The columns of one scan_jobs row that the control plane decides on, and *)
(* what the writers of the row assign.  No variables: the modules that     *)
(* hold rows EXTEND this one.                                              *)
(*                                                                         *)
(* A column is kept when some guard reads it or two writers can disagree   *)
(* about it.  error_message is reduced to who wrote it, sbom_object_key to *)
(* whether it is set; finished_at is set with every verdict.               *)
(***************************************************************************)

Unfinished == {"queued", "running"}
Terminal   == {"succeeded", "failed", "cancelled"}
Outcome    == {"succeeded", "failed"}
Author     == {"none", "runner", "reporter"}
AllBackends == {"docker", "k8s", "inline"}

Row == [status  : {"absent"} \cup Unfinished \cup Terminal,
        backend : {"none"} \cup AllBackends,
        sbom    : {"unset", "set"},
        error   : Author]

Absent == [status |-> "absent", backend |-> "none", sbom |-> "unset", error |-> "none"]

(* Mutant: create_scan leaves status to the column's default.              *)
DefaultRow(b) == [Absent EXCEPT !.status = "pending", !.backend = b]

(* The row create_scan inserts.                                            *)
QueuedRow(b) == [Absent EXCEPT !.status = "queued", !.backend = b]

(* What run_scan assigns before it submits: the status it found is not     *)
(* looked at, and the columns of an earlier verdict are left alone.        *)
Started(loaded) == [loaded EXCEPT !.status = "running"]

(* What the except clause of run_scan assigns.                             *)
RunnerFailed(loaded) ==
  [loaded EXCEPT !.status = "failed", !.error = "runner"]

(* What scan_callback assigns for a payload with this outcome.  The        *)
(* reporter sends object_key only with a success, error_message only with  *)
(* a failure.                                                              *)
Reported(loaded, outcome) ==
  IF outcome = "succeeded"
    THEN [loaded EXCEPT !.status = "succeeded", !.sbom = "set", !.error = "none"]
    ELSE [loaded EXCEPT !.status = "failed", !.sbom = "unset", !.error = "reporter"]

(* The UPDATE a session emits: only columns whose value differs from the   *)
(* one it loaded are written, whatever the row holds by then (READ         *)
(* COMMITTED, no version column, no SELECT ... FOR UPDATE).  Nobody        *)
(* assigns backend.                                                        *)
Flush(stored, loaded, new) ==
  [status  |-> IF new.status # loaded.status THEN new.status ELSE stored.status,
   backend |-> stored.backend,
   sbom    |-> IF new.sbom   # loaded.sbom   THEN new.sbom   ELSE stored.sbom,
   error   |-> IF new.error  # loaded.error  THEN new.error  ELSE stored.error]
================================================================================
