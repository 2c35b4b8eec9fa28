------------------------------- MODULE JobQueue -------------------------------
(***************************************************************************)
(* The job table of src/server/v2/postgres-repository.ts: one row per        *)
(* deduplication key, leased by workers, with a bounded number of attempts.  *)
(* Every query is one SQL statement, so it is atomic; the operators give the *)
(* table it leaves.  Payloads and results are left out, and so are run_after *)
(* and lease_expires_at: a pending job may be leased at any time, and a lease *)
(* may run out at any time, also while its owner still works.  The attempts   *)
(* of a finished job are never read: they are forgotten.                     *)
(***************************************************************************)
EXTENDS Naturals

CONSTANTS
    Keys,         \* deduplication keys
    Workers,      \* worker ids
    NoWorker,     \* lease_owner is NULL
    MaxAttempts   \* max_attempts

ASSUME QueueAssumption == MaxAttempts \in Nat \ {0} /\ NoWorker \notin Workers

VARIABLE jobs     \* v2_jobs: key -> row; status NONE is the absence of a row

JobRow == [status : {"NONE", "PENDING", "RUNNING", "SUCCEEDED", "DEAD"},
           attempts : 0 .. MaxAttempts, owner : Workers \cup {NoWorker}]

Row(status, attempts) == [status |-> status, attempts |-> attempts, owner |-> NoWorker]

\* enqueueJob: an existing row is left alone, except that a caller who asks for it
\* revives a dead one.
Enqueued(k, reactivateDead) ==
    IF jobs[k].status = "NONE" \/ (reactivateDead /\ jobs[k].status = "DEAD")
    THEN [jobs EXCEPT ![k] = Row("PENDING", 0)]
    ELSE jobs

\* leaseJobs can take the job: it is pending, or its lease has run out.
Leasable(k) == jobs[k].status \in {"PENDING", "RUNNING"} /\ jobs[k].attempts < MaxAttempts

\* leaseJobs
Leased(k, w) ==
    [jobs EXCEPT ![k] = [status |-> "RUNNING", attempts |-> @.attempts + 1, owner |-> w]]

Owns(w, k) == jobs[k].status = "RUNNING" /\ jobs[k].owner = w

\* completeJob, rescheduleJob and failJob do nothing for a worker that lost its lease.
Completed(k, w) ==
    IF Owns(w, k) THEN [jobs EXCEPT ![k] = Row("SUCCEEDED", 0)] ELSE jobs

Rescheduled(k, w) ==
    IF Owns(w, k) THEN [jobs EXCEPT ![k] = Row("PENDING", 0)] ELSE jobs

Failed(k, w) ==
    IF ~Owns(w, k) THEN jobs
    ELSE [jobs EXCEPT ![k] = IF @.attempts >= MaxAttempts THEN Row("DEAD", 0)
                             ELSE Row("PENDING", @.attempts)]
===============================================================================
