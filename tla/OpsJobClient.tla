---------------------------- MODULE OpsJobClient ----------------------------
(***************************************************************************)
(* JumpServerOpsClient.run, app/collectors/jumpserver_ops.py, through which *)
(* the Active Directory and PacketFence polls run their queries: resolve   *)
(* the asset, post an instant job, read the job until it has finished or   *)
(* completion_timeout has passed, fetch its output.  Nothing cancels a job *)
(* that the client gave up on.                                             *)
(***************************************************************************)
EXTENDS Integers

CONSTANTS
    OpsRuns,            \* calls of run
    CompletionTimeout,  \* completion_timeout, in poll intervals
    SlowestRead         \* bound on what one turn of the loop may take, in intervals

ASSUME OpsAssumption == CompletionTimeout \in Nat \ {0} /\ SlowestRead \in Nat \ {0}

VARIABLES
    opsPc,    \* where each run is
    job,      \* JumpServer's job of each run, "none" before it is posted
    elapsed   \* monotonic() since _wait_for_completion began, in poll intervals

opsVars == <<opsPc, job, elapsed>>

OpsTypeOK ==
    /\ opsPc \in [OpsRuns -> {"idle", "post", "wait", "log", "succeeded", "failed"}]
    /\ job \in [OpsRuns -> {"none", "running", "success", "failure"}]
    /\ elapsed \in [OpsRuns -> 0..(CompletionTimeout + SlowestRead)]

OpsInit ==
    /\ opsPc = [o \in OpsRuns |-> "idle"]
    /\ job = [o \in OpsRuns |-> "none"]
    /\ elapsed = [o \in OpsRuns |-> 0]
-----------------------------------------------------------------------------
OpsGoto(o, where) == opsPc' = [opsPc EXCEPT ![o] = where]

\* resolve_asset_id: exactly one asset has the name.
ResolveAsset(o) ==
    /\ opsPc[o] = "idle"
    /\ OpsGoto(o, "post")
    /\ UNCHANGED <<job, elapsed>>

\* POST of the job, run_after_save; the answer names its task.
PostJob(o) ==
    /\ opsPc[o] = "post"
    /\ job' = [job EXCEPT ![o] = "running"]
    /\ OpsGoto(o, "wait")
    /\ UNCHANGED elapsed

\* Mutant of ReadFinished: is_finished is taken for success.
FinishedIsSuccess(o) ==
    /\ opsPc[o] = "wait"
    /\ job[o] \in {"success", "failure"}
    /\ OpsGoto(o, "log")
    /\ UNCHANGED <<job, elapsed>>

\* A turn of _wait_for_completion that finds is_finished.
ReadFinished(o) ==
    /\ opsPc[o] = "wait"
    /\ job[o] \in {"success", "failure"}
    /\ OpsGoto(o, IF job[o] = "success" THEN "log" ELSE "failed")
    /\ UNCHANGED <<job, elapsed>>

\* Mutant of ReadRunning: the deadline starts again with every turn.
DeadlineEachTurn(o) ==
    /\ opsPc[o] = "wait"
    /\ job[o] = "running"
    /\ \E took \in 0..(SlowestRead - 1) :
         OpsGoto(o, IF took >= CompletionTimeout THEN "failed" ELSE "wait")
    /\ UNCHANGED <<job, elapsed>>

\* A turn that finds the job running: TimeoutError at or past the deadline,
\* else sleep(poll_interval).  The read took a while; the deadline is looked
\* at before the sleep.
ReadRunning(o) ==
    /\ opsPc[o] = "wait"
    /\ job[o] = "running"
    /\ \E took \in 0..(SlowestRead - 1) :
         LET now  == elapsed[o] + took
             late == now >= CompletionTimeout
         IN  /\ OpsGoto(o, IF late THEN "failed" ELSE "wait")
             /\ elapsed' = [elapsed EXCEPT ![o] = IF late THEN now ELSE now + 1]
    /\ UNCHANGED job

\* GET of the log, cleaned of its framing: the output that run returns.
ReadLog(o) ==
    /\ opsPc[o] = "log"
    /\ OpsGoto(o, "succeeded")
    /\ UNCHANGED <<job, elapsed>>

\* A failed request or an unusable answer; the job may have been created.
OpsFails(o) ==
    /\ opsPc[o] \in {"idle", "post", "wait", "log"}
    /\ OpsGoto(o, "failed")
    /\ \/ UNCHANGED job
       \/ opsPc[o] = "post" /\ job' = [job EXCEPT ![o] = "running"]
    /\ UNCHANGED elapsed

\* The job ends at any time, after its run was given up too, or never.
JobEnds(o) ==
    /\ job[o] = "running"
    /\ \E how \in {"success", "failure"} : job' = [job EXCEPT ![o] = how]
    /\ UNCHANGED <<opsPc, elapsed>>

RunStep(o) == ResolveAsset(o) \/ PostJob(o) \/ ReadFinished(o) \/ ReadRunning(o) \/ ReadLog(o)

OpsNext == \E o \in OpsRuns : RunStep(o) \/ OpsFails(o) \/ JobEnds(o)

Completed == {o \in OpsRuns : job[o] = "success"}
=============================================================================
