---------------------------- MODULE SummaryJobs -----------------------------
(***************************************************************************)
(* The AI summary of one target (a draft, a version or a diff) and the     *)
(* durable jobs that generate it.                                          *)
(*                                                                         *)
(* Asking for a summary stores it as pending together with a job, whose id *)
(* is the generation token of the summary.  Each Vdoc process runs one     *)
(* worker.  A worker claims a job under a lease, reloads and checks the    *)
(* target, calls the provider, reloads and checks again, and saves the     *)
(* answer in a transaction that verifies the lease, the inputs and the     *)
(* token.  A second goroutine renews the lease and cancels the run when    *)
(* the lease is lost.  The worker then drops the job or releases it for    *)
(* another attempt.                                                        *)
(*                                                                         *)
(* A worker that runs attempt n of a job holds the lease while the job is  *)
(* held and n is still its number of attempts.                             *)
(***************************************************************************)
EXTENDS Naturals

CONSTANTS
    Workers,        \* one per Vdoc process
    None,           \* no token, no job
    AttemptLimit,   \* attempts after which an error is final (3 in the code)
    Faults,         \* faults the environment may inject
    MaxFaults,      \* bound: faults injected
    MaxJobs,        \* bound: generations asked for
    MaxRevision     \* bound: versions of the inputs

FaultKinds == {"database", "stall", "stop", "crash"}

ASSUME FaultsAssumption == Faults \subseteq FaultKinds
ASSUME AttemptLimitAssumption == AttemptLimit \in Nat \ {0}
ASSUME MaxJobsAssumption == MaxJobs \in Nat

VARIABLES
    summary,    \* the ai_summaries row of the target
    job,        \* the ai_summary_jobs rows
    nextJob,    \* next unused job id
    inputs,     \* what an answer depends on: content, rights, configuration
    step,       \* where each worker is
    claim,      \* the job and the lease of its run
    read,       \* the revision of the inputs its request was built from
    cause,      \* why its run was cancelled
    result,     \* what its run has come to
    audit,      \* the audit row of its provider call
    stopping,   \* its process is shutting down
    faults      \* faults injected so far

run == <<claim, read, cause, result, audit>>
vars == <<summary, job, nextJob, inputs, step, claim, read, cause, result,
          audit, stopping, faults>>

-----------------------------------------------------------------------------

JobId == 1..MaxJobs

\* denied: the requester lost access or the target is archived; muted: the
\* prompt is disabled.
Readiness == {"ready", "unprovided", "muted", "denied"}

\* of is the revision of the inputs an answer was generated from.
SummaryRow == [status : {"none", "pending", "succeeded", "failed", "skipped"},
               token : JobId \cup {None}, of : Nat]

\* live: available_at lies in the future.
JobRow == [held : BOOLEAN, live : BOOLEAN, attempts : Nat]

Running == {"claimed", "skipping", "calling", "answered", "saving", "voiding"}
Step == Running \cup {"down", "idle", "ended", "failing", "retrying", "dropping"}

\* What a worker was handed with its job: the attempt it is to make.
Lease == [job : JobId, lease : Nat]

ASSUME NoneAssumption == None \notin JobId \cup JobRow \cup Lease

TypeOK ==
    /\ summary \in SummaryRow
    /\ job \in [JobId -> JobRow \cup {None}]
    /\ nextJob \in 1..(MaxJobs + 1)
    /\ inputs \in [revision : Nat, state : Readiness]
    /\ step \in [Workers -> Step]
    /\ claim \in [Workers -> Lease \cup {None}]
    /\ read \in [Workers -> Nat]
    /\ cause \in [Workers -> {"none", "lease", "renewal", "shutdown"}]
    /\ result \in [Workers -> {"none", "answer", "error", "done", "stale",
                               "denied", "lease", "transient", "canceled"}]
    /\ audit \in [Workers -> {"none", "due", "kept", "lost"}]
    /\ stopping \in [Workers -> BOOLEAN]
    /\ faults \in Nat

Init ==
    /\ summary = [status |-> "none", token |-> None, of |-> 0]
    /\ job = [j \in JobId |-> None]
    /\ nextJob = 1
    /\ inputs \in [revision : {1}, state : Readiness]
    /\ step = [w \in Workers |-> "idle"]
    /\ claim = [w \in Workers |-> None]
    /\ read = [w \in Workers |-> 0]
    /\ cause = [w \in Workers |-> "none"]
    /\ result = [w \in Workers |-> "none"]
    /\ audit = [w \in Workers |-> "none"]
    /\ stopping = [w \in Workers |-> FALSE]
    /\ faults = 0

Fault(kind) == kind \in Faults /\ faults < MaxFaults /\ faults' = faults + 1

-----------------------------------------------------------------------------
(* Requests for a summary, and what changes under one                      *)

\* stageSummaryJob: the pending row and its job are committed together.
NewGeneration(state) ==
    /\ nextJob <= MaxJobs
    /\ nextJob' = nextJob + 1
    /\ IF state = "unprovided"
         THEN /\ summary' = [status |-> "skipped", token |-> None, of |-> 0]
              /\ UNCHANGED job
         ELSE /\ summary' = [status |-> "pending", token |-> nextJob, of |-> 0]
              /\ job' = [job EXCEPT ![nextJob] =
                            [held |-> FALSE, live |-> FALSE, attempts |-> 0]]
    /\ UNCHANGED <<step, run, stopping, faults>>

\* A manual request; one that finds the summary pending changes nothing.
QueueAISummary ==
    /\ inputs.state # "denied"
    /\ summary.status # "pending"
    /\ NewGeneration(inputs.state)
    /\ UNCHANGED inputs

\* A submitted draft or a published version asks for its summary anew.
StageForWorkflow ==
    /\ inputs.state # "denied"
    /\ inputs.revision < MaxRevision
    /\ inputs' = [inputs EXCEPT !.revision = @ + 1]
    /\ NewGeneration(inputs.state)

\* Content, rights, targets, providers and prompts change under a generation.
ChangeInputs(state) ==
    /\ inputs.revision < MaxRevision
    /\ inputs' = [revision |-> inputs.revision + 1, state |-> state]
    /\ UNCHANGED <<summary, job, nextJob, step, run, stopping, faults>>

\* Only generations that have been pending for five minutes and have no job.
RecoverOrphans ==
    /\ \E w \in Workers : step[w] # "down"
    /\ summary.status = "pending"
    /\ job[summary.token] = None
    /\ summary' = [status |-> "failed", token |-> None, of |-> 0]
    /\ UNCHANGED <<job, nextJob, inputs, step, run, stopping, faults>>

-----------------------------------------------------------------------------
(* Leases                                                                  *)

Holds(w) ==
    /\ job[claim[w].job] # None
    /\ job[claim[w].job].held
    /\ job[claim[w].job].attempts = claim[w].lease

\* RenewSummaryJobLease succeeds.
Owns(w) == Holds(w) /\ job[claim[w].job].live

\* Variant of Claimable that takes up released jobs only.
ClaimableWhenReleased(j) == job[j] # None /\ ~job[j].live /\ ~job[j].held

Claimable(j) == job[j] # None /\ ~job[j].live

Claimed(j) ==
    job' = [job EXCEPT ![j] = [held |-> TRUE, live |-> TRUE,
                               attempts |-> @.attempts + 1]]

Claim(w, j) ==
    /\ step[w] = "idle" /\ ~stopping[w]
    /\ Claimable(j)
    /\ Claimed(j)
    /\ step' = [step EXCEPT ![w] = "claimed"]
    /\ claim' = [claim EXCEPT ![w] = [job |-> j, lease |-> job[j].attempts + 1]]
    /\ UNCHANGED <<summary, nextJob, inputs, read, cause, result, audit,
                   stopping, faults>>

\* The claim commits and its reply is lost.
ClaimUnanswered(w, j) ==
    /\ Fault("database")
    /\ step[w] = "idle" /\ ~stopping[w]
    /\ Claimable(j)
    /\ Claimed(j)
    /\ UNCHANGED <<summary, nextJob, inputs, step, run, stopping>>

Unattended(j) ==
    ~ \E w \in Workers : claim[w] # None /\ claim[w].job = j /\ Holds(w)

\* A lease runs out when nobody renews it: its worker is gone, or stalls.
LeaseExpires(j) ==
    /\ job[j] # None /\ job[j].held /\ job[j].live
    /\ \/ Unattended(j) /\ UNCHANGED faults
       \/ Fault("stall")
    /\ job' = [job EXCEPT ![j].live = FALSE]
    /\ UNCHANGED <<summary, nextJob, inputs, step, run, stopping>>

Cancel(w, why) ==
    /\ step[w] \in Running
    /\ cause[w] = "none"
    /\ cause' = [cause EXCEPT ![w] = why]
    /\ UNCHANGED <<summary, job, nextJob, inputs, step, claim, read, result,
                   audit, stopping>>

LeaseFoundLost(w) ==
    /\ Cancel(w, "lease")
    /\ ~Owns(w)
    /\ UNCHANGED faults

RenewalFails(w) == Fault("database") /\ Cancel(w, "renewal")

-----------------------------------------------------------------------------
(* A run                                                                   *)

To(w, next) == step' = [step EXCEPT ![w] = next]

End(w, outcome) ==
    /\ To(w, "ended")
    /\ result' = [result EXCEPT ![w] = outcome]

\* The transaction of the step commits; its reply may be lost.
EndCommitted(w, outcome) ==
    \/ End(w, outcome) /\ UNCHANGED faults
    \/ End(w, "transient") /\ Fault("database")

Audited(w) == audit' = [audit EXCEPT ![w] = "kept"]

\* persistDiscardedAISummaryAuditLocked, beside an error that is kept.
AuditDiscarded(w) ==
    \/ Audited(w) /\ UNCHANGED faults
    \/ audit' = [audit EXCEPT ![w] = "lost"] /\ Fault("database")

Current(w) == summary.token = claim[w].job

\* Variant of Finished that leaves the generation's token in place.
FinishedKeepingToken(status, of) ==
    summary' = [summary EXCEPT !.status = status, !.of = of]

Finished(status, of) == summary' = [status |-> status, token |-> None, of |-> of]

Prepare(w) ==
    /\ step[w] = "claimed"
    /\ IF cause[w] # "none" \/ ~Current(w) \/ inputs.state = "denied"
         THEN /\ End(w, CASE cause[w] # "none" -> "canceled"
                          [] cause[w] = "none" /\ ~Current(w) -> "stale"
                          [] OTHER -> "denied")
              /\ UNCHANGED <<read, audit>>
         ELSE /\ read' = [read EXCEPT ![w] = inputs.revision]
              /\ IF inputs.state = "ready"
                   THEN To(w, "calling") /\ audit' = [audit EXCEPT ![w] = "due"]
                   ELSE To(w, "skipping") /\ UNCHANGED audit
              /\ UNCHANGED result
    /\ UNCHANGED <<summary, job, nextJob, inputs, claim, cause, stopping, faults>>

\* The transaction checks the lease, the rights and the row; the revision of a
\* draft is checked too, a configuration that changed is not.
SaveSkipped(w) ==
    /\ step[w] = "skipping"
    /\ \/ /\ cause[w] = "none" /\ Owns(w) /\ inputs.state # "denied" /\ Current(w)
          /\ Finished("skipped", 0)
          /\ EndCommitted(w, "done")
       \/ /\ \/ cause[w] # "none" /\ End(w, "canceled")
             \/ cause[w] = "none" /\ ~Owns(w) /\ End(w, "lease")
             \/ /\ cause[w] = "none" /\ Owns(w)
                /\ \/ inputs.state = "denied" /\ End(w, "denied")
                   \/ /\ ~Current(w) \/ inputs.revision # read[w]
                      /\ End(w, "stale")
          /\ UNCHANGED <<summary, faults>>
    /\ UNCHANGED <<job, nextJob, inputs, claim, read, cause, audit, stopping>>

\* Variant of Return that records nothing of a call that was cut off.
ReturnUnrecorded(w) ==
    /\ step[w] = "calling"
    /\ IF cause[w] = "none"
         THEN /\ To(w, "answered")
              /\ \E r \in {"answer", "error"} : result' = [result EXCEPT ![w] = r]
         ELSE End(w, "canceled")
    /\ UNCHANGED <<summary, job, nextJob, inputs, claim, read, cause, audit,
                   stopping, faults>>

\* The provider answers or fails; a cancelled run leaves the generation as it
\* is and records only that a call was made.
Return(w) ==
    /\ step[w] = "calling"
    /\ IF cause[w] = "none"
         THEN /\ To(w, "answered")
              /\ \E r \in {"answer", "error"} : result' = [result EXCEPT ![w] = r]
              /\ UNCHANGED <<audit, faults>>
         ELSE /\ End(w, CASE cause[w] = "lease" -> "lease"
                          [] cause[w] = "renewal" -> "transient"
                          [] OTHER -> "canceled")
              /\ AuditDiscarded(w)
    /\ UNCHANGED <<summary, job, nextJob, inputs, claim, read, cause, stopping>>

UpToDate(w) == inputs.state = "ready" /\ inputs.revision = read[w]

\* finishAISummary up to its transaction.
Finish(w) ==
    /\ step[w] = "answered"
    /\ IF cause[w] # "none"
         THEN /\ To(w, "voiding")
              /\ result' = [result EXCEPT ![w] = "canceled"]
              /\ UNCHANGED audit
       ELSE IF ~Current(w)
         THEN End(w, "stale") /\ Audited(w)
       ELSE IF ~UpToDate(w)
         THEN /\ To(w, "voiding")
              /\ result' = [result EXCEPT ![w] = "stale"]
              /\ UNCHANGED audit
       ELSE To(w, "saving") /\ UNCHANGED <<result, audit>>
    /\ UNCHANGED <<summary, job, nextJob, inputs, claim, read, cause, stopping, faults>>

Saved(w) ==
    IF result[w] = "answer" THEN Finished("succeeded", read[w])
                            ELSE Finished("failed", 0)

\* Variant of Save that trusts the checks made before the transaction.
SaveUnverified(w) ==
    /\ step[w] = "saving"
    /\ Current(w)
    /\ Saved(w)
    /\ EndCommitted(w, "done")
    /\ Audited(w)
    /\ UNCHANGED <<job, nextJob, inputs, claim, read, cause, stopping>>

\* The transaction locks and checks the lease, the inputs and the token.
Save(w) ==
    /\ step[w] = "saving"
    /\ \/ /\ cause[w] = "none" /\ Owns(w) /\ UpToDate(w) /\ Current(w)
          /\ Saved(w)
          /\ EndCommitted(w, "done")
          /\ Audited(w)
       \/ /\ cause[w] = "none" /\ ~Owns(w)
          /\ End(w, "lease")
          /\ AuditDiscarded(w)
          /\ UNCHANGED summary
       \/ /\ cause[w] # "none" \/ (Owns(w) /\ ~(UpToDate(w) /\ Current(w)))
          /\ To(w, "voiding")
          /\ result' = [result EXCEPT ![w] =
                            IF cause[w] = "none" THEN "stale" ELSE "canceled"]
          /\ UNCHANGED <<summary, audit, faults>>
    /\ UNCHANGED <<job, nextJob, inputs, claim, read, cause, stopping>>

\* Variant of Void that fails the summary whatever generation it is in.
VoidAnyGeneration(w) ==
    /\ step[w] = "voiding"
    /\ Finished("failed", 0)
    /\ EndCommitted(w, result[w])
    /\ Audited(w)
    /\ UNCHANGED <<job, nextJob, inputs, claim, read, cause, stopping>>

\* failStaleAISummaryLocked: conditional on the token only.
Void(w) ==
    /\ step[w] = "voiding"
    /\ IF Current(w) THEN Finished("failed", 0) ELSE UNCHANGED summary
    /\ EndCommitted(w, result[w])
    /\ Audited(w)
    /\ UNCHANGED <<job, nextJob, inputs, claim, read, cause, stopping>>

\* stopLease, and the decision between another attempt and the end.
EndRun(w) ==
    /\ step[w] = "ended"
    /\ LET again == \/ stopping[w]
                    \/ /\ result[w] \in {"canceled", "transient"}
                       /\ claim[w].lease < AttemptLimit
       IN  To(w, IF again THEN "retrying"
                 ELSE IF result[w] \in {"done", "lease"} THEN "dropping"
                 ELSE "failing")
    /\ UNCHANGED <<summary, job, nextJob, inputs, run, stopping, faults>>

\* failSummaryJob, in a context of its own.
Fail(w) ==
    /\ step[w] = "failing"
    /\ IF Current(w) THEN Finished("failed", 0) ELSE UNCHANGED summary
    /\ \/ To(w, "dropping") /\ UNCHANGED faults
       \/ To(w, "retrying") /\ Fault("database")
    /\ UNCHANGED <<job, nextJob, inputs, run, stopping>>

\* The run's variables go with it.
Forget(w) ==
    /\ claim' = [claim EXCEPT ![w] = None]
    /\ read' = [read EXCEPT ![w] = 0]
    /\ cause' = [cause EXCEPT ![w] = "none"]
    /\ result' = [result EXCEPT ![w] = "none"]
    /\ audit' = [audit EXCEPT ![w] = "none"]

\* Variant of Release that finishes the job by its id.
ReleaseById(w) ==
    /\ step[w] \in {"retrying", "dropping"}
    /\ LET j == claim[w].job
       IN  job' = IF job[j] = None THEN job
                  ELSE [job EXCEPT ![j] =
                           IF step[w] = "dropping" THEN None
                           ELSE [@ EXCEPT !.held = FALSE, !.live = FALSE]]
    /\ To(w, "idle")
    /\ Forget(w)
    /\ UNCHANGED <<summary, nextJob, inputs, stopping, faults>>

\* FinishSummaryJob, by id and lease token.
Release(w) ==
    /\ step[w] \in {"retrying", "dropping"}
    /\ LET j == claim[w].job
       IN  job' = IF ~Holds(w) THEN job
                  ELSE [job EXCEPT ![j] =
                           IF step[w] = "dropping" THEN None
                           ELSE [@ EXCEPT !.held = FALSE, !.live = FALSE]]
    /\ To(w, "idle")
    /\ Forget(w)
    /\ UNCHANGED <<summary, nextJob, inputs, stopping, faults>>

\* A step's database work fails and leaves nothing behind.
DatabaseFails(w) ==
    /\ Fault("database")
    /\ \/ /\ step[w] \in Running \ {"calling"}
          /\ End(w, "transient")
          /\ audit' = [audit EXCEPT ![w] = IF @ = "due" THEN "lost" ELSE @]
          /\ UNCHANGED <<claim, read, cause>>
       \/ step[w] = "failing" /\ To(w, "retrying") /\ UNCHANGED run
       \/ step[w] \in {"retrying", "dropping"} /\ To(w, "idle") /\ Forget(w)
    /\ UNCHANGED <<summary, job, nextJob, inputs, stopping>>

-----------------------------------------------------------------------------
(* Processes                                                               *)

\* StopSummaryWorker cancels the run and waits for the worker.
Stop(w) ==
    /\ Fault("stop")
    /\ step[w] # "down" /\ ~stopping[w]
    /\ stopping' = [stopping EXCEPT ![w] = TRUE]
    /\ cause' = [cause EXCEPT ![w] = IF step[w] \in Running /\ @ = "none"
                                     THEN "shutdown" ELSE @]
    /\ UNCHANGED <<summary, job, nextJob, inputs, step, claim, read, result, audit>>

Down(w) ==
    /\ To(w, "down")
    /\ stopping' = [stopping EXCEPT ![w] = FALSE]

Exit(w) ==
    /\ step[w] = "idle" /\ stopping[w]
    /\ Down(w)
    /\ UNCHANGED <<summary, job, nextJob, inputs, run, faults>>

Crash(w) ==
    /\ Fault("crash")
    /\ step[w] # "down"
    /\ Down(w)
    /\ Forget(w)
    /\ UNCHANGED <<summary, job, nextJob, inputs>>

StartSummaryWorker(w) ==
    /\ step[w] = "down"
    /\ To(w, "idle")
    /\ UNCHANGED <<summary, job, nextJob, inputs, run, stopping, faults>>

-----------------------------------------------------------------------------

\* What a worker does of its own accord.
Work(w) ==
    \/ \E j \in JobId : Claim(w, j)
    \/ Prepare(w) \/ SaveSkipped(w) \/ Return(w) \/ Finish(w) \/ Save(w)
    \/ Void(w) \/ EndRun(w) \/ Fail(w) \/ Release(w)
    \/ Exit(w) \/ StartSummaryWorker(w)

Disturb(w) ==
    \/ \E j \in JobId : ClaimUnanswered(w, j)
    \/ LeaseFoundLost(w) \/ RenewalFails(w) \/ DatabaseFails(w)
    \/ Stop(w) \/ Crash(w)

Next ==
    \/ QueueAISummary \/ StageForWorkflow
    \/ \E state \in Readiness : ChangeInputs(state)
    \/ RecoverOrphans
    \/ \E j \in JobId : LeaseExpires(j)
    \/ \E w \in Workers : Work(w) \/ Disturb(w)

\* Workers keep going: provider calls and database work are bounded by
\* timeouts, processes are restarted.  Orphans are looked for every minute,
\* and clocks run, so that an unattended lease expires.
Fairness ==
    /\ \A w \in Workers : WF_vars(Work(w))
    /\ WF_vars(RecoverOrphans)
    /\ \A j \in JobId : WF_vars(Unattended(j) /\ LeaseExpires(j))

Spec == Init /\ [][Next]_vars /\ Fairness

-----------------------------------------------------------------------------
(* Properties                                                              *)

\* The summary is pending exactly while it carries a token; tokens, jobs and
\* runs name generations that were asked for; a run's lease was handed out.
GenerationsInvariant ==
    /\ TypeOK
    /\ (summary.status = "pending") <=> (summary.token # None)
    /\ summary.token # None => summary.token < nextJob
    /\ \A j \in JobId : job[j] # None => j < nextJob
    /\ \A w \in Workers :
          /\ (claim[w] = None) <=> (step[w] \in {"idle", "down"})
          /\ claim[w] # None =>
                /\ claim[w].job < nextJob
                /\ job[claim[w].job] # None =>
                      claim[w].lease <= job[claim[w].job].attempts
          /\ \A v \in Workers \ {w} :
                claim[w] # None /\ claim[v] # None => claim[w] # claim[v]

\* An answer is saved by the worker that owns the lease of the generation the
\* summary is waiting for, and was generated from the content, under the
\* rights and with the configuration that are current in that very state.
AnswersAreCurrent ==
    [][ summary.status # "succeeded" /\ summary'.status = "succeeded" =>
          /\ summary'.of = inputs.revision
          /\ inputs.state = "ready"
          /\ \E w \in Workers :
                /\ step[w] = "saving" /\ step'[w] = "ended"
                /\ Current(w) /\ Owns(w) ]_vars

\* A run changes the summary only while it waits for that run's generation: a
\* run that was superseded, or comes back after its generation ended, does not.
OnlyCurrentGenerationWrites ==
    [][ \A w \in Workers :
          step[w] # step'[w] /\ summary' # summary => Current(w) ]_vars

\* A worker that lost its lease leaves the job to the worker that took it.
LostWorkersLeaveJobs ==
    [][ \A w \in Workers :
          (step[w] \in {"retrying", "dropping"} /\ step'[w] = "idle") =>
              \A j \in JobId :
                  job'[j] # job[j] => j = claim[w].job /\ Holds(w) ]_vars

\* Every call to the provider leaves an audit row, whatever becomes of its
\* answer, unless the database fails or the process crashes.
CallsAudited ==
    \A w \in Workers :
        step[w] \in {"ended", "failing", "retrying", "dropping"} =>
            audit[w] # "due"

\* Once requests cease (MaxJobs), the summary does not stay pending forever.
GenerationsEnd == summary.status = "pending" ~> summary.status # "pending"

\* What summary_jobs.go says of leases: a worker that timed out or lost touch
\* leaves its job to be claimed by another instance.
PendingHasJob == summary.status = "pending" => job[summary.token] # None

\* What API.md says of graceful shutdown: it releases the work for a retry.
ShutdownKeepsGeneration ==
    [][ \A w \in Workers :
          (/\ stopping[w]
           /\ step[w] = "voiding" /\ step'[w] = "ended"
           /\ result[w] = "canceled") => summary' = summary ]_vars

=============================================================================
