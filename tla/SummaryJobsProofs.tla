------------------------- MODULE SummaryJobsProofs --------------------------
(***************************************************************************)
(* For any number of workers, generations, attempts and changes of the     *)
(* inputs, and whatever fails: generations, jobs and leases stay in order, *)
(* calls to the provider are audited, and a run writes only what its       *)
(* generation and its lease allow.                                         *)
(***************************************************************************)
EXTENDS SummaryJobs, TLAPS

-----------------------------------------------------------------------------
(* The invariant                                                           *)

\* GenerationsInvariant without types.
Ordered ==
    /\ (summary.status = "pending") <=> (summary.token # None)
    /\ summary.token # None => summary.token < nextJob
    /\ \A j \in JobId : job[j] # None => j < nextJob
    /\ \A w \in Workers :
          /\ (claim[w] = None) <=> (step[w] \in {"idle", "down"})
          /\ claim[w] # None =>
                /\ claim[w].job < nextJob
                /\ job[claim[w].job] # None =>
                      claim[w].lease <= job[claim[w].job].attempts
          /\ \A v \in Workers \ {w} :
                claim[w] # None /\ claim[v] # None => claim[w] # claim[v]

\* An audit row is outstanding only between a call and the end of its run.
AuditInvariant ==
    \A w \in Workers :
        audit[w] = "due" => step[w] \in {"calling", "answered", "saving", "voiding"}

JobsInvariant == TypeOK /\ Ordered /\ AuditInvariant

LEMMA Parts == GenerationsInvariant <=> (TypeOK /\ Ordered)
  BY DEF GenerationsInvariant, Ordered

\* No generation is added and no lease handed out: jobs may go, attempts may
\* be counted, the summary may end, and runs may be forgotten.
NothingNew ==
    /\ nextJob' = nextJob
    /\ \A j \in JobId :
          job'[j] # None =>
              /\ job[j] # None
              /\ job[j].attempts <= job'[j].attempts
    /\ \/ summary' = summary
       \/ summary'.token = None /\ summary'.status # "pending"
    /\ \A w \in Workers :
          /\ claim'[w] # None => claim'[w] = claim[w]
          /\ (claim'[w] = None) <=> (step'[w] \in {"idle", "down"})

LEMMA OrderKept ==
    ASSUME TypeOK, TypeOK', Ordered, NothingNew
    PROVE  Ordered'
  <1>1. /\ (summary'.status = "pending") <=> (summary'.token # None)
        /\ summary'.token # None => summary'.token < nextJob'
    BY DEF Ordered, NothingNew
  <1>2. \A j \in JobId : job'[j] # None => j < nextJob'
    BY DEF Ordered, NothingNew
  <1>3. ASSUME NEW w \in Workers, claim'[w] # None
        PROVE  /\ claim'[w] = claim[w] /\ claim[w] # None
               /\ claim'[w].job < nextJob'
               /\ job'[claim'[w].job] # None =>
                     claim'[w].lease <= job'[claim'[w].job].attempts
    <2>1. claim'[w] = claim[w] /\ claim[w] # None /\ nextJob' = nextJob
      BY <1>3 DEF NothingNew
    <2> DEFINE j == claim[w].job
    <2>2. j \in JobId /\ claim[w].lease \in Nat
      BY <2>1 DEF TypeOK, Lease
    <2>3. job'[j] # None =>
            /\ job[j] # None /\ job[j].attempts <= job'[j].attempts
            /\ job[j].attempts \in Nat /\ job'[j].attempts \in Nat
      BY <2>2 DEF NothingNew, TypeOK, JobRow
    <2>4. /\ claim[w].job < nextJob
          /\ job[j] # None => claim[w].lease <= job[j].attempts
      BY <2>1 DEF Ordered
    <2> QED BY <2>1, <2>2, <2>3, <2>4
  <1>4. \A w \in Workers : (claim'[w] = None) <=> (step'[w] \in {"idle", "down"})
    BY DEF NothingNew
  <1>5. \A w \in Workers : \A v \in Workers \ {w} :
          claim'[w] # None /\ claim'[v] # None => claim'[w] # claim'[v]
    BY <1>3 DEF Ordered
  <1> QED BY <1>1, <1>2, <1>3, <1>4, <1>5 DEF Ordered

\* Steps that leave jobs and runs, apart from where worker w is.
LEMMA FinishedTyped ==
    ASSUME NEW status \in {"succeeded", "failed", "skipped"}, NEW of \in Nat,
           Finished(status, of)
    PROVE  /\ summary' \in SummaryRow /\ summary'.token = None
           /\ summary'.status # "pending"
  BY DEF Finished, SummaryRow

-----------------------------------------------------------------------------
(* Requests, inputs and orphans                                            *)

LEMMA NewGenerationPreserves ==
    ASSUME JobsInvariant, NEW state, NewGeneration(state),
           inputs' \in [revision : Nat, state : Readiness]
    PROVE  JobsInvariant'
  <1> USE DEF JobsInvariant
  <1>1. /\ nextJob \in JobId /\ nextJob' = nextJob + 1 /\ nextJob \in Nat
        /\ UNCHANGED <<step, claim, read, cause, result, audit, stopping, faults>>
    BY MaxJobsAssumption DEF NewGeneration, TypeOK, JobId, run
  <1>2. CASE state = "unprovided"
    <2>1. /\ summary' = [status |-> "skipped", token |-> None, of |-> 0]
          /\ job' = job
      BY <1>2 DEF NewGeneration
    <2>2. TypeOK'
      BY <1>1, <2>1, MaxJobsAssumption DEF TypeOK, SummaryRow, JobId
    <2>3. Ordered'
      BY <1>1, <2>1 DEF Ordered, TypeOK, JobId, Lease
    <2> QED BY <1>1, <2>2, <2>3 DEF AuditInvariant
  <1>3. CASE state # "unprovided"
    <2> DEFINE row == [held |-> FALSE, live |-> FALSE, attempts |-> 0]
    <2>1. /\ summary' = [status |-> "pending", token |-> nextJob, of |-> 0]
          /\ job' = [job EXCEPT ![nextJob] = row]
      BY <1>3 DEF NewGeneration
    <2>2. row \in JobRow /\ row # None
      <3>1. row \in JobRow
        BY DEF JobRow
      <3> QED BY <3>1, NoneAssumption
    <2>3. TypeOK'
      BY <1>1, <2>1, <2>2, MaxJobsAssumption DEF TypeOK, SummaryRow, JobId
    <2>4. \A j \in JobId : j # nextJob => job'[j] = job[j]
      BY <2>1 DEF TypeOK
    <2>5. \A w \in Workers : claim[w] # None => claim[w].job # nextJob /\ claim[w].job \in JobId
      BY <1>1 DEF Ordered, TypeOK, JobId, Lease
    <2>6. /\ summary'.token = nextJob /\ summary'.status = "pending"
          /\ nextJob # None
      BY <1>1, <2>1, NoneAssumption
    <2>7. \A j \in JobId : job'[j] # None => j < nextJob'
      BY <1>1, <2>4 DEF Ordered, JobId
    <2>8. ASSUME NEW w \in Workers, claim'[w] # None
          PROVE  /\ claim'[w].job < nextJob'
                 /\ job'[claim'[w].job] # None =>
                       claim'[w].lease <= job'[claim'[w].job].attempts
      <3>1. claim'[w] = claim[w] /\ claim[w].job < nextJob /\ claim[w].job \in Nat
        BY <1>1, <2>5, <2>8 DEF Ordered, JobId
      <3>2. job'[claim[w].job] = job[claim[w].job]
        BY <1>1, <2>4, <2>5, <2>8
      <3> QED BY <1>1, <2>8, <3>1, <3>2 DEF Ordered
    <2>9. Ordered'
      BY <1>1, <2>6, <2>7, <2>8 DEF Ordered
    <2> QED BY <1>1, <2>3, <2>9 DEF AuditInvariant
  <1> QED BY <1>2, <1>3

LEMMA RequestsPreserve ==
    ASSUME JobsInvariant, QueueAISummary \/ StageForWorkflow
    PROVE  JobsInvariant'
  <1>1. CASE QueueAISummary
    BY <1>1, NewGenerationPreserves DEF QueueAISummary, JobsInvariant, TypeOK
  <1>2. CASE StageForWorkflow
    <2>1. inputs' \in [revision : Nat, state : Readiness]
      <3>1. inputs' = [inputs EXCEPT !.revision = @ + 1]
        BY <1>2 DEF StageForWorkflow
      <3> QED BY <3>1 DEF JobsInvariant, TypeOK
    <2> QED BY <1>2, <2>1, NewGenerationPreserves DEF StageForWorkflow
  <1> QED BY <1>1, <1>2

LEMMA ChangeInputsPreserves ==
    ASSUME JobsInvariant, NEW state \in Readiness, ChangeInputs(state)
    PROVE  JobsInvariant'
  <1>1. /\ inputs' \in [revision : Nat, state : Readiness]
        /\ UNCHANGED <<summary, job, nextJob, step, claim, read, cause, result,
                       audit, stopping, faults>>
    BY DEF ChangeInputs, JobsInvariant, TypeOK, run
  <1> QED BY <1>1 DEF JobsInvariant, TypeOK, Ordered, AuditInvariant

LEMMA RecoverOrphansPreserves ==
    ASSUME JobsInvariant, RecoverOrphans
    PROVE  JobsInvariant'
  <1>1. /\ summary' = [status |-> "failed", token |-> None, of |-> 0]
        /\ UNCHANGED <<job, nextJob, inputs, step, claim, read, cause, result,
                       audit, stopping, faults>>
    BY DEF RecoverOrphans, run
  <1> QED BY <1>1 DEF JobsInvariant, TypeOK, SummaryRow, Ordered, AuditInvariant

-----------------------------------------------------------------------------
(* Leases                                                                  *)

\* Counting an attempt of a job.
LEMMA ClaimedEffect ==
    ASSUME TypeOK, NEW j \in JobId, Claimable(j), Claimed(j)
    PROVE  /\ job' \in [JobId -> JobRow \cup {None}]
           /\ job[j] # None /\ job[j].attempts \in Nat
           /\ job'[j] # None /\ job'[j].attempts = job[j].attempts + 1
           /\ \A i \in JobId : i # j => job'[i] = job[i]
  <1> DEFINE row == [held |-> TRUE, live |-> TRUE,
                     attempts |-> job[j].attempts + 1]
  <1>1. job[j] \in JobRow /\ job[j] # None /\ job[j].attempts \in Nat
    BY DEF Claimable, TypeOK, JobRow
  <1>2. job' = [job EXCEPT ![j] = row]
    BY DEF Claimed
  <1>3. row \in JobRow /\ row # None /\ row.attempts = job[j].attempts + 1
    <2>1. row \in JobRow
      BY <1>1 DEF JobRow
    <2> QED BY <2>1, NoneAssumption
  <1> HIDE DEF row
  <1> QED BY <1>1, <1>2, <1>3 DEF TypeOK

LEMMA ClaimPreserves ==
    ASSUME JobsInvariant, NEW w \in Workers, NEW j \in JobId, Claim(w, j)
    PROVE  JobsInvariant'
  <1> USE DEF JobsInvariant
  <1> DEFINE lease == job[j].attempts + 1
  <1>1. /\ job' \in [JobId -> JobRow \cup {None}]
        /\ job[j] # None /\ job[j].attempts \in Nat /\ lease \in Nat
        /\ job'[j] # None /\ job'[j].attempts = lease
        /\ \A i \in JobId : i # j => job'[i] = job[i]
    BY ClaimedEffect DEF Claim
  <1>2. /\ step[w] = "idle" /\ step' = [step EXCEPT ![w] = "claimed"]
        /\ claim' = [claim EXCEPT ![w] = [job |-> j, lease |-> lease]]
        /\ UNCHANGED <<summary, nextJob, inputs, read, cause, result, audit,
                       stopping, faults>>
    BY DEF Claim
  <1> HIDE DEF lease
  <1>3. [job |-> j, lease |-> lease] \in Lease
    BY <1>1 DEF Lease
  <1>4. TypeOK'
    BY <1>1, <1>2, <1>3 DEF TypeOK, Step, Running
  <1>5. /\ claim'[w] = [job |-> j, lease |-> lease] /\ claim'[w] # None
        /\ step'[w] = "claimed" /\ claim[w] = None
        /\ \A v \in Workers \ {w} : claim'[v] = claim[v] /\ step'[v] = step[v]
    BY <1>2, <1>3, NoneAssumption DEF TypeOK, Ordered
  <1>6. Ordered'
    <2>1. ASSUME NEW v \in Workers \ {w}, claim[v] # None
          PROVE  /\ claim[v] # claim'[w]
                 /\ claim[v].job < nextJob
                 /\ job'[claim[v].job] # None =>
                       claim[v].lease <= job'[claim[v].job].attempts
      <3>1. /\ claim[v].job \in JobId /\ claim[v].lease \in Nat
            /\ claim[v].job < nextJob
            /\ job[claim[v].job] # None =>
                  claim[v].lease <= job[claim[v].job].attempts
        BY <2>1 DEF TypeOK, Lease, Ordered
      <3>2. CASE claim[v].job = j
        <4>1. claim[v].lease <= job[j].attempts
          BY <1>1, <3>1, <3>2
        <4>2. claim[v].lease < lease
          BY <1>1, <3>1, <4>1 DEF lease
        <4> QED BY <1>1, <1>5, <3>1, <3>2, <4>2
      <3>3. CASE claim[v].job # j
        BY <1>1, <1>5, <3>1, <3>3
      <3> QED BY <3>2, <3>3
    <2>2. /\ claim'[w].job < nextJob'
          /\ claim'[w].lease <= job'[claim'[w].job].attempts
      BY <1>1, <1>2, <1>5 DEF Ordered
    <2>3. \A i \in JobId : job'[i] # None => i < nextJob'
      BY <1>1, <1>2 DEF Ordered
    <2> QED BY <1>2, <1>5, <2>1, <2>2, <2>3 DEF Ordered
  <1>7. AuditInvariant'
    BY <1>2, <1>5 DEF AuditInvariant
  <1> QED BY <1>4, <1>6, <1>7

\* Attempts are counted, leases run out, and nobody is handed anything.
LEMMA ClaimUnansweredPreserves ==
    ASSUME JobsInvariant, NEW w \in Workers, NEW j \in JobId,
           ClaimUnanswered(w, j)
    PROVE  JobsInvariant'
  <1> USE DEF JobsInvariant
  <1>1. /\ job' \in [JobId -> JobRow \cup {None}]
        /\ job[j] # None /\ job[j].attempts \in Nat
        /\ job'[j].attempts = job[j].attempts + 1
        /\ \A i \in JobId : i # j => job'[i] = job[i]
    BY ClaimedEffect DEF ClaimUnanswered
  <1>2. UNCHANGED <<summary, nextJob, inputs, step, claim, read, cause, result,
                    audit, stopping>> /\ faults' = faults + 1
    BY DEF ClaimUnanswered, Fault, run
  <1>3. TypeOK'
    BY <1>1, <1>2 DEF TypeOK
  <1>4. \A i \in JobId : job'[i] # None =>
          job[i] # None /\ job[i].attempts <= job'[i].attempts
    <2>1. \A i \in JobId : job[i] # None => job[i].attempts \in Nat
      BY DEF TypeOK, JobRow
    <2> QED BY <1>1, <2>1
  <1>5. NothingNew
    BY <1>2, <1>4 DEF NothingNew, Ordered
  <1>6. AuditInvariant'
    BY <1>2 DEF AuditInvariant
  <1> QED BY <1>3, <1>5, <1>6, OrderKept

LEMMA LeaseExpiresPreserves ==
    ASSUME JobsInvariant, NEW j \in JobId, LeaseExpires(j)
    PROVE  JobsInvariant'
  <1> USE DEF JobsInvariant
  <1> DEFINE row == [job[j] EXCEPT !.live = FALSE]
  <1>1. job[j] \in JobRow /\ job[j] # None
    BY DEF LeaseExpires, TypeOK
  <1>2. row \in JobRow /\ row.attempts = job[j].attempts
    BY <1>1 DEF JobRow
  <1>3. job' = [job EXCEPT ![j] = row]
    BY DEF LeaseExpires
  <1>4. /\ UNCHANGED <<summary, nextJob, inputs, step, claim, read, cause, result,
                       audit, stopping>>
        /\ faults' = faults \/ faults' = faults + 1
    BY DEF LeaseExpires, Fault, run
  <1> HIDE DEF row
  <1>5. TypeOK'
    BY <1>2, <1>3, <1>4 DEF TypeOK
  <1>6. \A i \in JobId : job'[i] # None =>
          job[i] # None /\ job[i].attempts <= job'[i].attempts
    <2>1. \A i \in JobId : job[i] # None => job[i].attempts \in Nat
      BY DEF TypeOK, JobRow
    <2> QED BY <1>1, <1>2, <1>3, <2>1 DEF TypeOK
  <1>7. NothingNew
    BY <1>4, <1>6 DEF NothingNew, Ordered
  <1>8. AuditInvariant'
    BY <1>4 DEF AuditInvariant
  <1> QED BY <1>5, <1>7, <1>8, OrderKept

LEMMA CancelPreserves ==
    ASSUME JobsInvariant, NEW w \in Workers, NEW why \in {"lease", "renewal"},
           Cancel(w, why), faults' = faults \/ faults' = faults + 1
    PROVE  JobsInvariant'
  <1> USE DEF JobsInvariant
  <1>1. /\ cause' = [cause EXCEPT ![w] = why]
        /\ UNCHANGED <<summary, job, nextJob, inputs, step, claim, read, result,
                       audit, stopping>>
    BY DEF Cancel
  <1>2. TypeOK'
    BY <1>1 DEF TypeOK
  <1> QED BY <1>1, <1>2 DEF Ordered, AuditInvariant

-----------------------------------------------------------------------------
(* Runs                                                                    *)

Outcome == {"none", "answer", "error", "done", "stale", "denied", "lease",
            "transient", "canceled"}

\* A run goes on: its worker moves, its own variables may change, and the
\* summary may end.
RunStep(w) ==
    /\ step[w] \notin {"idle", "down"}
    /\ \E next \in Step \ {"idle", "down"} :
          /\ step' = [step EXCEPT ![w] = next]
          /\ audit'[w] = "due" =>
                next \in {"calling", "answered", "saving", "voiding"}
    /\ \A v \in Workers \ {w} : audit'[v] = audit[v]
    /\ UNCHANGED <<job, nextJob, inputs, claim, cause, stopping>>
    /\ summary' \in SummaryRow
    /\ \/ summary' = summary
       \/ summary'.token = None /\ summary'.status # "pending"
    /\ read' \in [Workers -> Nat]
    /\ result' \in [Workers -> Outcome]
    /\ audit' \in [Workers -> {"none", "due", "kept", "lost"}]
    /\ faults' \in Nat

LEMMA RunStepPreserves ==
    ASSUME JobsInvariant, NEW w \in Workers, RunStep(w)
    PROVE  JobsInvariant'
  <1> USE DEF JobsInvariant
  <1>1. PICK next \in Step \ {"idle", "down"} :
          /\ step' = [step EXCEPT ![w] = next]
          /\ audit'[w] = "due" =>
                next \in {"calling", "answered", "saving", "voiding"}
    BY DEF RunStep
  <1>2. /\ step' \in [Workers -> Step] /\ step'[w] = next
        /\ \A v \in Workers \ {w} : step'[v] = step[v]
    BY <1>1 DEF TypeOK
  <1>3. TypeOK'
    BY <1>2 DEF RunStep, TypeOK, Outcome
  <1>4. NothingNew
    <2>1. \A v \in Workers : (claim'[v] = None) <=> (step'[v] \in {"idle", "down"})
      BY <1>2 DEF RunStep, Ordered
    <2>2. \A j \in JobId : job'[j] # None =>
            job[j] # None /\ job[j].attempts <= job'[j].attempts
      BY DEF RunStep, TypeOK, Outcome, JobRow
    <2> QED BY <2>1, <2>2 DEF RunStep, NothingNew
  <1>5. AuditInvariant'
    BY <1>1, <1>2 DEF RunStep, AuditInvariant
  <1> QED BY <1>3, <1>4, <1>5, OrderKept

LEMMA EndEffect ==
    ASSUME TypeOK, NEW w \in Workers, NEW outcome \in Outcome, End(w, outcome)
    PROVE  /\ step' = [step EXCEPT ![w] = "ended"]
           /\ result' \in [Workers -> Outcome]
  BY DEF End, To, TypeOK, Outcome

LEMMA EndCommittedEffect ==
    ASSUME TypeOK, NEW w \in Workers, NEW outcome \in Outcome, EndCommitted(w, outcome)
    PROVE  /\ step' = [step EXCEPT ![w] = "ended"]
           /\ result' \in [Workers -> Outcome]
           /\ faults' \in Nat
  BY EndEffect DEF EndCommitted, Fault, TypeOK, Outcome

LEMMA AuditedEffect ==
    ASSUME TypeOK, NEW w \in Workers, Audited(w)
    PROVE  /\ audit' \in [Workers -> {"none", "due", "kept", "lost"}]
           /\ audit'[w] # "due"
           /\ \A v \in Workers \ {w} : audit'[v] = audit[v]
  BY DEF Audited, TypeOK

LEMMA AuditDiscardedEffect ==
    ASSUME TypeOK, NEW w \in Workers, AuditDiscarded(w)
    PROVE  /\ audit' \in [Workers -> {"none", "due", "kept", "lost"}]
           /\ audit'[w] # "due"
           /\ \A v \in Workers \ {w} : audit'[v] = audit[v]
           /\ faults' \in Nat
  BY AuditedEffect DEF AuditDiscarded, Fault, TypeOK

\* Steps of a run are what Step lists, and none of them is idle or down.
LEMMA RunSteps ==
    /\ {"calling", "skipping", "answered", "saving", "voiding", "ended",
        "failing", "retrying", "dropping", "claimed"} \subseteq Step \ {"idle", "down"}
    /\ Running \subseteq Step \ {"idle", "down"}
  BY DEF Step, Running

LEMMA PrepareSteps ==
    ASSUME JobsInvariant, NEW w \in Workers, Prepare(w)
    PROVE  RunStep(w)
  <1> USE DEF JobsInvariant
  <1>1. /\ step[w] = "claimed" /\ audit[w] # "due"
        /\ UNCHANGED <<summary, job, nextJob, inputs, claim, cause, stopping, faults>>
    BY DEF Prepare, AuditInvariant
  <1>2. CASE cause[w] # "none" \/ ~Current(w) \/ inputs.state = "denied"
    <2>1. PICK outcome \in {"canceled", "stale", "denied"} :
            End(w, outcome) /\ UNCHANGED <<read, audit>>
      BY <1>2 DEF Prepare
    <2> QED BY <1>1, <2>1, EndEffect, RunSteps DEF RunStep, TypeOK, Outcome
  <1>3. CASE ~(cause[w] # "none" \/ ~Current(w) \/ inputs.state = "denied")
    <2>1. /\ read' = [read EXCEPT ![w] = inputs.revision] /\ result' = result
          /\ \/ To(w, "calling") /\ audit' = [audit EXCEPT ![w] = "due"]
             \/ To(w, "skipping") /\ audit' = audit
      BY <1>3 DEF Prepare
    <2>2. read' \in [Workers -> Nat]
      BY <2>1 DEF TypeOK
    <2> QED BY <1>1, <2>1, <2>2, RunSteps DEF RunStep, To, TypeOK, Outcome
  <1> QED BY <1>2, <1>3

LEMMA SaveSkippedSteps ==
    ASSUME JobsInvariant, NEW w \in Workers, SaveSkipped(w)
    PROVE  RunStep(w)
  <1> USE DEF JobsInvariant
  <1>1. /\ step[w] = "skipping" /\ audit[w] # "due"
        /\ UNCHANGED <<job, nextJob, inputs, claim, read, cause, audit, stopping>>
    BY DEF SaveSkipped, AuditInvariant
  <1>2. CASE Finished("skipped", 0) /\ EndCommitted(w, "done")
    BY <1>1, <1>2, EndCommittedEffect, FinishedTyped, RunSteps
       DEF RunStep, TypeOK, Outcome
  <1>3. ASSUME NEW outcome \in {"canceled", "lease", "denied", "stale"},
               End(w, outcome), UNCHANGED <<summary, faults>>
        PROVE  RunStep(w)
    BY <1>1, <1>3, EndEffect, RunSteps DEF RunStep, TypeOK, Outcome
  <1> QED BY <1>2, <1>3 DEF SaveSkipped

LEMMA ReturnSteps ==
    ASSUME JobsInvariant, NEW w \in Workers, Return(w)
    PROVE  RunStep(w)
  <1> USE DEF JobsInvariant
  <1>1. /\ step[w] = "calling"
        /\ UNCHANGED <<summary, job, nextJob, inputs, claim, read, cause, stopping>>
    BY DEF Return
  <1>2. CASE cause[w] = "none"
    <2>1. /\ To(w, "answered") /\ UNCHANGED <<audit, faults>>
          /\ \E r \in {"answer", "error"} : result' = [result EXCEPT ![w] = r]
      BY <1>2 DEF Return
    <2> QED BY <1>1, <2>1, RunSteps, ZenonT(30) DEF RunStep, To, TypeOK, Outcome
  <1>3. CASE cause[w] # "none"
    <2>1. PICK outcome \in {"lease", "transient", "canceled"} :
            End(w, outcome) /\ AuditDiscarded(w)
      BY <1>3 DEF Return
    <2> QED BY <1>1, <2>1, EndEffect, AuditDiscardedEffect, RunSteps
            DEF RunStep, TypeOK, Outcome
  <1> QED BY <1>2, <1>3

LEMMA FinishSteps ==
    ASSUME JobsInvariant, NEW w \in Workers, Finish(w)
    PROVE  RunStep(w)
  <1> USE DEF JobsInvariant
  <1>1. /\ step[w] = "answered"
        /\ UNCHANGED <<summary, job, nextJob, inputs, claim, read, cause, stopping,
                       faults>>
    BY DEF Finish
  <1>2. \/ /\ To(w, "voiding") /\ UNCHANGED audit
           /\ \E r \in {"canceled", "stale"} : result' = [result EXCEPT ![w] = r]
        \/ End(w, "stale") /\ Audited(w)
        \/ To(w, "saving") /\ UNCHANGED <<result, audit>>
    BY DEF Finish
  <1>3. CASE End(w, "stale") /\ Audited(w)
    BY <1>1, <1>3, EndEffect, AuditedEffect, RunSteps DEF RunStep, TypeOK, Outcome
  <1> QED BY <1>1, <1>2, <1>3, RunSteps DEF RunStep, To, TypeOK, Outcome

LEMMA SaveSteps ==
    ASSUME JobsInvariant, NEW w \in Workers, Save(w)
    PROVE  RunStep(w)
  <1> USE DEF JobsInvariant
  <1>1. /\ step[w] = "saving" /\ read[w] \in Nat
        /\ UNCHANGED <<job, nextJob, inputs, claim, read, cause, stopping>>
    BY DEF Save, TypeOK
  <1>2. CASE Saved(w) /\ EndCommitted(w, "done") /\ Audited(w)
    <2>1. /\ summary' \in SummaryRow /\ summary'.token = None
          /\ summary'.status # "pending"
      BY <1>1, <1>2, FinishedTyped DEF Saved
    <2> QED BY <1>1, <1>2, <2>1, EndCommittedEffect, AuditedEffect, RunSteps
            DEF RunStep, TypeOK, Outcome
  <1>3. CASE End(w, "lease") /\ AuditDiscarded(w) /\ UNCHANGED summary
    BY <1>1, <1>3, EndEffect, AuditDiscardedEffect, RunSteps DEF RunStep, TypeOK, Outcome
  <1>4. CASE /\ To(w, "voiding") /\ UNCHANGED <<summary, audit, faults>>
             /\ \E r \in {"stale", "canceled"} : result' = [result EXCEPT ![w] = r]
    BY <1>1, <1>4, RunSteps, ZenonT(30) DEF RunStep, To, TypeOK, Outcome
  <1> QED BY <1>2, <1>3, <1>4 DEF Save

LEMMA VoidSteps ==
    ASSUME JobsInvariant, NEW w \in Workers, Void(w)
    PROVE  RunStep(w)
  <1> USE DEF JobsInvariant
  <1>1. /\ step[w] = "voiding" /\ EndCommitted(w, result[w]) /\ Audited(w)
        /\ UNCHANGED <<job, nextJob, inputs, claim, read, cause, stopping>>
    BY DEF Void
  <1>2. result[w] \in Outcome
    BY DEF TypeOK, Outcome
  <1>3. /\ summary' \in SummaryRow
        /\ \/ summary' = summary
           \/ summary'.token = None /\ summary'.status # "pending"
    BY FinishedTyped DEF Void, TypeOK
  <1> QED BY <1>1, <1>2, <1>3, EndCommittedEffect, AuditedEffect, RunSteps
          DEF RunStep, TypeOK

LEMMA EndRunSteps ==
    ASSUME JobsInvariant, NEW w \in Workers, EndRun(w)
    PROVE  RunStep(w)
  <1> USE DEF JobsInvariant
  <1>1. /\ step[w] = "ended" /\ audit[w] # "due"
        /\ UNCHANGED <<summary, job, nextJob, inputs, claim, read, cause, result,
                       audit, stopping, faults>>
    BY DEF EndRun, AuditInvariant, run
  <1>2. \E next \in {"retrying", "dropping", "failing"} : To(w, next)
    BY DEF EndRun
  <1> QED BY <1>1, <1>2, RunSteps DEF RunStep, To, TypeOK, Outcome

LEMMA FailSteps ==
    ASSUME JobsInvariant, NEW w \in Workers, Fail(w)
    PROVE  RunStep(w)
  <1> USE DEF JobsInvariant
  <1>1. /\ step[w] = "failing" /\ audit[w] # "due"
        /\ UNCHANGED <<job, nextJob, inputs, claim, read, cause, result, audit,
                       stopping>>
    BY DEF Fail, AuditInvariant, run
  <1>2. /\ summary' \in SummaryRow
        /\ \/ summary' = summary
           \/ summary'.token = None /\ summary'.status # "pending"
    BY FinishedTyped DEF Fail, TypeOK
  <1>3. /\ \E next \in {"retrying", "dropping"} : To(w, next)
        /\ faults' \in Nat
    BY DEF Fail, Fault, TypeOK
  <1> QED BY <1>1, <1>2, <1>3, RunSteps DEF RunStep, To, TypeOK, Outcome

\* A worker that forgets its run is idle or down.
LEMMA ForgetPreserves ==
    ASSUME JobsInvariant, NEW w \in Workers, NEW next \in {"idle", "down"},
           To(w, next), Forget(w), UNCHANGED <<summary, nextJob, inputs>>,
           job' \in [JobId -> JobRow \cup {None}],
           \A j \in JobId : job'[j] # None =>
               job[j] # None /\ job[j].attempts <= job'[j].attempts,
           stopping' \in [Workers -> BOOLEAN], faults' \in Nat
    PROVE  JobsInvariant'
  <1> USE DEF JobsInvariant
  <1>1. /\ step' = [step EXCEPT ![w] = next] /\ next \in Step
        /\ claim' = [claim EXCEPT ![w] = None]
        /\ audit' = [audit EXCEPT ![w] = "none"]
    BY DEF To, Forget, Step
  <1>2. /\ step'[w] = next /\ claim'[w] = None /\ audit'[w] = "none"
        /\ \A v \in Workers \ {w} :
              /\ step'[v] = step[v] /\ claim'[v] = claim[v]
              /\ audit'[v] = audit[v]
    BY <1>1 DEF TypeOK
  <1>3. TypeOK'
    BY <1>1 DEF TypeOK, Forget
  <1>4. NothingNew
    BY <1>2 DEF NothingNew, Ordered
  <1>5. AuditInvariant'
    BY <1>2 DEF AuditInvariant
  <1> QED BY <1>3, <1>4, <1>5, OrderKept

LEMMA AttemptsStay ==
    ASSUME TypeOK, NEW j \in JobId, job[j] # None
    PROVE  job[j] \in JobRow /\ job[j].attempts <= job[j].attempts
  BY DEF TypeOK, JobRow

LEMMA ReleasePreserves ==
    ASSUME JobsInvariant, NEW w \in Workers, Release(w)
    PROVE  JobsInvariant'
  <1> USE DEF JobsInvariant
  <1> DEFINE i == claim[w].job
             freed == [job[i] EXCEPT !.held = FALSE, !.live = FALSE]
  <1>1. /\ step[w] \in {"retrying", "dropping"} /\ claim[w] # None
        /\ i \in JobId
    BY DEF Release, Ordered, TypeOK, Lease
  <1>2. /\ To(w, "idle") /\ Forget(w)
        /\ UNCHANGED <<summary, nextJob, inputs, stopping, faults>>
    BY DEF Release
  <1>3. CASE ~Holds(w)
    <2>1. job' = job
      BY <1>3 DEF Release
    <2> QED BY <1>2, <2>1, AttemptsStay, ForgetPreserves DEF TypeOK
  <1>4. CASE Holds(w)
    <2>1. job[i] # None /\ job[i] \in JobRow
      BY <1>1, <1>4, AttemptsStay DEF Holds
    <2>2. freed \in JobRow /\ freed.attempts = job[i].attempts
      BY <2>1 DEF JobRow
    <2>3. job' = [job EXCEPT ![i] = None] \/ job' = [job EXCEPT ![i] = freed]
      BY <1>4 DEF Release
    <2> HIDE DEF freed, i
    <2>4. job' \in [JobId -> JobRow \cup {None}]
      BY <1>1, <2>2, <2>3 DEF TypeOK
    <2>5. \A j \in JobId : job'[j] # None =>
            job[j] # None /\ job[j].attempts <= job'[j].attempts
      <3>1. ASSUME NEW j \in JobId, job'[j] # None
            PROVE  job[j] # None /\ job[j].attempts <= job'[j].attempts
        <4>1. CASE j = i
          BY <1>1, <2>1, <2>2, <2>3, <3>1, <4>1, AttemptsStay DEF TypeOK
        <4>2. CASE j # i
          <5>1. job'[j] = job[j]
            BY <1>1, <2>3, <4>2 DEF TypeOK
          <5> QED BY <3>1, <5>1, AttemptsStay
        <4> QED BY <4>1, <4>2
      <3> QED BY <3>1
    <2> QED BY <1>2, <2>4, <2>5, ForgetPreserves DEF TypeOK
  <1> QED BY <1>3, <1>4

LEMMA DatabaseFailsPreserves ==
    ASSUME JobsInvariant, NEW w \in Workers, DatabaseFails(w)
    PROVE  JobsInvariant'
  <1> USE DEF JobsInvariant
  <1>1. /\ UNCHANGED <<summary, job, nextJob, inputs, stopping>>
        /\ faults' \in Nat
    BY DEF DatabaseFails, Fault, TypeOK
  <1>2. CASE /\ step[w] \in Running \ {"calling"}
             /\ End(w, "transient")
             /\ audit' = [audit EXCEPT ![w] = IF @ = "due" THEN "lost" ELSE @]
             /\ UNCHANGED <<claim, read, cause>>
    <2>1. /\ audit' \in [Workers -> {"none", "due", "kept", "lost"}]
          /\ audit'[w] # "due"
          /\ \A v \in Workers \ {w} : audit'[v] = audit[v]
      BY <1>2 DEF TypeOK
    <2>2. step[w] \notin {"idle", "down"}
      BY <1>2, RunSteps
    <2>3. RunStep(w)
      BY <1>1, <1>2, <2>1, <2>2, EndEffect, RunSteps DEF RunStep, TypeOK, Outcome
    <2> QED BY <2>3, RunStepPreserves
  <1>3. CASE step[w] = "failing" /\ To(w, "retrying") /\ UNCHANGED run
    <2>1. RunStep(w)
      BY <1>1, <1>3, RunSteps DEF RunStep, To, run, TypeOK, Outcome, AuditInvariant
    <2> QED BY <2>1, RunStepPreserves
  <1>4. CASE /\ step[w] \in {"retrying", "dropping"}
             /\ To(w, "idle") /\ Forget(w)
    BY <1>1, <1>4, AttemptsStay, ForgetPreserves DEF TypeOK
  <1> QED BY <1>2, <1>3, <1>4 DEF DatabaseFails

-----------------------------------------------------------------------------
(* Processes                                                               *)

LEMMA StopPreserves ==
    ASSUME JobsInvariant, NEW w \in Workers, Stop(w)
    PROVE  JobsInvariant'
  <1> USE DEF JobsInvariant
  <1>1. /\ stopping' \in [Workers -> BOOLEAN]
        /\ cause' \in [Workers -> {"none", "lease", "renewal", "shutdown"}]
        /\ faults' \in Nat
        /\ UNCHANGED <<summary, job, nextJob, inputs, step, claim, read, result,
                       audit>>
    BY DEF Stop, Fault, TypeOK
  <1> QED BY <1>1 DEF TypeOK, Ordered, AuditInvariant

LEMMA CrashPreserves ==
    ASSUME JobsInvariant, NEW w \in Workers, Crash(w)
    PROVE  JobsInvariant'
  <1>1. /\ To(w, "down") /\ Forget(w)
        /\ UNCHANGED <<summary, job, nextJob, inputs>>
        /\ stopping' \in [Workers -> BOOLEAN] /\ faults' \in Nat
    BY DEF Crash, Down, Fault, JobsInvariant, TypeOK
  <1> QED BY <1>1, AttemptsStay, ForgetPreserves DEF JobsInvariant, TypeOK

\* A process that exits or starts has no run.
LEMMA IdlePreserves ==
    ASSUME JobsInvariant, NEW w \in Workers, Exit(w) \/ StartSummaryWorker(w)
    PROVE  JobsInvariant'
  <1> USE DEF JobsInvariant
  <1>1. PICK next \in {"idle", "down"} :
          /\ step[w] \in {"idle", "down"}
          /\ step' = [step EXCEPT ![w] = next]
          /\ stopping' \in [Workers -> BOOLEAN]
          /\ UNCHANGED <<summary, job, nextJob, inputs, claim, read, cause, result,
                         audit, faults>>
    BY DEF Exit, StartSummaryWorker, Down, To, run, TypeOK
  <1>2. /\ next \in Step /\ step'[w] = next
        /\ \A v \in Workers \ {w} : step'[v] = step[v]
    BY <1>1 DEF Step, TypeOK
  <1>3. TypeOK'
    BY <1>1, <1>2 DEF TypeOK
  <1>4. Ordered' /\ AuditInvariant'
    BY <1>1, <1>2 DEF Ordered, AuditInvariant
  <1> QED BY <1>3, <1>4

LEMMA WorkPreserves ==
    ASSUME JobsInvariant, NEW w \in Workers, Work(w)
    PROVE  JobsInvariant'
  <1>1. CASE \/ Prepare(w) \/ SaveSkipped(w) \/ Return(w) \/ Finish(w) \/ Save(w)
             \/ Void(w) \/ EndRun(w) \/ Fail(w)
    BY <1>1, RunStepPreserves, PrepareSteps, SaveSkippedSteps, ReturnSteps,
       FinishSteps, SaveSteps, VoidSteps, EndRunSteps, FailSteps
  <1> QED BY <1>1, ClaimPreserves, ReleasePreserves, IdlePreserves DEF Work

LEMMA DisturbPreserves ==
    ASSUME JobsInvariant, NEW w \in Workers, Disturb(w)
    PROVE  JobsInvariant'
  <1>1. CASE LeaseFoundLost(w) \/ RenewalFails(w)
    BY <1>1, CancelPreserves DEF LeaseFoundLost, RenewalFails, Fault
  <1> QED BY <1>1, ClaimUnansweredPreserves, DatabaseFailsPreserves, StopPreserves,
             CrashPreserves DEF Disturb

LEMMA NextPreserves ==
    ASSUME JobsInvariant, [Next]_vars
    PROVE  JobsInvariant'
  <1>1. CASE UNCHANGED vars
    BY <1>1 DEF vars, JobsInvariant, TypeOK, Ordered, AuditInvariant
  <1> QED BY <1>1, RequestsPreserve, ChangeInputsPreserves, RecoverOrphansPreserves,
             LeaseExpiresPreserves, WorkPreserves, DisturbPreserves DEF Next

LEMMA JobsInvariantHolds == Spec => []JobsInvariant
  <1>1. Init => JobsInvariant
    <2>1. ASSUME Init
          PROVE  TypeOK
      BY <2>1, MaxJobsAssumption DEF Init, TypeOK, SummaryRow, Step, JobId
    <2>2. ASSUME Init
          PROVE  Ordered /\ AuditInvariant
      BY <2>2 DEF Init, Ordered, AuditInvariant
    <2> QED BY <2>1, <2>2 DEF JobsInvariant
  <1>2. JobsInvariant /\ [Next]_vars => JobsInvariant'
    BY NextPreserves
  <1> QED BY <1>1, <1>2, PTL DEF Spec

-----------------------------------------------------------------------------
(* The theorems                                                            *)

\* A summary is pending exactly while it has a token, tokens, jobs and runs
\* name generations that were asked for, and no two runs have one lease.
THEOREM GenerationsInOrder == Spec => []GenerationsInvariant
  <1>1. JobsInvariant => GenerationsInvariant
    BY Parts DEF JobsInvariant
  <1> QED BY <1>1, JobsInvariantHolds, PTL

\* A run that ended leaves no call to the provider without its audit row.
THEOREM CallsAreAudited == Spec => []CallsAudited
  <1>1. JobsInvariant => CallsAudited
    BY DEF JobsInvariant, AuditInvariant, CallsAudited
  <1> QED BY <1>1, JobsInvariantHolds, PTL

\* Requests, inputs and the passage of time move no worker and save no answer.
LEMMA RequestsAreNoSteps ==
    ASSUME \/ QueueAISummary \/ StageForWorkflow \/ RecoverOrphans
           \/ \E state \in Readiness : ChangeInputs(state)
           \/ \E j \in JobId : LeaseExpires(j)
           \/ UNCHANGED vars
    PROVE  /\ step' = step
           /\ summary' = summary \/ summary'.status # "succeeded"
  BY DEF QueueAISummary, StageForWorkflow, RecoverOrphans, ChangeInputs,
         LeaseExpires, NewGeneration, vars

\* The summary changes beside a run's steps, or for its current generation.
LEMMA WorkerWrites ==
    ASSUME TypeOK, NEW w \in Workers, Work(w) \/ Disturb(w)
    PROVE  /\ \A v \in Workers \ {w} : step'[v] = step[v]
           /\ summary' # summary => Current(w)
  <1>1. \A v \in Workers \ {w} : step'[v] = step[v]
    <2>1. step' = step \/ \E next : step' = [step EXCEPT ![w] = next]
      <3>1. CASE Work(w)
        BY <3>1 DEF Work, Claim, Prepare, SaveSkipped, Return, Finish, Save, Void,
                    EndRun, Fail, Release, Exit, StartSummaryWorker, Down,
                    EndCommitted, End, To
      <3>2. CASE Disturb(w)
        BY <3>2 DEF Disturb, ClaimUnanswered, LeaseFoundLost, RenewalFails,
                    DatabaseFails, Stop, Crash, Cancel, Down, End, To
      <3> QED BY <3>1, <3>2
    <2> QED BY <2>1 DEF TypeOK
  <1>2. summary' # summary => Current(w)
    BY DEF Work, Claim, Prepare, SaveSkipped, Return, Finish, Save, Void,
           EndRun, Fail, Release, Exit, StartSummaryWorker,
           Disturb, ClaimUnanswered, LeaseFoundLost, RenewalFails, Cancel,
           DatabaseFails, Stop, Crash
  <1> QED BY <1>1, <1>2

\* A run that was superseded, or whose generation ended, writes nothing.
THEOREM SupersededRunsWriteNothing == Spec => OnlyCurrentGenerationWrites
  <1> DEFINE Superseded ==
        \A w \in Workers :
          step[w] # step'[w] /\ summary' # summary => Current(w)
  <1>1. ASSUME JobsInvariant, [Next]_vars
        PROVE  Superseded
    BY <1>1, RequestsAreNoSteps, WorkerWrites DEF Next, JobsInvariant
  <1>2. JobsInvariant /\ [Next]_vars => [Superseded]_vars
    BY <1>1
  <1>3. Spec => [][Superseded]_vars
    <2> HIDE DEF Superseded
    <2> QED BY <1>2, JobsInvariantHolds, PTL DEF Spec
  <1> QED BY <1>3, PTL DEF OnlyCurrentGenerationWrites

\* An answer is saved by the owner of the lease of the current generation, and
\* rests on content, rights and configuration that are current as it is saved.
THEOREM AnswersRestOnCurrentInputs == Spec => AnswersAreCurrent
  <1> DEFINE Rests ==
        summary.status # "succeeded" /\ summary'.status = "succeeded" =>
          /\ summary'.of = inputs.revision
          /\ inputs.state = "ready"
          /\ \E w \in Workers :
                /\ step[w] = "saving" /\ step'[w] = "ended"
                /\ Current(w) /\ Owns(w)
  <1>1. ASSUME JobsInvariant, NEW w \in Workers, Work(w) \/ Disturb(w),
               summary.status # "succeeded", summary'.status = "succeeded"
        PROVE  /\ step[w] = "saving" /\ Owns(w) /\ UpToDate(w) /\ Current(w)
               /\ Saved(w) /\ EndCommitted(w, "done")
    <2>1. summary' # summary
      BY <1>1
    <2>2. ASSUME NEW status \in {"failed", "skipped"}, Finished(status, 0)
          PROVE  FALSE
      BY <1>1, <2>2 DEF Finished
    <2>3. Save(w)
      BY <1>1, <2>1, <2>2
         DEF Work, Claim, Prepare, SaveSkipped, Return, Finish, Void, EndRun, Fail,
             Release, Exit, StartSummaryWorker, Disturb, ClaimUnanswered,
             LeaseFoundLost, RenewalFails, Cancel, DatabaseFails, Stop, Crash
    <2> QED BY <2>1, <2>3 DEF Save
  <1>2. ASSUME JobsInvariant, [Next]_vars
        PROVE  Rests
    <2>1. ASSUME NEW w \in Workers, Work(w) \/ Disturb(w),
                 summary.status # "succeeded", summary'.status = "succeeded"
          PROVE  /\ summary'.of = inputs.revision /\ inputs.state = "ready"
                 /\ step[w] = "saving" /\ step'[w] = "ended"
                 /\ Current(w) /\ Owns(w)
      <3>1. /\ step[w] = "saving" /\ Owns(w) /\ UpToDate(w) /\ Current(w)
            /\ Saved(w) /\ EndCommitted(w, "done")
        BY <1>1, <1>2, <2>1
      <3>2. summary'.of = read[w]
        BY <2>1, <3>1 DEF Saved, Finished
      <3>3. step'[w] = "ended"
        BY <1>2, <3>1 DEF EndCommitted, End, To, JobsInvariant, TypeOK
      <3> QED BY <3>1, <3>2, <3>3 DEF UpToDate
    <2> QED BY <1>2, <2>1, RequestsAreNoSteps DEF Next
  <1>3. JobsInvariant /\ [Next]_vars => [Rests]_vars
    BY <1>2
  <1>4. Spec => [][Rests]_vars
    <2> HIDE DEF Rests
    <2> QED BY <1>3, JobsInvariantHolds, PTL DEF Spec
  <1> QED BY <1>4, PTL DEF AnswersAreCurrent

\* A worker that lost its lease leaves the job to the worker that took it.
THEOREM LostLeasesAreLeft == Spec => LostWorkersLeaveJobs
  <1> DEFINE Left ==
        \A w \in Workers :
          (step[w] \in {"retrying", "dropping"} /\ step'[w] = "idle") =>
              \A j \in JobId :
                  job'[j] # job[j] => j = claim[w].job /\ Holds(w)
  <1>1. ASSUME JobsInvariant, [Next]_vars
        PROVE  Left
    <2>1. SUFFICES ASSUME NEW w \in Workers, step[w] \in {"retrying", "dropping"},
                          step'[w] = "idle", NEW j \in JobId, job'[j] # job[j]
                   PROVE  j = claim[w].job /\ Holds(w)
      OBVIOUS
    <2>2. Work(w) \/ Disturb(w)
      BY <1>1, <2>1, RequestsAreNoSteps, WorkerWrites DEF Next, JobsInvariant
    <2>3. Release(w)
      BY <1>1, <2>1, <2>2
         DEF Work, Claim, Prepare, SaveSkipped, Return, Finish, Save, Void, EndRun,
             Fail, Exit, StartSummaryWorker, Disturb, ClaimUnanswered,
             LeaseFoundLost, RenewalFails, Cancel, DatabaseFails, Stop, Crash, Down,
             To, JobsInvariant, TypeOK, Running
    <2> QED BY <1>1, <2>1, <2>3 DEF Release, JobsInvariant, TypeOK
  <1>2. JobsInvariant /\ [Next]_vars => [Left]_vars
    BY <1>1
  <1>3. Spec => [][Left]_vars
    <2> HIDE DEF Left
    <2> QED BY <1>2, JobsInvariantHolds, PTL DEF Spec
  <1> QED BY <1>3, PTL DEF LostWorkersLeaveJobs

=============================================================================
