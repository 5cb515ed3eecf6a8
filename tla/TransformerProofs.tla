-------------------------- MODULE TransformerProofs --------------------------
(***************************************************************************)
(* What the transform jobs guarantee for any number of submits.  The       *)
(* agreement of the stream and of Redis is not inductive: that the record  *)
(* of a job may go needs that a job in the stream has left its publish,    *)
(* and that a job may be recorded needs that it is in the stream by then.  *)
(* What holds of an event on its way holds here as well, since jobs leave  *)
(* it alone.                                                               *)
(***************************************************************************)
EXTENDS Transformer, EventContentProofs

\* Where a job of the stream that Redis does not know may stand.
Unrecorded == {"record", "failed", "cut", "forgotten"}

JobType ==
  /\ job \in [Job -> {"idle", "publish", "queued"} \cup Unrecorded]
  /\ process \subseteq Job

\* The inductive invariant.
JobInv ==
  /\ JobType
  /\ records \subseteq process
  /\ \A j \in process : job[j] \notin {"idle", "publish"}
  /\ \A j \in Job : job[j] = "record" => j \in process
  /\ \A j \in process \ records : job[j] \in Unrecorded

LEMMA JobInvStarts == JobInit => JobInv
  BY DEF JobInit, JobInv, JobType

\* Every step of one submit.
LEMMA SubmitPreserves ==
  ASSUME JobInv, NEW j \in Job,
         \/ Submit(j) \/ Published(j) \/ PublishFails(j)
         \/ Recorded(j) \/ RecordFails(j) \/ RecordGone(j)
  PROVE  JobInv'
<1> USE DEF JobInv, JobType, Unrecorded
<1>1. CASE Submit(j)
  BY <1>1 DEF Submit
<1>2. CASE Published(j)
  BY <1>2 DEF Published
<1>3. CASE PublishFails(j)
  BY <1>3 DEF PublishFails
<1>4. CASE Recorded(j)
  BY <1>4 DEF Recorded
<1>5. CASE RecordFails(j)
  BY <1>5 DEF RecordFails
<1>6. CASE RecordGone(j)
  BY <1>6 DEF RecordGone
<1> QED BY <1>1, <1>2, <1>3, <1>4, <1>5, <1>6

LEMMA JobInvPreserved == JobInv /\ [JobNext]_jobVars => JobInv'
<1> SUFFICES ASSUME JobInv, [JobNext]_jobVars PROVE JobInv'
  OBVIOUS
<1>1. CASE JobCrash
  BY <1>1 DEF JobCrash, JobInv, JobType, Unrecorded, Busy
<1>2. ASSUME UNCHANGED <<job, process, records>> PROVE JobInv'
  BY <1>2 DEF JobInv, JobType
<1>3. CASE UNCHANGED jobVars
  BY <1>2, <1>3 DEF jobVars
<1> QED BY <1>1, <1>3, SubmitPreserves DEF JobNext

\* What transform/run does leaves the jobs alone.
LEMMA StepOfJobs == [TransformerNext]_transformerVars => [JobNext]_jobVars
  BY DEF TransformerNext, transformerVars

LEMMA JobInvariance == TransformerSpec => []JobInv
<1>1. TransformerInit => JobInv
  BY JobInvStarts DEF TransformerInit
<1>2. JobInv /\ [TransformerNext]_transformerVars => JobInv'
  BY JobInvPreserved, StepOfJobs
<1> QED BY <1>1, <1>2, PTL DEF TransformerSpec

\* A job the status endpoint calls queued is in the stream, and one it does not
\* know although the stream has it was not answered with success, or its key has
\* gone since: for any number of submits, failures and crashes.
THEOREM JobsAgree == TransformerSpec => []StatusAgreesWithQueue
<1>1. JobInv => StatusAgreesWithQueue
  BY DEF JobInv, JobType, Unrecorded, StatusAgreesWithQueue, Status
<1> QED BY <1>1, JobInvariance, PTL

-----------------------------------------------------------------------------
LEMMA StepOfEvent == [TransformerNext]_transformerVars => [Next]_vars
BY DEF TransformerNext, transformerVars

\* Jobs disturb no event: what holds on its way (EventContentProofs)
\* holds in the process that serves them.
THEOREM EventsUndisturbed ==
  TransformerSpec =>
    [](TypeOK /\ FoundBySeverity /\ SimulatedAsAsked /\ LostOnlyIfUnwritable)
<1>1. TransformerSpec => Spec
  BY StepOfEvent, PTL DEF TransformerSpec, TransformerInit, Spec
<1> QED
  BY <1>1, TypeCorrect, SeverityFinds, SimulationsAsAsked, WritableIsStored, PTL
=============================================================================
