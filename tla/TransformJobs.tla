---------------------------- MODULE TransformJobs ----------------------------
(***************************************************************************)
(* The asynchronous half of transformer/router.py: transform/submit        *)
(* publishes a job to the stream FCAPS_PROCESS and then records it in Redis*)
(* for the status endpoint.  Nothing in the repository consumes the        *)
(* subject, so a job stays in the stream and its status stays "queued".    *)
(***************************************************************************)
EXTENDS Naturals

CONSTANT
  Job       \* the submits of the model: each has a uuid4() of its own

VARIABLES
  job,      \* per submit, where its handler stands
  process,  \* the jobs in the stream FCAPS_PROCESS
  records   \* the jobs with a key job:{job_id} in Redis

jobVars == <<job, process, records>>

Busy == {"publish", "record"}

JobInit ==
  /\ job = [j \in Job |-> "idle"]
  /\ process = {} /\ records = {}
-----------------------------------------------------------------------------
Submit(j) ==
  /\ job[j] = "idle"
  /\ job' = [job EXCEPT ![j] = "publish"]
  /\ UNCHANGED <<process, records>>

\* js.publish returns: the stream has the job.
Published(j) ==
  /\ job[j] = "publish"
  /\ job' = [job EXCEPT ![j] = "record"]
  /\ process' = process \cup {j}
  /\ UNCHANGED records

\* A submit that records the job before it publishes it.
PublishFailsRecorded(j) ==
  /\ job[j] = "publish"
  /\ job' = [job EXCEPT ![j] = "failed"]
  /\ records' = records \cup {j}
  /\ UNCHANGED process

\* js.publish raises; the stream may have the job all the same (that it may get it
\* only later makes no difference: nothing reads the stream).
PublishFails(j) ==
  /\ job[j] = "publish"
  /\ job' = [job EXCEPT ![j] = "failed"]
  /\ process' \in {process, process \cup {j}}
  /\ UNCHANGED records

\* redis.setex returns: the answer is 202.
Recorded(j) ==
  /\ job[j] = "record"
  /\ job' = [job EXCEPT ![j] = "queued"]
  /\ records' = records \cup {j}
  /\ UNCHANGED process

\* A submit that swallows what Redis raises.
RecordFailsQuietly(j) ==
  /\ job[j] = "record"
  /\ job' = [job EXCEPT ![j] = "queued"]
  /\ UNCHANGED <<process, records>>

\* redis.setex raises, done or not: the answer is 500, the job is in the stream.
RecordFails(j) ==
  /\ job[j] = "record"
  /\ job' = [job EXCEPT ![j] = "failed"]
  /\ records' \in {records, records \cup {j}}
  /\ UNCHANGED process

\* The key's 3600 seconds are over once the handler has answered, or Redis evicts.
RecordGone(j) ==
  /\ j \in records
  /\ records' = records \ {j}
  /\ job' = [job EXCEPT ![j] = IF @ = "queued" THEN "forgotten" ELSE @]
  /\ UNCHANGED process

\* GET /transform/jobs/{job_id}.
Status(j) == IF j \in records THEN "queued" ELSE "404"

\* The process ends: nobody answers the submits it was working on.  A message on
\* its way to the stream, and a key on its way to Redis, may arrive all the same.
JobCrash ==
  /\ \E j \in Job : job[j] \in Busy
  /\ job' = [j \in Job |-> IF job[j] \in Busy THEN "cut" ELSE job[j]]
  /\ \E sent \in SUBSET {j \in Job : job[j] = "publish"} : process' = process \cup sent
  /\ \E set \in SUBSET {j \in Job : job[j] = "record"} : records' = records \cup set

JobNext ==
  \/ \E j \in Job : \/ Submit(j) \/ Published(j) \/ PublishFails(j)
                    \/ Recorded(j) \/ RecordFails(j) \/ RecordGone(j)
  \/ JobCrash
-----------------------------------------------------------------------------
(* Properties.                                                            *)

\* The queue and its record agree as far as two stores without a transaction can
\* (router.py:95-104): whom the status endpoint calls queued is in the stream, and
\* a job that is in the stream and unknown to the status endpoint was not answered
\* with success, or its key has gone since.
StatusAgreesWithQueue ==
  /\ \A j \in Job : Status(j) = "queued" => j \in process
  /\ \A j \in process : Status(j) = "404" => job[j] \in {"record", "failed", "cut", "forgotten"}
=============================================================================
