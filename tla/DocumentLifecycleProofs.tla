----------------------- MODULE DocumentLifecycleProofs -----------------------
(***************************************************************************)
(* The invariants of DocumentLifecycle, for every set of jobs, workers and *)
(* clients and every bound: first the types and the use of the advisory    *)
(* lock, then the safety invariants with the strengthening that            *)
(* LifecycleInvariant states, then that requests orphan no source but in   *)
(* one case, and last that activation moves forward however messages are   *)
(* delivered.                                                              *)
(***************************************************************************)
EXTENDS LifecycleInvariant, LifecycleClaims, TLAPS

-----------------------------------------------------------------------------
(* How the updates the actions share preserve the type of one variable.    *)

\* Changing a status or pointer keeps the document record typed.
LEMMA DocumentUpdate ==
    ASSUME doc \in DocumentRecord, NEW s \in DocumentStatus
    PROVE [doc EXCEPT !.status = s] \in DocumentRecord
  BY DEF DocumentRecord

\* Changing fields of one version keeps the table typed.
LEMMA VersionUpdate ==
    ASSUME version \in [Jobs -> VersionRecord], NEW v \in Jobs, NEW s \in VersionStatus
    PROVE [version EXCEPT ![v].status = s] \in [Jobs -> VersionRecord]
  BY DEF VersionRecord

\* Changing the status of one job keeps the table typed.
LEMMA JobUpdate ==
    ASSUME job \in [AllJobs -> JobRecord], NEW j \in AllJobs, NEW s \in JobStatus
    PROVE [job EXCEPT ![j].status = s] \in [AllJobs -> JobRecord]
  BY DEF JobRecord

\* Giving up one version keeps the table typed.
LEMMA VersionGivenUp ==
    ASSUME version \in [Jobs -> VersionRecord], NEW v \in Jobs, NEW s \in VersionStatus
    PROVE [version EXCEPT ![v].failed = TRUE, ![v].status = s] \in [Jobs -> VersionRecord]
  BY DEF VersionRecord

\* What a worker reads is a snapshot.
LEMMA ReadType ==
    ASSUME TypeOK, NEW j \in AllJobs
    PROVE Read(j) \in Snapshot
  <1>1. j # Deletion => job[j].ver \in Jobs /\ j \in Jobs
    BY DEF TypeOK, StoreTypeOK, AllJobs, JobRecord
  <1>2. j # Deletion => version[job[j].ver].status \in VersionStatus
                        /\ generation[j] \in VersionStatus
    BY <1>1 DEF TypeOK, StoreTypeOK, VersionRecord
  <1>3. job[j].status \in JobStatus /\ doc.status \in DocumentStatus
        /\ doc.active \in Jobs \cup {None}
    BY DEF TypeOK, StoreTypeOK, JobRecord, DocumentRecord
  <1> QED
    BY <1>2, <1>3 DEF Read, Snapshot, VersionStatus

\* NoSnapshot is well typed.
LEMMA NoSnapshotType == NoSnapshot \in Snapshot
  BY DEF NoSnapshot, Snapshot, JobStatus, VersionStatus, DocumentStatus

\* IdleWorker is well typed.
LEMMA IdleWorkerType == IdleWorker \in WorkerRecord
  <1>1. <<Deletion, 0>> \in Message
    BY BoundsAssumption DEF Message, AllJobs
  <1> QED
    BY <1>1, NoSnapshotType DEF IdleWorker, WorkerRecord, WorkerStep

\* Moving one request keeps the table typed.
LEMMA RequestMoveType ==
    ASSUME request \in [Clients -> RequestRecord], NEW c \in Clients,
           NEW s \in RequestStep, request' = [request EXCEPT ![c].step = s]
    PROVE request' \in [Clients -> RequestRecord]
  BY DEF RequestRecord

\* Loaded is well typed.
LEMMA LoadedType ==
    ASSUME request \in [Clients -> RequestRecord], doc \in DocumentRecord,
           NEW c \in Clients, NEW op \in Operation, NEW j \in Jobs, Loaded(c, op, j)
    PROVE request' \in [Clients -> RequestRecord]
  BY DEF Loaded, RequestRecord, RequestStep, DocumentRecord, AllJobs

\* Answered is well typed.
LEMMA AnsweredType ==
    ASSUME request \in [Clients -> RequestRecord], NEW c \in Clients, Answered(c)
    PROVE request' \in [Clients -> RequestRecord]
  BY DEF Answered, RequestRecord, RequestStep, IdleRequest, Operation

\* InsertVersion is well typed.
LEMMA InsertVersionType ==
    ASSUME version \in [Jobs -> VersionRecord], NEW v \in Jobs, NEW n \in Nat,
           InsertVersion(v, n)
    PROVE version' \in [Jobs -> VersionRecord]
  BY DEF InsertVersion, VersionRecord, VersionStatus

\* InsertJob is well typed.
LEMMA InsertJobType ==
    ASSUME job \in [AllJobs -> JobRecord], NEW j \in AllJobs, NEW op \in Operation,
           NEW v \in Jobs, InsertJob(j, op, v)
    PROVE job' \in [AllJobs -> JobRecord]
  BY DEF InsertJob, JobRecord, JobStatus

\* Goto is well typed.
LEMMA GotoType ==
    ASSUME worker \in [Workers -> WorkerRecord], NEW w \in Workers,
           NEW step \in WorkerStep, Goto(w, step)
    PROVE worker' \in [Workers -> WorkerRecord]
  BY DEF Goto, WorkerRecord

\* GotoWith is well typed.
LEMMA GotoWithType ==
    ASSUME worker \in [Workers -> WorkerRecord], NEW w \in Workers,
           NEW step \in WorkerStep, NEW snap \in Snapshot, GotoWith(w, step, snap)
    PROVE worker' \in [Workers -> WorkerRecord]
  BY DEF GotoWith, WorkerRecord

\* Released is well typed.
LEMMA ReleasedType ==
    ASSUME lock \in [Jobs -> Workers \cup {None}], NEW w \in Workers
    PROVE Released(w) \in [Jobs -> Workers \cup {None}]
  BY DEF Released

\* Raise is well typed.
LEMMA RaiseType ==
    ASSUME worker \in [Workers -> WorkerRecord], lock \in [Jobs -> Workers \cup {None}],
           NEW w \in Workers, NEW step \in WorkerStep, Raise(w, step)
    PROVE /\ worker' \in [Workers -> WorkerRecord]
          /\ lock' \in [Jobs -> Workers \cup {None}]
  BY GotoWithType, NoSnapshotType, ReleasedType DEF Raise

\* Idle is well typed.
LEMMA IdleType ==
    ASSUME worker \in [Workers -> WorkerRecord], NEW w \in Workers, Idle(w)
    PROVE worker' \in [Workers -> WorkerRecord]
  BY IdleWorkerType DEF Idle

\* A queued message is a job with retries within the budget.
LEMMA MessageType ==
    ASSUME TypeOK, NEW w \in Workers
    PROVE worker[w].msg \in Message /\ Job(w) \in AllJobs /\ Tries(w) \in 0 .. MaxRetries
  BY DEF TypeOK, StoreTypeOK, WorkerRecord, Message, Job, Tries

-----------------------------------------------------------------------------
(* How the moves the worker actions share preserve the three parts of      *)
(* TypeInv that speak of workers, locks and requests.                      *)

\* The lock stays held by attempts when one worker changes and no lock of another does.
LEMMA LockHeldStep ==
    ASSUME TypeInv, NEW w \in Workers,
           \A u \in Workers \ {w} : worker'[u] = worker[u],
           worker'[w].step \in Attempting =>
                worker[w].step \in Attempting /\ worker'[w].msg = worker[w].msg,
           \A j \in Jobs : lock[j] # None =>
                \/ lock'[j] = lock[j]
                \/ lock[j] = w /\ worker'[w].step \notin Attempting
    PROVE LockHeld'
  BY JobsAssumption DEF TypeInv, LockHeld, Job

\* Moving one worker changes nothing of the others.
LEMMA GotoWorker ==
    ASSUME TypeOK, NEW w \in Workers, NEW step, Goto(w, step)
    PROVE /\ \A u \in Workers \ {w} : worker'[u] = worker[u]
          /\ worker'[w].step = step /\ worker'[w].msg = worker[w].msg
  BY DEF TypeOK, StoreTypeOK, WorkerRecord, Goto

\* Moving one worker with a snapshot changes nothing of the others.
LEMMA GotoWithWorker ==
    ASSUME TypeOK, NEW w \in Workers, NEW step, NEW snap, GotoWith(w, step, snap)
    PROVE /\ \A u \in Workers \ {w} : worker'[u] = worker[u]
          /\ worker'[w].step = step /\ worker'[w].msg = worker[w].msg
  BY DEF TypeOK, StoreTypeOK, WorkerRecord, GotoWith

\* Requests that do not change stay named.
LEMMA RequestsStay ==
    ASSUME TypeInv, UNCHANGED request PROVE RequestsNamed'
  BY DEF TypeInv, RequestsNamed

\* A step that does Goto to one process keeps the local state typed.
LEMMA GotoStep ==
    ASSUME TypeInv, NEW w \in Workers, NEW step \in WorkerStep, Goto(w, step),
           step \in Attempting => worker[w].step \in Attempting,
           UNCHANGED <<lock, request>>
    PROVE worker' \in [Workers -> WorkerRecord] /\ RequestsNamed' /\ LockHeld'
  <1>1. worker' \in [Workers -> WorkerRecord]
    BY GotoType DEF TypeInv, TypeOK, StoreTypeOK
  <1>2. LockHeld'
    BY GotoWorker, LockHeldStep DEF TypeInv
  <1> QED
    BY <1>1, <1>2, RequestsStay

\* A step that does GotoWith to one process keeps the local state typed.
LEMMA GotoWithStep ==
    ASSUME TypeInv, NEW w \in Workers, NEW step \in WorkerStep,
           NEW snap \in Snapshot, GotoWith(w, step, snap),
           step \in Attempting => worker[w].step \in Attempting,
           UNCHANGED <<lock, request>>
    PROVE worker' \in [Workers -> WorkerRecord] /\ RequestsNamed' /\ LockHeld'
  <1>1. worker' \in [Workers -> WorkerRecord]
    BY GotoWithType DEF TypeInv, TypeOK, StoreTypeOK
  <1>2. LockHeld'
    BY GotoWithWorker, LockHeldStep DEF TypeInv
  <1> QED
    BY <1>1, <1>2, RequestsStay

\* Releasing keeps the lock table typed and only frees locks of this worker.
LEMMA ReleasedLock ==
    ASSUME TypeInv, NEW w \in Workers, lock' = Released(w)
    PROVE \A j \in Jobs : lock'[j] = lock[j] \/ lock[j] = w
  BY DEF Released

\* A step that does Raise to one process keeps the local state typed.
LEMMA RaiseStep ==
    ASSUME TypeInv, NEW w \in Workers, NEW step \in WorkerStep, Raise(w, step),
           step \notin Attempting, UNCHANGED request
    PROVE /\ worker' \in [Workers -> WorkerRecord]
          /\ lock' \in [Jobs -> Workers \cup {None}]
          /\ RequestsNamed' /\ LockHeld'
  <1>1. /\ worker' \in [Workers -> WorkerRecord]
        /\ lock' \in [Jobs -> Workers \cup {None}]
    BY RaiseType DEF TypeInv, TypeOK, StoreTypeOK
  <1>2. /\ \A u \in Workers \ {w} : worker'[u] = worker[u]
        /\ worker'[w].step = step
    BY GotoWithWorker DEF Raise, TypeInv
  <1>3. \A j \in Jobs : lock'[j] = lock[j] \/ lock[j] = w
    BY ReleasedLock DEF Raise
  <1>4. LockHeld'
    BY <1>2, <1>3, LockHeldStep
  <1> QED
    BY <1>1, <1>4, RequestsStay

\* A step that does Idle to one process keeps the local state typed.
LEMMA IdleStep ==
    ASSUME TypeInv, NEW w \in Workers, Idle(w), lock' = Released(w), UNCHANGED request
    PROVE /\ worker' \in [Workers -> WorkerRecord]
          /\ lock' \in [Jobs -> Workers \cup {None}]
          /\ RequestsNamed' /\ LockHeld'
  <1>1. /\ worker' \in [Workers -> WorkerRecord]
        /\ lock' \in [Jobs -> Workers \cup {None}]
    BY IdleType, ReleasedType DEF TypeInv, TypeOK, StoreTypeOK
  <1>2. /\ \A u \in Workers \ {w} : worker'[u] = worker[u]
        /\ worker'[w].step \notin Attempting
    BY DEF Idle, IdleWorker, Attempting, TypeInv, TypeOK, StoreTypeOK
  <1>3. \A j \in Jobs : lock'[j] = lock[j] \/ lock[j] = w
    BY ReleasedLock
  <1>4. LockHeld'
    BY <1>2, <1>3, LockHeldStep
  <1> QED
    BY <1>1, <1>4, RequestsStay

-----------------------------------------------------------------------------
(* Every action preserves TypeInv.  First what the two Celery tasks share. *)

\* Retry preserves the types and the lock.
LEMMA RetryType ==
    ASSUME TypeInv, NEW w \in Workers, Retry(w) PROVE TypeInv'
  <1>1. worker' \in [Workers -> WorkerRecord] /\ RequestsNamed' /\ LockHeld'
    BY GotoStep DEF Retry, WorkerStep, Attempting
  <1>2. <<Job(w), Tries(w) + 1>> \in Message
    BY MessageType, BoundsAssumption DEF TypeInv, Retry, MayRetry, Message
  <1>3. queue' \in SUBSET Message
    BY <1>2 DEF Retry, TypeInv, TypeOK, StoreTypeOK
  <1> QED
    BY <1>1, <1>3 DEF Retry, TypeInv, TypeOK, StoreTypeOK, rows

\* RetryLost preserves the types and the lock.
LEMMA RetryLostType ==
    ASSUME TypeInv, NEW w \in Workers, RetryLost(w) PROVE TypeInv'
  <1>1. worker' \in [Workers -> WorkerRecord] /\ RequestsNamed' /\ LockHeld'
    BY GotoStep DEF RetryLost, WorkerStep, Attempting
  <1>2. faults' \in Nat
    BY DEF RetryLost, Fault, TypeInv, TypeOK, StoreTypeOK
  <1> QED
    BY <1>1, <1>2 DEF RetryLost, TypeInv, TypeOK, StoreTypeOK, rows

\* GiveUp preserves the types and the lock.
LEMMA GiveUpType ==
    ASSUME TypeInv, NEW w \in Workers, GiveUp(w) PROVE TypeInv'
  <1>1. worker' \in [Workers -> WorkerRecord] /\ RequestsNamed' /\ LockHeld'
    BY GotoStep DEF GiveUp, WorkerStep, Attempting
  <1> QED
    BY <1>1 DEF GiveUp, TypeInv, TypeOK, StoreTypeOK, rows

\* FailRead preserves the types and the lock.
LEMMA FailReadType ==
    ASSUME TypeInv, NEW w \in Workers, FailRead(w) PROVE TypeInv'
  <1>1. Read(Job(w)) \in Snapshot
    BY ReadType, MessageType DEF TypeInv
  <1>2. worker' \in [Workers -> WorkerRecord] /\ RequestsNamed' /\ LockHeld'
    BY <1>1, GotoWithStep DEF FailRead, WorkerStep, Attempting
  <1> QED
    BY <1>2 DEF FailRead, TypeInv, TypeOK, StoreTypeOK, rows

\* SqlError preserves the types and the lock.
LEMMA SqlErrorType ==
    ASSUME TypeInv, NEW w \in Workers, SqlError(w) PROVE TypeInv'
  <1> DEFINE step == IF Exhausted(w) THEN "done" ELSE "retry"
  <1>1. step \in WorkerStep /\ step \notin Attempting
    BY DEF WorkerStep, Attempting
  <1>2. Raise(w, step) /\ UNCHANGED request
    BY DEF SqlError
  <1> HIDE DEF step
  <1>3. /\ worker' \in [Workers -> WorkerRecord]
        /\ lock' \in [Jobs -> Workers \cup {None}]
        /\ RequestsNamed' /\ LockHeld'
    BY <1>1, <1>2, RaiseStep
  <1>4. errors' \in Nat
    BY DEF SqlError, Error, TypeInv, TypeOK, StoreTypeOK
  <1> QED
    BY <1>3, <1>4 DEF SqlError, TypeInv, TypeOK, StoreTypeOK, rows

\* Acknowledge preserves the types and the lock.
LEMMA AcknowledgeType ==
    ASSUME TypeInv, NEW w \in Workers, Acknowledge(w) PROVE TypeInv'
  <1>1. /\ worker' \in [Workers -> WorkerRecord]
        /\ lock' \in [Jobs -> Workers \cup {None}]
        /\ RequestsNamed' /\ LockHeld'
    BY IdleStep DEF Acknowledge
  <1> QED
    BY <1>1 DEF Acknowledge, TypeInv, TypeOK, StoreTypeOK, rows

-----------------------------------------------------------------------------
(* The ingestion worker.                                                   *)

\* Begin preserves the types and the lock.
LEMMA BeginType ==
    ASSUME TypeInv, NEW w \in Workers, NEW m \in queue, Begin(w, m) PROVE TypeInv'
  <1> DEFINE j == m[1]
             stops == ~LockFree(j) \/ ClaimStops(Read(j))
             taken == [step |-> IF stops THEN "done" ELSE "claim", msg |-> m,
                       snap |-> IF stops THEN NoSnapshot ELSE Read(j), keys |-> {}]
  <1>1. m \in Message /\ j \in Jobs
    BY DEF Begin, TypeInv, TypeOK, StoreTypeOK, Message, AllJobs
  <1>2. taken \in WorkerRecord
    <2>1. Read(j) \in Snapshot
      BY <1>1, ReadType DEF TypeInv, AllJobs
    <2> HIDE DEF stops, j
    <2> QED
      BY <1>1, <2>1, NoSnapshotType DEF WorkerRecord, WorkerStep
  <1>3. worker' = [worker EXCEPT ![w] = taken]
        /\ lock' = (IF LockFree(j) THEN [lock EXCEPT ![j] = w] ELSE lock)
        /\ queue' = queue \ {m} /\ UNCHANGED <<rows, files, request, faults, errors>>
    BY DEF Begin
  <1>4. ~stops => lock[j] = None
    BY DEF LockFree
  <1>5. taken.step \in Attempting => ~stops
    BY DEF Attempting
  <1>6. taken.msg = m
    OBVIOUS
  <1> HIDE DEF taken, stops
  <1>7. worker' \in [Workers -> WorkerRecord]
    BY <1>2, <1>3 DEF TypeInv, TypeOK, StoreTypeOK
  <1>8. lock' \in [Jobs -> Workers \cup {None}]
    BY <1>3 DEF TypeInv, TypeOK, StoreTypeOK
  <1>9. LockHeld'
    <2> SUFFICES ASSUME NEW u \in Workers, worker'[u].step \in Attempting
                 PROVE  (Job(u) \in Jobs /\ lock[Job(u)] = u)'
      BY DEF LockHeld
    <2>1. CASE u = w
      <3>1. worker'[w] = taken
        BY <1>3 DEF TypeInv, TypeOK, StoreTypeOK
      <3>2. lock'[j] = w /\ Job(w)' = j
        BY <2>1, <3>1, <1>1, <1>3, <1>4, <1>5, <1>6
           DEF LockFree, TypeInv, TypeOK, StoreTypeOK, Job
      <3> QED
        BY <2>1, <3>2, <1>1
    <2>2. CASE u # w
      <3>1. worker'[u] = worker[u]
        BY <1>3, <2>2 DEF TypeInv, TypeOK, StoreTypeOK
      <3>2. Job(u)' = Job(u) /\ Job(u) \in Jobs /\ lock[Job(u)] = u
        BY <3>1 DEF TypeInv, LockHeld, Job
      <3>3. Job(u) = j => lock' = lock
        BY <3>2, <1>3, JobsAssumption DEF LockFree
      <3> QED
        BY <3>2, <3>3, <1>3 DEF TypeInv, TypeOK, StoreTypeOK
    <2> QED
      BY <2>1, <2>2
  <1>10. RequestsNamed'
    BY <1>3, RequestsStay
  <1>11. queue' \in SUBSET Message
    BY <1>3 DEF TypeInv, TypeOK, StoreTypeOK
  <1> QED
    BY <1>3, <1>7, <1>8, <1>9, <1>10, <1>11 DEF TypeInv, TypeOK, StoreTypeOK, rows

\* Claim preserves the types and the lock.
LEMMA ClaimType ==
    ASSUME TypeInv, NEW w \in Workers, Claim(w) PROVE TypeInv'
  <1> DEFINE j == Job(w)
             r == worker[w].snap
             v == job[j].ver
  <1>1. j \in Jobs /\ j \in AllJobs
    BY DEF TypeInv, LockHeld, Claim, At, Attempting, AllJobs
  <1>2. v \in Jobs
    BY <1>1 DEF TypeInv, TypeOK, StoreTypeOK, JobRecord
  <1>3. worker' \in [Workers -> WorkerRecord] /\ RequestsNamed' /\ LockHeld'
    BY GotoWithStep, NoSnapshotType DEF Claim, WorkerStep, Attempting, At
  <1>4. ClaimedJob(w) \in JobStatus
    BY <1>1 DEF ClaimedJob, Flushed, TypeInv, TypeOK, StoreTypeOK, JobRecord, JobStatus
  <1>5. job' \in [AllJobs -> JobRecord]
    BY <1>1, <1>4, JobUpdate DEF Claim, TypeInv, TypeOK, StoreTypeOK
  <1>6. Flushed(version[v].status, r.ver, "processing") \in VersionStatus
    BY <1>2 DEF Flushed, TypeInv, TypeOK, StoreTypeOK, VersionRecord, VersionStatus
  <1>7. version' \in [Jobs -> VersionRecord]
    BY <1>2, <1>6, VersionUpdate DEF Claim, TypeInv, TypeOK, StoreTypeOK
  <1>8. Flushed(generation[j], r.gen, "processing") \in VersionStatus
    BY <1>1 DEF Flushed, TypeInv, TypeOK, StoreTypeOK, VersionStatus
  <1>9. generation' \in [Jobs -> VersionStatus]
    BY <1>1, <1>8 DEF Claim, TypeInv, TypeOK, StoreTypeOK
  <1>10. Flushed(doc.status, r.doc, "processing") \in DocumentStatus
    BY DEF Flushed, TypeInv, TypeOK, StoreTypeOK, DocumentRecord, DocumentStatus
  <1>11. doc' \in DocumentRecord
    BY <1>10, DocumentUpdate DEF Claim, TypeInv, TypeOK, StoreTypeOK
  <1> QED
    BY <1>3, <1>5, <1>7, <1>9, <1>11 DEF Claim, TypeInv, TypeOK, StoreTypeOK

\* ClaimFails preserves the types and the lock.
LEMMA ClaimFailsType ==
    ASSUME TypeInv, NEW w \in Workers, ClaimFails(w) PROVE TypeInv'
  <1>1. /\ worker' \in [Workers -> WorkerRecord]
        /\ lock' \in [Jobs -> Workers \cup {None}]
        /\ RequestsNamed' /\ LockHeld'
    BY RaiseStep DEF ClaimFails, WorkerStep, Attempting
  <1> QED
    BY <1>1 DEF ClaimFails, TypeInv, TypeOK, StoreTypeOK, rows

\* Prepare preserves the types and the lock.
LEMMA PrepareType ==
    ASSUME TypeInv, NEW w \in Workers, Prepare(w) PROVE TypeInv'
  <1>1. worker' \in [Workers -> WorkerRecord] /\ RequestsNamed' /\ LockHeld'
    BY GotoStep DEF Prepare, WorkerStep, Attempting, At
  <1> QED
    BY <1>1 DEF Prepare, TypeInv, TypeOK, StoreTypeOK, rows

\* SourceMissing preserves the types and the lock.
LEMMA SourceMissingType ==
    ASSUME TypeInv, NEW w \in Workers, SourceMissing(w) PROVE TypeInv'
  <1>1. worker' \in [Workers -> WorkerRecord] /\ RequestsNamed' /\ LockHeld'
    BY GotoStep DEF SourceMissing, WorkerStep, Attempting
  <1> QED
    BY <1>1 DEF SourceMissing, TypeInv, TypeOK, StoreTypeOK, rows

\* PermanentFailure preserves the types and the lock.
LEMMA PermanentFailureType ==
    ASSUME TypeInv, NEW w \in Workers, PermanentFailure(w) PROVE TypeInv'
  <1>1. worker' \in [Workers -> WorkerRecord] /\ RequestsNamed' /\ LockHeld'
    BY GotoStep DEF PermanentFailure, WorkerStep, Attempting
  <1>2. errors' \in Nat
    BY DEF PermanentFailure, Error, TypeInv, TypeOK, StoreTypeOK
  <1> QED
    BY <1>1, <1>2 DEF PermanentFailure, TypeInv, TypeOK, StoreTypeOK, rows

\* TransientFailure preserves the types and the lock.
LEMMA TransientFailureType ==
    ASSUME TypeInv, NEW w \in Workers, TransientFailure(w) PROVE TypeInv'
  <1>1. PICK step \in {"retry", "failRead"} : Raise(w, step)
    BY DEF TransientFailure
  <1>2. /\ worker' \in [Workers -> WorkerRecord]
        /\ lock' \in [Jobs -> Workers \cup {None}]
        /\ RequestsNamed' /\ LockHeld'
    BY <1>1, RaiseStep DEF TransientFailure, WorkerStep, Attempting
  <1>3. Job(w) \in AllJobs /\ "retrying" \in JobStatus
    BY MessageType DEF TypeInv, JobStatus
  <1>4. job' \in [AllJobs -> JobRecord]
    BY <1>3, JobUpdate DEF TransientFailure, TypeInv, TypeOK, StoreTypeOK
  <1>5. errors' \in Nat
    BY DEF TransientFailure, Error, TypeInv, TypeOK, StoreTypeOK
  <1> QED
    BY <1>2, <1>4, <1>5 DEF TransientFailure, TypeInv, TypeOK, StoreTypeOK

\* Publish preserves the types and the lock.
LEMMA PublishType ==
    ASSUME TypeInv, NEW w \in Workers, Publish(w) PROVE TypeInv'
  <1> DEFINE j == Job(w)
             v == job[j].ver
  <1>1. j \in Jobs /\ j \in AllJobs
    BY DEF TypeInv, LockHeld, Publish, At, Attempting, AllJobs
  <1>2. v \in Jobs
    BY <1>1 DEF TypeInv, TypeOK, StoreTypeOK, JobRecord
  <1>3. worker' \in [Workers -> WorkerRecord] /\ RequestsNamed' /\ LockHeld'
    BY GotoStep DEF Publish, WorkerStep, Attempting
  <1>4. job' \in [AllJobs -> JobRecord]
    BY <1>1, JobUpdate DEF Publish, TypeInv, TypeOK, StoreTypeOK, JobStatus
  <1>5. chunks' \in SUBSET Jobs
    BY <1>1 DEF Publish, Indexed, TypeInv, TypeOK, StoreTypeOK
  <1>6. ActivatedGenerations(j) \in [Jobs -> VersionStatus]
    BY DEF ActivatedGenerations, TypeInv, TypeOK, StoreTypeOK, VersionStatus
  <1>7. ActivatedVersions(j) \in [Jobs -> VersionRecord]
    <2> SUFFICES ASSUME NEW u \in Jobs PROVE ActivatedVersions(j)[u] \in VersionRecord
      BY DEF ActivatedVersions
    <2>1. version[u] \in VersionRecord
      BY DEF TypeInv, TypeOK, StoreTypeOK
    <2> QED
      BY <1>1, <2>1 DEF ActivatedVersions, VersionRecord, VersionStatus
  <1>8. doc' \in DocumentRecord
    BY <1>2 DEF Publish, TypeInv, TypeOK, StoreTypeOK, DocumentRecord, DocumentStatus
  <1> QED
    BY <1>3, <1>4, <1>5, <1>6, <1>7, <1>8 DEF Publish, TypeInv, TypeOK, StoreTypeOK

\* PublishRefused preserves the types and the lock.
LEMMA PublishRefusedType ==
    ASSUME TypeInv, NEW w \in Workers, PublishRefused(w) PROVE TypeInv'
  <1>1. worker' \in [Workers -> WorkerRecord] /\ RequestsNamed' /\ LockHeld'
    BY GotoStep DEF PublishRefused, WorkerStep, Attempting
  <1> QED
    BY <1>1 DEF PublishRefused, TypeInv, TypeOK, StoreTypeOK, rows

\* MarkFailed preserves the types and the lock.
LEMMA MarkFailedType ==
    ASSUME TypeInv, NEW w \in Workers, MarkFailed(w) PROVE TypeInv'
  <1> DEFINE j == Job(w)
             r == worker[w].snap
             v == job[j].ver
  <1>1. j \in Jobs /\ j \in AllJobs
    BY MessageType DEF TypeInv, MarkFailed, AllJobs
  <1>2. v \in Jobs
    BY <1>1 DEF TypeInv, TypeOK, StoreTypeOK, JobRecord
  <1>3. worker' \in [Workers -> WorkerRecord] /\ RequestsNamed' /\ LockHeld'
    BY GotoWithStep, NoSnapshotType DEF MarkFailed, WorkerStep, Attempting
  <1>4. Flushed(job[j].status, r.job, "failed") \in JobStatus
    BY <1>1 DEF Flushed, TypeInv, TypeOK, StoreTypeOK, JobRecord, JobStatus
  <1>5. job' \in [AllJobs -> JobRecord]
    BY <1>1, <1>4, JobUpdate DEF MarkFailed, TypeInv, TypeOK, StoreTypeOK
  <1>6. Flushed(version[v].status, r.ver, "failed") \in VersionStatus
    BY <1>2 DEF Flushed, TypeInv, TypeOK, StoreTypeOK, VersionRecord, VersionStatus
  <1>7. version' \in [Jobs -> VersionRecord]
    BY <1>2, <1>6, VersionGivenUp DEF MarkFailed, TypeInv, TypeOK, StoreTypeOK
  <1>8. Flushed(generation[j], r.gen, "failed") \in VersionStatus
    BY <1>1 DEF Flushed, TypeInv, TypeOK, StoreTypeOK, VersionStatus
  <1>9. generation' \in [Jobs -> VersionStatus]
    BY <1>1, <1>8 DEF MarkFailed, TypeInv, TypeOK, StoreTypeOK
  <1>10. Flushed(doc.status, r.doc, "failed") \in DocumentStatus
    BY DEF Flushed, TypeInv, TypeOK, StoreTypeOK, DocumentRecord, DocumentStatus
  <1>11. doc' \in DocumentRecord
    BY <1>10, DocumentUpdate DEF MarkFailed, TypeInv, TypeOK, StoreTypeOK
  <1> QED
    BY <1>3, <1>5, <1>7, <1>9, <1>11 DEF MarkFailed, TypeInv, TypeOK, StoreTypeOK

\* MarkFailedRefused preserves the types and the lock.
LEMMA MarkFailedRefusedType ==
    ASSUME TypeInv, NEW w \in Workers, MarkFailedRefused(w) PROVE TypeInv'
  <1> DEFINE step == IF Exhausted(w) THEN "done" ELSE "retry"
  <1>1. step \in WorkerStep /\ step \notin Attempting
    BY DEF WorkerStep, Attempting
  <1>2. Raise(w, step) /\ UNCHANGED request
    BY DEF MarkFailedRefused
  <1> HIDE DEF step
  <1>3. /\ worker' \in [Workers -> WorkerRecord]
        /\ lock' \in [Jobs -> Workers \cup {None}]
        /\ RequestsNamed' /\ LockHeld'
    BY <1>1, <1>2, RaiseStep
  <1> QED
    BY <1>3 DEF MarkFailedRefused, TypeInv, TypeOK, StoreTypeOK, rows

-----------------------------------------------------------------------------
(* The deletion worker.                                                    *)

\* BeginDeletion preserves the types and the lock.
LEMMA BeginDeletionType ==
    ASSUME TypeInv, NEW w \in Workers, NEW m \in queue, BeginDeletion(w, m)
    PROVE TypeInv'
  <1> DEFINE stops == DeletionStops(Read(Deletion))
             taken == [step |-> IF stops THEN "done" ELSE "delClaim", msg |-> m,
                       snap |-> IF stops THEN NoSnapshot ELSE Read(Deletion),
                       keys |-> {}]
  <1>1. m \in Message
    BY DEF TypeInv, TypeOK, StoreTypeOK
  <1>2. taken \in WorkerRecord /\ taken.step \notin Attempting
    <2>1. Read(Deletion) \in Snapshot
      BY ReadType DEF TypeInv, AllJobs
    <2> HIDE DEF stops
    <2> QED
      BY <1>1, <2>1, NoSnapshotType DEF WorkerRecord, WorkerStep, Attempting
  <1>3. worker' = [worker EXCEPT ![w] = taken] /\ UNCHANGED <<lock, request>>
    BY DEF BeginDeletion
  <1> HIDE DEF taken
  <1>4. worker' \in [Workers -> WorkerRecord]
    BY <1>2, <1>3 DEF TypeInv, TypeOK, StoreTypeOK
  <1>5. (\A u \in Workers \ {w} : worker'[u] = worker[u]) /\ worker'[w] = taken
    BY <1>3 DEF TypeInv, TypeOK, StoreTypeOK
  <1>6. LockHeld'
    BY <1>2, <1>3, <1>5, LockHeldStep
  <1>7. RequestsNamed'
    BY <1>3, RequestsStay
  <1>8. queue' \in SUBSET Message
    BY DEF BeginDeletion, TypeInv, TypeOK, StoreTypeOK
  <1> QED
    BY <1>4, <1>6, <1>7, <1>8 DEF BeginDeletion, TypeInv, TypeOK, StoreTypeOK, rows

\* ClaimDeletion preserves the types and the lock.
LEMMA ClaimDeletionType ==
    ASSUME TypeInv, NEW w \in Workers, ClaimDeletion(w) PROVE TypeInv'
  <1> DEFINE keys == {v \in Jobs : VersionRow(v)}
             next == [worker[w] EXCEPT !.step = "delFiles", !.snap = NoSnapshot,
                                       !.keys = keys]
  <1>1. worker[w] \in WorkerRecord
    BY DEF TypeInv, TypeOK, StoreTypeOK
  <1>2. worker' = [worker EXCEPT ![w] = next]
    BY DEF ClaimDeletion, TypeInv, TypeOK, StoreTypeOK
  <1>3. next \in WorkerRecord /\ next.step \notin Attempting
    BY <1>1, NoSnapshotType DEF WorkerRecord, WorkerStep, Attempting
  <1> HIDE DEF next
  <1>4. /\ worker' \in [Workers -> WorkerRecord] /\ worker'[w] = next
        /\ \A u \in Workers \ {w} : worker'[u] = worker[u]
    BY <1>2, <1>3 DEF TypeInv, TypeOK, StoreTypeOK
  <1>5. LockHeld' /\ RequestsNamed'
    BY <1>3, <1>4, LockHeldStep, RequestsStay DEF ClaimDeletion
  <1>6. Flushed(job[Deletion].status, worker[w].snap.job, "running") \in JobStatus
    BY DEF Flushed, TypeInv, TypeOK, StoreTypeOK, AllJobs, JobRecord, JobStatus
  <1>7. job' \in [AllJobs -> JobRecord]
    BY <1>6, JobUpdate DEF ClaimDeletion, TypeInv, TypeOK, StoreTypeOK, AllJobs
  <1> QED
    BY <1>4, <1>5, <1>7 DEF ClaimDeletion, TypeInv, TypeOK, StoreTypeOK

\* RemoveSource preserves the types and the lock.
LEMMA RemoveSourceType ==
    ASSUME TypeInv, NEW w \in Workers, RemoveSource(w) PROVE TypeInv'
  <1>1. PICK v \in worker[w].keys :
            /\ files' = files \ {v}
            /\ worker' = [worker EXCEPT ![w].keys = @ \ {v}]
    BY DEF RemoveSource
  <1> DEFINE next == [worker[w] EXCEPT !.keys = @ \ {v}]
  <1>2. worker[w] \in WorkerRecord /\ worker' = [worker EXCEPT ![w] = next]
    BY <1>1 DEF TypeInv, TypeOK, StoreTypeOK
  <1>3. next \in WorkerRecord /\ next.step \notin Attempting
    BY <1>2 DEF WorkerRecord, Attempting, RemoveSource, At
  <1> HIDE DEF next
  <1>4. /\ worker' \in [Workers -> WorkerRecord] /\ worker'[w] = next
        /\ \A u \in Workers \ {w} : worker'[u] = worker[u]
    BY <1>2, <1>3 DEF TypeInv, TypeOK, StoreTypeOK
  <1>5. LockHeld' /\ RequestsNamed'
    BY <1>3, <1>4, LockHeldStep, RequestsStay DEF RemoveSource
  <1>6. files' \in SUBSET Jobs
    BY <1>1 DEF TypeInv, TypeOK, StoreTypeOK
  <1> QED
    BY <1>4, <1>5, <1>6 DEF RemoveSource, TypeInv, TypeOK, StoreTypeOK, rows

\* StorageError preserves the types and the lock.
LEMMA StorageErrorType ==
    ASSUME TypeInv, NEW w \in Workers, StorageError(w) PROVE TypeInv'
  <1> DEFINE next == [worker[w] EXCEPT !.step = "retry", !.keys = {}]
  <1>1. worker[w] \in WorkerRecord /\ worker' = [worker EXCEPT ![w] = next]
    BY DEF StorageError, TypeInv, TypeOK, StoreTypeOK
  <1>2. next \in WorkerRecord /\ next.step \notin Attempting
    BY <1>1 DEF WorkerRecord, WorkerStep, Attempting
  <1> HIDE DEF next
  <1>3. /\ worker' \in [Workers -> WorkerRecord] /\ worker'[w] = next
        /\ \A u \in Workers \ {w} : worker'[u] = worker[u]
    BY <1>1, <1>2 DEF TypeInv, TypeOK, StoreTypeOK
  <1>4. LockHeld' /\ RequestsNamed'
    BY <1>2, <1>3, LockHeldStep, RequestsStay DEF StorageError
  <1>5. job' \in [AllJobs -> JobRecord]
    BY JobUpdate DEF StorageError, AfterStorageError, TypeInv, TypeOK, StoreTypeOK,
                     AllJobs, JobStatus
  <1>6. errors' \in Nat
    BY DEF StorageError, Error, TypeInv, TypeOK, StoreTypeOK
  <1> QED
    BY <1>3, <1>4, <1>5, <1>6 DEF StorageError, TypeInv, TypeOK, StoreTypeOK

\* The purge keeps the job table typed.
LEMMA PurgedJobsType ==
    ASSUME job \in [AllJobs -> JobRecord] PROVE PurgedJobs \in [AllJobs -> JobRecord]
  <1> SUFFICES ASSUME NEW j \in AllJobs PROVE PurgedJobs[j] \in JobRecord
    BY DEF PurgedJobs
  <1>1. job[j] \in JobRecord
    OBVIOUS
  <1> QED
    BY <1>1 DEF PurgedJobs, JobRecord, JobStatus

\* Purge preserves the types and the lock.
LEMMA PurgeType ==
    ASSUME TypeInv, NEW w \in Workers, Purge(w) PROVE TypeInv'
  <1>1. worker' \in [Workers -> WorkerRecord] /\ RequestsNamed' /\ LockHeld'
    BY GotoStep DEF Purge, WorkerStep, Attempting
  <1>2. job' \in [AllJobs -> JobRecord]
    BY PurgedJobsType DEF Purge, TypeInv, TypeOK, StoreTypeOK
  <1>3. doc' \in DocumentRecord
    BY DEF Purge, Tombstone, TypeInv, TypeOK, StoreTypeOK, DocumentRecord, DocumentStatus
  <1>4. NoVersion \in VersionRecord /\ "none" \in VersionStatus
    BY DEF NoVersion, VersionRecord, VersionStatus
  <1>5. version' \in [Jobs -> VersionRecord] /\ generation' \in [Jobs -> VersionStatus]
    BY <1>4 DEF Purge
  <1> QED
    BY <1>1, <1>2, <1>3, <1>5 DEF Purge, TypeInv, TypeOK, StoreTypeOK

\* PurgeRefused preserves the types and the lock.
LEMMA PurgeRefusedType ==
    ASSUME TypeInv, NEW w \in Workers, PurgeRefused(w) PROVE TypeInv'
  <1>1. worker' \in [Workers -> WorkerRecord] /\ RequestsNamed' /\ LockHeld'
    BY GotoStep DEF PurgeRefused, WorkerStep, Attempting
  <1> QED
    BY <1>1 DEF PurgeRefused, TypeInv, TypeOK, StoreTypeOK, rows

\* MarkDeletionFailed preserves the types and the lock.
LEMMA MarkDeletionFailedType ==
    ASSUME TypeInv, NEW w \in Workers, MarkDeletionFailed(w) PROVE TypeInv'
  <1>1. worker' \in [Workers -> WorkerRecord] /\ RequestsNamed' /\ LockHeld'
    BY GotoWithStep, NoSnapshotType DEF MarkDeletionFailed, WorkerStep, Attempting
  <1>2. Flushed(job[Deletion].status, worker[w].snap.job, "failed") \in JobStatus
    BY DEF Flushed, TypeInv, TypeOK, StoreTypeOK, AllJobs, JobRecord, JobStatus
  <1>3. job' \in [AllJobs -> JobRecord]
    BY <1>2, JobUpdate DEF MarkDeletionFailed, TypeInv, TypeOK, StoreTypeOK, AllJobs
  <1> QED
    BY <1>1, <1>3 DEF MarkDeletionFailed, TypeInv, TypeOK, StoreTypeOK

-----------------------------------------------------------------------------
(* The broker and the reconciler.                                          *)

\* Workers that do not change keep their locks.
LEMMA WorkersStay ==
    ASSUME TypeInv, UNCHANGED <<worker, lock>> PROVE LockHeld'
  BY DEF TypeInv, LockHeld, Job

\* WorkerLost preserves the types and the lock.
LEMMA WorkerLostType ==
    ASSUME TypeInv, NEW w \in Workers, WorkerLost(w) PROVE TypeInv'
  <1>1. /\ worker' \in [Workers -> WorkerRecord]
        /\ lock' \in [Jobs -> Workers \cup {None}]
        /\ RequestsNamed' /\ LockHeld'
    BY IdleStep DEF WorkerLost
  <1>2. queue' \in SUBSET Message
    BY MessageType DEF WorkerLost, TypeInv, TypeOK, StoreTypeOK
  <1>3. faults' \in Nat
    BY DEF WorkerLost, Fault, TypeInv, TypeOK, StoreTypeOK
  <1> QED
    BY <1>1, <1>2, <1>3 DEF WorkerLost, TypeInv, TypeOK, StoreTypeOK, rows

\* TaskKilled preserves the types and the lock.
LEMMA TaskKilledType ==
    ASSUME TypeInv, NEW w \in Workers, TaskKilled(w) PROVE TypeInv'
  <1>1. /\ worker' \in [Workers -> WorkerRecord]
        /\ lock' \in [Jobs -> Workers \cup {None}]
        /\ RequestsNamed' /\ LockHeld'
    BY IdleStep DEF TaskKilled
  <1>2. faults' \in Nat
    BY DEF TaskKilled, Fault, TypeInv, TypeOK, StoreTypeOK
  <1> QED
    BY <1>1, <1>2 DEF TaskKilled, TypeInv, TypeOK, StoreTypeOK, rows

\* Redeliver preserves the types and the lock.
LEMMA RedeliverType ==
    ASSUME TypeInv, NEW w \in Workers, Redeliver(w) PROVE TypeInv'
  <1>1. RequestsNamed' /\ LockHeld'
    BY RequestsStay, WorkersStay DEF Redeliver
  <1>2. queue' \in SUBSET Message
    BY MessageType DEF Redeliver, TypeInv, TypeOK, StoreTypeOK
  <1>3. faults' \in Nat
    BY DEF Redeliver, Fault, TypeInv, TypeOK, StoreTypeOK
  <1> QED
    BY <1>1, <1>2, <1>3 DEF Redeliver, TypeInv, TypeOK, StoreTypeOK, rows

\* LoseMessages preserves the types and the lock.
LEMMA LoseMessagesType ==
    ASSUME TypeInv, LoseMessages PROVE TypeInv'
  <1>1. RequestsNamed' /\ LockHeld'
    BY RequestsStay, WorkersStay DEF LoseMessages
  <1>2. faults' \in Nat
    BY DEF LoseMessages, Fault, TypeInv, TypeOK, StoreTypeOK
  <1> QED
    BY <1>1, <1>2 DEF LoseMessages, TypeInv, TypeOK, StoreTypeOK, rows

\* RepublishStale preserves the types and the lock.
LEMMA RepublishStaleType ==
    ASSUME TypeInv, NEW j \in AllJobs, RepublishStale(j) PROVE TypeInv'
  <1>1. RequestsNamed' /\ LockHeld'
    BY RequestsStay, WorkersStay DEF RepublishStale
  <1>2. <<j, 0>> \in Message
    BY BoundsAssumption DEF Message
  <1>3. queue' \in SUBSET Message
    BY <1>2 DEF RepublishStale, TypeInv, TypeOK, StoreTypeOK
  <1> QED
    BY <1>1, <1>3 DEF RepublishStale, TypeInv, TypeOK, StoreTypeOK, rows

-----------------------------------------------------------------------------
(* The API requests.                                                       *)

\* A step that does Answered to one process keeps the local state typed.
LEMMA AnsweredStep ==
    ASSUME TypeInv, NEW c \in Clients, Answered(c)
    PROVE request' \in [Clients -> RequestRecord] /\ RequestsNamed'
  <1>1. request' \in [Clients -> RequestRecord]
    BY AnsweredType DEF TypeInv, TypeOK, StoreTypeOK
  <1>2. RequestsNamed'
    BY DEF Answered, IdleRequest, RequestsNamed, TypeInv, TypeOK, StoreTypeOK
  <1> QED
    BY <1>1, <1>2

\* A request that moves on from loaded or unsure stays typed and named.
LEMMA RequestMove ==
    ASSUME TypeInv, NEW c \in Clients, NEW s \in {"committed", "unsure", "failed"},
           request' = [request EXCEPT ![c].step = s],
           request[c].step \in {"loaded", "unsure"}
    PROVE /\ request' \in [Clients -> RequestRecord] /\ RequestsNamed'
          /\ request'[c].step = s /\ request'[c].job = request[c].job
          /\ request'[c].op = request[c].op
          /\ \A d \in Clients \ {c} : request'[d] = request[d]
  <1>1. request' \in [Clients -> RequestRecord]
    BY RequestMoveType DEF TypeInv, TypeOK, StoreTypeOK, RequestStep
  <1>2. /\ request'[c].step = s /\ request'[c].job = request[c].job
        /\ request'[c].op = request[c].op
        /\ \A d \in Clients \ {c} : request'[d] = request[d]
    BY DEF TypeInv, TypeOK, StoreTypeOK, RequestRecord
  <1>3. RequestsNamed'
    BY <1>2 DEF RequestsNamed, TypeInv
  <1> QED
    BY <1>1, <1>2, <1>3

\* A commit whose acknowledgement may be lost moves its request only.
LEMMA CommitReturnsStep ==
    ASSUME TypeInv, NEW c \in Clients, CommitReturns(c) \/ Committed(c),
           UNCHANGED faults \/ CommitReturns(c), request[c].step = "loaded"
    PROVE /\ request' \in [Clients -> RequestRecord] /\ RequestsNamed'
          /\ faults' \in Nat
          /\ request'[c].step \in {"committed", "unsure"}
          /\ request'[c].job = request[c].job /\ request'[c].op = request[c].op
          /\ \A d \in Clients \ {c} : request'[d] = request[d]
  <1>1. PICK s \in {"committed", "unsure"} : request' = [request EXCEPT ![c].step = s]
    BY DEF CommitReturns, Committed
  <1>2. faults' \in Nat
    BY DEF CommitReturns, Fault, TypeInv, TypeOK, StoreTypeOK
  <1> QED
    BY <1>1, <1>2, RequestMove

\* A step that does Loaded to one process keeps the local state typed.
LEMMA LoadedStep ==
    ASSUME TypeInv, NEW c \in Clients, NEW op \in Operation, NEW j \in Jobs,
           Loaded(c, op, j),
           op = "initial_ingestion" => j = Initial, op = "reindex" => doc.active # None
    PROVE request' \in [Clients -> RequestRecord] /\ RequestsNamed'
  <1>1. request' \in [Clients -> RequestRecord]
    BY LoadedType DEF TypeInv, TypeOK, StoreTypeOK
  <1>2. /\ request'[c].step = "loaded" /\ request'[c].job = j /\ request'[c].op = op
        /\ request'[c].active = doc.active
        /\ \A d \in Clients \ {c} : request'[d] = request[d]
    BY DEF Loaded, TypeInv, TypeOK, StoreTypeOK
  <1>3. doc.active # None => doc.active \in Jobs
    BY DEF TypeInv, TypeOK, StoreTypeOK, DocumentRecord
  <1>4. RequestsNamed'
    BY <1>2, <1>3 DEF RequestsNamed, TypeInv, AllJobs
  <1> QED
    BY <1>1, <1>4

\* StoreUpload preserves the types and the lock.
LEMMA StoreUploadType ==
    ASSUME TypeInv, NEW c \in Clients, StoreUpload(c) PROVE TypeInv'
  <1>1. request' \in [Clients -> RequestRecord] /\ RequestsNamed'
    BY LoadedStep, JobsAssumption DEF StoreUpload, Operation
  <1>2. files' \in SUBSET Jobs
    BY JobsAssumption DEF StoreUpload, TypeInv, TypeOK, StoreTypeOK
  <1>3. LockHeld'
    BY WorkersStay DEF StoreUpload
  <1> QED
    BY <1>1, <1>2, <1>3 DEF StoreUpload, TypeInv, TypeOK, StoreTypeOK, rows

\* CommitUpload preserves the types and the lock.
LEMMA CommitUploadType ==
    ASSUME TypeInv, NEW c \in Clients, CommitUpload(c) PROVE TypeInv'
  <1>1. request' \in [Clients -> RequestRecord] /\ RequestsNamed' /\ faults' \in Nat
    BY CommitReturnsStep DEF CommitUpload, RequestAt
  <1>2. doc' \in DocumentRecord
    BY DocumentUpdate DEF CommitUpload, TypeInv, TypeOK, StoreTypeOK, DocumentStatus
  <1>3. version' \in [Jobs -> VersionRecord]
    BY InsertVersionType, JobsAssumption DEF CommitUpload, TypeInv, TypeOK, StoreTypeOK
  <1>4. job' \in [AllJobs -> JobRecord]
    BY InsertJobType, JobsAssumption DEF CommitUpload, TypeInv, TypeOK, StoreTypeOK,
                                         AllJobs, Operation
  <1>5. generation' \in [Jobs -> VersionStatus]
    BY DEF CommitUpload, InsertGeneration, TypeInv, TypeOK, StoreTypeOK, VersionStatus
  <1>6. LockHeld'
    BY WorkersStay DEF CommitUpload
  <1> QED
    BY <1>1, <1>2, <1>3, <1>4, <1>5, <1>6 DEF CommitUpload, TypeInv, TypeOK, StoreTypeOK

\* StoreReplacement preserves the types and the lock.
LEMMA StoreReplacementType ==
    ASSUME TypeInv, NEW c \in Clients, NEW j \in Jobs, StoreReplacement(c, j)
    PROVE TypeInv'
  <1>1. request' \in [Clients -> RequestRecord] /\ RequestsNamed'
    BY LoadedStep DEF StoreReplacement, Operation
  <1>2. files' \in SUBSET Jobs
    BY DEF StoreReplacement, TypeInv, TypeOK, StoreTypeOK
  <1>3. LockHeld'
    BY WorkersStay DEF StoreReplacement
  <1> QED
    BY <1>1, <1>2, <1>3 DEF StoreReplacement, TypeInv, TypeOK, StoreTypeOK, rows

\* CommitReplacement preserves the types and the lock.
LEMMA CommitReplacementType ==
    ASSUME TypeInv, NEW c \in Clients, CommitReplacement(c) PROVE TypeInv'
  <1> DEFINE j == request[c].job
  <1>1. request' \in [Clients -> RequestRecord] /\ RequestsNamed' /\ faults' \in Nat
    BY CommitReturnsStep DEF CommitReplacement, RequestAt
  <1>2. j \in Jobs /\ request[c].next \in Nat
    BY DEF CommitReplacement, RequestAt, TypeInv, RequestsNamed, TypeOK, StoreTypeOK,
           RequestRecord
  <1>3. doc' \in DocumentRecord
    BY <1>2 DEF CommitReplacement, TypeInv, TypeOK, StoreTypeOK, DocumentRecord
  <1>4. version' \in [Jobs -> VersionRecord]
    BY <1>2, InsertVersionType DEF CommitReplacement, TypeInv, TypeOK, StoreTypeOK
  <1>5. job' \in [AllJobs -> JobRecord]
    BY <1>2, InsertJobType DEF CommitReplacement, TypeInv, TypeOK, StoreTypeOK,
                               AllJobs, Operation
  <1>6. generation' \in [Jobs -> VersionStatus]
    BY DEF CommitReplacement, InsertGeneration, TypeInv, TypeOK, StoreTypeOK,
           VersionStatus
  <1>7. LockHeld'
    BY WorkersStay DEF CommitReplacement
  <1> QED
    BY <1>1, <1>3, <1>4, <1>5, <1>6, <1>7
       DEF CommitReplacement, TypeInv, TypeOK, StoreTypeOK

\* LoadReindex preserves the types and the lock.
LEMMA LoadReindexType ==
    ASSUME TypeInv, NEW c \in Clients, NEW j \in Jobs, LoadReindex(c, j)
    PROVE TypeInv'
  <1>1. request' \in [Clients -> RequestRecord] /\ RequestsNamed'
    BY LoadedStep DEF LoadReindex, HasActiveSource, Operation
  <1>2. LockHeld'
    BY WorkersStay DEF LoadReindex
  <1> QED
    BY <1>1, <1>2 DEF LoadReindex, TypeInv, TypeOK, StoreTypeOK, rows

\* CommitReindex preserves the types and the lock.
LEMMA CommitReindexType ==
    ASSUME TypeInv, NEW c \in Clients, CommitReindex(c) PROVE TypeInv'
  <1> DEFINE j == request[c].job
  <1>1. request' \in [Clients -> RequestRecord] /\ RequestsNamed'
    BY CommitReturnsStep DEF CommitReindex, RequestAt
  <1>2. j \in Jobs /\ request[c].active \in Jobs
    BY DEF CommitReindex, RequestAt, TypeInv, RequestsNamed
  <1>3. job' \in [AllJobs -> JobRecord]
    BY <1>2, InsertJobType DEF CommitReindex, TypeInv, TypeOK, StoreTypeOK,
                               AllJobs, Operation
  <1>4. generation' \in [Jobs -> VersionStatus]
    BY DEF CommitReindex, InsertGeneration, TypeInv, TypeOK, StoreTypeOK, VersionStatus
  <1>5. LockHeld'
    BY WorkersStay DEF CommitReindex
  <1> QED
    BY <1>1, <1>3, <1>4, <1>5 DEF CommitReindex, TypeInv, TypeOK, StoreTypeOK

\* Refuse preserves the types and the lock.
LEMMA RefuseType ==
    ASSUME TypeInv, NEW c \in Clients, Refuse(c) PROVE TypeInv'
  <1>1. request' \in [Clients -> RequestRecord] /\ RequestsNamed'
    BY AnsweredStep DEF Refuse
  <1>2. files' \in SUBSET Jobs
    BY DEF Refuse, Discarded, TypeInv, TypeOK, StoreTypeOK
  <1>3. LockHeld'
    BY WorkersStay DEF Refuse
  <1> QED
    BY <1>1, <1>2, <1>3 DEF Refuse, TypeInv, TypeOK, StoreTypeOK, rows

\* ReplacementQueryFails preserves the types and the lock.
LEMMA ReplacementQueryFailsType ==
    ASSUME TypeInv, NEW c \in Clients, ReplacementQueryFails(c) PROVE TypeInv'
  <1>1. request' \in [Clients -> RequestRecord] /\ RequestsNamed'
    BY RequestMove DEF ReplacementQueryFails, RequestAt, EndsInError
  <1>2. errors' \in Nat
    BY DEF ReplacementQueryFails, Error, TypeInv, TypeOK, StoreTypeOK
  <1>3. LockHeld'
    BY WorkersStay DEF ReplacementQueryFails
  <1> QED
    BY <1>1, <1>2, <1>3 DEF ReplacementQueryFails, TypeInv, TypeOK, StoreTypeOK, rows

\* DiscardUnsure preserves the types and the lock.
LEMMA DiscardUnsureType ==
    ASSUME TypeInv, NEW c \in Clients, DiscardUnsure(c) PROVE TypeInv'
  <1>1. request' \in [Clients -> RequestRecord] /\ RequestsNamed'
    BY RequestMove DEF DiscardUnsure, EndsInError
  <1>2. files' \in SUBSET Jobs
    BY DEF DiscardUnsure, TypeInv, TypeOK, StoreTypeOK
  <1>3. LockHeld'
    BY WorkersStay DEF DiscardUnsure
  <1> QED
    BY <1>1, <1>2, <1>3 DEF DiscardUnsure, TypeInv, TypeOK, StoreTypeOK, rows

\* AcceptDeletion preserves the types and the lock.
LEMMA AcceptDeletionType ==
    ASSUME TypeInv, NEW c \in Clients, AcceptDeletion(c) PROVE TypeInv'
  <1> DEFINE asked == [IdleRequest EXCEPT !.step = "committed", !.job = Deletion]
  <1>1. asked \in RequestRecord /\ asked.step = "committed" /\ asked.job = Deletion
    BY DEF IdleRequest, RequestRecord, RequestStep, Operation, AllJobs
  <1>2. request' = [request EXCEPT ![c] = asked]
    BY DEF AcceptDeletion
  <1> HIDE DEF asked
  <1>3. request' \in [Clients -> RequestRecord] /\ RequestsNamed'
    BY <1>1, <1>2 DEF RequestsNamed, TypeInv, TypeOK, StoreTypeOK, AllJobs
  <1>4. doc' \in DocumentRecord
    BY DocumentUpdate DEF AcceptDeletion, TypeInv, TypeOK, StoreTypeOK, DocumentStatus
  <1>5. job' \in [AllJobs -> JobRecord]
    BY InsertJobType, JobsAssumption DEF AcceptDeletion, TypeInv, TypeOK, StoreTypeOK,
                                         AllJobs, Operation
  <1>6. LockHeld'
    BY WorkersStay DEF AcceptDeletion
  <1> QED
    BY <1>3, <1>4, <1>5, <1>6 DEF AcceptDeletion, TypeInv, TypeOK, StoreTypeOK

\* PublishJob preserves the types and the lock.
LEMMA PublishJobType ==
    ASSUME TypeInv, NEW c \in Clients, PublishJob(c) PROVE TypeInv'
  <1>1. request' \in [Clients -> RequestRecord] /\ RequestsNamed'
    BY AnsweredStep DEF PublishJob
  <1>2. <<request[c].job, 0>> \in Message
    BY BoundsAssumption DEF PublishJob, TypeInv, RequestsNamed, Message
  <1>3. queue' \in SUBSET Message
    BY <1>2 DEF PublishJob, TypeInv, TypeOK, StoreTypeOK
  <1>4. LockHeld'
    BY WorkersStay DEF PublishJob
  <1> QED
    BY <1>1, <1>3, <1>4 DEF PublishJob, TypeInv, TypeOK, StoreTypeOK, rows

\* PublishJobFails preserves the types and the lock.
LEMMA PublishJobFailsType ==
    ASSUME TypeInv, NEW c \in Clients, PublishJobFails(c) PROVE TypeInv'
  <1>1. request' \in [Clients -> RequestRecord] /\ RequestsNamed'
    BY AnsweredStep DEF PublishJobFails
  <1>2. faults' \in Nat
    BY DEF PublishJobFails, Fault, TypeInv, TypeOK, StoreTypeOK
  <1>3. LockHeld'
    BY WorkersStay DEF PublishJobFails
  <1> QED
    BY <1>1, <1>2, <1>3 DEF PublishJobFails, TypeInv, TypeOK, StoreTypeOK, rows

\* AbandonRequest preserves the types and the lock.
LEMMA AbandonRequestType ==
    ASSUME TypeInv, NEW c \in Clients, AbandonRequest(c) PROVE TypeInv'
  <1>1. request' \in [Clients -> RequestRecord] /\ RequestsNamed'
    BY AnsweredStep DEF AbandonRequest
  <1>2. faults' \in Nat
    BY DEF AbandonRequest, Fault, TypeInv, TypeOK, StoreTypeOK
  <1>3. LockHeld'
    BY WorkersStay DEF AbandonRequest
  <1> QED
    BY <1>1, <1>2, <1>3 DEF AbandonRequest, TypeInv, TypeOK, StoreTypeOK, rows

-----------------------------------------------------------------------------
(* The composition.                                                        *)

\* The initial state is typed.
LEMMA InitType == Init => TypeInv
  <1> SUFFICES ASSUME Init PROVE TypeInv
    OBVIOUS
  <1>1. RequestsNamed /\ LockHeld
    BY DEF Init, RequestsNamed, LockHeld, IdleRequest, IdleWorker, Attempting
  <1>2. worker \in [Workers -> WorkerRecord]
    BY IdleWorkerType DEF Init
  <1>3. request \in [Clients -> RequestRecord]
    BY DEF Init, IdleRequest, RequestRecord, RequestStep, Operation
  <1>4. doc \in DocumentRecord /\ generation \in [Jobs -> VersionStatus]
    BY DEF Init, DocumentRecord, DocumentStatus, VersionStatus
  <1>5. version \in [Jobs -> VersionRecord]
    BY DEF Init, NoVersion, VersionRecord, VersionStatus
  <1>6. job \in [AllJobs -> JobRecord]
    BY JobsAssumption DEF Init, JobRecord, JobStatus, Operation, AllJobs
  <1>7. /\ chunks = {} /\ files = {} /\ queue = {} /\ faults = 0 /\ errors = 0
        /\ lock \in [Jobs -> Workers \cup {None}]
    BY DEF Init
  <1> QED
    BY <1>1, <1>2, <1>3, <1>4, <1>5, <1>6, <1>7 DEF TypeInv, TypeOK, StoreTypeOK

\* Requests preserve the types.
LEMMA ApiStepType ==
    ASSUME TypeInv, NEW c \in Clients, ApiStep(c) PROVE TypeInv'
  BY StoreUploadType, CommitUploadType, StoreReplacementType, CommitReplacementType,
     LoadReindexType, CommitReindexType, RefuseType, ReplacementQueryFailsType,
     DiscardUnsureType, AcceptDeletionType,
     PublishJobType, PublishJobFailsType, AbandonRequestType DEF ApiStep

\* Workers preserve the types.
LEMMA WorkerStepType ==
    ASSUME TypeInv, NEW w \in Workers, WorkerStepOf(w) PROVE TypeInv'
  <1>1. CASE TaskStep(w)
    BY <1>1, RetryType, RetryLostType, GiveUpType, FailReadType, SqlErrorType,
       AcknowledgeType DEF TaskStep
  <1>2. CASE IngestionStep(w)
    BY <1>2, BeginType, ClaimType, ClaimFailsType, PrepareType, SourceMissingType,
       PermanentFailureType, TransientFailureType, PublishType, PublishRefusedType,
       MarkFailedType, MarkFailedRefusedType DEF IngestionStep
  <1>3. CASE DeletionStep(w)
    BY <1>3, BeginDeletionType, ClaimDeletionType, RemoveSourceType, StorageErrorType,
       PurgeType, PurgeRefusedType, MarkDeletionFailedType DEF DeletionStep
  <1> QED
    BY <1>1, <1>2, <1>3 DEF WorkerStepOf

\* The broker and the reconciler preserve the types.
LEMMA BrokerStepType ==
    ASSUME TypeInv, BrokerStep PROVE TypeInv'
  BY WorkerLostType, TaskKilledType, RedeliverType, LoseMessagesType,
     RepublishStaleType DEF BrokerStep

\* Every step preserves the types.
LEMMA NextType == TypeInv /\ [Next]_vars => TypeInv'
  <1> SUFFICES ASSUME TypeInv, [Next]_vars PROVE TypeInv'
    OBVIOUS
  <1>1. CASE Next
    BY <1>1, ApiStepType, WorkerStepType, BrokerStepType DEF Next
  <1>2. CASE UNCHANGED vars
    <2>1. LockHeld' /\ RequestsNamed'
      BY <1>2, WorkersStay, RequestsStay DEF vars
    <2> QED
      BY <1>2, <2>1 DEF vars, rows, TypeInv, TypeOK, StoreTypeOK
  <1> QED
    BY <1>1, <1>2

(* The rows, the objects in storage, the messages and what workers and     *)
(* requests remember keep their types, for every number of jobs, workers   *)
(* and clients and every retry budget: no message exceeds the retries      *)
(* Celery was given, and no request publishes a job it did not commit.     *)
THEOREM TypeInvariant == Spec => []TypeInv
  BY InitType, NextType, PTL DEF Spec

(* Type correctness of the rows, the objects, the queue, the locks and the *)
(* local state of workers and requests, as the runs check it.              *)
THEOREM TypeCorrect == Spec => []TypeOK
  <1>1. TypeInv => TypeOK
    BY DEF TypeInv
  <1> QED
    BY <1>1, TypeInvariant, PTL

(* The advisory lock does its work: at any time one delivery of a job is   *)
(* between its claim and its publication, whatever was redelivered.        *)
THEOREM LockExcludes == Spec => []OneProcessorPerJob
  <1>1. TypeInv => OneProcessorPerJob
    BY DEF TypeInv, LockHeld, Attempting, OneProcessorPerJob
  <1> QED
    BY <1>1, TypeInvariant, PTL

--------------------------------------------------------------------------------
(* The safety invariants of the rows and pointers.                          *)

(* What a step does to the rows when it neither publishes, purges, nor     *)
(* commits a request: it only moves statuses, and no row appears, vanishes *)
(* or points elsewhere.                                                    *)
RowsMarked ==
    /\ chunks' = chunks /\ doc'.active = doc.active
    /\ doc'.status = "deleted" => doc.status = "deleted"
    /\ \A j \in Jobs :
        /\ job'[j].ver = job[j].ver /\ job'[j].op = job[j].op
        /\ (job'[j].status = "none") <=> (job[j].status = "none")
        /\ JobRow(j)' <=> JobRow(j)
        /\ job'[j].status = "succeeded" => job[j].status = "succeeded"
    /\ \A v \in Jobs : version'[v].gen = version[v].gen /\ (VersionRow(v)' <=> VersionRow(v))

\* A step that leaves the rows alone marks nothing.
LEMMA UnchangedMarks == UNCHANGED rows => RowsMarked
  BY DEF rows, RowsMarked, JobRow, VersionRow

\* The claim moves statuses among non-final values; it sets no pointer and deletes no row.
LEMMA ClaimMarks ==
    ASSUME TypeInv, RowsLinked, NEW w \in Workers, Claim(w) PROVE RowsMarked
  <1> DEFINE j == Job(w)
             v == job[j].ver
  <1>1. j \in Jobs /\ JobRow(j)
    BY DEF TypeInv, LockHeld, Claim, At, Attempting, ClaimRefused
  <1>2. v \in Jobs /\ VersionRow(v)
    BY <1>1 DEF RowsLinked, TypeInv, TypeOK, StoreTypeOK, AllJobs, JobRecord
  <1>3. chunks' = chunks /\ doc'.active = doc.active
        /\ (doc'.status = "deleted" => doc.status = "deleted")
    BY DEF Claim, Flushed, TypeInv, TypeOK, StoreTypeOK, DocumentRecord
  <1>4. ClaimedJob(w) \in {job[j].status, "running"}
    BY DEF ClaimedJob, Flushed
  <1>5. \A k \in Jobs :
            /\ job'[k].ver = job[k].ver /\ job'[k].op = job[k].op
            /\ k # j => job'[k].status = job[k].status
            /\ job'[j].status \in {job[j].status, "running"}
    BY <1>1, <1>4 DEF Claim, TypeInv, TypeOK, StoreTypeOK, AllJobs, JobRecord
  <1>6. \A u \in Jobs :
            /\ version'[u].gen = version[u].gen
            /\ u # v => version'[u].status = version[u].status
            /\ version'[v].status \in {version[v].status, "processing"}
    BY <1>2 DEF Claim, Flushed, TypeInv, TypeOK, StoreTypeOK, VersionRecord
  <1> QED
    BY <1>1, <1>2, <1>3, <1>5, <1>6 DEF RowsMarked, JobRow, VersionRow

\* _mark_failed writes statuses only.
LEMMA MarkFailedMarks ==
    ASSUME TypeInv, RowsLinked, NEW w \in Workers, MarkFailed(w) PROVE RowsMarked
  <1> DEFINE j == Job(w)
             r == worker[w].snap
             v == job[j].ver
             found == r.job \notin {"none", "purged"}
  <1>1. j \in Jobs /\ (found => JobRow(j))
    BY MessageType DEF TypeInv, MarkFailed, RowsVanished, AllJobs
  <1>2. v \in Jobs /\ (found => VersionRow(v))
    BY <1>1 DEF RowsLinked, TypeInv, TypeOK, StoreTypeOK, AllJobs, JobRecord
  <1>3. chunks' = chunks /\ doc'.active = doc.active
        /\ (doc'.status = "deleted" => doc.status = "deleted")
    BY DEF MarkFailed, Flushed, TypeInv, TypeOK, StoreTypeOK, DocumentRecord
  <1>4. \A k \in Jobs :
            /\ job'[k].ver = job[k].ver /\ job'[k].op = job[k].op
            /\ k # j \/ ~found => job'[k].status = job[k].status
            /\ job'[j].status \in {job[j].status, "failed"}
    BY <1>1 DEF MarkFailed, Flushed, TypeInv, TypeOK, StoreTypeOK, AllJobs, JobRecord
  <1>5. \A u \in Jobs :
            /\ version'[u].gen = version[u].gen
            /\ u # v \/ ~found => version'[u].status = version[u].status
            /\ version'[v].status \in {version[v].status, "failed"}
    BY <1>2 DEF MarkFailed, Flushed, TypeInv, TypeOK, StoreTypeOK, VersionRecord
  <1> QED
    BY <1>1, <1>2, <1>3, <1>4, <1>5 DEF RowsMarked, JobRow, VersionRow

\* _mark_retrying writes the job status only.
LEMMA TransientFailureMarks ==
    ASSUME TypeInv, NEW w \in Workers, TransientFailure(w) PROVE RowsMarked
  <1> DEFINE j == Job(w)
  <1>1. j \in Jobs
    BY DEF TypeInv, LockHeld, TransientFailure, At, Attempting
  <1>2. UNCHANGED <<doc, version, chunks>>
        /\ \/ job' = job
           \/ JobRow(j) /\ job' = [job EXCEPT ![j].status = "retrying"]
    BY DEF TransientFailure, MarksRetrying
  <1>3. \A k \in Jobs :
            /\ job'[k].ver = job[k].ver /\ job'[k].op = job[k].op
            /\ \/ job'[k].status = job[k].status
               \/ JobRow(k) /\ job'[k].status = "retrying"
    BY <1>1, <1>2 DEF TypeInv, TypeOK, StoreTypeOK, AllJobs, JobRecord
  <1> QED
    BY <1>2, <1>3 DEF RowsMarked, JobRow, VersionRow

\* The deletion worker writes only its own job until the purge.
LEMMA DeletionMarks ==
    ASSUME TypeInv, NEW w \in Workers,
           ClaimDeletion(w) \/ StorageError(w) \/ MarkDeletionFailed(w)
    PROVE RowsMarked
  <1>1. UNCHANGED <<doc, version, chunks>>
    BY DEF ClaimDeletion, StorageError, MarkDeletionFailed
  <1>2. \A k \in Jobs : job'[k] = job[k]
    BY JobsAssumption DEF ClaimDeletion, StorageError, MarkDeletionFailed, TypeInv,
                          TypeOK, StoreTypeOK, AllJobs
  <1> QED
    BY <1>1, <1>2 DEF RowsMarked, JobRow, VersionRow

\* Every worker step marks, publishes or purges.
LEMMA WorkerRows ==
    ASSUME TypeInv, RowsLinked, NEW w \in Workers, WorkerStepOf(w)
    PROVE RowsMarked \/ Publish(w) \/ Purge(w)
  <1>1. CASE TaskStep(w)
    <2>1. UNCHANGED rows
      BY <1>1 DEF TaskStep, Retry, RetryLost, GiveUp, FailRead, SqlError, Acknowledge
    <2> QED
      BY <2>1, UnchangedMarks
  <1>2. CASE IngestionStep(w)
    <2>1. \/ Claim(w) \/ MarkFailed(w) \/ TransientFailure(w) \/ Publish(w)
          \/ UNCHANGED rows
      BY <1>2 DEF IngestionStep, Begin, ClaimFails, Prepare, SourceMissing,
                  PermanentFailure, PublishRefused, MarkFailedRefused
    <2> QED
      BY <2>1, ClaimMarks, MarkFailedMarks, TransientFailureMarks, UnchangedMarks
  <1>3. CASE DeletionStep(w)
    <2>1. \/ ClaimDeletion(w) \/ StorageError(w) \/ MarkDeletionFailed(w) \/ Purge(w)
          \/ UNCHANGED rows
      BY <1>3 DEF DeletionStep, BeginDeletion, RemoveSource, PurgeRefused
    <2> QED
      BY <2>1, DeletionMarks, UnchangedMarks
  <1> QED
    BY <1>1, <1>2, <1>3 DEF WorkerStepOf

Commit(c) ==
    CommitUpload(c) \/ CommitReplacement(c) \/ CommitReindex(c) \/ AcceptDeletion(c)

\* A request changes rows only in its commit.
LEMMA ApiRows ==
    ASSUME NEW c \in Clients, ApiStep(c) PROVE UNCHANGED rows \/ Commit(c)
  BY DEF ApiStep, Commit, StoreUpload, StoreReplacement, LoadReindex, Refuse,
         ReplacementQueryFails, DiscardUnsure, PublishJob, PublishJobFails, AbandonRequest

\* The broker and the reconciler change no row.
LEMMA BrokerRows == ASSUME BrokerStep PROVE UNCHANGED rows
  BY DEF BrokerStep, WorkerLost, TaskKilled, Redeliver, LoseMessages, RepublishStale

\* The row changes of Next, as named steps.
LEMMA RowSteps ==
    ASSUME TypeInv, RowsLinked, [Next]_vars
    PROVE \/ RowsMarked
          \/ \E w \in Workers : Publish(w) \/ Purge(w)
          \/ \E c \in Clients : Commit(c)
  <1>1. CASE Next
    BY <1>1, WorkerRows, ApiRows, BrokerRows, UnchangedMarks DEF Next
  <1>2. CASE UNCHANGED vars
    BY <1>2, UnchangedMarks DEF vars
  <1> QED
    BY <1>1, <1>2

-----------------------------------------------------------------------------
(* What publication, the purge and the commit of a request do to the rows. *)

RowsPublished(j, v) ==
    /\ j \in Jobs /\ v \in Jobs /\ v = job[j].ver /\ JobRow(j) /\ VersionRow(v)
    /\ chunks' = chunks \cup {j} /\ doc'.active = v /\ doc'.status = "available"
    /\ \A k \in Jobs :
        /\ job'[k].ver = job[k].ver /\ job'[k].op = job[k].op
        /\ job'[k].status = IF k = j THEN "succeeded" ELSE job[k].status
    /\ version'[v].gen = j
    /\ \A u \in Jobs : VersionRow(u)' <=> VersionRow(u)

\* What the publication transaction does to the rows.
LEMMA PublishRows ==
    ASSUME TypeInv, PointersResolve, NEW w \in Workers, Publish(w)
    PROVE RowsPublished(Job(w), job[Job(w)].ver)
  <1> DEFINE j == Job(w)
             v == job[j].ver
  <1>1. j \in Jobs /\ v \in Jobs
    BY DEF TypeInv, LockHeld, Publish, At, Attempting, TypeOK, StoreTypeOK, AllJobs,
           JobRecord
  <1>2. JobRow(j) /\ VersionRow(v)
    BY DEF Publish, PublicationStale
  <1>3. chunks' = chunks \cup {j} /\ doc'.active = v /\ doc'.status = "available"
    BY DEF Publish, Indexed, TypeInv, TypeOK, StoreTypeOK, DocumentRecord
  <1>4. \A k \in Jobs :
            /\ job'[k].ver = job[k].ver /\ job'[k].op = job[k].op
            /\ job'[k].status = IF k = j THEN "succeeded" ELSE job[k].status
    BY <1>1 DEF Publish, TypeInv, TypeOK, StoreTypeOK, AllJobs, JobRecord
  <1>5. version'[v].gen = j
    BY <1>1 DEF Publish, ActivatedVersions, TypeInv, TypeOK, StoreTypeOK, VersionRecord
  <1>6. \A u \in Jobs : VersionRow(u)' <=> VersionRow(u)
    <2> SUFFICES ASSUME NEW u \in Jobs PROVE VersionRow(u)' <=> VersionRow(u)
      OBVIOUS
    <2>1. version[u] \in VersionRecord
      BY DEF TypeInv, TypeOK, StoreTypeOK
    <2>2. version'[u] = ActivatedVersions(j)[u]
      BY DEF Publish
    <2>3. CASE u = v
      BY <2>1, <2>2, <2>3, <1>2 DEF ActivatedVersions, VersionRow, VersionRecord
    <2>4. CASE u # v /\ u = doc.active
      <3>1. VersionRow(u)
        BY <2>4 DEF PointersResolve
      <3> QED
        BY <2>1, <2>2, <2>4, <3>1 DEF ActivatedVersions, VersionRow, VersionRecord
    <2>5. CASE u # v /\ u # doc.active
      BY <2>2, <2>5 DEF ActivatedVersions, VersionRow
    <2> QED
      BY <2>3, <2>4, <2>5
  <1> QED
    BY <1>1, <1>2, <1>3, <1>4, <1>5, <1>6 DEF RowsPublished

RowsPurged ==
    /\ chunks' = {} /\ doc'.active = None /\ doc'.status = "deleted"
    /\ \A j \in Jobs :
        /\ job'[j].ver = job[j].ver /\ job'[j].op = job[j].op
        /\ job'[j].status = IF JobRow(j) THEN "purged" ELSE job[j].status
    /\ \A v \in Jobs : ~VersionRow(v)'

\* What the purge transaction does to the rows.
LEMMA PurgeRows ==
    ASSUME TypeInv, NEW w \in Workers, Purge(w) PROVE RowsPurged
  <1>1. chunks' = {} /\ doc'.active = None /\ doc'.status = "deleted"
    BY DEF Purge, Tombstone, TypeInv, TypeOK, StoreTypeOK, DocumentRecord
  <1>2. \A j \in Jobs :
            /\ job'[j].ver = job[j].ver /\ job'[j].op = job[j].op
            /\ job'[j].status = IF JobRow(j) THEN "purged" ELSE job[j].status
    <2> SUFFICES ASSUME NEW j \in Jobs
                 PROVE /\ job'[j].ver = job[j].ver /\ job'[j].op = job[j].op
                       /\ job'[j].status = IF JobRow(j) THEN "purged" ELSE job[j].status
      OBVIOUS
    <2>1. job[j] \in JobRecord /\ job'[j] = PurgedJobs[j] /\ j # Deletion /\ j \in AllJobs
      BY JobsAssumption DEF Purge, TypeInv, TypeOK, StoreTypeOK, AllJobs
    <2> QED
      BY <2>1 DEF PurgedJobs, JobRecord
  <1>3. \A v \in Jobs : ~VersionRow(v)'
    BY DEF Purge, VersionRow, NoVersion
  <1> QED
    BY <1>1, <1>2, <1>3 DEF RowsPurged

(* An upload, a replacement (v = j) or a reindex of version v.             *)
RowsInserted(j, v) ==
    /\ j \in Jobs /\ v \in Jobs /\ chunks' = chunks /\ doc'.active = doc.active
    /\ doc'.status = "deleted" => doc.status = "deleted"
    /\ job'[j].status = "queued" /\ job'[j].ver = v
    /\ \A k \in Jobs : k # j => job'[k] = job[k]
    /\ \A u \in Jobs : u # j => version'[u] = version[u]
    /\ \A u \in Jobs : VersionRow(u)' <=> VersionRow(u) \/ (u = v /\ v = j)
    /\ v # j => VersionRow(v)

Inserts(c) == CommitUpload(c) \/ CommitReplacement(c) \/ CommitReindex(c)

\* What a committed upload, replacement or reindex does to the rows.
LEMMA InsertRows ==
    ASSUME TypeInv, FreshRequests, RowsLinked, NEW c \in Clients, Inserts(c),
           NEW j, j = request[c].job
    PROVE /\ request[c].step = "loaded" /\ j \in Jobs
          /\ \E v \in Jobs : RowsInserted(j, v) /\ (v = j \/ request[c].op = "reindex")
  <1>1. request[c].step = "loaded"
    BY DEF Inserts, CommitUpload, CommitReplacement, CommitReindex, RequestAt
  <1>2. j \in Jobs /\ ~VersionRow(j) /\ (CommitUpload(c) => j = Initial)
    BY <1>1 DEF TypeInv, RequestsNamed, FreshRequests, RowsLinked, CommitUpload, RequestAt
  <1>3. CASE CommitReindex(c)
    <2>1. PICK v : v = request[c].active
      OBVIOUS
    <2>2. v \in Jobs /\ VersionRow(v) /\ request[c].op = "reindex"
      BY <1>1, <1>3, <2>1 DEF TypeInv, RequestsNamed, CommitReindex, RequestAt,
                              ReindexAllowed
    <2>3. UNCHANGED <<doc, version, chunks>>
          /\ job' = [job EXCEPT ![j] = [status |-> "queued", op |-> "reindex", ver |-> v]]
      BY <1>3, <2>1 DEF CommitReindex, InsertJob
    <2>4. /\ job'[j].status = "queued" /\ job'[j].ver = v
          /\ \A k \in Jobs : k # j => job'[k] = job[k]
      BY <1>2, <2>3 DEF TypeInv, TypeOK, StoreTypeOK, AllJobs
    <2>5. RowsInserted(j, v)
      BY <1>2, <2>2, <2>3, <2>4 DEF RowsInserted, VersionRow
    <2> QED
      BY <1>1, <1>2, <2>2, <2>5
  <1>4. CASE CommitUpload(c) \/ CommitReplacement(c)
    <2>1. /\ chunks' = chunks /\ doc'.active = doc.active
          /\ doc'.status = "deleted" => doc.status = "deleted"
      BY <1>4 DEF CommitUpload, CommitReplacement, TypeInv, TypeOK, StoreTypeOK,
                  DocumentRecord
    <2>2. PICK op, n :
            /\ job' = [job EXCEPT ![j] = [status |-> "queued", op |-> op, ver |-> j]]
            /\ version' = [version EXCEPT ![j] =
                            [status |-> "pending", gen |-> None, number |-> n,
                             failed |-> FALSE]]
      <3>1. CASE CommitUpload(c)
        BY <1>2, <3>1 DEF CommitUpload, InsertJob, InsertVersion
      <3>2. CASE CommitReplacement(c)
        BY <1>2, <3>2 DEF CommitReplacement, InsertJob, InsertVersion
      <3> QED
        BY <1>4, <3>1, <3>2
    <2>3. /\ job'[j].status = "queued" /\ job'[j].ver = j
          /\ \A k \in Jobs : k # j => job'[k] = job[k]
      BY <1>2, <2>2 DEF TypeInv, TypeOK, StoreTypeOK, AllJobs
    <2>4. /\ version'[j].status = "pending"
          /\ \A u \in Jobs : u # j => version'[u] = version[u]
      BY <1>2, <2>2 DEF TypeInv, TypeOK, StoreTypeOK
    <2>5. RowsInserted(j, j)
      BY <1>2, <2>1, <2>3, <2>4 DEF RowsInserted, VersionRow
    <2> QED
      BY <1>1, <1>2, <2>5
  <1> QED
    BY <1>3, <1>4 DEF Inserts

\* Accepting a deletion marks the document and inserts no version.
LEMMA AcceptRows ==
    ASSUME TypeInv, NEW c \in Clients, AcceptDeletion(c)
    PROVE /\ RowsMarked /\ doc'.status = "deleting"
          /\ job[Deletion].status = "none" /\ job'[Deletion].status # "none"
  <1>1. UNCHANGED <<version, chunks>> /\ job[Deletion].status = "none"
        /\ doc'.active = doc.active /\ doc'.status = "deleting"
    BY DEF AcceptDeletion, TypeInv, TypeOK, StoreTypeOK, DocumentRecord
  <1>2. job'[Deletion].status # "none" /\ \A k \in Jobs : job'[k] = job[k]
    BY JobsAssumption DEF AcceptDeletion, InsertJob, TypeInv, TypeOK, StoreTypeOK, AllJobs
  <1> QED
    BY <1>1, <1>2 DEF RowsMarked, JobRow, VersionRow

(* Every step moves statuses only, publishes, purges or inserts.           *)
LEMMA RowEffects ==
    ASSUME TypeInv, RowsLinked, PointersResolve, FreshRequests, [Next]_vars
    PROVE \/ RowsMarked
          \/ \E j, v \in Jobs : RowsPublished(j, v)
          \/ RowsPurged
          \/ \E j, v \in Jobs : RowsInserted(j, v) /\ job[j].status = "none"
  <1>1. CASE RowsMarked
    BY <1>1
  <1>2. ASSUME NEW w \in Workers, Publish(w) PROVE \E j, v \in Jobs : RowsPublished(j, v)
    BY <1>2, PublishRows DEF RowsPublished
  <1>3. ASSUME NEW w \in Workers, Purge(w) PROVE RowsPurged
    BY <1>3, PurgeRows
  <1>4. ASSUME NEW c \in Clients, Inserts(c)
        PROVE \E j, v \in Jobs : RowsInserted(j, v) /\ job[j].status = "none"
    <2>1. PICK j : j = request[c].job
      OBVIOUS
    <2>2. request[c].step = "loaded" /\ j \in Jobs /\ \E v \in Jobs : RowsInserted(j, v)
      BY <1>4, <2>1, InsertRows
    <2>3. job[j].status = "none"
      BY <2>1, <2>2 DEF FreshRequests
    <2> QED
      BY <2>2, <2>3
  <1> QED
    BY <1>1, <1>2, <1>3, <1>4, RowSteps, AcceptRows DEF Commit, Inserts

-----------------------------------------------------------------------------
(* The invariants on rows and chunks, each over the four kinds of step.    *)

RowInv == RowsLinked /\ PointersResolve /\ DeletedIsUnsearchable /\ SucceededIsIndexed

\* Job and version rows stay linked.
LEMMA RowsLinkedNext ==
    ASSUME TypeInv, RowInv, FreshRequests, [Next]_vars PROVE RowsLinked'
  <1>1. job \in [AllJobs -> JobRecord] /\ \A j \in Jobs : job[j].ver \in Jobs
    BY DEF TypeInv, TypeOK, StoreTypeOK, AllJobs, JobRecord
  <1>2. CASE RowsMarked
    BY <1>1, <1>2 DEF RowInv, RowsLinked, RowsMarked
  <1>3. ASSUME NEW j \in Jobs, NEW v \in Jobs, RowsPublished(j, v) PROVE RowsLinked'
    BY <1>1, <1>3 DEF RowInv, RowsLinked, RowsPublished, JobRow
  <1>4. CASE RowsPurged
    BY <1>4 DEF RowsLinked, RowsPurged, JobRow
  <1>5. ASSUME NEW j \in Jobs, NEW v \in Jobs, RowsInserted(j, v) PROVE RowsLinked'
    BY <1>1, <1>5 DEF RowInv, RowsLinked, RowsInserted, JobRow, VersionRow
  <1> QED
    BY <1>2, <1>3, <1>4, <1>5, RowEffects DEF RowInv

\* The active pointers keep resolving.
LEMMA PointersNext ==
    ASSUME TypeInv, RowInv, FreshRequests, [Next]_vars PROVE PointersResolve'
  <1>1. \A v \in Jobs : version[v].gen \in Jobs \cup {None}
    BY DEF TypeInv, TypeOK, StoreTypeOK, VersionRecord
  <1>2. None \notin Jobs
    BY JobsAssumption
  <1>3. CASE RowsMarked
    BY <1>1, <1>3 DEF RowInv, PointersResolve, RowsMarked
  <1>4. ASSUME NEW j \in Jobs, NEW v \in Jobs, RowsPublished(j, v) PROVE PointersResolve'
    <2>1. /\ j \in Jobs /\ j \in chunks' /\ doc'.active = v /\ version'[v].gen = j
          /\ job'[j].ver = v /\ VersionRow(v)'
      BY <1>4 DEF RowsPublished, VersionRow
    <2> QED
      BY <1>2, <2>1 DEF PointersResolve
  <1>5. CASE RowsPurged
    BY <1>2, <1>5 DEF PointersResolve, RowsPurged
  <1>6. ASSUME NEW j \in Jobs, NEW v \in Jobs, RowsInserted(j, v), job[j].status = "none"
        PROVE PointersResolve'
    <2> SUFFICES ASSUME NEW u \in Jobs, doc.active = u
                 PROVE /\ VersionRow(u)' /\ version'[u].gen # None
                       /\ version'[u].gen \in chunks /\ job'[version'[u].gen].ver = u
      BY <1>6 DEF PointersResolve, RowsInserted
    <2> DEFINE g == version[u].gen
    <2>1. VersionRow(u) /\ g \in Jobs /\ g \in chunks /\ job[g].ver = u
      BY <1>1 DEF RowInv, PointersResolve
    <2>2. u # j /\ g # j
      BY <2>1, <1>6 DEF RowInv, RowsLinked
    <2> QED
      BY <2>1, <2>2, <1>1, <1>2, <1>6 DEF RowInv, PointersResolve, RowsInserted
  <1> QED
    BY <1>3, <1>4, <1>5, <1>6, RowEffects DEF RowInv

\* A tombstone stays without pointer and chunks.
LEMMA DeletedNext ==
    ASSUME TypeInv, RowInv, FreshRequests, [Next]_vars PROVE DeletedIsUnsearchable'
  <1>1. CASE RowsMarked
    BY <1>1 DEF RowInv, DeletedIsUnsearchable, RowsMarked
  <1>2. ASSUME NEW j \in Jobs, NEW v \in Jobs, RowsPublished(j, v)
        PROVE DeletedIsUnsearchable'
    BY <1>2 DEF DeletedIsUnsearchable, RowsPublished
  <1>3. CASE RowsPurged
    BY <1>3 DEF DeletedIsUnsearchable, RowsPurged
  <1>4. ASSUME NEW j \in Jobs, NEW v \in Jobs, RowsInserted(j, v)
        PROVE DeletedIsUnsearchable'
    BY <1>4 DEF RowInv, DeletedIsUnsearchable, RowsInserted
  <1> QED
    BY <1>1, <1>2, <1>3, <1>4, RowEffects DEF RowInv

\* A succeeded job keeps its chunks.
LEMMA SucceededNext ==
    ASSUME TypeInv, RowInv, FreshRequests, [Next]_vars PROVE SucceededIsIndexed'
  <1>1. CASE RowsMarked
    BY <1>1 DEF RowInv, SucceededIsIndexed, RowsMarked
  <1>2. ASSUME NEW j \in Jobs, NEW v \in Jobs, RowsPublished(j, v)
        PROVE SucceededIsIndexed'
    BY <1>2 DEF RowInv, SucceededIsIndexed, RowsPublished
  <1>3. CASE RowsPurged
    BY <1>3 DEF SucceededIsIndexed, RowsPurged, JobRow
  <1>4. ASSUME NEW j \in Jobs, NEW v \in Jobs, RowsInserted(j, v)
        PROVE SucceededIsIndexed'
    BY <1>4 DEF RowInv, SucceededIsIndexed, RowsInserted
  <1> QED
    BY <1>1, <1>2, <1>3, <1>4, RowEffects DEF RowInv

(* A job row is inserted by the one request that was given its identity.   *)
LEMMA FreshNext ==
    ASSUME TypeInv, RowInv, FreshRequests, [Next]_vars PROVE FreshRequests'
  <1>1. request \in [Clients -> RequestRecord]
    BY DEF TypeInv, TypeOK, StoreTypeOK
  <1>2. \A d \in Clients : request[d].step = "loaded" => request[d].job \in Jobs
    BY DEF TypeInv, RequestsNamed
  <1>3. ASSUME UNCHANGED request,
               \A k \in Jobs : job[k].status = "none" => job'[k].status = "none"
        PROVE FreshRequests'
    BY <1>2, <1>3 DEF FreshRequests
  <1>4. ASSUME NEW c \in Clients, ApiStep(c) PROVE FreshRequests'
    <2>1. ASSUME NEW op, NEW j \in Jobs, Loaded(c, op, j), Fresh(j), UNCHANGED rows
          PROVE FreshRequests'
      <3>1. /\ request'[c].step = "loaded" /\ request'[c].job = j
            /\ \A d \in Clients : d # c => request'[d] = request[d]
        BY <2>1, <1>1 DEF Loaded
      <3> QED
        BY <3>1, <2>1 DEF FreshRequests, Fresh, rows
    <2>2. ASSUME Answered(c), UNCHANGED rows PROVE FreshRequests'
      <3>1. /\ request'[c].step = "idle"
            /\ \A d \in Clients : d # c => request'[d] = request[d]
        BY <2>2, <1>1 DEF Answered, IdleRequest
      <3> QED
        BY <3>1, <2>2 DEF FreshRequests, rows
    <2>3. CASE Inserts(c)
      <3>1. PICK j : j = request[c].job
        OBVIOUS
      <3>2. request[c].step = "loaded" /\ \E v \in Jobs : RowsInserted(j, v)
        BY <2>3, <3>1, InsertRows DEF RowInv
      <3>3. /\ request'[c].step # "loaded"
            /\ \A d \in Clients : d # c => request'[d] = request[d]
        BY <2>3, <3>1, <3>2, CommitReturnsStep
           DEF Inserts, CommitUpload, CommitReplacement, CommitReindex
      <3>4. \A d \in Clients : d # c /\ request[d].step = "loaded"
                => request[d].job # j /\ job'[request[d].job] = job[request[d].job]
        BY <1>2, <3>1, <3>2 DEF FreshRequests, RowsInserted
      <3> QED
        BY <3>3, <3>4 DEF FreshRequests
    <2>4. CASE AcceptDeletion(c)
      <3>1. /\ request'[c].step = "committed"
            /\ \A d \in Clients : d # c => request'[d] = request[d]
        BY <2>4, <1>1 DEF AcceptDeletion, IdleRequest
      <3>2. \A k \in Jobs : job'[k] = job[k]
        BY <2>4, JobsAssumption DEF AcceptDeletion, InsertJob, TypeInv, TypeOK,
                                    StoreTypeOK, AllJobs
      <3> QED
        BY <3>1, <3>2, <1>2 DEF FreshRequests
    <2>5. CASE ReplacementQueryFails(c) \/ DiscardUnsure(c)
      <3>1. /\ request'[c].step = "failed"
            /\ \A d \in Clients : d # c => request'[d] = request[d]
        BY <2>5, RequestMove DEF ReplacementQueryFails, RequestAt, DiscardUnsure, EndsInError
      <3>2. UNCHANGED job
        BY <2>5 DEF ReplacementQueryFails, DiscardUnsure, rows
      <3> QED
        BY <3>1, <3>2 DEF FreshRequests
    <2> QED
      BY <1>4, <2>1, <2>2, <2>3, <2>4, <2>5, JobsAssumption
         DEF ApiStep, Inserts, StoreUpload, StoreReplacement, LoadReindex, Refuse,
             PublishJob, PublishJobFails, AbandonRequest
  <1>5. ASSUME NEW w \in Workers, WorkerStepOf(w) PROVE FreshRequests'
    <2>1. UNCHANGED request
      BY <1>5 DEF WorkerStepOf, TaskStep, Retry, RetryLost, GiveUp, FailRead, SqlError,
              Acknowledge, IngestionStep, Begin, Claim, ClaimFails, Prepare,
              SourceMissing, PermanentFailure, TransientFailure, Publish,
              PublishRefused, MarkFailed, MarkFailedRefused, DeletionStep,
              BeginDeletion, ClaimDeletion, RemoveSource, StorageError, Purge,
              PurgeRefused, MarkDeletionFailed
    <2>2. CASE RowsMarked
      BY <2>1, <2>2, <1>3 DEF RowsMarked
    <2>3. CASE Publish(w)
      <3>1. \A k \in Jobs : job[k].status = "none" => job'[k].status = "none"
        BY <2>3, PublishRows DEF RowsPublished, RowInv, JobRow
      <3> QED
        BY <2>1, <3>1, <1>3
    <2>4. CASE Purge(w)
      <3>1. \A k \in Jobs : job[k].status = "none" => job'[k].status = "none"
        BY <2>4, PurgeRows DEF RowsPurged, JobRow
      <3> QED
        BY <2>1, <3>1, <1>3
    <2> QED
      BY <1>5, <2>2, <2>3, <2>4, WorkerRows DEF RowInv
  <1>6. CASE BrokerStep \/ UNCHANGED vars
    <2>1. UNCHANGED <<job, request>>
      BY <1>6 DEF BrokerStep, WorkerLost, TaskKilled, Redeliver, LoseMessages,
                  RepublishStale, rows, vars
    <2> QED
      BY <2>1, <1>3
  <1> QED
    BY <1>4, <1>5, <1>6 DEF Next

-----------------------------------------------------------------------------
(* At most one replacement or reindex is active.                           *)

UnderWay(j) == LifecycleJob(j) /\ job[j].status \in ActiveJobStatus

\* A change that puts one job under way, with no other under way, keeps uniqueness.
LEMMA OneMoreUnderWay ==
    ASSUME OneLifecycleOperation, NEW j \in Jobs,
           \A k \in Jobs : k # j /\ UnderWay(k)' => UnderWay(k),
           UnderWay(j)' => UnderWay(j) \/ \A k \in Jobs : k # j => ~UnderWay(k)
    PROVE OneLifecycleOperation'
  BY DEF OneLifecycleOperation, UnderWay

\* A change that puts no job under way keeps uniqueness.
LEMMA NoneMoreUnderWay ==
    ASSUME OneLifecycleOperation, \A k \in Jobs : UnderWay(k)' => UnderWay(k)
    PROVE OneLifecycleOperation'
  BY DEF OneLifecycleOperation, UnderWay

\* Worker steps keep at most one replacement or reindex under way.
LEMMA OneLifecycleWorker ==
    ASSUME TypeInv, RowInv, OneLifecycleOperation, NEW w \in Workers, WorkerStepOf(w)
    PROVE OneLifecycleOperation'
  <1>0. PICK j : j = Job(w)
    OBVIOUS
  <1>1. CASE Claim(w)
    <2>1. j \in Jobs
      BY <1>0, <1>1 DEF TypeInv, LockHeld, Claim, At, Attempting
    <2>2. \A k \in Jobs : k # j => job'[k] = job[k]
      BY <1>0, <1>1, <2>1 DEF Claim, TypeInv, TypeOK, StoreTypeOK, AllJobs
    <2>3. job'[j].status = ClaimedJob(w) /\ job'[j].op = job[j].op
      BY <1>0, <1>1, <2>1 DEF Claim, TypeInv, TypeOK, StoreTypeOK, AllJobs, JobRecord
    <2>4. UnderWay(j)' => ~LifecycleBusy(Jobs \ {j})
      BY <1>0, <1>1, <2>3 DEF Claim, ClaimRefused, UnderWay, LifecycleJob
    <2>5. UnderWay(j)' => \A k \in Jobs : k # j => ~UnderWay(k)
      BY <2>4 DEF LifecycleBusy, UnderWay
    <2> QED
      BY <2>1, <2>2, <2>5, OneMoreUnderWay DEF UnderWay, LifecycleJob
  <1>2. CASE TransientFailure(w)
    <2>1. j \in Jobs
      BY <1>0, <1>2 DEF TypeInv, LockHeld, TransientFailure, At, Attempting
    <2>2. CASE job' = job
      BY <2>2, NoneMoreUnderWay DEF UnderWay, LifecycleJob
    <2>3. CASE job' # job
      <3>1. ~RetryingRefused(j) /\ MarksRetrying(j)
            /\ job' = [job EXCEPT ![j].status = "retrying"]
        BY <1>0, <1>2, <2>3 DEF TransientFailure
      <3>2. \A k \in Jobs : k # j => job'[k] = job[k]
        BY <2>1, <3>1 DEF TypeInv, TypeOK, StoreTypeOK, AllJobs
      <3>3. job'[j].op = job[j].op
        BY <2>1, <3>1 DEF TypeInv, TypeOK, StoreTypeOK, AllJobs, JobRecord
      <3>4. UnderWay(j)' => \A k \in Jobs : k # j => ~UnderWay(k)
        BY <3>1, <3>3 DEF RetryingRefused, LifecycleBusy, UnderWay, LifecycleJob
      <3> QED
        BY <2>1, <3>2, <3>4, OneMoreUnderWay DEF UnderWay, LifecycleJob
    <2> QED
      BY <2>2, <2>3
  <1>3. CASE MarkFailed(w)
    <2>1. j \in Jobs
      BY <1>0, <1>3, MessageType DEF TypeInv, MarkFailed, AllJobs
    <2>2. \A k \in Jobs : /\ job'[k].op = job[k].op
                          /\ job'[k].status \in {job[k].status, "failed"}
      BY <1>0, <1>3, <2>1 DEF MarkFailed, Flushed, TypeInv, TypeOK, StoreTypeOK, AllJobs,
                        JobRecord
    <2> QED
      BY <2>2, NoneMoreUnderWay DEF UnderWay, LifecycleJob, ActiveJobStatus
  <1>4. CASE Publish(w)
    <2>1. \A k \in Jobs : /\ job'[k].op = job[k].op
                          /\ job'[k].status \in {job[k].status, "succeeded"}
      BY <1>4, PublishRows DEF RowInv, RowsPublished
    <2> QED
      BY <2>1, NoneMoreUnderWay DEF UnderWay, LifecycleJob, ActiveJobStatus
  <1>5. CASE Purge(w)
    <2>1. \A k \in Jobs : /\ job'[k].op = job[k].op
                          /\ job'[k].status \in {job[k].status, "purged"}
      BY <1>5, PurgeRows DEF RowsPurged
    <2> QED
      BY <2>1, NoneMoreUnderWay DEF UnderWay, LifecycleJob, ActiveJobStatus
  <1>6. CASE \A k \in Jobs : job'[k] = job[k]
    BY <1>6, NoneMoreUnderWay DEF UnderWay, LifecycleJob
  <1>7. CASE ClaimDeletion(w) \/ StorageError(w) \/ MarkDeletionFailed(w)
    <2>1. \A k \in Jobs : job'[k] = job[k]
      BY <1>7, JobsAssumption DEF ClaimDeletion, StorageError, MarkDeletionFailed,
               TypeInv, TypeOK, StoreTypeOK, AllJobs
    <2> QED
      BY <2>1, <1>6
  <1>8. CASE UNCHANGED rows
    BY <1>8, <1>6 DEF rows
  <1> QED
    BY <1>1, <1>2, <1>3, <1>4, <1>5, <1>7, <1>8
       DEF WorkerStepOf, TaskStep, Retry, RetryLost, GiveUp, FailRead, SqlError,
           Acknowledge, IngestionStep, Begin, ClaimFails, Prepare, SourceMissing,
           PermanentFailure, PublishRefused, MarkFailedRefused, DeletionStep,
           BeginDeletion, RemoveSource, PurgeRefused

\* Every step keeps at most one replacement or reindex under way.
LEMMA OneLifecycleNext ==
    ASSUME TypeInv, RowInv, FreshRequests, OneLifecycleOperation, [Next]_vars
    PROVE OneLifecycleOperation'
  <1>1. CASE UNCHANGED rows
    BY <1>1, NoneMoreUnderWay DEF UnderWay, LifecycleJob, rows
  <1>2. ASSUME NEW c \in Clients, Commit(c) PROVE OneLifecycleOperation'
    <2>1. CASE AcceptDeletion(c)
      <3>1. \A k \in Jobs : job'[k] = job[k]
        BY <2>1, JobsAssumption DEF AcceptDeletion, InsertJob, TypeInv, TypeOK,
                                    StoreTypeOK, AllJobs
      <3> QED
        BY <3>1, NoneMoreUnderWay DEF UnderWay, LifecycleJob
    <2>2. CASE Inserts(c)
      <3>1. PICK j : j = request[c].job
        OBVIOUS
      <3>2. request[c].step = "loaded" /\ j \in Jobs
            /\ \A k \in Jobs : k # j => job'[k] = job[k]
        BY <2>2, <3>1, InsertRows DEF RowInv, RowsInserted
      <3>3. CASE CommitUpload(c)
        <4>1. j = Initial
          BY <3>1, <3>2, <3>3 DEF TypeInv, RequestsNamed, CommitUpload, RequestAt
        <4>2. job'[j].op = "initial_ingestion"
          BY <3>2, <3>3, <4>1 DEF CommitUpload, InsertJob, TypeInv, TypeOK, StoreTypeOK,
                                  AllJobs
        <4> QED
          BY <3>2, <4>2 DEF OneLifecycleOperation, LifecycleJob
      <3>4. CASE CommitReplacement(c) \/ CommitReindex(c)
        <4>1. ~LifecycleBusy(Jobs)
          BY <3>4 DEF CommitReplacement, ReplacementAllowed, CommitReindex, ReindexAllowed
        <4> QED
          BY <3>2, <4>1 DEF OneLifecycleOperation, LifecycleBusy, LifecycleJob
      <3> QED
        BY <2>2, <3>3, <3>4 DEF Inserts
    <2> QED
      BY <1>2, <2>1, <2>2 DEF Commit, Inserts
  <1>3. CASE Next
    BY <1>1, <1>2, <1>3, OneLifecycleWorker, ApiRows, BrokerRows DEF Next
  <1>4. CASE UNCHANGED vars
    BY <1>1, <1>4 DEF vars
  <1> QED
    BY <1>3, <1>4

-----------------------------------------------------------------------------
(* Sources stay until a deletion is accepted.                              *)

\* An accepted deletion is never forgotten.
LEMMA AcceptedStays ==
    ASSUME TypeInv, RowInv, FreshRequests, [Next]_vars, job[Deletion].status # "none"
    PROVE job'[Deletion].status # "none"
  <1>1. CASE job'[Deletion] = job[Deletion]
    BY <1>1
  <1>2. ASSUME NEW w \in Workers, Claim(w) \/ TransientFailure(w) \/ Publish(w)
                                  \/ MarkFailed(w)
        PROVE job'[Deletion] = job[Deletion]
    <2>1. Job(w) # Deletion
      BY <1>2, JobsAssumption
         DEF TypeInv, LockHeld, Claim, TransientFailure, Publish, MarkFailed, At, Attempting
    <2> QED
      BY <1>2, <2>1 DEF Claim, TransientFailure, Publish, MarkFailed, TypeInv, TypeOK,
                        StoreTypeOK, AllJobs
  <1>3. ASSUME NEW w \in Workers, ClaimDeletion(w) \/ StorageError(w) \/ Purge(w)
                                  \/ MarkDeletionFailed(w)
        PROVE job'[Deletion].status # "none"
    <2>1. Deletion \in AllJobs /\ job[Deletion] \in JobRecord
      BY DEF TypeInv, TypeOK, StoreTypeOK, AllJobs
    <2>2. CASE Purge(w)
      BY <2>1, <2>2 DEF Purge, PurgedJobs, JobRecord
    <2>3. CASE ClaimDeletion(w) \/ StorageError(w) \/ MarkDeletionFailed(w)
      BY <2>1, <2>3 DEF ClaimDeletion, StorageError, AfterStorageError,
                        MarkDeletionFailed, Flushed, TypeInv, TypeOK, StoreTypeOK,
                        JobRecord
    <2> QED
      BY <1>3, <2>2, <2>3
  <1>4. ASSUME NEW c \in Clients, Inserts(c) PROVE job'[Deletion] = job[Deletion]
    <2>1. PICK j : j = request[c].job
      OBVIOUS
    <2>2. j # Deletion /\ (CommitUpload(c) => j = Initial)
      BY <1>4, <2>1, JobsAssumption DEF Inserts, CommitUpload, CommitReplacement,
         CommitReindex, RequestAt, TypeInv, RequestsNamed
    <2> QED
      BY <1>4, <2>1, <2>2 DEF Inserts, CommitUpload, CommitReplacement, CommitReindex,
         InsertJob, TypeInv, TypeOK, StoreTypeOK, AllJobs
  <1>5. ASSUME NEW c \in Clients, AcceptDeletion(c) PROVE FALSE
    BY <1>5 DEF AcceptDeletion
  <1>6. CASE UNCHANGED rows
    BY <1>6 DEF rows
  <1>7. ASSUME NEW w \in Workers, WorkerStepOf(w)
        PROVE \/ UNCHANGED rows
              \/ Claim(w) \/ TransientFailure(w) \/ Publish(w) \/ MarkFailed(w)
              \/ ClaimDeletion(w) \/ StorageError(w) \/ Purge(w) \/ MarkDeletionFailed(w)
    BY <1>7 DEF WorkerStepOf, TaskStep, Retry, RetryLost, GiveUp, FailRead, SqlError,
           Acknowledge, IngestionStep, Begin, ClaimFails, Prepare, SourceMissing,
           PermanentFailure, PublishRefused, MarkFailedRefused, DeletionStep,
           BeginDeletion, RemoveSource, PurgeRefused
  <1>8. CASE Next
    BY <1>2, <1>3, <1>4, <1>5, <1>6, <1>7, <1>8, ApiRows, BrokerRows
       DEF Next, Commit, Inserts
  <1>9. CASE UNCHANGED vars
    BY <1>6, <1>9 DEF vars
  <1> QED
    BY <1>8, <1>9

(* A worker is in the deletion task only after BeginDeletion saw its job.  *)
LEMMA DeletionAcceptedNext ==
    ASSUME TypeInv, RowInv, FreshRequests, DeletionAccepted, [Next]_vars
    PROVE DeletionAccepted'
  <1>1. worker \in [Workers -> WorkerRecord]
    BY DEF TypeInv, TypeOK, StoreTypeOK
  <1>2. ASSUME \A u \in Workers : worker'[u].step \in DeletionAttempt =>
                    worker[u].step \in DeletionAttempt \/ job[Deletion].status # "none"
        PROVE DeletionAccepted'
    BY <1>2, AcceptedStays DEF DeletionAccepted
  <1>3. CASE UNCHANGED worker
    BY <1>2, <1>3
  <1>4. ASSUME NEW w \in Workers, WorkerStepOf(w)
        PROVE \A u \in Workers : worker'[u].step \in DeletionAttempt =>
                    worker[u].step \in DeletionAttempt \/ job[Deletion].status # "none"
    <2> SUFFICES ASSUME NEW u \in Workers
                 PROVE worker'[u].step \in DeletionAttempt =>
                       worker[u].step \in DeletionAttempt \/ job[Deletion].status # "none"
      OBVIOUS
    <2>1. CASE TaskStep(w)
      BY <2>1, <1>1 DEF TaskStep, Retry, RetryLost, GiveUp, FailRead, SqlError, Raise,
         Acknowledge, Idle, IdleWorker, Goto, GotoWith, DeletionAttempt, WorkerRecord
    <2>2. CASE IngestionStep(w)
      <3>1. CASE \E m \in queue : Begin(w, m)
        BY <3>1, <1>1 DEF Begin, DeletionAttempt
      <3>2. CASE ~\E m \in queue : Begin(w, m)
        BY <2>2, <3>2, <1>1 DEF IngestionStep, Claim, ClaimFails, Prepare, SourceMissing,
           PermanentFailure, TransientFailure, Publish, PublishRefused, MarkFailed,
           MarkFailedRefused, Raise, Goto, GotoWith, DeletionAttempt, WorkerRecord
      <3> QED
        BY <3>1, <3>2
    <2>3. CASE DeletionStep(w)
      <3>1. ASSUME NEW m \in queue, BeginDeletion(w, m)
            PROVE worker'[u].step \in DeletionAttempt =>
                  worker[u].step \in DeletionAttempt \/ job[Deletion].status # "none"
        BY <3>1, <1>1 DEF BeginDeletion, DeletionStops, Read, DeletionAttempt
      <3>2. CASE ~\E m \in queue : BeginDeletion(w, m)
        BY <2>3, <3>2, <1>1 DEF DeletionStep, ClaimDeletion, RemoveSource, StorageError,
           Purge, PurgeRefused, MarkDeletionFailed, Goto, GotoWith, At, DeletionAttempt,
           WorkerRecord
      <3> QED
        BY <3>1, <3>2
    <2> QED
      BY <1>4, <2>1, <2>2, <2>3 DEF WorkerStepOf
  <1>5. CASE BrokerStep
    <2>1. ASSUME NEW w \in Workers, WorkerLost(w) \/ TaskKilled(w)
          PROVE DeletionAccepted'
      <3>1. /\ worker'[w].step = "idle"
            /\ \A u \in Workers : u # w => worker'[u] = worker[u]
        BY <2>1, <1>1 DEF WorkerLost, TaskKilled, Idle, IdleWorker
      <3> QED
        BY <3>1, <1>2 DEF DeletionAttempt
    <2> QED
      BY <1>5, <1>3, <2>1 DEF BrokerStep, Redeliver, LoseMessages, RepublishStale
  <1>6. ASSUME NEW c \in Clients, ApiStep(c) PROVE UNCHANGED worker
    BY <1>6 DEF ApiStep, StoreUpload, CommitUpload, StoreReplacement, CommitReplacement,
       LoadReindex, CommitReindex, Refuse, ReplacementQueryFails, DiscardUnsure,
       AcceptDeletion, PublishJob, PublishJobFails, AbandonRequest
  <1>7. CASE UNCHANGED vars
    BY <1>7, <1>3 DEF vars
  <1> QED
    BY <1>2, <1>3, <1>4, <1>5, <1>6, <1>7 DEF Next

\* A request ends unsure by its own commit, and keeps its job.
LEMMA UnsureSteps ==
    ASSUME TypeInv, [Next]_vars, NEW c \in Clients, request'[c].step = "unsure"
    PROVE request'[c] = request[c] \/ (Inserts(c) /\ request'[c].job = request[c].job)
  <1>1. request \in [Clients -> RequestRecord]
    BY DEF TypeInv, TypeOK, StoreTypeOK
  <1>2. ASSUME NEW d \in Clients, ApiStep(d)
        PROVE request'[c] = request[c] \/ (Inserts(c) /\ request'[c].job = request[c].job)
    <2>1. CASE d # c
      BY <2>1, <1>1, <1>2 DEF ApiStep, StoreUpload, CommitUpload, StoreReplacement,
         CommitReplacement, LoadReindex, CommitReindex, Refuse, ReplacementQueryFails,
         DiscardUnsure, AcceptDeletion, PublishJob, PublishJobFails, AbandonRequest,
         Loaded, Committed, CommitReturns, EndsInError, Answered
    <2>2. CASE d = c
      <3>1. CASE Inserts(c)
        BY <3>1, CommitReturnsStep DEF Inserts, CommitUpload, CommitReplacement,
           CommitReindex, RequestAt
      <3>2. ASSUME NEW op, NEW j, Loaded(c, op, j) PROVE FALSE
        BY <3>2, <1>1 DEF Loaded
      <3>3. ASSUME EndsInError(c) \/ Answered(c) PROVE FALSE
        BY <3>3, <1>1 DEF EndsInError, Answered, IdleRequest, RequestRecord
      <3>4. ASSUME AcceptDeletion(c) PROVE FALSE
        BY <3>4, <1>1 DEF AcceptDeletion, IdleRequest
      <3> QED
        BY <2>2, <3>1, <3>2, <3>3, <3>4, <1>2
           DEF Inserts, ApiStep, StoreUpload, StoreReplacement, LoadReindex, Refuse,
               ReplacementQueryFails, DiscardUnsure, PublishJob, PublishJobFails,
               AbandonRequest
    <2> QED
      BY <2>1, <2>2
  <1>3. ASSUME NEW w \in Workers, WorkerStepOf(w) PROVE UNCHANGED request
    BY <1>3 DEF WorkerStepOf, TaskStep, Retry, RetryLost, GiveUp, FailRead, SqlError,
       Acknowledge, IngestionStep, Begin, Claim, ClaimFails, Prepare, SourceMissing,
       PermanentFailure, TransientFailure, Publish, PublishRefused, MarkFailed,
       MarkFailedRefused, DeletionStep, BeginDeletion, ClaimDeletion, RemoveSource,
       StorageError, Purge, PurgeRefused, MarkDeletionFailed
  <1>4. CASE BrokerStep \/ UNCHANGED vars
    BY <1>4 DEF BrokerStep, WorkerLost, TaskKilled, Redeliver, LoseMessages,
       RepublishStale, vars
  <1> QED
    BY <1>2, <1>3, <1>4 DEF Next

\* A request that does not know whether it committed did.
LEMMA UnsureNext ==
    ASSUME TypeInv, RowInv, FreshRequests, UnsureCommitted, [Next]_vars
    PROVE UnsureCommitted'
  <1> SUFFICES ASSUME NEW c \in Clients, request'[c].step = "unsure"
               PROVE  (request[c].job \in Jobs /\ job[request[c].job].status # "none")'
    BY DEF UnsureCommitted
  <1>1. CASE request'[c] = request[c]
    <2>1. PICK j \in Jobs : j = request[c].job /\ job[j].status # "none"
      BY <1>1 DEF UnsureCommitted
    <2>2. job'[j].status # "none"
      BY <2>1, RowEffects DEF RowInv, RowsMarked, RowsPublished, RowsPurged,
                              RowsInserted, JobRow
    <2> QED
      BY <1>1, <2>1, <2>2
  <1>2. CASE Inserts(c) /\ request'[c].job = request[c].job
    <2>1. PICK j : j = request[c].job
      OBVIOUS
    <2>2. j \in Jobs /\ \E v \in Jobs : RowsInserted(j, v)
      BY <1>2, <2>1, InsertRows DEF RowInv
    <2> QED
      BY <1>2, <2>1, <2>2 DEF RowsInserted
  <1> QED
    BY <1>1, <1>2, UnsureSteps

\* What a client was told is not taken back.
LEMMA FailedStays ==
    ASSUME TypeInv, [Next]_vars, NEW c \in Clients, request[c].step = "failed"
    PROVE request'[c] = request[c]
  <1>1. request \in [Clients -> RequestRecord]
    BY DEF TypeInv, TypeOK, StoreTypeOK
  <1>2. ASSUME NEW d \in Clients, ApiStep(d) PROVE request'[c] = request[c]
    <2>1. CASE d # c
      BY <2>1, <1>1, <1>2 DEF ApiStep, StoreUpload, CommitUpload, StoreReplacement,
         CommitReplacement, LoadReindex, CommitReindex, Refuse, ReplacementQueryFails,
         DiscardUnsure, AcceptDeletion, PublishJob, PublishJobFails, AbandonRequest,
         Loaded, Committed, CommitReturns, EndsInError, Answered
    <2>2. CASE d = c
      BY <2>2, <1>2 DEF ApiStep, StoreUpload, CommitUpload, StoreReplacement,
         CommitReplacement, LoadReindex, CommitReindex, Refuse, ReplacementQueryFails,
         DiscardUnsure, AcceptDeletion, PublishJob, PublishJobFails, AbandonRequest,
         Asks, RequestAt
    <2> QED
      BY <2>1, <2>2
  <1>3. ASSUME NEW w \in Workers, WorkerStepOf(w) PROVE UNCHANGED request
    BY <1>3 DEF WorkerStepOf, TaskStep, Retry, RetryLost, GiveUp, FailRead, SqlError,
       Acknowledge, IngestionStep, Begin, Claim, ClaimFails, Prepare, SourceMissing,
       PermanentFailure, TransientFailure, Publish, PublishRefused, MarkFailed,
       MarkFailedRefused, DeletionStep, BeginDeletion, ClaimDeletion, RemoveSource,
       StorageError, Purge, PurgeRefused, MarkDeletionFailed
  <1>4. CASE BrokerStep \/ UNCHANGED vars
    BY <1>4 DEF BrokerStep, WorkerLost, TaskKilled, Redeliver, LoseMessages,
       RepublishStale, vars
  <1> QED
    BY <1>2, <1>3, <1>4 DEF Next

(* Only the deletion task, a refused request and one that lost the         *)
(* acknowledgement of its commit remove a source.                          *)
LEMMA FilesKept ==
    ASSUME DeletionAccepted, job[Deletion].status = "none", [Next]_vars
    PROVE files \subseteq files' \/ \E c \in Clients : Refuse(c) \/ DiscardUnsure(c)
  <1>1. ASSUME NEW w \in Workers, RemoveSource(w) PROVE FALSE
    BY <1>1 DEF RemoveSource, At, DeletionAccepted, DeletionAttempt
  <1>2. ASSUME NEW w \in Workers, WorkerStepOf(w) PROVE UNCHANGED files
    BY <1>1, <1>2 DEF WorkerStepOf, TaskStep, Retry, RetryLost, GiveUp, FailRead, SqlError,
       Acknowledge, IngestionStep, Begin, Claim, ClaimFails, Prepare, SourceMissing,
       PermanentFailure, TransientFailure, Publish, PublishRefused, MarkFailed,
       MarkFailedRefused, DeletionStep, BeginDeletion, ClaimDeletion, StorageError,
       Purge, PurgeRefused, MarkDeletionFailed
  <1>3. ASSUME NEW c \in Clients, ApiStep(c)
        PROVE files \subseteq files' \/ Refuse(c) \/ DiscardUnsure(c)
    BY <1>3 DEF ApiStep, StoreUpload, CommitUpload, StoreReplacement, CommitReplacement,
       LoadReindex, CommitReindex, ReplacementQueryFails, AcceptDeletion, PublishJob, PublishJobFails,
       AbandonRequest
  <1>4. CASE BrokerStep \/ UNCHANGED vars
    BY <1>4 DEF BrokerStep, WorkerLost, TaskKilled, Redeliver, LoseMessages,
       RepublishStale, vars
  <1> QED
    BY <1>2, <1>3, <1>4 DEF Next

\* A refused request removes at most the object it stored.
LEMMA RefusedSource ==
    ASSUME NEW c \in Clients, Refuse(c), FreshRequests
    PROVE /\ UNCHANGED rows
          /\ files \ {request[c].job} \subseteq files'
          /\ request[c].step = "loaded" /\ job[request[c].job].status = "none"
  BY DEF Refuse, Discarded, FreshRequests

\* A stored source stays for its request until a deletion is accepted.
LEMMA StoredNext ==
    ASSUME TypeInv, RowInv, SourceInv, [Next]_vars PROVE StoredForRequest'
  <1> SUFFICES ASSUME job'[Deletion].status = "none", NEW d \in Clients,
                      request'[d].step = "loaded", request'[d].op # "reindex"
               PROVE  request'[d].job \in files'
    BY DEF StoredForRequest
  <1>1. job[Deletion].status = "none"
    BY AcceptedStays DEF SourceInv
  <1>2. request \in [Clients -> RequestRecord]
    BY DEF TypeInv, TypeOK, StoreTypeOK
  <1>3. CASE request'[d] = request[d]
    <2>1. request[d].job \in files
      BY <1>1, <1>3 DEF SourceInv, StoredForRequest
    <2>2. ASSUME NEW c \in Clients, Refuse(c) PROVE request[d].job \in files'
      <3>1. request'[c].step = "idle"
        BY <2>2, <1>2 DEF Refuse, Answered, IdleRequest
      <3>2. request[c].job # request[d].job
        BY <3>1, <2>2, <1>3, RefusedSource DEF SourceInv, FreshRequests
      <3> QED
        BY <2>1, <2>2, <3>2, RefusedSource DEF SourceInv
    <2>3. ASSUME NEW c \in Clients, DiscardUnsure(c) PROVE request[d].job \in files'
      <3>1. job[request[c].job].status # "none" /\ job[request[d].job].status = "none"
        BY <2>3, <1>3 DEF SourceInv, UnsureCommitted, FreshRequests, DiscardUnsure
      <3> QED
        BY <2>1, <2>3, <3>1 DEF DiscardUnsure
    <2> QED
      BY <1>1, <1>3, <2>1, <2>2, <2>3, FilesKept DEF SourceInv
  <1>4. CASE request'[d] # request[d]
    <2>1. ASSUME NEW c \in Clients, ApiStep(c), c # d PROVE FALSE
      BY <2>1, <1>2, <1>4 DEF ApiStep, StoreUpload, CommitUpload, StoreReplacement,
         CommitReplacement, LoadReindex, CommitReindex, Refuse, ReplacementQueryFails,
         DiscardUnsure, AcceptDeletion, PublishJob, PublishJobFails, AbandonRequest,
         Loaded, Committed, CommitReturns, EndsInError, Answered
    <2>2. ASSUME NEW w \in Workers, WorkerStepOf(w) PROVE FALSE
      BY <2>2, <1>4 DEF WorkerStepOf, TaskStep, Retry, RetryLost, GiveUp, FailRead,
         SqlError, Acknowledge, IngestionStep, Begin, Claim, ClaimFails, Prepare,
         SourceMissing, PermanentFailure, TransientFailure, Publish, PublishRefused,
         MarkFailed, MarkFailedRefused, DeletionStep, BeginDeletion, ClaimDeletion,
         RemoveSource, StorageError, Purge, PurgeRefused, MarkDeletionFailed
    <2>3. CASE BrokerStep \/ UNCHANGED vars
      BY <2>3, <1>4 DEF BrokerStep, WorkerLost, TaskKilled, Redeliver, LoseMessages,
         RepublishStale, vars
    <2>4. CASE ApiStep(d)
      <3>1. ASSUME NEW op, NEW j \in Jobs, Loaded(d, op, j), j \in files'
            PROVE request'[d].job \in files'
        BY <3>1, <1>2 DEF Loaded
      <3>2. ASSUME NEW j, Loaded(d, "reindex", j) PROVE FALSE
        BY <3>2, <1>2 DEF Loaded
      <3>3. ASSUME Committed(d) \/ CommitReturns(d) \/ EndsInError(d) \/ Answered(d)
            PROVE FALSE
        BY <3>3, <1>2 DEF Committed, CommitReturns, EndsInError, Answered, IdleRequest,
                          RequestRecord
      <3>4. ASSUME AcceptDeletion(d) PROVE FALSE
        BY <3>4, <1>2 DEF AcceptDeletion, IdleRequest
      <3> QED
        BY <2>4, <3>1, <3>2, <3>3, <3>4, JobsAssumption
           DEF ApiStep, StoreUpload, CommitUpload, StoreReplacement, CommitReplacement,
               LoadReindex, CommitReindex, Refuse, ReplacementQueryFails, DiscardUnsure,
               PublishJob, PublishJobFails, AbandonRequest
    <2> QED
      BY <2>1, <2>2, <2>3, <2>4 DEF Next
  <1> QED
    BY <1>3, <1>4

\* The source of a committed version stays until a deletion is accepted, unless its
\* client was told of an error.
LEMMA SourceKeptNext ==
    ASSUME TypeInv, RowInv, SourceInv, [Next]_vars PROVE CommittedSourceKept'
  <1> SUFFICES ASSUME job'[Deletion].status = "none", NEW v \in Jobs, VersionRow(v)',
                      ~\E c \in Clients : request'[c].step = "failed" /\ request'[c].job = v
               PROVE  v \in files'
    BY DEF CommittedSourceKept, ToldOfError
  <1>1. job[Deletion].status = "none"
    BY AcceptedStays DEF SourceInv
  <1>0. VersionRow(v) => v \in files
    <2>1. \A c \in Clients : ~ToldOfError(c, v)
      BY FailedStays DEF ToldOfError
    <2> QED
      BY <1>1, <2>1 DEF SourceInv, CommittedSourceKept
  <1>2. ASSUME NEW c \in Clients, Refuse(c) PROVE v \in files'
    <2>1. VersionRow(v)
      BY <1>2, RefusedSource DEF SourceInv, rows, VersionRow
    <2>2. request[c].job # v
      BY <1>2, <2>1, RefusedSource DEF SourceInv, RowInv, RowsLinked
    <2> QED
      BY <1>0, <1>2, <2>1, <2>2, RefusedSource DEF SourceInv
  <1>6. ASSUME NEW c \in Clients, DiscardUnsure(c), VersionRow(v) PROVE v \in files'
    <2>1. request'[c].step = "failed" /\ request'[c].job = request[c].job
      BY <1>6, RequestMove DEF DiscardUnsure, EndsInError
    <2>2. request[c].job # v
      BY <2>1
    <2> QED
      BY <1>0, <1>6, <2>2 DEF DiscardUnsure
  <1>3. ASSUME NEW c \in Clients, Inserts(c), ~VersionRow(v) PROVE v \in files
    <2>1. PICK j : j = request[c].job
      OBVIOUS
    <2>2. /\ request[c].step = "loaded"
          /\ \E u \in Jobs : RowsInserted(j, u) /\ (u = j \/ request[c].op = "reindex")
      BY <1>3, <2>1, InsertRows DEF SourceInv, RowInv
    <2>3. v = j
      BY <1>3, <2>2 DEF RowsInserted
    <2>4. request[c].op # "reindex"
      BY <1>3 DEF Inserts, CommitUpload, CommitReplacement, CommitReindex, RequestAt,
                  VersionRow
    <2> QED
      BY <1>1, <2>1, <2>2, <2>3, <2>4 DEF SourceInv, StoredForRequest
  <1>4. CASE VersionRow(v)
    BY <1>0, <1>1, <1>2, <1>4, <1>6, FilesKept DEF SourceInv
  <1>5. CASE ~VersionRow(v)
    <2>1. CASE RowsMarked
      BY <2>1, <1>5 DEF RowsMarked
    <2>2. ASSUME NEW w \in Workers, Publish(w) \/ Purge(w) PROVE FALSE
      BY <2>2, <1>5, PublishRows, PurgeRows DEF RowInv, RowsPublished, RowsPurged
    <2>3. ASSUME NEW c \in Clients, Commit(c) PROVE v \in files'
      <3>1. CASE AcceptDeletion(c)
        BY <3>1, <1>5, AcceptRows DEF RowsMarked
      <3>2. CASE Inserts(c)
        <4>1. UNCHANGED files
          BY <3>2 DEF Inserts, CommitUpload, CommitReplacement, CommitReindex
        <4> QED
          BY <3>2, <4>1, <1>3, <1>5
      <3> QED
        BY <2>3, <3>1, <3>2 DEF Commit, Inserts
    <2> QED
      BY <2>1, <2>2, <2>3, RowSteps DEF RowInv
  <1> QED
    BY <1>4, <1>5

-----------------------------------------------------------------------------
(* The inductive invariant.                                                *)

\* The initial state satisfies the invariant.
LEMMA InitInv == Init => IInv
  <1> SUFFICES ASSUME Init PROVE IInv
    OBVIOUS
  <1>1. TypeInv
    BY InitType
  <1>2. RowInv
    BY JobsAssumption DEF Init, RowInv, RowsLinked, PointersResolve,
       DeletedIsUnsearchable, SucceededIsIndexed, JobRow, VersionRow, NoVersion, AllJobs
  <1>3. OneLifecycleOperation
    BY DEF Init, OneLifecycleOperation, AllJobs, ActiveJobStatus
  <1>4. SourceInv
    BY DEF Init, SourceInv, FreshRequests, UnsureCommitted, DeletionAccepted, StoredForRequest,
           CommittedSourceKept, IdleRequest, IdleWorker, DeletionAttempt, VersionRow,
           NoVersion
  <1> QED
    BY <1>1, <1>2, <1>3, <1>4 DEF IInv, RowInv

\* Every step preserves the invariant.
LEMMA NextInv == IInv /\ [Next]_vars => IInv'
  <1> SUFFICES ASSUME IInv, [Next]_vars PROVE IInv'
    OBVIOUS
  <1>1. TypeInv /\ RowInv /\ FreshRequests /\ OneLifecycleOperation /\ SourceInv
    BY DEF IInv, RowInv, SourceInv
  <1>2. TypeInv'
    BY <1>1, NextType
  <1>3. RowInv'
    BY <1>1, RowsLinkedNext, PointersNext, DeletedNext, SucceededNext DEF RowInv
  <1>4. OneLifecycleOperation'
    BY <1>1, OneLifecycleNext
  <1>5. SourceInv'
    BY <1>1, FreshNext, UnsureNext, DeletionAcceptedNext, StoredNext, SourceKeptNext
       DEF SourceInv
  <1> QED
    BY <1>2, <1>3, <1>4, <1>5 DEF IInv, RowInv

(* The inductive invariant: every request, worker, broker and reconciler   *)
(* step keeps job, version, chunk and source rows linked as IInv says.     *)
THEOREM InductiveInvariant == Spec => []IInv
  BY InitInv, NextInv, PTL DEF Spec

(* Retrieval follows doc.active to a version row, its generation and its   *)
(* chunks: publication and purge never leave a pointer to a partial set.   *)
THEOREM PointersAlwaysResolve == Spec => []PointersResolve
  <1>1. IInv => PointersResolve
    BY DEF IInv
  <1> QED
    BY <1>1, InductiveInvariant, PTL

(* A tombstone has no active version and no chunks, whatever ingestion     *)
(* attempts were under way when it was purged.                             *)
THEOREM TombstoneUnsearchable == Spec => []DeletedIsUnsearchable
  <1>1. IInv => DeletedIsUnsearchable
    BY DEF IInv
  <1> QED
    BY <1>1, InductiveInvariant, PTL

(* A job reported as succeeded has its chunks in the index.                *)
THEOREM SuccessIsIndexed == Spec => []SucceededIsIndexed
  <1>1. IInv => SucceededIsIndexed
    BY DEF IInv
  <1> QED
    BY <1>1, InductiveInvariant, PTL

(* Claims, retries, requests and duplicate deliveries never make two       *)
(* replacements or reindexes of a document active at once.                 *)
THEOREM OneActiveOperation == Spec => []OneLifecycleOperation
  <1>1. IInv => OneLifecycleOperation
    BY DEF IInv
  <1> QED
    BY <1>1, InductiveInvariant, PTL

(* No request removes the source of a committed version but the one that   *)
(* committed it, when it lost the acknowledgement and told its client so.  *)
THEOREM SourceKept == Spec => []CommittedSourceKept
  <1>1. IInv => CommittedSourceKept
    BY DEF IInv, SourceInv
  <1> QED
    BY <1>1, InductiveInvariant, PTL

--------------------------------------------------------------------------------
(* No source object is orphaned by the requests themselves, whatever        *)
(* workers, broker and reconciler do: only a request that dies between its  *)
(* two steps, or a replacement whose query fails outside its try statement, *)
(* can leave one.                                                           *)

RequestsEnd == "api" \notin Disturbances

(* A reindex stores no object under the name of its job.                   *)
ReindexStoresNothing ==
    \A c \in Clients :
        request[c].step = "loaded" /\ request[c].op = "reindex" => request[c].job \notin files

OrphanInv == NoOrphanSource /\ ReindexStoresNothing

QueryFailedFor(v) ==
    \E c \in Clients : /\ request[c].step = "failed" /\ request[c].job = v
                       /\ request[c].op = "replacement_ingestion"

\* How a request that does not die changes sources and requests.
LEMMA RequestSteps ==
    ASSUME TypeInv, RequestsEnd, NEW c \in Clients, ApiStep(c)
    PROVE \/ /\ request[c].step = "idle"
             /\ \E j \in Jobs, op \in {"initial_ingestion", "replacement_ingestion"} :
                    Loaded(c, op, j) /\ Fresh(j) /\ files' = files \cup {j}
          \/ /\ request[c].step = "idle"
             /\ \E j \in Jobs : Loaded(c, "reindex", j) /\ Fresh(j) /\ files' = files
          \/ Inserts(c)
          \/ Refuse(c)
          \/ ReplacementQueryFails(c)
          \/ /\ files' \subseteq files /\ \A d \in Clients \ {c} : request'[d] = request[d]
             /\ request[c].step # "loaded" /\ request'[c].step # "loaded"
  <1>0. request \in [Clients -> RequestRecord]
    BY DEF TypeInv, TypeOK, StoreTypeOK
  <1>1. CASE StoreUpload(c)
    BY <1>1, JobsAssumption DEF StoreUpload, Asks
  <1>2. ASSUME NEW j \in Jobs, StoreReplacement(c, j) \/ LoadReindex(c, j)
        PROVE /\ request[c].step = "idle" /\ Fresh(j)
              /\ \/ Loaded(c, "replacement_ingestion", j) /\ files' = files \cup {j}
                 \/ Loaded(c, "reindex", j) /\ files' = files
    BY <1>2 DEF StoreReplacement, LoadReindex, Asks
  <1>3. CASE AcceptDeletion(c)
    <2>1. /\ \A d \in Clients \ {c} : request'[d] = request[d]
          /\ request'[c].step = "committed"
      BY <1>0, <1>3 DEF AcceptDeletion, IdleRequest
    <2> QED
      BY <1>3, <2>1 DEF AcceptDeletion, Asks
  <1>4. CASE PublishJob(c) \/ PublishJobFails(c)
    <2>1. /\ \A d \in Clients \ {c} : request'[d] = request[d]
          /\ request'[c].step = "idle"
      BY <1>0, <1>4 DEF PublishJob, PublishJobFails, Answered, IdleRequest
    <2> QED
      BY <1>4, <2>1 DEF PublishJob, PublishJobFails
  <1>5. ~AbandonRequest(c)
    BY DEF AbandonRequest, Fault, RequestsEnd
  <1>6. CASE DiscardUnsure(c)
    BY <1>6, RequestMove DEF DiscardUnsure, EndsInError
  <1> QED
    BY <1>1, <1>2, <1>3, <1>4, <1>5, <1>6 DEF ApiStep, Inserts

\* Worker and broker steps store nothing and change no request.
LEMMA OthersStoreNothing ==
    ASSUME [Next]_vars, \A c \in Clients : ~ApiStep(c)
    PROVE UNCHANGED request /\ files' \subseteq files
  <1>1. ASSUME NEW w \in Workers, WorkerStepOf(w)
        PROVE UNCHANGED request /\ files' \subseteq files
    BY <1>1 DEF WorkerStepOf, TaskStep, Retry, RetryLost, GiveUp, FailRead,
       SqlError, Acknowledge, IngestionStep, Begin, Claim, ClaimFails, Prepare,
       SourceMissing, PermanentFailure, TransientFailure, Publish, PublishRefused,
       MarkFailed, MarkFailedRefused, DeletionStep, BeginDeletion, ClaimDeletion,
       RemoveSource, StorageError, Purge, PurgeRefused, MarkDeletionFailed
  <1>2. CASE BrokerStep \/ UNCHANGED vars
    BY <1>2 DEF BrokerStep, WorkerLost, TaskKilled, Redeliver, LoseMessages,
       RepublishStale, vars
  <1> QED
    BY <1>1, <1>2 DEF Next

\* Version rows stay until the purge of an accepted deletion.
LEMMA VersionsStay ==
    ASSUME IInv, [Next]_vars, job'[Deletion].status = "none",
           NEW v \in Jobs, VersionRow(v)
    PROVE VersionRow(v)' /\ job[Deletion].status = "none"
  <1>0. TypeInv /\ RowInv /\ FreshRequests /\ SourceInv
    BY DEF IInv, RowInv, SourceInv
  <1>1. job[Deletion].status = "none"
    BY <1>0, AcceptedStays
  <1>2. CASE RowsMarked
    BY <1>1, <1>2 DEF RowsMarked
  <1>3. ASSUME NEW w \in Workers, Publish(w) PROVE VersionRow(v)'
    BY <1>0, <1>3, PublishRows DEF RowInv, RowsPublished
  <1>4. ASSUME NEW w \in Workers, Purge(w) PROVE FALSE
    BY <1>0, <1>1, <1>4 DEF Purge, At, SourceInv, DeletionAccepted, DeletionAttempt
  <1>5. ASSUME NEW c \in Clients, Commit(c) PROVE VersionRow(v)'
    <2>1. CASE AcceptDeletion(c)
      BY <1>0, <2>1, AcceptRows DEF RowsMarked
    <2>2. CASE Inserts(c)
      BY <1>0, <2>2, InsertRows DEF RowInv, RowsInserted
    <2> QED
      BY <1>5, <2>1, <2>2 DEF Commit, Inserts
  <1> QED
    BY <1>0, <1>1, <1>2, <1>3, <1>4, <1>5, RowSteps DEF RowInv

\* A source has a version row, a request in progress, or one ended by a query error.
LEMMA OrphanNext ==
    ASSUME IInv, OrphanInv, RequestsEnd, [Next]_vars PROVE OrphanInv'
  <1>0. /\ TypeInv /\ RowsLinked /\ FreshRequests
        /\ request \in [Clients -> RequestRecord]
    BY DEF IInv, SourceInv, TypeInv, TypeOK, StoreTypeOK
  <1>1. ASSUME \A v \in Jobs, d \in Clients :
                    v \in files' /\ request[d].step = "loaded" /\ request[d].job = v
                    /\ v \in files /\ job'[Deletion].status = "none"
                        => VersionRow(v)' \/ v \in InFlight' \/ QueryFailedFor(v)',
               \A v \in files' \ files : v \in InFlight'
        PROVE NoOrphanSource'
    <2> SUFFICES ASSUME job'[Deletion].status = "none", NEW v \in files'
                 PROVE VersionRow(v)' \/ v \in InFlight' \/ QueryFailedFor(v)'
      BY DEF NoOrphanSource, QueryFailedFor, ToldOfError
    <2>1. CASE v \notin files
      BY <1>1, <2>1
    <2>2. CASE v \in files
      <3>1. v \in Jobs /\ RowInv
        BY <1>0, <2>2 DEF TypeInv, TypeOK, StoreTypeOK, IInv, RowInv
      <3>2. job[Deletion].status = "none"
        BY <1>0, <3>1, AcceptedStays
      <3>3. VersionRow(v) \/ v \in InFlight \/ QueryFailedFor(v)
        BY <2>2, <3>2 DEF OrphanInv, NoOrphanSource, QueryFailedFor, ToldOfError
      <3>4. CASE VersionRow(v)
        BY <3>1, <3>4, VersionsStay
      <3>5. CASE v \in InFlight
        BY <1>1, <2>2, <3>1, <3>5 DEF InFlight
      <3>6. CASE QueryFailedFor(v)
        BY <1>0, <3>6, FailedStays DEF QueryFailedFor
      <3> QED
        BY <3>3, <3>4, <3>5, <3>6
    <2> QED
      BY <2>1, <2>2
  <1>2. CASE \A c \in Clients : ~ApiStep(c)
    <2>1. UNCHANGED request /\ files' \subseteq files
      BY <1>2, OthersStoreNothing
    <2>2. ReindexStoresNothing'
      BY <2>1 DEF OrphanInv, ReindexStoresNothing
    <2> QED
      BY <1>1, <2>1, <2>2 DEF OrphanInv, InFlight
  <1>3. ASSUME NEW c \in Clients, ApiStep(c) PROVE OrphanInv'
    <2>1. ASSUME NEW j \in Jobs, NEW op \in Operation, Loaded(c, op, j), Fresh(j),
                 request[c].step = "idle",
                 \/ op = "reindex" /\ files' = files
                 \/ op # "reindex" /\ files' = files \cup {j}
          PROVE OrphanInv'
      <3>1. /\ \A d \in Clients \ {c} : request'[d] = request[d]
            /\ request'[c].step = "loaded" /\ request'[c].job = j /\ request'[c].op = op
        BY <1>0, <2>1 DEF Loaded
      <3>2. j \notin files /\ \A d \in Clients : request[d].job # j
        BY <2>1 DEF Fresh
      <3>3. ReindexStoresNothing'
        BY <2>1, <3>1, <3>2 DEF OrphanInv, ReindexStoresNothing
      <3> QED
        BY <1>1, <2>1, <3>1, <3>2, <3>3 DEF OrphanInv, InFlight
    <2>2. CASE Inserts(c)
      <3>1. PICK j : j = request[c].job
        OBVIOUS
      <3>2. /\ files' = files /\ request[c].step = "loaded" /\ j \in Jobs
            /\ \A d \in Clients \ {c} : request'[d] = request[d]
            /\ request'[c].step # "loaded"
        <4>1. files' = files
          BY <2>2 DEF Inserts, CommitUpload, CommitReplacement, CommitReindex
        <4>2. request[c].step = "loaded" /\ j \in Jobs
          BY <1>0, <2>2, <3>1, InsertRows
        <4> QED
          BY <1>0, <2>2, <4>1, <4>2, CommitReturnsStep
             DEF Inserts, CommitUpload, CommitReplacement, CommitReindex
      <3>3. PICK v \in Jobs : RowsInserted(j, v) /\ (v = j \/ request[c].op = "reindex")
        BY <1>0, <2>2, <3>1, InsertRows
      <3>4. j \in files => VersionRow(j)'
        BY <3>1, <3>2, <3>3 DEF RowsInserted, OrphanInv, ReindexStoresNothing
      <3>5. ReindexStoresNothing'
        BY <3>2 DEF OrphanInv, ReindexStoresNothing
      <3> QED
        BY <1>1, <3>1, <3>2, <3>4, <3>5 DEF OrphanInv, InFlight
    <2>3. CASE Refuse(c)
      <3>1. /\ files' \subseteq files /\ request[c].step = "loaded"
            /\ request[c].op # "reindex" => request[c].job \notin files'
            /\ \A d \in Clients \ {c} : request'[d] = request[d]
            /\ request'[c].step = "idle"
        BY <1>0, <2>3 DEF Refuse, Discarded, Answered, IdleRequest
      <3>2. request[c].job \notin files'
        BY <3>1 DEF OrphanInv, ReindexStoresNothing
      <3>3. ReindexStoresNothing'
        BY <3>1 DEF OrphanInv, ReindexStoresNothing
      <3> QED
        BY <1>1, <3>1, <3>2, <3>3 DEF OrphanInv, InFlight
    <2>5. CASE ReplacementQueryFails(c)
      <3>1. /\ files' = files /\ request[c].op = "replacement_ingestion"
            /\ \A d \in Clients \ {c} : request'[d] = request[d]
            /\ request'[c].step = "failed" /\ request'[c].job = request[c].job
            /\ request'[c].op = request[c].op
        BY <1>0, <2>5, RequestMove DEF ReplacementQueryFails, RequestAt, EndsInError
      <3>2. QueryFailedFor(request[c].job)'
        BY <3>1 DEF QueryFailedFor
      <3>3. ReindexStoresNothing'
        BY <3>1 DEF OrphanInv, ReindexStoresNothing
      <3> QED
        BY <1>1, <3>1, <3>2, <3>3 DEF OrphanInv, InFlight
    <2>4. CASE /\ files' \subseteq files /\ \A d \in Clients \ {c} : request'[d] = request[d]
               /\ request[c].step # "loaded" /\ request'[c].step # "loaded"
      <3>1. ReindexStoresNothing'
        BY <2>4 DEF OrphanInv, ReindexStoresNothing
      <3> QED
        BY <1>1, <2>4, <3>1 DEF OrphanInv, InFlight
    <2> QED
      BY <1>0, <1>3, <2>1, <2>2, <2>3, <2>4, <2>5, RequestSteps DEF Operation
  <1> QED
    BY <1>2, <1>3

(* While requests run to their end, every stored source has a version row  *)
(* or a request in progress, until a deletion is accepted: a refused,      *)
(* conflicting or failing upload or replacement cleans up what it stored,  *)
(* but for a replacement ended by an error of the queries that follow the  *)
(* storing and precede the try statement.                                  *)
THEOREM NoSourceIsOrphaned == ASSUME RequestsEnd PROVE Spec => []NoOrphanSource
  <1>1. Init => OrphanInv
    BY DEF Init, OrphanInv, NoOrphanSource, ReindexStoresNothing, IdleRequest
  <1>2. IInv /\ OrphanInv /\ [Next]_vars => OrphanInv'
    BY OrphanNext
  <1>3. OrphanInv => NoOrphanSource
    BY DEF OrphanInv
  <1> QED
    BY <1>1, <1>2, <1>3, InductiveInvariant, PTL DEF Spec

--------------------------------------------------------------------------------
(* Service moves forward.  First the row changes of Next by name, and what *)
(* they do to the numbers and to what requests load.                       *)

\* The row changes of Next, by name.
LEMMA RowActions ==
    ASSUME [Next]_vars
    PROVE \/ UNCHANGED rows
          \/ \E w \in Workers :
                \/ Claim(w) \/ TransientFailure(w) \/ MarkFailed(w) \/ Publish(w) \/ Purge(w)
                \/ ClaimDeletion(w) \/ StorageError(w) \/ MarkDeletionFailed(w)
          \/ \E c \in Clients : Inserts(c) \/ AcceptDeletion(c)
  <1>1. ASSUME NEW w \in Workers, WorkerStepOf(w)
        PROVE \/ UNCHANGED rows
              \/ Claim(w) \/ TransientFailure(w) \/ MarkFailed(w) \/ Publish(w)
              \/ ClaimDeletion(w) \/ StorageError(w) \/ MarkDeletionFailed(w) \/ Purge(w)
    BY <1>1 DEF WorkerStepOf, TaskStep, Retry, RetryLost, GiveUp, FailRead, SqlError,
       Acknowledge, IngestionStep, Begin, ClaimFails, Prepare, SourceMissing,
       PermanentFailure, PublishRefused, MarkFailedRefused, DeletionStep,
       BeginDeletion, RemoveSource, PurgeRefused
  <1>2. CASE UNCHANGED vars
    BY <1>2 DEF vars
  <1> QED
    BY <1>1, <1>2, ApiRows, BrokerRows DEF Next, Commit, Inserts

\* What publication does to the version rows.
LEMMA PublishedVersions ==
    ASSUME TypeInv, NEW w \in Workers, Publish(w), NEW u \in Jobs
    PROVE /\ version'[u].number = version[u].number
          /\ version'[u].failed = version[u].failed
          /\ version'[u].status = IF u = job[Job(w)].ver THEN "active"
                                 ELSE IF u = doc.active THEN "superseded"
                                 ELSE version[u].status
  <1> DEFINE v == job[Job(w)].ver
  <1>1. version[u] \in VersionRecord
    BY DEF TypeInv, TypeOK, StoreTypeOK
  <1>2. version'[u] = IF u = v THEN [version[u] EXCEPT !.status = "active", !.gen = Job(w)]
                      ELSE IF u = doc.active THEN [version[u] EXCEPT !.status = "superseded"]
                      ELSE version[u]
    <2>1. version' = ActivatedVersions(Job(w))
      BY DEF Publish
    <2> QED
      BY <2>1, Zenon DEF ActivatedVersions
  <1> HIDE DEF v
  <1>3. CASE u = v
    BY <1>1, <1>2, <1>3 DEF VersionRecord, v
  <1>4. CASE u # v /\ u = doc.active
    BY <1>1, <1>2, <1>4 DEF VersionRecord, v
  <1>5. CASE u # v /\ u # doc.active
    BY <1>2, <1>5 DEF v
  <1> QED
    BY <1>3, <1>4, <1>5

(* A step that is neither a commit nor the purge leaves the numbers alone. *)
NumbersStay ==
    /\ doc'.next = doc.next
    /\ \A u \in Jobs : version'[u].number = version[u].number

\* Only commits and the purge touch the numbers.
LEMMA NumbersNext ==
    ASSUME IInv, [Next]_vars
    PROVE \/ NumbersStay
          \/ \E w \in Workers : Purge(w)
          \/ \E c \in Clients : Inserts(c)
  <1>0. TypeInv
    BY DEF IInv
  <1>1. CASE UNCHANGED rows
    BY <1>1 DEF rows, NumbersStay
  <1>2. ASSUME NEW w \in Workers, Claim(w) \/ MarkFailed(w) PROVE NumbersStay
    <2>1. doc'.next = doc.next
      BY <1>0, <1>2 DEF Claim, MarkFailed, TypeInv, TypeOK, StoreTypeOK, DocumentRecord
    <2>3. \A u \in Jobs : version'[u].number = version[u].number
      <3>1. CASE Claim(w)
        BY <1>0, <3>1 DEF Claim, TypeInv, TypeOK, StoreTypeOK, VersionRecord
      <3>2. CASE MarkFailed(w)
        <4>1. CASE version' = version
          BY <4>1
        <4>2. CASE version' # version
          <5>1. PICK v, x : version' = [version EXCEPT ![v].failed = TRUE, ![v].status = x]
            BY <3>2, <4>2 DEF MarkFailed
          <5> QED
            BY <1>0, <5>1 DEF TypeInv, TypeOK, StoreTypeOK, VersionRecord
        <4> QED
          BY <4>1, <4>2
      <3> QED
        BY <1>2, <3>1, <3>2
    <2> QED
      BY <2>1, <2>3 DEF NumbersStay
  <1>3. ASSUME NEW w \in Workers, Publish(w) PROVE NumbersStay
    <2>1. doc'.next = doc.next
      BY <1>0, <1>3 DEF Publish, TypeInv, TypeOK, StoreTypeOK, DocumentRecord
    <2>2. \A u \in Jobs : version'[u].number = version[u].number
      BY <1>0, <1>3, PublishedVersions
    <2> QED
      BY <2>1, <2>2 DEF NumbersStay
  <1>4. ASSUME NEW w \in Workers,
               TransientFailure(w) \/ ClaimDeletion(w) \/ StorageError(w)
                   \/ MarkDeletionFailed(w)
        PROVE NumbersStay
    BY <1>4 DEF TransientFailure, ClaimDeletion, StorageError, MarkDeletionFailed,
       NumbersStay
  <1>5. ASSUME NEW c \in Clients, AcceptDeletion(c) PROVE NumbersStay
    BY <1>0, <1>5 DEF AcceptDeletion, TypeInv, TypeOK, StoreTypeOK, DocumentRecord,
       NumbersStay
  <1> QED
    BY <1>1, <1>2, <1>3, <1>4, <1>5, RowActions

\* A request is loaded with the document's next number and active version.
LEMMA LoadsNext ==
    ASSUME TypeInv, [Next]_vars, NEW c \in Clients, request'[c].step = "loaded"
    PROVE \/ request'[c] = request[c]
          \/ /\ request'[c].next = doc.next
             /\ request'[c].op # "initial_ingestion" => doc.active # None
  <1>0. request \in [Clients -> RequestRecord]
    BY DEF TypeInv, TypeOK, StoreTypeOK
  <1>1. ASSUME NEW d \in Clients, ApiStep(d), request'[c] # request[c]
        PROVE /\ request'[c].next = doc.next
              /\ request'[c].op # "initial_ingestion" => doc.active # None
    <2>1. CASE \E j \in Jobs : StoreUpload(d) \/ StoreReplacement(d, j) \/ LoadReindex(d, j)
      BY <2>1, <1>0, <1>1 DEF StoreUpload, StoreReplacement, LoadReindex, Loaded,
         HasActiveSource
    <2>2. CASE CommitUpload(d) \/ CommitReplacement(d) \/ CommitReindex(d)
      <3>1. /\ request'[d].step # "loaded"
            /\ \A e \in Clients \ {d} : request'[e] = request[e]
        BY <2>2, CommitReturnsStep DEF CommitUpload, CommitReplacement, CommitReindex,
           RequestAt
      <3> QED
        BY <1>1, <3>1
    <2>5. CASE ReplacementQueryFails(d) \/ DiscardUnsure(d)
      <3>1. /\ request'[d].step # "loaded"
            /\ \A e \in Clients \ {d} : request'[e] = request[e]
        BY <2>5, RequestMove DEF ReplacementQueryFails, RequestAt, DiscardUnsure, EndsInError
      <3> QED
        BY <1>1, <3>1
    <2>3. CASE Refuse(d) \/ PublishJob(d) \/ PublishJobFails(d) \/ AbandonRequest(d)
      BY <2>3, <1>0, <1>1 DEF Refuse, PublishJob, PublishJobFails, AbandonRequest,
         Answered, IdleRequest
    <2>4. CASE AcceptDeletion(d)
      <3>1. /\ \A e \in Clients \ {d} : request'[e] = request[e]
            /\ request'[d].step = "committed"
        BY <2>4, <1>0 DEF AcceptDeletion, IdleRequest
      <3> QED
        BY <1>1, <3>1
    <2> QED
      BY <1>1, <2>1, <2>2, <2>3, <2>4, <2>5, JobsAssumption DEF ApiStep
  <1>2. ASSUME NEW w \in Workers, WorkerStepOf(w) PROVE UNCHANGED request
    BY <1>2 DEF WorkerStepOf, TaskStep, Retry, RetryLost, GiveUp, FailRead,
       SqlError, Acknowledge, IngestionStep, Begin, Claim, ClaimFails, Prepare,
       SourceMissing, PermanentFailure, TransientFailure, Publish, PublishRefused,
       MarkFailed, MarkFailedRefused, DeletionStep, BeginDeletion, ClaimDeletion,
       RemoveSource, StorageError, Purge, PurgeRefused, MarkDeletionFailed
  <1>3. CASE BrokerStep \/ UNCHANGED vars
    BY <1>3 DEF BrokerStep, WorkerLost, TaskKilled, Redeliver, LoseMessages,
       RepublishStale, vars
  <1> QED
    BY <1>1, <1>2, <1>3 DEF Next

-----------------------------------------------------------------------------
(* Then the steps that insert no row: what has ended stays ended, and what *)
(* has not keeps its slot.                                                 *)

Undeleted == job[Deletion].status = "none"

Known ==
    /\ JobsKnown /\ VersionsOwned /\ NumbersKnown /\ UnendedIsNewest /\ UploadEndsFirst
    /\ ServedHasEnded /\ FailedHasRow /\ ReadsOfEnded

(* A version that has not ended: its job is under way and it is not active.*)
Live(j) == job[j].status \in ActiveJobStatus /\ version[j].status # "active"

EndsKept ==
    \A k \in Jobs :
        /\ version[k].failed => version'[k].failed
        /\ version'[k].failed => version[k].failed \/ VersionRow(k)
        /\ job[k].op # "reindex" => (Ended(k) => Ended(k)')
        /\ job[k].op # "reindex" /\ VersionRow(k) /\ ~Ended(k)' => Live(k)'

\* What has not ended before a step is live.
LEMMA UnendedIsLive ==
    ASSUME Known, NEW k \in Jobs, job[k].op # "reindex", VersionRow(k), ~Ended(k)
    PROVE Live(k)
  BY DEF Known, UnendedIsNewest, Live

\* A step that changes neither jobs nor versions.
LEMMA IdleKeeps ==
    ASSUME Known, \A k \in Jobs : job'[k] = job[k], UNCHANGED version PROVE EndsKept
  BY UnendedIsLive DEF EndsKept, Ended, Live

\* The claim.
LEMMA ClaimKeeps ==
    ASSUME IInv, Known, NEW w \in Workers, Claim(w) PROVE EndsKept
  <1> DEFINE j == Job(w)
             v == job[j].ver
  <1>0. TypeInv
    BY DEF IInv
  <1>1. j \in Jobs /\ v \in Jobs /\ job[j].status # "succeeded"
    BY <1>0 DEF TypeInv, LockHeld, Claim, At, Attempting, Known, ReadsOfEnded, TypeOK,
       StoreTypeOK, AllJobs, JobRecord
  <1>2. ClaimedJob(w) \in {job[j].status, "running"}
    BY DEF ClaimedJob, Flushed
  <1>3. \A k \in Jobs : IF k = j THEN job'[k].status \in {job[k].status, "running"}
                        ELSE job'[k] = job[k]
    BY <1>0, <1>1, <1>2 DEF Claim, TypeInv, TypeOK, StoreTypeOK, AllJobs, JobRecord
  <1>4. \A u \in Jobs : /\ version'[u].failed = version[u].failed
                        /\ version'[u].status \in {version[u].status, "processing"}
    BY <1>0, <1>1 DEF Claim, Flushed, TypeInv, TypeOK, StoreTypeOK, VersionRecord
  <1> HIDE DEF j, v
  <1>5. \A k \in Jobs : job[k].op # "reindex" => (Ended(k) <=> Ended(k)')
    BY <1>1, <1>3, <1>4 DEF Ended
  <1> QED
    BY <1>3, <1>4, <1>5, UnendedIsLive DEF EndsKept, Live, ActiveJobStatus

\* The retry mark.
LEMMA TransientKeeps ==
    ASSUME IInv, Known, NEW w \in Workers, TransientFailure(w) PROVE EndsKept
  <1> DEFINE j == Job(w)
  <1>0. TypeInv /\ UNCHANGED version
    BY DEF IInv, TransientFailure
  <1>1. j \in Jobs
    BY <1>0 DEF TypeInv, LockHeld, TransientFailure, At, Attempting
  <1>2. \/ job' = job
        \/ job[j].status # "succeeded" /\ job' = [job EXCEPT ![j].status = "retrying"]
    BY DEF TransientFailure, MarksRetrying
  <1> HIDE DEF j
  <1>3. \A k \in Jobs :
            \/ job'[k] = job[k]
            \/ job[k].status # "succeeded" /\ job'[k].status = "retrying"
    BY <1>0, <1>1, <1>2 DEF TypeInv, TypeOK, StoreTypeOK, AllJobs, JobRecord
  <1>5. \A k \in Jobs : job[k].op # "reindex" => (Ended(k) <=> Ended(k)')
    BY <1>0, <1>3 DEF Ended
  <1> QED
    BY <1>0, <1>3, <1>5, UnendedIsLive DEF EndsKept, Live, ActiveJobStatus

\* The failure mark, which may come late: it sets failed_at with the status.
LEMMA MarkFailedKeeps ==
    ASSUME IInv, Known, NEW w \in Workers, MarkFailed(w) PROVE EndsKept
  <1> DEFINE j == Job(w)
             r == worker[w].snap
             v == job[j].ver
             found == r.job \notin {"none", "purged"}
  <1>0. TypeInv /\ RowsLinked
    BY DEF IInv
  <1>1. j \in Jobs /\ (found => JobRow(j))
    BY <1>0, MessageType DEF TypeInv, MarkFailed, RowsVanished, AllJobs
  <1>2. v \in Jobs /\ (found => VersionRow(v)) /\ (job[j].op # "reindex" => v = j)
    BY <1>0, <1>1 DEF RowsLinked, TypeInv, TypeOK, StoreTypeOK, AllJobs, JobRecord, Known,
                      JobsKnown
  <1>3. \A k \in Jobs :
            \/ job'[k].status = job[k].status
            \/ k = j /\ found /\ r.job # "succeeded" /\ job'[k].status = "failed"
    BY <1>0, <1>1 DEF MarkFailed, Flushed, TypeInv, TypeOK, StoreTypeOK, AllJobs, JobRecord
  <1>4. \A u \in Jobs :
            \/ version'[u] = version[u] /\ (found /\ u = v => r.ver = "active")
            \/ /\ u = v /\ found /\ r.ver # "active"
               /\ version'[u].failed /\ version'[u].status \in {version[u].status, "failed"}
    <2>1. CASE found /\ r.ver # "active"
      <3>1. PICK x \in {version[v].status, "failed"} :
                version' = [version EXCEPT ![v].failed = TRUE, ![v].status = x]
        BY <2>1 DEF MarkFailed, Flushed
      <3> QED
        BY <1>0, <1>2, <2>1, <3>1 DEF TypeInv, TypeOK, StoreTypeOK, VersionRecord
    <2>2. CASE ~(found /\ r.ver # "active")
      BY <2>2 DEF MarkFailed
    <2> QED
      BY <2>1, <2>2
  <1>5. r.ver = "active" /\ job[j].op # "reindex"
        => r.job = "succeeded" \/ version[j].failed
    BY <1>1 DEF MarkFailed, At, Known, ReadsOfEnded
  <1> HIDE DEF j, r, v, found
  <1>6. \A k \in Jobs : version[k].failed => version'[k].failed
    BY <1>4
  <1>7. \A k \in Jobs : job[k].op # "reindex" => (Ended(k) => Ended(k)')
    BY <1>2, <1>3, <1>4, <1>5, <1>6 DEF Ended
  <1>8. \A k \in Jobs : job[k].op # "reindex" /\ VersionRow(k) /\ ~Ended(k)' => Live(k)'
    <2> SUFFICES ASSUME NEW k \in Jobs, job[k].op # "reindex", VersionRow(k), ~Ended(k)'
                 PROVE Live(k)'
      OBVIOUS
    <2>1. Live(k) /\ ~version'[k].failed /\ ~version[k].failed
      BY <1>6, <1>7, UnendedIsLive DEF Ended
    <2>2. job'[k].status = job[k].status /\ version'[k].status = version[k].status
      BY <1>2, <1>3, <1>4, <1>5, <2>1
    <2> QED
      BY <2>1, <2>2 DEF Live
  <1> QED
    BY <1>2, <1>4, <1>6, <1>7, <1>8 DEF EndsKept

\* Publication ends the job of its version; a reindex publishes the active one.
LEMMA PublishKeeps ==
    ASSUME IInv, Known, NEW w \in Workers, Publish(w)
    PROVE EndsKept /\ ServedHasEnded'
  <1>1. PICK j : j = Job(w)
    OBVIOUS
  <1>9. PICK v : v = job[j].ver
    OBVIOUS
  <1>2. TypeInv /\ RowsPublished(j, v)
    BY <1>1, <1>9, PublishRows DEF IInv
  <1>3. /\ j \in Jobs /\ v \in Jobs /\ VersionRow(v)
        /\ doc'.active = v
        /\ \A k \in Jobs : job'[k].status = IF k = j THEN "succeeded" ELSE job[k].status
    BY <1>2 DEF RowsPublished
  <1>4. /\ job[j].op = "reindex" => doc.active = v
        /\ job[j].op # "reindex" => v = j
    BY <1>1, <1>3, <1>9 DEF Publish, PublicationStale, Known, JobsKnown
  <1>5. \A u \in Jobs :
            /\ version'[u].failed = version[u].failed
            /\ version'[u].status = IF u = v THEN "active"
                                    ELSE IF u = doc.active THEN "superseded"
                                    ELSE version[u].status
    BY <1>1, <1>2, <1>9, PublishedVersions
  <1>6. \A k \in Jobs : Ended(k) => Ended(k)'
    BY <1>3, <1>5 DEF Ended
  <1>7. Ended(v)'
    <2>1. CASE job[j].op = "reindex"
      BY <1>3, <1>4, <1>6, <2>1 DEF Known, ServedHasEnded
    <2>2. CASE job[j].op # "reindex"
      BY <1>3, <1>4, <2>2 DEF Ended
    <2> QED
      BY <2>1, <2>2
  <1>8. \A k \in Jobs : job[k].op # "reindex" /\ VersionRow(k) /\ ~Ended(k)' => Live(k)'
    <2> SUFFICES ASSUME NEW k \in Jobs, job[k].op # "reindex", VersionRow(k), ~Ended(k)'
                 PROVE Live(k)'
      OBVIOUS
    <2>1. Live(k) /\ k # v /\ k # j
      BY <1>3, <1>6, <1>7, UnendedIsLive DEF Ended
    <2> QED
      BY <1>3, <1>5, <2>1 DEF Live
  <1> QED
    BY <1>3, <1>5, <1>6, <1>7, <1>8 DEF EndsKept, ServedHasEnded

(* What such a step leaves alone.                                          *)
Frame ==
    /\ NumbersStay
    /\ \A k \in Jobs :
        /\ VersionRow(k)' <=> VersionRow(k)
        /\ job'[k].op = job[k].op /\ job'[k].ver = job[k].ver
        /\ (job'[k].status = "none") <=> (job[k].status = "none")
        /\ JobRow(k)' <=> JobRow(k)
        /\ \/ job'[k].status = "succeeded" => job[k].status = "succeeded"
           \/ \E w \in Workers : Publish(w) /\ Job(w) = k
    /\ doc'.active = doc.active \/ \E w \in Workers : Publish(w)

\* Before a deletion is accepted there is no purge.
LEMMA FrameNext ==
    ASSUME IInv, Undeleted, Undeleted', [Next]_vars, ~\E c \in Clients : Inserts(c)
    PROVE Frame
  <1>1. ~\E w \in Workers : Purge(w)
    BY DEF IInv, SourceInv, DeletionAccepted, Purge, At, DeletionAttempt, Undeleted
  <1>2. ~\E c \in Clients : AcceptDeletion(c)
    BY AcceptRows DEF IInv, Undeleted
  <1>3. NumbersStay
    BY <1>1, NumbersNext
  <1>4. CASE RowsMarked
    BY <1>3, <1>4 DEF RowsMarked, Frame
  <1>5. ASSUME NEW w \in Workers, Publish(w) PROVE Frame
    <2>1. PICK j : j = Job(w)
      OBVIOUS
    <2>2. PICK v : v = job[j].ver
      OBVIOUS
    <2>3. RowsPublished(j, v)
      BY <1>5, <2>1, <2>2, PublishRows DEF IInv
    <2> QED
      BY <1>3, <1>5, <2>1, <2>3 DEF RowsPublished, Frame, JobRow
  <1> QED
    BY <1>1, <1>2, <1>4, <1>5, RowSteps DEF IInv, Commit, Inserts

\* The row changes of such a step, together.
LEMMA EndsKeptNext ==
    ASSUME IInv, Known, Undeleted, Undeleted', [Next]_vars, ~\E c \in Clients : Inserts(c)
    PROVE EndsKept
  <1>0. TypeInv
    BY DEF IInv
  <1>1. CASE UNCHANGED rows
    BY <1>1, IdleKeeps DEF rows
  <1>2. ASSUME NEW w \in Workers, ClaimDeletion(w) \/ StorageError(w) \/ MarkDeletionFailed(w)
        PROVE EndsKept
    <2>1. (\A k \in Jobs : job'[k] = job[k]) /\ UNCHANGED version
      BY <1>0, <1>2, JobsAssumption DEF ClaimDeletion, StorageError, MarkDeletionFailed,
         TypeInv, TypeOK, StoreTypeOK, AllJobs
    <2> QED
      BY <2>1, IdleKeeps
  <1>3. ~\E w \in Workers : Purge(w)
    BY DEF IInv, SourceInv, DeletionAccepted, Purge, At, DeletionAttempt, Undeleted
  <1>4. ~\E c \in Clients : AcceptDeletion(c)
    BY <1>0, AcceptRows DEF Undeleted
  <1> QED
    BY <1>1, <1>2, <1>3, <1>4, RowActions, ClaimKeeps, TransientKeeps, MarkFailedKeeps,
       PublishKeeps

\* Only the first read of an attempt and of a failure mark set up a snapshot.
LEMMA SnapshotsNext ==
    ASSUME TypeInv, [Next]_vars, NEW u \in Workers
    PROVE \/ worker'[u] = worker[u]
          \/ worker'[u].step \notin {"claim", "failCommit"}
          \/ \E m \in queue : Begin(u, m)
          \/ FailRead(u)
  <1>1. worker \in [Workers -> WorkerRecord]
    BY DEF TypeInv, TypeOK, StoreTypeOK
  <1>3. CASE UNCHANGED worker
    BY <1>3
  <1>4. ASSUME NEW w \in Workers, WorkerStepOf(w), u # w PROVE worker'[u] = worker[u]
    <2>1. CASE TaskStep(w)
      BY <2>1, <1>1, <1>4 DEF TaskStep, Retry, RetryLost, GiveUp, FailRead, SqlError, Raise,
         Acknowledge, Idle, Goto, GotoWith
    <2>2. CASE IngestionStep(w)
      BY <2>2, <1>1, <1>4 DEF IngestionStep, Begin, Claim, ClaimFails, Prepare,
         SourceMissing, PermanentFailure, TransientFailure, Publish, PublishRefused,
         MarkFailed, MarkFailedRefused, Raise, Goto, GotoWith
    <2>3. CASE DeletionStep(w)
      BY <2>3, <1>1, <1>4 DEF DeletionStep, BeginDeletion, ClaimDeletion, RemoveSource,
         StorageError, Purge, PurgeRefused, MarkDeletionFailed, Goto, GotoWith
    <2> QED
      BY <1>4, <2>1, <2>2, <2>3 DEF WorkerStepOf
  <1>5. ASSUME WorkerStepOf(u)
        PROVE \/ worker'[u].step \notin {"claim", "failCommit"}
              \/ \E m \in queue : Begin(u, m)
              \/ FailRead(u)
    <2>1. CASE TaskStep(u)
      BY <2>1, <1>1 DEF TaskStep, Retry, RetryLost, GiveUp, SqlError, Raise,
         Acknowledge, Idle, IdleWorker, Goto, GotoWith, WorkerRecord
    <2>2. CASE IngestionStep(u)
      <3>1. CASE ~\E m \in queue : Begin(u, m)
        BY <2>2, <3>1, <1>1 DEF IngestionStep, Claim, ClaimFails, Prepare, SourceMissing,
           PermanentFailure, TransientFailure, Publish, PublishRefused, MarkFailed,
           MarkFailedRefused, Raise, Goto, GotoWith, WorkerRecord
      <3> QED
        BY <3>1
    <2>3. CASE DeletionStep(u)
      <3>1. ASSUME NEW m \in queue, BeginDeletion(u, m)
            PROVE worker'[u].step \notin {"claim", "failCommit"}
        BY <3>1, <1>1 DEF BeginDeletion
      <3>2. CASE ~\E m \in queue : BeginDeletion(u, m)
        BY <2>3, <3>2, <1>1 DEF DeletionStep, ClaimDeletion, RemoveSource, StorageError,
           Purge, PurgeRefused, MarkDeletionFailed, Goto, GotoWith, At, WorkerRecord
      <3> QED
        BY <3>1, <3>2
    <2> QED
      BY <1>5, <2>1, <2>2, <2>3 DEF WorkerStepOf
  <1>6. CASE BrokerStep
    <2>1. ASSUME NEW w \in Workers, WorkerLost(w) \/ TaskKilled(w)
          PROVE worker'[u] = worker[u] \/ worker'[u].step = "idle"
      BY <2>1, <1>1 DEF WorkerLost, TaskKilled, Idle, IdleWorker
    <2> QED
      BY <1>6, <1>3, <2>1 DEF BrokerStep, Redeliver, LoseMessages, RepublishStale
  <1>7. ASSUME NEW c \in Clients, ApiStep(c) PROVE UNCHANGED worker
    BY <1>7 DEF ApiStep, StoreUpload, CommitUpload, StoreReplacement, CommitReplacement,
       LoadReindex, CommitReindex, Refuse, ReplacementQueryFails, DiscardUnsure,
       AcceptDeletion, PublishJob, PublishJobFails, AbandonRequest
  <1>8. CASE UNCHANGED vars
    BY <1>8, <1>3 DEF vars
  <1> QED
    BY <1>3, <1>4, <1>5, <1>6, <1>7, <1>8 DEF Next

\* What a failure mark reads of a version that is active.
LEMMA ActiveRead ==
    ASSUME IInv, Known, NEW j \in Jobs, Read(j).ver = "active"
    PROVE /\ JobRow(j)
          /\ job[j].op # "reindex" => Read(j).job = "succeeded" \/ version[j].failed
  <1>1. /\ Read(j).ver = version[job[j].ver].status /\ Read(j).job = job[j].status
    BY JobsAssumption DEF Read
  <1>2. VersionRow(job[j].ver)
    BY <1>1 DEF VersionRow
  <1>3. job[j].op # "reindex" => job[j].ver = j
    BY DEF Known, JobsKnown
  <1>4. JobRow(j)
    BY <1>2, <1>3 DEF Known, VersionsOwned, IInv, RowsLinked, JobRow
  <1>5. ASSUME job[j].op # "reindex" PROVE Ended(j)
    BY <1>1, <1>2, <1>3, <1>5, UnendedIsLive DEF Live
  <1> QED
    BY <1>1, <1>4, <1>5 DEF Ended

\* Attempts go on to claim only what has not succeeded.
LEMMA ReadsNext ==
    ASSUME IInv, Known, Undeleted, Undeleted', [Next]_vars, ~\E c \in Clients : Inserts(c)
    PROVE ReadsOfEnded'
  <1>0. /\ TypeInv /\ Frame /\ EndsKept /\ worker \in [Workers -> WorkerRecord]
        /\ ReadsOfEnded
    BY FrameNext, EndsKeptNext DEF IInv, TypeInv, TypeOK, StoreTypeOK, Known
  <1> SUFFICES ASSUME NEW w \in Workers, NEW j \in Jobs, j = worker'[w].msg[1]
               PROVE /\ worker'[w].step = "claim" => job'[j].status # "succeeded"
                     /\ worker'[w].step = "failCommit" /\ worker'[w].snap.ver = "active" =>
                            /\ JobRow(j)'
                            /\ job'[j].op # "reindex" =>
                                    worker'[w].snap.job = "succeeded" \/ version'[j].failed
    BY DEF ReadsOfEnded, JobRow, Job
  <1>2. CASE worker'[w] = worker[w]
    <2>1. Job(w) = j
      BY <1>2 DEF Job
    <2>2. ASSUME worker[w].step = "claim" PROVE job'[j].status # "succeeded"
      <3>1. job[j].status # "succeeded" /\ lock[j] = w
        BY <1>0, <2>1, <2>2 DEF ReadsOfEnded, TypeInv, LockHeld, Attempting
      <3>2. ASSUME NEW u \in Workers, Publish(u), Job(u) = j PROVE FALSE
        <4>1. worker[u].step = "publish" /\ lock[j] = u
          BY <1>0, <3>2 DEF Publish, At, TypeInv, LockHeld, Attempting
        <4> QED
          BY <2>2, <3>1, <4>1
      <3> QED
        BY <1>0, <3>1, <3>2 DEF Frame
    <2>3. ASSUME worker[w].step = "failCommit", worker[w].snap.ver = "active"
          PROVE /\ JobRow(j)'
                /\ job'[j].op # "reindex" =>
                        worker[w].snap.job = "succeeded" \/ version'[j].failed
      BY <1>0, <2>1, <2>3 DEF ReadsOfEnded, Frame, EndsKept
    <2> QED
      BY <1>2, <2>2, <2>3
  <1>3. CASE worker'[w].step \notin {"claim", "failCommit"}
    BY <1>3
  <1>4. ASSUME NEW m \in queue, Begin(w, m)
        PROVE worker'[w].step # "failCommit"
              /\ (worker'[w].step = "claim" => job'[j].status # "succeeded")
    <2>1. /\ worker'[w].msg = m
          /\ worker'[w].step = IF ~LockFree(m[1]) \/ ClaimStops(Read(m[1])) THEN "done"
                               ELSE "claim"
          /\ job' = job
      BY <1>0, <1>4 DEF Begin, rows
    <2>2. m[1] = j
      BY <2>1
    <2> QED
      BY <2>1, <2>2 DEF ClaimStops, Read
  <1>5. ASSUME FailRead(w)
        PROVE worker'[w].step # "claim"
              /\ (worker'[w].snap.ver = "active" =>
                    /\ JobRow(j)'
                    /\ job'[j].op # "reindex" =>
                            worker'[w].snap.job = "succeeded" \/ version'[j].failed)
    <2>1. /\ worker'[w].snap = Read(Job(w)) /\ worker'[w].step = "failCommit"
          /\ worker'[w].msg = worker[w].msg /\ job' = job /\ version' = version
      BY <1>0, <1>5 DEF FailRead, GotoWith, rows, WorkerRecord
    <2>2. Job(w) = j
      BY <2>1 DEF Job
    <2> QED
      BY <2>1, <2>2, ActiveRead DEF JobRow
  <1> QED
    BY <1>0, <1>2, <1>3, <1>4, <1>5, SnapshotsNext

\* What has ended, has.
LEMMA EndedStays ==
    ASSUME Known, EndsKept, NEW v \in Jobs, VersionRow(v) \/ v = Initial, Ended(v)
    PROVE Ended(v)'
  BY DEF Known, VersionsOwned, EndsKept

\* A step that inserts no row keeps all of Known.
LEMMA StepForward ==
    ASSUME IInv, Known, Undeleted, Undeleted', [Next]_vars, ~\E c \in Clients : Inserts(c)
    PROVE Known'
  <1>0. /\ TypeInv /\ Frame /\ EndsKept /\ JobsKnown /\ VersionsOwned /\ NumbersKnown
        /\ UnendedIsNewest /\ UploadEndsFirst /\ ServedHasEnded /\ FailedHasRow
        /\ Initial \in Jobs
    BY FrameNext, EndsKeptNext, JobsAssumption DEF IInv, Known
  <1>1. JobsKnown' /\ VersionsOwned'
    BY <1>0 DEF Frame, JobsKnown, VersionsOwned, LifecycleJob, JobRow
  <1>2. \A c \in Clients : request'[c].step = "loaded" =>
            \/ request'[c] = request[c]
            \/ /\ request'[c].next = doc.next
               /\ request'[c].op # "initial_ingestion" => doc.active # None
    BY <1>0, LoadsNext
  <1>3. NumbersKnown'
    <2>1. doc.next \in Nat /\ doc.next >= 2 /\ doc'.next = doc.next
      BY <1>0 DEF NumbersKnown, Frame, NumbersStay, TypeInv, TypeOK, StoreTypeOK,
         DocumentRecord
    <2>2. \A n : NumberTaken(n) => NumberTaken(n)'
      BY <1>0 DEF Frame, NumbersStay, NumberTaken
    <2>3. \A u \in Jobs : VersionRow(u)' => version'[u].number < doc'.next
      BY <1>0, <2>1 DEF NumbersKnown, Frame, NumbersStay
    <2>4. \A c \in Clients :
            request'[c].step = "loaded" /\ request'[c].op = "replacement_ingestion"
                => request'[c].next \in 2 .. doc'.next
      BY <1>0, <1>2, <2>1 DEF NumbersKnown
    <2>5. \A n \in 2 .. doc'.next - 1 : NumberTaken(n)'
      BY <1>0, <2>1, <2>2 DEF NumbersKnown
    <2> QED
      BY <2>1, <2>3, <2>4, <2>5 DEF NumbersKnown
  <1>4. UnendedIsNewest'
    <2> SUFFICES ASSUME NEW k \in Jobs, job'[k].op # "reindex", VersionRow(k)', ~Ended(k)'
                 PROVE /\ Live(k)'
                       /\ \A u \in Jobs : VersionRow(u)' =>
                            version'[u].number <= version'[k].number
      BY DEF UnendedIsNewest, Live
    <2>1. job[k].op # "reindex" /\ VersionRow(k)
      BY <1>0 DEF Frame
    <2>2. Live(k)' /\ ~Ended(k)
      BY <1>0, <2>1 DEF EndsKept
    <2> QED
      BY <1>0, <2>1, <2>2 DEF UnendedIsNewest, Frame, NumbersStay
  <1>5. UploadEndsFirst'
    <2>1. Ended(Initial) => Ended(Initial)'
      BY <1>0, EndedStays
    <2>2. \A j \in Jobs \ {Initial} : job'[j].status # "none" => Ended(Initial)'
      BY <1>0, <2>1 DEF UploadEndsFirst, Frame
    <2>3. ASSUME doc.active # None PROVE Ended(Initial)
      <3>1. PICK v \in Jobs : v = doc.active
        BY <1>0, <2>3 DEF TypeInv, TypeOK, StoreTypeOK, DocumentRecord
      <3>2. Ended(v) /\ job[v].status # "none"
        BY <1>0, <3>1 DEF ServedHasEnded, IInv, PointersResolve, RowsLinked
      <3> QED
        BY <1>0, <3>2 DEF UploadEndsFirst
    <2>4. \A c \in Clients : request'[c].step = "loaded"
                /\ request'[c].op # "initial_ingestion" => Ended(Initial)'
      BY <1>0, <1>2, <2>1, <2>3 DEF UploadEndsFirst
    <2> QED
      BY <2>2, <2>4 DEF UploadEndsFirst
  <1>6. ServedHasEnded'
    <2>1. CASE doc'.active = doc.active
      <3> SUFFICES ASSUME NEW v \in Jobs, doc'.active = v PROVE Ended(v)'
        BY DEF ServedHasEnded
      <3>1. Ended(v) /\ VersionRow(v)
        BY <1>0, <2>1 DEF ServedHasEnded, IInv, PointersResolve
      <3> QED
        BY <1>0, <3>1, EndedStays
    <2> QED
      BY <1>0, <2>1, PublishKeeps DEF Frame
  <1>7. FailedHasRow'
    BY <1>0 DEF FailedHasRow, EndsKept, Frame
  <1> QED
    BY <1>1, <1>3, <1>4, <1>5, <1>6, <1>7, ReadsNext DEF Known

-----------------------------------------------------------------------------
(* And the commits: the version inserted is the newest, because the slot   *)
(* of the last one is free.                                                *)

(* What a commit leaves alone, and the row it inserts.                     *)
RowCommitted(c, j) ==
    /\ request[c].step = "loaded" /\ request[c].job = j
    /\ job[j].status = "none" /\ ~VersionRow(j) /\ ~version[j].failed
    /\ \A k \in Jobs \ {j} : job'[k] = job[k] /\ version'[k] = version[k]
    /\ job'[j].status = "queued" /\ job'[j].op = request[c].op /\ ~version'[j].failed
    /\ job'[j].op # "reindex" =>
            job'[j].ver = j /\ VersionRow(j)' /\ version'[j].status = "pending"
    /\ job'[j].op = "reindex" => ~VersionRow(j)' /\ version' = version /\ doc' = doc
    /\ \A d \in Clients : request'[d].step = "loaded" => request'[d] = request[d]
    /\ doc'.active = doc.active /\ worker' = worker
    /\ job[Deletion].status = job'[Deletion].status

\* Every commit that inserts does that.
LEMMA InsertedRow ==
    ASSUME IInv, Known, Undeleted, NEW c \in Clients, Inserts(c)
    PROVE \E j \in Jobs : RowCommitted(c, j)
  <1>1. PICK j : j = request[c].job
    OBVIOUS
  <1>2. PICK v \in Jobs : RowsInserted(j, v) /\ (v = j \/ request[c].op = "reindex")
    BY <1>1, InsertRows DEF IInv, SourceInv
  <1>3. request[c].step = "loaded" /\ j \in Jobs
    BY <1>1, InsertRows DEF IInv, SourceInv
  <1>4. TypeInv /\ job[j].status = "none" /\ ~VersionRow(j) /\ ~version[j].failed
    BY <1>1, <1>3 DEF IInv, SourceInv, FreshRequests, RowsLinked, Known, FailedHasRow
  <1>5. worker' = worker /\ \A d \in Clients : request'[d].step = "loaded"
                                => request'[d] = request[d]
    <2>1. worker' = worker
      BY DEF Inserts, CommitUpload, CommitReplacement, CommitReindex
    <2>2. /\ request'[c].step \in {"committed", "unsure"}
          /\ \A d \in Clients \ {c} : request'[d] = request[d]
      BY <1>3, <1>4, CommitReturnsStep
         DEF Inserts, CommitUpload, CommitReplacement, CommitReindex
    <2> QED
      BY <2>1, <2>2
  <1>6. PICK op, n, u : /\ job' = [job EXCEPT ![j] = [status |-> "queued", op |-> op, ver |-> u]]
                        /\ op = request[c].op
                        /\ op = "reindex" => version' = version /\ doc' = doc
                        /\ op # "reindex" => u = j /\ version' = [version EXCEPT ![j] =
                              [status |-> "pending", gen |-> None, number |-> n,
                               failed |-> FALSE]]
    <2>0. CommitUpload(c) => j = Initial
      BY <1>1, <1>3, <1>4 DEF CommitUpload, RequestAt, TypeInv, RequestsNamed
    <2>1. CASE CommitUpload(c)
      BY <1>1, <2>0, <2>1 DEF CommitUpload, RequestAt, InsertJob, InsertVersion
    <2>2. CASE CommitReplacement(c)
      BY <1>1, <2>2 DEF CommitReplacement, RequestAt, InsertJob, InsertVersion
    <2>3. CASE CommitReindex(c)
      BY <1>1, <2>3 DEF CommitReindex, RequestAt, InsertJob
    <2> QED
      BY <2>1, <2>2, <2>3 DEF Inserts
  <1>7. /\ job'[j].status = "queued" /\ job'[j].op = op
        /\ job[Deletion].status = job'[Deletion].status
        /\ op # "reindex" => job'[j].ver = j
    BY <1>3, <1>4, <1>6, JobsAssumption DEF TypeInv, TypeOK, StoreTypeOK, AllJobs
  <1>8. /\ op # "reindex" => version'[j].status = "pending" /\ ~version'[j].failed
        /\ op = "reindex" => version' = version
    BY <1>3, <1>4, <1>6 DEF TypeInv, TypeOK, StoreTypeOK
  <1> QED
    BY <1>1, <1>2, <1>3, <1>4, <1>5, <1>6, <1>7, <1>8 DEF RowCommitted, RowsInserted, VersionRow

\* Only the upload itself comes before its end.
LEMMA UploadComesFirst ==
    ASSUME IInv, Known, NEW c \in Clients, NEW j \in Jobs, RowCommitted(c, j)
    PROVE /\ request[c].op # "initial_ingestion" => j # Initial /\ Ended(Initial)
          /\ j = Initial => \A k \in Jobs : job[k].status = "none" /\ ~VersionRow(k)
  <1>1. j = Initial => ~Ended(Initial)
    BY DEF RowCommitted, Ended
  <1> QED
    BY <1>1 DEF RowCommitted, Known, UploadEndsFirst, IInv, RowsLinked

\* The rows that were there are as they were.
LEMMA InsertKeeps ==
    ASSUME IInv, Known, NEW c \in Clients, NEW j \in Jobs, RowCommitted(c, j)
    PROVE VersionsOwned' /\ ServedHasEnded' /\ FailedHasRow' /\ ReadsOfEnded'
          /\ UploadEndsFirst'
  <1>1. VersionsOwned'
    BY UploadComesFirst DEF RowCommitted, Known, VersionsOwned, VersionRow
  <1>2. ServedHasEnded'
    BY DEF RowCommitted, Known, ServedHasEnded, Ended, IInv, PointersResolve
  <1>3. FailedHasRow'
    BY DEF RowCommitted, Known, FailedHasRow, VersionRow
  <1>4. ReadsOfEnded'
    BY DEF RowCommitted, Known, ReadsOfEnded, JobRow, Job
  <1>5. UploadEndsFirst'
    <2>1. CASE j = Initial
      BY <2>1, UploadComesFirst DEF RowCommitted, Known, UploadEndsFirst, Ended
    <2>2. CASE j # Initial
      <3>1. Ended(Initial) => Ended(Initial)'
        BY <2>2, JobsAssumption DEF RowCommitted, Ended
      <3>2. request[c].op = "initial_ingestion" => j = Initial
        BY DEF RowCommitted, IInv, TypeInv, RequestsNamed
      <3> QED
        BY <2>2, <3>1, <3>2, UploadComesFirst DEF RowCommitted, Known, UploadEndsFirst
    <2> QED
      BY <2>1, <2>2
  <1> QED
    BY <1>1, <1>2, <1>3, <1>4, <1>5

\* The version of an upload has number 1, that of a replacement the next one.
LEMMA InsertedNumber ==
    ASSUME IInv, Known, NEW c \in Clients, Inserts(c), NEW j \in Jobs, RowCommitted(c, j)
    PROVE /\ job'[j].op # "reindex" =>
                \/ j = Initial /\ version'[j].number = 1 /\ doc'.next = doc.next
                \/ version'[j].number = doc.next /\ doc'.next = doc.next + 1
          /\ job'[j].op = "reindex" => doc' = doc /\ version' = version
          /\ job'[j].op # "initial_ingestion" => LifecycleJob(j)' /\ ~LifecycleBusy(Jobs)
  <1>0. /\ TypeInv /\ NumbersKnown /\ doc.next \in Nat /\ job'[j].op = request[c].op
        /\ request[c].step = "loaded" /\ request[c].job = j
    BY DEF IInv, Known, RowCommitted, TypeInv, TypeOK, StoreTypeOK, DocumentRecord
  <1>1. CASE CommitUpload(c)
    <2>1. j = Initial /\ request[c].op = "initial_ingestion"
      BY <1>0, <1>1 DEF CommitUpload, RequestAt, TypeInv, RequestsNamed
    <2>2. doc'.next = doc.next /\ version'[j].number = 1
      BY <1>0, <1>1, <2>1 DEF CommitUpload, InsertVersion, TypeInv, TypeOK, StoreTypeOK,
         DocumentRecord
    <2> QED
      BY <1>0, <2>1, <2>2
  <1>2. CASE CommitReplacement(c)
    <2>1. PICK n : n = request[c].next
      OBVIOUS
    <2>2. /\ n \in 2 .. doc.next /\ ~NumberTaken(n) /\ ~LifecycleBusy(Jobs)
          /\ request[c].op = "replacement_ingestion"
      BY <1>0, <1>2, <2>1 DEF NumbersKnown, CommitReplacement, RequestAt,
         ReplacementAllowed
    <2>3. n = doc.next
      BY <1>0, <2>2 DEF NumbersKnown
    <2>4. doc'.next = n + 1 /\ version'[j].number = n
      BY <1>0, <1>2, <2>1 DEF CommitReplacement, InsertVersion, TypeInv, TypeOK,
         StoreTypeOK, DocumentRecord
    <2> QED
      BY <1>0, <2>2, <2>3, <2>4 DEF LifecycleJob
  <1>3. CASE CommitReindex(c)
    <2>1. request[c].op = "reindex" /\ ~LifecycleBusy(Jobs) /\ doc' = doc /\ version' = version
      BY <1>3 DEF CommitReindex, RequestAt, ReindexAllowed
    <2> QED
      BY <1>0, <2>1 DEF LifecycleJob
  <1> QED
    BY <1>1, <1>2, <1>3 DEF Inserts

\* A commit keeps all of Known.
LEMMA InsertForward ==
    ASSUME IInv, Known, Undeleted, NEW c \in Clients, Inserts(c)
    PROVE Known'
  <1>1. PICK j \in Jobs : RowCommitted(c, j)
    BY InsertedRow
  <1>0. /\ TypeInv /\ JobsKnown /\ NumbersKnown /\ UnendedIsNewest
        /\ doc.next \in Nat /\ \A u \in Jobs : version[u].number \in Nat
    BY DEF IInv, Known, TypeInv, TypeOK, StoreTypeOK, DocumentRecord, VersionRecord
  <1>2. JobsKnown'
    <2>1. job'[j].op = "initial_ingestion" => j = Initial
      BY <1>0, <1>1 DEF RowCommitted, TypeInv, RequestsNamed
    <2> QED
      BY <1>0, <1>1, <2>1, InsertedNumber DEF RowCommitted, JobsKnown, LifecycleJob
  <1>3. \A u \in Jobs \ {j} : version'[u] = version[u] /\ (VersionRow(u)' <=> VersionRow(u))
    BY <1>1 DEF RowCommitted, VersionRow
  <1>4. ~VersionRow(j)
    BY <1>1 DEF RowCommitted
  <1>5. doc.next >= 2 /\ \A u \in Jobs : VersionRow(u) => version[u].number < doc.next
    BY <1>0 DEF NumbersKnown
  <1>6. NumbersKnown'
    <2>1. \A n : NumberTaken(n) => NumberTaken(n)'
      BY <1>3, <1>4 DEF NumberTaken
    <2>2. \A d \in Clients :
            request'[d].step = "loaded" /\ request'[d].op = "replacement_ingestion"
                => request'[d].next \in 2 .. doc.next
      BY <1>0, <1>1 DEF RowCommitted, NumbersKnown
    <2>3. CASE job'[j].op = "reindex"
      <3>1. doc' = doc /\ version' = version
        BY <1>1, <2>3, InsertedNumber
      <3> QED
        BY <1>0, <2>1, <2>2, <3>1 DEF NumbersKnown, VersionRow
    <2>4. CASE j = Initial /\ version'[j].number = 1 /\ doc'.next = doc.next
      <3>1. \A n \in 2 .. doc'.next - 1 : NumberTaken(n)'
        BY <1>0, <2>1, <2>4 DEF NumbersKnown
      <3>2. \A u \in Jobs : VersionRow(u)' => version'[u].number < doc'.next
        BY <1>0, <1>3, <1>5, <2>4
      <3> QED
        BY <1>0, <1>5, <2>2, <2>4, <3>1, <3>2 DEF NumbersKnown
    <2>5. CASE job'[j].op # "reindex" /\ version'[j].number = doc.next
               /\ doc'.next = doc.next + 1
      <3>0. PICK m : m = doc.next
        OBVIOUS
      <3>1. NumberTaken(m)'
        BY <1>1, <2>5, <3>0 DEF NumberTaken, RowCommitted
      <3>2. \A n \in 2 .. doc'.next - 1 : n \in 2 .. m - 1 \/ n = m
        BY <1>0, <2>5, <3>0
      <3>3. \A n \in 2 .. doc'.next - 1 : NumberTaken(n)'
        BY <1>0, <2>1, <3>0, <3>1, <3>2 DEF NumbersKnown
      <3>4. \A u \in Jobs : VersionRow(u)' => version'[u].number < doc'.next
        BY <1>0, <1>3, <1>5, <2>5
      <3>5. doc'.next >= 2 /\ 2 .. doc.next \subseteq 2 .. doc'.next
        BY <1>0, <1>5, <2>5
      <3>6. \A d \in Clients :
            request'[d].step = "loaded" /\ request'[d].op = "replacement_ingestion"
                => request'[d].next \in 2 .. doc'.next
        BY <2>2, <3>5
      <3> QED
        BY <3>3, <3>4, <3>5, <3>6 DEF NumbersKnown
    <2> QED
      BY <1>1, <2>3, <2>4, <2>5, InsertedNumber
  <1>7. UnendedIsNewest'
    <2> SUFFICES ASSUME NEW k \in Jobs, job'[k].op # "reindex", VersionRow(k)', ~Ended(k)'
                 PROVE /\ Live(k)'
                       /\ \A u \in Jobs : VersionRow(u)' =>
                            version'[u].number <= version'[k].number
      BY DEF UnendedIsNewest, Live
    <2>1. CASE k = j
      <3>1. Live(k)'
        BY <1>1, <2>1 DEF RowCommitted, Live, ActiveJobStatus
      <3>2. CASE j = Initial
        <4>1. \A u \in Jobs : VersionRow(u)' => u = j
          BY <1>1, <1>3, <3>2, UploadComesFirst
        <4>2. version'[j].number = 1 \/ version'[j].number = doc.next
          BY <1>1, <2>1, InsertedNumber
        <4> QED
          BY <1>0, <2>1, <3>1, <4>1, <4>2
      <3>3. CASE j # Initial
        <4>1. version'[j].number = doc.next
          BY <1>1, <2>1, <3>3, InsertedNumber
        <4>2. \A u \in Jobs : VersionRow(u)' => version'[u].number <= doc.next
          BY <1>0, <1>3, <1>5, <4>1
        <4> QED
          BY <2>1, <3>1, <4>1, <4>2
      <3> QED
        BY <3>2, <3>3
    <2>2. CASE k # j
      <3>1. job[k] = job'[k] /\ version[k] = version'[k] /\ ~Ended(k) /\ VersionRow(k)
        BY <1>1, <1>3, <2>2 DEF RowCommitted, Ended
      <3>2. job[k].status \in ActiveJobStatus /\ job[k].status # "none"
            /\ version[k].status # "active"
        BY <1>0, <2>2, <3>1 DEF UnendedIsNewest, ActiveJobStatus
      <3>3. CASE job'[j].op = "initial_ingestion"
        <4>1. j = Initial
          BY <1>0, <1>1, <3>3 DEF RowCommitted, TypeInv, RequestsNamed
        <4> QED
          BY <1>1, <3>2, <4>1, UploadComesFirst
      <3>4. CASE job'[j].op # "initial_ingestion"
        <4>1. ~LifecycleBusy(Jobs) /\ Ended(Initial)
          BY <1>1, <3>4, InsertedNumber, UploadComesFirst DEF RowCommitted
        <4>2. LifecycleJob(k)
          BY <1>0, <3>1, <3>2, <4>1 DEF JobsKnown
        <4> QED
          BY <3>2, <4>1, <4>2 DEF LifecycleBusy
      <3> QED
        BY <3>3, <3>4
    <2> QED
      BY <2>1, <2>2
  <1> QED
    BY <1>1, <1>2, <1>6, <1>7, InsertKeeps DEF Known

\* Before the first step nothing is known or needed.
LEMMA InitForward == Init => ForwardInv
  <1> SUFFICES ASSUME Init PROVE Known
    BY DEF Known, ForwardInv
  <1>1. /\ \A j \in Jobs : /\ job[j].status = "none" /\ job[j].op = "initial_ingestion"
                          /\ job[j].ver = j /\ version[j] = NoVersion
        /\ doc.active = None /\ doc.next = 2 /\ Initial \in Jobs /\ None \notin Jobs
        /\ \A w \in Workers : worker[w].step = "idle"
        /\ \A c \in Clients : request[c].step = "idle"
    BY JobsAssumption DEF Init, AllJobs, IdleWorker, IdleRequest
  <1>2. \A j \in Jobs : ~VersionRow(j) /\ ~version[j].failed
    BY <1>1 DEF VersionRow, NoVersion
  <1>3. JobsKnown /\ VersionsOwned /\ UnendedIsNewest /\ UploadEndsFirst
        /\ ServedHasEnded /\ FailedHasRow /\ ReadsOfEnded
    BY <1>1, <1>2 DEF JobsKnown, VersionsOwned, UnendedIsNewest, UploadEndsFirst,
       ServedHasEnded, FailedHasRow, ReadsOfEnded, NoVersion, VersionRow
  <1>4. NumbersKnown
    BY <1>1, <1>2 DEF NumbersKnown
  <1> QED
    BY <1>3, <1>4 DEF Known

\* Every step keeps it, or accepts the deletion.
LEMMA ForwardNext == IInv /\ ForwardInv /\ [Next]_vars => ForwardInv'
  <1> SUFFICES ASSUME IInv, ForwardInv, [Next]_vars, Undeleted' PROVE Known'
    BY DEF Known, ForwardInv, Undeleted
  <1>1. Undeleted
    BY AcceptedStays DEF Undeleted, IInv, RowInv, SourceInv
  <1>2. Known
    BY <1>1 DEF Known, ForwardInv, Undeleted
  <1> QED
    BY <1>1, <1>2, StepForward, InsertForward

\* What is activated is the newest version, the served one, or one given up before.
LEMMA ActivationStep ==
    ASSUME IInv, ForwardInv, [Next]_vars, NEW v \in Jobs, Undeleted, doc'.active = v,
           doc.active # None, ~version[v].failed
    PROVE version'[v].number >= version[doc.active].number
  <1>0. /\ TypeInv /\ Known /\ doc.active \in Jobs /\ VersionRow(doc.active)
        /\ \A u \in Jobs : version[u].number \in Nat
    BY DEF IInv, PointersResolve, Known, ForwardInv, Undeleted, TypeInv, TypeOK,
       StoreTypeOK, DocumentRecord, VersionRecord
  <1>1. ~\E w \in Workers : Purge(w)
    BY DEF IInv, SourceInv, DeletionAccepted, Purge, At, DeletionAttempt, Undeleted
  <1>2. ASSUME NEW c \in Clients, Inserts(c)
        PROVE version'[v].number >= version[doc.active].number
    <2>1. PICK j \in Jobs : RowCommitted(c, j)
      BY <1>0, <1>2, InsertedRow
    <2>2. doc.active = v /\ version'[v] = version[v]
      BY <1>0, <2>1 DEF RowCommitted
    <2> QED
      BY <1>0, <2>2
  <1>3. ASSUME NEW w \in Workers, Publish(w), NumbersStay
        PROVE version'[v].number >= version[doc.active].number
    <2>1. PICK j : j = Job(w)
      OBVIOUS
    <2>2. RowsPublished(j, v)
      BY <1>3, <2>1, PublishRows DEF IInv, RowsPublished
    <2>3. CASE job[j].op = "reindex"
      <3>1. doc.active = v
        BY <1>3, <2>1, <2>2, <2>3 DEF Publish, PublicationStale, RowsPublished
      <3> QED
        BY <1>0, <1>3, <3>1 DEF NumbersStay
    <2>4. CASE job[j].op # "reindex"
      <3>1. v = j /\ job[j].status # "succeeded" /\ VersionRow(j) /\ j \in Jobs
        BY <1>0, <1>3, <2>1, <2>2, <2>4 DEF Publish, PublicationStale, RowsPublished,
           Known, JobsKnown
      <3>2. version[doc.active].number <= version[v].number
        BY <1>0, <2>4, <3>1 DEF Known, UnendedIsNewest, Ended
      <3> QED
        BY <1>0, <1>3, <3>2 DEF NumbersStay
    <2> QED
      BY <2>3, <2>4
  <1>4. ASSUME NumbersStay, ~\E w \in Workers : Publish(w)
        PROVE version'[v].number >= version[doc.active].number
    <2>1. doc'.active = doc.active \/ \E c \in Clients : Inserts(c)
      BY <1>1, <1>4, RowSteps, AcceptRows DEF IInv, RowsMarked, Commit, Inserts
    <2>2. CASE doc'.active = doc.active
      BY <1>0, <1>4, <2>2 DEF NumbersStay
    <2> QED
      BY <1>2, <2>1, <2>2
  <1> QED
    BY <1>1, <1>2, <1>3, <1>4, NumbersNext

(* However messages are delivered, an activation replaces the served       *)
(* version by a later one or by itself, until a deletion is accepted; only *)
(* a version whose ingestion had been given up may come back.              *)
THEOREM ServiceMovesForward == Spec => ActivationMovesForward
  <1>1. IInv /\ ForwardInv /\ [Next]_vars =>
            [\A v \in Jobs :
                job[Deletion].status = "none" /\ doc'.active = v /\ doc.active # None
                => \/ version'[v].number >= version[doc.active].number
                   \/ version[v].failed]_vars
    BY ActivationStep DEF Undeleted
  <1> QED
    BY <1>1, InitForward, ForwardNext, InductiveInvariant, PTL
       DEF Spec, ActivationMovesForward
==============================================================================
