---------------------------- MODULE WorkerProcess ----------------------------
(***************************************************************************)
(* What the two Celery tasks share: how a worker takes a message, retries  *)
(* or gives up after an error, records the failure, and acknowledges.      *)
(***************************************************************************)
EXTENDS LifecycleStore

Job(w) == worker[w].msg[1]
Tries(w) == worker[w].msg[2]
At(w, step) == worker[w].step = step
Goto(w, step) == worker' = [worker EXCEPT ![w].step = step]
GotoWith(w, step, snap) ==
    worker' = [worker EXCEPT ![w].step = step, ![w].snap = snap]

(* The advisory lock is released in process_job's finally block, whatever  *)
(* left it; a worker that never took it releases nothing.                  *)
Released(w) == [j \in Jobs |-> IF lock[j] = w THEN None ELSE lock[j]]

Idle(w) == worker' = [worker EXCEPT ![w] = IdleWorker]

(* Read committed plain SELECTs of a job and of the rows it points to.     *)
Read(j) ==
    [job |-> job[j].status,
     ver |-> IF j = Deletion THEN "none" ELSE version[job[j].ver].status,
     gen |-> IF j = Deletion THEN "none" ELSE generation[j],
     doc |-> doc.status,
     active |-> doc.active]

(* An error reached the task's except clause: the lock is free again.      *)
Raise(w, step) ==
    /\ GotoWith(w, step, NoSnapshot)
    /\ lock' = Released(w)

(* self.retry publishes the message with one more retry; the original is   *)
(* acknowledged afterwards.                                                *)
MayRetryOnceMore(w) == Tries(w) <= MaxRetries        \* mutant: off by one
MayRetry(w) == Tries(w) < MaxRetries

Retry(w) ==
    /\ At(w, "retry")
    /\ MayRetry(w)
    /\ queue' = queue \cup {<<Job(w), Tries(w) + 1>>}
    /\ Goto(w, "done")
    /\ UNCHANGED <<rows, files, lock, request, faults, errors>>

(* The broker refuses the retry: Celery rejects the message without        *)
(* requeueing it.                                                          *)
RetryLost(w) ==
    /\ At(w, "retry")
    /\ MayRetry(w)
    /\ Fault("retry")
    /\ Goto(w, "done")
    /\ UNCHANGED <<rows, files, queue, lock, request, errors>>

GiveUp(w) ==
    /\ At(w, "retry")
    /\ ~MayRetry(w)
    /\ Goto(w, "failRead")
    /\ UNCHANGED <<rows, files, queue, lock, request, faults, errors>>

(* Marking the failure is a transaction of its own: unlocked reads...      *)
FailRead(w) ==
    /\ At(w, "failRead")
    /\ GotoWith(w, "failCommit", Read(Job(w)))
    /\ UNCHANGED <<rows, files, queue, lock, request, faults, errors>>

(* An SQLAlchemyError in one of process_job's or process_deletion's own    *)
(* transactions rolls it back and goes to the retry decision.  In          *)
(* mark_retry_exhausted, which runs in the except clause, nothing catches  *)
(* it: the task fails and the message is acknowledged.                     *)
InTransaction(w) ==
    \/ At(w, "claim") \/ At(w, "publish") \/ At(w, "failCommit")
    \/ At(w, "delClaim")
    \/ At(w, "delFiles") /\ worker[w].keys = {}

Exhausted(w) == At(w, "failCommit") /\ \A j \in Jobs : lock[j] # w

SqlError(w) ==
    /\ InTransaction(w)
    /\ Error
    /\ Raise(w, IF Exhausted(w) THEN "done" ELSE "retry")
    /\ UNCHANGED <<rows, files, queue, request, faults>>

(* The task returned: the message is acknowledged (task_acks_late).        *)
AcknowledgeNever(w) ==                               \* mutant: left unacknowledged
    /\ At(w, "done")
    /\ lock' = Released(w)
    /\ queue' = queue \cup {worker[w].msg}
    /\ Idle(w)
    /\ UNCHANGED <<rows, files, request, faults, errors>>

Acknowledge(w) ==
    /\ At(w, "done")
    /\ lock' = Released(w)
    /\ Idle(w)
    /\ UNCHANGED <<rows, files, queue, request, faults, errors>>

TaskStep(w) ==
    Retry(w) \/ RetryLost(w) \/ GiveUp(w) \/ FailRead(w) \/ SqlError(w)
        \/ Acknowledge(w)
==============================================================================
