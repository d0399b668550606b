------------------------------- MODULE Broker -------------------------------
(***************************************************************************)
(* Celery over Redis, and the operator's job reconciler: at-least-once     *)
(* delivery.  acks_late and reject_on_worker_lost put the message of a     *)
(* dead worker back; a message held too long is delivered again; Redis may *)
(* lose everything it holds.                                               *)
(***************************************************************************)
EXTENDS WorkerProcess

(* The worker process dies: its connections close, so the advisory lock is *)
(* free, and the message is requeued.                                      *)
WorkerLost(w) ==
    /\ ~At(w, "idle")
    /\ Fault("crash")
    /\ queue' = queue \cup {worker[w].msg}
    /\ lock' = Released(w)
    /\ Idle(w)
    /\ UNCHANGED <<rows, files, request, errors>>

(* A time limit, or an exception no clause of the task catches: the        *)
(* message is acknowledged and the job row keeps its status.               *)
TaskKilled(w) ==
    /\ ~At(w, "idle")
    /\ ~At(w, "done")
    /\ Fault("kill")
    /\ lock' = Released(w)
    /\ Idle(w)
    /\ UNCHANGED <<rows, files, queue, request, errors>>

(* Redis's visibility timeout: delivered while another worker holds it.    *)
Redeliver(w) ==
    /\ ~At(w, "idle")
    /\ Fault("redeliver")
    /\ queue' = queue \cup {worker[w].msg}
    /\ UNCHANGED <<rows, files, lock, worker, request, errors>>

LoseMessages ==
    /\ queue # {}
    /\ Fault("broker")
    /\ queue' = {}
    /\ UNCHANGED <<rows, files, lock, worker, request, errors>>

(* republish_stale_jobs.                                                   *)
RepublishableRetries(j) == job[j].status = "retrying"       \* mutant
RepublishableIngestions(j) ==                               \* mutant
    j # Deletion /\ job[j].status \in {"queued", "retrying"}
Republishable(j) == job[j].status \in {"queued", "retrying"}

RepublishStale(j) ==
    /\ "republish" \in Disturbances
    /\ Republishable(j)
    /\ <<j, 0>> \notin queue
    /\ queue' = queue \cup {<<j, 0>>}
    /\ UNCHANGED <<rows, files, lock, worker, request, faults, errors>>

BrokerStep ==
    \/ \E w \in Workers : WorkerLost(w) \/ TaskKilled(w) \/ Redeliver(w)
    \/ LoseMessages
    \/ \E j \in AllJobs : RepublishStale(j)
==============================================================================
