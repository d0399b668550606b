---------------------------- MODULE SingleDelivery ----------------------------
(***************************************************************************)
(* The lifecycle while every message is delivered once: no worker dies, no *)
(* visibility timeout passes and the reconciler does not run.  Then a job  *)
(* has one message, in one place, and at most one ingestion job is busy,   *)
(* which makes the inductive invariant below, and with it the refinement   *)
(* of ServedDocument.                                                      *)
(***************************************************************************)
EXTENDS LifecycleClaims, LifecycleInvariant

DeliveredOnce == Disturbances \cap {"crash", "redeliver", "republish"} = {}

Busy(j) == job[j].status \in ActiveJobStatus
Settled(j) == job[j].status \in {"succeeded", "purged"}

(* The message of a job is in the queue, in the hands of a worker or still *)
(* to be published by the request that committed the job.                  *)
Queued(j) == \E m \in queue : m[1] = j
Holds(w, j) == ~At(w, "idle") /\ ~At(w, "done") /\ Job(w) = j
Owes(c, j) == request[c].step = "committed" /\ request[c].job = j
Carried(j) ==
    Queued(j) \/ (\E w \in Workers : Holds(w, j)) \/ (\E c \in Clients : Owes(c, j))

OneMessage ==
    \A j \in Jobs :
        /\ \A m, n \in queue : m[1] = j /\ n[1] = j => m = n
        /\ \A v, w \in Workers : Holds(v, j) /\ Holds(w, j) => v = w
        /\ \A c, d \in Clients : Owes(c, j) /\ Owes(d, j) => c = d
        /\ \A w \in Workers : Holds(w, j) => ~Queued(j)
        /\ \A c \in Clients : Owes(c, j) => ~Queued(j) /\ \A w \in Workers : ~Holds(w, j)

(* A job that is done has no message any more.                             *)
CarriedIsBusy == \A j \in Jobs : Carried(j) => Busy(j) \/ job[j].status = "purged"

OneBusy == \A j, k \in Jobs : Busy(j) /\ Busy(k) => j = k

(* The upload is done before anything replaces or reindexes.               *)
InitialFirst ==
    /\ \A j \in Jobs \ {Initial} : job[j].status # "none" => Settled(Initial)
    /\ \A c \in Clients : request[c].step = "loaded" /\ request[c].op # "initial_ingestion"
            => Settled(Initial)
    /\ doc.active # None => Settled(Initial)

ServedIsSettled ==
    \A v \in Jobs : doc.active = v =>
        job[v].status = "succeeded" /\ job[version[v].gen].status = "succeeded"

(* What a worker read and is about to write from has not changed since,    *)
(* unless the rows were purged.                                            *)
Reading == {"claim", "failCommit"}
ReadIsCurrent ==
    \A w \in Workers :
        (worker[w].step \in Reading /\ Job(w) \in Jobs /\ JobRow(Job(w))) =>
            /\ worker[w].snap.active = doc.active
            /\ worker[w].snap.job = job[Job(w)].status
            /\ worker[w].snap.ver = version[job[Job(w)].ver].status

(* One job at most is still carried when its row is purged; until that is  *)
(* over no other ingestion begins.                                         *)
AfterPurge ==
    \A j \in Jobs : job[j].status = "purged" =>
        /\ job[Deletion].status # "none"
        /\ Carried(j) =>
            /\ doc.status = "deleted"
            /\ \A k \in Jobs : Carried(k) /\ job[k].status = "purged" => k = j
            /\ \A w \in Workers, k \in Jobs : Holds(w, k) => k = j

(* Whoever works on the deletion job found its row.                        *)
DeletionHeld ==
    \A w \in Workers : Holds(w, Deletion) => job[Deletion].status # "none"

OnceInv ==
    /\ DeletionHeld /\ OneMessage /\ CarriedIsBusy /\ OneBusy /\ JobsKnown /\ InitialFirst
    /\ ServedIsSettled /\ ReadIsCurrent /\ AfterPurge /\ StatusesAgree

-----------------------------------------------------------------------------
(* A busy job has a candidate that was never active; its version moves     *)
(* with its generation.                                                    *)
CandidatesKnown ==
    \A j \in Jobs :
        /\ job[j].status = "none" => generation[j] = "none"
        /\ Busy(j) => generation[j] \in {"pending", "processing"}
        /\ Busy(j) /\ job[j].op # "reindex" =>
            /\ version[j].gen = None
            /\ version[j].status \in {"pending", "processing"}
            /\ generation[j] = "processing" => version[j].status = "processing"
=================================================================================
