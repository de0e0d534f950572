--------------------------------- MODULE Media ---------------------------------
(***************************************************************************)
(* Uploaded images (media/): the browser sends the file to a bucket and    *)
(* confirms; a worker of its own, one at a time, renders it and publishes  *)
(* the renditions; a sweep every two minutes queues again what stands      *)
(* still, fails what stood still too often and drops what was never        *)
(* confirmed.  Nothing is locked: each reads the row and writes it later.  *)
(*                                                                         *)
(* What a product keeps of its images is in Catalog; sizes, colours, alt   *)
(* texts and positions are left out.                                       *)
(***************************************************************************)
EXTENDS Naturals, FiniteSets

CONSTANTS Images,        \* rows this owner ever has
          MaxForOwner,   \* `media_limit`
          MaxAttempts,   \* MAX_PROCESS_ATTEMPTS
          MaxFaults      \* lost or doubled tasks (model bound)

VARIABLES media,     \* per row: status, attempts, whether it stood still too long
          sent,      \* rows whose file is in the private bucket
          tasks,     \* rows with a task waiting in the media queue
          worker,    \* what the worker renders and how it came out
          published, \* rows with renditions in the public bucket
          sweep,     \* the row the sweep is about to fail
          strays     \* faults so far

mediaVars == <<media, sent, tasks, worker, published, sweep, strays>>

NoMedia == 0
New == [status |-> "none", attempts |-> 0, stale |-> FALSE]
Idle == [job |-> "idle", media |-> NoMedia, result |-> "none"]
Is(m, status) == media[m].status = status
Exists(m) == media[m].status \notin {"none", "deleted"}

-----------------------------------------------------------------------------
(* The panel *)

CreateUpload(m) ==
    /\ Is(m, "none")
    /\ Cardinality({n \in Images : Exists(n) /\ ~Is(n, "failed")}) < MaxForOwner
    /\ media' = [media EXCEPT ![m].status = "pending"]
    /\ UNCHANGED <<sent, tasks, worker, published, sweep, strays>>

Uploads(m) ==
    /\ Is(m, "pending") /\ sent' = sent \cup {m}
    /\ UNCHANGED <<media, tasks, worker, published, sweep, strays>>

\* `complete`: idempotent; media.uploaded is handed to the media queue, or the task is lost.
Complete(m) ==
    /\ Is(m, "pending") /\ m \in sent
    /\ media' = [media EXCEPT ![m].status = "processing", ![m].stale = FALSE]
    /\ \/ tasks' = tasks \cup {m} /\ UNCHANGED strays
       \/ strays < MaxFaults /\ strays' = strays + 1 /\ UNCHANGED tasks
    /\ UNCHANGED <<sent, worker, published, sweep>>

\* `delete`: media.deleted has the objects the row knew of, and the janitor removes them.
Delete(m) ==
    /\ Exists(m)
    /\ media' = [media EXCEPT ![m].status = "deleted"]
    /\ sent' = sent \ {m}
    /\ published' = IF Is(m, "ready") THEN published \ {m} ELSE published
    /\ UNCHANGED <<tasks, worker, sweep, strays>>

-----------------------------------------------------------------------------
(* `process_media`, in the one media worker *)

Attempted_Never(n) == n                                       \* mutant
Attempted(n) == n + 1
Claims(m) ==
    /\ worker.job = "idle" /\ m \in tasks
    /\ tasks' = tasks \ {m}
    /\ IF Is(m, "processing")
       THEN /\ media' = [media EXCEPT ![m].attempts = Attempted(@), ![m].stale = FALSE]
            /\ worker' = [job |-> "renders", media |-> m, result |-> "none"]
       ELSE UNCHANGED <<media, worker>>
    /\ UNCHANGED <<sent, published, sweep, strays>>

\* The file is gone or is no image; or it is rendered and its renditions are published; or the
\* storage fails, or the worker dies, and the row is left as it is.
Renders ==
    LET m == worker.media
    IN  /\ worker.job = "renders"
        /\ \/ worker' = [worker EXCEPT !.job = "writes", !.result = "failed"] /\ UNCHANGED published
           \/ /\ m \in sent
              /\ worker' = [worker EXCEPT !.job = "writes", !.result = "ready"]
              /\ published' = published \cup {m}
           \/ worker' = Idle /\ published' \in {published, published \cup ({m} \cap sent)}
        /\ UNCHANGED <<media, sent, tasks, sweep, strays>>

\* `finish` and `_finish_failed`: only a row still being processed is written.
Finishes ==
    LET m == worker.media
    IN  /\ worker.job = "writes" /\ worker' = Idle
        /\ media' = IF Is(m, "processing") THEN [media EXCEPT ![m].status = worker.result, ![m].stale = FALSE]
                    ELSE media
        /\ UNCHANGED <<sent, tasks, published, sweep, strays>>

-----------------------------------------------------------------------------
(* `sweep_stale_media` *)

\* Six minutes since it was last touched, or a day if it was never confirmed.
StandsStill(m) ==
    /\ media[m].status \in {"pending", "processing"} /\ ~media[m].stale
    /\ media' = [media EXCEPT ![m].stale = TRUE]
    /\ UNCHANGED <<sent, tasks, worker, published, sweep, strays>>

TooOften(m) == media[m].attempts >= MaxAttempts
Requeues(m) ==
    /\ Is(m, "processing") /\ media[m].stale /\ ~TooOften(m)
    /\ media' = [media EXCEPT ![m].stale = FALSE]
    /\ \/ tasks' = tasks \cup {m} /\ UNCHANGED strays
       \/ strays < MaxFaults /\ strays' = strays + 1 /\ UNCHANGED tasks
    /\ UNCHANGED <<sent, worker, published, sweep>>

\* A row that is to fail was read before it is written: a slow worker may finish in between.
SweepReads(m) ==
    /\ sweep = NoMedia /\ Is(m, "processing") /\ media[m].stale /\ TooOften(m)
    /\ sweep' = m
    /\ UNCHANGED <<media, sent, tasks, worker, published, strays>>
SweepFails ==
    /\ sweep # NoMedia /\ sweep' = NoMedia
    /\ media' = IF Exists(sweep) THEN [media EXCEPT ![sweep].status = "failed"] ELSE media
    /\ UNCHANGED <<sent, tasks, worker, published, strays>>

Abandons(m) ==
    /\ Is(m, "pending") /\ media[m].stale
    /\ media' = [media EXCEPT ![m].status = "deleted"]
    /\ sent' = sent \ {m}               \* the bucket's own lifecycle
    /\ UNCHANGED <<tasks, worker, published, sweep, strays>>

-----------------------------------------------------------------------------
MediaInit ==
    /\ media = [m \in Images |-> New]
    /\ sent = {} /\ tasks = {} /\ published = {}
    /\ worker = Idle /\ sweep = NoMedia /\ strays = 0

MediaNext ==
    \/ \E m \in Images : \/ CreateUpload(m) \/ Uploads(m) \/ Complete(m) \/ Delete(m)
                         \/ Claims(m) \/ StandsStill(m) \/ Requeues(m) \/ SweepReads(m) \/ Abandons(m)
    \/ Renders \/ Finishes \/ SweepFails

\* The queue is worked off, the clock goes on and the sweep comes round; nothing makes the
\* browser confirm, the owner delete, or the worker live.
MediaFair ==
    /\ \A m \in Images : /\ SF_mediaVars(Claims(m)) /\ WF_mediaVars(StandsStill(m))
                         /\ WF_mediaVars(Requeues(m)) /\ SF_mediaVars(SweepReads(m)) /\ WF_mediaVars(Abandons(m))
    /\ WF_mediaVars(Renders) /\ WF_mediaVars(Finishes) /\ WF_mediaVars(SweepFails)

MediaSpec == MediaInit /\ [][MediaNext]_mediaVars /\ MediaFair

-----------------------------------------------------------------------------
\* Every upload comes to an end, ready, failed or gone, though its task may be lost and the worker
\* die at every attempt: the attempts are counted before the work, and the sweep ends them.
UploadSettles ==
    \A m \in Images : Is(m, "pending") ~> media[m].status \in {"ready", "failed", "deleted"}
=============================================================================
