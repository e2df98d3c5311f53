--------------------------------- MODULE Cloud ---------------------------------
(* The cloud deployment: the API, the replay queue it sends jobs to, and the      *)
(* workers.  The API and the workers share nothing but the queue.                 *)
EXTENDS CloudApi

CONSTANTS Foreign, WorkerTask, MaxReceive, MaxStops  \* Foreign: not sent by the API

ASSUME QueueAssumption ==
  /\ Foreign \cap Request = {} /\ None \notin Foreign
  /\ MaxReceive \in Nat \ {0} /\ MaxStops \in Nat

VARIABLES message, outcome, task, stops

Q == INSTANCE ReplayQueue WITH
       Message <- Request \cup Foreign, Nothing <- None,
       sent <- jobs

queue == <<message, outcome, task, stops>>
cloud == <<vars, queue>>

CloudInit == Init /\ Q!Init

CloudNext ==
  \/ Next /\ UNCHANGED queue
  \/ /\ Q!Next
     /\ UNCHANGED <<req, lock, free, lost, database, errors, crashes>>
  \/ /\ Q!SendFrom(Foreign)
     /\ UNCHANGED <<req, lock, free, lost, database, errors, crashes>>

CloudSpec == CloudInit /\ [][CloudNext]_cloud
FairCloudSpec ==
  /\ CloudSpec
  /\ \A r \in Request : WF_vars(Serve(r))
  /\ Q!Fairness

-----------------------------------------------------------------------------
(* Properties *)

\* Every field of the API, the queue and the workers stays in its set; and through
\* failing queries, broken connections, timeouts and crashes every connection is in its
\* process's pool, with a request, or lost in one of the two ways the code has of losing
\* one, and a control lock with a request that uses it, see CloudApi.
ResourcesAccounted == TypeOK /\ Q!TypeOK /\ PoolBalanced

\* The requests that may be for a branch.
Branching == {r \in Request : \E kind \in Traffic : kind[r] = "branch"}

\* While the service, once there are jobs, has a worker again and again, the job a client
\* was told is queued is handled, once at least: it is not lost between the API's answer,
\* the queue and workers that die, though SQS may set it aside or drop it after the
\* retention period (app.py:303-326, worker.py:107-118, sqs.tf:15-26).
QueuedIsHandled == []<>(jobs = {} \/ Q!Staffed) => \A r \in Branching :
  req[r].kind = "branch" /\ At(r, "200")
    ~> outcome[r] = "handled" \/ message[r].in \in {"dead", "expired"}

\* See ReplayQueue.
DeletedWasHandled  == Q!DeletedWasHandled
MalformedIsDeleted == Q!MalformedIsDeleted
================================================================================
