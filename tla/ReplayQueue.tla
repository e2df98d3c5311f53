------------------------------- MODULE ReplayQueue -------------------------------
(***************************************************************************)
(* The replay queue (cloud/infra/sqs.tf) and the worker that drains it     *)
(* (cloud/api/worker.py).  A message that is received stays in the queue,  *)
(* unseen, until it is deleted; when it is not deleted in time it is seen  *)
(* again, and after MaxReceive times it is moved to the dead-letter queue. *)
(* A day after it was sent it is gone, received or not.  The service has   *)
(* no worker until somebody asks for one (worker_desired_count = 0).       *)
(***************************************************************************)
EXTENDS Naturals

CONSTANTS
  Message,
  WorkerTask,    \* worker processes
  MaxReceive,    \* maxReceiveCount
  MaxStops,      \* bound: workers killed or asked to stop, and messages that expire
  Nothing

VARIABLES
  sent,      \* the messages sent so far
  message,   \* where each is, once sent, how often it was received, its body
  outcome,   \* what process_message returned for it last
  task,      \* what each worker is doing
  stops

vars  == <<sent, message, outcome, task, stops>>
queue == <<message, outcome, task, stops>>

Body == {"job", "notJson", "notObject"}

TypeOK ==
  /\ sent \subseteq Message
  /\ message \in [Message -> [in : {"queue", "flight", "dead", "deleted", "expired"},
                              receives : 0..MaxReceive, body : Body]]
  /\ outcome \in [Message -> {"none", "handled", "dropped", "raised"}]
  /\ task \in [WorkerTask -> [at : {"poll", "process", "settle", "exited"},
                              msg : Message \cup {Nothing}, running : BOOLEAN]]
  /\ stops \in 0..MaxStops

Init ==
  /\ sent = {}
  /\ message = [m \in Message |-> [in |-> "queue", receives |-> 0, body |-> "job"]]
  /\ outcome = [m \in Message |-> "none"]
  /\ task = [w \in WorkerTask |-> [at |-> "exited", msg |-> Nothing, running |-> FALSE]]
  /\ stops = 0

\* Somebody else than the API sends what is no job (bound: after the first job).
SendFrom(senders) ==
  /\ sent # {}
  /\ \E m \in senders \ sent, body \in Body \ {"job"} :
       /\ sent' = sent \cup {m}
       /\ message' = [message EXCEPT ![m].body = body]
  /\ UNCHANGED <<outcome, task, stops>>

\* Mutant: deleted before it is processed.
ReceiveAndDelete(w) == \E m \in sent :
  /\ task[w].at = "poll" /\ task[w].running /\ message[m].in = "queue"
  /\ message' = [message EXCEPT ![m].in = "deleted"]
  /\ task' = [task EXCEPT ![w].at = "process", ![w].msg = m]
  /\ UNCHANGED <<sent, outcome, stops>>

\* `while _keep_running', receive_message
Receive(w) == \E m \in sent :
  /\ task[w].at = "poll" /\ task[w].running
  /\ message[m].in = "queue" /\ message[m].receives < MaxReceive
  /\ message' = [message EXCEPT ![m].in = "flight", ![m].receives = @ + 1]
  /\ task' = [task EXCEPT ![w].at = "process", ![w].msg = m]
  /\ UNCHANGED <<sent, outcome, stops>>

\* process_message.  A body that is JSON and no object raises: logged, and on to
\* the next poll.
Process(w) ==
  /\ task[w].at = "process"
  /\ outcome' = [outcome EXCEPT ![task[w].msg] =
                   CASE message[task[w].msg].body = "job"       -> "handled"
                     [] message[task[w].msg].body = "notJson"   -> "dropped"
                     [] message[task[w].msg].body = "notObject" -> "raised"]
  /\ task' = IF message[task[w].msg].body = "notObject"
               THEN [task EXCEPT ![w].at = "poll", ![w].msg = Nothing]
               ELSE [task EXCEPT ![w].at = "settle"]
  /\ UNCHANGED <<sent, message, stops>>

\* `if handled: delete_message', and on to the next poll.  What is no longer in the
\* queue is not there to be deleted.
Deletes(m) == message[m].body = "job" /\ message[m].in \in {"queue", "flight"}

Settle(w) ==
  /\ task[w].at = "settle"
  /\ message' = IF Deletes(task[w].msg)
                  THEN [message EXCEPT ![task[w].msg].in = "deleted"]
                  ELSE message
  /\ task' = [task EXCEPT ![w].at = "poll", ![w].msg = Nothing]
  /\ UNCHANGED <<sent, outcome, stops>>

\* A worker that was asked to stop leaves its loop when its poll is done.
Exit(w) ==
  /\ task[w].at = "poll" /\ ~task[w].running
  /\ task' = [task EXCEPT ![w].at = "exited"]
  /\ UNCHANGED <<sent, message, outcome, stops>>

\* Bound: as long as there was no job, a worker that ends changes nothing.
MayStop == sent # {} /\ stops < MaxStops /\ stops' = stops + 1

\* SIGTERM
Stop(w) ==
  /\ MayStop
  /\ task[w].running
  /\ task' = [task EXCEPT ![w].running = FALSE]
  /\ UNCHANGED <<sent, message, outcome>>

\* SIGKILL, or a call of the queue raises: what it had received is left as it is.
Kill(w) ==
  /\ MayStop
  /\ task[w].at # "exited"
  /\ task' = [task EXCEPT ![w] = [at |-> "exited", msg |-> Nothing, running |-> FALSE]]
  /\ UNCHANGED <<sent, message, outcome>>

\* ECS starts a worker: in the place of one that ended, or because the service was
\* scaled up.  It need not (bound: as long as there was no job).
StartTask(w) ==
  /\ task[w].at = "exited" /\ sent # {}
  /\ task' = [task EXCEPT ![w] = [at |-> "poll", msg |-> Nothing, running |-> TRUE]]
  /\ UNCHANGED <<sent, message, outcome, stops>>

\* The visibility timeout: however slow the worker that has the message.
Reappear(m) ==
  /\ message[m].in = "flight"
  /\ message' = [message EXCEPT ![m].in =
                   IF message[m].receives = MaxReceive THEN "dead" ELSE "queue"]
  /\ UNCHANGED <<sent, outcome, task, stops>>

\* The retention period is over: the message is gone, whoever works on it.
Expire(m) ==
  /\ MayStop
  /\ m \in sent /\ message[m].in \in {"queue", "flight"}
  /\ message' = [message EXCEPT ![m].in = "expired"]
  /\ UNCHANGED <<sent, outcome, task>>

Work(w) == Receive(w) \/ Process(w) \/ Settle(w) \/ Exit(w)

Next == \/ \E w \in WorkerTask : Work(w) \/ StartTask(w) \/ Stop(w) \/ Kill(w)
        \/ \E m \in Message : Reappear(m) \/ Expire(m)

\* A worker that runs goes on; nothing makes ECS start one.
Fairness == /\ \A w \in WorkerTask : WF_vars(Work(w))
            /\ \A m \in Message : WF_vars(Reappear(m))

\* The service has a worker.
Staffed == \E w \in WorkerTask : task[w].at # "exited"

-----------------------------------------------------------------------------
(* Properties *)

\* A job leaves the queue only after a worker has handled it, whatever worker dies
\* in between: at least once, never not at all (worker.py:107-118).
DeletedWasHandled ==
  \A m \in Message : message[m].in = "deleted" => outcome[m] = "handled"

\* "False on permanent failure (still delete so it doesn't loop forever)"
\* (worker.py:65-66): no worker is done with a malformed message that is still there.
MalformedIsDeleted == \A m \in Message :
  outcome[m] = "dropped" /\ (\A w \in WorkerTask : task[w].msg # m)
    => message[m].in = "deleted"
================================================================================
