-------------------------------- MODULE CloudApi --------------------------------
(***************************************************************************)
(* The cloud API (cloud/api) in Postgres mode: the processes that serve    *)
(* requests (`uvicorn --workers 2'), each with its own connection pool and *)
(* its own control lock, over one database.                                *)
(*                                                                         *)
(* A request is a list of queries.  A control query (tenants, users) takes *)
(* the process's control lock, a connection, runs, and gives both back; a  *)
(* request on a tenant's store keeps one connection for all its queries    *)
(* and takes no lock.  Every query commits on its own, so requests         *)
(* interleave between any two.                                             *)
(***************************************************************************)
EXTENDS Naturals, FiniteSetsExt

CONSTANTS
  Request,        \* the requests that may be made
  Traffic,        \* which requests may meet, and for which endpoint each is
  Email, EmailOf, \* the address a signup or a login is for
  Worker,         \* API processes
  PoolMax,        \* connections of one process (STETHOSCOPE_PG_POOL_MAX)
  Founder,        \* a tenant that exists already
  MaxErrors,      \* bound: queries that fail
  MaxCrashes,     \* bound: processes that die and are restarted
  None

Kind == {"signup", "login", "ingest", "read", "branch"}

ASSUME CloudAssumption ==
  /\ EmailOf \in [Request -> Email]
  /\ Traffic \subseteq [Request -> Kind \cup {"none"}]
  /\ PoolMax \in Nat \ {0} /\ {MaxErrors, MaxCrashes} \subseteq Nat
  /\ Founder \notin Request /\ None \notin Request \cup Worker \cup {Founder}

VARIABLES
  req,             \* the requests: where they are and what they hold
  lock,            \* the request that holds each process's control lock
  free,            \* connections in each pool
  lost,            \* the requests whose connection is gone from it for good
  tenants, users,  \* rows of the control tables
  projects, rows,  \* rows of the stores
  jobs,            \* replay jobs sent to the queue, see ReplayQueue
  errors, crashes

database == <<tenants, users, projects, rows>>
vars == <<req, lock, free, lost, database, jobs, errors, crashes>>

\* A tenant is named after the signup that made it, a project after the request
\* that did: their ids are fresh.
Tenant  == Request \cup {Founder}
Project == [id : Request, tenant : Tenant]
Part    == {"trace", "spans"}
Row     == [id : Request, part : Part, tenant : Tenant, project : Request]

Control == {"find", "mint", "enroll", "apiKey", "resolve"}
Store   == {"look", "add", "write", "spans", "read", "check"}
\* "broke" is the 500 of a control query whose connection broke, "gone" the answer
\* of a process that died.
Answer  == {"200", "401", "404", "409", "500", "broke", "gone"}

TypeOK ==
  /\ req \in [Request ->
       [kind : Kind \cup {"none"}, at : Control \cup Store \cup Answer \cup {"idle", "send", "token"},
        has : SUBSET {"lock", "conn"},
        worker : Worker \cup {None}, tenant : Tenant \cup {None},
        project : Request \cup {None}]]
  /\ lock \in [Worker -> Request \cup {None}]
  /\ free \in [Worker -> 0..PoolMax] /\ lost \in [Worker -> SUBSET Request]
  /\ tenants \subseteq Tenant
  /\ users \subseteq [email : Email, tenant : Tenant]
  /\ projects \subseteq Project /\ rows \subseteq Row
  /\ errors \in 0..MaxErrors /\ crashes \in 0..MaxCrashes

Init ==
  /\ \E kind \in Traffic :
       req = [r \in Request |->
                [kind |-> kind[r], at |-> "idle", has |-> {}, worker |-> None,
                 tenant |-> None, project |-> None]]
  /\ lock = [w \in Worker |-> None]
  /\ free = [w \in Worker |-> PoolMax] /\ lost = [w \in Worker |-> {}]
  /\ tenants = {Founder} /\ users = {} /\ projects = {} /\ rows = {} /\ jobs = {}
  /\ errors = 0 /\ crashes = 0

-----------------------------------------------------------------------------
(* Locks and connections *)

At(r, query)   == req[r].at = query
Runs(r, query) == At(r, query) /\ "conn" \in req[r].has
Holds(r, what) == what \in req[r].has
On(r)          == req[r].worker
Answered(r)    == req[r].at \in Answer
Confirmed(r)   == req[r].kind = "signup" /\ At(r, "200")
ServedOn(w)    == {r \in Request : On(r) = w /\ ~Answered(r)}

\* `with control_lock'
TakeLock(r) ==
  /\ req[r].at \in Control /\ lock[On(r)] = None
  /\ lock' = [lock EXCEPT ![On(r)] = r]
  /\ req' = [req EXCEPT ![r].has = {"lock"}]
  /\ UNCHANGED <<free, lost, database, jobs, errors, crashes>>

\* What a request needs before it asks the pool.
Ready(r) == req[r].at \in Store \/ (req[r].at \in Control /\ Holds(r, "lock"))

GetConn(r) ==
  /\ Ready(r) /\ ~Holds(r, "conn") /\ free[On(r)] > 0
  /\ free' = [free EXCEPT ![On(r)] = @ - 1]
  /\ req' = [req EXCEPT ![r].has = @ \cup {"conn"}]
  /\ UNCHANGED <<lock, lost, database, jobs, errors, crashes>>

\* The request moves on with nothing in its hands.
Release(r, to) ==
  /\ req' = [req EXCEPT ![r].at = to, ![r].has = {}]
  /\ free' = [free EXCEPT ![On(r)] = @ + (IF Holds(r, "conn") THEN 1 ELSE 0)]
  /\ lock' = [lock EXCEPT ![On(r)] = IF Holds(r, "lock") THEN None ELSE @]
  /\ UNCHANGED lost

\* PoolTimeout, after 30 seconds with every connection out.
GiveUp(r) ==
  /\ Ready(r) /\ ~Holds(r, "conn") /\ free[On(r)] = 0
  /\ Release(r, "500")
  /\ UNCHANGED <<database, jobs, errors, crashes>>

\* Mutants: no putconn after the rollback; the lock is not taken by `with'.
FailKeepsConn(r) ==
  /\ Holds(r, "conn") /\ errors < MaxErrors
  /\ errors' = errors + 1
  /\ req' = [req EXCEPT ![r].at = "500", ![r].has = {}]
  /\ lock' = [lock EXCEPT ![On(r)] = IF Holds(r, "lock") THEN None ELSE @]
  /\ UNCHANGED <<free, lost, database, jobs, crashes>>

FailLocked(r) ==
  /\ Holds(r, "conn") \/ At(r, "send")
  /\ errors < MaxErrors
  /\ errors' = errors + 1
  /\ req' = [req EXCEPT ![r].at = "500", ![r].has = {}]
  /\ free' = [free EXCEPT ![On(r)] = @ + (IF Holds(r, "conn") THEN 1 ELSE 0)]
  /\ UNCHANGED <<lock, lost, database, jobs, crashes>>

\* The query raises, or the call of the queue, which may have got through: rolled
\* back, everything given back, what was committed stays.  A store's connection is
\* given back when it is broken, too, and the pool puts another in its place.
Fail(r) ==
  /\ Holds(r, "conn") \/ At(r, "send")
  /\ errors < MaxErrors /\ errors' = errors + 1
  /\ Release(r, "500")
  /\ jobs' \in {jobs} \cup (IF At(r, "send") THEN {jobs \cup {r}} ELSE {})
  /\ UNCHANGED <<database, crashes>>

\* The connection of a control query breaks: cursor() or the rollback raises before
\* putconn, and the connection is not given back.
Break(r) ==
  /\ req[r].at \in Control /\ Holds(r, "conn")
  /\ errors < MaxErrors /\ errors' = errors + 1
  /\ req' = [req EXCEPT ![r].at = "broke", ![r].has = {}]
  /\ lock' = [lock EXCEPT ![On(r)] = None]
  /\ lost' = [lost EXCEPT ![On(r)] = @ \cup {r}]
  /\ UNCHANGED <<free, database, jobs, crashes>>

-----------------------------------------------------------------------------
(* Accounts: app.py, auth.py, tenancy.py *)

\* The client knows the keys of the tenants whose signup was confirmed.
Arrive(r) == \E w \in Worker, t \in {Founder} \cup {s \in Request : Confirmed(s)} :
  /\ At(r, "idle") /\ req[r].kind # "none"
  /\ req' = [req EXCEPT ![r].worker = w,
       ![r].at = IF req[r].kind \in {"signup", "login"} THEN "find" ELSE "resolve",
       ![r].tenant = IF req[r].kind \in {"signup", "login"} THEN None ELSE t]
  /\ UNCHANGED <<lock, free, lost, database, jobs, errors, crashes>>

\* find_user_by_email.  The password of a login may be wrong.
Found(r) == \E u \in users : u.email = EmailOf[r]

Find(r) ==
  /\ Runs(r, "find")
  /\ \E to \in IF req[r].kind = "signup" THEN {IF Found(r) THEN "409" ELSE "mint"}
               ELSE {"401"} \cup (IF Found(r) THEN {"apiKey"} ELSE {}) :
       Release(r, to)
  /\ UNCHANGED <<database, jobs, errors, crashes>>

\* create_tenant
Mint(r) ==
  /\ Runs(r, "mint")
  /\ Release(r, "enroll")
  /\ tenants' = tenants \cup {r}
  /\ UNCHANGED <<users, projects, rows, jobs, errors, crashes>>

\* Mutant: the address is not UNIQUE.
EnrollUnchecked(r) ==
  /\ Runs(r, "enroll")
  /\ users' = users \cup {[email |-> EmailOf[r], tenant |-> r]}
  /\ Release(r, "token")
  /\ UNCHANGED <<tenants, projects, rows, jobs, errors, crashes>>

\* create_user, email UNIQUE.  The releaser of the INSERT's cursor is dropped, and
\* its connection with it.
Enroll(r) ==
  /\ Runs(r, "enroll") /\ \A u \in users : u.email # EmailOf[r]
  /\ users' = users \cup {[email |-> EmailOf[r], tenant |-> r]}
  /\ req' = [req EXCEPT ![r].at = "token", ![r].has = {}]
  /\ lock' = [lock EXCEPT ![On(r)] = None]
  /\ lost' = [lost EXCEPT ![On(r)] = @ \cup {r}]
  /\ UNCHANGED <<free, tenants, projects, rows, jobs, errors, crashes>>

\* The address was registered since Find: UniqueViolation, rolled back and released.
EnrollTaken(r) ==
  /\ Runs(r, "enroll") /\ \E u \in users : u.email = EmailOf[r]
  /\ Release(r, "500")
  /\ UNCHANGED <<database, jobs, errors, crashes>>

\* issue_jwt, and the end of signup
IssueToken(r) ==
  /\ At(r, "token")
  /\ Release(r, "200")
  /\ UNCHANGED <<database, jobs, errors, crashes>>

\* tenant_api_key, and the end of login
ApiKey(r) ==
  /\ Runs(r, "apiKey")
  /\ Release(r, "200")
  /\ UNCHANGED <<database, jobs, errors, crashes>>

\* require_tenant
Resolve(r) ==
  /\ Runs(r, "resolve")
  /\ Release(r, IF req[r].tenant \notin tenants THEN "401"
                ELSE CASE req[r].kind = "ingest" -> "look"
                       [] req[r].kind = "read"   -> "read"
                       [] req[r].kind = "branch" -> "check")
  /\ UNCHANGED <<database, jobs, errors, crashes>>

-----------------------------------------------------------------------------
(* A tenant's store: PgStore through _PooledPgStore *)

\* Mutant: not `WHERE tenant_id'.
ProjectsSeenOfAll(r) == projects

\* ensure_project's SELECT
ProjectsSeen(r) == {p \in projects : p.tenant = req[r].tenant}

Look(r) ==
  /\ Runs(r, "look")
  /\ IF ProjectsSeen(r) = {}
       THEN req' = [req EXCEPT ![r].at = "add"]
       ELSE \E p \in ProjectsSeen(r) :
              req' = [req EXCEPT ![r].at = "write", ![r].project = p.id]
  /\ UNCHANGED <<lock, free, lost, database, jobs, errors, crashes>>

\* ensure_project's INSERT, which commits
Add(r) ==
  /\ Runs(r, "add")
  /\ projects' = projects \cup {[id |-> r, tenant |-> req[r].tenant]}
  /\ req' = [req EXCEPT ![r].at = "write", ![r].project = r]
  /\ UNCHANGED <<lock, free, lost, tenants, users, rows, jobs, errors, crashes>>

\* The rest of ingest_request: its trace, then everything below; TraceIngest has
\* the statements.  Each commits, so an error between them leaves a part.
RowOf(r, part) ==
  [id |-> r, part |-> part, tenant |-> req[r].tenant, project |-> req[r].project]

Write(r) ==
  /\ Runs(r, "write")
  /\ rows' = rows \cup {RowOf(r, "trace")}
  /\ req' = [req EXCEPT ![r].at = "spans"]
  /\ UNCHANGED <<lock, free, lost, tenants, users, projects, jobs, errors, crashes>>

WriteSpans(r) ==
  /\ Runs(r, "spans")
  /\ rows' = rows \cup {RowOf(r, "spans")}
  /\ Release(r, "200")
  /\ UNCHANGED <<tenants, users, projects, jobs, errors, crashes>>

Read(r) ==
  /\ Runs(r, "read")
  /\ Release(r, "200")
  /\ UNCHANGED <<database, jobs, errors, crashes>>

\* Mutant: answers before the job is sent.
CheckAnswering(r) ==
  /\ Runs(r, "check")
  /\ Release(r, IF \E x \in rows : x.part = "spans" /\ x.tenant = req[r].tenant THEN "200" ELSE "404")
  /\ UNCHANGED <<database, jobs, errors, crashes>>

\* /branch with a queue configured: is the trace there, then send_message
Check(r) ==
  /\ Runs(r, "check")
  /\ Release(r, IF \E x \in rows : x.part = "spans" /\ x.tenant = req[r].tenant THEN "send" ELSE "404")
  /\ UNCHANGED <<database, jobs, errors, crashes>>

Send(r) ==
  /\ At(r, "send")
  /\ jobs' = jobs \cup {r}
  /\ Release(r, "200")
  /\ UNCHANGED <<database, errors, crashes>>

\* A process dies with its requests; its successor starts with a full pool.
Crash(w) ==
  /\ crashes < MaxCrashes /\ crashes' = crashes + 1
  /\ req' = [r \in Request |-> IF r \in ServedOn(w)
               THEN [req[r] EXCEPT !.at = "gone", !.has = {}] ELSE req[r]]
  /\ lock' = [lock EXCEPT ![w] = None]
  /\ free' = [free EXCEPT ![w] = PoolMax] /\ lost' = [lost EXCEPT ![w] = {}]
  /\ UNCHANGED <<database, jobs, errors>>

Serve(r) ==
  \/ TakeLock(r) \/ GetConn(r) \/ Find(r) \/ Mint(r) \/ Enroll(r) \/ EnrollTaken(r)
  \/ IssueToken(r) \/ ApiKey(r) \/ Resolve(r) \/ Look(r) \/ Add(r) \/ Write(r) \/ WriteSpans(r)
  \/ Read(r) \/ Check(r) \/ Send(r)

Next ==
  \/ \E r \in Request : Arrive(r) \/ Serve(r) \/ GiveUp(r) \/ Fail(r) \/ Break(r)
  \/ \E w \in Worker : Crash(w)

Spec == Init /\ [][Next]_vars
\* Queries end; whoever waits for a lock or a connection gets it when it is there
\* to be had.  Nothing is assumed of timeouts, failures and crashes.
FairSpec == Spec /\ \A r \in Request : WF_vars(Serve(r))

-----------------------------------------------------------------------------
(* Properties *)

\* Signing up, split over three queries and two processes with no lock between
\* them, is a registration in one step (app.py:345-371).
A == INSTANCE Accounts WITH
       Signup <- Request,
       account <- [e \in Email |->
                     IF \E u \in users : u.email = e
                       THEN (CHOOSE u \in users : u.email = e).tenant ELSE None],
       confirmed <- {r \in Request : Confirmed(r)}
ImplementsAccounts == A!Spec

\* Every stored row, also of a request that failed half-way, is in a project that
\* exists and is its tenant's; spans are under a trace of theirs; and a confirmed
\* batch is stored as a whole (store_pg.py:45-57, tenancy.py:297-305).
RowsOwned ==
  /\ \A x \in rows : [id |-> x.project, tenant |-> x.tenant] \in projects
  /\ \A x \in rows : [x EXCEPT !.part = "trace"] \in rows
  /\ \A r \in Request : req[r].kind = "ingest" /\ At(r, "200")
       => \E x \in rows : x.id = r /\ x.part = "spans" /\ x.tenant = req[r].tenant

\* A process's connections are in the pool, with a request it serves, or lost; lost
\* only to a signup that registered its user or to a control query whose connection
\* broke, and no more than one to each.  Its control lock is held by a request that
\* is running a control query (tenancy.py:146-186).
PoolBalanced == \A w \in Worker :
  LET busy == {r \in ServedOn(w) : Holds(r, "conn")}
  IN  /\ free[w] + Cardinality(lost[w]) + Cardinality(busy) = PoolMax
      /\ \A r \in lost[w] :
           \/ At(r, "broke")
           \/ req[r].at \in {"token", "200"} /\ [email |-> EmailOf[r], tenant |-> r] \in users
      /\ lock[w] # None => lock[w] \in ServedOn(w) /\ Holds(lock[w], "lock")

\* A request is answered, however requests compete for the lock and the pool and
\* without a timeout to help, unless its process has no connection left to give:
\* nobody waits for the control lock with a connection in hand (tenancy.py:217-263).
EveryRequestAnswered ==
  \A r \in Request : On(r) # None
    ~> Answered(r) \/ \E w \in Worker : On(r) = w /\ Cardinality(lost[w]) = PoolMax

\* "releases pooled connections after each query" (tenancy.py:191): when every
\* request is answered all connections are back.
IdleMeansFull ==
  (\A r \in Request : Answered(r) \/ At(r, "idle"))
    => \A w \in Worker : free[w] = PoolMax

================================================================================
