------------------------------ MODULE CloudProofs ------------------------------
(***************************************************************************)
(* The API and its deployment, for any number of requests, processes,      *)
(* connections, workers, failures and crashes.                             *)
(*                                                                         *)
(* Signing up through three queries on processes that share no lock is a   *)
(* registration in one step.  The invariant behind it (AInv) says that     *)
(* each address has one row, put there for good, and that a signup which   *)
(* got as far as its token has that row; and, to tell a signup's answer    *)
(* from others, which endpoint each query belongs to.                      *)
(*                                                                         *)
(* Three more invariants: PInv of the connections and locks that requests  *)
(* hold, RInv of the rows they write, QInv of the queue and its workers.   *)
(***************************************************************************)
EXTENDS Cloud, FiniteSetTheorems, TLAPS

(* The API changes api, in a step of its own or of the deployment; the queue and   *)
(* the workers change what is left of cloud.                                       *)
api == <<req, lock, free, lost, database, errors, crashes>>

Places == Control \cup Store \cup Answer \cup {"idle", "send", "token"}

Requests == [kind : Kind \cup {"none"}, at : Places, has : SUBSET {"lock", "conn"},
             worker : Worker \cup {None}, tenant : Tenant \cup {None},
             project : Request \cup {None}]

Shape == /\ req \in [Request -> Requests]
         /\ users \subseteq [email : Email, tenant : Tenant]

\* A project is named after the request that added it.
Named == \A p \in projects : p.id \in Request

\* Which endpoint a query belongs to.
Fits(kind, at) ==
  /\ at = "find" => kind \in {"signup", "login"}
  /\ at \in {"mint", "enroll", "token"} => kind = "signup"
  /\ at = "apiKey" => kind = "login"
  /\ at = "resolve" => kind \in {"ingest", "read", "branch"}
  /\ at \in {"look", "add", "write", "spans"} => kind = "ingest"
  /\ at = "read" => kind = "read"
  /\ at \in {"check", "send"} => kind = "branch"

RightKind == \A r \in Request : Fits(req[r].kind, req[r].at)

\* A lock or a connection is held for a query.
Busy == \A r \in Request : req[r].has # {} => req[r].at \in Control \cup Store

OneUser == \A u, v \in users : u.email = v.email => u = v

User(r) == [email |-> EmailOf[r], tenant |-> r]

SignedUp(r)  == req[r].kind = "signup" /\ req[r].at \in {"token", "200"}
Registered   == \A r \in Request : SignedUp(r) => User(r) \in users

AInv == Shape /\ Named /\ RightKind /\ Busy /\ OneUser /\ Registered

\* A step of one request keeps the invariant when it leaves the request in a place
\* that fits, and registers a signup before it has its token.
LEMMA OneRequestMoves ==
  ASSUME AInv, NEW r \in Request,
         req' \in [Request -> Requests],
         \A s \in Request : s # r => req'[s] = req[s],
         Fits(req[r].kind, req'[r].at),
         req'[r].kind = req[r].kind,
         req'[r].has # {} => req'[r].at \in Control \cup Store,
         req[r].kind = "signup" /\ req'[r].at \in {"token", "200"} => User(r) \in users',
         users' \subseteq [email : Email, tenant : Tenant], Named',
         users \subseteq users', OneUser'
  PROVE  AInv'
<1>1. Shape'
  BY DEF Shape
<1>2. RightKind'
  BY DEF AInv, RightKind
<1>3. Registered'
  BY DEF AInv, Registered, SignedUp, User
<1>4. Busy'
  BY DEF AInv, Busy
<1> QED BY <1>1, <1>2, <1>3, <1>4 DEF AInv

\* The same for a step that leaves the users alone.
LEMMA OneRequestMovesOn ==
  ASSUME AInv, NEW r \in Request,
         req' \in [Request -> Requests],
         \A s \in Request : s # r => req'[s] = req[s],
         Fits(req[r].kind, req'[r].at),
         req'[r].kind = req[r].kind,
         req'[r].has # {} => req'[r].at \in Control \cup Store,
         req[r].kind = "signup" /\ req'[r].at \in {"token", "200"}
           => req[r].at = "token" \/ User(r) \in users,
         users' = users, Named'
  PROVE  AInv'
<1>1. OneUser'
  BY DEF AInv, OneUser
<1>2. req[r].kind = "signup" /\ req'[r].at \in {"token", "200"} => User(r) \in users'
  BY DEF AInv, Registered, SignedUp
<1>3. users' \subseteq [email : Email, tenant : Tenant]
  BY DEF AInv, Shape
<1> QED BY <1>1, <1>2, <1>3, OneRequestMoves

\* Releasing moves one request to its next place.
LEMMA ReleaseMoves ==
  ASSUME AInv, NEW r \in Request, NEW to \in Places, Release(r, to)
  PROVE  /\ req' \in [Request -> Requests]
         /\ \A s \in Request : s # r => req'[s] = req[s]
         /\ req'[r].kind = req[r].kind
         /\ req'[r].at = to /\ req'[r].has = {}
<1>1. req' = [req EXCEPT ![r].at = to, ![r].has = {}] /\ req \in [Request -> Requests]
  BY DEF Release, AInv, Shape
<1>2. req[r] \in Requests
  BY <1>1
<1>3. \A s \in Request : s # r => req'[s] = req[s]
  BY <1>1
<1>4. req'[r] = [req[r] EXCEPT !.at = to, !.has = {}]
  BY <1>1
<1>5. /\ req'[r] \in Requests /\ req'[r].kind = req[r].kind
      /\ req'[r].at = to /\ req'[r].has = {}
  BY <1>2, <1>4 DEF Requests
<1> QED BY <1>1, <1>3, <1>5

\* A request whose connection breaks is answered and has nothing in hand.
LEMMA BreakMoves ==
  ASSUME AInv, NEW r \in Request, Break(r)
  PROVE  /\ req' \in [Request -> Requests]
         /\ \A s \in Request : s # r => req'[s] = req[s]
         /\ req'[r].kind = req[r].kind /\ req'[r].worker = req[r].worker
         /\ req'[r].tenant = req[r].tenant
         /\ req'[r].at = "broke" /\ req'[r].has = {}
<1>1. req' = [req EXCEPT ![r].at = "broke", ![r].has = {}] /\ req \in [Request -> Requests]
  BY DEF Break, AInv, Shape
<1>2. /\ req[r] \in Requests /\ req'[r] = [req[r] EXCEPT !.at = "broke", !.has = {}]
      /\ \A s \in Request : s # r => req'[s] = req[s]
  BY <1>1
<1>3. /\ req'[r] \in Requests /\ req'[r].kind = req[r].kind
      /\ req'[r].worker = req[r].worker /\ req'[r].tenant = req[r].tenant
      /\ req'[r].at = "broke" /\ req'[r].has = {}
  BY <1>2 DEF Requests, Places, Answer
<1> QED BY <1>1, <1>2, <1>3

\* Releasing keeps the invariant when the next place fits.
LEMMA ReleaseKeeps ==
  ASSUME AInv, NEW r \in Request, NEW to \in Places, Release(r, to),
         Fits(req[r].kind, to),
         req[r].kind = "signup" /\ to \in {"token", "200"} => req[r].at = "token",
         UNCHANGED <<users, projects>>
  PROVE  AInv'
<1>1. Named'
  BY DEF AInv, Named
<1> QED BY <1>1, ReleaseMoves, OneRequestMovesOn

\* Where a request goes from find_user_by_email.
LEMMA FindGoes ==
  ASSUME NEW r \in Request, Find(r)
  PROVE  /\ req[r].kind = "signup" => Release(r, "409") \/ Release(r, "mint")
         /\ req[r].kind # "signup" => Release(r, "401") \/ Release(r, "apiKey")
BY DEF Find

\* The invariant holds when nothing has been asked yet.
LEMMA InitAInv == Init => AInv
<1> SUFFICES ASSUME Init PROVE AInv
  OBVIOUS
<1>1. PICK kind \in Traffic :
        req = [r \in Request |->
                [kind |-> kind[r], at |-> "idle", has |-> {}, worker |-> None,
                 tenant |-> None, project |-> None]]
  BY DEF Init
<1>2. kind \in [Request -> Kind \cup {"none"}]
  BY <1>1, CloudAssumption
<1>3. Shape
  BY <1>1, <1>2 DEF Init, Shape, Requests, Places
<1>4. RightKind /\ Registered /\ Busy
  BY <1>1 DEF RightKind, Fits, Registered, SignedUp, Busy
<1> QED BY <1>3, <1>4 DEF Init, AInv, Named, OneUser

\* Every step keeps the invariant.
LEMMA NextAInv == AInv /\ [Next]_api => AInv'
<1> SUFFICES ASSUME AInv, [Next]_api PROVE AInv'
  OBVIOUS
<1> USE DEF database
<1>0. ASSUME NEW r \in Request PROVE req[r] \in Requests /\ Fits(req[r].kind, req[r].at)
  BY <1>0 DEF AInv, Shape, RightKind
<1>1. ASSUME NEW r \in Request, Arrive(r) PROVE AInv'
  <2>1. PICK w \in Worker, t \in {Founder} \cup {s \in Request : Confirmed(s)} :
          /\ At(r, "idle") /\ req[r].kind # "none"
          /\ req' = [req EXCEPT ![r].worker = w,
               ![r].at = IF req[r].kind \in {"signup", "login"} THEN "find" ELSE "resolve",
               ![r].tenant = IF req[r].kind \in {"signup", "login"} THEN None ELSE t]
          /\ UNCHANGED <<users, projects>>
    BY <1>1 DEF Arrive
  <2>0. /\ req'[r] = [req[r] EXCEPT !.worker = w,
             !.at = IF req[r].kind \in {"signup", "login"} THEN "find" ELSE "resolve",
             !.tenant = IF req[r].kind \in {"signup", "login"} THEN None ELSE t]
        /\ t \in Tenant
    BY <2>1 DEF AInv, Shape, Tenant
  <2>2. req'[r] \in Requests /\ req'[r].kind = req[r].kind
    BY <2>0, <1>0 DEF Requests, Places, Control
  <2>3. /\ Fits(req[r].kind, req'[r].at) /\ req'[r].at \notin {"token", "200"}
        /\ req'[r].at \in Control
    BY <2>1, <1>0 DEF AInv, Shape, Requests, Fits, Kind, Control
  <2>4. \A s \in Request : s # r => req'[s] = req[s]
    BY <2>1 DEF AInv, Shape
  <2>5. req' \in [Request -> Requests]
    BY <2>1, <2>2, <2>4 DEF AInv, Shape
  <2>6. Named'
    BY <2>1 DEF AInv, Named
  <2> QED BY <2>1, <2>2, <2>3, <2>4, <2>5, <2>6, OneRequestMovesOn
<1>2. ASSUME NEW r \in Request, TakeLock(r) \/ GetConn(r) PROVE AInv'
  <2>1. req' \in [Request -> Requests] /\ UNCHANGED <<users, projects>>
    BY <1>2, <1>0 DEF AInv, Shape, Requests, TakeLock, GetConn
  <2>2. \A s \in Request : req'[s].kind = req[s].kind /\ req'[s].at = req[s].at
    BY <1>2 DEF AInv, Shape, Requests, TakeLock, GetConn
  <2>3. Busy'
    BY <1>2 DEF AInv, Shape, Requests, TakeLock, GetConn, Ready, Busy
  <2> QED BY <2>1, <2>2, <2>3 DEF AInv, Shape, Named, RightKind, OneUser, Registered, SignedUp, User
<1>3. ASSUME NEW r \in Request, GiveUp(r) \/ Fail(r) \/ EnrollTaken(r) PROVE AInv'
  <2>1. Release(r, "500") /\ UNCHANGED <<users, projects>>
    BY <1>3 DEF GiveUp, Fail, EnrollTaken
  <2> QED BY <2>1, ReleaseKeeps DEF Fits, Places, Answer
<1>4. ASSUME NEW r \in Request, Find(r) PROVE AInv'
  <2>1. req[r].kind \in {"signup", "login"} /\ UNCHANGED <<users, projects>>
    BY <1>4, <1>0 DEF Find, Runs, At, Fits
  <2>2. CASE req[r].kind = "signup"
    <3>1. Release(r, "409") \/ Release(r, "mint")
      BY <1>4, <2>2, FindGoes
    <3> QED BY <2>1, <2>2, <3>1, ReleaseKeeps DEF Fits, Places, Answer, Control
  <2>3. CASE req[r].kind = "login"
    <3>1. Release(r, "apiKey") \/ Release(r, "401")
      BY <1>4, <2>3, FindGoes
    <3> QED BY <2>1, <2>3, <3>1, ReleaseKeeps DEF Fits, Places, Answer, Control
  <2> QED BY <2>1, <2>2, <2>3
<1>5. ASSUME NEW r \in Request, Mint(r) PROVE AInv'
  <2>1. Release(r, "enroll") /\ UNCHANGED <<users, projects>> /\ req[r].kind = "signup"
    BY <1>5, <1>0 DEF Mint, Runs, At, Fits
  <2> QED BY <2>1, ReleaseKeeps DEF Fits, Places, Control
<1>6. ASSUME NEW r \in Request, Enroll(r) PROVE AInv'
  <2>1. /\ users' = users \cup {User(r)} /\ \A u \in users : u.email # EmailOf[r]
        /\ req' = [req EXCEPT ![r].at = "token", ![r].has = {}]
        /\ req[r].kind = "signup" /\ projects' = projects
    BY <1>6, <1>0 DEF Enroll, User, Runs, At, Fits
  <2>0. req'[r] = [req[r] EXCEPT !.at = "token", !.has = {}]
    BY <2>1 DEF AInv, Shape
  <2>2. /\ req'[r] \in Requests /\ req'[r].kind = req[r].kind /\ req'[r].at = "token"
        /\ req'[r].has = {}
    BY <2>0, <1>0 DEF Requests, Places
  <2>3. OneUser'
    BY <2>1 DEF AInv, OneUser, User
  <2>4. users' \subseteq [email : Email, tenant : Tenant]
    <3>1. User(r) \in [email : Email, tenant : Tenant]
      BY CloudAssumption DEF User, Tenant
    <3> QED BY <2>1, <3>1 DEF AInv, Shape
  <2>5. \A s \in Request : s # r => req'[s] = req[s]
    BY <2>1 DEF AInv, Shape
  <2>6. Fits(req[r].kind, "token")
    BY <2>1 DEF Fits
  <2>7. req' \in [Request -> Requests]
    BY <2>1, <2>2, <2>5 DEF AInv, Shape
  <2>8. Named'
    BY <2>1 DEF AInv, Named
  <2> QED BY <2>1, <2>2, <2>3, <2>4, <2>5, <2>6, <2>7, <2>8, OneRequestMoves
<1>7. ASSUME NEW r \in Request, IssueToken(r) PROVE AInv'
  <2>1. Release(r, "200") /\ UNCHANGED <<users, projects>> /\ req[r].at = "token"
    BY <1>7 DEF IssueToken, At
  <2> QED BY <2>1, ReleaseKeeps DEF Fits, Places, Answer
<1>8. ASSUME NEW r \in Request, ApiKey(r) \/ WriteSpans(r) \/ Read(r) \/ Send(r) PROVE AInv'
  <2>1. Release(r, "200") /\ UNCHANGED <<users, projects>> /\ req[r].kind # "signup"
    BY <1>8, <1>0 DEF ApiKey, WriteSpans, Read, Send, Runs, At, Fits
  <2> QED BY <2>1, ReleaseKeeps DEF Fits, Places, Answer
<1>9. ASSUME NEW r \in Request, Resolve(r) PROVE AInv'
  <2>1. req[r].kind \in {"ingest", "read", "branch"} /\ UNCHANGED <<users, projects>>
    BY <1>9, <1>0 DEF Resolve, Runs, At, Fits
  <2>2. CASE req[r].tenant \notin tenants
    <3>1. Release(r, "401")
      BY <1>9, <2>2 DEF Resolve
    <3> QED BY <2>1, <3>1, ReleaseKeeps DEF Fits, Places, Answer
  <2>3. CASE req[r].tenant \in tenants /\ req[r].kind = "ingest"
    <3>1. Release(r, "look")
      BY <1>9, <2>3 DEF Resolve
    <3> QED BY <2>1, <2>3, <3>1, ReleaseKeeps DEF Fits, Places, Store
  <2>4. CASE req[r].tenant \in tenants /\ req[r].kind = "read"
    <3>1. Release(r, "read")
      BY <1>9, <2>4 DEF Resolve
    <3> QED BY <2>1, <2>4, <3>1, ReleaseKeeps DEF Fits, Places, Store
  <2>5. CASE req[r].tenant \in tenants /\ req[r].kind = "branch"
    <3>1. Release(r, "check")
      BY <1>9, <2>5 DEF Resolve
    <3> QED BY <2>1, <2>5, <3>1, ReleaseKeeps DEF Fits, Places, Store
  <2> QED BY <2>1, <2>2, <2>3, <2>4, <2>5
<1>10. ASSUME NEW r \in Request, Look(r) \/ Add(r) \/ Write(r) PROVE AInv'
  <2>1. req[r].kind = "ingest" /\ users' = users
    BY <1>10, <1>0 DEF Look, Add, Write, Runs, At, Fits
  <2>2. PICK to \in {"add", "write", "spans"}, p \in Request \cup {None} :
          req' = [req EXCEPT ![r].at = to, ![r].project = p]
    <3>1. CASE Add(r)
      BY <3>1 DEF Add
    <3>2. CASE Look(r) /\ ProjectsSeen(r) = {}
      <4>1. req' = [req EXCEPT ![r].at = "add"]
        BY <3>2 DEF Look
      <4>2. req' = [req EXCEPT ![r].at = "add", ![r].project = req[r].project]
        BY <4>1, <1>0 DEF AInv, Shape, Requests
      <4> QED BY <4>2, <1>0 DEF Requests
    <3>3. CASE Look(r) /\ ProjectsSeen(r) # {}
      <4>1. PICK p \in ProjectsSeen(r) :
              req' = [req EXCEPT ![r].at = "write", ![r].project = p.id]
        BY <3>3 DEF Look
      <4>2. p.id \in Request
        BY <4>1 DEF ProjectsSeen, AInv, Named
      <4> QED BY <4>1, <4>2
    <3>4. CASE Write(r)
      <4>1. req' = [req EXCEPT ![r].at = "spans"]
        BY <3>4 DEF Write
      <4>2. req' = [req EXCEPT ![r].at = "spans", ![r].project = req[r].project]
        BY <4>1, <1>0 DEF AInv, Shape, Requests
      <4> QED BY <4>2, <1>0 DEF Requests
    <3> QED BY <1>10, <3>1, <3>2, <3>3, <3>4
  <2>3. Named'
    BY <1>10 DEF Look, Add, Write, AInv, Named
  <2>4. req'[r] = [req[r] EXCEPT !.at = to, !.project = p]
    BY <2>2 DEF AInv, Shape
  <2>5. req'[r] \in Requests /\ req'[r].kind = req[r].kind /\ req'[r].at = to
    BY <2>4, <1>0 DEF Requests, Places, Store, Control
  <2>6. \A s \in Request : s # r => req'[s] = req[s]
    BY <2>2 DEF AInv, Shape
  <2>7. req' \in [Request -> Requests]
    BY <2>2, <2>5, <2>6 DEF AInv, Shape
  <2> QED BY <2>1, <2>3, <2>5, <2>6, <2>7, OneRequestMovesOn DEF Fits, Store
<1>11. ASSUME NEW r \in Request, Check(r) PROVE AInv'
  <2>1. req[r].kind = "branch" /\ UNCHANGED <<users, projects>>
    BY <1>11, <1>0 DEF Check, Runs, At, Fits
  <2>2. Release(r, "send") \/ Release(r, "404")
    BY <1>11 DEF Check
  <2> QED BY <2>1, <2>2, ReleaseKeeps DEF Fits, Places, Answer
<1>12. ASSUME NEW w \in Worker, Crash(w) PROVE AInv'
  <2>1. /\ UNCHANGED <<users, projects>>
        /\ req' = [r \in Request |-> IF r \in ServedOn(w)
                     THEN [req[r] EXCEPT !.at = "gone", !.has = {}] ELSE req[r]]
    BY <1>12 DEF Crash
  <2>2. \A r \in Request : /\ req'[r].kind = req[r].kind
                           /\ req'[r].at = req[r].at \/ req'[r].at = "gone"
                           /\ req'[r] \in Requests
    BY <2>1, <1>0 DEF Requests, Places, Answer
  <2>3. req' \in [Request -> Requests]
    BY <2>1, <2>2
  <2>4. RightKind'
    BY <2>2, <1>0 DEF RightKind, Fits
  <2>5. Busy'
    BY <2>1, <1>0 DEF AInv, Busy, Requests
  <2> QED BY <2>1, <2>2, <2>3, <2>4, <2>5 DEF AInv, Shape, Named, OneUser, Registered, SignedUp, User
<1>13. CASE UNCHANGED api
  BY <1>13 DEF api, AInv, Shape, Named, RightKind, Busy, OneUser, Registered, SignedUp, User
<1>14. ASSUME NEW r \in Request, Break(r) PROVE AInv'
  <2>1. UNCHANGED <<users, projects>> /\ Named'
    BY <1>14 DEF Break, AInv, Named
  <2>2. Fits(req[r].kind, "broke")
    BY DEF Fits
  <2> QED BY <1>14, <2>1, <2>2, BreakMoves, OneRequestMovesOn
<1> QED BY <1>1, <1>2, <1>3, <1>4, <1>5, <1>6, <1>7, <1>8, <1>9, <1>10, <1>11, <1>12,
           <1>13, <1>14 DEF Next, Serve

-----------------------------------------------------------------------------
(* Signing up is a registration in one step. *)

AccountOf == [e \in Email |->
                IF \E u \in users : u.email = e
                  THEN (CHOOSE u \in users : u.email = e).tenant ELSE None]
ConfirmedSignups == {r \in Request : Confirmed(r)}

\* A step that neither registers nor confirms.
Quiet == users' = users /\ ConfirmedSignups' = ConfirmedSignups

\* A step of one request which is not confirmed before or after it.
LEMMA MoveIsQuiet ==
  ASSUME NEW r \in Request, \A s \in Request : s # r => req'[s] = req[s],
         ~ Confirmed(r), ~ Confirmed(r)', users' = users
  PROVE  Quiet
<1>1. \A s \in Request : s # r => (Confirmed(s)' <=> Confirmed(s))
  BY DEF Confirmed, At
<1>2. \A s \in Request : Confirmed(s)' <=> Confirmed(s)
  BY <1>1
<1> QED BY <1>2 DEF Quiet, ConfirmedSignups

\* The same for a release.
LEMMA ReleaseIsQuiet ==
  ASSUME AInv, NEW r \in Request, NEW to \in Places, Release(r, to), users' = users,
         req[r].at # "200", to = "200" => req[r].kind # "signup"
  PROVE  Quiet
<1>1. ~ Confirmed(r) /\ ~ Confirmed(r)'
  BY ReleaseMoves DEF Confirmed, At
<1> QED BY <1>1, ReleaseMoves, MoveIsQuiet

\* Only Enroll registers, and only the token of a signup confirms.
LEMMA RegistersOrConfirms ==
  ASSUME AInv, [Next]_api
  PROVE  \/ Quiet
         \/ \E r \in Request : Enroll(r)
         \/ \E r \in Request : IssueToken(r)
<1> USE DEF database
<1>0. ASSUME NEW r \in Request PROVE req[r] \in Requests /\ Fits(req[r].kind, req[r].at)
  BY <1>0 DEF AInv, Shape, RightKind
<1>1. ASSUME NEW r \in Request, Arrive(r) PROVE Quiet
  <2>1. PICK w \in Worker, t \in {Founder} \cup {s \in Request : Confirmed(s)} :
          /\ At(r, "idle") /\ users' = users
          /\ req' = [req EXCEPT ![r].worker = w,
               ![r].at = IF req[r].kind \in {"signup", "login"} THEN "find" ELSE "resolve",
               ![r].tenant = IF req[r].kind \in {"signup", "login"} THEN None ELSE t]
    BY <1>1 DEF Arrive
  <2>2. \A s \in Request : s # r => req'[s] = req[s]
    BY <2>1 DEF AInv, Shape
  <2>3. req'[r].at # "200"
    BY <2>1, <1>0 DEF AInv, Shape, Requests
  <2> QED BY <2>1, <2>2, <2>3, MoveIsQuiet DEF Confirmed, At
<1>2. ASSUME NEW r \in Request, TakeLock(r) \/ GetConn(r) PROVE Quiet
  <2>1. users' = users
    BY <1>2 DEF TakeLock, GetConn
  <2>2. \A s \in Request : req'[s].kind = req[s].kind /\ req'[s].at = req[s].at
    BY <1>2 DEF AInv, Shape, Requests, TakeLock, GetConn
  <2> QED BY <2>1, <2>2 DEF Quiet, ConfirmedSignups, Confirmed, At
<1>3. ASSUME NEW r \in Request,
             \/ GiveUp(r) \/ Fail(r) \/ EnrollTaken(r) \/ Find(r) \/ Mint(r)
             \/ ApiKey(r) \/ WriteSpans(r) \/ Read(r) \/ Send(r) \/ Resolve(r) \/ Check(r)
      PROVE  Quiet
  <2>1. users' = users
    BY <1>3 DEF GiveUp, Fail, EnrollTaken, Find, Mint, ApiKey, WriteSpans, Read, Send,
                Resolve, Check, Release
  <2>2. req[r].at # "200"
    BY <1>3, <1>0 DEF GiveUp, Fail, EnrollTaken, Find, Mint, ApiKey, WriteSpans, Read, Send,
                      Resolve, Check, Runs, At, Ready, Holds, Control, Store, AInv, Busy
  <2>3. PICK to \in Places : Release(r, to) /\ (to = "200" => req[r].kind # "signup")
    <3>1. CASE GiveUp(r) \/ Fail(r) \/ EnrollTaken(r)
      BY <3>1 DEF GiveUp, Fail, EnrollTaken, Places, Answer
    <3>2. CASE Find(r)
      <4>1. req[r].kind \in {"signup", "login"}
        BY <3>2, <1>0 DEF Find, Runs, At, Fits
      <4>2. \/ Release(r, "409") \/ Release(r, "mint")
            \/ Release(r, "apiKey") \/ Release(r, "401")
        BY <3>2, <4>1, FindGoes
      <4> QED BY <4>2 DEF Places, Answer, Control
    <3>3. CASE Mint(r)
      BY <3>3 DEF Mint, Places, Control
    <3>4. CASE ApiKey(r) \/ WriteSpans(r) \/ Read(r) \/ Send(r)
      BY <3>4, <1>0 DEF ApiKey, WriteSpans, Read, Send, Runs, At, Fits, Places, Answer
    <3>5. CASE Resolve(r)
      <4>1. req[r].kind \in {"ingest", "read", "branch"}
        BY <3>5, <1>0 DEF Resolve, Runs, At, Fits
      <4>2. \/ Release(r, "401") \/ Release(r, "look")
            \/ Release(r, "read") \/ Release(r, "check")
        BY <3>5, <4>1 DEF Resolve
      <4> QED BY <4>2 DEF Places, Answer, Store
    <3>6. CASE Check(r)
      <4>1. Release(r, "send") \/ Release(r, "404")
        BY <3>6 DEF Check
      <4> QED BY <4>1 DEF Places, Answer
    <3> QED BY <1>3, <3>1, <3>2, <3>3, <3>4, <3>5, <3>6
  <2> QED BY <2>1, <2>2, <2>3, ReleaseIsQuiet
<1>4. ASSUME NEW r \in Request, Look(r) \/ Add(r) \/ Write(r) PROVE Quiet
  <2>1. req[r].kind = "ingest" /\ users' = users
    BY <1>4, <1>0 DEF Look, Add, Write, Runs, At, Fits
  <2>2. \A s \in Request : req'[s].kind = req[s].kind /\ (s # r => req'[s] = req[s])
    BY <1>4, <1>0 DEF Look, Add, Write, AInv, Shape, Requests
  <2> QED BY <2>1, <2>2, MoveIsQuiet DEF Confirmed
<1>5. ASSUME NEW w \in Worker, Crash(w) PROVE Quiet
  <2>1. /\ users' = users
        /\ req' = [r \in Request |-> IF r \in ServedOn(w)
                     THEN [req[r] EXCEPT !.at = "gone", !.has = {}] ELSE req[r]]
    BY <1>5 DEF Crash
  <2>2. ASSUME NEW r \in Request PROVE Confirmed(r)' <=> Confirmed(r)
    <3>1. CASE r \in ServedOn(w)
      BY <2>1, <3>1, <1>0 DEF ServedOn, Answered, Answer, Confirmed, At, Requests
    <3>2. CASE r \notin ServedOn(w)
      BY <2>1, <3>2 DEF Confirmed, At
    <3> QED BY <3>1, <3>2
  <2> QED BY <2>1, <2>2 DEF Quiet, ConfirmedSignups
<1>6. CASE UNCHANGED api
  BY <1>6 DEF api, Quiet, ConfirmedSignups, Confirmed, At
<1>7. ASSUME NEW r \in Request, Break(r) PROVE Quiet
  <2>1. users' = users /\ req[r].at \in Control
    BY <1>7 DEF Break
  <2> QED BY <1>7, <2>1, BreakMoves, MoveIsQuiet DEF Confirmed, At, Control
<1> QED BY <1>1, <1>2, <1>3, <1>4, <1>5, <1>6, <1>7 DEF Next, Serve

\* The address of a row of `users' is registered to its tenant.
LEMMA AccountOfUser ==
  ASSUME OneUser, NEW u \in users, u.email \in Email
  PROVE  AccountOf[u.email] = u.tenant
<1>1. (CHOOSE v \in users : v.email = u.email) = u
  BY DEF OneUser
<1> QED BY <1>1 DEF AccountOf

\* Enroll is Register of the account it inserts.
LEMMA EnrollRegisters ==
  ASSUME AInv, AInv', NEW r \in Request, Enroll(r)
  PROVE  /\ AccountOf[EmailOf[r]] = None
         /\ AccountOf' = [AccountOf EXCEPT ![EmailOf[r]] = r]
         /\ ConfirmedSignups' = ConfirmedSignups
<1>1. /\ users' = users \cup {User(r)} /\ \A u \in users : u.email # EmailOf[r]
      /\ req' = [req EXCEPT ![r].at = "token", ![r].has = {}]
      /\ req[r].at = "enroll"
  BY DEF Enroll, User, Runs, At
<1>2. EmailOf[r] \in Email
  BY CloudAssumption
<1>3. AccountOf[EmailOf[r]] = None
  BY <1>1, <1>2 DEF AccountOf
<1>4. AccountOf'[EmailOf[r]] = r
  <2>1. User(r) \in users' /\ User(r).email = EmailOf[r] /\ User(r).tenant = r
    BY <1>1 DEF User
  <2>2. (CHOOSE v \in users' : v.email = EmailOf[r]) = User(r)
    BY <2>1 DEF AInv, OneUser
  <2> QED BY <1>2, <2>1, <2>2 DEF AccountOf
<1>5. ASSUME NEW e \in Email, e # EmailOf[r] PROVE AccountOf'[e] = AccountOf[e]
  <2>1. User(r).email # e
    BY <1>5 DEF User
  <2>2. \A u : (u \in users' /\ u.email = e) <=> (u \in users /\ u.email = e)
    BY <1>1, <2>1
  <2>3. (CHOOSE u \in users' : u.email = e) = (CHOOSE u \in users : u.email = e)
    BY <2>2
  <2> QED BY <2>2, <2>3 DEF AccountOf
<1>6. AccountOf' = [AccountOf EXCEPT ![EmailOf[r]] = r]
  <2>1. AccountOf' = [e \in Email |-> AccountOf'[e]]
    BY DEF AccountOf
  <2>2. AccountOf = [e \in Email |-> AccountOf[e]]
    BY DEF AccountOf
  <2> QED BY <2>1, <2>2, <1>4, <1>5
<1>7. ConfirmedSignups' = ConfirmedSignups
  <2>1. \A s \in Request : s # r => req'[s] = req[s]
    BY <1>1 DEF AInv, Shape
  <2>2. req'[r].at = "token"
    BY <1>1 DEF AInv, Shape, Requests
  <2>3. \A s \in Request : Confirmed(s)' <=> Confirmed(s)
    BY <1>1, <2>1, <2>2 DEF Confirmed, At
  <2> QED BY <2>3 DEF ConfirmedSignups
<1> QED BY <1>3, <1>6, <1>7

\* A signup's IssueToken is Confirm of its account; a request of no other kind has one.
LEMMA TokenConfirms ==
  ASSUME AInv, AInv', NEW r \in Request, IssueToken(r)
  PROVE  /\ AccountOf[EmailOf[r]] = r
         /\ AccountOf' = AccountOf
         /\ ConfirmedSignups' = ConfirmedSignups \cup {r}
<1>1. Release(r, "200") /\ users' = users /\ req[r].at = "token" /\ req[r].kind = "signup"
  BY DEF IssueToken, At, database, AInv, RightKind, Fits
<1>2. User(r) \in users
  BY <1>1 DEF AInv, Registered, SignedUp
<1>3. AccountOf[EmailOf[r]] = r
  BY <1>2, AccountOfUser, CloudAssumption DEF User, AInv
<1>4. "200" \in Places
  BY DEF Places, Answer
<1>5. /\ \A s \in Request : s # r => req'[s] = req[s]
      /\ req'[r].kind = "signup" /\ req'[r].at = "200"
  BY <1>1, <1>4, ReleaseMoves
<1>6. ConfirmedSignups' = ConfirmedSignups \cup {r}
  BY <1>5 DEF ConfirmedSignups, Confirmed, At
<1> QED BY <1>1, <1>3, <1>6 DEF AccountOf

\* Alone or with its queue, the API takes its own steps or leaves its state alone.
LEMMA StepsOfTheApi ==
  /\ Spec => Init /\ [][Next]_api
  /\ CloudSpec => Init /\ [][Next]_api
<1>1. [Next]_vars => [Next]_api
  BY DEF vars, api, database
<1>2. [CloudNext]_cloud => [Next]_api
  BY DEF CloudNext, cloud, vars, api, database
<1>3. CloudInit => Init
  BY DEF CloudInit
<1> QED BY <1>1, <1>2, <1>3, PTL DEF Spec, CloudSpec

\* An e-mail address gets one row of `users' and a confirmed signup has that row, for
\* any number of requests, processes, connections, failures and crashes
\* (auth.py:48-49, app.py:345-371).
THEOREM OneAccountPerAddress == Spec \/ CloudSpec => [](OneUser /\ Registered)
<1>1. AInv => OneUser /\ Registered
  BY DEF AInv
<1> QED BY <1>1, InitAInv, NextAInv, StepsOfTheApi, PTL

\* Signing up, split over queries of processes with no lock between them, is a
\* registration in one step (app.py:345-371).
THEOREM SignupIsOneStep == Spec \/ CloudSpec => ImplementsAccounts
<1>1. Init => A!Init
  <2> SUFFICES ASSUME Init PROVE A!Init
    OBVIOUS
  <2>1. \A r \in Request : ~ Confirmed(r)
    BY DEF Init, Confirmed, At
  <2>2. users = {}
    BY DEF Init
  <2> QED BY <2>1, <2>2 DEF A!Init
<1>2. AInv /\ AInv' /\ [Next]_api => [A!Next]_<<AccountOf, ConfirmedSignups>>
  <2> SUFFICES ASSUME AInv, AInv', [Next]_api
               PROVE  [A!Next]_<<AccountOf, ConfirmedSignups>>
    OBVIOUS
  <2>1. CASE Quiet
    BY <2>1 DEF Quiet, AccountOf
  <2>2. ASSUME NEW r \in Request, Enroll(r) PROVE A!Register(r)
    BY <2>2, EnrollRegisters DEF A!Register, AccountOf, ConfirmedSignups
  <2>3. ASSUME NEW r \in Request, IssueToken(r) PROVE A!Confirm(r)
    BY <2>3, TokenConfirms DEF A!Confirm, AccountOf, ConfirmedSignups
  <2> QED BY <2>1, <2>2, <2>3, RegistersOrConfirms DEF A!Next
<1> QED BY <1>1, <1>2, InitAInv, NextAInv, StepsOfTheApi, PTL
        DEF ImplementsAccounts, A!Spec, AccountOf, ConfirmedSignups

-----------------------------------------------------------------------------
(* Connections and control locks are accounted for. *)

\* The connections of a process that are out with its requests.
Lent(w) == {r \in ServedOn(w) : Holds(r, "conn")}

\* A request has a process as soon as it is no longer idle.
Placed == \A r \in Request : ~At(r, "idle") => On(r) \in Worker

PoolTypes == /\ lock \in [Worker -> Request \cup {None}]
             /\ free \in [Worker -> Nat] /\ lost \in [Worker -> SUBSET Request]

Counts(w) == /\ IsFiniteSet(Lent(w)) /\ IsFiniteSet(lost[w])
             /\ free[w] + Cardinality(lost[w]) + Cardinality(Lent(w)) = PoolMax
Counted == \A w \in Worker : Counts(w)

\* A lock is held by the request that it is noted for, and by no other.
Noted(w) == lock[w] # None
              => lock[w] \in Request /\ On(lock[w]) = w /\ Holds(lock[w], "lock")
Locked == /\ \A w \in Worker : Noted(w)
          /\ \A r \in Request : Holds(r, "lock") => lock[On(r)] = r

\* A control query has its connection under the lock.
UnderLock == \A r \in Request :
  req[r].at \in Control /\ Holds(r, "conn") => Holds(r, "lock")

\* How a request came to lose its process's connection.
LostTo(r) == \/ At(r, "broke")
             \/ req[r].at \in {"token", "200"} /\ User(r) \in users
Excused == \A w \in Worker : \A r \in lost[w] : On(r) = w /\ LostTo(r)

PInv == Placed /\ PoolTypes /\ Counted /\ Locked /\ UnderLock

\* A request that is served holds nothing when it has its answer.
LEMMA HoldersAreServed ==
  ASSUME AInv, NEW r \in Request, req[r].has # {}
  PROVE  ~Answered(r) /\ ~At(r, "idle")
BY DEF AInv, Busy, Answered, At, Answer, Control, Store

\* A request that gives all back leaves the others' connections and locks alone.
LEMMA GivingBack ==
  ASSUME AInv, PInv, NEW r \in Request, ~At(r, "idle"),
         req' \in [Request -> Requests],
         \A s \in Request : s # r => req'[s] = req[s],
         req'[r].worker = req[r].worker, req'[r].has = {}
  PROVE  /\ Placed' /\ UnderLock'
         /\ \A w \in Worker : Lent(w)' = Lent(w) \ {r}
         /\ On(r) \in Worker
         /\ \A w \in Worker : r \in Lent(w) <=> w = On(r) /\ Holds(r, "conn")
<1>1. On(r) \in Worker
  BY DEF PInv, Placed
<1>2. Placed'
  BY <1>1 DEF PInv, Placed, At, On
<1>3. UnderLock'
  BY DEF PInv, UnderLock, Holds
<1>4. ASSUME NEW w \in Worker PROVE Lent(w)' = Lent(w) \ {r}
  <2>1. ASSUME NEW s \in Request PROVE s \in Lent(w)' <=> s \in Lent(w) \ {r}
    BY DEF Lent, ServedOn, Holds, On, Answered
  <2> QED BY <2>1 DEF Lent, ServedOn
<1>5. \A w \in Worker : r \in Lent(w) <=> w = On(r) /\ Holds(r, "conn")
  BY HoldersAreServed DEF Lent, ServedOn, Holds
<1> QED BY <1>1, <1>2, <1>3, <1>4, <1>5

\* The locks after a request has given back its own, if it had it.
LEMMA Unlocking ==
  ASSUME AInv, PInv, NEW r \in Request, On(r) \in Worker,
         req' \in [Request -> Requests],
         \A s \in Request : s # r => req'[s] = req[s],
         req'[r].worker = req[r].worker, req'[r].has = {},
         lock' = [lock EXCEPT ![On(r)] = IF Holds(r, "lock") THEN None ELSE @]
  PROVE  lock' \in [Worker -> Request \cup {None}] /\ Locked'
<1>1. lock' \in [Worker -> Request \cup {None}]
  BY DEF PInv, PoolTypes
<1>2. ASSUME NEW w \in Worker, lock'[w] # None PROVE Noted(w)'
  <2>1. lock'[w] = lock[w] /\ (w = On(r) => ~Holds(r, "lock"))
    BY <1>2 DEF PInv, PoolTypes
  <2>2. lock[w] \in Request /\ On(lock[w]) = w /\ Holds(lock[w], "lock") /\ lock[w] # r
    BY <1>2, <2>1 DEF PInv, Locked, Noted, Holds, On
  <2> QED BY <2>1, <2>2 DEF On, Holds, Noted
<1>3. ASSUME NEW s \in Request, Holds(s, "lock")' PROVE (lock[On(s)] = s)'
  <2>1. s # r /\ Holds(s, "lock") /\ On(s)' = On(s)
    BY <1>3 DEF Holds, On
  <2>2. lock[On(s)] = s /\ On(s) \in Worker
    BY <2>1, HoldersAreServed DEF PInv, Locked, Placed, Holds
  <2>3. Holds(r, "lock") => On(s) # On(r)
    BY <2>1, <2>2 DEF PInv, Locked
  <2> QED BY <2>1, <2>2, <2>3 DEF PInv, PoolTypes
<1>4. \A w \in Worker : Noted(w)'
  BY <1>2 DEF Noted
<1> QED BY <1>1, <1>3, <1>4 DEF Locked

\* Releasing keeps the pools and the locks.
LEMMA ReleaseKeepsPools ==
  ASSUME AInv, PInv, NEW r \in Request, ~At(r, "idle"), NEW to \in Places, Release(r, to)
  PROVE  PInv'
<1>1. /\ req' \in [Request -> Requests] /\ \A s \in Request : s # r => req'[s] = req[s]
      /\ req'[r].has = {}
  BY ReleaseMoves
<1>2. req'[r].worker = req[r].worker
  BY DEF Release, AInv, Shape, Requests
<1>3. /\ Placed' /\ UnderLock' /\ On(r) \in Worker
      /\ \A w \in Worker : Lent(w)' = Lent(w) \ {r}
      /\ \A w \in Worker : r \in Lent(w) <=> w = On(r) /\ Holds(r, "conn")
  BY <1>1, <1>2, GivingBack
<1>4. lock' \in [Worker -> Request \cup {None}] /\ Locked'
  BY <1>1, <1>2, <1>3, Unlocking DEF Release
<1>5. /\ free' = [free EXCEPT ![On(r)] = @ + (IF Holds(r, "conn") THEN 1 ELSE 0)]
      /\ lost' = lost
  BY DEF Release
<1>6. PoolTypes'
  BY <1>3, <1>4, <1>5 DEF PInv, PoolTypes
<1>7. ASSUME NEW w \in Worker PROVE Counts(w)'
  <2>0. Lent(w)' = Lent(w) \ {r} /\ lost' = lost
    BY <1>3, <1>5
  <2>1. /\ IsFiniteSet(Lent(w)) /\ IsFiniteSet(lost[w]) /\ free[w] \in Nat
        /\ free[w] + Cardinality(lost[w]) + Cardinality(Lent(w)) = PoolMax
    BY DEF PInv, Counted, Counts, PoolTypes
  <2>2. Cardinality(Lent(w)) \in Nat /\ Cardinality(lost[w]) \in Nat
    BY <2>1, FS_CardinalityType
  <2>3. /\ IsFiniteSet(Lent(w) \ {r})
        /\ Cardinality(Lent(w) \ {r}) = IF r \in Lent(w) THEN Cardinality(Lent(w)) - 1
                                                         ELSE Cardinality(Lent(w))
    BY <2>1, FS_RemoveElement
  <2>4. free'[w] = IF r \in Lent(w) THEN free[w] + 1 ELSE free[w]
    BY <1>3, <1>5, <2>1 DEF PInv, PoolTypes
  <2>5. free'[w] + Cardinality(lost[w]) + Cardinality(Lent(w) \ {r}) = PoolMax
    BY <2>1, <2>2, <2>3, <2>4
  <2> QED BY <2>0, <2>1, <2>3, <2>5 DEF Counts
<1>8. Counted'
  BY <1>7 DEF Counted
<1> QED BY <1>3, <1>4, <1>6, <1>8 DEF PInv

\* At the start no request has a process, a connection or a lock.
LEMMA InitPInv == Init => PInv
<1> SUFFICES ASSUME Init PROVE PInv
  OBVIOUS
<1>1. \A r \in Request : req[r].at = "idle" /\ req[r].has = {}
  BY DEF Init
<1>2. PoolTypes
  BY CloudAssumption DEF Init, PoolTypes
<1>3. ASSUME NEW w \in Worker PROVE Counts(w)
  <2>1. Lent(w) = {}
    BY <1>1 DEF Lent, ServedOn, Holds
  <2>2. /\ IsFiniteSet(Lent(w)) /\ Cardinality(Lent(w)) = 0
        /\ IsFiniteSet(lost[w]) /\ Cardinality(lost[w]) = 0
    BY <2>1, FS_EmptySet DEF Init
  <2> QED BY <2>2, CloudAssumption DEF Init, Counts
<1>4. Locked
  BY <1>1 DEF Init, Locked, Noted, Holds
<1> QED BY <1>1, <1>2, <1>3, <1>4 DEF PInv, Placed, Counted, UnderLock, At, Holds

\* A request that keeps what it holds, and its process, leaves pools and locks alone.
LEMMA HoldingOn ==
  ASSUME AInv, PInv, NEW r \in Request,
         req' \in [Request -> Requests],
         \A s \in Request : s # r => req'[s] = req[s],
         req[r].has # {} => req'[r].worker = req[r].worker,
         req'[r].has = req[r].has, On(r)' \in Worker, ~Answered(r)',
         req'[r].at \in Control => req[r].at \in Control \/ req[r].has = {},
         UNCHANGED <<lock, free, lost>>
  PROVE  PInv'
<1>1. Placed'
  BY DEF PInv, Placed, At, On
<1>2. UnderLock'
  BY DEF PInv, UnderLock, Holds
<1>3. ASSUME NEW w \in Worker PROVE Lent(w)' = Lent(w)
  <2>1. ASSUME NEW s \in Request PROVE s \in Lent(w)' <=> s \in Lent(w)
    BY HoldersAreServed DEF Lent, ServedOn, Holds, On, Answered
  <2> QED BY <2>1 DEF Lent, ServedOn
<1>4. Counted'
  BY <1>3 DEF PInv, Counted, Counts
<1>5. ASSUME NEW w \in Worker PROVE Noted(w)'
  BY DEF PInv, Locked, Noted, On, Holds
<1>6. ASSUME NEW s \in Request, Holds(s, "lock")' PROVE (lock[On(s)] = s)'
  BY <1>6 DEF PInv, Locked, On, Holds
<1> QED BY <1>1, <1>2, <1>4, <1>5, <1>6 DEF PInv, PoolTypes, Locked

\* Taking the lock: it was nobody's.
LEMMA TakeLockKeepsPools ==
  ASSUME AInv, PInv, NEW r \in Request, TakeLock(r)
  PROVE  PInv'
<1>1. /\ req[r].at \in Control /\ lock[On(r)] = None
      /\ lock' = [lock EXCEPT ![On(r)] = r]
      /\ req' = [req EXCEPT ![r].has = {"lock"}]
      /\ UNCHANGED <<free, lost>>
  BY DEF TakeLock
<1>2. On(r) \in Worker
  BY <1>1 DEF PInv, Placed, At, Control
<1>3. ~Holds(r, "lock") /\ ~Holds(r, "conn")
  BY <1>1, CloudAssumption DEF PInv, Locked, UnderLock
<1>4. /\ \A s \in Request : s # r => req'[s] = req[s]
      /\ req'[r] = [req[r] EXCEPT !.has = {"lock"}] /\ req[r] \in Requests
  BY <1>1 DEF AInv, Shape
<1>5. /\ req'[r].at = req[r].at /\ req'[r].worker = req[r].worker
      /\ req'[r].has = {"lock"}
  BY <1>4 DEF Requests
<1>6. Placed' /\ UnderLock'
  BY <1>4, <1>5 DEF PInv, Placed, UnderLock, At, On, Holds
<1>7. PoolTypes'
  BY <1>1 DEF PInv, PoolTypes
<1>8. ASSUME NEW w \in Worker PROVE Lent(w)' = Lent(w)
  <2>1. ASSUME NEW s \in Request PROVE s \in Lent(w)' <=> s \in Lent(w)
    <3>1. CASE s = r
      BY <1>3, <1>5, <3>1 DEF Lent, Holds
    <3>2. CASE s # r
      BY <1>4, <3>2 DEF Lent, ServedOn, Holds, On, Answered
    <3> QED BY <3>1, <3>2
  <2> QED BY <2>1 DEF Lent, ServedOn
<1>9. Counted'
  BY <1>1, <1>8 DEF PInv, Counted, Counts
<1>10. ASSUME NEW w \in Worker PROVE Noted(w)'
  <2>1. CASE w = On(r)
    BY <1>1, <1>2, <1>5, <2>1 DEF PInv, PoolTypes, Noted, On, Holds
  <2>2. CASE w # On(r)
    <3>1. lock'[w] = lock[w] /\ lock[w] # r
      BY <1>1, <1>3, <2>2, CloudAssumption DEF PInv, PoolTypes, Locked, Noted
    <3> QED BY <1>4, <3>1 DEF PInv, Locked, Noted, On, Holds
  <2> QED BY <2>1, <2>2
<1>11. ASSUME NEW s \in Request, Holds(s, "lock")' PROVE (lock[On(s)] = s)'
  <2>1. CASE s = r
    BY <1>1, <1>2, <1>5, <2>1 DEF PInv, PoolTypes, On
  <2>2. CASE s # r
    <3>1. Holds(s, "lock") /\ On(s)' = On(s)
      BY <1>4, <1>11, <2>2 DEF Holds, On
    <3>2. lock[On(s)] = s /\ On(s) # On(r)
      BY <1>1, <3>1, CloudAssumption DEF PInv, Locked
    <3>3. On(s) \in Worker
      BY <3>1, HoldersAreServed DEF PInv, Placed, Holds
    <3> QED BY <1>1, <3>1, <3>2, <3>3 DEF PInv, PoolTypes
  <2> QED BY <2>1, <2>2
<1> QED BY <1>6, <1>7, <1>9, <1>10, <1>11 DEF PInv, Locked

\* A connection goes from the pool to the request.
LEMMA GetConnKeepsPools ==
  ASSUME AInv, PInv, NEW r \in Request, GetConn(r)
  PROVE  PInv'
<1>1. /\ Ready(r) /\ ~Holds(r, "conn") /\ free[On(r)] > 0
      /\ free' = [free EXCEPT ![On(r)] = @ - 1]
      /\ req' = [req EXCEPT ![r].has = @ \cup {"conn"}]
      /\ UNCHANGED <<lock, lost>>
  BY DEF GetConn
<1>2. /\ ~Answered(r) /\ On(r) \in Worker
      /\ req[r].at \in Control => Holds(r, "lock")
  BY <1>1 DEF Ready, Answered, Answer, PInv, Placed, At, Control, Store
<1>3. /\ \A s \in Request : s # r => req'[s] = req[s]
      /\ req'[r] = [req[r] EXCEPT !.has = req[r].has \cup {"conn"}]
      /\ req[r] \in Requests
  BY <1>1 DEF AInv, Shape
<1>4. /\ req'[r].at = req[r].at /\ req'[r].worker = req[r].worker
      /\ req'[r].has = req[r].has \cup {"conn"}
  BY <1>3 DEF Requests
<1>5. Placed' /\ UnderLock'
  BY <1>2, <1>3, <1>4 DEF PInv, Placed, UnderLock, At, On, Holds
<1>6. PoolTypes'
  BY <1>1, <1>2 DEF PInv, PoolTypes
<1>7. ASSUME NEW w \in Worker PROVE Counts(w)'
  <2>1. /\ IsFiniteSet(Lent(w)) /\ IsFiniteSet(lost[w])
        /\ free[w] + Cardinality(lost[w]) + Cardinality(Lent(w)) = PoolMax
        /\ free[w] \in Nat /\ r \notin Lent(w)
    BY <1>1 DEF PInv, Counted, Counts, PoolTypes, Lent
  <2>2. Lent(w)' = IF w = On(r) THEN Lent(w) \cup {r} ELSE Lent(w)
    <3>1. ASSUME NEW s \in Request
          PROVE  s \in Lent(w)' <=> s \in Lent(w) \/ (s = r /\ w = On(r))
      BY <1>2, <1>3, <1>4 DEF Lent, ServedOn, Holds, On, Answered
    <3> QED BY <3>1 DEF Lent, ServedOn
  <2>3. /\ IsFiniteSet(Lent(w) \cup {r})
        /\ Cardinality(Lent(w) \cup {r}) = Cardinality(Lent(w)) + 1
    BY <2>1, FS_AddElement
  <2>4. Cardinality(Lent(w)) \in Nat /\ Cardinality(lost[w]) \in Nat
    BY <2>1, FS_CardinalityType
  <2>5. free'[w] = (IF w = On(r) THEN free[w] - 1 ELSE free[w]) /\ lost' = lost
    BY <1>1 DEF PInv, PoolTypes
  <2>6. CASE w = On(r)
    <3>1. free'[w] + Cardinality(lost[w]) + Cardinality(Lent(w) \cup {r}) = PoolMax
      BY <1>1, <2>1, <2>3, <2>4, <2>5, <2>6
    <3> QED BY <2>1, <2>2, <2>3, <2>5, <2>6, <3>1 DEF Counts
  <2>7. CASE w # On(r)
    BY <2>1, <2>2, <2>5, <2>7 DEF Counts
  <2> QED BY <2>6, <2>7
<1>8. ASSUME NEW w \in Worker PROVE Noted(w)'
  BY <1>1, <1>3, <1>4 DEF PInv, Locked, Noted, On, Holds
<1>9. ASSUME NEW s \in Request, Holds(s, "lock")' PROVE (lock[On(s)] = s)'
  BY <1>1, <1>3, <1>4, <1>9 DEF PInv, Locked, On, Holds
<1> QED BY <1>5, <1>6, <1>7, <1>8, <1>9 DEF PInv, Counted, Locked

\* A control query gives the lock back and its process loses the connection.
LEMMA LosingOne ==
  ASSUME AInv, PInv, Excused, NEW r \in Request, req[r].at \in Control, Holds(r, "conn"),
         req' \in [Request -> Requests],
         \A s \in Request : s # r => req'[s] = req[s],
         req'[r].worker = req[r].worker, req'[r].has = {},
         lock' = [lock EXCEPT ![On(r)] = None],
         lost' = [lost EXCEPT ![On(r)] = @ \cup {r}], free' = free
  PROVE  PInv'
<1>1. Holds(r, "lock") /\ ~At(r, "idle")
  BY DEF PInv, UnderLock, Control, At
<1>2. /\ Placed' /\ UnderLock' /\ On(r) \in Worker
      /\ \A w \in Worker : Lent(w)' = Lent(w) \ {r}
      /\ \A w \in Worker : r \in Lent(w) <=> w = On(r) /\ Holds(r, "conn")
  BY <1>1, GivingBack
<1>3. lock' \in [Worker -> Request \cup {None}] /\ Locked'
  <2>1. lock' = [lock EXCEPT ![On(r)] = IF Holds(r, "lock") THEN None ELSE @]
    BY <1>1
  <2> QED BY <1>2, <2>1, Unlocking
<1>4. PoolTypes'
  BY <1>2, <1>3 DEF PInv, PoolTypes
<1>5. ASSUME NEW w \in Worker PROVE Counts(w)'
  <2>1. /\ IsFiniteSet(Lent(w)) /\ IsFiniteSet(lost[w]) /\ free[w] \in Nat
        /\ free[w] + Cardinality(lost[w]) + Cardinality(Lent(w)) = PoolMax
    BY DEF PInv, Counted, Counts, PoolTypes
  <2>2. Cardinality(Lent(w)) \in Nat /\ Cardinality(lost[w]) \in Nat
    BY <2>1, FS_CardinalityType
  <2>3. /\ IsFiniteSet(Lent(w) \ {r})
        /\ Cardinality(Lent(w) \ {r}) = IF r \in Lent(w) THEN Cardinality(Lent(w)) - 1
                                                         ELSE Cardinality(Lent(w))
    BY <2>1, FS_RemoveElement
  <2>4. r \notin lost[w]
    BY DEF Excused, LostTo, At, Control
  <2>5. /\ IsFiniteSet(lost[w] \cup {r})
        /\ Cardinality(lost[w] \cup {r}) = Cardinality(lost[w]) + 1
    BY <2>1, <2>4, FS_AddElement
  <2>6. lost'[w] = IF r \in Lent(w) THEN lost[w] \cup {r} ELSE lost[w]
    BY <1>2 DEF PInv, PoolTypes
  <2>7. /\ IsFiniteSet(lost'[w])
        /\ Cardinality(lost'[w]) = IF r \in Lent(w) THEN Cardinality(lost[w]) + 1
                                                    ELSE Cardinality(lost[w])
    BY <2>1, <2>5, <2>6
  <2>8. free[w] + Cardinality(lost'[w]) + Cardinality(Lent(w) \ {r}) = PoolMax
    BY <2>1, <2>2, <2>3, <2>7
  <2>9. Lent(w)' = Lent(w) \ {r}
    BY <1>2
  <2> QED BY <2>3, <2>7, <2>8, <2>9 DEF Counts
<1> QED BY <1>2, <1>3, <1>4, <1>5 DEF PInv, Counted

\* So do a signup that registers and a control query whose connection breaks.
LEMMA LosingKeepsPools ==
  ASSUME AInv, PInv, Excused, NEW r \in Request, Enroll(r) \/ Break(r)
  PROVE  PInv'
<1>1. CASE Enroll(r)
  <2>1. /\ req[r].at \in Control /\ Holds(r, "conn")
        /\ req' = [req EXCEPT ![r].at = "token", ![r].has = {}]
        /\ lock' = [lock EXCEPT ![On(r)] = None]
        /\ lost' = [lost EXCEPT ![On(r)] = @ \cup {r}] /\ free' = free
    BY <1>1 DEF Enroll, Runs, At, Holds, Control
  <2>2. /\ \A s \in Request : s # r => req'[s] = req[s]
        /\ req'[r] = [req[r] EXCEPT !.at = "token", !.has = {}]
        /\ req[r] \in Requests
    BY <2>1 DEF AInv, Shape
  <2>3. /\ req'[r] \in Requests /\ req'[r].worker = req[r].worker /\ req'[r].has = {}
    BY <2>2 DEF Requests, Places
  <2>4. req' \in [Request -> Requests]
    BY <2>1, <2>2, <2>3 DEF AInv, Shape
  <2> QED BY <2>1, <2>2, <2>3, <2>4, LosingOne
<1>2. CASE Break(r)
  <2>1. /\ req[r].at \in Control /\ Holds(r, "conn")
        /\ lock' = [lock EXCEPT ![On(r)] = None]
        /\ lost' = [lost EXCEPT ![On(r)] = @ \cup {r}] /\ free' = free
    BY <1>2 DEF Break
  <2> QED BY <1>2, <2>1, BreakMoves, LosingOne
<1> QED BY <1>1, <1>2

\* A process that dies takes its requests, connections and its lock with it.
LEMMA CrashKeepsPools ==
  ASSUME AInv, PInv, NEW w \in Worker, Crash(w)
  PROVE  PInv'
<1>1. /\ req' = [r \in Request |-> IF r \in ServedOn(w)
               THEN [req[r] EXCEPT !.at = "gone", !.has = {}] ELSE req[r]]
      /\ lock' = [lock EXCEPT ![w] = None]
      /\ free' = [free EXCEPT ![w] = PoolMax] /\ lost' = [lost EXCEPT ![w] = {}]
  BY DEF Crash
<1>2. ASSUME NEW r \in Request, r \in ServedOn(w)
      PROVE  /\ req'[r].at = "gone" /\ req'[r].has = {} /\ On(r) = w
             /\ req'[r].worker = req[r].worker
  BY <1>1, <1>2 DEF AInv, Shape, Requests, ServedOn
<1>3. \A r \in Request : r \notin ServedOn(w) => req'[r] = req[r]
  BY <1>1
<1>4. Placed' /\ UnderLock'
  BY <1>2, <1>3 DEF PInv, Placed, UnderLock, At, On, Holds
<1>5. PoolTypes'
  BY <1>1, CloudAssumption DEF PInv, PoolTypes
<1>6. ASSUME NEW v \in Worker PROVE Counts(v)'
  <2>1. CASE v = w
    <3>1. ASSUME NEW r \in Request PROVE r \notin ServedOn(w)'
      BY <1>2, <1>3 DEF ServedOn, On, Answered, Answer
    <3>2. Lent(v)' = {}
      BY <2>1, <3>1 DEF Lent, ServedOn
    <3>3. free'[v] = PoolMax /\ lost'[v] = {}
      BY <1>1, <2>1 DEF PInv, PoolTypes
    <3> QED BY <3>2, <3>3, FS_EmptySet, CloudAssumption DEF Counts
  <2>2. CASE v # w
    <3>1. ASSUME NEW r \in Request PROVE r \in Lent(v)' <=> r \in Lent(v)
      BY <1>2, <1>3, <2>2 DEF Lent, ServedOn, On, Answered, Holds
    <3>2. Lent(v)' = Lent(v)
      BY <3>1 DEF Lent, ServedOn
    <3>3. free'[v] = free[v] /\ lost'[v] = lost[v]
      BY <1>1, <2>2 DEF PInv, PoolTypes
    <3> QED BY <3>2, <3>3 DEF PInv, Counted, Counts
  <2> QED BY <2>1, <2>2
<1>7. ASSUME NEW v \in Worker, lock'[v] # None PROVE Noted(v)'
  <2>1. v # w /\ lock'[v] = lock[v]
    BY <1>1, <1>7 DEF PInv, PoolTypes
  <2>2. lock[v] \in Request /\ On(lock[v]) = v /\ Holds(lock[v], "lock")
    BY <1>7, <2>1 DEF PInv, Locked, Noted
  <2>3. req'[lock[v]] = req[lock[v]]
    BY <1>3, <2>1, <2>2 DEF ServedOn
  <2> QED BY <2>1, <2>2, <2>3 DEF Noted, On, Holds
<1>8. ASSUME NEW s \in Request, Holds(s, "lock")' PROVE (lock[On(s)] = s)'
  <2>1. s \notin ServedOn(w)
    BY <1>2, <1>8 DEF Holds
  <2>2. req'[s] = req[s] /\ Holds(s, "lock")
    BY <1>3, <1>8, <2>1 DEF Holds
  <2>3. On(s) # w /\ On(s) \in Worker
    BY <2>1, <2>2, HoldersAreServed DEF ServedOn, Holds, PInv, Placed
  <2> QED BY <1>1, <2>2, <2>3 DEF PInv, Locked, PoolTypes, On
<1>9. \A v \in Worker : Noted(v)'
  BY <1>7 DEF Noted
<1> QED BY <1>4, <1>5, <1>6, <1>8, <1>9 DEF PInv, Counted, Locked

\* Every step that ends in a release is one of a request that is under way.
LEMMA Releasing ==
  ASSUME AInv, NEW r \in Request,
         \/ GiveUp(r) \/ Fail(r) \/ Find(r) \/ Mint(r) \/ EnrollTaken(r) \/ IssueToken(r)
         \/ ApiKey(r) \/ Resolve(r) \/ WriteSpans(r) \/ Read(r) \/ Check(r) \/ Send(r)
  PROVE  ~At(r, "idle") /\ \E to \in Places : Release(r, to)
<1>0. Fits(req[r].kind, req[r].at)
  BY DEF AInv, RightKind
<1>1. ~At(r, "idle")
  BY DEF GiveUp, Fail, Find, Mint, EnrollTaken, IssueToken, ApiKey, Resolve, WriteSpans, Read,
         Check, Send, Runs, At, Ready, Holds, Control, Store, AInv, Busy
<1> SUFFICES \E to \in Places : Release(r, to)
  BY <1>1
<1>2. CASE GiveUp(r) \/ Fail(r) \/ EnrollTaken(r)
  BY <1>2 DEF GiveUp, Fail, EnrollTaken, Places, Answer
<1>3. CASE Find(r)
  <2>1. req[r].kind \in {"signup", "login"}
    BY <1>0, <1>3 DEF Find, Runs, At, Fits
  <2>2. \/ Release(r, "409") \/ Release(r, "mint")
        \/ Release(r, "apiKey") \/ Release(r, "401")
    BY <1>3, <2>1, FindGoes
  <2> QED BY <2>2 DEF Places, Answer, Control
<1>4. CASE Mint(r)
  BY <1>4 DEF Mint, Places, Control
<1>5. CASE IssueToken(r) \/ ApiKey(r) \/ WriteSpans(r) \/ Read(r) \/ Send(r)
  BY <1>5 DEF IssueToken, ApiKey, WriteSpans, Read, Send, Places, Answer
<1>6. CASE Resolve(r)
  <2>1. req[r].kind \in {"ingest", "read", "branch"}
    BY <1>0, <1>6 DEF Resolve, Runs, At, Fits
  <2>2. \/ Release(r, "401") \/ Release(r, "look")
        \/ Release(r, "read") \/ Release(r, "check")
    BY <1>6, <2>1 DEF Resolve
  <2> QED BY <2>2 DEF Places, Answer, Store
<1>7. CASE Check(r)
  <2>1. Release(r, "404") \/ Release(r, "send")
    BY <1>7 DEF Check
  <2> QED BY <2>1 DEF Places, Answer
<1> QED BY <1>2, <1>3, <1>4, <1>5, <1>6, <1>7

\* Every step keeps the pools and the locks.
LEMMA NextPInv == AInv /\ AInv' /\ PInv /\ Excused /\ [Next]_api => PInv'
<1> SUFFICES ASSUME AInv, AInv', PInv, Excused, [Next]_api PROVE PInv'
  OBVIOUS
<1>0. req' \in [Request -> Requests] /\ \A r \in Request : req[r] \in Requests
  BY DEF AInv, Shape
<1>1. ASSUME NEW r \in Request, Arrive(r) PROVE PInv'
  <2>1. PICK w \in Worker, t \in {Founder} \cup {s \in Request : Confirmed(s)} :
          /\ At(r, "idle")
          /\ req' = [req EXCEPT ![r].worker = w,
               ![r].at = IF req[r].kind \in {"signup", "login"} THEN "find" ELSE "resolve",
               ![r].tenant = IF req[r].kind \in {"signup", "login"} THEN None ELSE t]
          /\ UNCHANGED <<lock, free, lost>>
    BY <1>1 DEF Arrive
  <2>2. req[r].has = {}
    BY <2>1, HoldersAreServed
  <2>3. \A s \in Request : s # r => req'[s] = req[s]
    BY <2>1, <1>0
  <2>4. /\ req'[r].has = req[r].has /\ On(r)' = w /\ ~Answered(r)'
    BY <2>1, <1>0 DEF Requests, On, Answered, Answer, AInv, Shape
  <2> QED BY <1>0, <2>1, <2>2, <2>3, <2>4, HoldingOn
<1>2. ASSUME NEW r \in Request, Look(r) \/ Add(r) \/ Write(r) PROVE PInv'
  <2>1. /\ req[r].at \in {"look", "add", "write"} /\ UNCHANGED <<lock, free, lost>>
        /\ \A s \in Request : s # r => req'[s] = req[s]
    BY <1>0, <1>2 DEF Look, Add, Write, Runs, At, AInv, Shape
  <2>2. /\ req'[r].has = req[r].has /\ req'[r].worker = req[r].worker
        /\ req'[r].at \in {"add", "write", "spans"}
    BY <1>0, <1>2 DEF Look, Add, Write, AInv, Shape, Requests
  <2>3. On(r)' \in Worker
    BY <2>1, <2>2 DEF PInv, Placed, At, On
  <2>4. ~Answered(r)' /\ req'[r].at \notin Control
    BY <2>2 DEF Answered, Answer, Control
  <2> QED BY <1>0, <2>1, <2>2, <2>3, <2>4, HoldingOn
<1>3. ASSUME NEW r \in Request,
             \/ GiveUp(r) \/ Fail(r) \/ Find(r) \/ Mint(r) \/ EnrollTaken(r) \/ IssueToken(r)
             \/ ApiKey(r) \/ Resolve(r) \/ WriteSpans(r) \/ Read(r) \/ Check(r) \/ Send(r)
      PROVE  PInv'
  BY <1>3, Releasing, ReleaseKeepsPools
<1>4. CASE UNCHANGED api
  BY <1>4 DEF api, PInv, Placed, PoolTypes, Counted, Counts, Locked, Noted, UnderLock, Lent,
              ServedOn, Answered, Holds, On, At
<1> QED BY <1>1, <1>2, <1>3, <1>4, TakeLockKeepsPools, GetConnKeepsPools,
           LosingKeepsPools, CrashKeepsPools DEF Next, Serve

-----------------------------------------------------------------------------

\* A connection that is lost stays accounted for, as long as nobody who lost one moves
\* but from the token of a signup to its end.
LEMMA ExcusesStand ==
  ASSUME PInv, Excused, lost' = lost, users \subseteq users',
         \A r \in Request : req[r].at \in {"broke", "token", "200"} =>
            /\ req'[r].worker = req[r].worker
            /\ req'[r].at = req[r].at \/ (req[r].at = "token" /\ req'[r].at = "200")
  PROVE  Excused'
<1> SUFFICES ASSUME NEW w \in Worker, NEW r \in lost[w] PROVE (On(r) = w /\ LostTo(r))'
  BY DEF Excused
<1>1. r \in Request
  BY DEF PInv, PoolTypes
<1>2. On(r) = w /\ LostTo(r)
  BY DEF Excused
<1> QED BY <1>1, <1>2 DEF LostTo, At, On, User

\* The same for a step of one request that has not lost a connection.
LEMMA OthersExcused ==
  ASSUME PInv, Excused, NEW r \in Request, req[r].at \notin {"broke", "token", "200"},
         \A s \in Request : s # r => req'[s] = req[s],
         lost' = lost, users \subseteq users'
  PROVE  Excused'
<1>1. \A s \in Request : req[s].at \in {"broke", "token", "200"} => req'[s] = req[s]
  OBVIOUS
<1> QED BY <1>1, ExcusesStand

\* A request that loses its process's connection joins those that have.
LEMMA LosingIsExcused ==
  ASSUME PInv, Excused, NEW r \in Request, req[r].at \in Control,
         \A s \in Request : s # r => req'[s] = req[s],
         req'[r].worker = req[r].worker, LostTo(r)',
         lost' = [lost EXCEPT ![On(r)] = @ \cup {r}], users \subseteq users'
  PROVE  Excused'
<1> SUFFICES ASSUME NEW w \in Worker, NEW s \in lost'[w] PROVE (On(s) = w /\ LostTo(s))'
  BY DEF Excused
<1>1. (s = r /\ w = On(r)) \/ s \in lost[w]
  BY DEF PInv, PoolTypes
<1>2. CASE s = r /\ w = On(r)
  BY <1>2 DEF On
<1>3. CASE s \in lost[w]
  <2>1. s \in Request /\ On(s) = w /\ LostTo(s)
    BY <1>3 DEF PInv, PoolTypes, Excused
  <2>2. s # r
    BY <2>1 DEF LostTo, At, Control
  <2> QED BY <2>1, <2>2 DEF LostTo, At, On, User
<1> QED BY <1>1, <1>2, <1>3

\* At the start no connection is lost.
LEMMA InitExcused == Init => Excused
BY DEF Init, Excused

\* Every step keeps the account of what is lost.
LEMMA NextExcused == AInv /\ AInv' /\ PInv /\ Excused /\ [Next]_api => Excused'
<1> SUFFICES ASSUME AInv, AInv', PInv, Excused, [Next]_api PROVE Excused'
  OBVIOUS
<1> USE DEF database
<1>0. \A r \in Request : req[r] \in Requests
  BY DEF AInv, Shape
<1>1. ASSUME NEW r \in Request,
             \/ Arrive(r) \/ TakeLock(r) \/ GetConn(r) \/ Look(r) \/ Add(r) \/ Write(r)
      PROVE  Excused'
  <2>1. lost' = lost /\ users' = users
    BY <1>1 DEF Arrive, TakeLock, GetConn, Look, Add, Write
  <2>2. req[r].at \notin {"broke", "token", "200"}
    BY <1>1 DEF Arrive, TakeLock, GetConn, Look, Add, Write, Runs, At, Ready, Control, Store
  <2>3. \A s \in Request : s # r => req'[s] = req[s]
    BY <1>1 DEF Arrive, TakeLock, GetConn, Look, Add, Write, AInv, Shape
  <2> QED BY <2>1, <2>2, <2>3, OthersExcused
<1>2. ASSUME NEW r \in Request,
             \/ GiveUp(r) \/ Fail(r) \/ Find(r) \/ Mint(r) \/ EnrollTaken(r)
             \/ ApiKey(r) \/ Resolve(r) \/ WriteSpans(r) \/ Read(r) \/ Check(r) \/ Send(r)
      PROVE  Excused'
  <2>1. PICK to \in Places : Release(r, to)
    BY <1>2, Releasing
  <2>2. lost' = lost /\ users' = users
    BY <1>2, <2>1 DEF Release, GiveUp, Fail, Find, Mint, EnrollTaken, ApiKey, Resolve,
                      WriteSpans, Read, Check, Send
  <2>3. req[r].at \notin {"broke", "token", "200"}
    BY <1>2 DEF GiveUp, Fail, Find, Mint, EnrollTaken, ApiKey, Resolve, WriteSpans, Read,
                Check, Send, Runs, At, Ready, Holds, Control, Store, AInv, Busy
  <2> QED BY <2>1, <2>2, <2>3, ReleaseMoves, OthersExcused
<1>3. ASSUME NEW r \in Request, IssueToken(r) PROVE Excused'
  <2>1. Release(r, "200") /\ lost' = lost /\ users' = users /\ req[r].at = "token"
    BY <1>3 DEF IssueToken, Release, At
  <2>2. /\ \A s \in Request : s # r => req'[s] = req[s]
        /\ req'[r].at = "200"
    BY <2>1, ReleaseMoves DEF Places, Answer
  <2>3. req'[r].worker = req[r].worker
    BY <1>0, <2>1 DEF Release, AInv, Shape, Requests
  <2>4. \A s \in Request : /\ req'[s].worker = req[s].worker
                           /\ req'[s].at = req[s].at
                              \/ (req[s].at = "token" /\ req'[s].at = "200")
    BY <2>1, <2>2, <2>3
  <2> QED BY <2>1, <2>4, ExcusesStand
<1>4. ASSUME NEW r \in Request, Enroll(r) PROVE Excused'
  <2>1. /\ req[r].at \in Control /\ users' = users \cup {User(r)}
        /\ req' = [req EXCEPT ![r].at = "token", ![r].has = {}]
        /\ lost' = [lost EXCEPT ![On(r)] = @ \cup {r}]
    BY <1>4 DEF Enroll, Runs, At, Control, User
  <2>2. /\ \A s \in Request : s # r => req'[s] = req[s]
        /\ req'[r].at = "token" /\ req'[r].worker = req[r].worker
    BY <1>0, <2>1 DEF AInv, Shape, Requests
  <2>3. LostTo(r)'
    BY <2>1, <2>2 DEF LostTo, User
  <2> QED BY <2>1, <2>2, <2>3, LosingIsExcused
<1>5. ASSUME NEW r \in Request, Break(r) PROVE Excused'
  <2>1. /\ req[r].at \in Control /\ users' = users
        /\ lost' = [lost EXCEPT ![On(r)] = @ \cup {r}]
    BY <1>5 DEF Break
  <2>2. LostTo(r)'
    BY <1>5, BreakMoves DEF LostTo, At
  <2> QED BY <1>5, <2>1, <2>2, BreakMoves, LosingIsExcused
<1>6. ASSUME NEW w \in Worker, Crash(w) PROVE Excused'
  <2>1. /\ req' = [r \in Request |-> IF r \in ServedOn(w)
               THEN [req[r] EXCEPT !.at = "gone", !.has = {}] ELSE req[r]]
        /\ lost' = [lost EXCEPT ![w] = {}] /\ users' = users
    BY <1>6 DEF Crash
  <2>2. ASSUME NEW v \in Worker, NEW r \in lost'[v] PROVE (On(r) = v /\ LostTo(r))'
    <3>1. v # w /\ r \in lost[v]
      BY <2>1, <2>2 DEF PInv, PoolTypes
    <3>2. r \in Request /\ On(r) = v /\ LostTo(r)
      BY <3>1 DEF PInv, PoolTypes, Excused
    <3>3. req'[r] = req[r]
      BY <2>1, <3>1, <3>2 DEF ServedOn
    <3> QED BY <2>1, <3>2, <3>3 DEF On, LostTo, At, User
  <2> QED BY <2>2 DEF Excused
<1>7. CASE UNCHANGED api
  BY <1>7 DEF api, Excused, On, LostTo, At, User
<1> QED BY <1>1, <1>2, <1>3, <1>4, <1>5, <1>6, <1>7 DEF Next, Serve

-----------------------------------------------------------------------------
(* The rows of the stores are linked. *)

\* Who is after a tenant's store has its tenant, who writes has its project, and who
\* writes spans has its trace there.
Keyed == \A r \in Request :
  /\ req[r].at \in {"resolve", "look", "add", "write", "spans"} => req[r].tenant \in Tenant
  /\ req[r].at \in {"write", "spans"}
       => [id |-> req[r].project, tenant |-> req[r].tenant] \in projects
  /\ At(r, "spans") => RowOf(r, "trace") \in rows

RowTypes == tenants \subseteq Tenant /\ projects \subseteq Project /\ rows \subseteq Row

RInv == Keyed /\ RowTypes /\ RowsOwned

\* A step of one request that writes no row, nor confirms a batch.
LEMMA OneRequestLinked ==
  ASSUME RInv, NEW r \in Request,
         \A s \in Request : s # r => req'[s] = req[s],
         req'[r].at \in {"resolve", "look", "add", "write"} => req'[r].tenant \in Tenant,
         req'[r].at # "spans",
         req'[r].at = "write"
           => [id |-> req'[r].project, tenant |-> req'[r].tenant] \in projects',
         req'[r].kind = "ingest" => req'[r].at # "200",
         projects \subseteq projects', projects' \subseteq Project,
         tenants' \subseteq Tenant, rows' = rows
  PROVE  RInv'
<1>1. Keyed'
  BY DEF RInv, Keyed, At, RowOf
<1>2. RowsOwned'
  BY DEF RInv, RowsOwned, At
<1> QED BY <1>1, <1>2 DEF RInv, RowTypes

\* Where a request that releases goes next, and that it stays the same request.
LEMMA ReleasingOn ==
  ASSUME AInv, NEW r \in Request,
         \/ GiveUp(r) \/ Fail(r) \/ Find(r) \/ Mint(r) \/ EnrollTaken(r) \/ IssueToken(r)
         \/ ApiKey(r) \/ Resolve(r) \/ Read(r) \/ Check(r) \/ Send(r)
  PROVE  /\ \A s \in Request : s # r => req'[s] = req[s]
         /\ req'[r].tenant = req[r].tenant /\ req'[r].kind = req[r].kind
         /\ req'[r].at \notin {"resolve", "add", "write", "spans"}
         /\ req'[r].at = "look" => req[r].at = "resolve"
         /\ req'[r].kind = "ingest" => req'[r].at # "200"
<1>0. Fits(req[r].kind, req[r].at) /\ req[r] \in Requests
  BY DEF AInv, RightKind, Shape
<1>1. PICK to \in Places : Release(r, to)
  BY Releasing
<1>2. /\ \A s \in Request : s # r => req'[s] = req[s]
      /\ req'[r].kind = req[r].kind /\ req'[r].at = to
  BY <1>1, ReleaseMoves
<1>3. req'[r].tenant = req[r].tenant
  BY <1>0, <1>1 DEF Release, AInv, Shape, Requests
<1>4. /\ req'[r].at \notin {"resolve", "add", "write", "spans"}
      /\ req'[r].at = "look" => req[r].at = "resolve"
      /\ req'[r].at = "200" => req[r].kind # "ingest"
  <2>1. ASSUME NEW p \in Places, Release(r, p) PROVE req'[r].at = p
    BY <2>1, ReleaseMoves
  <2>2. CASE GiveUp(r) \/ Fail(r) \/ EnrollTaken(r)
    BY <2>1, <2>2 DEF GiveUp, Fail, EnrollTaken, Places, Answer
  <2>3. CASE Find(r)
    <3>1. req[r].kind \in {"signup", "login"}
      BY <1>0, <2>3 DEF Find, Runs, At, Fits
    <3>2. \/ Release(r, "409") \/ Release(r, "mint")
          \/ Release(r, "apiKey") \/ Release(r, "401")
      BY <2>3, <3>1, FindGoes
    <3> QED BY <2>1, <3>1, <3>2 DEF Places, Answer, Control
  <2>4. CASE Mint(r)
    BY <2>1, <2>4 DEF Mint, Places, Control
  <2>5. CASE IssueToken(r) \/ ApiKey(r) \/ Read(r) \/ Send(r)
    <3>1. Release(r, "200") /\ req[r].kind # "ingest"
      BY <1>0, <2>5 DEF IssueToken, ApiKey, Read, Send, Runs, At, Fits
    <3> QED BY <2>1, <3>1 DEF Places, Answer
  <2>6. CASE Resolve(r)
    <3>1. req[r].kind \in {"ingest", "read", "branch"} /\ req[r].at = "resolve"
      BY <1>0, <2>6 DEF Resolve, Runs, At, Fits
    <3>2. \/ Release(r, "401") \/ Release(r, "look")
          \/ Release(r, "read") \/ Release(r, "check")
      BY <2>6, <3>1 DEF Resolve
    <3> QED BY <2>1, <3>1, <3>2 DEF Places, Answer, Store
  <2>7. CASE Check(r)
    <3>1. Release(r, "404") \/ Release(r, "send")
      BY <2>7 DEF Check
    <3> QED BY <2>1, <3>1 DEF Places, Answer
  <2> QED BY <2>2, <2>3, <2>4, <2>5, <2>6, <2>7
<1> QED BY <1>2, <1>3, <1>4

\* At the start there are no rows to link.
LEMMA InitRInv == Init => RInv
BY DEF Init, RInv, Keyed, RowTypes, RowsOwned, At, Tenant

\* What a request writes is its tenant's, in the project that it has.
LEMMA RowOfRequest ==
  ASSUME NEW r, NEW part
  PROVE  /\ RowOf(r, part).id = r /\ RowOf(r, part).part = part
         /\ RowOf(r, part).tenant = req[r].tenant /\ RowOf(r, part).project = req[r].project
         /\ [RowOf(r, part) EXCEPT !.part = "trace"] = RowOf(r, "trace")
BY DEF RowOf

\* The rows stay linked when one is added whose project and trace are there, and the
\* batches confirmed are those confirmed before and, with its spans, the writer's.
LEMMA OneRowMore ==
  ASSUME RInv, NEW r \in Request, NEW part \in Part,
         rows' = rows \cup {RowOf(r, part)}, projects' = projects,
         [id |-> req[r].project, tenant |-> req[r].tenant] \in projects,
         RowOf(r, "trace") \in rows',
         \A s \in Request : s # r => req'[s] = req[s],
         req'[r].at = "200" => part = "spans" /\ req'[r].tenant = req[r].tenant
  PROVE  RowsOwned'
<1>1. ASSUME NEW x \in rows' PROVE [id |-> x.project, tenant |-> x.tenant] \in projects'
  BY RowOfRequest DEF RInv, RowsOwned
<1>2. ASSUME NEW x \in rows' PROVE [x EXCEPT !.part = "trace"] \in rows'
  BY RowOfRequest DEF RInv, RowsOwned
<1>3. ASSUME NEW s \in Request, req'[s].kind = "ingest", req'[s].at = "200"
      PROVE  \E x \in rows' : x.id = s /\ x.part = "spans" /\ x.tenant = req'[s].tenant
  <2>1. CASE s = r
    BY <1>3, <2>1, RowOfRequest
  <2>2. CASE s # r
    BY <1>3, <2>2 DEF RInv, RowsOwned, At
  <2> QED BY <2>1, <2>2
<1> QED BY <1>1, <1>2, <1>3 DEF RowsOwned, At

\* A row of a request that has its tenant and its project is one of the store.
LEMMA RowOfKeyed ==
  ASSUME RInv, NEW r \in Request, NEW part \in Part, req[r].at \in {"write", "spans"}
  PROVE  /\ RowOf(r, part) \in Row
         /\ [id |-> req[r].project, tenant |-> req[r].tenant] \in projects
<1>1. /\ req[r].tenant \in Tenant
      /\ [id |-> req[r].project, tenant |-> req[r].tenant] \in projects
  BY DEF RInv, Keyed
<1>2. req[r].project \in Request
  BY <1>1 DEF RInv, RowTypes, Project
<1> QED BY <1>1, <1>2 DEF RowOf, Row

\* The trace of a batch is written for its tenant, in a project of the tenant's.
LEMMA WriteLinks ==
  ASSUME AInv, RInv, NEW r \in Request, Write(r)
  PROVE  RInv'
<1>1. /\ req[r].at = "write" /\ rows' = rows \cup {RowOf(r, "trace")}
      /\ req' = [req EXCEPT ![r].at = "spans"] /\ UNCHANGED <<tenants, projects>>
  BY DEF Write, Runs, At
<1>2. /\ \A s \in Request : s # r => req'[s] = req[s]
      /\ req'[r].at = "spans" /\ req'[r].tenant = req[r].tenant
      /\ req'[r].project = req[r].project
  BY <1>1 DEF AInv, Shape, Requests
<1>3. /\ RowOf(r, "trace") \in Row
      /\ [id |-> req[r].project, tenant |-> req[r].tenant] \in projects
  BY <1>1, RowOfKeyed DEF Part
<1>4. RowsOwned'
  BY <1>1, <1>2, <1>3, OneRowMore DEF Part
<1>5. RowTypes'
  BY <1>1, <1>3 DEF RInv, RowTypes
<1>6. req[r].tenant \in Tenant
  BY <1>1 DEF RInv, Keyed
<1>7. RowOf(r, "trace")' = RowOf(r, "trace")
  BY <1>2 DEF RowOf
<1>8. Keyed'
  <2> SUFFICES ASSUME NEW s \in Request
               PROVE  /\ req'[s].at \in {"resolve", "look", "add", "write", "spans"}
                           => req'[s].tenant \in Tenant
                      /\ req'[s].at \in {"write", "spans"}
                           => [id |-> req'[s].project, tenant |-> req'[s].tenant] \in projects'
                      /\ req'[s].at = "spans" => RowOf(s, "trace")' \in rows'
    BY DEF Keyed, At
  <2>1. CASE s = r
    <3>1. [id |-> req'[r].project, tenant |-> req'[r].tenant]
            = [id |-> req[r].project, tenant |-> req[r].tenant]
      BY <1>2
    <3> QED BY <1>1, <1>2, <1>3, <1>6, <1>7, <2>1, <3>1
  <2>2. CASE s # r
    <3>1. req'[s] = req[s] /\ RowOf(s, "trace")' = RowOf(s, "trace")
      BY <1>2, <2>2 DEF RowOf
    <3>2. rows \subseteq rows' /\ projects' = projects
      BY <1>1
    <3> QED BY <3>1, <3>2 DEF RInv, Keyed, At
  <2> QED BY <2>1, <2>2
<1> QED BY <1>4, <1>5, <1>8 DEF RInv

\* Its spans are written under its trace, and it is confirmed.
LEMMA WriteSpansLinks ==
  ASSUME AInv, RInv, NEW r \in Request, WriteSpans(r)
  PROVE  RInv'
<1>1. /\ Release(r, "200") /\ req[r].at = "spans" /\ UNCHANGED <<tenants, projects>>
      /\ rows' = rows \cup {RowOf(r, "spans")}
  BY DEF WriteSpans, Runs, At
<1>2. /\ \A s \in Request : s # r => req'[s] = req[s]
      /\ req'[r].at = "200"
  BY <1>1, ReleaseMoves DEF Places, Answer
<1>3. req'[r].tenant = req[r].tenant
  BY <1>1 DEF Release, AInv, Shape, Requests
<1>4. /\ RowOf(r, "spans") \in Row
      /\ [id |-> req[r].project, tenant |-> req[r].tenant] \in projects
  BY <1>1, RowOfKeyed DEF Part
<1>5. RowOf(r, "trace") \in rows
  BY <1>1 DEF RInv, Keyed, At
<1>6. RowsOwned'
  BY <1>1, <1>2, <1>3, <1>4, <1>5, OneRowMore DEF Part
<1>7. RowTypes'
  BY <1>1, <1>4 DEF RInv, RowTypes
<1>8. Keyed'
  <2> SUFFICES ASSUME NEW s \in Request
               PROVE  /\ req'[s].at \in {"resolve", "look", "add", "write", "spans"}
                           => req'[s].tenant \in Tenant
                      /\ req'[s].at \in {"write", "spans"}
                           => [id |-> req'[s].project, tenant |-> req'[s].tenant] \in projects'
                      /\ req'[s].at = "spans" => RowOf(s, "trace")' \in rows'
    BY DEF Keyed, At
  <2>1. CASE s = r
    BY <1>2, <2>1
  <2>2. CASE s # r
    <3>1. req'[s] = req[s] /\ RowOf(s, "trace")' = RowOf(s, "trace")
      BY <1>2, <2>2 DEF RowOf
    <3>2. rows \subseteq rows' /\ projects' = projects
      BY <1>1
    <3> QED BY <3>1, <3>2 DEF RInv, Keyed, At
  <2> QED BY <2>1, <2>2
<1> QED BY <1>6, <1>7, <1>8 DEF RInv

\* Every step keeps the rows linked.
LEMMA NextRInv == AInv /\ RInv /\ [Next]_api => RInv'
<1> SUFFICES ASSUME AInv, RInv, [Next]_api PROVE RInv'
  OBVIOUS
<1> USE DEF database
<1>0. ASSUME NEW r \in Request PROVE req[r] \in Requests /\ Fits(req[r].kind, req[r].at)
  BY <1>0 DEF AInv, Shape, RightKind
<1>1. ASSUME NEW r \in Request, Arrive(r) PROVE RInv'
  <2>1. PICK w \in Worker, t \in {Founder} \cup {s \in Request : Confirmed(s)} :
          /\ req' = [req EXCEPT ![r].worker = w,
               ![r].at = IF req[r].kind \in {"signup", "login"} THEN "find" ELSE "resolve",
               ![r].tenant = IF req[r].kind \in {"signup", "login"} THEN None ELSE t]
          /\ UNCHANGED <<tenants, projects, rows>>
    BY <1>1 DEF Arrive
  <2>2. \A s \in Request : s # r => req'[s] = req[s]
    BY <2>1 DEF AInv, Shape
  <2>3. /\ req'[r].at \in {"find", "resolve"}
        /\ req'[r].at = "resolve" => req'[r].tenant \in Tenant
    BY <2>1, <1>0 DEF AInv, Shape, Requests, Tenant
  <2> QED BY <2>1, <2>2, <2>3, OneRequestLinked DEF RInv, RowTypes
<1>2. ASSUME NEW r \in Request, TakeLock(r) \/ GetConn(r) PROVE RInv'
  <2>1. UNCHANGED <<tenants, projects, rows>>
    BY <1>2 DEF TakeLock, GetConn
  <2>2. \A s \in Request : /\ req'[s].kind = req[s].kind /\ req'[s].at = req[s].at
                           /\ req'[s].tenant = req[s].tenant
                           /\ req'[s].project = req[s].project
    BY <1>2 DEF AInv, Shape, Requests, TakeLock, GetConn
  <2> QED BY <2>1, <2>2 DEF RInv, Keyed, RowTypes, RowsOwned, At, RowOf
<1>3. ASSUME NEW r \in Request,
             \/ GiveUp(r) \/ Fail(r) \/ Find(r) \/ Mint(r) \/ EnrollTaken(r) \/ IssueToken(r)
             \/ ApiKey(r) \/ Resolve(r) \/ Read(r) \/ Check(r) \/ Send(r)
      PROVE  RInv'
  <2>1. UNCHANGED <<projects, rows>> /\ tenants' \subseteq Tenant
    BY <1>3 DEF GiveUp, Fail, Find, Mint, EnrollTaken, IssueToken, ApiKey, Resolve, Read,
                Check, Send, RInv, RowTypes, Tenant
  <2>2. req'[r].at = "look" => req[r].tenant \in Tenant
    BY <1>3, ReleasingOn DEF RInv, Keyed
  <2> QED BY <1>3, <2>1, <2>2, ReleasingOn, OneRequestLinked DEF RInv, RowTypes
<1>4. ASSUME NEW r \in Request, Enroll(r) PROVE RInv'
  <2>1. /\ req' = [req EXCEPT ![r].at = "token", ![r].has = {}]
        /\ UNCHANGED <<tenants, projects, rows>>
    BY <1>4 DEF Enroll
  <2>2. req'[r].at = "token" /\ \A s \in Request : s # r => req'[s] = req[s]
    BY <2>1, <1>0 DEF AInv, Shape, Requests
  <2> QED BY <2>1, <2>2, OneRequestLinked DEF RInv, RowTypes
<1>5. ASSUME NEW r \in Request, Look(r) PROVE RInv'
  <2>1. req[r].at = "look" /\ UNCHANGED <<tenants, projects, rows>>
    BY <1>5 DEF Look, Runs, At
  <2>2. req[r].tenant \in Tenant
    BY <2>1 DEF RInv, Keyed
  <2>3. CASE ProjectsSeen(r) = {}
    <3>1. req' = [req EXCEPT ![r].at = "add"]
      BY <1>5, <2>3 DEF Look
    <3>2. /\ req'[r].at = "add" /\ req'[r].tenant = req[r].tenant
          /\ \A s \in Request : s # r => req'[s] = req[s]
      BY <3>1, <1>0 DEF AInv, Shape, Requests
    <3> QED BY <2>1, <2>2, <3>2, OneRequestLinked DEF RInv, RowTypes
  <2>4. CASE ProjectsSeen(r) # {}
    <3>1. PICK p \in ProjectsSeen(r) :
            req' = [req EXCEPT ![r].at = "write", ![r].project = p.id]
      BY <1>5, <2>4 DEF Look
    <3>2. p \in projects /\ p.tenant = req[r].tenant /\ p \in Project
      BY <3>1 DEF ProjectsSeen, RInv, RowTypes
    <3>3. p = [id |-> p.id, tenant |-> req[r].tenant]
      BY <3>2 DEF Project
    <3>4. /\ req'[r].at = "write" /\ req'[r].tenant = req[r].tenant
          /\ req'[r].project = p.id /\ \A s \in Request : s # r => req'[s] = req[s]
      BY <3>1, <1>0 DEF AInv, Shape, Requests
    <3> QED BY <2>1, <2>2, <3>2, <3>3, <3>4, OneRequestLinked DEF RInv, RowTypes
  <2> QED BY <2>3, <2>4
<1>6. ASSUME NEW r \in Request, Add(r) PROVE RInv'
  <2>1. /\ req[r].at = "add" /\ UNCHANGED <<tenants, rows>>
        /\ projects' = projects \cup {[id |-> r, tenant |-> req[r].tenant]}
        /\ req' = [req EXCEPT ![r].at = "write", ![r].project = r]
    BY <1>6 DEF Add, Runs, At
  <2>2. req[r].tenant \in Tenant
    BY <2>1 DEF RInv, Keyed
  <2>3. /\ req'[r].at = "write" /\ req'[r].tenant = req[r].tenant
        /\ req'[r].project = r /\ \A s \in Request : s # r => req'[s] = req[s]
    BY <2>1, <1>0 DEF AInv, Shape, Requests
  <2>4. projects' \subseteq Project
    BY <2>1, <2>2 DEF RInv, RowTypes, Project
  <2>5. /\ [id |-> req'[r].project, tenant |-> req'[r].tenant] \in projects'
        /\ projects \subseteq projects'
    <3>1. [id |-> req'[r].project, tenant |-> req'[r].tenant]
            = [id |-> r, tenant |-> req[r].tenant]
      BY <2>3
    <3> QED BY <2>1, <3>1
  <2> QED BY <2>1, <2>2, <2>3, <2>4, <2>5, OneRequestLinked DEF RInv, RowTypes
<1>7. ASSUME NEW w \in Worker, Crash(w) PROVE RInv'
  <2>1. /\ UNCHANGED <<tenants, projects, rows>>
        /\ req' = [r \in Request |-> IF r \in ServedOn(w)
                     THEN [req[r] EXCEPT !.at = "gone", !.has = {}] ELSE req[r]]
    BY <1>7 DEF Crash
  <2>2. \A r \in Request : /\ req'[r].kind = req[r].kind /\ req'[r].tenant = req[r].tenant
                           /\ req'[r].project = req[r].project
                           /\ req'[r].at = req[r].at \/ req'[r].at = "gone"
    BY <2>1, <1>0 DEF Requests
  <2>3. Keyed'
    <3> SUFFICES ASSUME NEW r \in Request
                 PROVE  /\ req'[r].at \in {"resolve", "look", "add", "write", "spans"}
                             => req'[r].tenant \in Tenant
                        /\ req'[r].at \in {"write", "spans"}
                             => [id |-> req'[r].project, tenant |-> req'[r].tenant] \in projects'
                        /\ req'[r].at = "spans" => RowOf(r, "trace")' \in rows'
      BY DEF Keyed, At
    <3>1. /\ [id |-> req'[r].project, tenant |-> req'[r].tenant]
               = [id |-> req[r].project, tenant |-> req[r].tenant]
          /\ RowOf(r, "trace")' = RowOf(r, "trace")
      BY <2>2 DEF RowOf
    <3>2. CASE req'[r].at = "gone"
      BY <3>2
    <3>3. CASE req'[r].at = req[r].at
      <4>1. req'[r].tenant = req[r].tenant /\ projects' = projects /\ rows' = rows
        BY <2>1, <2>2
      <4> QED BY <3>1, <3>3, <4>1 DEF RInv, Keyed, At
    <3> QED BY <2>2, <3>2, <3>3
  <2>4. RowsOwned'
    <3>1. ASSUME NEW r \in Request, req'[r].kind = "ingest", req'[r].at = "200"
          PROVE  \E x \in rows' : x.id = r /\ x.part = "spans" /\ x.tenant = req'[r].tenant
      <4>1. req[r].kind = "ingest" /\ req[r].at = "200" /\ req'[r].tenant = req[r].tenant
        BY <2>2, <3>1
      <4>2. \E x \in rows : x.id = r /\ x.part = "spans" /\ x.tenant = req[r].tenant
        BY <4>1 DEF RInv, RowsOwned, At
      <4> QED BY <2>1, <4>1, <4>2
    <3>2. projects' = projects /\ rows' = rows
      BY <2>1
    <3> QED BY <3>1, <3>2 DEF RInv, RowsOwned, At
  <2> QED BY <2>1, <2>3, <2>4 DEF RInv, RowTypes
<1>8. CASE UNCHANGED api
  BY <1>8 DEF api, RInv, Keyed, RowTypes, RowsOwned, At, RowOf
<1>9. ASSUME NEW r \in Request, Break(r) PROVE RInv'
  <2>1. UNCHANGED <<tenants, projects, rows>>
    BY <1>9 DEF Break
  <2> QED BY <1>9, <2>1, BreakMoves, OneRequestLinked DEF RInv, RowTypes
<1> QED BY <1>1, <1>2, <1>3, <1>4, <1>5, <1>6, <1>7, <1>8, <1>9, WriteLinks,
           WriteSpansLinks DEF Next, Serve

\* Every stored row is in a project that exists and is its tenant's, and spans are under
\* a trace of theirs, also when two processes add a project for a tenant at once or a
\* request fails between its statements; every confirmed batch is stored for its tenant
\* (store_pg.py:45-57, tenancy.py:297-305).
THEOREM TenantsKeepTheirRows == Spec \/ CloudSpec => []RowsOwned
<1>1. RInv => RowsOwned
  BY DEF RInv
<1> QED BY <1>1, InitAInv, NextAInv, InitRInv, NextRInv, StepsOfTheApi, PTL

-----------------------------------------------------------------------------
(* The queue and the workers. *)

Message == Request \cup Foreign

\* What a worker has in hand was sent, and a job that it is done with is handled.
Carried == \A k \in WorkerTask :
  /\ task[k].at \in {"process", "settle"} => task[k].msg \in jobs
  /\ task[k].at = "settle" /\ message[task[k].msg].body = "job"
       => outcome[task[k].msg] = "handled"

\* Nothing but a job that was sent is handled, so that no later worker finds it dropped.
OnlyJobs == \A m \in Message :
  outcome[m] = "handled" => m \in jobs /\ message[m].body = "job"

QInv == Q!TypeOK /\ Carried /\ OnlyJobs /\ Q!DeletedWasHandled

Tasks == [at : {"poll", "process", "settle", "exited"},
          msg : Message \cup {None}, running : BOOLEAN]
Messages == [in : {"queue", "flight", "dead", "deleted", "expired"},
             receives : 0..MaxReceive, body : Q!Body]

\* Nothing is in hand, handled or deleted before the first job.
LEMMA InitQInv == CloudInit => QInv
BY QueueAssumption
   DEF CloudInit, Init, Q!Init, QInv, Q!TypeOK, Q!Body, Carried, OnlyJobs,
       Q!DeletedWasHandled, Message

\* A step of one worker that leaves the messages' outcomes alone and takes nothing on.
LEMMA OneTaskMoves ==
  ASSUME QInv, NEW k \in WorkerTask, NEW t \in Tasks,
         task' = [task EXCEPT ![k] = t],
         t.at \in {"process", "settle"} => t.msg \in jobs,
         t.at = "settle" /\ message[t.msg].body = "job" => outcome[t.msg] = "handled",
         message' \in [Message -> Messages],
         \A m \in Message : message'[m].body = message[m].body,
         \A m \in Message : message'[m].in = "deleted" => outcome[m] = "handled",
         stops' \in 0..MaxStops,
         UNCHANGED <<jobs, outcome>>
  PROVE  QInv'
<1>1. task' \in [WorkerTask -> Tasks]
  BY DEF QInv, Q!TypeOK, Tasks, Message
<1>2. Q!TypeOK'
  BY <1>1 DEF QInv, Q!TypeOK, Tasks, Message, Messages
<1>3. jobs \subseteq Message
  BY DEF QInv, Q!TypeOK, Message
<1>4. Carried'
  <2> SUFFICES ASSUME NEW j \in WorkerTask
               PROVE  /\ task'[j].at \in {"process", "settle"} => task'[j].msg \in jobs
                      /\ task'[j].at = "settle" /\ message'[task'[j].msg].body = "job"
                           => outcome[task'[j].msg] = "handled"
    BY DEF Carried
  <2>1. task'[j] = IF j = k THEN t ELSE task[j]
    BY DEF QInv, Q!TypeOK
  <2>2. /\ task'[j].at \in {"process", "settle"} => task'[j].msg \in jobs
        /\ task'[j].at = "settle" /\ message[task'[j].msg].body = "job"
             => outcome[task'[j].msg] = "handled"
    BY <2>1 DEF QInv, Carried
  <2> QED BY <1>3, <2>2
<1>5. OnlyJobs'
  BY DEF QInv, OnlyJobs
<1> QED BY <1>2, <1>4, <1>5 DEF QInv, Q!DeletedWasHandled, Message

\* Every step keeps the messages' outcomes and where they are in step.
LEMMA NextQInv == QInv /\ [CloudNext]_cloud => QInv'
<1> SUFFICES ASSUME QInv, [CloudNext]_cloud PROVE QInv'
  OBVIOUS
<1>0. /\ task \in [WorkerTask -> Tasks] /\ message \in [Message -> Messages]
      /\ stops \in 0..MaxStops /\ jobs \subseteq Message
  BY DEF QInv, Q!TypeOK, Tasks, Messages, Message
<1>1. ASSUME jobs \subseteq jobs', jobs' \subseteq Message, UNCHANGED queue PROVE QInv'
  BY <1>1 DEF queue, QInv, Q!TypeOK, Carried, OnlyJobs, Q!DeletedWasHandled, Message
<1>2. CASE Next /\ UNCHANGED queue
  <2>1. jobs' = jobs \/ \E r \in Request : jobs' = jobs \cup {r}
    BY <1>2 DEF Next, Serve, Arrive, GiveUp, Fail, Break, Crash, TakeLock, GetConn, Find,
                Mint, Enroll, EnrollTaken, IssueToken, ApiKey, Resolve, Look, Add, Write,
                WriteSpans, Read, Check, Send
  <2> QED BY <1>0, <1>1, <1>2, <2>1 DEF Message
<1>3. CASE Q!SendFrom(Foreign)
  <2>1. PICK m \in Foreign \ jobs, body \in Q!Body :
          /\ jobs' = jobs \cup {m} /\ message' = [message EXCEPT ![m].body = body]
          /\ UNCHANGED <<outcome, task, stops>>
    BY <1>3 DEF Q!SendFrom
  <2>2. m \in Message /\ jobs' \subseteq Message
    BY <1>0, <2>1 DEF Message
  <2>3. /\ message' \in [Message -> Messages] /\ message'[m].in = message[m].in
        /\ \A n \in Message : n # m => message'[n] = message[n]
    <3>1. /\ message'[m] = [message[m] EXCEPT !.body = body] /\ message[m] \in Messages
          /\ \A n \in Message : n # m => message'[n] = message[n]
      BY <1>0, <2>1, <2>2
    <3>2. message'[m] \in Messages /\ message'[m].in = message[m].in
      BY <3>1 DEF Messages
    <3> QED BY <1>0, <2>1, <3>1, <3>2
  <2>4. Q!TypeOK'
    BY <2>1, <2>2, <2>3 DEF QInv, Q!TypeOK, Messages, Message
  <2>5. Carried'
    BY <1>0, <2>1, <2>3 DEF QInv, Carried
  <2>6. OnlyJobs'
    BY <1>0, <2>1, <2>3 DEF QInv, OnlyJobs
  <2>7. Q!DeletedWasHandled'
    BY <2>1, <2>2, <2>3 DEF QInv, Q!DeletedWasHandled, Message
  <2> QED BY <2>4, <2>5, <2>6, <2>7 DEF QInv
<1>4. ASSUME NEW k \in WorkerTask, Q!Receive(k) PROVE QInv'
  <2>1. PICK m \in jobs :
          /\ message[m].receives < MaxReceive
          /\ message' = [message EXCEPT ![m].in = "flight", ![m].receives = @ + 1]
          /\ task' = [task EXCEPT ![k].at = "process", ![k].msg = m]
          /\ UNCHANGED <<jobs, outcome, stops>>
    BY <1>4 DEF Q!Receive
  <2> DEFINE t == [[task[k] EXCEPT !.at = "process"] EXCEPT !.msg = m]
  <2>2. task[k] \in Tasks /\ m \in Message /\ message[m] \in Messages
    BY <1>0
  <2>3. t \in Tasks /\ t.at = "process" /\ t.msg = m
    BY <2>2 DEF Tasks
  <2>4. task' = [task EXCEPT ![k] = t]
    BY <1>0, <2>1
  <2>5. /\ message'[m].in = "flight" /\ message'[m] \in Messages
        /\ message'[m].body = message[m].body
    BY <1>0, <2>1, <2>2, QueueAssumption DEF Messages
  <2>6. /\ message' \in [Message -> Messages]
        /\ \A n \in Message : n # m => message'[n] = message[n]
    BY <1>0, <2>1, <2>2, <2>5
  <2>7. \A n \in Message : message'[n].in = "deleted" => outcome[n] = "handled"
    BY <2>5, <2>6 DEF QInv, Q!DeletedWasHandled, Message
  <2>8. \A n \in Message : message'[n].body = message[n].body
    BY <2>5, <2>6
  <2>9. t \in Tasks /\ t.at # "settle" /\ t.msg \in jobs
    BY <2>1, <2>3
  <2>10. stops' \in 0..MaxStops /\ UNCHANGED <<jobs, outcome>>
    BY <1>0, <2>1
  <2> HIDE DEF t
  <2> QED BY <2>4, <2>6, <2>7, <2>8, <2>9, <2>10, OneTaskMoves
<1>5. ASSUME NEW k \in WorkerTask, Q!Process(k) PROVE QInv'
  <2> DEFINE m == task[k].msg
  <2>1. PICK result \in {"handled", "dropped", "raised"}, to \in {"settle", "poll"} :
          /\ result = "handled" <=> message[m].body = "job"
          /\ outcome' = [outcome EXCEPT ![m] = result]
          /\ \/ to = "settle" /\ task' = [task EXCEPT ![k].at = "settle"]
             \/ to = "poll" /\ task' = [task EXCEPT ![k].at = "poll", ![k].msg = None]
    <3>1. m \in Message /\ message[m].body \in {"job", "notJson", "notObject"}
      BY <1>0, <1>5 DEF Q!Process, QInv, Carried, Messages, Q!Body
    <3>2. CASE message[m].body = "job"
      BY <1>5, <3>2 DEF Q!Process
    <3>3. CASE message[m].body = "notJson"
      BY <1>5, <3>3 DEF Q!Process
    <3>4. CASE message[m].body = "notObject"
      BY <1>5, <3>4 DEF Q!Process
    <3> QED BY <3>1, <3>2, <3>3, <3>4
  <2>2. /\ task[k].at = "process" /\ m \in jobs /\ m \in Message /\ task[k] \in Tasks
        /\ UNCHANGED <<jobs, message, stops>>
    BY <1>0, <1>5 DEF Q!Process, QInv, Carried
  <2>3. /\ outcome'[m] = result
        /\ \A n \in Message : n # m => outcome'[n] = outcome[n]
        /\ outcome' \in [Message -> {"none", "handled", "dropped", "raised"}]
    BY <2>1, <2>2 DEF QInv, Q!TypeOK, Message
  <2>4. \A n \in Message : outcome[n] = "handled" => outcome'[n] = "handled"
    BY <2>1, <2>3 DEF QInv, OnlyJobs
  <2>5. OnlyJobs'
    BY <2>1, <2>2, <2>3 DEF QInv, OnlyJobs
  <2>6. /\ task'[k] \in Tasks /\ task'[k].at = to /\ (to = "settle" => task'[k].msg = m)
        /\ \A j \in WorkerTask : j # k => task'[j] = task[j]
    <3>1. \A j \in WorkerTask : j # k => task'[j] = task[j]
      BY <1>0, <2>1
    <3>2. CASE to = "settle"
      <4>1. task'[k] = [task[k] EXCEPT !.at = "settle"]
        BY <1>0, <2>1, <3>2
      <4> QED BY <2>2, <3>1, <3>2, <4>1 DEF Tasks
    <3>3. CASE to = "poll"
      <4>1. task'[k] = [[task[k] EXCEPT !.at = "poll"] EXCEPT !.msg = None]
        BY <1>0, <2>1, <3>3
      <4> QED BY <2>2, <3>1, <3>3, <4>1 DEF Tasks
    <3> QED BY <2>1, <3>2, <3>3
  <2>7. task' \in [WorkerTask -> Tasks]
    BY <1>0, <2>1, <2>6
  <2>8. Carried'
    <3> SUFFICES ASSUME NEW j \in WorkerTask
                 PROVE  /\ task'[j].at \in {"process", "settle"} => task'[j].msg \in jobs
                        /\ task'[j].at = "settle" /\ message[task'[j].msg].body = "job"
                             => outcome'[task'[j].msg] = "handled"
      BY <2>2 DEF Carried
    <3>1. CASE j = k
      BY <2>1, <2>2, <2>3, <2>6, <3>1
    <3>2. CASE j # k
      BY <1>0, <2>4, <2>6, <3>2 DEF QInv, Carried
    <3> QED BY <3>1, <3>2
  <2>9. Q!TypeOK'
    BY <2>2, <2>3, <2>7 DEF QInv, Q!TypeOK, Tasks, Message
  <2>10. Q!DeletedWasHandled'
    BY <2>2, <2>4 DEF QInv, Q!DeletedWasHandled, Message
  <2> QED BY <2>5, <2>8, <2>9, <2>10 DEF QInv
<1>6. ASSUME NEW k \in WorkerTask, Q!Settle(k) PROVE QInv'
  <2> DEFINE m == task[k].msg
             t == [[task[k] EXCEPT !.at = "poll"] EXCEPT !.msg = None]
  <2>1. /\ task[k].at = "settle"
        /\ \/ message' = message
           \/ message[m].body = "job" /\ message' = [message EXCEPT ![m].in = "deleted"]
        /\ task' = [task EXCEPT ![k].at = "poll", ![k].msg = None]
        /\ UNCHANGED <<jobs, outcome, stops>>
    BY <1>6 DEF Q!Settle, Q!Deletes
  <2>2. /\ m \in Message /\ task[k] \in Tasks
        /\ message[m].body = "job" => outcome[m] = "handled"
    BY <1>0, <2>1 DEF QInv, Carried
  <2>3. t \in Tasks /\ t.at = "poll"
    BY <2>2 DEF Tasks
  <2>4. task' = [task EXCEPT ![k] = t]
    BY <1>0, <2>1
  <2>5. /\ message'[m] \in Messages /\ message'[m].body = message[m].body
        /\ message'[m].in = "deleted" => outcome[m] = "handled"
    <3>1. CASE message' = message
      BY <1>0, <2>2, <3>1 DEF QInv, Q!DeletedWasHandled, Message
    <3>2. CASE message[m].body = "job" /\ message' = [message EXCEPT ![m].in = "deleted"]
      <4>1. message'[m] = [message[m] EXCEPT !.in = "deleted"] /\ message[m] \in Messages
        BY <1>0, <2>2, <3>2
      <4> QED BY <2>2, <3>2, <4>1 DEF Messages
    <3> QED BY <2>1, <3>1, <3>2
  <2>6. \A n \in Message : n # m => message'[n] = message[n]
    BY <1>0, <2>1, <2>2
  <2>7. message' \in [Message -> Messages]
    BY <1>0, <2>1, <2>5, <2>6
  <2>8. /\ \A n \in Message : message'[n].in = "deleted" => outcome[n] = "handled"
        /\ \A n \in Message : message'[n].body = message[n].body
    BY <2>5, <2>6 DEF QInv, Q!DeletedWasHandled, Message
  <2> HIDE DEF t
  <2> QED BY <1>0, <2>1, <2>3, <2>4, <2>7, <2>8, OneTaskMoves
<1>7. ASSUME NEW k \in WorkerTask, Q!Exit(k) \/ Q!Stop(k) \/ Q!Kill(k) \/ Q!StartTask(k)
      PROVE  QInv'
  <2>1. UNCHANGED <<jobs, message, outcome>>
    BY <1>7 DEF Q!Exit, Q!Stop, Q!Kill, Q!StartTask, Q!MayStop
  <2>2. stops' \in 0..MaxStops
    BY <1>0, <1>7, QueueAssumption DEF Q!Exit, Q!Stop, Q!Kill, Q!StartTask, Q!MayStop
  <2>3. PICK t \in Tasks :
          /\ task' = [task EXCEPT ![k] = t]
          /\ t.at \in {"process", "settle"} => t.at = task[k].at /\ t.msg = task[k].msg
    <3>0. task[k] \in Tasks
      BY <1>0
    <3>1. CASE Q!Exit(k)
      <4> DEFINE t == [task[k] EXCEPT !.at = "exited"]
      <4>1. task' = [task EXCEPT ![k] = t]
        BY <1>0, <3>1 DEF Q!Exit
      <4>2. t \in Tasks /\ t.at = "exited"
        BY <3>0 DEF Tasks
      <4> QED BY <4>1, <4>2
    <3>2. CASE Q!Stop(k)
      <4> DEFINE t == [task[k] EXCEPT !.running = FALSE]
      <4>1. task' = [task EXCEPT ![k] = t]
        BY <1>0, <3>2 DEF Q!Stop
      <4>2. t \in Tasks /\ t.at = task[k].at /\ t.msg = task[k].msg
        BY <3>0 DEF Tasks
      <4> QED BY <4>1, <4>2
    <3>3. CASE Q!Kill(k)
      <4> DEFINE t == [at |-> "exited", msg |-> None, running |-> FALSE]
      <4>1. task' = [task EXCEPT ![k] = t]
        BY <3>3 DEF Q!Kill
      <4>2. t \in Tasks /\ t.at = "exited"
        BY DEF Tasks
      <4> QED BY <4>1, <4>2
    <3>4. CASE Q!StartTask(k)
      <4> DEFINE t == [at |-> "poll", msg |-> None, running |-> TRUE]
      <4>1. task' = [task EXCEPT ![k] = t]
        BY <3>4 DEF Q!StartTask
      <4>2. t \in Tasks /\ t.at = "poll"
        BY DEF Tasks
      <4> QED BY <4>1, <4>2
    <3> QED BY <1>7, <3>1, <3>2, <3>3, <3>4
  <2>4. /\ t.at \in {"process", "settle"} => t.msg \in jobs
        /\ t.at = "settle" /\ message[t.msg].body = "job" => outcome[t.msg] = "handled"
    BY <2>3 DEF QInv, Carried
  <2>5. \A n \in Message : message'[n].in = "deleted" => outcome[n] = "handled"
    BY <2>1 DEF QInv, Q!DeletedWasHandled, Message
  <2> QED BY <1>0, <2>1, <2>2, <2>3, <2>4, <2>5, OneTaskMoves
<1>8. ASSUME NEW m \in Message, Q!Reappear(m) \/ Q!Expire(m) PROVE QInv'
  <2>1. PICK in \in {"dead", "queue", "expired"} : message' = [message EXCEPT ![m].in = in]
    BY <1>8 DEF Q!Reappear, Q!Expire
  <2>2. UNCHANGED <<jobs, outcome, task>> /\ stops' \in 0..MaxStops
    BY <1>0, <1>8, QueueAssumption DEF Q!Reappear, Q!Expire, Q!MayStop
  <2>3. /\ message'[m].in # "deleted" /\ message'[m] \in Messages
        /\ message'[m].body = message[m].body
    <3>1. message'[m] = [message[m] EXCEPT !.in = in] /\ message[m] \in Messages
      BY <1>0, <2>1
    <3> QED BY <2>1, <3>1 DEF Messages
  <2>4. \A n \in Message : n # m => message'[n] = message[n]
    BY <1>0, <2>1
  <2>5. message' \in [Message -> Messages]
    BY <1>0, <2>1, <2>3, <2>4
  <2>6. Q!DeletedWasHandled'
    BY <2>2, <2>3, <2>4 DEF QInv, Q!DeletedWasHandled, Message
  <2>7. Q!TypeOK'
    BY <2>2, <2>5 DEF QInv, Q!TypeOK, Messages, Message
  <2>8. Carried' /\ OnlyJobs'
    BY <1>0, <2>2, <2>3, <2>4 DEF QInv, Carried, OnlyJobs
  <2> QED BY <2>6, <2>7, <2>8 DEF QInv
<1>9. CASE UNCHANGED cloud
  BY <1>0, <1>1, <1>9 DEF cloud, vars
<1> QED BY <1>2, <1>3, <1>4, <1>5, <1>6, <1>7, <1>8, <1>9
        DEF CloudNext, Q!Next, Q!Work, Message

\* A replay job, or a message of unknown origin, leaves the queue only after a worker has
\* handled it, for any number of jobs, workers, redeliveries, kills and stops
\* (worker.py:107-118).
THEOREM HandledBeforeDeleted == CloudSpec => []DeletedWasHandled
<1>1. QInv => DeletedWasHandled
  BY DEF QInv, DeletedWasHandled
<1>2. CloudSpec => CloudInit /\ [][CloudNext]_cloud
  BY DEF CloudSpec
<1> QED BY <1>1, <1>2, InitQInv, NextQInv, PTL

-----------------------------------------------------------------------------
(* Everything stays in its set, and all connections and locks are accounted for. *)

\* The bounded counters of failures and crashes.
Counters == errors \in 0..MaxErrors /\ crashes \in 0..MaxCrashes

\* Only failures and crashes are counted, and each up to its bound.
LEMMA CountersBounded ==
  /\ Init => Counters
  /\ Counters /\ [Next]_api => Counters'
<1>1. Init => Counters
  BY CloudAssumption DEF Init, Counters
<1>2. ASSUME Counters, [Next]_api PROVE Counters'
  <2>1. CASE errors' = errors /\ crashes' = crashes
    BY <1>2, <2>1 DEF Counters
  <2>2. ASSUME NEW r \in Request, Fail(r) \/ Break(r) PROVE Counters'
    BY <1>2, <2>2, CloudAssumption DEF Fail, Break, Counters
  <2>3. ASSUME NEW w \in Worker, Crash(w) PROVE Counters'
    <3>1. crashes < MaxCrashes /\ crashes' = crashes + 1 /\ errors' = errors
      BY <2>3 DEF Crash
    <3>2. MaxCrashes \in Nat
      BY CloudAssumption
    <3> QED BY <1>2, <3>1, <3>2 DEF Counters
  <2>4. [Next]_api => \/ errors' = errors /\ crashes' = crashes
                      \/ \E r \in Request : Fail(r) \/ Break(r)
                      \/ \E w \in Worker : Crash(w)
    BY DEF Next, Serve, Arrive, GiveUp, TakeLock, GetConn, Find, Mint, Enroll, EnrollTaken,
           IssueToken, ApiKey, Resolve, Look, Add, Write, WriteSpans, Read, Check, Send, api
  <2> QED BY <1>2, <2>1, <2>2, <2>3, <2>4
<1> QED BY <1>1, <1>2

\* What the invariants say together about the sets the fields are in.
LEMMA TypesAndPools ==
  ASSUME AInv, PInv, Excused, RInv, Counters
  PROVE  TypeOK /\ PoolBalanced
<1>1. ASSUME NEW w \in Worker
      PROVE  /\ free[w] \in 0..PoolMax
             /\ free[w] + Cardinality(lost[w]) + Cardinality(Lent(w)) = PoolMax
  <2>1. /\ IsFiniteSet(Lent(w)) /\ IsFiniteSet(lost[w]) /\ free[w] \in Nat
        /\ free[w] + Cardinality(lost[w]) + Cardinality(Lent(w)) = PoolMax
    BY DEF PInv, Counted, Counts, PoolTypes
  <2>2. Cardinality(Lent(w)) \in Nat /\ Cardinality(lost[w]) \in Nat
    BY <2>1, FS_CardinalityType
  <2> QED BY <2>1, <2>2, CloudAssumption
<1>2. free \in [Worker -> 0..PoolMax] /\ lost \in [Worker -> SUBSET Request]
  BY <1>1 DEF PInv, PoolTypes
<1>3. req \in [Request ->
       [kind : Kind \cup {"none"}, at : Control \cup Store \cup Answer \cup {"idle", "send", "token"},
        has : SUBSET {"lock", "conn"},
        worker : Worker \cup {None}, tenant : Tenant \cup {None},
        project : Request \cup {None}]]
  BY DEF AInv, Shape, Requests, Places
<1>4. TypeOK
  BY <1>2, <1>3 DEF TypeOK, AInv, Shape, PInv, PoolTypes, RInv, RowTypes, Counters
<1>5. ASSUME NEW w \in Worker, lock[w] # None
      PROVE  lock[w] \in ServedOn(w) /\ Holds(lock[w], "lock")
  <2>1. lock[w] \in Request /\ On(lock[w]) = w /\ Holds(lock[w], "lock")
    BY <1>5 DEF PInv, Locked, Noted
  <2>2. ~Answered(lock[w])
    BY <2>1, HoldersAreServed DEF Holds
  <2> QED BY <2>1, <2>2 DEF ServedOn
<1>6. PoolBalanced
  BY <1>1, <1>5 DEF PoolBalanced, Lent, Excused, LostTo, User
<1> QED BY <1>4, <1>6

\* In the deployment every field stays in its set, and through failing queries, broken
\* connections, timeouts and crashes every connection is in its process's pool, with a
\* request, or lost to a signup that registered or to a control query whose connection
\* broke, one to each; a control lock is with a request that uses it; whatever the number
\* of processes, connections, requests and workers (tenancy.py:62-86, :145-186).
THEOREM NothingLeaksElsewhere == CloudSpec => []ResourcesAccounted
<1>1. AInv /\ PInv /\ Excused /\ RInv /\ Counters /\ QInv => ResourcesAccounted
  BY TypesAndPools DEF ResourcesAccounted, QInv
<1>2. CloudSpec => CloudInit /\ [][CloudNext]_cloud
  BY DEF CloudSpec
<1> QED BY <1>1, <1>2, InitAInv, NextAInv, InitPInv, NextPInv, InitExcused, NextExcused,
           InitRInv, NextRInv, CountersBounded, InitQInv, NextQInv, StepsOfTheApi, PTL

\* A process's control lock is held by one request at most, and by none that has its
\* answer (tenancy.py:222-230).
LockExclusive == \A r, s \in Request :
  Holds(r, "lock") /\ Holds(s, "lock") /\ On(r) = On(s) => r = s /\ ~Answered(r)

THEOREM OneLockHolder == Spec \/ CloudSpec => []LockExclusive
<1>1. AInv /\ PInv => LockExclusive
  BY HoldersAreServed DEF PInv, Locked, Holds, LockExclusive
<1> QED BY <1>1, InitAInv, NextAInv, InitPInv, NextPInv, InitExcused, NextExcused,
           StepsOfTheApi, PTL

================================================================================
