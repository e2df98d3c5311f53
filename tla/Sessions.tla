-------------------------------- MODULE Sessions --------------------------------
(***************************************************************************)
(* The tokens of the cloud API: sessions and share links signed with the   *)
(* server's secret (cloud/api/auth.py), or sessions signed by a Cognito    *)
(* user pool, whose keys each process caches (auth_cognito.py).  Several   *)
(* threads of several processes check them, while time passes, processes   *)
(* restart and the pool, which is external, replaces its keys.             *)
(***************************************************************************)
EXTENDS Nothing, Naturals, FiniteSets

CONSTANTS
  Worker, Thread,         \* API processes, requests that carry a token
  PoolKey,                \* keys of the pool
  JwksTTL,                \* how long a process keeps the pool's keys
  SessionTTL, ShareTTL,   \* how long tokens are valid
  MaxNow, MaxRestarts, MaxTokens   \* bounds

VARIABLES
  env,        \* STETHOSCOPE_AUTH=cognito? STETHOSCOPE_JWT_SECRET given?
  now,
  secret,     \* _JWT_SECRET of each process: <<>> the given one, others are random
  tokens,     \* that were issued
  pool,       \* keys the pool publishes
  withdrawn,  \* history: when it withdrew a key
  cache,      \* _jwks_cache of each process
  jwksLock,   \* the thread that holds _jwks_lock of each process
  check,      \* the request of each thread: its token, and where it is or its answer
  restarts

sessionVars == <<env, now, secret, tokens, pool, withdrawn, cache, jwksLock, check, restarts>>

Empty   == [at |-> None, keys |-> {}]
NoCheck == [at |-> "idle", worker |-> None, token |-> None, since |-> None, failed |-> FALSE]

\* Mutant: the given secret is not looked at.
LoadSecretRandom(w, boots) == <<w, boots>>

\* _load_jwt_secret, of a process that starts: a random one is like no other.
LoadSecret(w, boots) == IF env.secret THEN <<>> ELSE <<w, boots>>

SessionInit ==
  /\ env \in [cognito : BOOLEAN, secret : BOOLEAN]
  /\ now = 0
  /\ secret = [w \in Worker |-> LoadSecret(w, 0)]
  /\ tokens = {} /\ pool = {CHOOSE k \in PoolKey : TRUE}
  /\ withdrawn = [k \in PoolKey |-> None]
  \* Processes may have asked for the keys already.
  /\ cache \in [Worker -> {Empty} \cup IF env.cognito THEN {[at |-> 0, keys |-> pool]} ELSE {}]
  /\ jwksLock = [w \in Worker |-> None]
  /\ check = [t \in Thread |-> NoCheck] /\ restarts = 0

-----------------------------------------------------------------------------
(* Issuing *)

Issue(kind, signer, ttl) ==
  /\ Cardinality(tokens) < MaxTokens
  /\ tokens' = tokens \cup {[kind |-> kind, signer |-> signer, exp |-> now + ttl]}
  /\ UNCHANGED <<env, now, secret, pool, withdrawn, cache, jwksLock, check, restarts>>

IssueJwt(w)        == ~env.cognito /\ Issue("session", secret[w], SessionTTL)
IssueShareToken(w) == Issue("share", secret[w], ShareTTL)
PoolIssues(k)      == env.cognito /\ k \in pool /\ Issue("session", k, SessionTTL)

-----------------------------------------------------------------------------
(* Checking *)

Answers(t, code) == check' = [check EXCEPT ![t].at = code]
Expired(token)   == now >= token.exp

\* The signature comes first, then the time.
VerifyJwt(w, token)        == IF token.signer = secret[w] /\ ~Expired(token) THEN "200" ELSE "401"
VerifyShareToken(w, token) == IF token.signer # secret[w] THEN "404"
                              ELSE IF Expired(token) THEN "410" ELSE "200"

\* A request with a token, at a process.  For a session in Cognito's mode the key is asked for.
\* Tokens are shown where they are for.  At the other kind of route they change nothing either:
\* verify_share_token refuses a session; verify_jwt does not ask for the kind (auth.py:122) and
\* passes a share token, on which `me' then fails, or with Cognito misses the name of its key.
Present(t, w, token) ==
  /\ check[t].at = "idle"
  /\ check' = [check EXCEPT ![t] = [NoCheck EXCEPT !.worker = w, !.token = token, !.at =
       IF token.kind = "share" THEN VerifyShareToken(w, token)
       ELSE IF env.cognito THEN "lock" ELSE VerifyJwt(w, token)]]
  /\ UNCHANGED <<env, now, secret, tokens, pool, withdrawn, cache, jwksLock, restarts>>

\* What verify_cognito_jwt says once it has the keys.
Verdict(t, keys) == IF check[t].token.signer \in keys /\ ~Expired(check[t].token) THEN "200" ELSE "401"

\* Mutant of _get_jwk's condition: the cache is good as long as it has the key.
StaleByKeyOnly(w, k) == cache[w].at = None \/ k \notin cache[w].keys

Stale(w, k) == cache[w].at = None \/ now - cache[w].at > JwksTTL \/ k \notin cache[w].keys

\* _get_jwk under its lock: from the cache, or else a call of the pool begins.
GetJwk(t) ==
  LET w == check[t].worker
  IN  /\ check[t].at = "lock" /\ jwksLock[w] = None
      /\ IF Stale(w, check[t].token.signer)
         THEN /\ jwksLock' = [jwksLock EXCEPT ![w] = t]
              /\ check' = [check EXCEPT ![t].at = "fetch", ![t].since = now]
         ELSE Answers(t, Verdict(t, cache[w].keys)) /\ UNCHANGED jwksLock
      /\ UNCHANGED <<env, now, secret, tokens, pool, withdrawn, cache, restarts>>

FetchJwks(t) ==
  LET w == check[t].worker
  IN  /\ check[t].at = "fetch"
      /\ cache' = [cache EXCEPT ![w] = [at |-> check[t].since, keys |-> pool]]
      /\ jwksLock' = [jwksLock EXCEPT ![w] = None]
      /\ Answers(t, Verdict(t, pool))
      /\ UNCHANGED <<env, now, secret, tokens, pool, withdrawn, restarts>>

\* urlopen raises, after five seconds at most: 401.
FetchFails(t) ==
  /\ check[t].at = "fetch"
  /\ jwksLock' = [jwksLock EXCEPT ![check[t].worker] = None]
  /\ check' = [check EXCEPT ![t].at = "401", ![t].failed = TRUE]
  /\ UNCHANGED <<env, now, secret, tokens, pool, withdrawn, cache, restarts>>

Leave(t) ==
  /\ check[t].at \in {"200", "401", "404", "410"}
  /\ check' = [check EXCEPT ![t] = NoCheck]
  /\ UNCHANGED <<env, now, secret, tokens, pool, withdrawn, cache, jwksLock, restarts>>

-----------------------------------------------------------------------------
(* Around it.  Answers are seen before time goes on; a call of the pool is over within *)
(* a unit of time.                                                                     *)

Tick ==
  /\ now < MaxNow
  /\ \A t \in Thread : check[t].at \in {"idle", "lock"} \/ (check[t].at = "fetch" /\ check[t].since = now)
  /\ now' = now + 1
  /\ UNCHANGED <<env, secret, tokens, pool, withdrawn, cache, jwksLock, check, restarts>>

Publish(k) ==
  /\ env.cognito /\ k \notin pool /\ withdrawn[k] = None
  /\ pool' = pool \cup {k}
  /\ UNCHANGED <<env, now, secret, tokens, withdrawn, cache, jwksLock, check, restarts>>

Withdraw(k) ==
  /\ env.cognito /\ k \in pool /\ pool # {k}
  /\ pool' = pool \ {k} /\ withdrawn' = [withdrawn EXCEPT ![k] = now]
  /\ UNCHANGED <<env, now, secret, tokens, cache, jwksLock, check, restarts>>

\* A redeploy: its requests are gone.
Restart(w) ==
  /\ restarts < MaxRestarts /\ restarts' = restarts + 1
  /\ secret' = [secret EXCEPT ![w] = LoadSecret(w, restarts + 1)]
  /\ cache' = [cache EXCEPT ![w] = Empty] /\ jwksLock' = [jwksLock EXCEPT ![w] = None]
  /\ check' = [t \in Thread |-> IF check[t].worker = w THEN NoCheck ELSE check[t]]
  /\ UNCHANGED <<env, now, tokens, pool, withdrawn>>

SessionNext ==
  \/ \E w \in Worker : \/ IssueJwt(w) \/ IssueShareToken(w) \/ Restart(w)
                       \/ \E t \in Thread, token \in tokens : Present(t, w, token)
  \/ \E k \in PoolKey : PoolIssues(k) \/ Publish(k) \/ Withdraw(k)
  \/ \E t \in Thread : GetJwk(t) \/ FetchJwks(t) \/ FetchFails(t) \/ Leave(t)
  \/ Tick

SessionSpec == SessionInit /\ [][SessionNext]_sessionVars

-----------------------------------------------------------------------------
(* Properties *)

\* With a secret from the environment, which production must have because an ephemeral
\* one `would invalidate every session on each Fargate redeploy' (auth.py:40-45): whatever
\* process answers, and however often it was restarted, a session the server issued is
\* refused, and a share link called expired, only when its time is over.
TokensOutliveRestarts ==
  env.secret => \A t \in Thread :
    LET c == check[t]
    IN  c.at \in {"200", "401", "404", "410"} /\ (c.token.kind = "session" => ~env.cognito) =>
          c.at = IF ~Expired(c.token) THEN "200" ELSE IF c.token.kind = "share" THEN "410" ELSE "401"

\* The pool's keys are cached, but a session signed with a key that was added since is not
\* refused for that: only when its time is over, the pool could not be asked, or its key was
\* withdrawn (auth_cognito.py:53-64).
NewKeysAreAccepted ==
  \A t \in Thread :
    check[t].at = "401" /\ check[t].token.signer \in PoolKey =>
      \/ Expired(check[t].token) \/ check[t].failed
      \/ withdrawn[check[t].token.signer] # None

\* Whoever signed it, a token is good for as long as it was meant to be.
GoodTokensPass == TokensOutliveRestarts /\ NewKeysAreAccepted

\* No session passes for longer than the cache may be kept after its key was withdrawn,
\* whatever a thread waited for the lock and however slow or unreachable the pool was.
WithdrawnKeysFade ==
  \A t \in Thread :
    check[t].at = "200" /\ check[t].token.signer \in PoolKey =>
      LET gone == withdrawn[check[t].token.signer] IN gone = None \/ now - gone <= JwksTTL
================================================================================
