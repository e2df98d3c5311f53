----------------------------- MODULE CloudPartsProofs -----------------------------
(***************************************************************************)
(* Two parts of the cloud API that share no state.  Payloads come back as  *)
(* they were sent, for every set of requests and spans, whatever fails, is *)
(* retried, replaced, archived or expired.  Tokens are accepted as long as *)
(* they should be and no longer, for every number of processes, threads,   *)
(* keys and tokens, however often processes restart and the user pool      *)
(* replaces its keys.                                                      *)
(***************************************************************************)
EXTENDS PayloadStore, Sessions, TLAPS

-----------------------------------------------------------------------------
(* Payloads *)

\* No object is named None.
Named == \A d, f : None # <<d, f>>

\* A value that stands for what delivery d sent as f: itself, or an object that has it or
\* had it before it grew old.
StandsFor(v, d, f) ==
  \/ v = Inline(Sent(d, f))
  \/ v = Ref(<<d, f>>) /\ <<d, f>> \in DOMAIN objects \cup aged

\* What the bucket, the values saved for the next row and the rows hold.
Kept(o)  == \E d, f : o = <<d, f>> /\ objects[o] = Sent(d, f)
Saved(d) == \A f \in DOMAIN held[d] : StandsFor(held[d][f], d, f)
Row(k)   == /\ rows[k].by \in Delivery
            /\ \A f \in DOMAIN rows[k].val : StandsFor(rows[k].val[f], rows[k].by, f)

\* What a reader has and what it still has to fetch.
Reading ==
  /\ \A x \in reader.got : x.c = Sent(x.by, x.field)
  /\ \A x \in reader.left : x.by \in Delivery /\ ToFetch(x.val) /\ StandsFor(x.val, x.by, x.field)
  /\ reader.at = "failed" => \A x \in reader.left : x.val.ref \in aged \/ x.val.inline # None

PInv ==
  /\ DOMAIN held = Delivery
  /\ DOMAIN reader = {"at", "got", "left"}
  /\ \A o \in DOMAIN objects : Kept(o)
  /\ \A d \in Delivery : Saved(d)
  /\ \A k \in DOMAIN rows : Row(k)
  /\ Reading

-----------------------------------------------------------------------------
\* Nothing is forgotten: what stood for a value still does.
LEMMA Stands ==
  ASSUME export' = export, DOMAIN objects \cup aged \subseteq DOMAIN objects' \cup aged',
         NEW v, NEW d, NEW f, StandsFor(v, d, f)
  PROVE  StandsFor(v, d, f)'
BY DEF StandsFor, Sent, SpanOf

\* A step that only takes objects out of the bucket, or adds some that were sent.
LEMMA BucketKeepsPInv ==
  ASSUME PInv, UNCHANGED <<export, held, rows, reader>>, aged \subseteq aged',
         DOMAIN objects \cup aged \subseteq DOMAIN objects' \cup aged',
         \A o \in DOMAIN objects' : Kept(o)'
  PROVE  PInv'
<1>1. \A d, f : Sent(d, f)' = Sent(d, f)
  BY DEF Sent, SpanOf
<1>2. ASSUME NEW d \in Delivery PROVE Saved(d)'
  BY Stands DEF PInv, Saved
<1>3. ASSUME NEW k \in DOMAIN rows' PROVE Row(k)'
  BY Stands DEF PInv, Row
<1>4. Reading'
  BY <1>1, Stands DEF PInv, Reading
<1> QED BY <1>2, <1>3, <1>4 DEF PInv

\* A value is saved as it is or in a new object.
LEMMA SaveKeepsPInv ==
  ASSUME PInv, NEW d \in Delivery, NEW f \in DOMAIN export[d].size, Save(d, f)
  PROVE  PInv'
<1> DEFINE o == <<d, f>>
<1>1. UNCHANGED <<export, rows, aged, reader>> /\ \A c, g : Sent(c, g)' = Sent(c, g)
  BY DEF Save, Sent, SpanOf
<1>2. PICK v : /\ held' = [held EXCEPT ![d] = Put(held[d], f, v)]
               /\ \/ v = Ref(o) /\ objects' = Put(objects, o, Sent(d, f))
                  \/ v = Inline(Sent(d, f)) /\ objects' = objects
  BY DEF Save
<1>3. /\ \A p \in DOMAIN objects' : Kept(p)'
      /\ DOMAIN objects \cup aged \subseteq DOMAIN objects' \cup aged'
      /\ StandsFor(v, d, f)'
  <2>1. CASE v = Inline(Sent(d, f)) /\ objects' = objects
    <3>1. \A p \in DOMAIN objects' : Kept(p)'
      BY <1>1, <2>1 DEF PInv, Kept
    <3>2. v = Inline(Sent(d, f)')
      BY <1>1, <2>1
    <3> QED BY <1>1, <2>1, <3>1, <3>2 DEF StandsFor
  <2>2. CASE v = Ref(o) /\ objects' = Put(objects, o, Sent(d, f))
    <3>1. /\ DOMAIN objects' = DOMAIN objects \cup {o} /\ objects'[o] = Sent(d, f)
          /\ \A p \in DOMAIN objects : p # o => objects'[p] = objects[p]
      BY <2>2 DEF Put
    <3>2. Kept(o)'
      BY <1>1, <3>1 DEF Kept
    <3>3. ASSUME NEW p \in DOMAIN objects, p # o PROVE Kept(p)'
      BY <1>1, <3>1, <3>3 DEF PInv, Kept
    <3> QED BY <1>1, <2>2, <3>1, <3>2, <3>3 DEF StandsFor
  <2> QED BY <1>2, <2>1, <2>2
<1>4. ASSUME NEW c \in Delivery PROVE Saved(c)'
  <2>1. CASE c # d
    BY <1>1, <1>2, <1>3, <2>1, Stands DEF PInv, Saved
  <2>2. CASE c = d
    <3>1. /\ held'[d] = Put(held[d], f, v) /\ DOMAIN held'[d] = DOMAIN held[d] \cup {f}
          /\ held'[d][f] = v /\ \A g \in DOMAIN held[d] : g # f => held'[d][g] = held[d][g]
      BY <1>2 DEF Put, PInv
    <3> QED BY <1>1, <1>3, <2>2, <3>1, Stands DEF PInv, Saved
  <2> QED BY <2>1, <2>2
<1>5. ASSUME NEW k \in DOMAIN rows' PROVE Row(k)'
  BY <1>1, <1>3, Stands DEF PInv, Row
<1>6. Reading'
  BY <1>1, <1>3, Stands DEF PInv, Reading
<1> QED BY <1>1, <1>2, <1>3, <1>4, <1>5, <1>6 DEF PInv

\* A row takes the values that were saved for it.
LEMMA UpsertKeepsPInv ==
  ASSUME PInv, NEW d \in Delivery, NEW t \in Table, Upsert(d, t)
  PROVE  PInv'
<1> DEFINE k == RowKey(d, t)
<1>1. UNCHANGED <<export, objects, aged, reader>> /\ \A c, g : Sent(c, g)' = Sent(c, g)
  BY DEF Upsert, Sent, SpanOf
<1>2. held' = [held EXCEPT ![d] = <<>>] /\ rows' = Put(rows, k, [by |-> d, val |-> held[d]])
  BY DEF Upsert
<1> HIDE DEF k
<1>3. ASSUME NEW c \in Delivery PROVE Saved(c)'
  <2>1. c # d => held'[c] = held[c]
    BY <1>2
  <2>2. c = d => DOMAIN held'[c] = {}
    BY <1>2 DEF PInv
  <2> QED BY <1>1, <2>1, <2>2, Stands DEF PInv, Saved
<1>4. ASSUME NEW h \in DOMAIN rows' PROVE Row(h)'
  <2>1. DOMAIN rows' = DOMAIN rows \cup {k} /\ rows'[k] = [by |-> d, val |-> held[d]]
        /\ \A g \in DOMAIN rows : g # k => rows'[g] = rows[g]
    BY <1>2 DEF Put
  <2>2. CASE h = k
    <3>1. rows'[h].by = d /\ rows'[h].val = held[d]
      BY <2>1, <2>2
    <3> QED BY <1>1, <3>1, Stands DEF PInv, Saved, Row
  <2>3. CASE h # k
    <3>1. h \in DOMAIN rows /\ rows'[h] = rows[h]
      BY <1>4, <2>1, <2>3
    <3> QED BY <1>1, <3>1, Stands DEF PInv, Row
  <2> QED BY <2>2, <2>3
<1>5. Reading'
  BY <1>1, Stands DEF PInv, Reading
<1>6. \A o \in DOMAIN objects' : Kept(o)'
  BY <1>1 DEF PInv, Kept
<1>7. DOMAIN held' = Delivery
  BY <1>2 DEF PInv
<1> QED BY <1>1, <1>3, <1>4, <1>5, <1>6, <1>7 DEF PInv

\* Steps of the reader.
LEMMA ReaderKeepsPInv ==
  ASSUME PInv, UNCHANGED <<export, held, rows, objects, aged>>,
         DOMAIN reader' = {"at", "got", "left"}, Reading'
  PROVE  PInv'
<1>1. \A c, g : Sent(c, g)' = Sent(c, g)
  BY DEF Sent, SpanOf
<1>2. ASSUME NEW d \in Delivery PROVE Saved(d)'
  BY Stands DEF PInv, Saved
<1>3. ASSUME NEW k \in DOMAIN rows' PROVE Row(k)'
  BY Stands DEF PInv, Row
<1>4. ASSUME NEW o \in DOMAIN objects' PROVE Kept(o)'
  BY <1>1 DEF PInv, Kept
<1> QED BY <1>2, <1>3, <1>4 DEF PInv

\* What a reader takes over from the rows is inline and as it was sent, or has to be fetched.
LEMMA GetKeepsPInv ==
  ASSUME Named, PInv, NEW t \in Table, NEW s, Get(t, s)
  PROVE  PInv'
<1>1. PICK keys : reader' = [at |-> "fetch", left |-> {x \in Items(keys) : ToFetch(x.val)},
                    got |-> {[by |-> x.by, field |-> x.field, c |-> x.val.inline] :
                               x \in {y \in Items(keys) : ~ToFetch(y.val)}}]
  BY DEF Get
<1>2. UNCHANGED <<export, at, held, rows, objects, aged>> /\ \A c, g : Sent(c, g)' = Sent(c, g)
  BY DEF Get, Sent, SpanOf
<1>3. ASSUME NEW x \in Items(keys) PROVE x.by \in Delivery /\ StandsFor(x.val, x.by, x.field)
  <2>1. PICK k \in DOMAIN rows : \E f \in DOMAIN rows[k].val :
          x = [by |-> rows[k].by, field |-> f, val |-> rows[k].val[f]]
    BY <1>3 DEF Items
  <2>2. PICK f \in DOMAIN rows[k].val : x = [by |-> rows[k].by, field |-> f, val |-> rows[k].val[f]]
    BY <2>1
  <2>3. x.by = rows[k].by /\ x.field = f /\ x.val = rows[k].val[f]
    BY <2>2
  <2> QED BY <2>1, <2>2, <2>3 DEF PInv, Row
<1>4. ASSUME NEW x \in Items(keys), ~ToFetch(x.val) PROVE x.val.inline = Sent(x.by, x.field)
  <2>1. x.val = Inline(Sent(x.by, x.field)) \/ x.val = Ref(<<x.by, x.field>>)
    BY <1>3 DEF StandsFor
  <2> QED BY <1>4, <2>1 DEF ToFetch, Inline, Ref, Named
<1>5. ASSUME NEW y \in reader'.got PROVE y.c = Sent(y.by, y.field)'
  <2>1. PICK x \in Items(keys) : ~ToFetch(x.val) /\ y = [by |-> x.by, field |-> x.field, c |-> x.val.inline]
    BY <1>1, <1>5
  <2>2. y.by = x.by /\ y.field = x.field /\ y.c = x.val.inline
    BY <2>1
  <2> QED BY <1>2, <1>4, <2>1, <2>2
<1>6. ASSUME NEW x \in reader'.left
      PROVE  x.by \in Delivery /\ ToFetch(x.val) /\ StandsFor(x.val, x.by, x.field)'
  <2>1. x \in Items(keys) /\ ToFetch(x.val)
    BY <1>1, <1>6
  <2> QED BY <1>2, <1>3, <2>1, Stands
<1>7. reader'.at # "failed" /\ DOMAIN reader' = {"at", "got", "left"}
  BY <1>1
<1>8. Reading'
  BY <1>5, <1>6, <1>7 DEF Reading, ToFetch
<1> QED BY <1>2, <1>7, <1>8, ReaderKeepsPInv

\* The object of a reference is there, or it has grown old; an object that is there has
\* what was sent.
LEMMA FetchKeepsPInv ==
  ASSUME Named, PInv, NEW x \in reader.left, Fetch(x)
  PROVE  PInv'
<1>1. UNCHANGED <<export, at, held, rows, objects, aged>> /\ \A c, g : Sent(c, g)' = Sent(c, g)
  BY DEF Fetch, Sent, SpanOf
<1>2. x.by \in Delivery /\ ToFetch(x.val) /\ StandsFor(x.val, x.by, x.field)
  BY DEF PInv, Reading
<1>3. \A d, f : <<d, f>> \in DOMAIN objects => objects[<<d, f>>] = Sent(d, f)
  BY DEF PInv, Kept
<1>4. ASSUME x.val.ref \in DOMAIN objects \ aged PROVE PInv'
  <2> DEFINE y == [by |-> x.by, field |-> x.field, c |-> objects[x.val.ref]]
  <2>1. reader' = [reader EXCEPT !.left = @ \ {x}, !.got = @ \cup {y}]
    BY <1>4 DEF Fetch
  <2>2. y.by = x.by /\ y.field = x.field /\ y.c = objects[x.val.ref]
    OBVIOUS
  <2>3. x.val.ref = <<x.by, x.field>> \/ x.val.ref = None
    BY <1>2 DEF StandsFor, Inline, Ref
  <2>4. x.val.ref # None
    <3>1. ASSUME x.val.ref = None PROVE FALSE
      <4>1. None \in DOMAIN objects
        BY <1>4, <3>1
      <4> QED BY <4>1 DEF PInv, Kept, Named
    <3> QED BY <3>1
  <2>5. y.c = Sent(y.by, y.field)
    BY <1>3, <1>4, <2>2, <2>3, <2>4
  <2> HIDE DEF y
  <2>6. /\ DOMAIN reader' = {"at", "got", "left"} /\ reader'.at = reader.at
        /\ reader'.left = reader.left \ {x} /\ reader'.got = reader.got \cup {y}
    BY <2>1 DEF PInv
  <2>7. Reading'
    BY <1>1, <2>5, <2>6, Stands DEF PInv, Reading
  <2> QED BY <1>1, <2>6, <2>7, ReaderKeepsPInv
<1>5. ASSUME x.val.ref \notin DOMAIN objects \ aged PROVE PInv'
  <2>1. reader' = [reader EXCEPT !.at = "failed", !.left = {x}]
    BY <1>5 DEF Fetch
  <2>2. /\ DOMAIN reader' = {"at", "got", "left"} /\ reader'.left = {x} /\ reader'.got = reader.got
    BY <2>1 DEF PInv
  <2>3. x.val.ref \in aged \/ x.val.inline # None
    <3>1. CASE x.val = Inline(Sent(x.by, x.field))
      <4>1. x.val.ref = None
        BY <3>1 DEF Inline
      <4> QED BY <1>2, <4>1 DEF ToFetch
    <3>2. CASE x.val = Ref(<<x.by, x.field>>) /\ <<x.by, x.field>> \in DOMAIN objects \cup aged
      BY <1>5, <3>2 DEF Ref
    <3> QED BY <1>2, <3>1, <3>2 DEF StandsFor
  <2>4. StandsFor(x.val, x.by, x.field)'
    BY <1>1, <1>2, Stands
  <2>5. Reading'
    BY <1>1, <1>2, <2>2, <2>3, <2>4 DEF PInv, Reading, ToFetch
  <2> QED BY <1>1, <2>2, <2>5, ReaderKeepsPInv
<1> QED BY <1>4, <1>5

\* Every step keeps it.
LEMMA NextPInv == ASSUME Named PROVE PInv /\ [PayloadNext]_payloadVars => PInv'
<1> SUFFICES ASSUME PInv, [PayloadNext]_payloadVars PROVE PInv'
  OBVIOUS
<1>1. ASSUME NEW d \in Delivery, Fail(d) PROVE PInv'
  <2>1. UNCHANGED <<export, held, rows, objects, aged, reader>>
    BY <1>1 DEF Fail
  <2>2. \A o \in DOMAIN objects' : Kept(o)'
    BY <2>1 DEF PInv, Kept, Sent, SpanOf
  <2> QED BY <2>1, <2>2, BucketKeepsPInv
<1>2. ASSUME Answer PROVE PInv'
  <2>1. UNCHANGED <<export, held, rows, objects, aged>> /\ reader' = Idle
    BY <1>2 DEF Answer
  <2>2. Reading' /\ DOMAIN reader' = {"at", "got", "left"}
    BY <2>1 DEF Reading, Idle
  <2> QED BY <2>1, <2>2, ReaderKeepsPInv
<1>3. ASSUME NEW o \in DOMAIN objects, Archive(o) PROVE PInv'
  <2>1. UNCHANGED <<export, held, rows, objects, reader>> /\ aged' = aged \cup {o}
    BY <1>3 DEF Archive
  <2>2. \A p \in DOMAIN objects' : Kept(p)'
    BY <2>1 DEF PInv, Kept, Sent, SpanOf
  <2> QED BY <2>1, <2>2, BucketKeepsPInv
<1>4. ASSUME NEW o \in DOMAIN objects, Expire(o) PROVE PInv'
  <2>1. /\ UNCHANGED <<export, held, rows, aged, reader>> /\ o \in aged
        /\ objects' = [p \in DOMAIN objects \ {o} |-> objects[p]]
    BY <1>4 DEF Expire
  <2>2. \A p \in DOMAIN objects' : Kept(p)'
    BY <2>1 DEF PInv, Kept, Sent, SpanOf
  <2> QED BY <2>1, <2>2, BucketKeepsPInv
<1>5. CASE UNCHANGED payloadVars
  <2>1. UNCHANGED <<export, held, rows, objects, aged, reader>>
    BY <1>5 DEF payloadVars
  <2>2. \A o \in DOMAIN objects' : Kept(o)'
    BY <2>1 DEF PInv, Kept, Sent, SpanOf
  <2> QED BY <2>1, <2>2, BucketKeepsPInv
<1> QED BY <1>1, <1>2, <1>3, <1>4, <1>5, SaveKeepsPInv, UpsertKeepsPInv, GetKeepsPInv,
     FetchKeepsPInv DEF PayloadNext

-----------------------------------------------------------------------------
\* A read that answers has each payload as it was sent, and one that fails met an object
\* that was archived or a response that looks like a reference, whatever else failed, was
\* sent again or replaced a row meanwhile (store_s3.py:67-101, 141-168).
THEOREM PayloadsReturn == ASSUME Named PROVE PayloadSpec => []PayloadsComeBack
<1>1. PayloadInit => PInv
  BY DEF PayloadInit, PInv, Saved, Row, Reading, Idle
<1>2. PInv => PayloadsComeBack
  BY DEF PInv, Reading, PayloadsComeBack, ReadsWhatWasSent, FailsOnlyByAge
<1> QED BY <1>1, <1>2, NextPInv, PTL DEF PayloadSpec

-----------------------------------------------------------------------------
(* Tokens *)

\* The signing secrets of the processes: the given one and the random ones.
Secrets == {<<>>} \cup {<<w, n>> : w \in Worker, n \in Nat}

\* What the constants stand for: the pool has a key, its keys (RSA) are not the server's
\* secrets (HMAC), and times are numbers.
Constants ==
  /\ PoolKey # {} /\ PoolKey \cap Secrets = {}
  /\ JwksTTL \in Nat /\ SessionTTL \in Nat /\ ShareTTL \in Nat
  /\ None \notin Nat

Codes == {"200", "401", "404", "410"}
Token    == [kind : {"session", "share"}, signer : Secrets \cup PoolKey, exp : Nat]
Check    == [at : {"idle", "lock", "fetch"} \cup Codes, worker : Worker \cup {None},
             token : Token \cup {None}, since : Nat \cup {None}, failed : BOOLEAN]

Types ==
  /\ now \in Nat /\ restarts \in Nat
  /\ env \in [cognito : BOOLEAN, secret : BOOLEAN]
  /\ secret \in [Worker -> Secrets]
  /\ tokens \subseteq Token /\ pool \subseteq PoolKey
  /\ withdrawn \in [PoolKey -> Nat \cup {None}]
  /\ cache \in [Worker -> [at : Nat \cup {None}, keys : SUBSET PoolKey]]
  /\ check \in [Thread -> Check]

\* Whom a token is signed by; a key that signed one was published.
Signed(x) ==
  IF x.kind = "session" /\ env.cognito
  THEN x.signer \in PoolKey /\ (x.signer \in pool \/ withdrawn[x.signer] # None)
  ELSE x.signer \in Secrets /\ (env.secret => x.signer = <<>>)

\* A key in a cache was published when the process asked for it.
Cached(w) ==
  cache[w].at # None =>
    /\ cache[w].at <= now
    /\ \A k \in cache[w].keys : withdrawn[k] = None \/ withdrawn[k] >= cache[w].at

\* What a request knows, and why it has its answer.
Explained(t) ==
  LET c == check[t]
  IN  /\ c.at # "idle" => c.worker \in Worker /\ c.token \in tokens
      /\ c.at \in {"lock", "fetch"} => c.token.kind = "session" /\ env.cognito
      /\ c.at = "fetch" => c.since \in Nat /\ c.since <= now
      /\ c.at \in Codes =>
           IF c.token.kind = "session" /\ env.cognito
           THEN /\ c.at = "401" => \/ Expired(c.token) \/ c.failed
                                   \/ withdrawn[c.token.signer] # None
                /\ c.at = "200" => \/ withdrawn[c.token.signer] = None
                                   \/ now - withdrawn[c.token.signer] <= JwksTTL
           ELSE env.secret =>
                  c.at = IF ~Expired(c.token) THEN "200"
                         ELSE IF c.token.kind = "share" THEN "410" ELSE "401"

AInv ==
  /\ Types
  /\ env.secret => \A w \in Worker : secret[w] = <<>>
  /\ \A k \in pool : withdrawn[k] = None
  /\ \A k \in PoolKey : withdrawn[k] # None => withdrawn[k] <= now
  /\ \A x \in tokens : Signed(x)
  /\ \A w \in Worker : Cached(w)
  /\ \A t \in Thread : Explained(t)

-----------------------------------------------------------------------------
\* At the start there are neither tokens nor requests.
LEMMA InitAInv == ASSUME Constants PROVE SessionInit => AInv
<1> SUFFICES ASSUME SessionInit PROVE AInv
  OBVIOUS
<1>1. pool \subseteq PoolKey
  BY DEF SessionInit, Constants
<1>2. secret \in [Worker -> Secrets] /\ (env.secret => \A w \in Worker : secret[w] = <<>>)
  BY DEF SessionInit, Secrets, LoadSecret
<1>3. \A w \in Worker : cache[w] = Empty \/ cache[w] = [at |-> 0, keys |-> pool]
  BY DEF SessionInit
<1>4. cache \in [Worker -> [at : Nat \cup {None}, keys : SUBSET PoolKey]] /\ \A w \in Worker : Cached(w)
  BY <1>1, <1>3 DEF SessionInit, Empty, Cached
<1>5. check \in [Thread -> Check] /\ \A t \in Thread : check[t].at = "idle"
  BY DEF SessionInit, NoCheck, Check
<1>6. \A t \in Thread : Explained(t)
  BY <1>5 DEF Explained, Codes
<1> QED BY <1>1, <1>2, <1>4, <1>5, <1>6 DEF SessionInit, AInv, Types

\* A request that nobody touches stands, whatever is issued, published or withdrawn.
LEMMA AnswerStands ==
  ASSUME Constants, AInv, NEW t \in Thread, check'[t] = check[t], now' = now, env' = env,
         tokens \subseteq tokens',
         \A k \in PoolKey : withdrawn'[k] \in {withdrawn[k], now}
  PROVE  Explained(t)'
<1> DEFINE c == check[t]
<1>1. Explained(t) /\ c \in Check /\ now \in Nat
  BY DEF AInv, Types
<1>2. c.at # "idle" => c.token \in Token /\ Signed(c.token)
  BY <1>1 DEF Explained, AInv, Types
<1>3. Expired(c.token)' <=> Expired(c.token)
  BY DEF Expired
<1>4. ASSUME c.at \in Codes, c.token.kind = "session", env.cognito
      PROVE  /\ withdrawn[c.token.signer] # None => withdrawn'[c.token.signer] # None
             /\ \/ withdrawn[c.token.signer] = None
                \/ now - withdrawn[c.token.signer] <= JwksTTL
                => \/ withdrawn'[c.token.signer] = None
                   \/ now - withdrawn'[c.token.signer] <= JwksTTL
  <2>1. c.token.signer \in PoolKey
    BY <1>2, <1>4 DEF Codes, Signed
  <2> QED BY <1>1, <2>1 DEF Constants
<1> QED BY <1>1, <1>3, <1>4 DEF Explained

\* Steps that only change requests, other than the one of a thread.
LEMMA OneRequest ==
  ASSUME Constants, AInv, NEW t \in Thread, UNCHANGED <<env, now, secret, tokens, pool, withdrawn, restarts>>,
         check' \in [Thread -> Check], \A u \in Thread : u # t => check'[u] = check[u],
         cache' \in [Worker -> [at : Nat \cup {None}, keys : SUBSET PoolKey]],
         \A w \in Worker : Cached(w)', Explained(t)'
  PROVE  AInv'
<1>1. Types'
  BY DEF AInv, Types
<1>2. \A x \in tokens' : Signed(x)'
  BY DEF AInv, Signed
<1>3. \A k \in PoolKey : withdrawn'[k] \in {withdrawn[k], now}
  OBVIOUS
<1>4. \A u \in Thread : Explained(u)'
  BY <1>3, AnswerStands
<1> QED BY <1>1, <1>2, <1>4 DEF AInv

\* Steps that leave the requests and the caches alone.
LEMMA NoRequest ==
  ASSUME Constants, AInv, UNCHANGED <<env, now, secret, cache, check, restarts>>,
         tokens' \subseteq Token, tokens \subseteq tokens', pool' \subseteq PoolKey,
         withdrawn' \in [PoolKey -> Nat \cup {None}],
         \A k \in PoolKey : withdrawn'[k] = withdrawn[k] \/ withdrawn'[k] = now,
         \A k \in pool' : withdrawn'[k] = None,
         \A x \in tokens' : Signed(x)'
  PROVE  AInv'
<1>1. Types' /\ now \in Nat
  BY DEF AInv, Types
<1>2. \A w \in Worker : Cached(w)'
  <2> TAKE w \in Worker
  <2>1. Cached(w) /\ cache[w].keys \subseteq PoolKey
    BY DEF AInv, Types
  <2> QED BY <1>1, <2>1 DEF Cached
<1>3. \A u \in Thread : Explained(u)'
  BY AnswerStands
<1>4. \A k \in PoolKey : withdrawn'[k] # None => withdrawn'[k] <= now'
  BY <1>1 DEF AInv
<1> QED BY <1>1, <1>2, <1>3, <1>4 DEF AInv

-----------------------------------------------------------------------------
\* Issuing: a token of the server is signed with its secret, one of the pool with a key
\* the pool publishes.
LEMMA IssuingKeepsAInv ==
  ASSUME Constants, AInv, NEW x \in Token, tokens' = tokens \cup {x},
         UNCHANGED <<env, now, secret, pool, withdrawn, cache, check, restarts>>,
         IF x.kind = "session" /\ env.cognito THEN x.signer \in pool
         ELSE x.signer \in Secrets /\ (env.secret => x.signer = <<>>)
  PROVE  AInv'
<1>1. Signed(x)'
  BY DEF Signed, AInv, Types
<1>2. \A y \in tokens : Signed(y)'
  BY DEF Signed, AInv
<1>3. /\ tokens' \subseteq Token /\ tokens \subseteq tokens' /\ pool' \subseteq PoolKey
      /\ withdrawn' \in [PoolKey -> Nat \cup {None}]
      /\ \A h \in pool' : withdrawn'[h] = None
      /\ \A k \in PoolKey : withdrawn'[k] = withdrawn[k] \/ withdrawn'[k] = now
  BY DEF AInv, Types
<1> QED BY <1>1, <1>2, <1>3, NoRequest

\* The three ways to issue one.
LEMMA IssueIsOfSigner ==
  ASSUME Constants, AInv, NEW kind \in {"session", "share"}, NEW signer \in Secrets \cup PoolKey,
         NEW ttl \in Nat, Issue(kind, signer, ttl),
         IF kind = "session" /\ env.cognito THEN signer \in pool
         ELSE signer \in Secrets /\ (env.secret => signer = <<>>)
  PROVE  AInv'
<1>1. PICK x : x = [kind |-> kind, signer |-> signer, exp |-> now + ttl]
  OBVIOUS
<1>2. /\ tokens' = tokens \cup {x}
      /\ UNCHANGED <<env, now, secret, pool, withdrawn, cache, check, restarts>>
  BY <1>1 DEF Issue
<1>3. x \in Token /\ x.kind = kind /\ x.signer = signer
  BY <1>1 DEF Token, AInv, Types
<1> QED BY <1>2, <1>3, IssuingKeepsAInv

\* The answer of a request is a function of its token, its process and the time.
LEMMA PresentKeepsAInv ==
  ASSUME Constants, AInv, NEW t \in Thread, NEW w \in Worker, NEW x \in tokens, Present(t, w, x)
  PROVE  AInv'
<1> DEFINE code == IF x.kind = "share" THEN VerifyShareToken(w, x)
                   ELSE IF env.cognito THEN "lock" ELSE VerifyJwt(w, x)
           c == [NoCheck EXCEPT !.worker = w, !.token = x, !.at = code]
<1>1. /\ check' = [check EXCEPT ![t] = c]
      /\ UNCHANGED <<env, now, secret, tokens, pool, withdrawn, cache, jwksLock, restarts>>
  BY DEF Present
<1>2. code \in {"lock"} \cup Codes /\ x \in Token
  BY DEF VerifyShareToken, VerifyJwt, Codes, AInv, Types
<1>3. NoCheck \in Check
  BY DEF NoCheck, Check
<1>4. /\ code = "lock" => x.kind = "session" /\ env.cognito
      /\ code # "lock" /\ env.secret /\ ~(x.kind = "session" /\ env.cognito) =>
           code = IF ~Expired(x) THEN "200" ELSE IF x.kind = "share" THEN "410" ELSE "401"
      /\ x.kind = "session" /\ env.cognito => code = "lock"
  <2>1. /\ env.secret => secret[w] = <<>>
        /\ x.kind \in {"session", "share"} /\ Signed(x)
    BY <1>2 DEF AInv, Token
  <2> QED BY <2>1 DEF VerifyShareToken, VerifyJwt, Signed
<1> HIDE DEF code, NoCheck
<1>5. c \in Check /\ c.at = code /\ c.worker = w /\ c.token = x
  BY <1>2, <1>3 DEF Check
<1> HIDE DEF c
<1>6. check' \in [Thread -> Check] /\ check'[t] = c /\ \A u \in Thread : u # t => check'[u] = check[u]
  BY <1>1, <1>5 DEF AInv, Types
<1>7. Expired(x)' <=> Expired(x)
  BY <1>1 DEF Expired
<1>8. Explained(t)'
  BY <1>1, <1>2, <1>4, <1>5, <1>6, <1>7 DEF Explained, Codes
<1>9. \A v \in Worker : Cached(v)'
  BY <1>1 DEF AInv, Cached
<1> QED BY <1>1, <1>6, <1>8, <1>9, OneRequest DEF AInv, Types

\* With a cache that is young enough, or a fresh one, a key that is missing was withdrawn,
\* and one that is there was published when the process asked.
LEMMA KeysKeepAInv ==
  ASSUME Constants, AInv, NEW t \in Thread, GetJwk(t) \/ FetchJwks(t) \/ FetchFails(t)
  PROVE  AInv'
<1> DEFINE w == check[t].worker
           k == check[t].token.signer
<1>1. /\ UNCHANGED <<env, now, secret, tokens, pool, withdrawn, restarts>>
      /\ check[t].at \in {"lock", "fetch"} /\ check \in [Thread -> Check] /\ check[t] \in Check
      /\ cache \in [Worker -> [at : Nat \cup {None}, keys : SUBSET PoolKey]] /\ now \in Nat
      /\ \A v \in Worker : Cached(v)
  BY DEF GetJwk, FetchJwks, FetchFails, AInv, Types
<1>2. /\ w \in Worker /\ check[t].token \in tokens /\ check[t].token \in Token
      /\ check[t].token.kind = "session" /\ env.cognito
      /\ k \in PoolKey /\ (k \in pool \/ withdrawn[k] # None)
      /\ check[t].at = "fetch" => check[t].since \in Nat /\ check[t].since <= now
  BY <1>1 DEF AInv, Types, Explained, Signed
<1>3. \A code : check' = [check EXCEPT ![t].at = code] =>
        /\ check'[t] = [check[t] EXCEPT !.at = code]
        /\ \A u \in Thread : u # t => check'[u] = check[u]
  BY <1>1
<1>4. ASSUME NEW keys, check' = [check EXCEPT ![t].at = Verdict(t, keys)],
             k \in keys => withdrawn[k] = None \/ now - withdrawn[k] <= JwksTTL,
             k \notin keys => withdrawn[k] # None,
             cache' \in [Worker -> [at : Nat \cup {None}, keys : SUBSET PoolKey]],
             \A v \in Worker : Cached(v)'
      PROVE  AInv'
  <2> DEFINE code == Verdict(t, keys)
  <2>1. /\ code \in {"200", "401"}
        /\ code = "200" => k \in keys
        /\ code = "401" => k \notin keys \/ Expired(check[t].token)
    BY DEF Verdict
  <2> HIDE DEF code, k, w
  <2>2. /\ check'[t] \in Check /\ check'[t].at = code /\ check'[t].worker = w
        /\ check'[t].token = check[t].token
    BY <1>1, <1>3, <1>4, <2>1 DEF Check, Codes, code, w
  <2>3. check' \in [Thread -> Check] /\ \A u \in Thread : u # t => check'[u] = check[u]
    BY <1>1, <1>3, <1>4, <2>2 DEF code
  <2>4. Expired(check[t].token)' <=> now >= check[t].token'.exp
    BY <1>1 DEF Expired
  <2>5. Explained(t)'
    BY <1>1, <1>2, <1>4, <2>1, <2>2 DEF Explained, Codes, Expired, k
  <2> QED BY <1>1, <1>4, <2>3, <2>5, OneRequest
<1>5. CASE GetJwk(t) /\ Stale(w, k)
  <2>1. check' = [check EXCEPT ![t].at = "fetch", ![t].since = now] /\ cache' = cache
    BY <1>5 DEF GetJwk
  <2>2. check' = [check EXCEPT ![t] = [[check[t] EXCEPT !.at = "fetch"] EXCEPT !.since = now]]
    BY <1>1, <2>1
  <2> DEFINE c == [[check[t] EXCEPT !.at = "fetch"] EXCEPT !.since = now]
  <2>3. /\ c \in Check /\ c.at = "fetch" /\ c.since = now /\ c.worker = w
        /\ c.token = check[t].token
    BY <1>1 DEF Check
  <2> HIDE DEF c, w, k
  <2>4. /\ check' \in [Thread -> Check] /\ check'[t] = c
        /\ \A u \in Thread : u # t => check'[u] = check[u]
    BY <1>1, <2>2, <2>3 DEF c
  <2>5. Explained(t)'
    BY <1>1, <1>2, <2>3, <2>4 DEF Explained, Codes
  <2>6. \A v \in Worker : Cached(v)'
    BY <1>1, <2>1 DEF Cached
  <2> QED BY <1>1, <2>1, <2>4, <2>5, <2>6, OneRequest
<1>6. CASE GetJwk(t) /\ ~Stale(w, k)
  <2>1. check' = [check EXCEPT ![t].at = Verdict(t, cache[w].keys)] /\ cache' = cache
    BY <1>6 DEF GetJwk, Answers
  <2>2. cache[w].at # None /\ now - cache[w].at <= JwksTTL /\ k \in cache[w].keys
    BY <1>1, <1>2, <1>6 DEF Stale, Constants
  <2>3. withdrawn[k] = None \/ (withdrawn[k] \in Nat /\ withdrawn[k] >= cache[w].at)
    BY <1>1, <1>2, <2>2 DEF Cached, AInv, Types
  <2>4. withdrawn[k] = None \/ now - withdrawn[k] <= JwksTTL
    BY <1>1, <1>2, <2>2, <2>3 DEF Constants
  <2>5. \A v \in Worker : Cached(v)'
    BY <1>1, <2>1 DEF Cached
  <2> QED BY <1>1, <1>4, <2>1, <2>2, <2>4, <2>5
<1>7. CASE FetchJwks(t)
  <2>1. /\ check' = [check EXCEPT ![t].at = Verdict(t, pool)]
        /\ cache' = [cache EXCEPT ![w] = [at |-> check[t].since, keys |-> pool]]
        /\ check[t].at = "fetch"
    BY <1>7 DEF FetchJwks, Answers
  <2>2. pool \subseteq PoolKey /\ \A h \in pool : withdrawn[h] = None
    BY DEF AInv, Types
  <2>3. cache' \in [Worker -> [at : Nat \cup {None}, keys : SUBSET PoolKey]]
    BY <1>1, <1>2, <2>1, <2>2
  <2>4. \A v \in Worker : Cached(v)'
    <3>1. cache'[w].at = check[t].since /\ cache'[w].keys = pool
      BY <1>1, <1>2, <2>1
    <3>2. \A v \in Worker : v # w => cache'[v] = cache[v]
      BY <1>1, <2>1
    <3> QED BY <1>1, <1>2, <2>1, <2>2, <3>1, <3>2 DEF Cached
  <2> QED BY <1>2, <1>4, <2>1, <2>2, <2>3, <2>4
<1>8. CASE FetchFails(t)
  <2>1. check' = [check EXCEPT ![t].at = "401", ![t].failed = TRUE] /\ cache' = cache
    BY <1>8 DEF FetchFails
  <2> DEFINE c == [[check[t] EXCEPT !.at = "401"] EXCEPT !.failed = TRUE]
  <2>2. check' = [check EXCEPT ![t] = c]
    BY <1>1, <2>1
  <2>3. /\ c \in Check /\ c.at = "401" /\ c.failed = TRUE /\ c.worker = w
        /\ c.token = check[t].token
    BY <1>1 DEF Check, Codes
  <2> HIDE DEF c, w, k
  <2>4. /\ check' \in [Thread -> Check] /\ check'[t] = c
        /\ \A u \in Thread : u # t => check'[u] = check[u]
    BY <1>1, <2>2, <2>3
  <2>5. Explained(t)'
    BY <1>1, <1>2, <2>3, <2>4 DEF Explained, Codes
  <2>6. \A v \in Worker : Cached(v)'
    BY <1>1, <2>1 DEF Cached
  <2> QED BY <1>1, <2>1, <2>4, <2>5, <2>6, OneRequest
<1> QED BY <1>5, <1>6, <1>7, <1>8

\* A request that is over, and one whose process restarts, leave nothing behind.
LEMMA LeavingKeepsAInv ==
  ASSUME Constants, AInv, NEW t \in Thread, Leave(t)
  PROVE  AInv'
<1>1. /\ check' = [check EXCEPT ![t] = NoCheck]
      /\ UNCHANGED <<env, now, secret, tokens, pool, withdrawn, cache, jwksLock, restarts>>
  BY DEF Leave
<1>2. NoCheck \in Check /\ NoCheck.at = "idle"
  BY DEF NoCheck, Check
<1> HIDE DEF NoCheck
<1>3. /\ check' \in [Thread -> Check] /\ check'[t] = NoCheck
      /\ \A u \in Thread : u # t => check'[u] = check[u]
  BY <1>1, <1>2 DEF AInv, Types
<1>4. Explained(t)'
  BY <1>2, <1>3 DEF Explained, Codes
<1>5. \A v \in Worker : Cached(v)'
  BY <1>1 DEF AInv, Cached
<1> QED BY <1>1, <1>3, <1>4, <1>5, OneRequest DEF AInv, Types

\* A restart draws a new secret only where none was given.
LEMMA RestartKeepsAInv ==
  ASSUME Constants, AInv, NEW w \in Worker, Restart(w)
  PROVE  AInv'
<1>1. /\ restarts' = restarts + 1 /\ restarts \in Nat
      /\ secret' = [secret EXCEPT ![w] = LoadSecret(w, restarts + 1)]
      /\ cache' = [cache EXCEPT ![w] = Empty]
      /\ check' = [t \in Thread |-> IF check[t].worker = w THEN NoCheck ELSE check[t]]
      /\ UNCHANGED <<env, now, tokens, pool, withdrawn>>
  BY DEF Restart, AInv, Types
<1>2. LoadSecret(w, restarts + 1) \in Secrets /\ (env.secret => LoadSecret(w, restarts + 1) = <<>>)
  BY <1>1 DEF LoadSecret, Secrets
<1>3. secret' \in [Worker -> Secrets] /\ (env'.secret => \A v \in Worker : secret'[v] = <<>>)
  BY <1>1, <1>2 DEF AInv, Types
<1>4. Empty \in [at : Nat \cup {None}, keys : SUBSET PoolKey] /\ Empty.at = None
  BY DEF Empty
<1>5. /\ cache' \in [Worker -> [at : Nat \cup {None}, keys : SUBSET PoolKey]]
      /\ \A v \in Worker : Cached(v)'
  BY <1>1, <1>4 DEF AInv, Types, Cached
<1>6. NoCheck \in Check /\ NoCheck.at = "idle"
  BY DEF NoCheck, Check
<1> HIDE DEF NoCheck
<1>7. check' \in [Thread -> Check]
  BY <1>1, <1>6 DEF AInv, Types
<1>8. ASSUME NEW u \in Thread PROVE Explained(u)'
  <2>1. CASE check[u].worker = w
    BY <1>1, <1>6, <2>1 DEF Explained, Codes
  <2>2. CASE check[u].worker # w
    BY <1>1, <2>2, AnswerStands
  <2> QED BY <2>1, <2>2
<1>9. \A x \in tokens' : Signed(x)'
  BY <1>1 DEF Signed, AInv
<1> QED BY <1>1, <1>3, <1>5, <1>7, <1>8, <1>9 DEF AInv, Types

\* Time goes on only when every answer was seen.
LEMMA TickKeepsAInv ==
  ASSUME Constants, AInv, Tick
  PROVE  AInv'
<1>1. /\ now' = now + 1 /\ now \in Nat
      /\ \A t \in Thread : check[t].at \notin Codes
      /\ UNCHANGED <<env, secret, tokens, pool, withdrawn, cache, check, restarts>>
  BY DEF Tick, AInv, Types, Codes
<1>2. \A t \in Thread : Explained(t)'
  BY <1>1 DEF Explained, AInv
<1>3. ASSUME NEW w \in Worker PROVE Cached(w)'
  <2>1. Cached(w) /\ cache[w].at \in Nat \cup {None}
    BY DEF AInv, Types
  <2> QED BY <1>1, <2>1 DEF Cached
<1>4. \A k \in PoolKey : withdrawn'[k] # None => withdrawn'[k] <= now'
  BY <1>1 DEF AInv, Types
<1>5. \A x \in tokens' : Signed(x)'
  BY <1>1 DEF Signed, AInv
<1> QED BY <1>1, <1>2, <1>3, <1>4, <1>5 DEF AInv, Types

\* The pool withdraws a key for good.
LEMMA PoolKeepsAInv ==
  ASSUME Constants, AInv, NEW k \in PoolKey, Publish(k) \/ Withdraw(k)
  PROVE  AInv'
<1>1. UNCHANGED <<env, now, secret, tokens, cache, check, restarts>> /\ now \in Nat
  BY DEF Publish, Withdraw, AInv, Types
<1>2. /\ pool' \subseteq PoolKey /\ withdrawn' \in [PoolKey -> Nat \cup {None}]
      /\ \A h \in PoolKey : withdrawn'[h] = withdrawn[h] \/ withdrawn'[h] = now
      /\ \A h \in pool' : withdrawn'[h] = None
      /\ \A h \in pool : h \in pool' \/ withdrawn'[h] # None
      /\ \A h \in PoolKey : withdrawn[h] # None => withdrawn'[h] # None
  <2>1. CASE Publish(k)
    BY <2>1 DEF Publish, AInv, Types
  <2>2. CASE Withdraw(k)
    BY <1>1, <2>2 DEF Withdraw, AInv, Types, Constants
  <2> QED BY <2>1, <2>2
<1>3. \A x \in tokens' : Signed(x)'
  BY <1>1, <1>2 DEF Signed, AInv
<1> QED BY <1>1, <1>2, <1>3, NoRequest DEF AInv, Types

\* Every step keeps it.
LEMMA NextAInv == ASSUME Constants PROVE AInv /\ [SessionNext]_sessionVars => AInv'
<1> SUFFICES ASSUME AInv, [SessionNext]_sessionVars PROVE AInv'
  OBVIOUS
<1>1. CASE UNCHANGED sessionVars
  BY <1>1 DEF sessionVars, AInv, Types, Signed, Cached, Explained, Expired
<1>2. ASSUME NEW w \in Worker, IssueJwt(w) \/ IssueShareToken(w) PROVE AInv'
  <2>1. /\ secret[w] \in Secrets /\ (env.secret => secret[w] = <<>>)
        /\ SessionTTL \in Nat /\ ShareTTL \in Nat
    BY DEF AInv, Types, Constants
  <2> QED BY <1>2, <2>1, IssueIsOfSigner DEF IssueJwt, IssueShareToken
<1>3. ASSUME NEW k \in PoolKey, PoolIssues(k) PROVE AInv'
  BY <1>3, IssueIsOfSigner DEF PoolIssues, Constants
<1> QED BY <1>1, <1>2, <1>3, PresentKeepsAInv, KeysKeepAInv, LeavingKeepsAInv, RestartKeepsAInv,
     TickKeepsAInv, PoolKeepsAInv DEF SessionNext

-----------------------------------------------------------------------------
\* A secret is no key of the pool, so what a request is refused or let in for is what
\* its token was signed by.
LEMMA AnsweredWhy ==
  ASSUME Constants, AInv, NEW t \in Thread, check[t].at \in Codes
  PROVE  /\ check[t].token \in Token
         /\ check[t].token.signer \in PoolKey => check[t].token.kind = "session" /\ env.cognito
BY DEF AInv, Types, Explained, Signed, Codes, Constants

\* With a given secret a token is refused, or called expired, only when its time is over,
\* whatever process answers and however often it restarted; and a session that was signed
\* with a key the pool has added is not refused for that (auth.py:40-56,
\* auth_cognito.py:53-64).
THEOREM TokensAreGood == ASSUME Constants PROVE SessionSpec => []GoodTokensPass
<1>1. AInv => GoodTokensPass
  <2> SUFFICES ASSUME AInv PROVE GoodTokensPass
    OBVIOUS
  <2>1. TokensOutliveRestarts
    BY AnsweredWhy DEF TokensOutliveRestarts, AInv, Explained, Codes
  <2>2. NewKeysAreAccepted
    BY AnsweredWhy DEF NewKeysAreAccepted, AInv, Explained, Codes
  <2> QED BY <2>1, <2>2 DEF GoodTokensPass
<1> QED BY <1>1, InitAInv, NextAInv, PTL DEF SessionSpec

\* A session passes for no longer than the cache may be kept after its key was withdrawn
\* (auth_cognito.py:44-64).
THEOREM KeysFade == ASSUME Constants PROVE SessionSpec => []WithdrawnKeysFade
<1>1. AInv => WithdrawnKeysFade
  <2> SUFFICES ASSUME AInv, NEW t \in Thread, check[t].at = "200", check[t].token.signer \in PoolKey
               PROVE  \/ withdrawn[check[t].token.signer] = None
                      \/ now - withdrawn[check[t].token.signer] <= JwksTTL
    BY DEF WithdrawnKeysFade
  <2>1. check[t].token.kind = "session" /\ env.cognito
    BY AnsweredWhy DEF Codes
  <2> QED BY <2>1 DEF AInv, Explained, Codes
<1> QED BY <1>1, InitAInv, NextAInv, PTL DEF SessionSpec
==================================================================================
