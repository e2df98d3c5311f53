----------------------------- MODULE PayloadStore -----------------------------
(***************************************************************************)
(* The offload of large payloads (cloud/api/store_s3.py) between the       *)
(* mapper and the Postgres store (store_pg.py): a value over the threshold *)
(* is put in the bucket and the row keeps a reference, which the readers   *)
(* follow.  Every query and every put takes effect by itself; a request    *)
(* can fail between any two, and is then sent again.  The bucket archives  *)
(* objects and later expires them (infra/s3.tf).                           *)
(***************************************************************************)
EXTENDS Nothing, Naturals, FiniteSets

CONSTANTS
  Delivery,  \* ingest requests, each of one span
  Export,    \* the spans they may carry, see below
  MaxAged    \* bound: objects that grow old

\* An export has a span and the size of each of its payloads: none, small, large, or
\* uri for a small one that begins with s3://.  A tool span has arguments and a result,
\* a call of a model a message and a response, cached under a hash all those calls share.
Table == {"tool", "message", "cache"}

VARIABLES
  export,   \* what each delivery carries
  at,       \* the next step of each delivery, see Steps
  held,     \* the values it has saved for its next row
  rows,     \* messages, tool_calls and llm_cache
  objects,  \* the bucket
  aged,     \* objects that left the STANDARD class
  reader    \* a request that reads payloads

payloadVars == <<export, at, held, rows, objects, aged, reader>>

SpanOf(d)    == export[d].span
IsTool(d)    == "result" \in DOMAIN export[d].size
\* What was sent as payload f of a span, if anything was.
Sent(d, f) == IF export[d].size[f] = "none" THEN None
                 ELSE [span |-> SpanOf(d), field |-> f, uri |-> export[d].size[f] = "uri"]

\* The order of ingest_request: fields are saved, then the row that holds them is written.
Steps(d) == IF IsTool(d) THEN <<"arguments", "result", "tool">>
            ELSE <<"content", "message", "response", "cache">>
Step(d) == IF at[d] \in DOMAIN Steps(d) THEN Steps(d)[at[d]] ELSE "none"
FieldsOf(t) == CASE t = "tool" -> {"arguments", "result"} [] t = "message" -> {"content"}
                 [] OTHER -> {"response"}

\* A message gets a fresh id whenever it is delivered.
RowKey(d, t) == CASE t = "tool" -> <<t, SpanOf(d)>> [] t = "message" -> <<t, d>> [] OTHER -> <<t>>

Idle == [at |-> "idle", got |-> {}, left |-> {}]

PayloadInit ==
  /\ export \in {e \in [Delivery -> Export] :
                   \A c, d \in Delivery : e[c].span = e[d].span => e[c] = e[d]}
  /\ at = [d \in Delivery |-> 1]
  /\ held = [d \in Delivery |-> <<>>]
  /\ rows = <<>> /\ objects = <<>> /\ aged = {}
  /\ reader = Idle

-----------------------------------------------------------------------------
(* Writes *)

\* f with v for k, whether k had a value or not.
Put(f, k, v) == [x \in DOMAIN f \cup {k} |-> IF x = k THEN v ELSE f[x]]

Inline(c) == [inline |-> c, ref |-> None]
Ref(o)    == [inline |-> None, ref |-> o]

\* _maybe_offload: over the threshold, into a new object.
Save(d, f) ==
  LET c == Sent(d, f)
      o == <<d, f>>
  IN  /\ Step(d) = f
      /\ IF export[d].size[f] = "large"
         THEN objects' = Put(objects, o, c) /\ held' = [held EXCEPT ![d] = Put(@, f, Ref(o))]
         ELSE UNCHANGED objects /\ held' = [held EXCEPT ![d] = Put(@, f, Inline(c))]
      /\ at' = [at EXCEPT ![d] = @ + 1]
      /\ UNCHANGED <<export, rows, aged, reader>>

\* Mutant: the objects of the row it replaces are deleted.
UpsertTidily(d, t) ==
  LET k   == RowKey(d, t)
      old == IF k \in DOMAIN rows THEN {rows[k].val[f].ref : f \in DOMAIN rows[k].val} ELSE {}
  IN  /\ Step(d) = t
      /\ rows' = Put(rows, k, [by |-> d, val |-> held[d]])
      /\ objects' = [o \in DOMAIN objects \ old |-> objects[o]]
      /\ held' = [held EXCEPT ![d] = <<>>]
      /\ at' = [at EXCEPT ![d] = @ + 1]
      /\ UNCHANGED <<export, aged, reader>>

\* insert_message, insert_tool_call, upsert_llm_cache: the last one wins, whole.
Upsert(d, t) ==
  /\ Step(d) = t
  /\ rows' = Put(rows, RowKey(d, t), [by |-> d, val |-> held[d]])
  /\ held' = [held EXCEPT ![d] = <<>>]
  /\ at' = [at EXCEPT ![d] = @ + 1]
  /\ UNCHANGED <<export, objects, aged, reader>>

\* A put or a query raises, or the process dies.
Fail(d) ==
  /\ Step(d) # "none"
  /\ at' = [at EXCEPT ![d] = 0]
  /\ UNCHANGED <<export, held, rows, objects, aged, reader>>

-----------------------------------------------------------------------------
(* Reads *)

\* A response that begins with s3:// is taken for a reference.
ToFetch(v) == v.ref # None \/ (v.inline # None /\ v.inline.uri /\ v.inline.field = "response")

Items(keys) == UNION {{[by |-> rows[k].by, field |-> f, val |-> rows[k].val[f]] : f \in DOMAIN rows[k].val}
                      : k \in keys \cap DOMAIN rows}

\* get_messages, get_tool_call, get_llm_cache: the rows are read at once ...
Get(table, span) ==
  LET items == Items(CASE table = "tool" -> {<<table, span>>} [] table = "cache" -> {<<table>>}
                       [] OTHER -> {<<table, d>> : d \in {c \in Delivery : SpanOf(c) = span}})
  IN  /\ reader = Idle
      /\ reader' = [at |-> "fetch", left |-> {x \in items : ToFetch(x.val)},
                    got |-> {[by |-> x.by, field |-> x.field, c |-> x.val.inline] :
                               x \in {y \in items : ~ToFetch(y.val)}}]
      /\ UNCHANGED <<export, at, held, rows, objects, aged>>

\* ... and then their objects one by one (_get).
Fetch(x) ==
  /\ reader.at = "fetch" /\ x \in reader.left
  /\ reader' = IF x.val.ref \in DOMAIN objects \ aged
               THEN [reader EXCEPT !.left = @ \ {x},
                       !.got = @ \cup {[by |-> x.by, field |-> x.field, c |-> objects[x.val.ref]]}]
               ELSE [reader EXCEPT !.at = "failed", !.left = {x}]
  /\ UNCHANGED <<export, at, held, rows, objects, aged>>

Answered == reader.at = "failed" \/ (reader.at = "fetch" /\ reader.left = {})

Answer == Answered /\ reader' = Idle /\ UNCHANGED <<export, at, held, rows, objects, aged>>

-----------------------------------------------------------------------------
(* The lifecycle rule: after 90 days to GLACIER, whose objects cannot be got before  *)
(* someone restores them, after 365 days deleted.                                    *)

Archive(o) ==
  /\ o \in DOMAIN objects \ aged /\ Cardinality(aged) < MaxAged
  /\ aged' = aged \cup {o}
  /\ UNCHANGED <<export, at, held, rows, objects, reader>>

Expire(o) ==
  /\ o \in aged \cap DOMAIN objects
  /\ objects' = [p \in DOMAIN objects \ {o} |-> objects[p]]
  /\ UNCHANGED <<export, at, held, rows, aged, reader>>

PayloadNext ==
  \/ \E d \in Delivery :
       \/ \E f \in DOMAIN export[d].size : Save(d, f)
       \/ \E t \in Table : Upsert(d, t)
       \/ Fail(d)
       \/ \E t \in Table : Get(t, SpanOf(d))
  \/ \E x \in reader.left : Fetch(x)
  \/ Answer
  \/ \E o \in DOMAIN objects : Archive(o) \/ Expire(o)

PayloadSpec == PayloadInit /\ [][PayloadNext]_payloadVars

-----------------------------------------------------------------------------
(* Properties *)

\* A read that answers has, for every row it found, each payload as it was sent for
\* the row's span, whatever was put in the bucket, failed, was retried or replaced in
\* the meantime (store_s3.py:13-15 `inline them back transparently').
ReadsWhatWasSent == Answered /\ reader.at = "fetch" =>
  \A x \in reader.got : x.c = Sent(x.by, x.field)

\* A read fails for no other reason than that an object is older than 90 days, or that a
\* cached response looks like a reference: never because of a request that failed, is
\* under way or replaced the row after it was looked at.
FailsOnlyByAge == reader.at = "failed" =>
  \A x \in reader.left : x.val.ref \in aged \/ x.val.inline # None

\* Payloads come back, and as they were sent.
PayloadsComeBack == ReadsWhatWasSent /\ FailsOnlyByAge
================================================================================
