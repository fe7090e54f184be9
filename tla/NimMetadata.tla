----------------------------- MODULE NimMetadata -----------------------------
(***************************************************************************)
(* What a stage believes of the model behind a NIM's endpoint: get_version *)
(* and get_model_name, whose answers are cached for all worker processes,  *)
(* and what is chosen from them: the size images are scaled to, and the    *)
(* labels of page elements. An endpoint may be down for a while.           *)
(***************************************************************************)
EXTENDS Naturals, FiniteSets

CONSTANTS
  Workers,   \* processes of the stages
  max_calls  \* lookups of a function after which the cache is cleared

ASSUME MetadataAssumption == max_calls \in Nat

VARIABLES
  up,           \* the endpoint answers
  global_cache, \* of each function: "absent", or the cached answer
  call_count,   \* of each function
  asked,        \* of each worker: [function, at, value]
  believed      \* of each worker: what its last client was made for

metadataVars == <<up, global_cache, call_count, asked, believed>>

Asking == {"get_version", "get_model_name"}

\* "served": what the endpoint says, a current version and a current model;
\* "empty": the falsy retry_value.
Answer == {"served", "empty"}
Idle == [function |-> "get_version", at |-> "idle", value |-> "empty"]

MetadataInit ==
  /\ up \in BOOLEAN
  /\ global_cache = [f \in Asking |-> "absent"] /\ call_count = [f \in Asking |-> 0]
  /\ asked = [w \in Workers |-> Idle]
  /\ believed = [w \in Workers |-> "none"]

\* Mutant: the cache is never cleared.
Cleared_never(f) == FALSE

\* The lookup that is one too many clears the cache of all functions.
Cleared(f) == call_count[f] + 1 > max_calls

\* multiprocessing_cache, under the lock: count, perhaps clear, look up. The
\* count stops growing at the bound max_calls + 1.
Lookup(w, f) ==
  LET cached == IF Cleared(f) THEN "absent" ELSE global_cache[f] IN
  /\ asked[w].at = "idle"
  /\ global_cache' = IF Cleared(f) THEN [g \in Asking |-> "absent"] ELSE global_cache
  /\ call_count' = [call_count EXCEPT ![f] = IF Cleared(f) THEN 0 ELSE IF @ > max_calls THEN @ ELSE @ + 1]
  /\ asked' = [asked EXCEPT ![w] =
                 IF cached = "absent" THEN [function |-> f, at |-> "query", value |-> "empty"]
                 ELSE [function |-> f, at |-> "return", value |-> cached]]
  /\ UNCHANGED <<up, believed>>

Reached(w, place, value) == asked' = [asked EXCEPT ![w].at = place, ![w].value = value]

\* What the endpoint says, or the falsy retry_value.
_query_metadata == IF up THEN "served" ELSE "empty"

\* Outside the lock. An empty version is asked for again with backoff until 30
\* seconds are over, and then is the answer.
get_version(w) ==
  /\ asked[w].at = "query" /\ asked[w].function = "get_version"
  /\ \/ Reached(w, "store", _query_metadata)
     \/ _query_metadata = "empty" /\ Reached(w, "backoff", "empty")
  /\ UNCHANGED <<up, global_cache, call_count, believed>>

\* The first element of an empty modelInfo is an exception: there is no retry, and
\* nothing is cached.
get_model_name(w) ==
  /\ asked[w].at = "query" /\ asked[w].function = "get_model_name"
  /\ IF _query_metadata = "empty" THEN Reached(w, "return", "empty") ELSE Reached(w, "store", "served")
  /\ UNCHANGED <<up, global_cache, call_count, believed>>

Backoff(w) ==
  /\ asked[w].at = "backoff" /\ Reached(w, "query", "empty")
  /\ UNCHANGED <<up, global_cache, call_count, believed>>

\* Under the lock again, whatever another worker has stored meanwhile.
Store(w) ==
  /\ asked[w].at = "store"
  /\ global_cache' = [global_cache EXCEPT ![asked[w].function] = asked[w].value]
  /\ Reached(w, "return", asked[w].value)
  /\ UNCHANGED <<up, call_count, believed>>

\* The size images are scaled to for the graphic elements, and the labels of the
\* page elements.
Size(version) == IF version = "empty" THEN "legacy size" ELSE "current size"
Labels(name) == IF name = "empty" THEN "v1" ELSE "v2"
Chosen(function, value) == IF function = "get_version" THEN Size(value) ELSE Labels(value)

\* _create_clients, get_yolox_model_name: a client is made for each call of a stage.
Create(w) ==
  /\ asked[w].at = "return"
  /\ believed' = [believed EXCEPT ![w] = Chosen(asked[w].function, asked[w].value)]
  /\ asked' = [asked EXCEPT ![w] = Idle]
  /\ UNCHANGED <<up, global_cache, call_count>>

\* The endpoint's container comes up, or goes down.
Toggle ==
  /\ up' = ~up
  /\ UNCHANGED <<global_cache, call_count, asked, believed>>

WorkerStep(w) ==
  (\E f \in Asking : Lookup(w, f)) \/ get_version(w) \/ get_model_name(w) \/ Backoff(w) \/ Store(w) \/ Create(w)

MetadataNext == Toggle \/ \E w \in Workers : WorkerStep(w)

\* A stage that has messages goes on, and each kind of stage has some; nothing
\* makes the endpoint come up.
MetadataFairness ==
  \A w \in Workers : /\ WF_metadataVars(WorkerStep(w))
                     /\ \A f \in Asking : SF_metadataVars(Lookup(w, f))

-----------------------------------------------------------------------------
(* Properties.                                                             *)

\* What could not be asked while the endpoint was down is not believed for ever:
\* once the endpoint stays up, all clients come to be made for what it serves,
\* although the empty version was cached for all workers and a slow worker may
\* cache it once more (multiprocessing_cache).
VersionSettles ==
  <>[]up => \A w \in Workers : <>[](believed[w] \in {"current size", "v2"})
=============================================================================
