--------------------------- MODULE ResponseChannel ---------------------------
(***************************************************************************)
(* The way of one job's result from the pipeline to its client: the sink   *)
(* (message_broker_task_sink) pushes it in fragments on the Redis list     *)
(* named after the job, GET /fetch_job collects them with                  *)
(* RedisClient.fetch_message, and RestClient asks until it is answered.    *)
(*                                                                         *)
(* Each request runs in a process of the server and goes on when its       *)
(* client has given it up. A Redis command that fails may have been        *)
(* carried out. A row stands for its index; the size of a row is the       *)
(* length of its JSON text.                                                *)
(***************************************************************************)
EXTENDS Naturals, Sequences, FiniteSets, SequencesExt

CONSTANTS
  Requests,     \* requests that may be under way at once
  RowLists,     \* the results a job may have, as sequences of row sizes
  SizeLimit,    \* size_limit of create_json_payload
  Overhead,     \* sys.getsizeof of an empty string, and the brackets
  PushRetries,  \* the values max_retries of the sink's RedisClient may have
  FetchRetries, \* max_retries of the service's RedisClient
  ClientRetries,\* max_retries of RestClient
  MaxFaults     \* bound on failed Redis commands and lost connections

ASSUME ResponseAssumption ==
  /\ SizeLimit \in Nat /\ Overhead \in Nat /\ Overhead <= SizeLimit
  /\ RowLists \subseteq Seq(Nat) /\ Requests # {}
  /\ PushRetries \subseteq Nat
  /\ {FetchRetries, ClientRetries, MaxFaults} \subseteq Nat

\* The limit of push_to_broker: 2**28 bytes, twice that of create_json_payload.
PayloadLimit == 2 * SizeLimit

VARIABLES
  job,      \* rows: sizes of the rows of the result; outcome: see Outcomes;
            \* max_retries: that of the sink's RedisClient
  sink,     \* where process_and_forward is
  payloads, \* what it has still to push
  retries,  \* retries of the push under way
  channel,  \* the Redis list
  fetch,    \* the handler of each request
  caller,   \* the client: what it waits for, its retries, what it was given
  faults,   \* failed commands and lost connections so far
  doubled,  \* a fragment was pushed twice
  gave_up   \* a handler answered with an error

channelVars == <<job, sink, payloads, retries, doubled>>
responseVars == <<channelVars, channel, fetch, caller, faults, gave_up>>

-----------------------------------------------------------------------------
(* The sink: create_json_payload and split_large_dict.                     *)

\* "rows": processed; "failed": cm_failed is set; "unreadable": the payload has
\* no such columns, so that extract_data_frame returns (None, None).
Outcomes == {"rows", "failed", "unreadable"}

Size(data, sizes) ==
  LET size[n \in 0 .. Len(data)] == IF n = 0 THEN Overhead ELSE size[n - 1] + sizes[data[n]]
  IN  size[Len(data)]

\* Mutant: the row that does not fit is left out of the new fragment.
AddRow_dropping(acc, i, sizes) ==
  LET item_size == Overhead + sizes[i] IN
  IF acc.size + item_size > SizeLimit
  THEN [done |-> Append(acc.done, acc.open), open |-> <<>>, size |-> Overhead]
  ELSE [acc EXCEPT !.open = Append(@, i), !.size = @ + item_size]

\* One pass of the loop over the rows; acc has the closed fragments, the open
\* one and its estimated size, to which each row adds its own overhead.
AddRow(acc, i, sizes) ==
  LET item_size == Overhead + sizes[i]
      closed == [done |-> Append(acc.done, acc.open), open |-> <<>>, size |-> Overhead]
      base == IF acc.size + item_size > SizeLimit THEN closed ELSE acc
  IN  [base EXCEPT !.open = Append(@, i), !.size = @ + item_size]

NoRows == [done |-> <<>>, open |-> <<>>, size |-> Overhead]
split_large_dict(sizes) ==
  LET after[n \in 0 .. Len(sizes)] == IF n = 0 THEN NoRows ELSE AddRow(after[n - 1], n, sizes)
      end == after[Len(sizes)]
  IN  IF end.open = <<>> THEN end.done ELSE Append(end.done, end.open)

AllRows(sizes) == [i \in DOMAIN sizes |-> i]

Payload(i, n, status, data) ==
  [fragment |-> i, fragment_count |-> n, status |-> status, data |-> data]

create_json_payload(j) ==
  IF j.outcome # "rows"
  THEN <<Payload(0, 1, IF j.outcome = "failed" THEN "failed" ELSE "success", <<>>)>>
  ELSE LET parts == IF Size(AllRows(j.rows), j.rows) > SizeLimit
                    THEN split_large_dict(j.rows) ELSE <<AllRows(j.rows)>>
       IN  [i \in DOMAIN parts |-> Payload(i - 1, Len(parts), "success", parts[i])]

\* fail_msg has neither fragment nor fragment_count: read as number 0 of 1.
fail_msg == Payload(0, 1, "failed", <<>>)

\* process_and_forward up to the first push. A payload above the limit is a
\* ValueError, which handle_failure turns in a failure message.
Create ==
  /\ sink = "create"
  /\ LET made == create_json_payload(job)
         fits == \A i \in DOMAIN made : Size(made[i].data, job.rows) <= PayloadLimit
     IN  /\ sink' = IF fits THEN "push" ELSE "fail"
         /\ payloads' = IF fits THEN made ELSE <<fail_msg>>
  /\ UNCHANGED <<job, retries, doubled, channel, fetch, caller, faults, gave_up>>

\* rpush of the next payload. SimpleClient and RedisClient raise no ValueError
\* here, so the attempts of push_to_broker never come to a second one.
Push ==
  /\ sink \in {"push", "fail"}
  /\ channel' = Append(channel, Head(payloads))
  /\ payloads' = Tail(payloads)
  /\ sink' = IF Tail(payloads) = <<>> THEN "done" ELSE sink
  /\ retries' = 0
  /\ UNCHANGED <<job, doubled, fetch, caller, faults, gave_up>>

\* rpush raises a RedisError, having been carried out or not. submit_message
\* tries again, without end if max_retries is 0. When it gives up,
\* process_and_forward sends a failure message instead, unless mdf is None:
\* then mdf.empty raises in the handler and nothing more is sent.
PushFails ==
  /\ sink \in {"push", "fail"} /\ faults < MaxFaults
  /\ LET again == job.max_retries = 0 \/ retries + 1 < job.max_retries IN
       /\ \/ UNCHANGED <<channel, doubled>>
          \/ channel' = Append(channel, Head(payloads)) /\ doubled' = TRUE
       /\ retries' = IF again THEN retries + 1 ELSE 0
       /\ IF again THEN UNCHANGED <<sink, payloads>>
          ELSE IF sink = "push" /\ job.outcome = "rows"
          THEN sink' = "fail" /\ payloads' = <<fail_msg>>
          ELSE sink' = "raised" /\ payloads' = <<>>
  /\ faults' = faults + 1
  /\ UNCHANGED <<job, fetch, caller, gave_up>>

-----------------------------------------------------------------------------
(* GET /fetch_job: fetch_job of the service and RedisClient.fetch_message. *)

Idle == [at |-> "idle"]
Fetching == [at |-> "fetching", collected |-> <<>>, fragment_count |-> 0,
             waited |-> 0, retries |-> 0]
Answered(status, message) == [at |-> "answered", status |-> status, message |-> message]
Nothing == Payload(0, 0, "none", <<>>)

\* sort by fragment number, of equal ones the earlier first.
Sorted(list) ==
  LET before(i) == {k \in DOMAIN list : \/ list[k].fragment < list[i].fragment
                                        \/ list[k].fragment = list[i].fragment /\ k < i}
  IN  [n \in DOMAIN list |-> list[CHOOSE i \in DOMAIN list : Cardinality(before(i)) = n - 1]]

\* _combine_fragments of the fragments sorted by their number.
Combined(list) ==
  LET sorted == Sorted(list)
  IN  Payload(0, 1, sorted[1].status, FlattenSeq([i \in DOMAIN sorted |-> sorted[i].data]))

\* What becomes of a fetch that has popped m: the count is that of the latest
\* fragment, and fragments are counted, not compared.
Taken(f, m) ==
  LET all == Append(f.collected, m) IN
    IF m.fragment_count = 1 THEN Answered(200, m)
    ELSE IF Len(all) = m.fragment_count THEN Answered(200, Combined(all))
    ELSE [f EXCEPT !.collected = all, !.fragment_count = m.fragment_count]

Pop(r) ==
  /\ fetch[r].at = "fetching" /\ channel # <<>>
  /\ channel' = Tail(channel)
  /\ fetch' = [fetch EXCEPT ![r] = Taken(@, Head(channel))]
  /\ UNCHANGED <<channelVars, caller, faults, gave_up>>

Refuse(r, status) ==
  /\ fetch' = [fetch EXCEPT ![r] = Answered(status, Nothing)]
  /\ gave_up' = (gave_up \/ status = 500)

\* Mutant: a timeout with fragments in hand is passed on like any other.
TimedOut_early(r) ==
  /\ fetch[r].at = "fetching" /\ channel = <<>>
  /\ Refuse(r, 202)
  /\ UNCHANGED <<channelVars, channel, caller, faults>>

\* BLPOP finds nothing in time. Without fragments in hand the TimeoutError is
\* passed on and answered with 202; with some, the fetch waits again, once for
\* each fragment it expects, and then raises a ValueError: a 500.
TimedOut(r) ==
  /\ fetch[r].at = "fetching" /\ channel = <<>>
  /\ LET f == fetch[r] IN
       IF f.fragment_count <= 1 THEN Refuse(r, 202)
       ELSE IF f.waited + 1 >= f.fragment_count THEN Refuse(r, 500)
       ELSE fetch' = [fetch EXCEPT ![r].waited = @ + 1] /\ UNCHANGED gave_up
  /\ UNCHANGED <<channelVars, channel, caller, faults>>

\* BLPOP raises a RedisError, having popped a fragment or not.
PopFails(r) ==
  /\ fetch[r].at = "fetching" /\ faults < MaxFaults
  /\ \/ UNCHANGED channel
     \/ channel # <<>> /\ channel' = Tail(channel)
  /\ IF FetchRetries > 0 /\ fetch[r].retries + 1 <= FetchRetries
     THEN fetch' = [fetch EXCEPT ![r].retries = @ + 1] /\ UNCHANGED gave_up
     ELSE Refuse(r, 500)
  /\ faults' = faults + 1
  /\ UNCHANGED <<channelVars, caller>>

-----------------------------------------------------------------------------
(* The client: RestClient.fetch_message, called until it gives a result.   *)

\* A request is sent; its handler has a process of its own.
Ask(r) ==
  /\ caller.at = "ready" /\ fetch[r].at = "idle"
  /\ fetch' = [fetch EXCEPT ![r] = Fetching]
  /\ caller' = [caller EXCEPT !.at = "waiting", !.for = r]
  /\ UNCHANGED <<channelVars, channel, faults, gave_up>>

\* The answer arrives: 200 is the result; 202, and 500 as one of the terminal
\* statuses, are response_code 1, upon which the caller asks again.
Receive(r) ==
  /\ fetch[r].at = "answered" /\ caller.at = "waiting" /\ caller.for = r
  /\ caller' = IF fetch[r].status = 200
               THEN [caller EXCEPT !.at = "given", !.message = fetch[r].message]
               ELSE [caller EXCEPT !.at = "ready", !.retries = 0]
  /\ fetch' = [fetch EXCEPT ![r] = Idle]
  /\ UNCHANGED <<channelVars, channel, faults, gave_up>>

\* The connection breaks while the client waits. perform_retry_backoff allows
\* another request at once or the call ends with response_code 1; either way the
\* client asks again, and nobody reads what the handler answers.
Disconnect(r) ==
  /\ caller.at = "waiting" /\ caller.for = r /\ faults < MaxFaults
  /\ caller' = [caller EXCEPT !.at = "ready",
                  !.retries = IF ClientRetries > 0 /\ @ < ClientRetries THEN @ + 1 ELSE 0]
  /\ faults' = faults + 1
  /\ UNCHANGED <<channelVars, channel, fetch, gave_up>>

\* The handler of a request nobody waits for ends, and its answer is dropped.
Dropped(r) ==
  /\ fetch[r].at = "answered" /\ ~(caller.at = "waiting" /\ caller.for = r)
  /\ fetch' = [fetch EXCEPT ![r] = Idle]
  /\ UNCHANGED <<channelVars, channel, caller, faults, gave_up>>

-----------------------------------------------------------------------------
ResponseInit ==
  /\ job \in [rows : RowLists, outcome : Outcomes, max_retries : PushRetries]
  /\ job.outcome = "rows" \/ job.rows = <<>>
  /\ sink = "create" /\ payloads = <<>> /\ retries = 0
  /\ channel = <<>>
  /\ fetch = [r \in Requests |-> Idle]
  /\ caller = [at |-> "ready", for |-> CHOOSE r \in Requests : TRUE,
               retries |-> 0, message |-> Nothing]
  /\ faults = 0 /\ doubled = FALSE /\ gave_up = FALSE

Sink == Create \/ Push \/ PushFails
Handle(r) == Pop(r) \/ TimedOut(r) \/ PopFails(r) \/ Dropped(r)
Client(r) == Ask(r) \/ Receive(r) \/ Disconnect(r)
ResponseNext == Sink \/ \E r \in Requests : Handle(r) \/ Client(r)

\* The sink, the handlers and the client each go on when they can. Errors are
\* not owed to anyone.
ResponseFairness ==
  /\ WF_responseVars(Create \/ Push)
  /\ \A r \in Requests : WF_responseVars(Pop(r) \/ TimedOut(r) \/ Dropped(r))
  /\ \A r \in Requests : WF_responseVars(Receive(r))
  /\ WF_responseVars(\E r \in Requests : Ask(r))

ResponseSpec == ResponseInit /\ [][ResponseNext]_responseVars /\ ResponseFairness

-----------------------------------------------------------------------------
(* Properties.                                                             *)

\* What the client is told is so. A success gives the whole result, every row
\* in its place, however its fragments were split, interleaved with a request
\* that was given up, or shared out between two: unless a fragment was pushed
\* twice, since fetch_message counts the fragments and does not compare them. A
\* failure means that the job failed, that one of its rows alone is too large to
\* be pushed, or that the sink gave up on Redis.
GivenIsTrue ==
  caller.at = "given" =>
    CASE caller.message.status = "success" ->
           doubled \/ caller.message.data = AllRows(job.rows)
      [] caller.message.status = "failed" ->
           \/ job.outcome = "failed"
           \/ \E i \in DOMAIN job.rows : Overhead + job.rows[i] > PayloadLimit
           \/ job.max_retries > 0 /\ faults > 0

\* If no command fails, no connection breaks and no fetch gives up between two
\* fragments, the client is given a result, a failed one included.
ClientIsAnswered == [](faults = 0 /\ ~gave_up) => <>(caller.at = "given")
=============================================================================
