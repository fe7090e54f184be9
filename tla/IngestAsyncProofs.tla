--------------------------- MODULE IngestAsyncProofs ---------------------------
(***************************************************************************)
(* Proofs about IngestAsync for any number of jobs and of threads, and any *)
(* outcomes of submissions: its type invariant, that the combined future   *)
(* is not done before every job is in a terminal state, and that each      *)
(* result is collected once.                                               *)
(***************************************************************************)
EXTENDS IngestAsync, SequenceTheorems, FiniteSetTheorems, TLAPS

-----------------------------------------------------------------------------
(* The steps of JobClient keep the types of the client's variables.        *)

\* The states of a job, in their order.
LEMMA RankFact ==
  /\ Rank("PENDING") = 1 /\ Rank("SUBMITTED_ASYNC") = 2 /\ Rank("SUBMITTED") = 3
  /\ Rank("PROCESSING") = 4 /\ Rank("COMPLETED") = 5 /\ Rank("FAILED") = 6
  /\ Rank("CANCELLED") = 7
<1>1. DOMAIN JobStateEnum = 1..7
  BY DEF JobStateEnum
<1>2. /\ JobStateEnum[1] = "PENDING" /\ JobStateEnum[2] = "SUBMITTED_ASYNC"
      /\ JobStateEnum[3] = "SUBMITTED" /\ JobStateEnum[4] = "PROCESSING"
      /\ JobStateEnum[5] = "COMPLETED" /\ JobStateEnum[6] = "FAILED"
      /\ JobStateEnum[7] = "CANCELLED"
  BY DEF JobStateEnum
<1>3. \A i \in 1..7 : i = 1 \/ i = 2 \/ i = 3 \/ i = 4 \/ i = 5 \/ i = 6 \/ i = 7
  OBVIOUS
<1>4. ASSUME NEW i \in 1..7
      PROVE  \A k \in 1..7 : JobStateEnum[k] = JobStateEnum[i] <=> k = i
  BY <1>2, <1>3
<1>5. ASSUME NEW i \in 1..7 PROVE Rank(JobStateEnum[i]) = i
  <2>1. \A k \in DOMAIN JobStateEnum : JobStateEnum[k] = JobStateEnum[i] <=> k = i
    BY <1>1, <1>4
  <2> QED
    BY <2>1, <1>1 DEF Rank
<1> QED
  BY <1>2, <1>5

\* A job whose state may not become COMPLETED is in a terminal state.
LEMMA NotCompletable ==
  ASSUME ClientTypeOK, NEW j \in Jobs, state[j] # "absent", ~CanBecome(j, "COMPLETED")
  PROVE  state[j] \in TerminalStates
<1>1. state[j] \in States
  BY DEF ClientTypeOK
<1> QED
  BY <1>1, RankFact DEF CanBecome, States, TerminalStates

LEMMA ThreadFact ==
  /\ Idle \in ThreadStates
  /\ \A j \in Jobs : /\ At("submit", j) \in ThreadStates /\ At("mark", j) \in ThreadStates
                     /\ At("name", j) \in ThreadStates /\ At("fetch", j) \in ThreadStates
                     /\ At("callback", j) \in ThreadStates
  /\ \A t \in ThreadStates : t.at # "idle" => t.job \in Jobs
  BY DEF ThreadStates, Idle, At

TaskType == [do : {"submit", "fetch"}, job : Jobs]

LEMMA TasksType ==
  ASSUME NEW list \in Seq(Jobs), NEW what \in {"submit", "fetch"}
  PROVE  Tasks(what, list) \in Seq(TaskType)
<1>1. DOMAIN list = 1..Len(list) /\ Len(list) \in Nat
  OBVIOUS
<1>2. \A i \in 1..Len(list) : list[i] \in Jobs
  OBVIOUS
<1>3. Tasks(what, list) \in [1..Len(list) -> TaskType]
  BY <1>1, <1>2 DEF Tasks, Task, TaskType
<1> QED
  BY <1>1, <1>3, SeqDef

\* The steps of the callers that go through the registry.
LEMMA AddAndSubmitType ==
  ASSUME ClientTypeOK, NEW list \in Seq(Jobs), AddAndSubmit(list),
         UNCHANGED <<job_id, thread, fetch_future, serviceVars>>
  PROVE  ClientTypeOK'
<1>1. {list[i] : i \in DOMAIN list} \subseteq Jobs
  OBVIOUS
<1>2. Tasks("submit", list) \in Seq(TaskType)
  BY TasksType
<1>3. work' \in Seq(TaskType)
  BY <1>2, ConcatProperties DEF AddAndSubmit, ClientTypeOK, TaskType
<1> QED
  BY <1>1, <1>3 DEF AddAndSubmit, ClientTypeOK, States, serviceVars, TaskType

-----------------------------------------------------------------------------
(* The steps of the pool and of the service.                               *)

LEMMA TakeType ==
  ASSUME ClientTypeOK, NEW w \in Workers, Take(w)
  PROVE  ClientTypeOK'
<1>1. work \in Seq(TaskType) /\ work # <<>>
  BY DEF ClientTypeOK, Take, TaskType
<1>2. Head(work) \in TaskType /\ Tail(work) \in Seq(TaskType)
  BY <1>1, HeadTailProperties
<1>3. At(Head(work).do, Head(work).job) \in ThreadStates
  BY <1>2, ThreadFact DEF TaskType
<1> QED
  BY <1>2, <1>3 DEF ClientTypeOK, Take, TaskType, jobVars, serviceVars

LEMMA SendType ==
  ASSUME ClientTypeOK, NEW w \in Workers, Send(w)
  PROVE  ClientTypeOK'
<1>1. thread[w].job \in Jobs
  BY ThreadFact DEF ClientTypeOK, Send
<1> QED
  BY <1>1, ThreadFact DEF ClientTypeOK, Send, jobVars

LEMMA SendRaisesType ==
  ASSUME ClientTypeOK, NEW w \in Workers, NEW there \in ThreadStates, SendRaises(w, there)
  PROVE  ClientTypeOK'
<1>1. thread[w].job \in Jobs
  BY ThreadFact DEF ClientTypeOK, SendRaises
<1> QED
  BY <1>1 DEF ClientTypeOK, SendRaises, Become, States, serviceVars

LEMMA MarkType ==
  ASSUME ClientTypeOK, NEW w \in Workers, Mark(w)
  PROVE  ClientTypeOK'
<1>1. thread[w].job \in Jobs
  BY ThreadFact DEF ClientTypeOK, Mark
<1> QED
  BY <1>1, ThreadFact DEF ClientTypeOK, Mark, Become, States, serviceVars

LEMMA NameType ==
  ASSUME ClientTypeOK, NEW w \in Workers, NEW there \in ThreadStates, Name(w, there)
  PROVE  ClientTypeOK'
<1>1. thread[w].job \in Jobs
  BY ThreadFact DEF ClientTypeOK, Name
<1> QED
  BY <1>1 DEF ClientTypeOK, Name, serviceVars

LEMMA FetchType ==
  ASSUME ClientTypeOK, NEW j \in Jobs, NEW answer \in Answers, Fetch(j, answer),
         job_specs' \subseteq Jobs, UNCHANGED <<job_id, poolVars, verdict>>
  PROVE  ClientTypeOK'
<1> USE DEF ClientTypeOK, poolVars
<1>1. CASE FetchRefused(j, answer)
  BY <1>1 DEF FetchRefused
<1>2. CASE FetchAnswered(j, answer)
  BY <1>2 DEF FetchAnswered, Become, States
<1>3. CASE FetchTimesOut(j, answer)
  BY <1>3 DEF FetchTimesOut
<1> QED
  BY <1>1, <1>2, <1>3 DEF Fetch

LEMMA ProcessType ==
  ASSUME ClientTypeOK, NEW j \in Jobs, Process(j)
  PROVE  ClientTypeOK'
  BY DEF ClientTypeOK, Process, jobVars, poolVars


\* What _done_callback does after the state of its job is final.
Past == {"note", "extend", "compare", "set", "over"}

\* A callback gets past the state of its job before it notes its future, and
\* the combined future waits for all to be noted.
Order ==
  /\ main = "start" => registered = 0
  /\ main # "start" => \A j \in Jobs : state[j] # "absent"
  /\ \A j \in Jobs : callback[j] \in Past => state[j] \in TerminalStates
  /\ \A j \in completed_futures : callback[j] \in Past \ {"note"}
  /\ \A j \in Jobs : callback[j] = "set" => completed_futures = Jobs
  /\ combined_future = "done" => completed_futures = Jobs

IInv == TypeOK /\ Order

-----------------------------------------------------------------------------
LEMMA JobsFact == Cardinality(Jobs) \in Nat /\ Jobs = 1..Cardinality(Jobs)
  BY AsyncAssumption

LEMMA AllJobs ==
  ASSUME NEW list, list = [i \in 1..Cardinality(Jobs) |-> i]
  PROVE  list \in Seq(Jobs) /\ {list[i] : i \in DOMAIN list} = Jobs
<1>1. DOMAIN list = Jobs /\ \A i \in Jobs : list[i] = i
  BY JobsFact
<1>2. list \in [1..Cardinality(Jobs) -> Jobs]
  BY JobsFact, <1>1
<1> QED
  BY <1>1, <1>2, JobsFact, SeqDef

LEMMA InitInv == Init => IInv
<1> SUFFICES ASSUME Init PROVE IInv
  OBVIOUS
<1>1. ClientTypeOK
  BY EmptySeq DEF Init, ClientInit, ClientTypeOK, States, ThreadStates
<1>2. TypeOK
  BY <1>1, JobsFact, EmptySeq DEF Init, TypeOK, Running
<1>3. Order
  BY DEF Init, Order, Past
<1> QED
  BY <1>2, <1>3 DEF IInv

\* The actions of ingest_async itself.
LEMMA StartInv ==
  ASSUME IInv, Start
  PROVE  IInv'
<1> DEFINE list == [i \in 1..Cardinality(Jobs) |-> i]
<1>1. list \in Seq(Jobs) /\ {list[i] : i \in DOMAIN list} = Jobs
  BY AllJobs
<1>2. ClientTypeOK'
  BY <1>1, AddAndSubmitType DEF IInv, TypeOK, Start
<1>3. TypeOK'
  BY <1>2 DEF IInv, TypeOK, Start, callbackVars
<1>4. registered = 0 /\ \A j \in Jobs : callback[j] = "none"
  BY JobsFact DEF IInv, TypeOK, Order, Start
<1>5. \A j \in Jobs : state'[j] = "SUBMITTED_ASYNC"
  BY <1>1 DEF Start, AddAndSubmit
<1>6. Order'
  BY <1>4, <1>5 DEF IInv, Order, Start, callbackVars, Past
<1> QED
  BY <1>3, <1>6 DEF IInv

LEMMA AddDoneCallbackInv ==
  ASSUME IInv, AddDoneCallback
  PROVE  IInv'
<1> DEFINE j == registered + 1
<1>1. registered \in Nat /\ registered < Cardinality(Jobs) /\ j \in Jobs
  BY JobsFact DEF IInv, TypeOK, AddDoneCallback
<1>2. callback[j] = "none"
  BY <1>1, JobsFact DEF IInv, TypeOK
<1>3. callback' = [callback EXCEPT ![j] = callback'[j]] /\ callback'[j] \in {"registered", "fetch"}
  BY <1>1 DEF IInv, TypeOK, AddDoneCallback, Move
<1>4. ClientTypeOK'
  BY DEF IInv, TypeOK, ClientTypeOK, AddDoneCallback, clientVars, jobVars, poolVars, serviceVars
<1>5. \A k \in Jobs : callback'[k] = "none" <=> k > registered'
  BY <1>1, <1>3, JobsFact DEF IInv, TypeOK, AddDoneCallback
<1>6. callback' \in [Jobs -> {"none", "registered", "over"} \cup Running]
  BY <1>1, <1>3 DEF IInv, TypeOK, Running
<1>7. TypeOK'
  BY <1>1, <1>4, <1>5, <1>6, JobsFact DEF IInv, TypeOK, AddDoneCallback
<1>8. Order'
  BY <1>1, <1>2, <1>3 DEF IInv, TypeOK, Order, Past, AddDoneCallback, clientVars, jobVars
<1> QED
  BY <1>7, <1>8 DEF IInv

LEMMA ReturnInv ==
  ASSUME IInv, Return
  PROVE  IInv'
<1>1. ClientTypeOK'
  BY DEF IInv, TypeOK, ClientTypeOK, Return, clientVars, jobVars, poolVars, serviceVars
<1>2. TypeOK'
  BY <1>1 DEF IInv, TypeOK, Return, callbackVars
<1>3. Order'
  BY DEF IInv, Order, Return, clientVars, jobVars, callbackVars
<1> QED
  BY <1>2, <1>3 DEF IInv

-----------------------------------------------------------------------------
\* A callback that is running, or registered, may move on.
LEMMA MoveType ==
  ASSUME IInv, NEW j \in Jobs, callback[j] # "none", UNCHANGED registered,
         NEW to \in {"over"} \cup Running, Move(j, to)
  PROVE  /\ callback' \in [Jobs -> {"none", "registered", "over"} \cup Running]
         /\ \A k \in Jobs : callback'[k] = "none" <=> k > registered'
  BY DEF IInv, TypeOK, Move, Running

LEMMA EndType ==
  ASSUME IInv, NEW j \in Jobs, End(j)
  PROVE  thread' \in [Workers -> ThreadStates]
  BY ThreadFact DEF IInv, TypeOK, ClientTypeOK, End

LEMMA CallbackFetchInv ==
  ASSUME IInv, NEW j \in Jobs, CallbackFetch(j)
  PROVE  IInv'
<1>1. PICK answer \in Answers : 
        /\ Fetch(j, answer)
        /\ IF Fetched(answer)
           THEN /\ result' = [result EXCEPT ![j] = IF answer = "good" THEN "data" ELSE "empty"]
                /\ job_specs' = job_specs \ {j} /\ Move(j, "finish")
           ELSE UNCHANGED <<result, job_specs, callback>>
  BY DEF CallbackFetch
<1>2. job_specs' \subseteq Jobs
  BY <1>1 DEF IInv, TypeOK, ClientTypeOK
<1>3. ClientTypeOK'
  BY <1>1, <1>2, FetchType DEF IInv, TypeOK, CallbackFetch
<1>4. /\ callback' \in [Jobs -> {"none", "registered", "over"} \cup Running]
      /\ \A k \in Jobs : callback'[k] = "none" <=> k > registered'
  <2>1. CASE Fetched(answer)
    BY <1>1, <2>1, MoveType DEF CallbackFetch, Running
  <2>2. CASE ~Fetched(answer)
    BY <1>1, <2>2 DEF CallbackFetch, IInv, TypeOK
  <2> QED
    BY <2>1, <2>2
<1>5. result' \in [Jobs -> {"none", "data", "empty", "None"}]
  BY <1>1 DEF IInv, TypeOK
<1>6. TypeOK'
  BY <1>3, <1>4, <1>5 DEF IInv, TypeOK, CallbackFetch
<1>7. \A k \in Jobs : callback'[k] \in Past <=> callback[k] \in Past /\ k # j
  BY <1>1 DEF IInv, TypeOK, CallbackFetch, Move, Past
<1>8. \A k \in Jobs : k # j => callback'[k] = callback[k]
  BY <1>1 DEF IInv, TypeOK, Move
<1>9. /\ \A k \in Jobs : k # j => state'[k] = state[k]
      /\ state'[j] \in {state[j], "PROCESSING"}
  BY <1>1 DEF IInv, TypeOK, ClientTypeOK, Fetch, FetchRefused, FetchAnswered, FetchTimesOut, Become
<1>10. callback[j] = "fetch" /\ callback'[j] # "set"
  BY <1>1 DEF IInv, TypeOK, CallbackFetch, Move
<1>11. Order'
  BY <1>7, <1>8, <1>9, <1>10 DEF IInv, TypeOK, Order, Past, CallbackFetch
<1> QED
  BY <1>6, <1>11 DEF IInv

LEMMA FinishInv ==
  ASSUME IInv, NEW j \in Jobs, Finish(j)
  PROVE  IInv'
<1>1. main # "start"
  BY JobsFact DEF IInv, TypeOK, Order, Finish
<1>2. state[j] # "absent"
  BY <1>1 DEF IInv, Order
<1>3. /\ state' \in [Jobs -> States] /\ state'[j] \in TerminalStates
      /\ \A k \in Jobs : k # j => state'[k] = state[k]
  <2>1. CASE CanBecome(j, "COMPLETED")
    BY <2>1 DEF Finish, Become, IInv, TypeOK, ClientTypeOK, States, TerminalStates
  <2>2. CASE ~CanBecome(j, "COMPLETED")
    BY <2>2, <1>2, NotCompletable DEF Finish, IInv, TypeOK, ClientTypeOK
  <2> QED
    BY <2>1, <2>2
<1>4. ClientTypeOK'
  BY <1>3 DEF Finish, IInv, TypeOK, ClientTypeOK, poolVars, serviceVars
<1>5. /\ callback' \in [Jobs -> {"none", "registered", "over"} \cup Running]
      /\ \A k \in Jobs : callback'[k] = "none" <=> k > registered'
  BY MoveType DEF Finish, Running
<1>6. result' \in [Jobs -> {"none", "data", "empty", "None"}]
  BY DEF Finish, IInv, TypeOK
<1>7. TypeOK'
  BY <1>4, <1>5, <1>6 DEF Finish, IInv, TypeOK
<1>8. callback' = [callback EXCEPT ![j] = "note"] /\ callback[j] = "finish"
  BY DEF Finish, Move
<1>9. state'[j] # "absent"
  BY <1>3 DEF TerminalStates
<1>10. Order'
  BY <1>3, <1>8, <1>9 DEF Finish, IInv, TypeOK, Order, Past
<1> QED
  BY <1>7, <1>10 DEF IInv

LEMMA NoteInv ==
  ASSUME IInv, NEW j \in Jobs, Note(j)
  PROVE  IInv'
<1>1. ClientTypeOK'
  BY DEF Note, IInv, TypeOK, ClientTypeOK, clientVars, jobVars, poolVars, serviceVars
<1>2. /\ callback' \in [Jobs -> {"none", "registered", "over"} \cup Running]
      /\ \A k \in Jobs : callback'[k] = "none" <=> k > registered'
  BY MoveType DEF Note, Running
<1>3. TypeOK'
  BY <1>1, <1>2 DEF Note, IInv, TypeOK
<1>4. callback' = [callback EXCEPT ![j] = "extend"] /\ callback[j] = "note"
  BY DEF Note, Move
<1>5. completed_futures' \subseteq Jobs /\ completed_futures \subseteq completed_futures'
  BY DEF Note, IInv, TypeOK
<1>6. Order'
  BY <1>4, <1>5 DEF Note, IInv, TypeOK, Order, Past, clientVars, jobVars
<1> QED
  BY <1>3, <1>6 DEF IInv

LEMMA ExtendInv ==
  ASSUME IInv, NEW j \in Jobs, Extend(j)
  PROVE  IInv'
<1>1. thread' \in [Workers -> ThreadStates]
  BY EndType DEF Extend, IInv, TypeOK, ClientTypeOK
<1>2. ClientTypeOK'
  BY <1>1 DEF Extend, IInv, TypeOK, ClientTypeOK, jobVars, serviceVars
<1>3. PICK to \in {"over", "compare"} : Move(j, to)
  BY DEF Extend, End
<1>4. /\ callback' \in [Jobs -> {"none", "registered", "over"} \cup Running]
      /\ \A k \in Jobs : callback'[k] = "none" <=> k > registered'
  BY <1>3, MoveType DEF Extend, Running
<1>5. future_results' \in Seq(Jobs)
  BY AppendProperties DEF Extend, IInv, TypeOK
<1>6. TypeOK'
  BY <1>2, <1>4, <1>5 DEF Extend, IInv, TypeOK
<1>7. callback' = [callback EXCEPT ![j] = to] /\ callback[j] = "extend"
  BY <1>3 DEF Extend, Move
<1>8. Order'
  BY <1>7 DEF Extend, IInv, TypeOK, Order, Past, jobVars
<1> QED
  BY <1>6, <1>8 DEF IInv

LEMMA CompareInv ==
  ASSUME IInv, NEW j \in Jobs, Compare(j)
  PROVE  IInv'
<1>1. thread' \in [Workers -> ThreadStates]
  BY EndType DEF Compare, IInv, TypeOK, ClientTypeOK
<1>2. ClientTypeOK'
  BY <1>1 DEF Compare, IInv, TypeOK, ClientTypeOK, jobVars, serviceVars
<1>3. PICK to \in {"over", "set"} : Move(j, to) /\ (to = "set" => completed_futures = Jobs)
  BY DEF Compare, AllCompleted, End
<1>4. /\ callback' \in [Jobs -> {"none", "registered", "over"} \cup Running]
      /\ \A k \in Jobs : callback'[k] = "none" <=> k > registered'
  BY <1>3, MoveType DEF Compare, Running
<1>5. TypeOK'
  BY <1>2, <1>4 DEF Compare, IInv, TypeOK
<1>6. callback' = [callback EXCEPT ![j] = to] /\ callback[j] = "compare"
  BY <1>3 DEF Compare, Move
<1>7. Order'
  BY <1>3, <1>6 DEF Compare, IInv, TypeOK, Order, Past, jobVars
<1> QED
  BY <1>5, <1>7 DEF IInv

LEMMA SetResultInv ==
  ASSUME IInv, NEW j \in Jobs, SetResult(j)
  PROVE  IInv'
<1>1. thread' \in [Workers -> ThreadStates]
  BY EndType DEF SetResult
<1>2. ClientTypeOK'
  BY <1>1 DEF SetResult, IInv, TypeOK, ClientTypeOK, jobVars, serviceVars
<1>3. /\ callback' \in [Jobs -> {"none", "registered", "over"} \cup Running]
      /\ \A k \in Jobs : callback'[k] = "none" <=> k > registered'
  BY MoveType DEF SetResult, End
<1>4. TypeOK'
  BY <1>2, <1>3 DEF SetResult, IInv, TypeOK
<1>5. callback' = [callback EXCEPT ![j] = "over"] /\ callback[j] = "set"
  BY DEF SetResult, End, Move
<1>6. Order'
  BY <1>5 DEF SetResult, IInv, TypeOK, Order, Past, jobVars
<1> QED
  BY <1>4, <1>6 DEF IInv

-----------------------------------------------------------------------------
\* The pool changes the state of jobs, and only of those that are not final,
\* or it makes them final.
LEMMA OrderKept ==
  ASSUME IInv, UNCHANGED asyncVars,
         \A j \in Jobs : /\ state[j] \in TerminalStates => state'[j] \in TerminalStates
                         /\ state[j] # "absent" => state'[j] # "absent"
  PROVE  Order'
  BY DEF IInv, TypeOK, Order, Past, asyncVars, callbackVars

LEMMA PoolInv ==
  ASSUME IInv, NEW w \in Workers, Take(w) \/ Send(w) \/ Mark(w), UNCHANGED asyncVars
  PROVE  IInv'
<1>1. ClientTypeOK'
  BY TakeType, SendType, MarkType DEF IInv, TypeOK
<1>2. TypeOK'
  BY <1>1 DEF IInv, TypeOK, asyncVars, callbackVars
<1>3. \A j \in Jobs : /\ state[j] \in TerminalStates => state'[j] \in TerminalStates
                      /\ state[j] # "absent" => state'[j] # "absent"
  <2>1. CASE Take(w) \/ Send(w)
    BY <2>1 DEF Take, Send, jobVars
  <2>2. CASE Mark(w)
    BY <2>2 DEF Mark, CanBecome, Become, IInv, TypeOK, ClientTypeOK, TerminalStates
  <2> QED
    BY <2>1, <2>2
<1>4. Order'
  BY <1>3, OrderKept
<1> QED
  BY <1>2, <1>4 DEF IInv

LEMMA EndSubmissionInv ==
  ASSUME IInv, NEW w \in Workers, EndSubmission(w)
  PROVE  IInv'
<1> DEFINE j == thread[w].job
<1>1. j \in Jobs
  BY ThreadFact DEF IInv, TypeOK, ClientTypeOK, EndSubmission
<1>2. There(w) \in ThreadStates
  BY <1>1, ThreadFact DEF There
<1>3. ClientTypeOK'
  BY <1>2, SendRaisesType, NameType DEF IInv, TypeOK, EndSubmission
<1>4. \/ UNCHANGED callback
      \/ callback[j] = "registered" /\ callback' = [callback EXCEPT ![j] = "fetch"]
  BY DEF EndSubmission, HasCallback, Move
<1>5. /\ callback' \in [Jobs -> {"none", "registered", "over"} \cup Running]
      /\ \A k \in Jobs : callback'[k] = "none" <=> k > registered'
  BY <1>1, <1>4 DEF IInv, TypeOK, EndSubmission, Running
<1>6. TypeOK'
  BY <1>3, <1>5 DEF IInv, TypeOK, EndSubmission
<1>7. \A k \in Jobs : state'[k] = state[k] \/ state'[k] = "FAILED"
  BY <1>1 DEF EndSubmission, SendRaises, Name, Become, IInv, TypeOK, ClientTypeOK
<1>8. \A k \in Jobs : \/ callback'[k] = callback[k]
                      \/ callback[k] = "registered" /\ callback'[k] = "fetch"
  BY <1>1, <1>4 DEF IInv, TypeOK
<1>9. Order'
  BY <1>7, <1>8 DEF IInv, TypeOK, Order, Past, EndSubmission, TerminalStates
<1> QED
  BY <1>6, <1>9 DEF IInv

LEMMA ServiceInv ==
  ASSUME IInv, NEW j \in Jobs, Service(j)
  PROVE  IInv'
<1>1. ClientTypeOK'
  BY ProcessType DEF IInv, TypeOK, Service
<1>2. TypeOK'
  BY <1>1 DEF IInv, TypeOK, Service, asyncVars, callbackVars
<1>3. Order'
  BY OrderKept DEF Service, Process, jobVars
<1> QED
  BY <1>2, <1>3 DEF IInv

LEMMA StutterInv ==
  ASSUME IInv, UNCHANGED vars
  PROVE  IInv'
<1>1. ClientTypeOK'
  BY DEF IInv, TypeOK, ClientTypeOK, vars, clientVars, jobVars, poolVars, serviceVars
<1>2. TypeOK'
  BY <1>1 DEF IInv, TypeOK, vars, asyncVars, callbackVars
<1>3. Order'
  BY DEF IInv, Order, vars, clientVars, jobVars, asyncVars, callbackVars
<1> QED
  BY <1>2, <1>3 DEF IInv

\* IInv is an invariant of ingest_async, whatever fairness it runs with.
LEMMA Invariance == AsyncSpec => []IInv
<1>1. IInv /\ [Next]_vars => IInv'
  <2> SUFFICES ASSUME IInv, [Next]_vars PROVE IInv'
    OBVIOUS
  <2>1. CASE Main
    BY <2>1, StartInv, AddDoneCallbackInv, ReturnInv DEF Main
  <2>2. ASSUME NEW j \in Jobs, Callback(j) PROVE IInv'
    BY <2>2, CallbackFetchInv, FinishInv, NoteInv, ExtendInv, CompareInv, SetResultInv DEF Callback
  <2>3. ASSUME NEW j \in Jobs, Service(j) PROVE IInv'
    BY <2>3, ServiceInv
  <2>4. ASSUME NEW w \in Workers, Worker(w) PROVE IInv'
    BY <2>4, PoolInv, EndSubmissionInv DEF Worker
  <2>5. CASE UNCHANGED vars
    BY <2>5, StutterInv
  <2> QED
    BY <2>1, <2>2, <2>3, <2>4, <2>5 DEF Next
<1> QED
  BY <1>1, InitInv, PTL DEF AsyncSpec

\* Every variable of ingest_async keeps its type, and the callbacks are added
\* in the order of the jobs.
THEOREM TypeCorrect == AsyncSpec => []TypeOK
  BY Invariance, PTL DEF IInv

\* Whatever submissions fail and however the callbacks interleave, the combined
\* future is done only when every job is in a terminal state.
THEOREM DoneAtEnd == AsyncSpec => []CompletesOnlyAtEnd
<1>1. IInv => CompletesOnlyAtEnd
  BY DEF IInv, TypeOK, Order, CompletesOnlyAtEnd
<1> QED
  BY <1>1, Invariance, PTL

-----------------------------------------------------------------------------
(* What is collected: the submission of each job is one task, and its      *)
(* callback finds what that task and the service have left.                *)

Submitting(w) == thread[w].at \in {"submit", "mark", "name"}

\* Each job is submitted by one task, which waits or is in one thread.
OneTask ==
  /\ \A i, k \in DOMAIN work : work[i].job = work[k].job => i = k
  /\ \A i \in DOMAIN work : \A w \in Workers : Submitting(w) => thread[w].job # work[i].job
  /\ \A v, w \in Workers :
       Submitting(v) /\ Submitting(w) /\ thread[v].job = thread[w].job => v = w

Known == {"refused", "processing", "ready", "taken"}
Pending(j, s, at) == submit_future[j] = "pending" /\ state[j] = s /\ service[j] \in at

\* How far a submission is, by where its task is.
Submission ==
  /\ main = "start" => /\ work = <<>> /\ \A w \in Workers : thread[w] = Idle
                       /\ \A j \in Jobs : submit_future[j] = "none"
  /\ \A i \in DOMAIN work :
       work[i].do = "submit" /\ Pending(work[i].job, "SUBMITTED_ASYNC", {"absent"})
  /\ \A w \in Workers : LET j == thread[w].job IN
       /\ thread[w].at = "submit" => Pending(j, "SUBMITTED_ASYNC", {"absent"})
       /\ thread[w].at = "mark" => Pending(j, "SUBMITTED_ASYNC", Known)
       /\ thread[w].at = "name" => Pending(j, "SUBMITTED", Known)

Kept(j) == \E i \in DOMAIN future_results : future_results[i] = j

\* What a callback has found, by how far it is.
Outcome(j) ==
  /\ submit_future[j] = "none" => main = "start" /\ service[j] = "absent"
  /\ submit_future[j] = "error" => state[j] = "FAILED" /\ service[j] = "absent"
  /\ submit_future[j] = "value" => service[j] \in Known
  /\ callback[j] \in {"none", "registered", "fetch"} =>
       /\ result[j] = "none"
       /\ submit_future[j] # "none" => j \in job_states
       /\ submit_future[j] = "value" => state[j] = "SUBMITTED"
  /\ callback[j] \in Running \cup {"over"} => submit_future[j] \in {"value", "error"}
  /\ callback[j] \in Past \cup {"finish"} =>
       /\ j \notin job_specs
       /\ submit_future[j] = "error" => result[j] \in {"empty", "None"}
       /\ submit_future[j] = "value" =>
            /\ service[j] = "taken"
            /\ result[j] = IF verdict[j] = "good" THEN "data" ELSE "empty"
  /\ callback[j] = "finish" /\ submit_future[j] = "value" => state[j] = "PROCESSING"
  /\ Kept(j) <=> callback[j] \in {"compare", "set", "over"} /\ result[j] = "data"

KeptOnce == \A i, k \in DOMAIN future_results : future_results[i] = future_results[k] => i = k
Outcomes == \A j \in Jobs : Outcome(j)

SInv == IInv /\ OneTask /\ Submission /\ Outcomes /\ KeptOnce

\* The jobs that tasks and threads are about.
LEMMA TaskJobs ==
  ASSUME ClientTypeOK
  PROVE  /\ \A i \in DOMAIN work : work[i].job \in Jobs
         /\ \A w \in Workers : Submitting(w) => thread[w].job \in Jobs
<1>1. work \in Seq(TaskType)
  BY DEF ClientTypeOK, TaskType
<1>2. \A i \in DOMAIN work : work[i] \in TaskType
  BY <1>1
<1> QED
  BY <1>2, ThreadFact DEF ClientTypeOK, TaskType, Submitting

LEMMA InitSInv == Init => SInv
<1> SUFFICES ASSUME Init PROVE SInv
  OBVIOUS
<1>1. OneTask /\ Submission
  BY DEF Init, ClientInit, OneTask, Submission, Submitting, Idle
<1>2. Outcomes /\ KeptOnce
  BY DEF Init, ClientInit, Outcomes, Outcome, KeptOnce, Kept, Running, Past
<1> QED
  BY <1>1, <1>2, InitInv DEF SInv

\* A job is all that a callback changes, and its submission is over.
LEMMA TasksKept ==
  ASSUME SInv, NEW j \in Jobs, submit_future[j] \in {"value", "error"},
         UNCHANGED <<main, work, submit_future>>,
         \A k \in Jobs : k # j => state'[k] = state[k] /\ service'[k] = service[k],
         \A w \in Workers : thread'[w] = thread[w] \/ thread'[w] = Idle
  PROVE  OneTask' /\ Submission'
<1>1. ClientTypeOK
  BY DEF SInv, IInv, TypeOK
<1>2. main # "start"
  BY DEF SInv, Submission
<1>3. \A w \in Workers : Submitting(w)' => thread'[w] = thread[w] /\ Submitting(w)
  BY DEF Submitting, Idle
<1>4. OneTask'
  BY <1>3 DEF SInv, OneTask
<1>5. \A k \in Jobs : \A s, at : Pending(k, s, at) => Pending(k, s, at)'
  BY DEF Pending
<1>6. \A w \in Workers : thread'[w].at \in {"submit", "mark", "name"} => thread'[w] = thread[w]
  BY <1>3 DEF Submitting
<1>7. \A w \in Workers : thread[w].at \in {"submit", "mark", "name"} => thread[w].job \in Jobs
  BY <1>1, TaskJobs DEF Submitting
<1>8. Submission'
  BY <1>1, <1>2, <1>5, <1>6, <1>7, TaskJobs DEF SInv, Submission
<1> QED
  BY <1>4, <1>8

\* What is found of a job stays when other jobs go on.
LEMMA OutcomeKept ==
  ASSUME SInv, NEW k \in Jobs, Kept(k)' <=> Kept(k), UNCHANGED main \/ submit_future[k] # "none",
         UNCHANGED <<submit_future[k], state[k], service[k], callback[k], result[k], verdict>>,
         k \in job_states => k \in job_states', k \in job_specs' => k \in job_specs
  PROVE  Outcome(k)'
  BY DEF SInv, Outcomes, Outcome

\* A callback is about a job whose submission has ended.
LEMMA Ended ==
  ASSUME SInv, NEW j \in Jobs, callback[j] \in Running
  PROVE  submit_future[j] \in {"value", "error"} /\ main # "start"
  BY DEF SInv, Outcomes, Outcome, Submission

LEMMA CallbackFetchS ==
  ASSUME SInv, NEW j \in Jobs, CallbackFetch(j)
  PROVE  OneTask' /\ Submission' /\ Outcomes' /\ KeptOnce'
<1>1. callback[j] = "fetch" /\ UNCHANGED <<job_id, poolVars, verdict, main, future_results>>
  BY DEF CallbackFetch
<1>2. submit_future[j] \in {"value", "error"} /\ main # "start"
  BY <1>1, Ended DEF Running
<1>3. ClientTypeOK /\ TypeOK
  BY DEF SInv, IInv, TypeOK
<1>4. PICK answer \in Answers :
        /\ Fetch(j, answer)
        /\ IF Fetched(answer)
           THEN /\ result' = [result EXCEPT ![j] = IF answer = "good" THEN "data" ELSE "empty"]
                /\ job_specs' = job_specs \ {j} /\ Move(j, "finish")
           ELSE UNCHANGED <<result, job_specs, callback>>
  BY DEF CallbackFetch
<1>5. \A k \in Jobs : k # j => /\ state'[k] = state[k] /\ service'[k] = service[k]
                               /\ callback'[k] = callback[k] /\ result'[k] = result[k]
                               /\ k \in job_states => k \in job_states'
                               /\ k \in job_specs' => k \in job_specs
  BY <1>3, <1>4 DEF Fetch, FetchRefused, FetchAnswered, FetchTimesOut, Become, Move,
                    ClientTypeOK, TypeOK
<1>6. OneTask' /\ Submission'
  BY <1>1, <1>2, <1>5, TasksKept DEF poolVars
<1>7. \A k \in Jobs : Kept(k)' <=> Kept(k)
  BY <1>1 DEF Kept
<1>8. KeptOnce'
  BY <1>1 DEF SInv, KeptOnce
<1>9. \A k \in Jobs : k # j => Outcome(k)'
  BY <1>1, <1>5, <1>7, OutcomeKept DEF poolVars
<1>10. /\ result[j] = "none" /\ j \in job_states /\ ~Kept(j)
       /\ submit_future[j] = "value" => state[j] = "SUBMITTED" /\ service[j] \in Known
       /\ submit_future[j] = "error" => state[j] = "FAILED" /\ service[j] = "absent"
  BY <1>1, <1>2 DEF SInv, Outcomes, Outcome
<1>11. Outcome(j)'
  <2>1. CASE FetchRefused(j, answer)
    <3>1. submit_future[j] = "error"
      BY <1>2, <1>10, <2>1 DEF FetchRefused, IsSubmitted
    <3>2. callback'[j] = "finish" /\ result'[j] = "empty" /\ j \notin job_specs'
      BY <1>3, <1>4, <2>1 DEF FetchRefused, Fetched, Move, TypeOK
    <3> QED
      BY <1>1, <1>7, <1>10, <2>1, <3>1, <3>2
         DEF FetchRefused, Outcome, Running, Past, poolVars
  <2>2. CASE FetchAnswered(j, answer)
    <3>1. submit_future[j] = "value"
      BY <1>2, <1>10, <2>2 DEF FetchAnswered
    <3>2. answer = verdict[j] /\ verdict[j] \in {"good", "failed"}
      BY <1>3, <2>2 DEF FetchAnswered, ClientTypeOK
    <3>3. /\ callback'[j] = "finish" /\ j \notin job_specs'
          /\ result'[j] = IF verdict[j] = "good" THEN "data" ELSE "empty"
      BY <1>3, <1>4, <3>2 DEF Fetched, Move, TypeOK
    <3>4. state'[j] = "PROCESSING" /\ service'[j] = "taken"
      BY <1>3, <2>2 DEF FetchAnswered, Become, ClientTypeOK
    <3> QED
      BY <1>1, <1>7, <1>10, <3>1, <3>3, <3>4 DEF Outcome, Running, Past, Known, poolVars
  <2>3. CASE FetchTimesOut(j, answer)
    <3>1. UNCHANGED <<result, job_specs, callback, state, job_states>>
      BY <1>4, <2>3 DEF FetchTimesOut, Fetched
    <3>2. submit_future[j] = "value"
      BY <1>2, <1>10, <2>3 DEF FetchTimesOut, IsSubmitted
    <3>3. service'[j] \in Known
      BY <1>3, <1>10, <2>3, <3>2 DEF FetchTimesOut, ClientTypeOK, Known
    <3> QED
      BY <1>1, <1>2, <1>7, <1>10, <3>1, <3>2, <3>3 DEF Outcome, Running, Past, poolVars
  <2> QED
    BY <1>4, <2>1, <2>2, <2>3 DEF Fetch
<1> QED
  BY <1>6, <1>8, <1>9, <1>11 DEF Outcomes

LEMMA FinishS ==
  ASSUME SInv, NEW j \in Jobs, Finish(j)
  PROVE  OneTask' /\ Submission' /\ Outcomes' /\ KeptOnce'
<1>1. /\ callback[j] = "finish" /\ Move(j, "note")
      /\ UNCHANGED <<job_states, job_specs, poolVars, serviceVars, main, future_results>>
  BY DEF Finish
<1>2. submit_future[j] \in {"value", "error"} /\ main # "start"
  BY <1>1, Ended DEF Running
<1>3. ClientTypeOK /\ TypeOK
  BY DEF SInv, IInv, TypeOK
<1>4. \A k \in Jobs : k # j => /\ state'[k] = state[k] /\ callback'[k] = callback[k]
                               /\ result'[k] = result[k]
  BY <1>3 DEF Finish, Become, Move, ClientTypeOK, TypeOK
<1>5. OneTask' /\ Submission'
  BY <1>1, <1>2, <1>4, TasksKept DEF poolVars, serviceVars
<1>6. (\A k \in Jobs : Kept(k)' <=> Kept(k)) /\ KeptOnce'
  BY <1>1 DEF Kept, SInv, KeptOnce
<1>7. \A k \in Jobs : k # j => Outcome(k)'
  BY <1>1, <1>4, <1>6, OutcomeKept DEF poolVars, serviceVars
<1>8. callback'[j] = "note" /\ ~Kept(j)
  BY <1>1, <1>3 DEF Move, TypeOK, SInv, Outcomes, Outcome
<1>9. CASE submit_future[j] = "value"
  <2>1. CanBecome(j, "COMPLETED")
    BY <1>1, <1>9, RankFact DEF SInv, Outcomes, Outcome, CanBecome, TerminalStates
  <2>2. result' = result
    BY <2>1 DEF Finish
  <2>3. Outcome(j)'
    BY <1>1, <1>6, <1>8, <1>9, <2>2
       DEF SInv, Outcomes, Outcome, Running, Past, poolVars, serviceVars
  <2> QED
    BY <1>5, <1>6, <1>7, <2>3 DEF Outcomes
<1>10. CASE submit_future[j] = "error"
  <2>1. ~CanBecome(j, "COMPLETED")
    BY <1>10 DEF SInv, Outcomes, Outcome, CanBecome, TerminalStates
  <2>2. state' = state /\ result'[j] = "None"
    BY <1>3, <2>1 DEF Finish, TypeOK
  <2>3. Outcome(j)'
    BY <1>1, <1>6, <1>8, <1>10, <2>2
       DEF SInv, Outcomes, Outcome, Running, Past, poolVars, serviceVars
  <2> QED
    BY <1>5, <1>6, <1>7, <2>3 DEF Outcomes
<1> QED
  BY <1>2, <1>9, <1>10

\* A callback that only moves on.
LEMMA MovedOn ==
  ASSUME SInv, NEW j \in Jobs, callback[j] \in Running \ {"fetch"},
         UNCHANGED <<main, jobVars, work, submit_future, serviceVars, result>>,
         \A w \in Workers : thread'[w] = thread[w] \/ thread'[w] = Idle,
         NEW to \in Past, callback' = [callback EXCEPT ![j] = to],
         callback[j] # "finish",
         \A k \in Jobs : k # j => (Kept(k)' <=> Kept(k)),
         Kept(j)' <=> to \in {"compare", "set", "over"} /\ result[j] = "data"
  PROVE  OneTask' /\ Submission' /\ Outcomes'
<1>1. submit_future[j] \in {"value", "error"} /\ main # "start"
  BY Ended
<1>2. OneTask' /\ Submission'
  BY <1>1, TasksKept DEF jobVars, serviceVars
<1>3. \A k \in Jobs : k # j => callback'[k] = callback[k]
  BY DEF SInv, IInv, TypeOK
<1>4. callback'[j] = to
  BY DEF SInv, IInv, TypeOK
<1>5. \A k \in Jobs : k # j => Outcome(k)'
  BY <1>3, OutcomeKept DEF jobVars, serviceVars
<1>6. callback[j] \in Past
  BY DEF Past, Running
<1>7. Outcome(j)'
  BY <1>1, <1>4, <1>6 DEF SInv, Outcomes, Outcome, Past, Running, jobVars, serviceVars
<1> QED
  BY <1>2, <1>5, <1>7 DEF Outcomes

\* Note, Compare and SetResult leave the list of results alone.
LEMMA ListKept ==
  ASSUME SInv, UNCHANGED future_results
  PROVE  (\A k \in Jobs : Kept(k)' <=> Kept(k)) /\ KeptOnce'
  BY DEF Kept, SInv, KeptOnce

LEMMA NoteS ==
  ASSUME SInv, NEW j \in Jobs, Note(j)
  PROVE  OneTask' /\ Submission' /\ Outcomes' /\ KeptOnce'
<1>1. callback[j] = "note" /\ callback' = [callback EXCEPT ![j] = "extend"] /\ UNCHANGED future_results
  BY DEF Note, Move
<1>2. ~Kept(j)
  BY <1>1 DEF SInv, Outcomes, Outcome
<1> QED
  BY <1>1, <1>2, ListKept, MovedOn DEF Note, Running, Past, clientVars, poolVars

LEMMA CompareS ==
  ASSUME SInv, NEW j \in Jobs, Compare(j)
  PROVE  OneTask' /\ Submission' /\ Outcomes' /\ KeptOnce'
<1>1. PICK to \in {"over", "set"} : Move(j, to)
  BY DEF Compare, End
<1>2. /\ callback[j] = "compare" /\ callback' = [callback EXCEPT ![j] = to]
      /\ UNCHANGED <<future_results, result>>
  BY <1>1 DEF Compare, Move
<1>3. \A w \in Workers : thread'[w] = thread[w] \/ thread'[w] = Idle
  BY DEF Compare, End
<1>4. Kept(j) <=> result[j] = "data"
  BY <1>2 DEF SInv, Outcomes, Outcome
<1> QED
  BY <1>2, <1>3, <1>4, ListKept, MovedOn DEF Compare, Running, Past

LEMMA SetResultS ==
  ASSUME SInv, NEW j \in Jobs, SetResult(j)
  PROVE  OneTask' /\ Submission' /\ Outcomes' /\ KeptOnce'
<1>1. /\ callback[j] = "set" /\ callback' = [callback EXCEPT ![j] = "over"]
      /\ UNCHANGED <<future_results, result>>
  BY DEF SetResult, End, Move
<1>2. \A w \in Workers : thread'[w] = thread[w] \/ thread'[w] = Idle
  BY DEF SetResult, End
<1>3. Kept(j) <=> result[j] = "data"
  BY <1>1 DEF SInv, Outcomes, Outcome
<1> QED
  BY <1>1, <1>2, <1>3, ListKept, MovedOn DEF SetResult, Running, Past

LEMMA ExtendS ==
  ASSUME SInv, NEW j \in Jobs, Extend(j)
  PROVE  OneTask' /\ Submission' /\ Outcomes' /\ KeptOnce'
<1>1. PICK to \in {"over", "compare"} : Move(j, to) /\ (to = "over" => result[j] = "None")
  BY DEF Extend, End
<1>2. callback[j] = "extend" /\ callback' = [callback EXCEPT ![j] = to] /\ UNCHANGED result
  BY <1>1 DEF Extend, Move
<1>3. \A w \in Workers : thread'[w] = thread[w] \/ thread'[w] = Idle
  BY DEF Extend, End
<1>4. ~Kept(j) /\ future_results \in Seq(Jobs)
  BY <1>2 DEF SInv, Outcomes, Outcome, IInv, TypeOK
<1>5. CASE result[j] = "data"
  <2> DEFINE n == Len(future_results)
  <2>1. future_results' = Append(future_results, j) /\ n \in Nat
    BY <1>4, <1>5 DEF Extend
  <2>2. /\ DOMAIN future_results = 1..n /\ DOMAIN future_results' = 1..(n + 1)
        /\ \A i \in 1..n : future_results'[i] = future_results[i]
        /\ future_results'[n + 1] = j
    BY <1>4, <2>1, AppendProperties
  <2>3. Kept(j)'
    BY <2>1, <2>2 DEF Kept
  <2>4. \A k \in Jobs : k # j => (Kept(k)' <=> Kept(k))
    BY <2>1, <2>2 DEF Kept
  <2>5. KeptOnce'
    <3> SUFFICES ASSUME NEW i \in 1..(n + 1), NEW k \in 1..(n + 1),
                        future_results'[i] = future_results'[k]
                 PROVE  i = k
      BY <2>2 DEF KeptOnce
    <3>1. CASE i \in 1..n /\ k \in 1..n
      BY <2>2, <3>1 DEF SInv, KeptOnce
    <3>2. CASE i \in 1..n /\ k = n + 1
      BY <1>4, <2>2, <3>2 DEF Kept
    <3>3. CASE i = n + 1 /\ k \in 1..n
      BY <1>4, <2>2, <3>3 DEF Kept
    <3> QED
      BY <2>1, <3>1, <3>2, <3>3
  <2> QED
    BY <1>1, <1>2, <1>3, <1>5, <2>3, <2>4, <2>5, MovedOn DEF Extend, Running, Past
<1>6. CASE result[j] # "data"
  <2>1. UNCHANGED future_results
    BY <1>6 DEF Extend
  <2> QED
    BY <1>1, <1>2, <1>3, <1>4, <1>6, <2>1, ListKept, MovedOn DEF Extend, Running, Past
<1> QED
  BY <1>5, <1>6

-----------------------------------------------------------------------------
(* The main thread, the pool and the service.                              *)

LEMMA StartS ==
  ASSUME SInv, Start
  PROVE  OneTask' /\ Submission' /\ Outcomes' /\ KeptOnce'
<1> DEFINE list == [i \in 1..Cardinality(Jobs) |-> i]
<1>1. {list[i] : i \in DOMAIN list} = Jobs /\ list \in Seq(Jobs)
  BY AllJobs
<1>2. /\ main = "start" /\ work = <<>> /\ \A w \in Workers : thread[w] = Idle
      /\ \A k \in Jobs : submit_future[k] = "none"
      /\ UNCHANGED <<thread, serviceVars, callbackVars>>
  BY DEF Start, SInv, Submission
<1>3. work' = work \o Tasks("submit", list)
  BY DEF Start, AddAndSubmit
<1>4. work' = Tasks("submit", list)
  BY <1>1, <1>2, <1>3, TasksType, ConcatEmptySeq
<1>5. DOMAIN work' = 1..Cardinality(Jobs) /\ \A i \in DOMAIN work' : work'[i] = Task("submit", i)
  BY <1>4 DEF Tasks
<1>6. \A i \in DOMAIN work' : work'[i].job = i /\ work'[i].do = "submit" /\ i \in Jobs
  BY <1>5, JobsFact DEF Task
<1>7. \A w \in Workers : ~Submitting(w)' /\ thread'[w].at = "idle"
  BY <1>2 DEF Submitting, Idle
<1>8. OneTask'
  BY <1>6, <1>7 DEF OneTask
<1>9. \A k \in Jobs : /\ submit_future'[k] = "pending" /\ state'[k] = "SUBMITTED_ASYNC"
                      /\ service[k] = "absent" /\ k \in job_states'
  BY <1>1, <1>2 DEF Start, AddAndSubmit, SInv, Outcomes, Outcome
<1>10. main' # "start"
  BY DEF Start
<1>11. Submission'
  BY <1>2, <1>6, <1>7, <1>9, <1>10 DEF Submission, Pending, serviceVars
<1>12. \A k \in Jobs : callback[k] = "none"
  BY JobsFact, <1>2 DEF SInv, IInv, TypeOK, Order
<1>13. Outcomes' /\ KeptOnce'
  BY <1>2, <1>9, <1>12 DEF SInv, Outcomes, Outcome, KeptOnce, Kept, Running, Past, callbackVars
<1> QED
  BY <1>8, <1>11, <1>13

LEMMA AddDoneCallbackS ==
  ASSUME SInv, AddDoneCallback
  PROVE  OneTask' /\ Submission' /\ Outcomes' /\ KeptOnce'
<1> PICK j \in Jobs : j = registered + 1
  BY JobsFact DEF SInv, IInv, TypeOK, AddDoneCallback
<1>1. main = "register"
  BY DEF AddDoneCallback
<1>2. callback[j] = "none"
  BY <1>1, JobsFact DEF SInv, IInv, TypeOK
<1>3. UNCHANGED <<clientVars, main, result, future_results>>
  BY DEF AddDoneCallback
<1>4. OneTask' /\ Submission'
  BY <1>3 DEF SInv, OneTask, Submission, Submitting, Pending, clientVars, jobVars, poolVars, serviceVars
<1>5. \A k \in Jobs : k # j => callback'[k] = callback[k]
  BY <1>1 DEF SInv, IInv, TypeOK, AddDoneCallback, Move
<1>6. callback'[j] = IF submit_future[j] = "pending" THEN "registered" ELSE "fetch"
  BY <1>1 DEF SInv, IInv, TypeOK, AddDoneCallback, Move
<1>7. (\A k \in Jobs : Kept(k)' <=> Kept(k)) /\ KeptOnce'
  BY <1>3, ListKept
<1>8. \A k \in Jobs : k # j => Outcome(k)'
  BY <1>3, <1>5, <1>7, OutcomeKept DEF clientVars, jobVars, poolVars, serviceVars
<1>9. submit_future[j] \in {"pending", "value", "error"}
  BY <1>1 DEF SInv, Outcomes, Outcome, IInv, TypeOK, ClientTypeOK
<1>10. Outcome(j)'
  <2>1. UNCHANGED <<main, state, job_states, job_specs, submit_future, service, verdict, result>>
    BY <1>3 DEF clientVars, jobVars, poolVars, serviceVars
  <2>2. Kept(j)' <=> Kept(j)
    BY <1>1, <1>7
  <2>3. Outcome(j)
    BY <1>1 DEF SInv, Outcomes
  <2>4. CASE submit_future[j] = "pending"
    BY <1>2, <1>6, <2>1, <2>2, <2>3, <2>4 DEF Outcome, Running, Past
  <2>5. CASE submit_future[j] # "pending"
    BY <1>2, <1>6, <1>9, <2>1, <2>2, <2>3, <2>5 DEF Outcome, Running, Past
  <2> QED
    BY <2>4, <2>5
<1> QED
  BY <1>4, <1>7, <1>8, <1>10 DEF Outcomes

LEMMA ReturnS ==
  ASSUME SInv, Return
  PROVE  OneTask' /\ Submission' /\ Outcomes' /\ KeptOnce'
<1>1. OneTask'
  BY DEF Return, SInv, OneTask, Submitting, clientVars, poolVars
<1>2. Submission'
  BY DEF Return, SInv, Submission, Pending, clientVars, jobVars, poolVars, serviceVars
<1>3. \A k \in Jobs : submit_future[k] # "none"
  BY DEF Return, SInv, Outcomes, Outcome
<1>4. Outcomes' /\ KeptOnce'
  BY <1>3, ListKept, OutcomeKept
     DEF Return, Outcomes, clientVars, jobVars, poolVars, serviceVars, callbackVars
<1> QED
  BY <1>1, <1>2, <1>4

LEMMA ServiceS ==
  ASSUME SInv, NEW j \in Jobs, Service(j)
  PROVE  OneTask' /\ Submission' /\ Outcomes' /\ KeptOnce'
<1>1. /\ service[j] = "processing" /\ service' = [service EXCEPT ![j] = "ready"]
      /\ UNCHANGED <<jobVars, poolVars, verdict, asyncVars>>
  BY DEF Service, Process
<1>2. \A k \in Jobs : /\ service'[k] = service[k] \/ (service[k] = "processing" /\ service'[k] = "ready")
  BY <1>1 DEF SInv, IInv, TypeOK, ClientTypeOK
<1>3. OneTask'
  BY <1>1 DEF SInv, OneTask, Submitting, poolVars
<1>4. \A k \in Jobs : \A s, at :
        Pending(k, s, at) /\ at \in {{"absent"}, Known} => Pending(k, s, at)'
  BY <1>1, <1>2 DEF Pending, jobVars, poolVars, Known
<1>5. ClientTypeOK
  BY DEF SInv, IInv, TypeOK
<1>6. \A w \in Workers : thread[w].at \in {"submit", "mark", "name"} => thread[w].job \in Jobs
  BY <1>5, TaskJobs DEF Submitting
<1>7. Submission'
  BY <1>1, <1>4, <1>5, <1>6, TaskJobs DEF SInv, Submission, poolVars, asyncVars
<1>8. Outcomes' /\ KeptOnce'
  BY <1>1, <1>2 DEF SInv, Outcomes, Outcome, KeptOnce, Kept, Known,
                    jobVars, poolVars, asyncVars, callbackVars
<1> QED
  BY <1>3, <1>7, <1>8

\* A task passes from the queue to a thread.
LEMMA TakeS ==
  ASSUME SInv, NEW w \in Workers, Take(w), UNCHANGED asyncVars
  PROVE  OneTask' /\ Submission' /\ Outcomes' /\ KeptOnce'
<1>1. ClientTypeOK
  BY DEF SInv, IInv, TypeOK
<1>2. work \in Seq(TaskType) /\ work # <<>>
  BY <1>1 DEF ClientTypeOK, Take, TaskType
<1>3. /\ Len(work) \in Nat /\ 1 \in DOMAIN work /\ Head(work) = work[1]
      /\ DOMAIN Tail(work) = 1..(Len(work) - 1)
      /\ \A i \in 1..(Len(work) - 1) : i + 1 \in DOMAIN work /\ Tail(work)[i] = work[i + 1]
  BY <1>2, HeadTailProperties
<1> DEFINE h == work[1].job
<1>4. work[1].do = "submit" /\ Pending(h, "SUBMITTED_ASYNC", {"absent"})
  BY <1>3 DEF SInv, Submission
<1>5. /\ thread'[w] = At("submit", h) /\ work' = Tail(work)
      /\ \A v \in Workers : v # w => thread'[v] = thread[v]
  BY <1>1, <1>3, <1>4 DEF Take, ClientTypeOK
<1>6. At("submit", h).at = "submit" /\ At("submit", h).job = h
  BY DEF At
<1>7. /\ \A i \in DOMAIN work' : i + 1 \in DOMAIN work /\ work'[i] = work[i + 1] /\ i + 1 # 1
      /\ \A i \in DOMAIN work' : i \in Nat
  BY <1>3, <1>5
<1>8. \A v \in Workers : v # w => (Submitting(v)' <=> Submitting(v))
  BY <1>5 DEF Submitting
<1>9. OneTask'
  <2>1. \A i, k \in DOMAIN work' : work'[i].job = work'[k].job => i = k
    BY <1>7 DEF SInv, OneTask
  <2>2. \A i \in DOMAIN work' : \A v \in Workers : Submitting(v)' => thread'[v].job # work'[i].job
    <3> SUFFICES ASSUME NEW i \in DOMAIN work', NEW v \in Workers, Submitting(v)'
                 PROVE  thread'[v].job # work'[i].job
      OBVIOUS
    <3>1. CASE v = w
      BY <1>3, <1>5, <1>6, <1>7, <3>1 DEF SInv, OneTask
    <3>2. CASE v # w
      BY <1>5, <1>7, <1>8, <3>2 DEF SInv, OneTask
    <3> QED
      BY <3>1, <3>2
  <2>3. \A v \in Workers : v # w /\ Submitting(v)' => thread'[v].job # thread'[w].job
    BY <1>3, <1>5, <1>6, <1>8 DEF SInv, OneTask
  <2>4. \A v, x \in Workers :
          Submitting(v)' /\ Submitting(x)' /\ thread'[v].job = thread'[x].job => v = x
    BY <1>5, <1>8, <2>3 DEF SInv, OneTask
  <2> QED
    BY <2>1, <2>2, <2>4 DEF OneTask
<1>10. UNCHANGED <<submit_future, state, service, main>> /\ main # "start"
  BY <1>2 DEF Take, jobVars, serviceVars, asyncVars, SInv, Submission
<1>11. Submission'
  <2>1. \A i \in DOMAIN work' :
          work'[i].do = "submit" /\ Pending(work'[i].job, "SUBMITTED_ASYNC", {"absent"})
    BY <1>7 DEF SInv, Submission
  <2>2. \A v \in Workers : LET j == thread'[v].job IN
          /\ thread'[v].at = "submit" => Pending(j, "SUBMITTED_ASYNC", {"absent"})
          /\ thread'[v].at = "mark" => Pending(j, "SUBMITTED_ASYNC", Known)
          /\ thread'[v].at = "name" => Pending(j, "SUBMITTED", Known)
    BY <1>4, <1>5, <1>6 DEF SInv, Submission
  <2> QED
    BY <1>10, <2>1, <2>2 DEF Submission, Pending
<1>12. Outcomes' /\ KeptOnce'
  BY DEF Take, SInv, Outcomes, Outcome, KeptOnce, Kept, jobVars, serviceVars, asyncVars, callbackVars
<1> QED
  BY <1>9, <1>11, <1>12

\* A thread that stays with its job leaves the tasks of all others alone.
LEMMA OneTaskKept ==
  ASSUME SInv, NEW w \in Workers, UNCHANGED work, Submitting(w),
         Submitting(w)' => thread'[w].job = thread[w].job,
         \A v \in Workers : v # w => thread'[v] = thread[v]
  PROVE  OneTask'
<1>1. \A v \in Workers : Submitting(v)' => Submitting(v) /\ thread'[v].job = thread[v].job
  BY DEF Submitting
<1> QED
  BY <1>1 DEF SInv, OneTask

\* So their submissions are where they were.
LEMMA SubmissionKept ==
  ASSUME SInv, NEW w \in Workers, UNCHANGED <<work, main>>, Submitting(w),
         NEW j \in Jobs, thread[w].job = j,
         \A v \in Workers : v # w => thread'[v] = thread[v],
         \A k \in Jobs : k # j => UNCHANGED <<submit_future[k], state[k], service[k]>>,
         \/ ~Submitting(w)'
         \/ thread'[w] = At("mark", j) /\ Pending(j, "SUBMITTED_ASYNC", Known)'
         \/ thread'[w] = At("name", j) /\ Pending(j, "SUBMITTED", Known)'
  PROVE  Submission'
<1>1. ClientTypeOK /\ main # "start"
  BY DEF SInv, IInv, TypeOK, Submission, Submitting, Idle
<1>2. \A i \in DOMAIN work : work[i].job \in Jobs /\ work[i].job # j
  BY <1>1, TaskJobs DEF SInv, OneTask
<1>3. \A v \in Workers : v # w /\ Submitting(v) => thread[v].job \in Jobs /\ thread[v].job # j
  BY <1>1, TaskJobs DEF SInv, OneTask
<1>4. \A k \in Jobs : \A s, at : k # j /\ Pending(k, s, at) => Pending(k, s, at)'
  BY DEF Pending
<1>5. \A i \in DOMAIN work : \E k \in Jobs :
        k = work[i].job /\ work[i].do = "submit" /\ Pending(k, "SUBMITTED_ASYNC", {"absent"})'
  BY <1>2, <1>4 DEF SInv, Submission
<1>6. \A v \in Workers : Submitting(v)' => \E k \in Jobs :
        /\ k = thread'[v].job
        /\ thread'[v].at = "submit" => Pending(k, "SUBMITTED_ASYNC", {"absent"})'
        /\ thread'[v].at = "mark" => Pending(k, "SUBMITTED_ASYNC", Known)'
        /\ thread'[v].at = "name" => Pending(k, "SUBMITTED", Known)'
  <2> SUFFICES ASSUME NEW v \in Workers, Submitting(v)'
               PROVE  \E k \in Jobs :
                        /\ k = thread'[v].job
                        /\ thread'[v].at = "submit" => Pending(k, "SUBMITTED_ASYNC", {"absent"})'
                        /\ thread'[v].at = "mark" => Pending(k, "SUBMITTED_ASYNC", Known)'
                        /\ thread'[v].at = "name" => Pending(k, "SUBMITTED", Known)'
    OBVIOUS
  <2>1. CASE v = w
    BY <2>1 DEF At
  <2>2. CASE v # w
    <3>1. Submitting(v) /\ thread'[v] = thread[v]
      BY <2>2 DEF Submitting
    <3> QED
      BY <1>3, <1>4, <2>2, <3>1 DEF SInv, Submission
  <2> QED
    BY <2>1, <2>2
<1> QED
  BY <1>1, <1>5, <1>6 DEF Submission, Submitting, Pending

LEMMA SendS ==
  ASSUME SInv, NEW w \in Workers, Send(w), UNCHANGED asyncVars
  PROVE  OneTask' /\ Submission' /\ Outcomes' /\ KeptOnce'
<1>1. ClientTypeOK /\ Submitting(w)
  BY DEF SInv, IInv, TypeOK, Send, Submitting
<1> PICK j \in Jobs : j = thread[w].job
  BY <1>1, TaskJobs
<1>2. /\ thread'[w] = At("mark", j) /\ \A v \in Workers : v # w => thread'[v] = thread[v]
      /\ UNCHANGED <<jobVars, work, submit_future, verdict, main>>
  BY <1>1 DEF Send, ClientTypeOK, asyncVars
<1>3. service'[j] \in Known /\ \A k \in Jobs : k # j => service'[k] = service[k]
  BY <1>1 DEF Send, ClientTypeOK, Known
<1>4. Pending(j, "SUBMITTED_ASYNC", {"absent"})
  BY DEF SInv, Submission, Send
<1>5. Pending(j, "SUBMITTED_ASYNC", Known)'
  BY <1>2, <1>3, <1>4 DEF Pending, jobVars
<1>6. OneTask'
  BY <1>1, <1>2, OneTaskKept DEF At
<1>7. Submission'
  BY <1>1, <1>2, <1>3, <1>5, SubmissionKept DEF jobVars
<1>8. (\A k \in Jobs : Kept(k)' <=> Kept(k)) /\ KeptOnce'
  BY ListKept DEF asyncVars, callbackVars
<1>9. \A k \in Jobs : k # j => Outcome(k)'
  BY <1>2, <1>3, <1>8, OutcomeKept DEF jobVars, asyncVars, callbackVars
<1>10. callback[j] \notin Running \cup {"over"}
  BY <1>4 DEF SInv, Outcomes, Outcome, Pending
<1>11. Outcome(j)'
  BY <1>2, <1>4, <1>8, <1>10
     DEF SInv, Outcomes, Outcome, Pending, Running, Past, jobVars, asyncVars, callbackVars
<1> QED
  BY <1>6, <1>7, <1>8, <1>9, <1>11 DEF Outcomes

LEMMA MarkS ==
  ASSUME SInv, NEW w \in Workers, Mark(w), UNCHANGED asyncVars
  PROVE  OneTask' /\ Submission' /\ Outcomes' /\ KeptOnce'
<1>1. ClientTypeOK /\ Submitting(w)
  BY DEF SInv, IInv, TypeOK, Mark, Submitting
<1> PICK j \in Jobs : j = thread[w].job
  BY <1>1, TaskJobs
<1>2. /\ thread'[w] = At("name", j) /\ \A v \in Workers : v # w => thread'[v] = thread[v]
      /\ UNCHANGED <<job_states, job_specs, work, submit_future, serviceVars, main>>
  BY <1>1 DEF Mark, ClientTypeOK, asyncVars
<1>3. state'[j] = "SUBMITTED" /\ \A k \in Jobs : k # j => state'[k] = state[k]
  BY <1>1 DEF Mark, Become, ClientTypeOK
<1>4. Pending(j, "SUBMITTED_ASYNC", Known)
  BY DEF SInv, Submission, Mark
<1>5. Pending(j, "SUBMITTED", Known)'
  BY <1>2, <1>3, <1>4 DEF Pending, serviceVars
<1>6. OneTask'
  BY <1>1, <1>2, OneTaskKept DEF At
<1>7. Submission'
  BY <1>1, <1>2, <1>3, <1>5, SubmissionKept DEF serviceVars
<1>8. (\A k \in Jobs : Kept(k)' <=> Kept(k)) /\ KeptOnce'
  BY ListKept DEF asyncVars, callbackVars
<1>9. \A k \in Jobs : k # j => Outcome(k)'
  BY <1>2, <1>3, <1>8, OutcomeKept DEF serviceVars, asyncVars, callbackVars
<1>10. callback[j] \notin Running \cup {"over"}
  BY <1>4 DEF SInv, Outcomes, Outcome, Pending
<1>11. Outcome(j)'
  BY <1>2, <1>4, <1>8, <1>10
     DEF SInv, Outcomes, Outcome, Pending, Running, Past, serviceVars, asyncVars, callbackVars
<1> QED
  BY <1>6, <1>7, <1>8, <1>9, <1>11 DEF Outcomes

\* The end of a submission leaves to its callback what it is to find.
LEMMA EndSubmissionS ==
  ASSUME SInv, NEW w \in Workers, EndSubmission(w)
  PROVE  OneTask' /\ Submission' /\ Outcomes' /\ KeptOnce'
<1>1. ClientTypeOK /\ TypeOK /\ Submitting(w)
  BY DEF SInv, IInv, TypeOK, EndSubmission, Submitting
<1> PICK j \in Jobs : j = thread[w].job
  BY <1>1, TaskJobs
<1>2. There(w) \in ThreadStates /\ There(w).at \in {"callback", "idle"}
  BY <1>1, ThreadFact DEF There, At, Idle
<1>3. /\ thread'[w] = There(w) /\ \A v \in Workers : v # w => thread'[v] = thread[v]
      /\ UNCHANGED <<job_states, job_specs, work, serviceVars, main, result, future_results>>
  BY <1>1 DEF EndSubmission, SendRaises, Name, ClientTypeOK
<1>4. ~Submitting(w)'
  BY <1>2, <1>3 DEF Submitting
<1>5. \/ /\ thread[w].at = "submit" /\ submit_future'[j] = "error" /\ state'[j] = "FAILED"
      \/ /\ thread[w].at = "name" /\ submit_future'[j] = "value" /\ UNCHANGED state
  BY <1>1 DEF EndSubmission, SendRaises, Name, Become, ClientTypeOK
<1>6. \A k \in Jobs : k # j => submit_future'[k] = submit_future[k] /\ state'[k] = state[k]
  BY <1>1 DEF EndSubmission, SendRaises, Name, Become, ClientTypeOK
<1>7. \/ Pending(j, "SUBMITTED_ASYNC", {"absent"}) /\ thread[w].at = "submit"
      \/ Pending(j, "SUBMITTED", Known) /\ thread[w].at = "name"
  BY <1>5 DEF SInv, Submission
<1>8. callback[j] \in {"none", "registered"} /\ callback'[j] \in {"none", "fetch"}
  BY <1>1, <1>7 DEF SInv, Outcomes, Outcome, Pending, TypeOK, EndSubmission, HasCallback, Move
<1>9. \A k \in Jobs : k # j => callback'[k] = callback[k]
  BY <1>1 DEF TypeOK, EndSubmission, HasCallback, Move
<1>10. OneTask'
  BY <1>1, <1>3, <1>4, OneTaskKept
<1>11. Submission'
  BY <1>1, <1>3, <1>4, <1>6, SubmissionKept DEF serviceVars
<1>12. (\A k \in Jobs : Kept(k)' <=> Kept(k)) /\ KeptOnce'
  BY <1>3, ListKept
<1>13. \A k \in Jobs : k # j => Outcome(k)'
  BY <1>3, <1>6, <1>9, <1>12, OutcomeKept DEF serviceVars
<1>14. Outcome(j) /\ (Kept(j)' <=> Kept(j))
  BY <1>12 DEF SInv, Outcomes
<1>15. ~Kept(j) /\ result[j] = "none" /\ j \in job_states
  BY <1>7, <1>8, <1>14 DEF Outcome, Pending
<1>16. Outcome(j)'
  BY <1>3, <1>5, <1>7, <1>8, <1>14, <1>15 DEF Outcome, Pending, Running, Past, Known, serviceVars
<1> QED
  BY <1>10, <1>11, <1>12, <1>13, <1>16 DEF Outcomes

LEMMA StutterS ==
  ASSUME SInv, UNCHANGED vars
  PROVE  OneTask' /\ Submission' /\ Outcomes' /\ KeptOnce'
<1> USE DEF vars, clientVars, jobVars, poolVars, serviceVars, asyncVars, callbackVars
<1>1. OneTask' /\ Submission'
  BY DEF SInv, OneTask, Submission, Submitting, Pending
<1>2. Outcomes' /\ KeptOnce'
  BY DEF SInv, Outcomes, Outcome, KeptOnce, Kept
<1> QED
  BY <1>1, <1>2

LEMMA TasksInvariance == AsyncSpec => []SInv
<1>1. SInv /\ IInv' /\ [Next]_vars => SInv'
  <2> SUFFICES ASSUME SInv, IInv', [Next]_vars
               PROVE  OneTask' /\ Submission' /\ Outcomes' /\ KeptOnce'
    BY DEF SInv
  <2>1. CASE Main
    BY <2>1, StartS, AddDoneCallbackS, ReturnS DEF Main
  <2>2. ASSUME NEW j \in Jobs, Callback(j)
        PROVE  OneTask' /\ Submission' /\ Outcomes' /\ KeptOnce'
    BY <2>2, CallbackFetchS, FinishS, NoteS, ExtendS, CompareS, SetResultS DEF Callback
  <2>3. ASSUME NEW j \in Jobs, Service(j)
        PROVE  OneTask' /\ Submission' /\ Outcomes' /\ KeptOnce'
    BY <2>3, ServiceS
  <2>4. ASSUME NEW w \in Workers, Worker(w)
        PROVE  OneTask' /\ Submission' /\ Outcomes' /\ KeptOnce'
    BY <2>4, TakeS, SendS, MarkS, EndSubmissionS DEF Worker
  <2>5. CASE UNCHANGED vars
    BY <2>5, StutterS
  <2> QED
    BY <2>1, <2>2, <2>3, <2>4, <2>5 DEF Next
<1> QED
  BY <1>1, InitSInv, Invariance, PTL DEF AsyncSpec

\* When the callback of a job is over, the data of a job that was processed well
\* is in the list of results once, and nothing of any other; its spec is let go.
THEOREM ResultsAreCollected == AsyncSpec => []Collected
<1>1. SInv => Collected
  <2> SUFFICES ASSUME SInv, NEW j \in Jobs, callback[j] = "over"
               PROVE  /\ Cardinality({i \in DOMAIN future_results : future_results[i] = j})
                           = IF service[j] \in {"processing", "ready", "taken"} /\ verdict[j] = "good"
                             THEN 1 ELSE 0
                      /\ j \notin job_specs
                      /\ submit_future[j] = "error" => state[j] = "FAILED"
    BY DEF Collected
  <2> DEFINE places == {i \in DOMAIN future_results : future_results[i] = j}
  <2>1. Outcome(j) /\ KeptOnce
    BY DEF SInv, Outcomes
  <2>2. Kept(j) <=> service[j] \in {"processing", "ready", "taken"} /\ verdict[j] = "good"
    BY <2>1 DEF Outcome, Past, Running
  <2>3. CASE Kept(j)
    <3>1. PICK i \in DOMAIN future_results : future_results[i] = j
      BY <2>3 DEF Kept
    <3>2. places = {i}
      BY <2>1, <3>1 DEF KeptOnce
    <3>3. Cardinality(places) = 1
      BY <3>2, FS_Singleton
    <3> QED
      BY <2>1, <2>2, <2>3, <3>3 DEF Outcome, Past
  <2>4. CASE ~Kept(j)
    <3>1. places = {}
      BY <2>4 DEF Kept
    <3>2. Cardinality(places) = 0
      BY <3>1, FS_EmptySet
    <3> QED
      BY <2>1, <2>2, <2>4, <3>2 DEF Outcome, Past
  <2> QED
    BY <2>3, <2>4
<1> QED
  BY <1>1, TasksInvariance, PTL
=============================================================================
