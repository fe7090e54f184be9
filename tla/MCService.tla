------------------------------ MODULE MCService ------------------------------
(* Small instances of ResponseChannel and ConvertStatus for TLC, in one run:  *)
(* a behaviour is one of the one module or one of the other, while the other  *)
(* module's machine is at rest in a state in which it has nothing to do.      *)
EXTENDS ResponseChannel, ConvertStatus

\* No rows, one small row, two and three fragments, a first row above the limit
\* that leaves an empty fragment before it, and a row that cannot be pushed.
Results == {<<>>, <<1>>, <<2, 2, 2, 2>>, <<9, 1>>, <<20>>}

ResponseAtRest ==
  /\ job = [rows |-> <<>>, outcome |-> "failed", max_retries |-> 0]
  /\ sink = "done" /\ payloads = <<>> /\ retries = 0 /\ channel = <<>>
  /\ fetch = [r \in Requests |-> Idle]
  /\ caller = [at |-> "given", for |-> CHOOSE r \in Requests : TRUE,
               retries |-> 0, message |-> fail_msg]
  /\ faults = 0 /\ doubled = FALSE /\ gave_up = FALSE

ConvertAtRest ==
  /\ bad = 0 /\ broken = {} /\ converting = "done" /\ file = 1
  /\ pushes = [f \in Files |-> 0] /\ submitted = {} /\ results = <<>> /\ cache = NoCache /\ poll = [p \in Pollers |-> [at |-> "gone"]]
  /\ reply = NoReply /\ errors = 0 /\ upset = TRUE

MCInit == \/ ResponseInit /\ ConvertAtRest
          \/ ResponseAtRest /\ ConvertInit
MCNext == \/ ResponseNext /\ UNCHANGED convertVars
          \/ ConvertNext /\ UNCHANGED responseVars
MCSpec == MCInit /\ [][MCNext]_<<responseVars, convertVars>>
            /\ ResponseFairness /\ ConvertFairness
=============================================================================
