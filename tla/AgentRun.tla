------------------------------ MODULE AgentRun ------------------------------
(***************************************************************************)
(* One agent run at a time, from the caller that asks for it (the planner, *)
(* test designer, coder and reviewer of the pipeline, the readiness gate,  *)
(* the enrichment loop, and the orchestrator's planner and readiness       *)
(* hosts) through the runtime that talks to the model: ClaudeAgentRuntime  *)
(* with its stream, watchdogs and retries, or GlmAgentRuntime with its one *)
(* stricter reprompt.  What the model says is arbitrary.                   *)
(***************************************************************************)
EXTENDS Naturals

CONSTANTS
  MaxRetries,    \* ClaudeAgentRuntime's max_retries
  MaxTurns,      \* bound: events of one stream (the SDK ends it at max_turns)
  MaxIterations, \* enrichment's MAX_ITERATIONS
  CleanupEnds    \* TRUE if the SDK's generator, once cancelled, always ends

ASSUME AgentRunAssumption ==
  /\ MaxRetries \in Nat \ {0} /\ MaxTurns \in Nat \ {0} /\ MaxIterations \in Nat \ {0}
  /\ CleanupEnds \in BOOLEAN

VARIABLES
  caller,     \* who asked for the run
  runtime,    \* the AgentRuntime it was given
  rubricOk,   \* the readiness gate's own rubric and resolved context have no gap
  pc,         \* where the call is
  attempt,    \* streams (claude) or requests (glm) of this run, this one included
  events,     \* events the current stream has yielded
  last,       \* its final_message so far
  ended,      \* the current stream has ended by itself
  open,       \* agent streams that may still be working in the worktree
  outcome,    \* the AgentRunResult: "output", "failure", or the run "raised"
  iteration,  \* enrichment's iteration
  posted,     \* what publisher or persist_specs wrote during this call
  answer      \* what the caller returned

vars == <<caller, runtime, rubricOk, pc, attempt, events, last, ended, open,
          outcome, iteration, posted, answer>>
request == <<caller, runtime, rubricOk>>
stream == <<events, last, ended, open>>
reply == <<iteration, posted, answer>>

-----------------------------------------------------------------------------
(* Messages of the SDK's stream.                                            *)

\* result: None or blank, prose, or JSON that does or does not satisfy the
\* output contract.  structured: not a mapping ("odd"), or a mapping.
Messages == [ error : BOOLEAN, status : {"none", "transient", "hard"},
              result : {"empty", "prose", "invalid", "valid"},
              structured : {"none", "odd", "invalid", "valid"} ]
NoMessage == [error |-> FALSE, status |-> "none", result |-> "empty", structured |-> "none"]

\* _consume_stream: what it takes for an infrastructure failure.  A stream
\* without messages and one that ends on a message without content (an
\* assistant's) are the same here.
Transient(m) == m.status = "transient" \/ (m.result = "empty" /\ m.structured = "none")

\* _run_async: the output passes the contract; the text counts only if there
\* is no structured mapping.
Usable(m) ==
  /\ ~m.error
  /\ m.structured = "valid" \/ (m.structured \in {"none", "odd"} /\ m.result = "valid")

Agents == {"planner", "test_designer", "coder", "reviewer"}
Hosts == {"planner-host", "readiness-host"}
Callers == Agents \cup Hosts \cup {"readiness", "enrichment"}
Verdicts == {"READY", "NEEDS_CLARIFICATION", "MANUAL_REQUIRED"}
Positive == {"OUTPUT", "READY", "PUBLISHED"}
Steps == { "idle", "run", "stream", "waiting", "closing", "inspect", "backoff", "post", "judge" }

TypeOK ==
  /\ caller \in Callers /\ runtime \in {"claude", "glm"} /\ rubricOk \in BOOLEAN
  /\ pc \in Steps
  /\ attempt \in 0..MaxRetries + 1
  /\ events \in 0..MaxTurns /\ last \in Messages /\ ended \in BOOLEAN /\ open \in Nat
  /\ outcome \in {"none", "output", "failure", "raised"}
  /\ iteration \in 1..MaxIterations
  /\ posted \in {"nothing", "posted"}
  /\ answer \in Verdicts \cup Positive \cup {"none", "ERROR"}

Init ==
  /\ caller \in Callers /\ runtime = "claude" /\ rubricOk = FALSE
  /\ pc = "idle" /\ attempt = 0
  /\ events = 0 /\ last = NoMessage /\ ended = FALSE /\ open = 0
  /\ outcome = "none" /\ iteration = 1 /\ posted = "nothing" /\ answer = "none"

\* A caller asks for a run; rubricOk matters to the readiness gate only.
Ask(c, rt, ok) ==
  /\ pc = "idle"
  /\ caller' = c /\ runtime' = rt /\ rubricOk' = (ok /\ c = "readiness")
  /\ pc' = "run" /\ attempt' = 0
  /\ events' = 0 /\ last' = NoMessage /\ ended' = FALSE /\ UNCHANGED open
  /\ outcome' = "none" /\ iteration' = 1 /\ posted' = "nothing" /\ answer' = "none"

-----------------------------------------------------------------------------
(* ClaudeAgentRuntime.                                                      *)

Ends(result) == pc' = "judge" /\ outcome' = result

\* run(): the secret is resolved once.  asyncio.run refuses to work inside a
\* running event loop, which is where the hosts' coroutines call it.
Run ==
  /\ pc = "run" /\ runtime = "claude"
  /\ \/ Ends("failure")
     \/ caller \notin Hosts /\ pc' = "stream" /\ UNCHANGED outcome
  /\ UNCHANGED <<request, attempt, stream, reply>>

\* The retryer's attempt: query_fn spawns the agent.
Query ==
  /\ pc = "stream"
  /\ pc' = "waiting" /\ attempt' = attempt + 1
  /\ events' = 0 /\ last' = NoMessage /\ ended' = FALSE /\ open' = open + 1
  /\ UNCHANGED <<request, outcome, reply>>

Event(m) ==
  /\ pc = "waiting" /\ events < MaxTurns
  /\ events' = events + 1 /\ last' = m
  /\ UNCHANGED <<request, pc, attempt, ended, open, outcome, reply>>

StreamEnds ==
  /\ pc = "waiting"
  /\ pc' = "inspect" /\ ended' = TRUE /\ open' = open - 1
  /\ UNCHANGED <<request, attempt, events, last, outcome, reply>>

\* Fault: the number of attempts is not limited.
RetryForever == pc' = "backoff" /\ attempt' = 1 /\ UNCHANGED outcome

\* A transient error reaches the retryer.
Retry ==
  IF attempt < MaxRetries + 1
  THEN pc' = "backoff" /\ UNCHANGED <<attempt, outcome>>
  ELSE Ends("failure") /\ UNCHANGED attempt

StreamRaises ==
  /\ pc = "waiting"
  /\ Retry
  /\ open' = open - 1
  /\ UNCHANGED <<request, events, last, ended, reply>>

\* The first-event or progress budget is over: wait_for cancels the pending
\* __anext__, and waits until the generator has dealt with it.
Trip ==
  /\ pc = "waiting"
  /\ pc' = "closing"
  /\ UNCHANGED <<request, attempt, stream, outcome, reply>>

\* Fault: the stream is left alone when its budget is over.
AbandonStream ==
  /\ pc = "closing"
  /\ Retry
  /\ UNCHANGED <<request, stream, reply>>

\* The cancelled generator has run its cleanup and ended, so that the aclose()
\* that follows finds nothing to do.
Close ==
  /\ pc = "closing" /\ CleanupEnds
  /\ Retry
  /\ open' = open - 1
  /\ UNCHANGED <<request, events, last, ended, reply>>

\* _consume_stream after the stream's end, and _run_async after that.
Inspect ==
  /\ pc = "inspect"
  /\ IF Transient(last)
     THEN Retry
     ELSE Ends(IF Usable(last) THEN "output" ELSE "failure") /\ UNCHANGED attempt
  /\ UNCHANGED <<request, stream, reply>>

Backoff ==
  /\ pc = "backoff"
  /\ pc' = "stream"
  /\ UNCHANGED <<request, attempt, stream, outcome, reply>>

-----------------------------------------------------------------------------
(* GlmAgentRuntime: one synchronous request, and one more with the stricter *)
(* prompt if the first answer held no JSON object.                          *)

RunGlm ==
  /\ pc = "run" /\ runtime = "glm"
  /\ pc' = "post"
  /\ UNCHANGED <<request, attempt, stream, outcome, reply>>

\* The secret provider or response.json() raises, which run() does not catch;
\* or the transport, the status or the answer fails; or there is an object.
Post ==
  /\ pc = "post"
  /\ attempt' = attempt + 1
  /\ \/ \E result \in {"raised", "failure", "output"} : Ends(result)
     \/ attempt = 0 /\ pc' = "post" /\ UNCHANGED outcome
  /\ UNCHANGED <<request, stream, reply>>

-----------------------------------------------------------------------------
(* The callers, with the result of the run.  Each validates the output once *)
(* more, against its own contract.                                          *)

Judging(c) == pc = "judge" /\ caller = c
Answers(a) == pc' = "idle" /\ answer' = a
Heard(valid) == outcome = "output" /\ valid
Unasked == UNCHANGED <<request, attempt, stream, outcome>>

\* _run_model of the pipeline's agents: whatever fails is the agent's error.
AgentAnswers(c, valid) ==
  /\ Judging(c)
  /\ Answers(IF Heard(valid) THEN "OUTPUT" ELSE "ERROR")
  /\ UNCHANGED <<iteration, posted>> /\ Unasked

plan(valid)             == AgentAnswers("planner", valid)
design_tests(valid)     == AgentAnswers("test_designer", valid)
code(valid)             == AgentAnswers("coder", valid)
review_with_text(valid) == AgentAnswers("reviewer", valid)

\* Fault: a failed run leaves no trace in the gate's ambiguities.
evaluate_readiness_open(valid, verdict, gaps) ==
  /\ Judging("readiness")
  /\ Answers(IF Heard(valid) /\ verdict = "MANUAL_REQUIRED" THEN "MANUAL_REQUIRED"
             ELSE IF ~rubricOk \/ (Heard(valid) /\ gaps) THEN "NEEDS_CLARIFICATION" ELSE "READY")
  /\ UNCHANGED <<iteration, posted>> /\ Unasked

\* The gate: of the model's verdict only MANUAL_REQUIRED counts, else its gaps.
evaluate_readiness(valid, verdict, gaps) ==
  /\ Judging("readiness")
  /\ Answers(IF Heard(valid) /\ verdict = "MANUAL_REQUIRED" THEN "MANUAL_REQUIRED"
             ELSE IF ~rubricOk \/ ~Heard(valid) \/ gaps THEN "NEEDS_CLARIFICATION" ELSE "READY")
  /\ UNCHANGED <<iteration, posted>> /\ Unasked

ReadinessGateHost(valid, verdict) ==
  /\ Judging("readiness-host")
  /\ Answers(IF Heard(valid) THEN verdict ELSE "ERROR")
  /\ UNCHANGED <<iteration, posted>> /\ Unasked

\* persist_specs is awaited before the plan is returned, and may fail with or
\* without having stored it.
PlannerHost(valid, persisted, stored) ==
  /\ Judging("planner-host")
  /\ Answers(IF Heard(valid) /\ persisted THEN "OUTPUT" ELSE "ERROR")
  /\ posted' = IF Heard(valid) /\ (persisted \/ stored) THEN "posted" ELSE posted
  /\ UNCHANGED iteration /\ Unasked

\* An iteration of the enrichment loop.  A description that passes the secret
\* scan, the grounding check and the dry run is published, or the publisher
\* raises (having stored it or not); everything else is an iteration lost.
enrich_ticket(valid, rejected, published, stored) ==
  /\ Judging("enrichment")
  /\ IF Heard(valid) /\ ~rejected
     THEN /\ Answers(IF published THEN "PUBLISHED" ELSE "ERROR")
          /\ posted' = IF published \/ stored THEN "posted" ELSE posted
          /\ UNCHANGED iteration /\ Unasked
     ELSE IF iteration < MaxIterations
     THEN /\ iteration' = iteration + 1 /\ pc' = "run" /\ attempt' = 0 /\ outcome' = "none"
          /\ UNCHANGED <<request, stream, posted, answer>>
     ELSE Answers("MANUAL_REQUIRED") /\ UNCHANGED <<iteration, posted>> /\ Unasked

Runtime ==
  \/ Run
  \/ Query
  \/ StreamEnds
  \/ StreamRaises
  \/ Trip
  \/ Close
  \/ Inspect
  \/ Backoff
  \/ RunGlm
  \/ Post

Judge ==
  \E valid, a, b \in BOOLEAN, verdict \in Verdicts :
    \/ plan(valid)
    \/ design_tests(valid)
    \/ code(valid)
    \/ review_with_text(valid)
    \/ evaluate_readiness(valid, verdict, a)
    \/ ReadinessGateHost(valid, verdict)
    \/ PlannerHost(valid, a, b)
    \/ \E stored \in BOOLEAN : enrich_ticket(valid, a, b, stored)

Next ==
  \/ \E c \in Callers, rt \in {"claude", "glm"}, ok \in BOOLEAN : Ask(c, rt, ok)
  \/ \E m \in Messages : Event(m)
  \/ Runtime
  \/ Judge

Spec == Init /\ [][Next]_vars

\* A silent stream runs into a budget, and nothing else in the call waits for
\* anybody: every step of the runtime and of the caller is taken.
FairSpec == Spec /\ WF_vars(Runtime) /\ WF_vars(Judge)

-----------------------------------------------------------------------------
(* Properties.                                                              *)

\* Nothing fails open, whatever the caller: an answer others act on rests on a
\* run that ended with a usable output, which in a stream's case is the last
\* message of a stream that came to its end; the gate's READY also rests on its
\* own rubric.  What is written for others to see comes from such a run, and
\* a call that asks for a human leaves nothing behind.
FailClosed ==
  /\ answer \in Positive =>
       /\ outcome = "output"
       /\ runtime = "claude" => ended /\ Usable(last) /\ ~Transient(last)
       /\ caller = "readiness" => rubricOk
  /\ posted # "nothing" => outcome = "output" /\ answer \in {"OUTPUT", "PUBLISHED", "ERROR"}

\* No two agent processes work in one worktree at a time, and none is left
\* working there when the caller goes on.
AloneInWorktree ==
  /\ open <= 1
  /\ pc \in {"idle", "run", "stream", "backoff", "judge"} => open = 0

\* Every call comes to an end.
EveryCallEnds == pc # "idle" ~> pc = "idle"

=============================================================================
