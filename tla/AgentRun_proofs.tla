--------------------------- MODULE AgentRun_proofs ---------------------------
(***************************************************************************)
(* Proofs about AgentRun for every number of retries, turns and enrichment *)
(* iterations, whether or not a cancelled stream ends.  What a caller      *)
(* answers rests on the result it judges, so the invariant follows a       *)
(* result from the stream that gave it: the stream has ended, its last     *)
(* message is usable, and the agent behind it is gone.                     *)
(***************************************************************************)
EXTENDS AgentRun, TLAPS

\* Where a Claude run, a GLM run and neither may be.
ClaudeSteps == {"stream", "waiting", "closing", "inspect", "backoff"}
Idling == {"idle", "judge"}

\* The retry budget, step by step: the next attempt is still allowed.
AttemptsLeft ==
  /\ pc = "run" => attempt = 0
  /\ pc \in {"stream", "backoff"} => attempt <= MaxRetries
  /\ pc \in ClaudeSteps => runtime = "claude"
  /\ pc = "post" => runtime = "glm" /\ attempt <= 1

\* An agent works exactly while its stream is read or closed.
AgentWorks == open = IF pc \in {"waiting", "closing"} THEN 1 ELSE 0

\* A result exists once the run is over, and stands on a stream that ended.
ResultStands ==
  /\ pc = "inspect" => ended
  /\ pc \notin Idling => outcome = "none"
  /\ outcome = "output" /\ runtime = "claude" => ended /\ Usable(last) /\ ~Transient(last)

\* Nothing is answered before the end, and nothing written without a result.
AnswerStands ==
  /\ pc # "idle" => answer = "none" /\ posted = "nothing"
  /\ answer \in Positive => outcome = "output" /\ (caller = "readiness" => rubricOk)
  /\ posted # "nothing" => outcome = "output" /\ answer \in {"OUTPUT", "PUBLISHED", "ERROR"}

Inv == TypeOK /\ AttemptsLeft /\ AgentWorks /\ ResultStands /\ AnswerStands

\* Before the first message of a stream.
LEMMA NoMessageFits == NoMessage \in Messages
BY DEF NoMessage, Messages

\* The state a fresh process is in.
LEMMA InitInv == Init => Inv
<1> SUFFICES ASSUME Init PROVE Inv
  OBVIOUS
<1>1. TypeOK
  <2>1. last \in Messages /\ ended \in BOOLEAN /\ rubricOk \in BOOLEAN
    BY NoMessageFits DEF Init
  <2>2. answer = "none" /\ caller \in Callers /\ pc \in Steps
    BY DEF Init, Steps
  <2> QED
    BY <2>1, <2>2, AgentRunAssumption DEF Init, TypeOK
<1> QED
  BY <1>1 DEF Init, Inv, AttemptsLeft, AgentWorks, ResultStands, AnswerStands, ClaudeSteps,
              Idling, Positive

\* A step of the stream keeps the invariant.
LEMMA StreamInv ==
  ASSUME Inv, StreamEnds \/ StreamRaises \/ Trip \/ Close \/ Inspect
  PROVE  Inv'
<1> USE DEF Inv, TypeOK, AttemptsLeft, AgentWorks, ResultStands, AnswerStands, ClaudeSteps, Idling,
            Steps, request, stream, reply
<1>1. CASE StreamEnds
  BY <1>1 DEF StreamEnds
<1>2. CASE StreamRaises
  BY <1>2, AgentRunAssumption DEF StreamRaises, Retry, Ends
<1>3. CASE Trip
  BY <1>3 DEF Trip
<1>4. CASE Close
  BY <1>4, AgentRunAssumption DEF Close, Retry, Ends
<1>5. CASE Inspect
  <2>1. CASE Transient(last)
    BY <1>5, <2>1, AgentRunAssumption DEF Inspect, Retry, Ends
  <2>2. CASE ~Transient(last)
    BY <1>5, <2>2 DEF Inspect, Ends
  <2> QED
    BY <2>1, <2>2
<1> QED
  BY <1>1, <1>2, <1>3, <1>4, <1>5

\* Neither does any other step of the two runtimes disturb it.
LEMMA RuntimeInv ==
  ASSUME Inv, Runtime
  PROVE  Inv'
<1> USE DEF Inv, TypeOK, AttemptsLeft, AgentWorks, ResultStands, AnswerStands, ClaudeSteps, Idling,
            Steps, request, stream, reply
<1>1. CASE Run
  BY <1>1, AgentRunAssumption DEF Run, Ends
<1>2. CASE Query
  <2>1. last' \in Messages /\ ended' \in BOOLEAN
    BY <1>2, NoMessageFits DEF Query
  <2>2. TypeOK'
    BY <1>2, <2>1, AgentRunAssumption DEF Query
  <2>3. AttemptsLeft'
    BY <1>2, AgentRunAssumption DEF Query
  <2>4. AgentWorks'
    BY <1>2 DEF Query
  <2>5. ResultStands'
    BY <1>2 DEF Query
  <2>6. AnswerStands'
    BY <1>2 DEF Query
  <2> QED
    BY <2>2, <2>3, <2>4, <2>5, <2>6
<1>3. CASE Backoff
  BY <1>3 DEF Backoff
<1>4. CASE RunGlm
  BY <1>4 DEF RunGlm
<1>5. CASE Post
  BY <1>5, AgentRunAssumption DEF Post, Ends
<1> QED
  BY <1>1, <1>2, <1>3, <1>4, <1>5, StreamInv DEF Runtime

\* The callers: a positive answer is given for a result that was heard.
LEMMA JudgeInv ==
  ASSUME Inv, Judge
  PROVE  Inv'
<1>1. PICK valid \in BOOLEAN, a \in BOOLEAN, b \in BOOLEAN, verdict \in Verdicts :
        \/ plan(valid) \/ design_tests(valid) \/ code(valid) \/ review_with_text(valid)
        \/ evaluate_readiness(valid, verdict, a)
        \/ ReadinessGateHost(valid, verdict)
        \/ PlannerHost(valid, a, b)
        \/ \E stored \in BOOLEAN : enrich_ticket(valid, a, b, stored)
  BY DEF Judge
<1> USE DEF Inv, TypeOK, AttemptsLeft, AgentWorks, ResultStands, AnswerStands, ClaudeSteps, Idling,
            Steps, Verdicts, Positive, Judging, Answers, Heard, Unasked, request, stream
<1>2. CASE plan(valid) \/ design_tests(valid) \/ code(valid) \/ review_with_text(valid)
  BY <1>2 DEF plan, design_tests, code, review_with_text, AgentAnswers
<1>3. CASE evaluate_readiness(valid, verdict, a)
  BY <1>3 DEF evaluate_readiness
<1>4. CASE ReadinessGateHost(valid, verdict)
  BY <1>4 DEF ReadinessGateHost
<1>5. CASE PlannerHost(valid, a, b)
  BY <1>5 DEF PlannerHost
<1>6. CASE \E stored \in BOOLEAN : enrich_ticket(valid, a, b, stored)
  BY <1>6, AgentRunAssumption DEF enrich_ticket
<1> QED
  BY <1>1, <1>2, <1>3, <1>4, <1>5, <1>6

\* The invariant holds throughout.
THEOREM Invariance == Spec => []Inv
<1>1. ASSUME Inv, [Next]_vars PROVE Inv'
  <2> USE DEF Inv, TypeOK, AttemptsLeft, AgentWorks, ResultStands, AnswerStands, ClaudeSteps, Idling,
              Steps, request, stream, reply
  <2>1. CASE \E c \in Callers, rt \in {"claude", "glm"}, ok \in BOOLEAN : Ask(c, rt, ok)
    <3>1. last' \in Messages /\ ended' \in BOOLEAN
      BY <2>1, NoMessageFits DEF Ask
    <3>2. TypeOK'
      BY <1>1, <2>1, <3>1, AgentRunAssumption DEF Ask
    <3>3. AttemptsLeft' /\ AgentWorks' /\ ResultStands'
      BY <1>1, <2>1 DEF Ask
    <3>4. AnswerStands'
      BY <1>1, <2>1 DEF Ask, Positive
    <3> QED
      BY <3>2, <3>3, <3>4
  <2>2. CASE \E m \in Messages : Event(m)
    BY <1>1, <2>2, AgentRunAssumption DEF Event
  <2>3. CASE Runtime
    BY <1>1, <2>3, RuntimeInv
  <2>4. CASE Judge
    BY <1>1, <2>4, JudgeInv
  <2>5. CASE UNCHANGED vars
    BY <1>1, <2>5 DEF vars
  <2> QED
    BY <1>1, <2>1, <2>2, <2>3, <2>4, <2>5 DEF Next
<1> QED
  BY <1>1, InitInv, PTL DEF Spec

-----------------------------------------------------------------------------
\* The retry budget, the stream's bound and the enrichment iterations are kept.
THEOREM TypeCorrect == Spec => []TypeOK
BY Invariance, PTL DEF Inv

\* A positive answer, and whatever was written, rests on a usable output of a
\* stream that ended, whatever the model said and however the stream failed.
THEOREM NothingFailsOpen == Spec => []FailClosed
<1>1. Inv => FailClosed
  BY DEF Inv, ResultStands, AnswerStands, FailClosed
<1> QED
  BY <1>1, Invariance, PTL

\* No retry starts an agent beside the one before, and none is left behind.
THEOREM OneAgentAtATime == Spec => []AloneInWorktree
<1>1. Inv => AloneInWorktree
  BY DEF Inv, AgentWorks, AloneInWorktree
<1> QED
  BY <1>1, Invariance, PTL
=============================================================================
