----------------------------- MODULE BuildOrder -----------------------------
(***************************************************************************)
(* The build order of the tickets and the frontier read from it.           *)
(* tools/build_order.py checks the dependencies of the hierarchy document, *)
(* puts every ticket into a wave (sfp_contracts.planning.build_order) and  *)
(* writes docs/build_order.json, or prints what is ready; the readiness    *)
(* gate reads that file to find out whether a ticket lies downstream of a  *)
(* manual one (frontier.py), where its rubric asks for two more sections.  *)
(* The two share the file only: what each computes is its own, so that one *)
(* starts only when the other is not computing.                            *)
(***************************************************************************)
EXTENDS Naturals, Sequences

CONSTANTS
  Tickets,   \* the tickets there may be
  Absent,    \* no build_order.json
  Torn       \* one that cannot be parsed

Executors == {"manual", "ai-agent"}

\* A document, or the DAG of a file, lists some tickets; a dependency may be on a
\* ticket it does not list.
Graphs == UNION {[S -> [deps : SUBSET Tickets, executor : Executors]] : S \in SUBSET Tickets}

ASSUME BuildOrderAssumption ==
  /\ Tickets # {}
  /\ Absent \notin Graphs \cup {Torn} /\ Torn \notin Graphs

VARIABLES
  doc,        \* docs/SFP_Ticket_Hierarchy.md
  file,       \* docs/build_order.json
  outcome,    \* build_order.py: "none" if it does not run, or how far it is
  memo,       \* compute_waves' memo: the waves found so far
  stack,      \* its recursion path, whose top is the last one
  gate,       \* the readiness gate: "none", or how far it is
  ticket,     \* the ticket it judges
  manual,     \* it has the Jira label "manual"
  dag,        \* the DAG of the walk; Absent if there is no walk
  todo,       \* upstream_has_manual's stack
  visited,    \* and its visited set
  atFrontier, \* compute_at_frontier's answer
  declared,   \* the ticket has both boundary sections
  verdict     \* the rubric's verdict

ordering == <<outcome, memo, stack>>
walk == <<dag, todo, visited>>
judging == <<gate, ticket, manual, walk, atFrontier, declared, verdict>>
vars == <<doc, file, ordering, judging>>

-----------------------------------------------------------------------------
Deps(g, t) == g[t].deps
OnStack == {stack[i] : i \in DOMAIN stack}

TypeOK ==
  /\ doc \in Graphs
  /\ file \in Graphs \cup {Absent, Torn}
  /\ outcome \in {"none", "sorting", "dangling", "cycle", "waves", "writing"}
  /\ DOMAIN memo \subseteq DOMAIN doc /\ \A t \in DOMAIN memo : memo[t] \in Nat
  /\ stack \in Seq(DOMAIN doc)
  /\ gate \in {"none", "walking", "found", "judged", "raised"}
  /\ ticket \in Tickets /\ manual \in BOOLEAN
  /\ dag \in Graphs \cup {Absent} /\ todo \subseteq Tickets /\ visited \subseteq Tickets
  /\ atFrontier \in BOOLEAN /\ declared \in BOOLEAN
  /\ verdict \in {"none", "READY", "NEEDS_CLARIFICATION"}

Nothing == [t \in {} |-> 0]
Nobody == CHOOSE t \in Tickets : TRUE

\* The file is kept in the repository: it may be what the document's tickets were
\* last written as, by whatever hand.
Init ==
  /\ doc \in Graphs /\ file \in {Absent, Torn, doc}
  /\ outcome = "none" /\ memo = Nothing /\ stack = <<>>
  /\ gate = "none" /\ ticket = Nobody /\ manual = FALSE
  /\ dag = Absent /\ todo = {} /\ visited = {}
  /\ atFrontier = FALSE /\ declared = FALSE /\ verdict = "none"

-----------------------------------------------------------------------------
(* build_order.py                                                           *)

\* check_dangling
Dangling(g) == \E t \in DOMAIN g : ~(Deps(g, t) \subseteq DOMAIN g)

Start ==
  /\ outcome = "none" /\ gate = "none"
  /\ outcome' = IF Dangling(doc) THEN "dangling" ELSE "sorting"
  /\ UNCHANGED <<doc, file, memo, stack, judging>>

Pending == DOMAIN doc \ DOMAIN memo
Top == stack[Len(stack)]

\* compute_waves' loop calls wave_of for a ticket that has no wave yet. (In
\* ascending order, which matters to the cycle that is reported only.)
NextTicket(t) ==
  /\ outcome = "sorting" /\ stack = <<>> /\ t \in Pending
  /\ stack' = <<t>>
  /\ UNCHANGED <<doc, file, outcome, memo, judging>>

\* wave_of calls itself for a dependency that is neither in memo nor on the stack.
Descend(d) ==
  /\ outcome = "sorting" /\ stack # <<>>
  /\ d \in Deps(doc, Top) \ DOMAIN memo /\ d \notin OnStack
  /\ stack' = Append(stack, d)
  /\ UNCHANGED <<doc, file, outcome, memo, judging>>

\* BuildOrderCycleError: the cycle is the stack from d on.
Cycle(d) ==
  /\ outcome = "sorting" /\ stack # <<>>
  /\ d \in Deps(doc, Top) \cap OnStack
  /\ outcome' = "cycle"
  /\ stack' = SubSeq(stack, CHOOSE i \in DOMAIN stack : stack[i] = d, Len(stack))
  /\ UNCHANGED <<doc, file, memo, judging>>

\* One more than the latest wave of a dependency; 0 if there is none.
IsWave(w, waves) ==
  /\ w = 0 \/ \E v \in waves : w = v + 1
  /\ \A v \in waves : v < w

\* Fault: a dependency that is still on the stack is skipped.
ReturnSkipping(w) ==
  /\ outcome = "sorting" /\ stack # <<>>
  /\ Deps(doc, Top) \subseteq DOMAIN memo \cup OnStack
  /\ IsWave(w, {memo[d] : d \in Deps(doc, Top) \cap DOMAIN memo})
  /\ memo' = [t \in DOMAIN memo \cup {Top} |-> IF t = Top THEN w ELSE memo[t]]
  /\ stack' = SubSeq(stack, 1, Len(stack) - 1)
  /\ UNCHANGED <<doc, file, outcome, judging>>

\* wave_of returns: all the dependencies are in memo.
Return(w) ==
  /\ outcome = "sorting" /\ stack # <<>>
  /\ Deps(doc, Top) \subseteq DOMAIN memo
  /\ IsWave(w, {memo[d] : d \in Deps(doc, Top)})
  /\ memo' = [t \in DOMAIN memo \cup {Top} |-> IF t = Top THEN w ELSE memo[t]]
  /\ stack' = SubSeq(stack, 1, Len(stack) - 1)
  /\ UNCHANGED <<doc, file, outcome, judging>>

Sorted ==
  /\ outcome = "sorting" /\ stack = <<>> /\ Pending = {}
  /\ outcome' = "waves"
  /\ UNCHANGED <<doc, file, memo, stack, judging>>

\* Fault: a ticket is ready if all that is done are dependencies of it.
compute_ready_only(done) == {t \in DOMAIN doc : t \notin done /\ Deps(doc, t) = done}

compute_ready(done) == {t \in DOMAIN doc : t \notin done /\ Deps(doc, t) \subseteq done}

\* emit_json truncates the file and writes it.
Open ==
  /\ outcome = "waves"
  /\ outcome' = "writing" /\ file' = Torn
  /\ UNCHANGED <<doc, memo, stack, judging>>

Ends == outcome' = "none" /\ memo' = Nothing /\ stack' = <<>>

Written ==
  /\ outcome = "writing"
  /\ file' = doc
  /\ Ends
  /\ UNCHANGED <<doc, judging>>

\* An error message, the ready tickets (--done), or a kill.
Exit ==
  /\ outcome \in {"dangling", "cycle", "waves", "writing"}
  /\ Ends
  /\ UNCHANGED <<doc, file, judging>>

-----------------------------------------------------------------------------
(* compute_at_frontier                                                      *)

Finds(answer) == gate' = "found" /\ atFrontier' = answer /\ UNCHANGED walk

\* The label is enough; without it the file is read, and then the offset map
\* (.jira_creation_state.json), which may be unreadable or not know the ticket.
Labelled(t) ==
  /\ gate = "none" /\ outcome \in {"none", "writing"}
  /\ ticket' = t /\ manual' = TRUE
  /\ Finds(TRUE)
  /\ UNCHANGED <<doc, file, ordering, declared, verdict>>

Unknown(t) ==
  /\ gate = "none" /\ outcome \in {"none", "writing"}
  /\ ticket' = t /\ manual' = FALSE
  /\ Finds(FALSE)
  /\ UNCHANGED <<doc, file, ordering, declared, verdict>>

\* A file cut inside a character raises UnicodeDecodeError, which is not caught.
Raise(t) ==
  /\ gate = "none" /\ outcome \in {"none", "writing"} /\ file = Torn
  /\ ticket' = t /\ manual' = FALSE /\ gate' = "raised"
  /\ UNCHANGED <<doc, file, ordering, walk, atFrontier, declared, verdict>>

\* upstream_has_manual starts from the direct dependencies.
Walk(t) ==
  /\ gate = "none" /\ outcome \in {"none", "writing"} /\ file \notin {Absent, Torn}
  /\ ticket' = t /\ manual' = FALSE
  /\ gate' = "walking" /\ dag' = file
  /\ todo' = IF t \in DOMAIN file THEN Deps(file, t) ELSE {}
  /\ visited' = {}
  /\ UNCHANGED <<doc, file, ordering, atFrontier, declared, verdict>>

\* One round of the walk takes any d: the order of the stack does not matter, and
\* a ticket that is there twice is skipped the second time.
Take(d) ==
  /\ gate = "walking" /\ d \in todo
  /\ visited' = visited \cup {d}
  /\ UNCHANGED <<doc, file, ordering, ticket, manual, dag, declared, verdict>>

SkipTicket(d) ==
  /\ Take(d)
  /\ d \in visited \/ d \notin DOMAIN dag
  /\ todo' = todo \ {d}
  /\ UNCHANGED <<gate, atFrontier>>

FindManual(d) ==
  /\ Take(d)
  /\ d \notin visited /\ d \in DOMAIN dag /\ dag[d].executor = "manual"
  /\ todo' = todo \ {d}
  /\ gate' = "found" /\ atFrontier' = TRUE

\* Faults: only direct dependencies are looked at; there is no cycle guard.
GoNoFurther(d) ==
  /\ Take(d)
  /\ d \notin visited /\ d \in DOMAIN dag /\ dag[d].executor # "manual"
  /\ todo' = todo \ {d}
  /\ UNCHANGED <<gate, atFrontier>>
GoOnAgain(d) ==
  /\ Take(d)
  /\ d \in DOMAIN dag /\ dag[d].executor # "manual"
  /\ todo' = (todo \ {d}) \cup Deps(dag, d)
  /\ UNCHANGED <<gate, atFrontier>>

GoOn(d) ==
  /\ Take(d)
  /\ d \notin visited /\ d \in DOMAIN dag /\ dag[d].executor # "manual"
  /\ todo' = (todo \ {d}) \cup Deps(dag, d)
  /\ UNCHANGED <<gate, atFrontier>>

WalkEnds ==
  /\ gate = "walking" /\ todo = {}
  /\ Finds(FALSE)
  /\ UNCHANGED <<doc, file, ordering, ticket, manual, declared, verdict>>

\* evaluate_readiness_rubric: six core sections always, the two boundary sections
\* only at the frontier.
Judge(core, boundary) ==
  /\ gate = "found"
  /\ gate' = "judged" /\ declared' = boundary
  /\ verdict' = IF core /\ (atFrontier => boundary) THEN "READY" ELSE "NEEDS_CLARIFICATION"
  /\ UNCHANGED <<doc, file, ordering, ticket, manual, walk, atFrontier>>

Leave ==
  /\ gate \in {"judged", "raised"}
  /\ gate' = "none" /\ ticket' = Nobody /\ manual' = FALSE /\ atFrontier' = FALSE
  /\ declared' = FALSE /\ verdict' = "none"
  /\ dag' = Absent /\ todo' = {} /\ visited' = {}
  /\ UNCHANGED <<doc, file, ordering>>

-----------------------------------------------------------------------------
Waves == {0} \cup {memo[t] + 1 : t \in DOMAIN memo}

Orders ==
  \/ \E t \in Tickets : NextTicket(t) \/ Descend(t) \/ Cycle(t)
  \/ \E w \in Waves : Return(w)
  \/ Sorted \/ Open \/ Written \/ Exit

Asks == \E t \in Tickets : Labelled(t) \/ Unknown(t) \/ Raise(t) \/ Walk(t)

Judges ==
  \/ \E d \in Tickets : SkipTicket(d) \/ FindManual(d) \/ GoOn(d)
  \/ WalkEnds
  \/ \E core, boundary \in BOOLEAN : Judge(core, boundary)
  \/ Leave

Next == Start \/ Orders \/ Asks \/ Judges

Spec == Init /\ [][Next]_vars
FairSpec == Spec /\ WF_vars(Orders) /\ WF_vars(Judges)

-----------------------------------------------------------------------------
(* Properties                                                               *)

\* build_order.py is right about every document. A dangling dependency or a cycle
\* it reports is there; the waves it finds are the longest paths, which only an
\* acyclic and complete document has, so nothing that has a defect gets waves.
\* About: check_dangling, compute_waves and main's order of checks.
OrderIsRight ==
  /\ outcome = "dangling" => Dangling(doc)
  /\ outcome = "cycle" =>
       /\ stack # <<>> /\ stack[1] \in Deps(doc, stack[Len(stack)])
       /\ \A i \in 1 .. Len(stack) - 1 : stack[i + 1] \in Deps(doc, stack[i])
  /\ outcome \in {"waves", "writing"} =>
       /\ DOMAIN memo = DOMAIN doc /\ ~Dangling(doc)
       /\ \A t \in DOMAIN doc : IsWave(memo[t], {memo[d] : d \in Deps(doc, t)})

\* Once a document has waves, whatever is done, and in whatever order it was done,
\* something is ready until everything is done: compute_ready never leaves the
\* backlog stuck.
\* About: compute_ready together with compute_waves' cycle detection.
SomethingIsReady ==
  outcome = "waves" =>
    \A done \in SUBSET Tickets : DOMAIN doc \subseteq done \/ compute_ready(done) # {}

\* All that a ticket depends on, directly or not: what every set that contains its
\* dependencies and is closed under dependencies contains.
Closed(g, S) == \A t \in S \cap DOMAIN g : Deps(g, t) \subseteq S
Upstream(g, t) ==
  {u \in Tickets : \A S \in SUBSET Tickets :
     (t \in DOMAIN g => Deps(g, t) \subseteq S) /\ Closed(g, S) => u \in S}

\* compute_at_frontier is exact about the graph it read, cycles and missing tickets
\* included; so no ticket that is manual, or has a manual one upstream, is READY
\* without the boundary sections, and no other ticket is held up for them.
\* About: upstream_has_manual's walk and the rubric's use of its answer.
FrontierIsExact ==
  gate \in {"found", "judged"} =>
    /\ atFrontier <=>
         \/ manual
         \/ dag # Absent /\ \E u \in Upstream(dag, ticket) \cap DOMAIN dag : dag[u].executor = "manual"
    /\ verdict = "READY" => declared \/ ~atFrontier

\* Every run of build_order.py and every judgement comes to an end, also over
\* documents and files with cycles.
\* About: wave_of's recursion and the walk's cycle guard.
EveryRunEnds ==
  /\ outcome # "none" ~> outcome = "none"
  /\ gate # "none" ~> gate = "none"
=============================================================================
