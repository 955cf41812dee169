-------------------------- MODULE TicketTools_proofs --------------------------
(***************************************************************************)
(* The tools that look after the tickets before they are worked on.  What  *)
(* BuildOrder's runs show for three tickets holds for any set of tickets   *)
(* and any graph on them: the order is right, something is always ready,   *)
(* and the frontier is exactly what lies downstream of a manual ticket.    *)
(* And what Backlog's run shows for one small hierarchy holds for any: its *)
(* state file is true of Jira, and a run of the reconciler that meets      *)
(* nothing leaves every link right.                                        *)
(***************************************************************************)
EXTENDS BuildOrder, Backlog, TLAPS, SequenceTheorems, FiniteSetTheorems, WellFoundedInduction

-----------------------------------------------------------------------------
(* Graphs                                                                   *)

\* What a document or a file's DAG is made of.
LEMMA GraphShape ==
  ASSUME NEW g \in Graphs
  PROVE  /\ DOMAIN g \subseteq Tickets
         /\ \A t \in DOMAIN g : Deps(g, t) \subseteq Tickets
<1>1. PICK S \in SUBSET Tickets : g \in [S -> [deps : SUBSET Tickets, executor : Executors]]
  BY DEF Graphs
<1> QED
  BY <1>1 DEF Deps

\* Whatever lies on a path of dependencies lies upstream: direct dependencies do, and
\* so do the dependencies of what does.
LEMMA UpstreamGrows ==
  ASSUME NEW g \in Graphs, NEW t \in Tickets
  PROVE  /\ t \in DOMAIN g => Deps(g, t) \subseteq Upstream(g, t)
         /\ \A u \in Upstream(g, t) \cap DOMAIN g : Deps(g, u) \subseteq Upstream(g, t)
BY GraphShape DEF Upstream, Closed

\* A closed set that holds a ticket's dependencies holds all that is upstream of it.
LEMMA UpstreamIsLeast ==
  ASSUME NEW g \in Graphs, NEW t \in Tickets, NEW S \in SUBSET Tickets,
         t \in DOMAIN g => Deps(g, t) \subseteq S, Closed(g, S)
  PROVE  Upstream(g, t) \subseteq S
BY DEF Upstream

\* Among tickets with waves there is one with the least.
LEMMA LeastWave ==
  ASSUME NEW T, T # {}, NEW w, \A t \in T : w[t] \in Nat
  PROVE  \E t \in T : \A u \in T : w[t] <= w[u]
<1> DEFINE V == {w[t] : t \in T}
<1>1. \E n \in V : \A m \in V : <<m, n>> \notin OpToRel(<, Nat)
  <2>1. V \subseteq Nat /\ V # {}
    OBVIOUS
  <2> HIDE DEF V
  <2> QED
    BY <2>1, NatLessThanWellFounded, WFMin
<1>2. PICK n \in V : \A m \in V : <<m, n>> \notin OpToRel(<, Nat)
  BY <1>1
<1>3. \A m \in V : ~(m < n)
  BY <1>2 DEF OpToRel
<1> QED
  BY <1>3

-----------------------------------------------------------------------------
(* The inductive invariant                                                  *)

\* Whoever has a wave has it rightly; the stack is a path of tickets without one.
WaveInv ==
  \A t \in DOMAIN memo :
    /\ Deps(doc, t) \subseteq DOMAIN memo
    /\ IsWave(memo[t], {memo[d] : d \in Deps(doc, t)})

PathInv ==
  /\ \A i \in 1 .. Len(stack) - 1 : stack[i + 1] \in Deps(doc, stack[i])
  /\ outcome = "sorting" =>
       /\ \A i \in DOMAIN stack : stack[i] \notin DOMAIN memo
       /\ \A i, j \in DOMAIN stack : stack[i] = stack[j] => i = j

OrderInv ==
  /\ WaveInv /\ PathInv
  /\ outcome \in {"sorting", "waves", "writing"} => ~Dangling(doc)
  /\ outcome = "dangling" => Dangling(doc)
  /\ outcome = "cycle" => stack # <<>> /\ stack[1] \in Deps(doc, stack[Len(stack)])
  /\ outcome \in {"waves", "writing"} => DOMAIN memo = DOMAIN doc
  /\ outcome = "none" => DOMAIN memo = {} /\ DOMAIN stack = {}

\* The walk has been nowhere but upstream, owes nothing but what is in todo, and
\* has met no manual ticket.
WalkInv ==
  gate = "walking" =>
    /\ dag \in Graphs /\ manual = FALSE
    /\ todo \cup visited \subseteq Upstream(dag, ticket)
    /\ ticket \in DOMAIN dag => Deps(dag, ticket) \subseteq todo \cup visited
    /\ \A t \in visited \cap DOMAIN dag :
         Deps(dag, t) \subseteq todo \cup visited /\ dag[t].executor # "manual"

GateInv ==
  /\ gate = "none" => dag = Absent
  /\ gate # "judged" => verdict = "none"

Inv == TypeOK /\ OrderInv /\ WalkInv /\ GateInv /\ FrontierIsExact

\* It holds at the start.
LEMMA InitInv == Init => Inv
<1> SUFFICES ASSUME Init PROVE Inv
  OBVIOUS
<1>1. Nobody \in Tickets
  BY BuildOrderAssumption DEF Nobody
<1>2. DOMAIN Nothing = {}
  BY DEF Nothing
<1>3. DOMAIN memo \subseteq DOMAIN doc /\ (\A t \in DOMAIN memo : memo[t] \in Nat)
  BY <1>2 DEF Init
<1>4. stack \in Seq(DOMAIN doc) /\ Len(stack) = 0 /\ DOMAIN stack = {}
  BY DEF Init
<1>5. TypeOK
  BY <1>1, <1>3, <1>4 DEF Init, TypeOK
<1> QED
  BY <1>2, <1>4, <1>5 DEF Init, Inv, OrderInv, WaveInv, PathInv, WalkInv, GateInv, FrontierIsExact

-----------------------------------------------------------------------------
(* The steps of build_order.py                                              *)

\* Popping leaves the rest of the stack as it was.
LEMMA Popped ==
  ASSUME NEW S, NEW s \in Seq(S), s # <<>>
  PROVE  /\ SubSeq(s, 1, Len(s) - 1) \in Seq(S)
         /\ Len(SubSeq(s, 1, Len(s) - 1)) = Len(s) - 1
         /\ \A i \in 1 .. Len(s) - 1 : SubSeq(s, 1, Len(s) - 1)[i] = s[i]
         /\ DOMAIN SubSeq(s, 1, Len(s) - 1) = 1 .. Len(s) - 1
         /\ s[Len(s)] \in S
         /\ Len(s) \in Nat \ {0} /\ DOMAIN s = 1 .. Len(s)
<1>1. Len(s) \in Nat /\ DOMAIN s = 1 .. Len(s) /\ (\A i \in 1 .. Len(s) : s[i] \in S)
  BY ElementOfSeq, LenProperties
<1>2. Len(s) # 0
  BY EmptySeq
<1>3. /\ 1 \in 1 .. Len(s) + 1 /\ Len(s) - 1 \in 0 .. Len(s)
      /\ Len(s) - 1 - 1 + 1 = Len(s) - 1 /\ \A i \in 1 .. Len(s) - 1 : 1 + i - 1 = i
  BY <1>1, <1>2
<1> DEFINE p == SubSeq(s, 1, Len(s) - 1)
<1>4. p \in Seq(S) /\ Len(p) = Len(s) - 1 /\ (\A i \in 1 .. Len(s) - 1 : p[i] = s[i])
  BY <1>1, <1>2, <1>3, SubSeqProperties
<1>5. DOMAIN p = 1 .. Len(s) - 1
  BY <1>4, LenProperties
<1> QED
  BY <1>1, <1>2, <1>4, <1>5

\* A return gives a wave to the top of the stack and to nobody else.
LEMMA ReturnStep ==
  ASSUME TypeOK, OrderInv, NEW w \in Waves, Return(w)
  PROVE  TypeOK' /\ OrderInv'
<1> DEFINE n == Len(stack)
           short == SubSeq(stack, 1, n - 1)
<1>1. /\ outcome = "sorting" /\ stack # <<>> /\ stack \in Seq(DOMAIN doc)
      /\ Deps(doc, Top) \subseteq DOMAIN memo
      /\ IsWave(w, {memo[d] : d \in Deps(doc, Top)})
      /\ memo' = [t \in DOMAIN memo \cup {Top} |-> IF t = Top THEN w ELSE memo[t]]
      /\ stack' = short
      /\ UNCHANGED <<doc, file, outcome>> /\ UNCHANGED judging
  BY DEF Return, TypeOK
<1>2. /\ short \in Seq(DOMAIN doc) /\ Len(short) = n - 1
      /\ \A i \in 1 .. n - 1 : short[i] = stack[i]
      /\ Top \in DOMAIN doc /\ n \in Nat \ {0} /\ DOMAIN stack = 1 .. n
      /\ DOMAIN short = 1 .. n - 1
  BY <1>1, Popped DEF Top
<1> HIDE DEF short
<1>3. Top \notin DOMAIN memo
  BY <1>1, <1>2 DEF OrderInv, PathInv, Top
<1>4. w \in Nat
  BY DEF Waves, TypeOK
<1>5. DOMAIN memo' = DOMAIN memo \cup {Top} /\ memo'[Top] = w
      /\ \A t \in DOMAIN memo : memo'[t] = memo[t]
  BY <1>1, <1>3
<1>6. TypeOK'
  BY <1>1, <1>2, <1>4, <1>5 DEF TypeOK, judging, walk
<1>7. WaveInv'
  <2> SUFFICES ASSUME NEW t \in DOMAIN memo'
               PROVE  /\ Deps(doc, t) \subseteq DOMAIN memo
                      /\ IsWave(memo'[t], {memo[d] : d \in Deps(doc, t)})
    <3>1. \A t \in DOMAIN memo' : Deps(doc, t) \subseteq DOMAIN memo =>
            {memo'[d] : d \in Deps(doc, t)} = {memo[d] : d \in Deps(doc, t)}
      BY <1>5
    <3> QED
      BY <1>1, <1>5, <3>1 DEF WaveInv, Deps
  <2>1. CASE t = Top
    BY <1>1, <1>5, <2>1
  <2>2. CASE t \in DOMAIN memo
    BY <1>5, <2>2 DEF OrderInv, WaveInv
  <2> QED
    BY <1>5, <2>1, <2>2
<1>8. PathInv'
  <2>1. \A i \in 1 .. n - 1 : stack[i] # Top
    BY <1>1, <1>2 DEF OrderInv, PathInv, Top
  <2>2. \A i \in 1 .. Len(stack') - 1 : stack'[i + 1] \in Deps(doc, stack'[i])
    <3>1. \A i \in 1 .. n - 2 : short[i] = stack[i] /\ short[i + 1] = stack[i + 1]
      BY <1>2
    <3> QED
      BY <1>1, <1>2, <3>1 DEF OrderInv, PathInv
  <2>3. \A i \in DOMAIN stack' : stack'[i] \notin DOMAIN memo'
    BY <1>1, <1>2, <1>5, <2>1 DEF OrderInv, PathInv
  <2>4. \A i, j \in DOMAIN stack' : stack'[i] = stack'[j] => i = j
    BY <1>1, <1>2 DEF OrderInv, PathInv
  <2> QED
    BY <1>1, <2>2, <2>3, <2>4 DEF PathInv, Deps
<1> QED
  BY <1>1, <1>6, <1>7, <1>8 DEF OrderInv, Dangling, Deps

\* A call pushes a ticket that has no wave and is not on the path yet.
LEMMA CallStep ==
  ASSUME TypeOK, OrderInv, NEW d \in Tickets, NextTicket(d) \/ Descend(d)
  PROVE  TypeOK' /\ OrderInv'
<1>1. /\ outcome = "sorting" /\ stack \in Seq(DOMAIN doc) /\ stack' = Append(stack, d)
      /\ d \in DOMAIN doc \ DOMAIN memo /\ d \notin OnStack
      /\ stack # <<>> => d \in Deps(doc, Top)
      /\ UNCHANGED <<doc, file, outcome, memo>> /\ UNCHANGED judging
  <2>1. CASE NextTicket(d)
    BY <2>1 DEF NextTicket, Pending, OnStack, TypeOK
  <2>2. CASE Descend(d)
    <3>1. Top \in DOMAIN doc
      BY <2>2, Popped DEF Descend, Top, TypeOK
    <3> QED
      BY <2>2, <3>1 DEF Descend, OrderInv, Dangling, TypeOK
  <2> QED
    BY <2>1, <2>2
<1>2. /\ stack' \in Seq(DOMAIN doc) /\ Len(stack') = Len(stack) + 1
      /\ stack'[Len(stack) + 1] = d /\ Len(stack) \in Nat
      /\ \A i \in 1 .. Len(stack) : stack'[i] = stack[i]
      /\ DOMAIN stack = 1 .. Len(stack) /\ DOMAIN stack' = 1 .. Len(stack) + 1
  BY <1>1
<1>3. TypeOK'
  BY <1>1, <1>2 DEF TypeOK, judging, walk
<1>4. PathInv'
  <2>1. \A i \in 1 .. Len(stack') - 1 : stack'[i + 1] \in Deps(doc, stack'[i])
    <3> SUFFICES ASSUME NEW i \in 1 .. Len(stack) PROVE stack'[i + 1] \in Deps(doc, stack[i])
      BY <1>2
    <3>1. CASE i = Len(stack)
      <4>1. stack # <<>>
        BY <1>2, <3>1
      <4> QED
        BY <1>1, <1>2, <3>1, <4>1 DEF Top
    <3>2. CASE i # Len(stack)
      <4>0. Len(stack) \in Nat
        BY <1>2
      <4> DEFINE n == Len(stack)
      <4>1. i \in 1 .. n - 1 /\ i + 1 \in 1 .. n
        <5> HIDE DEF n
        <5>1. i \in 1 .. n /\ i # n /\ n \in Nat
          BY <3>2, <4>0 DEF n
        <5> QED
          BY <5>1
      <4>3. stack'[i + 1] = stack[i + 1]
        BY <1>2, <4>1
      <4>2. \A j \in 1 .. Len(stack) - 1 : stack[j + 1] \in Deps(doc, stack[j])
        BY DEF OrderInv, PathInv
      <4> QED
        BY <4>1, <4>2, <4>3
    <3> QED
      BY <3>1, <3>2
  <2>2. \A i \in DOMAIN stack' : stack'[i] \notin DOMAIN memo
    BY <1>1, <1>2 DEF OrderInv, PathInv
  <2>3. \A i, j \in DOMAIN stack' : stack'[i] = stack'[j] => i = j
    BY <1>1, <1>2 DEF OrderInv, PathInv, OnStack
  <2> QED
    BY <1>1, <2>1, <2>2, <2>3 DEF PathInv, Deps
<1> QED
  BY <1>1, <1>3, <1>4 DEF OrderInv, WaveInv, Dangling, Deps

\* The cycle that is reported is the part of the path that d closes.
LEMMA CycleStep ==
  ASSUME TypeOK, OrderInv, NEW d \in Tickets, Cycle(d)
  PROVE  TypeOK' /\ OrderInv'
<1> DEFINE n == Len(stack)
           k == CHOOSE i \in DOMAIN stack : stack[i] = d
<1>1. /\ outcome = "sorting" /\ outcome' = "cycle" /\ stack # <<>> /\ stack \in Seq(DOMAIN doc)
      /\ d \in Deps(doc, Top) /\ d \in OnStack
      /\ stack' = SubSeq(stack, k, n)
      /\ UNCHANGED <<doc, file, memo>> /\ UNCHANGED judging
  BY DEF Cycle, TypeOK
<1>2. k \in DOMAIN stack /\ stack[k] = d
  BY <1>1 DEF OnStack
<1> HIDE DEF k
<1>3. /\ stack' \in Seq(DOMAIN doc) /\ Len(stack') = n - k + 1
      /\ k \in 1 .. n /\ n \in Nat /\ stack' # <<>>
      /\ \A i \in 1 .. n - k + 1 : stack'[i] = stack[k + i - 1]
  BY <1>1, <1>2
<1>4. TypeOK'
  BY <1>1, <1>3 DEF TypeOK, judging, walk
<1>5. stack'[1] \in Deps(doc, stack'[Len(stack')])
  <2>1. stack'[1] = stack[k] /\ stack'[n - k + 1] = stack[n]
    BY <1>3
  <2> QED
    BY <1>1, <1>2, <1>3, <2>1 DEF Top
<1>6. \A i \in 1 .. Len(stack') - 1 : stack'[i + 1] \in Deps(doc, stack'[i])
  <2> SUFFICES ASSUME NEW i \in 1 .. n - k PROVE stack'[i + 1] \in Deps(doc, stack'[i])
    BY <1>3
  <2>1. k + i - 1 \in 1 .. n - 1 /\ stack'[i] = stack[k + i - 1]
        /\ stack'[i + 1] = stack[(k + i - 1) + 1]
    BY <1>3
  <2> QED
    BY <2>1 DEF OrderInv, PathInv
<1>7. PathInv'
  BY <1>1, <1>6 DEF PathInv, Deps
<1>8. WaveInv'
  BY <1>1 DEF OrderInv, WaveInv, Deps
<1> QED
  BY <1>1, <1>3, <1>4, <1>5, <1>7, <1>8 DEF OrderInv, Deps

\* The steps that leave memo and stack alone, or clear them.
LEMMA OtherOrderStep ==
  ASSUME TypeOK, OrderInv, Start \/ Sorted \/ Open \/ Written \/ Exit
  PROVE  TypeOK' /\ OrderInv'
<1>1. DOMAIN Nothing = {}
  BY DEF Nothing
<1>2. CASE Start
  <2>1. TypeOK'
    BY <1>2 DEF Start, TypeOK, judging, walk
  <2>2. stack' = stack /\ memo' = memo /\ doc' = doc /\ outcome' \in {"dangling", "sorting"}
        /\ (outcome' = "dangling" <=> Dangling(doc))
    BY <1>2 DEF Start
  <2>3. DOMAIN memo = {} /\ DOMAIN stack = {}
    BY <1>2 DEF Start, OrderInv
  <2>4. WaveInv'
    BY <2>2, <2>3 DEF WaveInv
  <2>5. PathInv'
    BY <2>2, <2>3 DEF OrderInv, PathInv, Deps
  <2>6. Dangling(doc)' = Dangling(doc)
    BY <2>2 DEF Dangling, Deps
  <2> QED
    BY <2>1, <2>2, <2>4, <2>5, <2>6 DEF OrderInv
<1>3. CASE Sorted
  <2>1. TypeOK'
    BY <1>3 DEF Sorted, TypeOK, judging, walk
  <2>2. DOMAIN memo = DOMAIN doc
    BY <1>3 DEF Sorted, Pending, TypeOK
  <2>3. UNCHANGED <<doc, memo, stack>> /\ outcome = "sorting" /\ outcome' = "waves"
    BY <1>3 DEF Sorted
  <2>4. WaveInv' /\ PathInv' /\ Dangling(doc)' = Dangling(doc)
    BY <2>3 DEF OrderInv, WaveInv, PathInv, Dangling, Deps
  <2> QED
    BY <2>1, <2>2, <2>3, <2>4 DEF OrderInv
<1>4. CASE Open
  <2>1. TypeOK'
    BY <1>4 DEF Open, TypeOK, judging, walk
  <2> QED
    BY <1>4, <2>1 DEF Open, OrderInv, WaveInv, PathInv, Dangling, Deps
<1>5. CASE Written \/ Exit
  <2>1. /\ outcome' = "none" /\ memo' = Nothing /\ stack' = <<>> /\ doc' = doc
        /\ file' \in {file, doc} /\ UNCHANGED judging
    BY <1>5 DEF Written, Exit, Ends
  <2>2. TypeOK'
    BY <1>1, <2>1 DEF TypeOK, judging, walk
  <2>3. Len(stack') = 0 /\ DOMAIN stack' = {}
    BY <2>1
  <2> QED
    BY <1>1, <2>1, <2>2, <2>3 DEF OrderInv, WaveInv, PathInv
<1> QED
  BY <1>2, <1>3, <1>4, <1>5

-----------------------------------------------------------------------------
(* The steps of the gate                                                    *)

GateOK == TypeOK /\ WalkInv /\ GateInv /\ FrontierIsExact

\* The file is a graph where the walk starts, and the walk starts upstream.
LEMMA AskStep ==
  ASSUME GateOK, NEW t \in Tickets, Labelled(t) \/ Unknown(t) \/ Raise(t) \/ Walk(t)
  PROVE  GateOK'
<1>1. CASE Labelled(t) \/ Unknown(t)
  <2>1. /\ gate = "none" /\ gate' = "found" /\ ticket' = t /\ atFrontier' = manual'
        /\ manual' \in BOOLEAN /\ UNCHANGED walk
        /\ UNCHANGED <<doc, file, declared, verdict>> /\ UNCHANGED ordering
    BY <1>1 DEF Labelled, Unknown, Finds
  <2>2. dag' = Absent /\ verdict' = "none"
    BY <2>1 DEF GateOK, GateInv, walk
  <2>3. TypeOK'
    BY <2>1 DEF GateOK, TypeOK, ordering, walk
  <2>4. FrontierIsExact'
    BY <2>1, <2>2 DEF FrontierIsExact
  <2> QED
    BY <2>1, <2>2, <2>3, <2>4 DEF GateOK, WalkInv, GateInv
<1>2. CASE Raise(t)
  <2>1. TypeOK'
    BY <1>2 DEF Raise, GateOK, TypeOK, ordering, walk
  <2> QED
    BY <1>2, <2>1 DEF Raise, GateOK, WalkInv, GateInv, FrontierIsExact
<1>3. CASE Walk(t)
  <2> DEFINE first == IF t \in DOMAIN file THEN Deps(file, t) ELSE {}
  <2>1. /\ file \in Graphs /\ dag' = file /\ ticket' = t /\ manual' = FALSE
        /\ gate' = "walking" /\ todo' = first /\ visited' = {} /\ verdict' = "none"
        /\ UNCHANGED <<doc, file, atFrontier, declared, verdict>> /\ UNCHANGED ordering
    BY <1>3 DEF Walk, GateOK, TypeOK, GateInv
  <2>2. first \subseteq Tickets /\ first \subseteq Upstream(file, t)
    BY <2>1, GraphShape, UpstreamGrows
  <2>3. TypeOK'
    BY <2>1, <2>2 DEF GateOK, TypeOK, ordering
  <2>4. WalkInv'
    BY <2>1, <2>2 DEF WalkInv, Upstream, Closed, Deps
  <2> QED
    BY <2>1, <2>3, <2>4 DEF GateOK, GateInv, FrontierIsExact
<1> QED
  BY <1>1, <1>2, <1>3

\* A round of the walk stays upstream and leaves nothing out.
LEMMA WalkStep ==
  ASSUME GateOK, NEW d \in Tickets, SkipTicket(d) \/ FindManual(d) \/ GoOn(d)
  PROVE  GateOK'
<1>1. /\ gate = "walking" /\ d \in todo /\ visited' = visited \cup {d}
      /\ UNCHANGED <<doc, file, ticket, manual, dag, declared, verdict>> /\ UNCHANGED ordering
  BY DEF SkipTicket, FindManual, GoOn, Take
<1>2. /\ dag \in Graphs /\ manual = FALSE /\ verdict = "none"
      /\ todo \cup visited \subseteq Upstream(dag, ticket)
      /\ ticket \in DOMAIN dag => Deps(dag, ticket) \subseteq todo \cup visited
      /\ \A t \in visited \cap DOMAIN dag :
           Deps(dag, t) \subseteq todo \cup visited /\ dag[t].executor # "manual"
  BY <1>1 DEF GateOK, WalkInv, GateInv
<1>3. ticket \in Tickets /\ todo \subseteq Tickets /\ visited \subseteq Tickets
  BY DEF GateOK, TypeOK
<1>4. CASE SkipTicket(d)
  <2>1. /\ todo' = todo \ {d} /\ UNCHANGED <<gate, atFrontier>>
        /\ d \in visited \/ d \notin DOMAIN dag
    BY <1>4 DEF SkipTicket
  <2>2. TypeOK'
    BY <1>1, <1>3, <2>1 DEF GateOK, TypeOK, ordering
  <2>3. WalkInv'
    BY <1>1, <1>2, <2>1 DEF WalkInv, Upstream, Closed, Deps
  <2> QED
    BY <1>1, <1>2, <2>1, <2>2, <2>3 DEF GateOK, GateInv, FrontierIsExact
<1>5. CASE FindManual(d)
  <2>1. /\ todo' = todo \ {d} /\ gate' = "found" /\ atFrontier' = TRUE
        /\ d \in DOMAIN dag /\ dag[d].executor = "manual"
    BY <1>5 DEF FindManual
  <2>2. TypeOK'
    BY <1>1, <1>3, <2>1 DEF GateOK, TypeOK, ordering
  <2>3. dag # Absent
    BY <1>2, BuildOrderAssumption
  <2>4. \E u \in Upstream(dag, ticket) \cap DOMAIN dag : dag[u].executor = "manual"
    BY <1>1, <1>2, <2>1
  <2>5. FrontierIsExact'
    BY <1>1, <1>2, <2>1, <2>3, <2>4 DEF FrontierIsExact, Upstream, Closed, Deps
  <2> QED
    BY <1>1, <1>2, <2>1, <2>2, <2>5 DEF GateOK, WalkInv, GateInv
<1>6. CASE GoOn(d)
  <2>1. /\ todo' = (todo \ {d}) \cup Deps(dag, d) /\ UNCHANGED <<gate, atFrontier>>
        /\ d \in DOMAIN dag /\ dag[d].executor # "manual"
    BY <1>6 DEF GoOn
  <2>2. Deps(dag, d) \subseteq Tickets /\ Deps(dag, d) \subseteq Upstream(dag, ticket)
    BY <1>1, <1>2, <1>3, <2>1, GraphShape, UpstreamGrows
  <2>3. TypeOK'
    BY <1>1, <1>3, <2>1, <2>2 DEF GateOK, TypeOK, ordering
  <2>4. WalkInv'
    BY <1>1, <1>2, <2>1, <2>2 DEF WalkInv, Upstream, Closed, Deps
  <2> QED
    BY <1>1, <1>2, <2>1, <2>3, <2>4 DEF GateOK, GateInv, FrontierIsExact
<1> QED
  BY <1>4, <1>5, <1>6

\* Where nothing is left to do, what has been visited is all there is upstream.
LEMMA WalkEndsStep == ASSUME GateOK, WalkEnds PROVE GateOK'
<1>1. /\ gate = "walking" /\ gate' = "found" /\ todo = {} /\ atFrontier' = FALSE
      /\ UNCHANGED walk /\ UNCHANGED <<doc, file, ticket, manual, declared, verdict>>
      /\ UNCHANGED ordering
  BY DEF WalkEnds, Finds
<1>2. /\ dag \in Graphs /\ manual = FALSE /\ verdict = "none"
      /\ ticket \in DOMAIN dag => Deps(dag, ticket) \subseteq visited
      /\ \A t \in visited \cap DOMAIN dag :
           Deps(dag, t) \subseteq visited /\ dag[t].executor # "manual"
  BY <1>1 DEF GateOK, WalkInv, GateInv
<1>3. ticket \in Tickets /\ visited \in SUBSET Tickets
  BY DEF GateOK, TypeOK
<1>4. Upstream(dag, ticket) \subseteq visited
  BY <1>2, <1>3, UpstreamIsLeast DEF Closed
<1>5. TypeOK'
  BY <1>1 DEF GateOK, TypeOK, ordering, walk
<1>6. FrontierIsExact'
  BY <1>1, <1>2, <1>4 DEF FrontierIsExact, walk, Upstream, Closed, Deps
<1> QED
  BY <1>1, <1>2, <1>5, <1>6 DEF GateOK, WalkInv, GateInv

\* The rubric and the end of the judgement.
LEMMA VerdictStep ==
  ASSUME GateOK, (\E core, boundary \in BOOLEAN : Judge(core, boundary)) \/ Leave
  PROVE  GateOK'
<1>1. CASE \E core, boundary \in BOOLEAN : Judge(core, boundary)
  <2>1. PICK core \in BOOLEAN, boundary \in BOOLEAN : Judge(core, boundary)
    BY <1>1
  <2>2. /\ gate = "found" /\ gate' = "judged" /\ declared' = boundary
        /\ verdict' \in {"READY", "NEEDS_CLARIFICATION"}
        /\ verdict' = "READY" => declared' \/ ~atFrontier
        /\ UNCHANGED walk /\ UNCHANGED ordering
        /\ UNCHANGED <<doc, file, ticket, manual, atFrontier>>
    BY <2>1 DEF Judge
  <2>3. TypeOK'
    BY <2>2 DEF GateOK, TypeOK, ordering, walk
  <2>4. FrontierIsExact'
    BY <2>2 DEF GateOK, FrontierIsExact, walk, Upstream, Closed, Deps
  <2> QED
    BY <2>2, <2>3, <2>4 DEF GateOK, WalkInv, GateInv
<1>2. CASE Leave
  <2>1. Nobody \in Tickets
    BY BuildOrderAssumption DEF Nobody
  <2>2. TypeOK'
    BY <1>2, <2>1 DEF Leave, GateOK, TypeOK, ordering
  <2> QED
    BY <1>2, <2>2 DEF Leave, GateOK, WalkInv, GateInv, FrontierIsExact
<1> QED
  BY <1>1, <1>2

-----------------------------------------------------------------------------
(* The theorems                                                             *)

\* Neither program touches what the other computes from.
LEMMA OrderingApart ==
  ASSUME OrderInv, UNCHANGED <<doc, ordering>> PROVE OrderInv'
BY DEF ordering, OrderInv, WaveInv, PathInv, Dangling, Deps

\* The same of the gate.
LEMMA JudgingApart ==
  ASSUME WalkInv, GateInv, FrontierIsExact, UNCHANGED judging
  PROVE  WalkInv' /\ GateInv' /\ FrontierIsExact'
<1>1. UNCHANGED <<gate, ticket, manual, dag, todo, visited, atFrontier, declared, verdict>>
  BY DEF judging, walk
<1>2. WalkInv'
  BY <1>1 DEF WalkInv, Upstream, Closed, Deps
<1>3. FrontierIsExact'
  BY <1>1 DEF FrontierIsExact, Upstream, Closed, Deps
<1> QED
  BY <1>1, <1>2, <1>3 DEF GateInv

\* Every step keeps the invariant.
LEMMA StepInv == Inv /\ [Next]_vars => Inv'
<1> SUFFICES ASSUME Inv, [Next]_vars PROVE Inv'
  OBVIOUS
<1>0. TypeOK /\ OrderInv /\ WalkInv /\ GateInv /\ FrontierIsExact /\ GateOK
  BY DEF Inv, GateOK
<1>1. ASSUME TypeOK' /\ OrderInv', UNCHANGED judging PROVE Inv'
  BY <1>0, <1>1, JudgingApart DEF Inv
<1>2. ASSUME GateOK', UNCHANGED <<doc, ordering>> PROVE Inv'
  BY <1>0, <1>2, OrderingApart DEF Inv, GateOK
<1>3. CASE Start \/ Sorted \/ Open \/ Written \/ Exit
  <2>1. UNCHANGED judging
    BY <1>3 DEF Start, Sorted, Open, Written, Exit
  <2> QED
    BY <1>0, <1>1, <1>3, <2>1, OtherOrderStep
<1>4. CASE \E t \in Tickets : NextTicket(t) \/ Descend(t) \/ Cycle(t)
  <2>1. PICK t \in Tickets : NextTicket(t) \/ Descend(t) \/ Cycle(t)
    BY <1>4
  <2>2. UNCHANGED judging
    BY <2>1 DEF NextTicket, Descend, Cycle
  <2> QED
    BY <1>0, <1>1, <2>1, <2>2, CallStep, CycleStep
<1>5. CASE \E w \in Waves : Return(w)
  <2>1. PICK w \in Waves : Return(w)
    BY <1>5
  <2>2. UNCHANGED judging
    BY <2>1 DEF Return
  <2> QED
    BY <1>0, <1>1, <2>1, <2>2, ReturnStep
<1>6. CASE Asks
  <2>1. PICK t \in Tickets : Labelled(t) \/ Unknown(t) \/ Raise(t) \/ Walk(t)
    BY <1>6 DEF Asks
  <2>2. UNCHANGED <<doc, ordering>>
    BY <2>1 DEF Labelled, Unknown, Raise, Walk
  <2> QED
    BY <1>0, <1>2, <2>1, <2>2, AskStep
<1>7. CASE \E d \in Tickets : SkipTicket(d) \/ FindManual(d) \/ GoOn(d)
  <2>1. PICK d \in Tickets : SkipTicket(d) \/ FindManual(d) \/ GoOn(d)
    BY <1>7
  <2>2. UNCHANGED <<doc, ordering>>
    BY <2>1 DEF SkipTicket, FindManual, GoOn, Take
  <2> QED
    BY <1>0, <1>2, <2>1, <2>2, WalkStep
<1>8. CASE WalkEnds
  <2>1. UNCHANGED <<doc, ordering>>
    BY <1>8 DEF WalkEnds
  <2> QED
    BY <1>0, <1>2, <1>8, <2>1, WalkEndsStep
<1>9. CASE (\E core, boundary \in BOOLEAN : Judge(core, boundary)) \/ Leave
  <2>1. UNCHANGED <<doc, ordering>>
    BY <1>9 DEF Judge, Leave
  <2> QED
    BY <1>0, <1>2, <1>9, <2>1, VerdictStep
<1>10. CASE UNCHANGED vars
  <2>1. UNCHANGED <<doc, file, outcome, memo, stack>> /\ UNCHANGED judging
    BY <1>10 DEF vars, ordering
  <2>2. TypeOK'
    BY <1>0, <2>1 DEF TypeOK, judging, walk
  <2> QED
    BY <1>0, <1>1, <2>1, <2>2, OrderingApart DEF ordering
<1> QED
  BY <1>3, <1>4, <1>5, <1>6, <1>7, <1>8, <1>9, <1>10 DEF Next, Orders, Judges

\* The inductive invariant, of every behaviour.
THEOREM Invariance == Spec => []Inv
<1> QED
  BY InitInv, StepInv, PTL DEF Spec

\* TypeOK, whatever the tickets and the graph.
THEOREM TypeCorrect == Spec => []TypeOK
<1>1. Inv => TypeOK
  BY DEF Inv
<1> QED
  BY <1>1, Invariance, PTL

\* check_dangling, compute_waves and main: what build_order.py reports is there, and
\* only an acyclic and complete document gets waves, the right ones.
THEOREM OrdersRightly == Spec => []OrderIsRight
<1>1. Inv => OrderIsRight
  BY DEF Inv, OrderInv, PathInv, WaveInv, OrderIsRight
<1> QED
  BY <1>1, Invariance, PTL

\* compute_ready: the least wave of what is not done is ready, because all it depends
\* on has a lesser one.
THEOREM NeverStuck == Spec => []SomethingIsReady
<1>1. Inv => SomethingIsReady
  <2> SUFFICES ASSUME Inv, outcome = "waves", NEW done \in SUBSET Tickets,
                      ~(DOMAIN doc \subseteq done)
               PROVE  compute_ready(done) # {}
    BY DEF SomethingIsReady
  <2>1. DOMAIN memo = DOMAIN doc /\ WaveInv /\ \A t \in DOMAIN memo : memo[t] \in Nat
    BY DEF Inv, OrderInv, TypeOK
  <2>2. PICK t \in DOMAIN doc \ done : \A u \in DOMAIN doc \ done : memo[t] <= memo[u]
    BY <2>1, LeastWave
  <2>3. ASSUME NEW d \in Deps(doc, t), d \notin done PROVE FALSE
    <3>1. d \in DOMAIN doc /\ memo[d] < memo[t]
      BY <2>1, <2>2, <2>3 DEF WaveInv, IsWave
    <3>2. memo[t] <= memo[d] /\ memo[t] \in Nat /\ memo[d] \in Nat
      BY <2>1, <2>2, <2>3, <3>1
    <3> QED
      BY <3>1, <3>2
  <2> QED
    BY <2>2, <2>3 DEF compute_ready
<1> QED
  BY <1>1, Invariance, PTL

\* upstream_has_manual and the rubric: the frontier is what lies downstream of a
\* manual ticket, over cycles and missing tickets too.
THEOREM FrontierExact == Spec => []FrontierIsExact
<1>1. Inv => FrontierIsExact
  BY DEF Inv
<1> QED
  BY <1>1, Invariance, PTL

-----------------------------------------------------------------------------
(* The tickets' issues in Jira: Backlog, for any hierarchy, number of runs  *)
(* and mishaps                                                              *)

\* Where a tool is in its list, and that it knows what is in the file.
PlaceInv ==
  /\ tool = "none" => pc = "pick"
  /\ tool # "none" => state = saved
  /\ tool = "reconciler" => agenda \in Seq(Edges) /\ DOMAIN cache = IssueKeys
  /\ pc \in {"again", "save"} => tool = "creator" /\ agenda # <<>>
  /\ pc \in {"delete", "create"} => Reconciling(Edges) /\ Linkable(Head(agenda))

\* The issue that is about to be saved was the last to be made.
MadeFor(x, issue) == issue.item = x /\ (x \in Tasks => issue.parent = state[EpicOf[x]])

UnsavedInv ==
  pc = "save" =>
    /\ Head(agenda) \in Items /\ state[Head(agenda)] = NoKey
    /\ Len(issues) > 0 /\ MadeFor(Head(agenda), issues[Len(issues)])

KeysInv == saved # CutShort => TrueOf(saved)

CreatedInv == saved # CutShort => Len(issues) <= Cardinality(Recorded(saved)) + Fresh + mishaps

BacklogInv == BacklogTypeOK /\ PlaceInv /\ UnsavedInv /\ KeysInv /\ CreatedInv

\* The elements of a list.
LEMMA Elements ==
  ASSUME NEW S, NEW list \in Seq(S), NEW T,
         \A x : x \in T <=> \E i \in DOMAIN list : x = list[i]
  PROVE  T \subseteq S /\ IsFiniteSet(T) /\ list \in Seq(T)
<1>1. DOMAIN list = 1 .. Len(list) /\ Len(list) \in Nat
  OBVIOUS
<1>2. T \subseteq S
  BY <1>1
<1>3. list \in Surjection(DOMAIN list, T)
  BY <1>1 DEF Surjection
<1>4. IsFiniteSet(T)
  BY <1>1, <1>3, FS_Interval, FS_Surjection
<1>5. list \in Seq(T)
  BY <1>1
<1> QED
  BY <1>2, <1>4, <1>5

\* What a hierarchy is made of; its document is finite.
LEMMA Hierarchy ==
  /\ EpicList \in Seq(Items) /\ TicketList \in Seq(Items)
  /\ EdgeList \in Seq(Edges) /\ IsFiniteSet(Items)
  /\ \A e \in Edges : e.blocker \in Items /\ e.blocked \in Items
  /\ \A t \in Tasks : EpicOf[t] \in Items
  /\ CutShort \notin States /\ NoKey \notin Nat
<1>0. /\ \A x : x \in EpicIds <=> \E i \in DOMAIN EpicList : x = EpicList[i]
      /\ \A x : x \in Tasks <=> \E i \in DOMAIN TicketList : x = TicketList[i]
      /\ \A x : x \in Edges <=> \E i \in DOMAIN EdgeList : x = EdgeList[i]
  BY DEF EpicIds, Tasks, Edges
<1>1. EpicList \in Seq(EpicIds) /\ TicketList \in Seq(Tasks)
      /\ EdgeList \in Seq([blocker : Tasks, blocked : Tasks])
  BY BacklogAssumption
<1>2. IsFiniteSet(EpicIds) /\ IsFiniteSet(Tasks)
  BY <1>0, <1>1, Elements
<1>3. IsFiniteSet(Items)
  BY <1>2, FS_Union DEF Items
<1>4. EdgeList \in Seq(Edges)
      /\ Edges \subseteq [blocker : Tasks, blocked : Tasks]
  <2>1. \A S : EdgeList \in Seq(S) => EdgeList \in Seq(Edges) /\ Edges \subseteq S
    BY <1>0, Elements
  <2> QED
    BY <1>1, <2>1
<1>5. \A e \in Edges : e.blocker \in Items /\ e.blocked \in Items
  BY <1>4 DEF Items
<1>6. EpicList \in Seq(Items) /\ TicketList \in Seq(Items)
  BY <1>1 DEF Items
<1>7. /\ \A t \in Tasks : EpicOf[t] \in Items
      /\ CutShort \notin States /\ NoKey \notin Nat
  BY BacklogAssumption DEF Items, States
<1> QED
  BY <1>3, <1>4, <1>5, <1>6, <1>7

\* A call's outcome costs a mishap unless it went well.
LEMMA OutcomeCounts ==
  ASSUME BacklogTypeOK, NEW result, Outcome(result)
  PROVE  /\ mishaps' \in 0 .. MaxMishaps /\ mishaps <= mishaps'
         /\ result # "ok" => mishaps' = mishaps + 1
BY BacklogAssumption DEF Outcome, Mishap, BacklogTypeOK

\* What is left of a list when its head is done.
LEMMA Advances ==
  ASSUME NEW S, agenda \in Seq(S), agenda # <<>>, Advance
  PROVE  agenda' \in Seq(S) /\ pc' = "pick"
BY HeadTailProperties DEF Advance

\* A link that is posted is one between two issues.
LEMMA LinkPosted ==
  ASSUME BacklogTypeOK, NEW e \in Edges, Linkable(e),
         NEW result, Linked(e, result)
  PROVE  links' \subseteq Links /\ nextLink' \in Nat
<1>1. state[e.blocker] \in Nat /\ state[e.blocked] \in Nat
  BY Hierarchy DEF BacklogTypeOK, States, Linkable
<1>2. Link(e) \in Links
  BY <1>1 DEF Link, Links, BacklogTypeOK
<1> QED
  BY <1>2 DEF Linked, BacklogTypeOK

\* There are finitely many keys to record.
LEMMA RecordedAreCounted ==
  ASSUME NEW known
  PROVE  IsFiniteSet(Recorded(known)) /\ Cardinality(Recorded(known)) \in Nat
<1>1. Recorded(known) \subseteq Items
  BY DEF Recorded
<1> QED
  BY <1>1, Hierarchy, FS_Subset, FS_CardinalityType

\* What is true of the issues stays true while issues are added only.
LEMMA KeysKept ==
  ASSUME BacklogTypeOK, KeysInv, saved' = saved,
         issues' = issues \/ \E issue : issues' = Append(issues, issue)
  PROVE  KeysInv'
<1>1. /\ issues \in Seq([item : Items, parent : Nat \cup {NoKey}])
      /\ DOMAIN issues \subseteq DOMAIN issues' /\ \A k \in DOMAIN issues : issues'[k] = issues[k]
  <2>1. issues \in Seq([item : Items, parent : Nat \cup {NoKey}])
    BY DEF BacklogTypeOK
  <2> QED
    BY <2>1
<1>2. ASSUME TrueOf(saved)
      PROVE  TrueOf(saved)'
  <2>1. SUFFICES ASSUME NEW x \in Recorded(saved)
                 PROVE  /\ saved[x] \in DOMAIN issues' /\ issues'[saved[x]].item = x
                        /\ x \in Tasks => issues'[saved[x]].parent \in {NoKey, saved[EpicOf[x]]}
    BY DEF TrueOf, IssueKeys, Recorded
  <2>2. /\ saved[x] \in DOMAIN issues /\ issues[saved[x]].item = x
        /\ x \in Tasks => issues[saved[x]].parent \in {NoKey, saved[EpicOf[x]]}
    BY <1>2 DEF TrueOf, IssueKeys
  <2> QED
    BY <1>1, <2>2
<1> QED
  BY <1>2 DEF KeysInv

\* The count of the issues, when the file is left alone.
LEMMA CreatedCounts ==
  ASSUME CreatedInv, saved' = saved,
         Len(issues) \in Nat, Len(issues') \in Nat, mishaps \in Nat, mishaps' \in Nat,
         Len(issues') + Fresh + mishaps <= Len(issues) + Fresh' + mishaps'
  PROVE  CreatedInv'
<1>1. SUFFICES ASSUME saved # CutShort
               PROVE  Len(issues') <= Cardinality(Recorded(saved)) + Fresh' + mishaps'
  BY DEF CreatedInv, Recorded
<1>2. Len(issues) <= Cardinality(Recorded(saved)) + Fresh + mishaps
  BY <1>1 DEF CreatedInv
<1>3. Cardinality(Recorded(saved)) \in Nat /\ Fresh \in Nat /\ Fresh' \in Nat
  BY RecordedAreCounted DEF Fresh
<1> QED
  BY <1>2, <1>3

\* A step that makes no issue and leaves the file alone: if it gives up an issue that is
\* not saved yet, it costs a mishap.
LEMMA QuietStep ==
  ASSUME BacklogInv, issues' = issues, saved' = saved,
         mishaps' \in Nat, mishaps <= mishaps',
         pc' = "save" => UNCHANGED <<pc, agenda, state>>,
         pc = "save" /\ pc' # "save" => mishaps' = mishaps + 1
  PROVE  UnsavedInv' /\ KeysInv' /\ CreatedInv'
<1>1. UnsavedInv'
  BY DEF BacklogInv, UnsavedInv, MadeFor
<1>2. KeysInv'
  BY KeysKept DEF BacklogInv
<1>3. CreatedInv'
  <2>1. Len(issues) \in Nat /\ mishaps \in Nat
    BY DEF BacklogInv, BacklogTypeOK
  <2>2. Fresh \in {0, 1} /\ Fresh' \in {0, 1}
        /\ (Fresh' = Fresh \/ mishaps' = mishaps + 1)
    BY DEF Fresh
  <2>3. Len(issues') + Fresh + mishaps <= Len(issues) + Fresh' + mishaps'
    BY <2>1, <2>2
  <2> QED
    BY <2>1, <2>3, CreatedCounts DEF BacklogInv
<1> QED
  BY <1>1, <1>2, <1>3

\* A tool that ends.
LEMMA Exits ==
  ASSUME BacklogTypeOK, ToolExit, UNCHANGED <<issues, links, nextLink, runs>>,
         saved' \in States \cup {CutShort}, mishaps' \in 0 .. MaxMishaps
  PROVE  BacklogTypeOK' /\ PlaceInv'
<1>1. state' \in States /\ agenda' \in Seq(Items \cup Edges)
  BY DEF ToolExit, NothingKnown, States
<1>2. tries' \in 0 .. Attempts - 1
  BY BacklogAssumption DEF ToolExit
<1>3. BacklogTypeOK'
  BY <1>1, <1>2 DEF BacklogTypeOK, ToolExit
<1>4. PlaceInv'
  BY DEF PlaceInv, ToolExit
<1> QED
  BY <1>3, <1>4

\* The creator's steps that make no issue.
LEMMA CreatorQuiet ==
  ASSUME BacklogInv,
         \/ StartCreator \/ Skip \/ FinishCreator
         \/ \E result \in Results : CreateLink(result)
  PROVE  BacklogInv'
<1> USE DEF BacklogInv, jira, reconciling
<1>1. CASE StartCreator
  <2>1. saved \in States /\ agenda' \in Seq(Items \cup Edges)
    <3>1. /\ EpicList \in Seq(Items \cup Edges) /\ TicketList \in Seq(Items \cup Edges)
          /\ EdgeList \in Seq(Items \cup Edges)
      BY Hierarchy
    <3> QED
      BY <1>1, <3>1 DEF StartCreator, BacklogTypeOK
  <2>2. BacklogTypeOK'
    BY <1>1, <2>1, BacklogAssumption DEF StartCreator, BacklogTypeOK
  <2>3. PlaceInv' /\ pc' = "pick"
    BY <1>1 DEF StartCreator, PlaceInv
  <2> QED
    BY <1>1, <2>2, <2>3, QuietStep DEF StartCreator, BacklogTypeOK, PlaceInv
<1>2. CASE Skip
  <2>1. agenda' \in Seq(Items \cup Edges) /\ pc' = "pick" /\ pc = "pick"
    BY <1>2, Advances DEF Skip, Creating, BacklogTypeOK
  <2>2. BacklogTypeOK'
    BY <1>2, <2>1 DEF Skip, BacklogTypeOK
  <2>3. PlaceInv'
    BY <1>2, <2>1 DEF Skip, Creating, PlaceInv
  <2> QED
    BY <1>2, <2>1, <2>2, <2>3, QuietStep DEF Skip, BacklogTypeOK
<1>3. CASE FinishCreator
  <2>1. saved' = saved /\ saved \in States /\ pc # "save" /\ pc' = "pick"
    BY <1>3 DEF FinishCreator, ToolExit, PlaceInv, BacklogTypeOK
  <2>2. BacklogTypeOK' /\ PlaceInv'
    BY <1>3, <2>1, Exits DEF FinishCreator, BacklogTypeOK
  <2> QED
    BY <1>3, <2>1, <2>2, QuietStep DEF FinishCreator, BacklogTypeOK
<1>4. ASSUME NEW result \in Results, CreateLink(result)
      PROVE  BacklogInv'
  <2>1. agenda' \in Seq(Items \cup Edges) /\ pc' = "pick" /\ pc = "pick"
    BY <1>4, Advances DEF CreateLink, Creating, BacklogTypeOK
  <2>2. mishaps' \in 0 .. MaxMishaps /\ mishaps <= mishaps'
    BY <1>4, OutcomeCounts DEF CreateLink
  <2>3. links' \subseteq Links /\ nextLink' \in Nat
    BY <1>4, LinkPosted DEF CreateLink, Creating
  <2>4. BacklogTypeOK'
    BY <1>4, <2>1, <2>2, <2>3 DEF CreateLink, BacklogTypeOK
  <2>5. PlaceInv'
    BY <1>4, <2>1 DEF CreateLink, Creating, PlaceInv
  <2> QED
    BY <1>4, <2>1, <2>2, <2>4, <2>5, QuietStep DEF CreateLink, BacklogTypeOK
<1> QED
  BY <1>1, <1>2, <1>3, <1>4

\* The issue an edge's links are read of is one whose links the reconciler knows or can
\* read.
LEMMA BlockedIsKnown ==
  ASSUME BacklogInv, Looking
  PROVE  Blocked \in DOMAIN cache /\ agenda \in Seq(Edges) /\ agenda # <<>>
<1>1. Head(agenda).blocked \in Items /\ agenda \in Seq(Edges) /\ agenda # <<>>
      /\ state[Head(agenda).blocked] # NoKey /\ DOMAIN cache = IssueKeys /\ state = saved
  BY Hierarchy DEF Looking, Reconciling, Linkable, BacklogInv, PlaceInv
<1>2. TrueOf(saved)
  BY <1>1, Hierarchy DEF BacklogInv, KeysInv, BacklogTypeOK
<1> QED
  BY <1>1, <1>2 DEF TrueOf, Recorded, Blocked

\* What an issue's links are read as.
LEMMA LinksRead ==
  ASSUME BacklogInv, NEW key, NEW entry,
         cache' = [cache EXCEPT ![key] = entry], entry.links \subseteq Links
  PROVE  DOMAIN cache' = DOMAIN cache /\ \A k \in DOMAIN cache' : cache'[k].links \subseteq Links
BY DEF BacklogInv, BacklogTypeOK

\* The reconciler's steps that look at the next edge.
LEMMA ReconcilerLooks ==
  ASSUME BacklogInv,
         \/ StartReconciler \/ Omit \/ Pass \/ Plan \/ ReadFails
         \/ \E unreadable \in SUBSET Of(Blocked) : ReadLinks(unreadable)
         \/ FinishReconciler
  PROVE  BacklogInv'
<1> USE DEF BacklogInv, jira, reconciling
<1>1. CASE StartReconciler
  <2>1. saved \in States /\ EdgeList \in Seq(Edges)
        /\ EdgeList \in Seq(Items \cup Edges)
    BY <1>1, Hierarchy DEF StartReconciler, BacklogTypeOK
  <2>2. DOMAIN cache' = IssueKeys' /\ \A k \in DOMAIN cache' : cache'[k].links \subseteq Links
    BY <1>1 DEF StartReconciler, IssueKeys, Unread
  <2>3. BacklogTypeOK'
    BY <1>1, <2>1, <2>2 DEF StartReconciler, BacklogTypeOK
  <2>4. PlaceInv' /\ pc' = "pick"
    BY <1>1, <2>1, <2>2 DEF StartReconciler, PlaceInv
  <2> QED
    BY <1>1, <2>3, <2>4, QuietStep DEF StartReconciler, BacklogTypeOK, PlaceInv
<1>2. CASE Omit \/ Pass
  <2>1. /\ Advance /\ pc = "pick" /\ agenda # <<>> /\ agenda \in Seq(Edges)
        /\ UNCHANGED <<issues, links, nextLink, saved, tool, state, tries, cache, doomed, since, runs, mishaps>>
    BY <1>2 DEF Omit, Pass, Looking, Reconciling, PlaceInv
  <2>2. agenda' \in Seq(Edges) /\ agenda' \in Seq(Items \cup Edges) /\ pc' = "pick"
    BY <2>1, Advances DEF BacklogTypeOK
  <2>3. BacklogTypeOK'
    BY <2>1, <2>2 DEF BacklogTypeOK
  <2>4. PlaceInv'
    BY <2>1, <2>2 DEF PlaceInv, IssueKeys
  <2> QED
    BY <2>1, <2>2, <2>3, <2>4, QuietStep DEF BacklogTypeOK
<1>3. CASE Plan
  <2>1. /\ pc' \in {"delete", "create"} /\ pc = "pick"
        /\ UNCHANGED <<issues, links, nextLink, saved, tool, state, agenda, tries, cache, since, runs, mishaps>>
    BY <1>3 DEF Plan, Looking
  <2>2. doomed' \subseteq Nat
    <3>1. cache[Blocked].links \subseteq Links
      BY <1>3, BlockedIsKnown DEF Plan, BacklogTypeOK
    <3>2. \A l \in cache[Blocked].links : l.id \in Nat
      BY <3>1 DEF Links
    <3> QED
      BY <1>3, <3>2 DEF Plan, Between
  <2>3. BacklogTypeOK'
    BY <2>1, <2>2 DEF BacklogTypeOK
  <2>4. PlaceInv'
    BY <1>3, <2>1 DEF Plan, Looking, Reconciling, Linkable, PlaceInv, IssueKeys
  <2> QED
    BY <2>1, <2>3, <2>4, QuietStep DEF BacklogTypeOK
<1>4. ASSUME NEW unreadable \in SUBSET Of(Blocked),
             ReadLinks(unreadable) \/ ReadFails
      PROVE  BacklogInv'
  <2>1. /\ pc = "pick" /\ mishaps' \in 0 .. MaxMishaps /\ mishaps <= mishaps'
        /\ UNCHANGED <<issues, links, nextLink, saved, tool, state, agenda, pc, tries, doomed, since, runs>>
    BY <1>4, BacklogAssumption DEF ReadLinks, ReadFails, Looking, Mishap, BacklogTypeOK
  <2>2. DOMAIN cache' = DOMAIN cache /\ \A k \in DOMAIN cache' : cache'[k].links \subseteq Links
    <3> DEFINE Read(failed, known) == [known |-> TRUE, failed |-> failed, links |-> known]
    <3>1. /\ Read(FALSE, Of(Blocked) \ unreadable).links \subseteq Links
          /\ Read(TRUE, {}).links \subseteq Links
      BY DEF Of, BacklogTypeOK
    <3>2. \/ cache' = [cache EXCEPT ![Blocked] = Read(FALSE, Of(Blocked) \ unreadable)]
          \/ cache' = [cache EXCEPT ![Blocked] = Read(TRUE, {})]
      BY <1>4 DEF ReadLinks, ReadFails
    <3> HIDE DEF Read
    <3>3. CASE cache' = [cache EXCEPT ![Blocked] = Read(FALSE, Of(Blocked) \ unreadable)]
      BY <3>1, <3>3, LinksRead
    <3>4. CASE cache' = [cache EXCEPT ![Blocked] = Read(TRUE, {})]
      BY <3>1, <3>4, LinksRead
    <3> QED
      BY <3>2, <3>3, <3>4
  <2>3. BacklogTypeOK'
    BY <2>1, <2>2 DEF BacklogTypeOK
  <2>4. PlaceInv'
    BY <2>1, <2>2 DEF PlaceInv, IssueKeys
  <2> QED
    BY <2>1, <2>3, <2>4, QuietStep DEF BacklogTypeOK
<1>5. CASE FinishReconciler
  <2>1. saved' = saved /\ pc # "save" /\ pc' = "pick"
    BY <1>5 DEF FinishReconciler, ToolExit, PlaceInv
  <2>2. BacklogTypeOK' /\ PlaceInv'
    BY <1>5, <2>1, Exits DEF FinishReconciler, BacklogTypeOK
  <2> QED
    BY <1>5, <2>1, <2>2, QuietStep DEF FinishReconciler, BacklogTypeOK
<1>6. CASE ReadFails
  BY <1>4, <1>6
<1> QED
  BY <1>1, <1>2, <1>3, <1>4, <1>5, <1>6

\* The reconciler's writes.
LEMMA ReconcilerWrites ==
  ASSUME BacklogInv, NEW result \in Results,
         Create(result) \/ \E id \in doomed : Delete(id, result)
  PROVE  BacklogInv'
<1> USE DEF BacklogInv
<1>1. CASE Create(result)
  <2>1. /\ pc = "create" /\ Outcome(result) /\ Linked(Head(agenda), result)
        /\ UNCHANGED <<issues, saved, tool, state, cache, doomed, since, runs>>
    BY <1>1 DEF Create
  <2>2. /\ tool = "reconciler" /\ agenda # <<>> /\ agenda \in Seq(Edges)
        /\ Head(agenda) \in Edges /\ Linkable(Head(agenda))
    BY <2>1 DEF PlaceInv, Reconciling
  <2>3. mishaps' \in 0 .. MaxMishaps /\ mishaps <= mishaps'
    BY <2>1, OutcomeCounts
  <2>4. links' \subseteq Links /\ nextLink' \in Nat
    BY <2>1, <2>2, LinkPosted
  <2>5. /\ tries' \in 0 .. Attempts - 1 /\ agenda' \in Seq(Edges)
        /\ pc' = "pick" \/ UNCHANGED <<pc, agenda>>
    <3>1. CASE result = "ok" \/ tries + 1 = Attempts
      <4>1. tries' = 0 /\ Advance
        BY <1>1, <3>1 DEF Create
      <4> QED
        BY <2>2, <4>1, Advances, BacklogAssumption
    <3>2. CASE ~(result = "ok" \/ tries + 1 = Attempts)
      BY <1>1, <2>2, <3>2, BacklogAssumption DEF Create, BacklogTypeOK
    <3> QED
      BY <3>1, <3>2
  <2>6. agenda' \in Seq(Items \cup Edges)
    BY <2>5
  <2>7. BacklogTypeOK'
    BY <2>1, <2>3, <2>4, <2>5, <2>6 DEF BacklogTypeOK
  <2>8. PlaceInv'
    BY <2>1, <2>2, <2>5 DEF PlaceInv, Reconciling, Linkable, IssueKeys
  <2> QED
    BY <2>1, <2>3, <2>5, <2>7, <2>8, QuietStep DEF BacklogTypeOK
<1>2. ASSUME NEW id \in doomed, Delete(id, result)
      PROVE  BacklogInv'
  <2>1. /\ pc = "delete" /\ pc' \in {"delete", "create"} /\ links' \subseteq links
        /\ doomed' \subseteq doomed
        /\ UNCHANGED <<issues, nextLink, saved, tool, state, agenda, tries, cache, since, runs>>
    BY <1>2 DEF Delete
  <2>2. mishaps' \in 0 .. MaxMishaps /\ mishaps <= mishaps'
    <3>1. CASE Outcome(result)
      BY <3>1, OutcomeCounts
    <3>2. CASE UNCHANGED mishaps
      BY <3>2 DEF BacklogTypeOK
    <3> QED
      BY <1>2, <3>1, <3>2 DEF Delete
  <2>3. BacklogTypeOK'
    BY <2>1, <2>2 DEF BacklogTypeOK
  <2>4. PlaceInv'
    BY <2>1 DEF PlaceInv, Reconciling, Linkable, IssueKeys
  <2> QED
    BY <2>1, <2>2, <2>3, <2>4, QuietStep DEF BacklogTypeOK
<1> QED
  BY <1>1, <1>2

\* Kills and other people's edits.
LEMMA Mishaps ==
  ASSUME BacklogInv,
         Killed \/ KilledSaving \/ Edited
  PROVE  BacklogInv'
<1> USE DEF BacklogInv, jira, reconciling
<1>1. mishaps' = mishaps + 1 /\ mishaps' \in 0 .. MaxMishaps /\ mishaps \in Nat
  BY BacklogAssumption DEF Killed, KilledSaving, Edited, Mishap, BacklogTypeOK
<1>2. CASE Killed
  <2>1. BacklogTypeOK' /\ PlaceInv' /\ pc' = "pick"
    BY <1>1, <1>2, Exits DEF Killed, ToolExit, BacklogTypeOK
  <2> QED
    BY <1>1, <1>2, <2>1, QuietStep DEF Killed
<1>3. CASE KilledSaving
  <2>1. BacklogTypeOK' /\ PlaceInv' /\ pc' = "pick" /\ saved' = CutShort
    BY <1>1, <1>3, Exits DEF KilledSaving, ToolExit
  <2> QED
    BY <2>1 DEF UnsavedInv, KeysInv, CreatedInv
<1>4. CASE Edited
  <2>1. UNCHANGED <<issues, saved, tool, state, agenda, pc, tries, cache, doomed, since, runs>>
    BY <1>4 DEF Edited
  <2>2. links' \subseteq Links /\ nextLink' \in Nat
    <3>1. IssueKeys \subseteq Nat
      BY DEF IssueKeys, BacklogTypeOK
    <3> QED
      BY <1>4, <3>1 DEF Edited, Links, BacklogTypeOK
  <2>3. BacklogTypeOK'
    BY <1>1, <2>1, <2>2 DEF BacklogTypeOK
  <2>4. PlaceInv'
    BY <2>1 DEF PlaceInv, Reconciling, Linkable, IssueKeys
  <2> QED
    BY <1>1, <2>1, <2>3, <2>4, QuietStep
<1> QED
  BY <1>2, <1>3, <1>4

\* What a call that creates an issue does to Jira.
LEMMA IssuePosted ==
  ASSUME BacklogTypeOK, NEW x \in Items, NEW parent \in Nat \cup {NoKey}, NEW result,
         Posted(x, parent, result)
  PROVE  /\ issues' \in Seq([item : Items, parent : Nat \cup {NoKey}])
         /\ issues' = issues \/ \E issue : issues' = Append(issues, issue)
         /\ Len(issues') <= Len(issues) + 1
         /\ result = "ok" => /\ Len(issues') > 0
                             /\ issues'[Len(issues')] = [item |-> x, parent |-> parent]
<1> DEFINE issue == [item |-> x, parent |-> parent]
<1>1. issue \in [item : Items, parent : Nat \cup {NoKey}]
  OBVIOUS
<1>2. issues \in Seq([item : Items, parent : Nat \cup {NoKey}])
  BY DEF BacklogTypeOK
<1>3. /\ issues' = issues \/ issues' = Append(issues, issue)
      /\ result = "ok" => issues' = Append(issues, issue)
  BY DEF Posted, Done
<1> HIDE DEF issue
<1>4. CASE issues' = Append(issues, issue)
  <2>1. /\ issues' \in Seq([item : Items, parent : Nat \cup {NoKey}])
        /\ Len(issues') = Len(issues) + 1 /\ Len(issues) \in Nat /\ issues'[Len(issues')] = issue
    BY <1>1, <1>2, <1>4, AppendProperties
  <2> QED
    BY <1>4, <2>1 DEF issue
<1>5. CASE issues' = issues /\ result # "ok"
  <2>1. Len(issues) \in Nat
    BY <1>2
  <2> QED
    BY <1>2, <1>5, <2>1
<1> QED
  BY <1>3, <1>4, <1>5

\* A call that creates an issue, in either of the creator's first two steps.
LEMMA Creation ==
  ASSUME BacklogInv, Creating(Items), state[Head(agenda)] = NoKey,
         pc \in {"pick", "again"}, NEW result, Outcome(result),
         NEW parent \in Nat \cup {NoKey}, Posted(Head(agenda), parent, result),
         Head(agenda) \in Tasks => parent = state[EpicOf[Head(agenda)]],
         UNCHANGED <<links, nextLink, saved, tool, state, tries, cache, doomed, since, runs>>,
         \/ result = "ok" /\ pc' = "save" /\ UNCHANGED agenda
         \/ result # "ok" /\ ((pc' = "again" /\ UNCHANGED agenda) \/ Advance)
  PROVE  BacklogInv'
<1> USE DEF BacklogInv
<1>1. tool = "creator" /\ agenda # <<>> /\ Head(agenda) \in Items
  BY DEF Creating
<1>2. /\ mishaps' \in 0 .. MaxMishaps /\ mishaps <= mishaps' /\ mishaps \in Nat
      /\ result # "ok" => mishaps' = mishaps + 1
  BY OutcomeCounts DEF BacklogTypeOK
<1>3. /\ issues' \in Seq([item : Items, parent : Nat \cup {NoKey}])
      /\ issues' = issues \/ \E issue : issues' = Append(issues, issue)
      /\ Len(issues') <= Len(issues) + 1
      /\ result = "ok" => /\ Len(issues') > 0
                          /\ issues'[Len(issues')] = [item |-> Head(agenda), parent |-> parent]
  BY <1>1, IssuePosted
<1>4. agenda' \in Seq(Items \cup Edges) /\ pc' \in {"pick", "again", "save"}
  BY <1>1, Advances DEF BacklogTypeOK
<1>5. BacklogTypeOK'
  BY <1>2, <1>3, <1>4 DEF BacklogTypeOK
<1>6. PlaceInv'
  BY <1>1, Advances DEF PlaceInv, BacklogTypeOK
<1>7. pc' = "save" => result = "ok" /\ UNCHANGED agenda
  BY Advances DEF BacklogTypeOK, Advance
<1>8. UnsavedInv'
  <2>1. SUFFICES ASSUME pc' = "save"
                 PROVE  /\ Head(agenda) \in Items /\ state[Head(agenda)] = NoKey
                        /\ Len(issues') > 0 /\ issues'[Len(issues')].item = Head(agenda)
                        /\ Head(agenda) \in Tasks =>
                             issues'[Len(issues')].parent = state[EpicOf[Head(agenda)]]
    BY <1>7 DEF UnsavedInv, MadeFor
  <2>2. issues'[Len(issues')].item = Head(agenda) /\ issues'[Len(issues')].parent = parent
    BY <1>3, <1>7, <2>1
  <2> QED
    BY <1>1, <1>3, <1>7, <2>1, <2>2
<1>9. KeysInv'
  BY <1>3, KeysKept
<1>10. CreatedInv'
  <2>1. /\ Len(issues) \in Nat /\ Len(issues') \in Nat /\ mishaps \in Nat /\ mishaps' \in Nat
        /\ CreatedInv /\ Len(issues') <= Len(issues) + 1 /\ mishaps <= mishaps'
    BY <1>2, <1>3 DEF BacklogTypeOK
  <2>2. Fresh = 0 /\ (Fresh' = 1 \/ (Fresh' = 0 /\ mishaps' = mishaps + 1))
    BY <1>2, <1>7 DEF Fresh
  <2> HIDE DEF BacklogInv
  <2>3. Len(issues') + Fresh + mishaps <= Len(issues) + Fresh' + mishaps'
    BY <2>1, <2>2
  <2> QED
    BY <2>1, <2>3, CreatedCounts
<1> QED
  BY <1>5, <1>6, <1>8, <1>9, <1>10

\* The creator's creations.
LEMMA CreatorCreates ==
  ASSUME BacklogInv, NEW result \in Results,
         CreateEpic(result) \/ CreateTask(result)
  PROVE  BacklogInv'
<1> USE DEF BacklogInv, reconciling
<1>1. CASE CreateEpic(result)
  <2>1. /\ Creating(Items) /\ state[Head(agenda)] = NoKey /\ pc \in {"pick", "again"}
        /\ Outcome(result) /\ Posted(Head(agenda), NoKey, result)
        /\ UNCHANGED <<links, nextLink, saved, tool, state, tries, cache, doomed, since, runs>>
    BY <1>1 DEF CreateEpic, Creating, Items
  <2>2. Head(agenda) \notin Tasks
    BY <1>1, BacklogAssumption DEF CreateEpic, Creating
  <2>3. \/ result = "ok" /\ pc' = "save" /\ UNCHANGED agenda
        \/ result # "ok" /\ ((pc' = "again" /\ UNCHANGED agenda) \/ Advance)
    BY <1>1 DEF CreateEpic
  <2> QED
    BY <2>1, <2>2, <2>3, Creation
<1>2. CASE CreateTask(result)
  <2> DEFINE parent == state[EpicOf[Head(agenda)]]
  <2>1. /\ Creating(Items) /\ state[Head(agenda)] = NoKey /\ pc = "pick"
        /\ Outcome(result) /\ Posted(Head(agenda), parent, result)
        /\ UNCHANGED <<links, nextLink, saved, tool, state, tries, cache, doomed, since, runs>>
    BY <1>2 DEF CreateTask, Creating, Items
  <2>2. parent \in Nat \cup {NoKey}
    BY <1>2, Hierarchy DEF CreateTask, Creating, BacklogTypeOK, States
  <2>3. \/ result = "ok" /\ pc' = "save" /\ UNCHANGED agenda
        \/ result # "ok" /\ Advance
    BY <1>2 DEF CreateTask
  <2> HIDE DEF BacklogInv
  <2> QED
    BY <2>1, <2>2, <2>3, Creation
<1> QED
  BY <1>1, <1>2

\* The key of the new issue goes into the state file: what is known stays true, since no
\* task under an epic had its key before the epic did.
LEMMA CreatorSaves ==
  ASSUME BacklogInv, Save
  PROVE  BacklogInv'
<1> USE DEF BacklogInv, jira, reconciling
<1> DEFINE x == Head(agenda)
<1>1. /\ pc = "save" /\ Advance /\ tool = "creator" /\ agenda # <<>> /\ state = saved
      /\ state' = [state EXCEPT ![x] = Len(issues)] /\ saved' = state'
      /\ UNCHANGED <<issues, links, nextLink, tool, tries, cache, doomed, since, runs, mishaps>>
  BY DEF Save, PlaceInv
<1>2. /\ x \in Items /\ saved[x] = NoKey /\ Len(issues) \in DOMAIN issues
      /\ issues[Len(issues)].item = x
      /\ x \in Tasks => issues[Len(issues)].parent = saved[EpicOf[x]]
  BY <1>1 DEF UnsavedInv, MadeFor, BacklogTypeOK
<1>3. saved \in States /\ saved # CutShort /\ Len(issues) \in Nat /\ NoKey \notin Nat
  BY <1>1, Hierarchy DEF BacklogTypeOK
<1>4. saved' \in States /\ saved' # CutShort /\ state' = saved'
      /\ \A y \in Items : saved'[y] = IF y = x THEN Len(issues) ELSE saved[y]
  <2>1. saved' = [saved EXCEPT ![x] = Len(issues)] /\ state' = saved'
    BY <1>1
  <2>2. saved' \in States
    BY <1>3, <2>1 DEF States
  <2>3. \A y \in Items : saved'[y] = IF y = x THEN Len(issues) ELSE saved[y]
    BY <1>3, <2>1 DEF States
  <2> QED
    BY <2>1, <2>2, <2>3, Hierarchy
<1>5. agenda' \in Seq(Items \cup Edges) /\ pc' = "pick"
  BY <1>1, Advances DEF BacklogTypeOK
<1> HIDE DEF x
<1>6. BacklogTypeOK'
  BY <1>1, <1>4, <1>5 DEF BacklogTypeOK
<1>7. PlaceInv' /\ UnsavedInv'
  BY <1>1, <1>4, <1>5 DEF PlaceInv, UnsavedInv
<1>8. KeysInv'
  <2>1. SUFFICES ASSUME NEW y \in Items, saved'[y] # NoKey
                 PROVE  /\ saved'[y] \in DOMAIN issues /\ issues[saved'[y]].item = y
                        /\ y \in Tasks => issues[saved'[y]].parent \in {NoKey, saved'[EpicOf[y]]}
    BY <1>1 DEF KeysInv, TrueOf, IssueKeys, Recorded
  <2>2. y \in Tasks => EpicOf[y] \in EpicIds /\ EpicOf[y] \in Items /\ EpicOf[y] # y
    BY BacklogAssumption DEF Items
  <2>3. CASE y = x
    BY <1>2, <1>4, <2>2, <2>3
  <2>4. CASE y # x
    <3>1. /\ saved[y] \in DOMAIN issues /\ issues[saved[y]].item = y
          /\ y \in Tasks => issues[saved[y]].parent \in {NoKey, saved[EpicOf[y]]}
      BY <1>3, <1>4, <2>1, <2>4 DEF KeysInv, TrueOf, IssueKeys, Recorded
    <3> QED
      BY <1>2, <1>4, <2>2, <2>4, <3>1
  <2> QED
    BY <2>3, <2>4
<1>9. CreatedInv'
  <2>1. Recorded(saved') = Recorded(saved) \cup {x} /\ x \notin Recorded(saved)
    BY <1>2, <1>3, <1>4 DEF Recorded
  <2>2. Cardinality(Recorded(saved')) = Cardinality(Recorded(saved)) + 1
        /\ Cardinality(Recorded(saved)) \in Nat
    BY <2>1, RecordedAreCounted, FS_AddElement
  <2>3. Len(issues) <= Cardinality(Recorded(saved)) + Fresh + mishaps
    BY <1>3 DEF CreatedInv
  <2>4. Fresh = 1 /\ Fresh' = 0 /\ mishaps \in Nat
    BY <1>1, <1>5 DEF Fresh, BacklogTypeOK
  <2>5. Len(issues) <= Cardinality(Recorded(saved')) + Fresh' + mishaps
    BY <1>3, <2>2, <2>3, <2>4
  <2> QED
    BY <1>1, <2>5 DEF CreatedInv, Recorded
<1> QED
  BY <1>6, <1>7, <1>8, <1>9

\* No step breaks the invariant.
LEMMA BacklogStep ==
  ASSUME BacklogInv, [BacklogNext]_backlogVars
  PROVE  BacklogInv'
<1>1. CASE UNCHANGED backlogVars
  BY <1>1 DEF BacklogInv, BacklogTypeOK, PlaceInv, UnsavedInv, MadeFor, KeysInv, CreatedInv, TrueOf,
              Recorded, Fresh, IssueKeys, Reconciling, Linkable,
              backlogVars, jira, reconciling
<1>2. CASE Creator
  BY <1>2, CreatorQuiet, CreatorCreates, CreatorSaves DEF Creator
<1>3. CASE StartReconciler \/ Reconciler
  BY <1>3, ReconcilerLooks, ReconcilerWrites DEF Reconciler
<1>4. CASE Killed \/ KilledSaving \/ Edited
  BY <1>4, Mishaps
<1> QED
  BY <1>1, <1>2, <1>3, <1>4 DEF BacklogNext

\* At the start nothing is known and nothing made.
LEMMA InvAtStart ==
  ASSUME BacklogInit
  PROVE  BacklogInv
<1>1. saved \in States /\ state \in States /\ Recorded(saved) = {}
  BY DEF BacklogInit, NothingKnown, States, Recorded
<1>2. BacklogTypeOK
  BY <1>1, BacklogAssumption DEF BacklogInit, BacklogTypeOK
<1>3. PlaceInv /\ UnsavedInv
  BY DEF BacklogInit, PlaceInv, UnsavedInv
<1>4. KeysInv
  BY <1>1 DEF KeysInv, TrueOf
<1>5. CreatedInv
  <2>1. Cardinality(Recorded(saved)) = 0 /\ Fresh = 0 /\ Len(issues) = 0 /\ mishaps = 0
    BY <1>1, FS_EmptySet DEF BacklogInit, Fresh
  <2> QED
    BY <2>1 DEF CreatedInv
<1> QED
  BY <1>2, <1>3, <1>4, <1>5 DEF BacklogInv

\* Throughout, what is in the state file is true of Jira, and at most one issue more
\* than it holds and mishaps explain is being saved.
THEOREM BacklogInvariance == BacklogSpec => []BacklogInv
BY InvAtStart, BacklogStep, PTL DEF BacklogSpec

\* Issues, links, the file and the tools' memory keep their types, for any hierarchy.
THEOREM BacklogTypeCorrect == BacklogSpec => []BacklogTypeOK
<1>1. BacklogInv => BacklogTypeOK
  BY DEF BacklogInv
<1> QED
  BY <1>1, BacklogInvariance, PTL

\* However the tools are killed, run again and answered, the state file says of every
\* item it has a key for what is true of that issue in Jira, and every other issue there
\* is cost a mishap.
THEOREM StateFileStaysTrue == BacklogSpec => []StateFileIsTrue
<1>1. BacklogInv => StateFileIsTrue
  BY DEF BacklogInv, KeysInv, CreatedInv, PlaceInv, StateFileIsTrue
<1> QED
  BY <1>1, BacklogInvariance, PTL

-----------------------------------------------------------------------------
(* The reconciler's sweep, when nothing goes wrong                          *)

\* The dependencies it has not done with, those between known issues, and the links
\* between the two issues of one.
Left == {agenda[i] : i \in DOMAIN agenda}
Known(e) == saved[e.blocker] # NoKey /\ saved[e.blocked] # NoKey
Joins(l, e) == {l.inward, l.outward} = {saved[e.blocker], saved[e.blocked]}
Pair(S, e) == {l \in S : Joins(l, e)}

\* What was read of the blocked issue's links, if it was, is still so.
InHand(e) == pc \in {"delete", "create"} /\ e = Head(agenda)
Entry(e) == cache[saved[e.blocked]]
Current(e) == Entry(e).known => ~Entry(e).failed /\ Pair(Entry(e).links, e) = Pair(links, e)

IdsInv == (\A l \in links : l.id < nextLink) /\ \A l, m \in links : l.id = m.id => l = m
ListInv == tool = "reconciler" => \A i, j \in DOMAIN agenda : agenda[i] = agenda[j] => i = j

SweptInv == \A e \in Edges : Known(e) /\ e \notin Left => Matched(e)
CurrentInv == \A e \in Left : Known(e) /\ ~InHand(e) => Current(e)
InHandInv ==
  /\ pc = "delete" => \A l \in links : l.id \in doomed <=> Joins(l, Head(agenda))
  /\ pc = "create" => \A l \in links : ~Joins(l, Head(agenda))
SweepInv == Calm => SweptInv /\ CurrentInv /\ InHandInv

SweepingInv == BacklogInv /\ IdsInv /\ ListInv /\ SweepInv

\* A reconciler's step that costs no mishap.
LEMMA CalmStays ==
  ASSUME BacklogInv, [BacklogNext]_backlogVars, Calm', ~StartReconciler
  PROVE  /\ Calm
         /\ \/ Omit \/ Pass \/ Plan \/ Create("ok") \/ UNCHANGED backlogVars
            \/ Looking /\ ReadLinks({})
            \/ \E id \in doomed : \E result \in Results :
                 Delete(id, result) /\ links' = {l \in links : l.id # id}
<1>1. /\ tool' = "reconciler" /\ mishaps' = since'
      /\ since \in Nat /\ mishaps \in Nat /\ since <= mishaps
  BY DEF Calm, BacklogInv, BacklogTypeOK
<1>2. ~Mishap \/ ~UNCHANGED since
  BY <1>1 DEF Mishap
<1>3. ~Creator
  BY <1>1 DEF Creator, StartCreator, Skip, Save, FinishCreator, CreateEpic, CreateTask, CreateLink,
              Creating, ToolExit, BacklogInv, PlaceInv
<1>4. ~Killed /\ ~KilledSaving /\ ~FinishReconciler
  BY <1>1 DEF Killed, KilledSaving, FinishReconciler, ToolExit
<1>5. ~Edited /\ ~ReadFails
  BY <1>2 DEF Edited, ReadFails, reconciling
<1>6. \A result : Create(result) => result = "ok" /\ UNCHANGED <<tool, since, mishaps>>
  BY <1>2 DEF Create, Outcome
<1>7. \A unreadable : ReadLinks(unreadable) => unreadable = {} /\ UNCHANGED <<tool, since, mishaps>>
  BY <1>2 DEF ReadLinks
<1>8. ASSUME NEW id \in doomed, NEW result \in Results, Delete(id, result)
      PROVE  links' = {l \in links : l.id # id} /\ UNCHANGED <<tool, since, mishaps>>
  <2>1. UNCHANGED since
    BY <1>8 DEF Delete
  <2>2. CASE \E l \in links : l.id = id
    BY <1>2, <1>8, <2>1, <2>2 DEF Delete, Outcome, Done
  <2>3. CASE ~\E l \in links : l.id = id
    BY <1>8, <2>3 DEF Delete, Done
  <2> QED
    BY <2>2, <2>3
<1>9. Omit \/ Pass \/ Plan \/ UNCHANGED backlogVars => UNCHANGED <<tool, since, mishaps>>
  BY DEF Omit, Pass, Plan, backlogVars, reconciling
<1>10. BacklogNext \/ UNCHANGED backlogVars
  OBVIOUS
<1>11. Reconciler \/ UNCHANGED backlogVars
  BY <1>3, <1>4, <1>5, <1>10 DEF BacklogNext
<1>12. \/ Omit \/ Pass \/ Plan \/ Create("ok") \/ UNCHANGED backlogVars
       \/ Looking /\ ReadLinks({})
       \/ \E id \in doomed : \E result \in Results :
            Delete(id, result) /\ links' = {l \in links : l.id # id}
  BY <1>4, <1>5, <1>6, <1>7, <1>8, <1>11 DEF Reconciler
<1>13. UNCHANGED <<tool, since, mishaps>>
  BY <1>6, <1>7, <1>8, <1>9, <1>12
<1> QED
  BY <1>1, <1>12, <1>13 DEF Calm

\* Two dependencies between known issues are not between the same two: a key is that of
\* one item, and no dependency is listed both ways.
LEMMA PairsDiffer ==
  ASSUME BacklogInv, saved # CutShort, NEW e \in Edges, NEW f \in Edges,
         Known(e), Known(f),
         {saved[e.blocker], saved[e.blocked]} = {saved[f.blocker], saved[f.blocked]}
  PROVE  e = f
<1>1. \A x, y \in Items : saved[x] # NoKey /\ saved[x] = saved[y] => x = y
  BY DEF BacklogInv, KeysInv, TrueOf, Recorded
<1>2. /\ e.blocker \in Items /\ e.blocked \in Items
      /\ f.blocker \in Items /\ f.blocked \in Items
  BY Hierarchy
<1>3. e = Edge(e.blocker, e.blocked) /\ f = Edge(f.blocker, f.blocked)
  <2>1. Edges \subseteq [blocker : Tasks, blocked : Tasks]
    <3>1. \A x : x \in Edges <=> \E i \in DOMAIN EdgeList : x = EdgeList[i]
      BY DEF Edges
    <3>2. \A S : EdgeList \in Seq(S) => Edges \subseteq S
      BY <3>1, Elements
    <3> QED
      BY <3>2, BacklogAssumption
  <2> QED
    BY <2>1 DEF Edge
<1>4. CASE saved[e.blocker] = saved[f.blocker] /\ saved[e.blocked] = saved[f.blocked]
  <2>1. e.blocker = f.blocker /\ e.blocked = f.blocked
    BY <1>1, <1>2, <1>4 DEF Known
  <2> QED
    BY <1>3, <2>1
<1>5. CASE saved[e.blocker] = saved[f.blocked] /\ saved[e.blocked] = saved[f.blocker]
  <2>1. e.blocker = f.blocked /\ e.blocked = f.blocker
    BY <1>1, <1>2, <1>5 DEF Known
  <2>2. Edge(f.blocked, f.blocker) \in Edges
    BY <1>3, <2>1
  <2> QED
    BY <2>2, BacklogAssumption
<1> QED
  BY <1>4, <1>5

\* A step that only touches links between the issues of one dependency leaves the links
\* of the others as they are.
LEMMA OthersKept ==
  ASSUME BacklogInv, saved # CutShort, saved' = saved, NEW e \in Edges,
         links' = links \/ (Known(e) /\ \A l : (l \in links <=> l \in links') \/ Joins(l, e)),
         NEW f \in Edges, f # e, Known(f)
  PROVE  /\ Matched(f) => Matched(f)'
         /\ cache' = cache /\ Current(f) => Current(f)'
<1>1. \A l : Joins(l, f) => (l \in links <=> l \in links')
  BY PairsDiffer DEF Joins
<1>2. {l \in links' : Joins(l, f)} = {l \in links : Joins(l, f)}
  BY <1>1
<1>3. Matched(f) => Matched(f)'
  <2>1. SUFFICES ASSUME NEW l \in links, {m \in links : Joins(m, f)} = {l},
                        l.inward = saved[f.blocker], l.outward = saved[f.blocked]
                 PROVE  Matched(f)'
    BY DEF Matched, Joins
  <2>2. l \in links' /\ {m \in links' : Joins(m, f)} = {l}
    BY <1>2, <2>1
  <2> QED
    BY <2>1, <2>2 DEF Matched, Joins
<1>4. ASSUME cache' = cache, Current(f)
      PROVE  Current(f)'
  BY <1>2, <1>4 DEF Current, Entry, Pair, Joins
<1> QED
  BY <1>3, <1>4

\* The dependencies that are left when the first is done with.
LEMMA OneLess ==
  ASSUME agenda \in Seq(Edges), agenda # <<>>,
         \A i, j \in DOMAIN agenda : agenda[i] = agenda[j] => i = j
  PROVE  /\ Head(agenda) \in Left /\ Left \subseteq Edges
         /\ Advance => /\ \A e : e \in Left' <=> e \in Left /\ e # Head(agenda)
                       /\ \A i, j \in DOMAIN agenda' : agenda'[i] = agenda'[j] => i = j
<1>1. /\ Len(agenda) \in Nat \ {0} /\ DOMAIN agenda = 1 .. Len(agenda)
      /\ Head(agenda) = agenda[1] /\ \A i \in DOMAIN agenda : agenda[i] \in Edges
  OBVIOUS
<1>2. Head(agenda) \in Left /\ Left \subseteq Edges
  BY <1>1 DEF Left
<1>3. ASSUME Advance
      PROVE  /\ \A e : e \in Left' <=> e \in Left /\ e # Head(agenda)
             /\ \A i, j \in DOMAIN agenda' : agenda'[i] = agenda'[j] => i = j
  <2>1. /\ DOMAIN agenda' = 1 .. Len(agenda) - 1
        /\ \A i \in DOMAIN agenda' : agenda'[i] = agenda[i + 1]
    BY <1>1, <1>3, HeadTailProperties DEF Advance
  <2>2. \A i, j \in DOMAIN agenda' : agenda'[i] = agenda'[j] => i = j
    BY <1>1, <2>1
  <2>3. ASSUME NEW e \in Left'
        PROVE  e \in Left /\ e # Head(agenda)
    <3>1. PICK i \in DOMAIN agenda' : e = agenda'[i]
      BY <2>3 DEF Left
    <3>2. e = agenda[i + 1] /\ i + 1 \in DOMAIN agenda /\ i + 1 # 1 /\ 1 \in DOMAIN agenda
      BY <1>1, <2>1, <3>1
    <3> QED
      BY <1>1, <3>2 DEF Left
  <2>4. ASSUME NEW e \in Left, e # Head(agenda)
        PROVE  e \in Left'
    <3>1. PICK i \in DOMAIN agenda : e = agenda[i]
      BY DEF Left
    <3>2. i # 1 /\ i - 1 \in DOMAIN agenda' /\ agenda'[i - 1] = e
      <4>1. i # 1
        BY <1>1, <2>4, <3>1
      <4>2. i - 1 \in 1 .. Len(agenda) - 1 /\ (i - 1) + 1 = i
        BY <1>1, <4>1
      <4> QED
        BY <2>1, <3>1, <4>1, <4>2
    <3> QED
      BY <3>2 DEF Left
  <2> QED
    BY <2>2, <2>3, <2>4
<1> QED
  BY <1>2, <1>3

\* The reconciler is done with the head of its list, which is as it should be.
LEMMA DoneWith ==
  ASSUME BacklogInv, ListInv, SweptInv, CurrentInv, Reconciling(Edges), Advance,
         saved # CutShort, saved' = saved, cache' = cache, NEW e, e = Head(agenda),
         links' = links \/ (Known(e) /\ \A l : (l \in links <=> l \in links') \/ Joins(l, e)),
         Known(e) => Matched(e)'
  PROVE  SweptInv' /\ CurrentInv' /\ InHandInv'
<1>1. e \in Edges /\ e \in Left /\ Left \subseteq Edges /\ pc' = "pick"
      /\ \A f : f \in Left' <=> f \in Left /\ f # e
  <2>1. agenda \in Seq(Edges) /\ agenda # <<>> /\ e \in Edges
        /\ \A i, j \in DOMAIN agenda : agenda[i] = agenda[j] => i = j
    BY DEF BacklogInv, PlaceInv, ListInv, Reconciling
  <2> QED
    BY <2>1, OneLess DEF Advance
<1>2. \A f : Known(f)' <=> Known(f)
  BY DEF Known
<1>3. ASSUME NEW f \in Edges, f # e, Known(f)
      PROVE  (Matched(f) => Matched(f)') /\ (Current(f) => Current(f)')
  BY <1>1, <1>3, OthersKept
<1>4. SweptInv'
  <2>1. SUFFICES ASSUME NEW f \in Edges, Known(f), f \notin Left'
                 PROVE  Matched(f)'
    BY <1>2 DEF SweptInv
  <2>2. CASE f = e
    BY <2>1, <2>2
  <2>3. CASE f # e
    BY <1>1, <1>3, <2>1, <2>3 DEF SweptInv
  <2> QED
    BY <2>2, <2>3
<1>5. CurrentInv'
  <2>1. SUFFICES ASSUME NEW f \in Left', Known(f)
                 PROVE  Current(f)'
    BY <1>2 DEF CurrentInv
  <2>2. f \in Left /\ f # e /\ f \in Edges
    BY <1>1
  <2>3. Current(f)
    BY <2>1, <2>2 DEF CurrentInv, InHand
  <2> QED
    BY <1>3, <2>1, <2>2, <2>3
<1>6. InHandInv'
  BY <1>1 DEF InHandInv
<1> QED
  BY <1>4, <1>5, <1>6

\* No two links have the same id.
LEMMA IdsStep ==
  ASSUME BacklogInv, IdsInv, [BacklogNext]_backlogVars
  PROVE  IdsInv'
<1> DEFINE Fewer == links' \subseteq links /\ nextLink' = nextLink
           More(l) == links' = links \cup {l} /\ l.id = nextLink /\ nextLink' = nextLink + 1
<1>1. ASSUME NEW e, NEW result, Linked(e, result)
      PROVE  Fewer \/ More(Link(e))
  BY <1>1 DEF Linked, Link
<1>2. Creator \/ StartReconciler => Fewer \/ \E l : More(l)
  <2> HIDE DEF Fewer, More
  <2>1. UNCHANGED <<links, nextLink>> => Fewer
    BY DEF Fewer
  <2> QED
    BY <1>1, <2>1 DEF Creator, StartReconciler, StartCreator, Skip, Save, FinishCreator, CreateEpic,
              CreateTask, CreateLink, jira
<1>3. Reconciler => Fewer \/ \E l : More(l)
  <2>1. UNCHANGED <<links, nextLink>> => Fewer
    OBVIOUS
  <2>2. \A id, result : Delete(id, result) => Fewer
    BY DEF Delete
  <2> HIDE DEF Fewer, More
  <2> QED
    BY <1>1, <2>1, <2>2 DEF Reconciler, Omit, Pass, Plan, ReadFails, FinishReconciler, ReadLinks, Create, jira
<1>4. Killed \/ KilledSaving \/ UNCHANGED backlogVars => Fewer
  BY DEF Killed, KilledSaving, backlogVars, jira
<1>5. Edited => Fewer \/ \E l : More(l)
  <2>1. ASSUME Edited
        PROVE  \/ Fewer
               \/ \E a, b \in IssueKeys : More([id |-> nextLink, inward |-> a, outward |-> b])
    BY <2>1 DEF Edited
  <2> QED
    BY <2>1
<1>6. CASE Fewer
  BY <1>6 DEF IdsInv
<1>7. CASE \E l : More(l)
  <2>1. PICK l : More(l)
    BY <1>7
  <2>2. nextLink \in Nat /\ \A m \in links : m.id \in Nat /\ m.id < nextLink
    BY DEF BacklogInv, BacklogTypeOK, Links, IdsInv
  <2>3. \A m \in links' : m.id \in Nat /\ m.id < nextLink'
    BY <2>1, <2>2
  <2>4. \A m, k \in links' : m.id = k.id => m = k
    BY <2>1, <2>2 DEF IdsInv
  <2> QED
    BY <2>3, <2>4 DEF IdsInv
<1> QED
  BY <1>2, <1>3, <1>4, <1>5, <1>6, <1>7 DEF BacklogNext

\* The reconciler's list holds every dependency once.
LEMMA ListStep ==
  ASSUME BacklogInv, ListInv, [BacklogNext]_backlogVars
  PROVE  ListInv'
<1>1. SUFFICES ASSUME tool' = "reconciler"
               PROVE  \A i, j \in DOMAIN agenda' : agenda'[i] = agenda'[j] => i = j
  BY DEF ListInv
<1>2. CASE StartReconciler
  BY <1>2, BacklogAssumption DEF StartReconciler
<1>3. CASE ~StartReconciler
  <2>1. ~Creator /\ ~Killed /\ ~KilledSaving /\ ~FinishReconciler
    BY <1>1 DEF Creator, StartCreator, Skip, Save, FinishCreator, CreateEpic, CreateTask, CreateLink,
                Creating, Killed, KilledSaving, FinishReconciler, ToolExit, BacklogInv, PlaceInv
  <2>2. tool = "reconciler" /\ (agenda' = agenda \/ (Advance /\ agenda # <<>>))
    <3>1. CASE Reconciler
      BY <2>1, <3>1 DEF Reconciler, Omit, Pass, Plan, ReadFails, ReadLinks, Create, Delete,
                        Looking, Reconciling, BacklogInv, PlaceInv
    <3>2. CASE Edited \/ UNCHANGED backlogVars
      BY <1>1, <3>2 DEF Edited, backlogVars
    <3> QED
      BY <1>3, <2>1, <3>1, <3>2 DEF BacklogNext
  <2>3. agenda \in Seq(Edges) /\ \A i, j \in DOMAIN agenda : agenda[i] = agenda[j] => i = j
    BY <2>2 DEF BacklogInv, PlaceInv, ListInv
  <2> QED
    BY <2>2, <2>3, OneLess
<1> QED
  BY <1>2, <1>3

\* A dependency between known issues is Matched if its links are one, the right way
\* round; and what RightlyLinked says of the links that were read is then so.
LEMMA MatchedIsRightlyLinked ==
  ASSUME BacklogInv, Looking, Entry(Head(agenda)).known, Current(Head(agenda))
  PROVE  /\ RightlyLinked(Head(agenda)) <=> Matched(Head(agenda))
         /\ ~Entry(Head(agenda)).failed /\ Known(Head(agenda))
         /\ Between(cache[Blocked].links, state[Head(agenda).blocker], Blocked)
              = Pair(links, Head(agenda))
<1>1. state = saved
  BY DEF BacklogInv, PlaceInv, Looking, Reconciling
<1> DEFINE e == Head(agenda)
           read == cache[Blocked].links
<1>2. Blocked = saved[e.blocked] /\ cache[Blocked] = Entry(e) /\ Known(e)
  BY <1>1 DEF Blocked, Entry, Known, Looking, Linkable
<1>3. {l \in read : Joins(l, e)} = {l \in links : Joins(l, e)} /\ ~Entry(e).failed
  BY <1>2 DEF Current, Pair
<1>4. RightlyLinked(e) <=>
        \E l \in read : {m \in read : Joins(m, e)} = {l}
                       /\ l.inward = saved[e.blocker] /\ l.outward = saved[e.blocked]
  BY <1>1 DEF RightlyLinked, Between, Correct, Joins
<1>5. Matched(e) <=>
        \E l \in links : {m \in links : Joins(m, e)} = {l}
                       /\ l.inward = saved[e.blocker] /\ l.outward = saved[e.blocked]
  BY DEF Matched, Joins
<1>6. RightlyLinked(e) <=> Matched(e)
  <2>1. \A l : {m \in read : Joins(m, e)} = {l} => l \in read /\ l \in links
    BY <1>3
  <2>2. \A l : {m \in links : Joins(m, e)} = {l} => l \in read /\ l \in links
    BY <1>3
  <2> QED
    BY <1>3, <1>4, <1>5, <2>1, <2>2
<1>7. Between(read, state[e.blocker], Blocked) = Pair(links, e)
  BY <1>1, <1>2, <1>3 DEF Between, Pair, Joins
<1> QED
  BY <1>2, <1>3, <1>6, <1>7

\* The steps that look at the next dependency.
LEMMA SweepLooks ==
  ASSUME SweepingInv, Calm, saved # CutShort,
         Omit \/ Pass \/ Plan \/ (Looking /\ ReadLinks({}))
  PROVE  SweptInv' /\ CurrentInv' /\ InHandInv'
<1> DEFINE e == Head(agenda)
<1>0. /\ BacklogInv /\ ListInv /\ IdsInv /\ SweptInv /\ CurrentInv /\ InHandInv
      /\ Reconciling(Edges) /\ pc = "pick" /\ state = saved /\ saved' = saved
      /\ e \in Edges /\ e \in Left /\ Left \subseteq Edges /\ (Known(e) <=> Linkable(e))
  <2>1. Reconciling(Edges) /\ pc = "pick" /\ saved' = saved
    BY DEF Omit, Pass, Plan, ReadLinks, Looking
  <2>2. /\ agenda \in Seq(Edges) /\ agenda # <<>> /\ state = saved /\ e \in Edges
        /\ \A i, j \in DOMAIN agenda : agenda[i] = agenda[j] => i = j
    BY <2>1 DEF SweepingInv, BacklogInv, PlaceInv, ListInv, Reconciling
  <2>3. e \in Left /\ Left \subseteq Edges
    BY <2>2, OneLess
  <2> QED
    BY <2>1, <2>2, <2>3 DEF SweepingInv, SweepInv, Known, Linkable
<1>1. CASE Omit
  <2>1. ~Known(e) /\ Advance /\ links' = links /\ cache' = cache
    BY <1>0, <1>1 DEF Omit, jira, reconciling
  <2> QED
    BY <1>0, <2>1, DoneWith
<1>2. ASSUME Looking, Entry(e).known
      PROVE  Current(e)
  BY <1>0, <1>2 DEF CurrentInv, InHand, Looking
<1>3. CASE Pass
  <2>1. Looking /\ Entry(e).known /\ Advance /\ links' = links /\ cache' = cache
        /\ (Entry(e).failed \/ RightlyLinked(e))
    BY <1>0, <1>3 DEF Pass, Entry, Blocked, jira, reconciling
  <2>2. Matched(e) /\ Known(e)
    BY <1>0, <1>2, <2>1, MatchedIsRightlyLinked
  <2>3. ASSUME NEW f, f = e
        PROVE  Matched(f)'
    BY <1>0, <2>1, <2>2, <2>3 DEF Matched
  <2> QED
    BY <1>0, <2>1, <2>3, DoneWith
<1>4. CASE Plan
  <2>1. /\ Looking /\ Entry(e).known /\ UNCHANGED <<links, agenda, cache, saved>>
        /\ doomed' = {l.id : l \in Between(cache[Blocked].links, state[e.blocker], Blocked)}
        /\ pc' = IF doomed' = {} THEN "create" ELSE "delete"
    BY <1>0, <1>4 DEF Plan, Entry, Blocked, jira
  <2>2. doomed' = {l.id : l \in Pair(links, e)}
    BY <1>0, <1>2, <2>1, MatchedIsRightlyLinked
  <2>3. \A l \in links : l.id \in doomed' <=> Joins(l, e)
    BY <1>0, <2>2 DEF Pair, IdsInv
  <2>4. InHandInv'
    BY <1>0, <2>1, <2>3 DEF InHandInv, Joins
  <2>5. SweptInv'
    BY <1>0, <2>1 DEF SweptInv, Known, Left, Matched
  <2>6. ASSUME NEW f \in Left, Known(f)
        PROVE  Current(f)'
    <3>1. Current(f)
      BY <1>0, <2>6 DEF CurrentInv, InHand
    <3> QED
      BY <2>1, <3>1 DEF Current, Entry, Pair, Joins
  <2>7. CurrentInv'
    BY <2>1, <2>6 DEF CurrentInv, Left, Known
  <2> QED
    BY <2>4, <2>5, <2>7
<1>5. CASE Looking /\ ReadLinks({})
  <2>1. /\ UNCHANGED <<links, agenda, pc, saved>>
        /\ cache' = [cache EXCEPT ![Blocked] = [known |-> TRUE, failed |-> FALSE, links |-> Of(Blocked)]]
    BY <1>5 DEF ReadLinks, jira
  <2>2. InHandInv' /\ SweptInv'
    <3>1. InHandInv'
      BY <1>0, <2>1 DEF InHandInv
    <3>2. SweptInv'
      BY <1>0, <2>1 DEF SweptInv, Known, Left, Matched
    <3> QED
      BY <3>1, <3>2
  <2>3. Blocked \in DOMAIN cache
    BY <1>0, <1>5, BlockedIsKnown
  <2>4. /\ Blocked \in DOMAIN cache
        /\ cache'[Blocked].links = Of(Blocked) /\ ~cache'[Blocked].failed
    BY <2>1, <2>3
  <2>5. ASSUME NEW f \in Left, Known(f)
        PROVE  Current(f)'
    <3>1. CASE saved[f.blocked] = Blocked
      <4>1. \A l \in links : Joins(l, f) => l \in Of(Blocked)
        BY <3>1 DEF Joins, Of
      <4>2. {l \in Of(Blocked) : Joins(l, f)} = {l \in links : Joins(l, f)}
        BY <4>1 DEF Of
      <4>3. cache'[saved'[f.blocked]].links = Of(Blocked) /\ ~cache'[saved'[f.blocked]].failed
        BY <2>1, <2>4, <3>1
      <4>4. Pair(Entry(f).links, f)' = {l \in Of(Blocked) : Joins(l, f)}
        BY <2>1, <4>3 DEF Pair, Entry, Joins
      <4>5. Pair(links, f)' = {l \in links : Joins(l, f)}
        BY <2>1 DEF Pair, Joins
      <4> QED
        BY <4>2, <4>3, <4>4, <4>5 DEF Current, Entry
    <3>2. CASE saved[f.blocked] # Blocked
      <4>1. Current(f)
        BY <1>0, <2>5 DEF CurrentInv, InHand
      <4>2. cache'[saved[f.blocked]] = cache[saved[f.blocked]]
        BY <2>1, <3>2
      <4> QED
        BY <2>1, <4>1, <4>2 DEF Current, Entry, Pair, Joins
    <3> QED
      BY <3>1, <3>2
  <2>6. CurrentInv'
    BY <2>1, <2>5 DEF CurrentInv, Left, Known
  <2> QED
    BY <2>2, <2>6
<1> QED
  BY <1>1, <1>3, <1>4, <1>5

\* The steps that delete or create a link.
LEMMA SweepWrites ==
  ASSUME SweepingInv, Calm, saved # CutShort,
         \/ Create("ok")
         \/ \E id \in doomed : \E result \in Results :
              Delete(id, result) /\ links' = {l \in links : l.id # id}
  PROVE  SweptInv' /\ CurrentInv' /\ InHandInv'
<1>0. /\ BacklogInv /\ ListInv /\ IdsInv /\ SweptInv /\ CurrentInv /\ InHandInv
      /\ Reconciling(Edges) /\ state = saved /\ saved' = saved /\ cache' = cache
      /\ Head(agenda) \in Left /\ Left \subseteq Edges /\ Known(Head(agenda))
  <2>1. Reconciling(Edges) /\ Linkable(Head(agenda)) /\ saved' = saved /\ cache' = cache
    BY DEF Create, Delete, SweepingInv, BacklogInv, PlaceInv
  <2>2. /\ agenda \in Seq(Edges) /\ agenda # <<>> /\ state = saved
        /\ \A i, j \in DOMAIN agenda : agenda[i] = agenda[j] => i = j
    BY <2>1 DEF SweepingInv, BacklogInv, PlaceInv, ListInv, Reconciling
  <2>3. Head(agenda) \in Left /\ Left \subseteq Edges
    BY <2>2, OneLess
  <2> QED
    BY <2>1, <2>2, <2>3 DEF SweepingInv, SweepInv, Known, Linkable
<1> PICK e \in Edges : e = Head(agenda)
  BY <1>0
<1>1. CASE Create("ok")
  <2>1. /\ pc = "create" /\ Advance
        /\ links' = links \cup {Link(e)}
    BY <1>1 DEF Create, Linked, Done
  <2>2. /\ Link(e).inward = saved[e.blocker] /\ Link(e).outward = saved[e.blocked]
        /\ Joins(Link(e), e)
    BY <1>0 DEF Link, Joins
  <2>3. \A l \in links : ~Joins(l, e)
    BY <1>0, <2>1 DEF InHandInv
  <2>4. {l \in links' : Joins(l, e)} = {Link(e)} /\ Link(e) \in links'
    BY <2>1, <2>2, <2>3
  <2>5. Matched(e)'
    BY <1>0, <2>2, <2>4 DEF Matched, Joins
  <2>6. \A l : (l \in links <=> l \in links') \/ Joins(l, e)
    BY <2>1, <2>2
  <2> QED
    BY <1>0, <2>1, <2>5, <2>6, DoneWith
<1>2. ASSUME NEW id \in doomed, NEW result,
             Delete(id, result), links' = {l \in links : l.id # id}
      PROVE  SweptInv' /\ CurrentInv' /\ InHandInv'
  <2>1. /\ pc = "delete" /\ agenda' = agenda /\ doomed' = doomed \ {id}
        /\ pc' = IF doomed' = {} THEN "create" ELSE "delete"
    BY <1>2 DEF Delete
  <2>2. \A l \in links : l.id \in doomed <=> Joins(l, e)
    BY <1>0, <2>1 DEF InHandInv
  <2>3. \A l : (l \in links <=> l \in links') \/ Joins(l, e)
    BY <1>2, <2>2
  <2>4. \A f : Known(f)' <=> Known(f)
    BY <1>0 DEF Known
  <2>5. ASSUME NEW f \in Edges, f # e, Known(f)
        PROVE  (Matched(f) => Matched(f)') /\ (Current(f) => Current(f)')
    BY <1>0, <2>3, <2>5, OthersKept
  <2>6. SweptInv'
    <3>1. SUFFICES ASSUME NEW f \in Edges, Known(f), f \notin Left
                   PROVE  Matched(f)'
      BY <2>1, <2>4 DEF SweptInv, Left
    <3> QED
      BY <1>0, <2>5, <3>1 DEF SweptInv
  <2>7. CurrentInv'
    <3>1. ASSUME NEW f \in Left, Known(f), f # e
          PROVE  Current(f)'
      BY <1>0, <2>5, <3>1 DEF CurrentInv, InHand
    <3>2. pc' \in {"delete", "create"} /\ Left' = Left /\ Head(agenda)' = e
      BY <2>1 DEF Left
    <3> QED
      BY <2>4, <3>1, <3>2 DEF CurrentInv, InHand
  <2>8. InHandInv'
    <3>1. \A l \in links' : l.id \in doomed' <=> Joins(l, e)
      BY <1>2, <2>1, <2>2
    <3>2. \A l : Joins(l, Head(agenda))' <=> Joins(l, e)
      BY <1>0, <2>1 DEF Joins
    <3> QED
      BY <2>1, <3>1, <3>2 DEF InHandInv
  <2> QED
    BY <2>6, <2>7, <2>8
<1> QED
  BY <1>1, <1>2

\* The reconciler starts with its whole list and nothing read.
LEMMA SweepStarts ==
  ASSUME BacklogInv, StartReconciler
  PROVE  SweptInv' /\ CurrentInv' /\ InHandInv'
<1>1. /\ saved # CutShort /\ saved' = saved /\ agenda' = EdgeList /\ pc = "pick" /\ pc' = "pick"
      /\ cache' = [k \in IssueKeys |-> Unread]
  BY DEF StartReconciler, BacklogInv, PlaceInv
<1>2. Left' = Edges
  BY <1>1 DEF Left, Edges
<1>3. ASSUME NEW f \in Edges, Known(f)
      PROVE  Current(f)'
  <2>1. saved[f.blocked] \in IssueKeys
    BY <1>1, <1>3, Hierarchy DEF Known, BacklogInv, KeysInv, TrueOf, Recorded
  <2>2. ~cache'[saved[f.blocked]].known
    BY <1>1, <2>1 DEF Unread
  <2> QED
    BY <1>1, <2>2 DEF Current, Entry
<1>4. CurrentInv'
  BY <1>1, <1>2, <1>3 DEF CurrentInv, Known
<1> QED
  BY <1>1, <1>2, <1>4 DEF SweptInv, InHandInv

\* No step breaks the invariant of the sweep.
LEMMA SweepStep ==
  ASSUME SweepingInv, [BacklogNext]_backlogVars
  PROVE  SweepingInv'
<1>1. BacklogInv' /\ IdsInv' /\ ListInv'
  BY BacklogStep, IdsStep, ListStep DEF SweepingInv
<1>2. ASSUME Calm'
      PROVE  SweptInv' /\ CurrentInv' /\ InHandInv'
  <2>1. CASE StartReconciler
    BY <2>1, SweepStarts DEF SweepingInv
  <2>2. CASE ~StartReconciler
    <3>1. /\ Calm
          /\ \/ Omit \/ Pass \/ Plan \/ Create("ok") \/ UNCHANGED backlogVars
             \/ Looking /\ ReadLinks({})
             \/ \E id \in doomed : \E result \in Results :
                  Delete(id, result) /\ links' = {l \in links : l.id # id}
      BY <1>2, <2>2, CalmStays DEF SweepingInv
    <3>2. saved # CutShort
      <4>1. state = saved /\ state \in States
        BY <3>1 DEF SweepingInv, BacklogInv, BacklogTypeOK, PlaceInv, Calm
      <4> QED
        BY <4>1, Hierarchy
    <3>3. CASE UNCHANGED backlogVars
      <4>1. SweptInv /\ CurrentInv /\ InHandInv
        BY <3>1 DEF SweepingInv, SweepInv
      <4>2. UNCHANGED <<links, saved, agenda, pc, cache, doomed>>
        BY <3>3 DEF backlogVars, jira, reconciling
      <4>3. SweptInv'
        BY <4>1, <4>2 DEF SweptInv, Known, Left, Matched
      <4>4. CurrentInv'
        <5>1. \A f : Current(f) => Current(f)'
          BY <4>2 DEF Current, Entry, Pair, Joins
        <5>2. Left' = Left /\ \A f : (Known(f)' <=> Known(f)) /\ (InHand(f)' <=> InHand(f))
          BY <4>2 DEF Left, Known, InHand
        <5> QED
          BY <4>1, <5>1, <5>2 DEF CurrentInv
      <4>5. InHandInv'
        BY <4>1, <4>2 DEF InHandInv, Joins
      <4> QED
        BY <4>3, <4>4, <4>5
    <3> QED
      BY <3>1, <3>2, <3>3, SweepLooks, SweepWrites
  <2> QED
    BY <2>1, <2>2
<1> QED
  BY <1>1, <1>2 DEF SweepingInv, SweepInv

\* While a run of the reconciler meets nothing, the dependencies it is done with are as
\* they should be, and what it read of the others' links is still so.
THEOREM SweepInvariance == BacklogSpec => []SweepingInv
<1>1. BacklogInit => SweepingInv
  <2>1. BacklogInit => BacklogInv
    BY InvAtStart
  <2>2. BacklogInit => IdsInv /\ ListInv /\ SweepInv
    BY DEF BacklogInit, IdsInv, ListInv, SweepInv, Calm
  <2> QED
    BY <2>1, <2>2 DEF SweepingInv
<1> QED
  BY <1>1, SweepStep, PTL DEF BacklogSpec

\* A run of the reconciler that meets no failure and no interference ends with one link
\* for every dependency between known issues, the right way round.
THEOREM ReconcilesRightly == BacklogSpec => []ReconcilerIsRight
<1>1. ASSUME SweepingInv, Calm, agenda = <<>>
      PROVE  Reconciled
  <2>1. Left = {}
    BY <1>1 DEF Left
  <2> QED
    BY <1>1, <2>1 DEF SweepingInv, SweepInv, SweptInv, Known, Reconciled
<1>2. SweepingInv => ReconcilerIsRight
  BY <1>1 DEF ReconcilerIsRight
<1> QED
  BY <1>2, SweepInvariance, PTL

\* It plans to write only for a dependency whose links are wrong.
LEMMA PlansWhereWrong ==
  ASSUME SweepingInv, Calm, Plan
  PROVE  /\ ~Matched(Head(agenda))
         /\ Head(agenda) \in Edges /\ Known(Head(agenda))
<1>1. /\ Looking /\ pc = "pick" /\ state = saved
      /\ Entry(Head(agenda)).known /\ ~RightlyLinked(Head(agenda))
  BY DEF Plan, Looking, Entry, Blocked, Calm, SweepingInv, BacklogInv, PlaceInv
<1>2. /\ Head(agenda) \in Edges /\ Head(agenda) \in Left
      /\ Known(Head(agenda)) /\ ~InHand(Head(agenda))
  <2>1. agenda \in Seq(Edges) /\ agenda # <<>> /\ Head(agenda) \in Edges
        /\ \A i, j \in DOMAIN agenda : agenda[i] = agenda[j] => i = j
    BY <1>1 DEF SweepingInv, BacklogInv, PlaceInv, ListInv, Looking, Reconciling
  <2> QED
    BY <1>1, <2>1, OneLess DEF Looking, Linkable, Known, InHand
<1>3. Current(Head(agenda))
  BY <1>2 DEF SweepingInv, SweepInv, CurrentInv
<1> QED
  BY <1>1, <1>2, <1>3, MatchedIsRightlyLinked DEF SweepingInv

\* Such a run deletes and creates links only where Jira is wrong.
THEOREM RightLinksUntouched == BacklogSpec => RepairsOnlyWhatIsWrong
<1>1. ASSUME SweepingInv, [BacklogNext]_backlogVars, Calm, pc = "pick", pc' # "pick"
      PROVE  ~Matched(Head(agenda))
  <2>1. tool = "reconciler"
    BY <1>1 DEF Calm
  <2>2. Plan
    BY <1>1, <2>1 DEF BacklogNext, Creator, StartCreator, Skip, Save, FinishCreator, CreateEpic, CreateTask,
       CreateLink, Creating, ToolExit, Killed, KilledSaving, Edited, StartReconciler, Reconciler, Omit,
       Pass, ReadFails, ReadLinks, FinishReconciler, Create, Delete, Advance, backlogVars
  <2> QED
    BY <1>1, <2>2, PlansWhereWrong
<1>2. SweepingInv /\ [BacklogNext]_backlogVars
        => [Calm /\ pc = "pick" /\ pc' # "pick" => ~Matched(Head(agenda))]_backlogVars
  BY <1>1
<1> QED
  BY <1>2, SweepInvariance, PTL DEF BacklogSpec, RepairsOnlyWhatIsWrong

\* The reconciler is idempotent: once there is one right link for every dependency
\* between known issues, a run that meets nothing does not write at all, and leaves it
\* so ("re-running reports zero changes once Jira matches the doc",
\* reconcile_dep_links.py).
THEOREM NothingToRepair ==
  BacklogSpec =>
    [][Calm /\ Reconciled /\ pc = "pick" /\ Calm'
         => pc' = "pick" /\ UNCHANGED jira /\ Reconciled']_backlogVars
<1>1. ASSUME SweepingInv, [BacklogNext]_backlogVars, Calm, Reconciled, pc = "pick", Calm'
      PROVE  pc' = "pick" /\ UNCHANGED jira /\ Reconciled'
  <2>1. ~StartReconciler
    BY <1>1 DEF Calm, StartReconciler
  <2>2. Omit \/ Pass \/ Plan \/ UNCHANGED backlogVars \/ (Looking /\ ReadLinks({}))
    BY <1>1, <2>1, CalmStays DEF SweepingInv, Create, Delete
  <2>3. ~Plan
    BY <1>1, PlansWhereWrong DEF Reconciled, Known
  <2>4. pc' = "pick" /\ UNCHANGED <<jira, saved>>
    BY <1>1, <2>2, <2>3 DEF Omit, Pass, ReadLinks, Advance, backlogVars
  <2>5. Reconciled'
    BY <1>1, <2>4 DEF Reconciled, Matched, jira
  <2> QED
    BY <2>4, <2>5
<1>2. SweepingInv /\ [BacklogNext]_backlogVars
        => [Calm /\ Reconciled /\ pc = "pick" /\ Calm'
              => pc' = "pick" /\ UNCHANGED jira /\ Reconciled']_backlogVars
  BY <1>1
<1> QED
  BY <1>2, SweepInvariance, PTL DEF BacklogSpec
=============================================================================
