-------------------------- MODULE DecisionLog_proofs --------------------------
(***************************************************************************)
(* Proofs about DecisionLog for any hosts, tickets and stages, any number  *)
(* of calls and commands, and either behaviour of the database.  The       *)
(* invariant is about the history of a ticket's logs: each was written by  *)
(* somebody who had loaded an earlier one, found as many decisions when it *)
(* selected the row, and appended a decision no log had yet.  Everything   *)
(* between what it had loaded and what it wrote is overtaken, and nothing  *)
(* else is ever lost; where the first committer wins there is nothing      *)
(* between the two.                                                        *)
(***************************************************************************)
EXTENDS DecisionLog, SequenceTheorems, TLAPS

\* Hosts whose decision is still to be recorded, was refused, or is recorded.
Unrecorded == {"loading", "saving", "committing", "refused"}
Told == {"publishing", "returned"}

Prefix(s, ds) == Len(s) <= Len(ds) /\ \A i \in 1..Len(s) : ds[i] = s[i]
Holds(ds, d) == \E i \in DOMAIN ds : ds[i] = d
LastOf(ds) == ds[Len(ds)]

\* The definitions over saves[t], of a history ss.
LogIn(ss, i) == IF i = 0 THEN << >> ELSE ss[i].log
Over(ss, i) ==
  /\ ~FirstCommitterWins
  /\ \E k \in i+1..Len(ss) :
       /\ 0 < ss[k].base /\ ss[k].base < i
       /\ Len(LogIn(ss, ss[k].found)) = Len(LogIn(ss, ss[k].base))

\* Where the logs of a history come from.
Rooted(ss) ==
  \A k \in 1..Len(ss) :
    /\ ss[k].base \in 0..k-1 /\ ss[k].found \in 0..k-1
    /\ Len(LogIn(ss, ss[k].found)) = Len(LogIn(ss, ss[k].base))
    /\ k > 1 => ss[k].base > 0
    /\ Len(ss[k].log) > 0
    /\ FirstCommitterWins => Len(ss[k].log) = k

\* A log that was once written begins every later one, or was overtaken.
Kept(ss) ==
  \A i, j \in 1..Len(ss) : i <= j => Prefix(ss[i].log, ss[j].log) \/ Over(ss, i)

\* Each decision was committed once, and stands once in a log that has it.
Distinct(ss) ==
  /\ \A k \in 1..Len(ss) : \A i, j \in DOMAIN ss[k].log : ss[k].log[i] = ss[k].log[j] => i = j
  /\ \A j, k \in 1..Len(ss) : LastOf(ss[j].log) = LastOf(ss[k].log) => j = k

HistoryInv(ss) == Rooted(ss) /\ Kept(ss) /\ Distinct(ss)

\* Decisions that no log has had, and those some commit put at the end of one.
Fresh(ss, d) == \A k \in 1..Len(ss) : ~Holds(ss[k].log, d)
Committed(ss, d) == \E k \in 1..Len(ss) : LastOf(ss[k].log) = d

\* A view is of a log that was once the ticket's.
ViewOf(ss, count, state) ==
  count = 0 \/ \E k \in 1..Len(ss) :
                 /\ Len(ss[k].log) = count /\ count \in 1..Len(ss[k].log)
                 /\ ss[k].log[count].resulting = state

\* What a host knows of its call c, when its ticket's history is ss and n calls
\* were made: of its own decision, and of the rows it loaded and selected.
CallInv(c, ss, n) ==
  /\ c.pc \in Unrecorded \cup Told => c.decision \in Decisions /\ c.decision.call <= n
  /\ c.pc \in Unrecorded => Fresh(ss, c.decision)
  /\ c.pc \in Told => Committed(ss, c.decision)
  /\ c.pc \in {"saving", "committing"} =>
       c.seen \in 0..Len(ss) /\ c.loaded.decisions = LogIn(ss, c.seen)
  /\ c.pc = "committing" =>
       /\ c.found \in c.seen..Len(ss) /\ c.selected.decisions = LogIn(ss, c.found)
       /\ c.selected.version = c.loaded.version
  /\ c.pc = "refused" => Len(ss) > c.seen
  /\ ViewOf(ss, c.view.count, c.view.state)

HostInv(h) == CallInv(host[h], saves[host[h].ticket], calls)

\* The row holds the log committed last.
LogInv ==
  \A t \in Tickets :
    /\ HistoryInv(saves[t])
    /\ row[t].decisions = LogIn(saves[t], Len(saves[t]))
    /\ \A k \in 1..Len(saves[t]) :
         \A i \in DOMAIN saves[t][k].log : saves[t][k].log[i].call <= calls

\* No two hosts hold the same call's decision.
Apart ==
  \A g, h \in Hosts :
    g # h /\ host[g].pc \in Unrecorded \cup Told /\ host[h].pc \in Unrecorded \cup Told
      => host[g].decision.call # host[h].decision.call

\* Whatever the bus carries was committed.
ToldInv ==
  /\ \A u \in updated : Committed(saves[u[1]], u[2])
  /\ \A c \in commands : Committed(saves[c.cause[1]], c.cause[2])

ProjectInv ==
  \A t \in Tickets :
    project[t] # NotRead => ViewOf(saves[t], project[t].sequence + 1, project[t].state)

Inv ==
  /\ TypeOK
  /\ \A h \in Hosts : HostInv(h)
  /\ LogInv /\ Apart /\ ToldInv /\ ProjectInv

\* What a writer with base b and found f puts at the end of a history.
Entered(ss, b, f, d) == [log |-> Append(LogIn(ss, b), d), base |-> b, found |-> f]

-----------------------------------------------------------------------------
(* Histories                                                                *)

\* The parts of an aggregate.
LEMMA AggregateParts ==
  ASSUME NEW a \in Aggregates
  PROVE  /\ a.version \in Int /\ a.decisions \in Seq(Decisions)
         /\ a.version = Len(a.decisions) - 1 /\ Len(a.decisions) \in Nat
         /\ DOMAIN a.decisions = 1..Len(a.decisions)
         /\ a = [version |-> a.version, decisions |-> a.decisions]
BY DEF Aggregates

\* One decision more makes an aggregate again.
LEMMA AppendedAggregate ==
  ASSUME NEW a \in Aggregates, NEW d \in Decisions
  PROVE  [version |-> a.version + 1, decisions |-> Append(a.decisions, d)] \in Aggregates
<1>1. a.version \in Int /\ a.decisions \in Seq(Decisions) /\ a.version = Len(a.decisions) - 1
  BY AggregateParts
<1>2. /\ Append(a.decisions, d) \in Seq(Decisions)
      /\ Len(Append(a.decisions, d)) = Len(a.decisions) + 1
      /\ Len(a.decisions) \in Nat
  BY <1>1
<1> QED
  BY <1>1, <1>2 DEF Aggregates

\* What Append does to a log, index by index.
LEMMA AppendedLog ==
  ASSUME NEW ds \in Seq(Decisions), NEW d \in Decisions
  PROVE  /\ Append(ds, d) \in Seq(Decisions)
         /\ Len(Append(ds, d)) = Len(ds) + 1 /\ Len(ds) \in Nat
         /\ DOMAIN ds = 1..Len(ds) /\ DOMAIN Append(ds, d) = 1..Len(ds) + 1
         /\ \A i \in 1..Len(ds) : Append(ds, d)[i] = ds[i]
         /\ Append(ds, d)[Len(ds) + 1] = d
OBVIOUS

\* Nothing is stored at first.
LEMMA NotStoredFits == NotStored \in Aggregates /\ NotStored.decisions = << >> /\ NotStored.version = -1
BY DEF NotStored, Aggregates, NoVersion

\* The logs of a history are sequences of decisions.
LEMMA LogFits ==
  ASSUME NEW ss \in Seq(Saves), NEW i \in 0..Len(ss)
  PROVE  /\ LogIn(ss, i) \in Seq(Decisions) /\ Len(LogIn(ss, i)) \in Nat
         /\ DOMAIN LogIn(ss, i) = 1..Len(LogIn(ss, i))
         /\ i # 0 => ss[i] \in Saves /\ LogIn(ss, i) = ss[i].log
<1>1. CASE i = 0
  BY <1>1 DEF LogIn
<1>2. CASE i # 0
  <2>1. ss[i] \in Saves
    BY <1>2
  <2>2. ss[i].log \in Seq(Decisions)
    BY <2>1 DEF Saves
  <2> QED
    BY <1>2, <2>1, <2>2 DEF LogIn
<1> QED
  BY <1>1, <1>2

\* What a log holds.
LEMMA LogHolds ==
  ASSUME NEW ds \in Seq(Decisions), NEW i \in DOMAIN ds
  PROVE  ds[i] \in Decisions /\ ds[i].call \in Nat /\ ds[i].resulting \in Stages
<1>1. ds[i] \in Decisions
  OBVIOUS
<1> QED
  BY <1>1 DEF Decisions

\* One commit more leaves the earlier ones as they are.
LEMMA LongerHistory ==
  ASSUME NEW ss \in Seq(Saves), NEW s \in Saves
  PROVE  /\ Append(ss, s) \in Seq(Saves) /\ Len(ss) \in Nat
         /\ Len(Append(ss, s)) = Len(ss) + 1
         /\ \A i \in 1..Len(ss) : Append(ss, s)[i] = ss[i]
         /\ Append(ss, s)[Len(ss) + 1] = s
         /\ \A i \in 0..Len(ss) : LogIn(Append(ss, s), i) = LogIn(ss, i)
         /\ LogIn(Append(ss, s), Len(ss) + 1) = s.log
<1>1. /\ Append(ss, s) \in Seq(Saves) /\ Len(ss) \in Nat
      /\ Len(Append(ss, s)) = Len(ss) + 1
      /\ \A i \in 1..Len(ss) : Append(ss, s)[i] = ss[i]
      /\ Append(ss, s)[Len(ss) + 1] = s
  OBVIOUS
<1> QED
  BY <1>1 DEF LogIn

\* What was overtaken stays overtaken.
LEMMA StillOver ==
  ASSUME NEW ss \in Seq(Saves), Rooted(ss), NEW s \in Saves, NEW i \in 1..Len(ss), Over(ss, i)
  PROVE  Over(Append(ss, s), i)
<1> DEFINE more == Append(ss, s)
<1>1. /\ Len(ss) \in Nat /\ Len(more) = Len(ss) + 1
      /\ \A j \in 1..Len(ss) : more[j] = ss[j]
      /\ \A j \in 0..Len(ss) : LogIn(more, j) = LogIn(ss, j)
  BY LongerHistory
<1>2. PICK k \in i+1..Len(ss) : /\ 0 < ss[k].base /\ ss[k].base < i
                                /\ Len(LogIn(ss, ss[k].found)) = Len(LogIn(ss, ss[k].base))
  BY DEF Over
<1>3. k \in 1..Len(ss) /\ k \in i+1..Len(more) /\ more[k] = ss[k]
  BY <1>1
<1>4. ss[k].base \in 0..Len(ss) /\ ss[k].found \in 0..Len(ss)
  BY <1>1, <1>3 DEF Rooted
<1> HIDE DEF more
<1>5. Len(LogIn(more, more[k].found)) = Len(LogIn(more, more[k].base))
  BY <1>1, <1>2, <1>3, <1>4
<1>6. ~FirstCommitterWins
  BY DEF Over
<1>7. Over(more, i)
  BY <1>2, <1>3, <1>5, <1>6 DEF Over
<1> QED
  BY <1>7 DEF more

\* A commit of a fresh decision keeps a history in order, if the writer found
\* as many decisions as it had loaded, did not start from nothing where
\* something was stored, and, where the first committer wins, had loaded the
\* latest log.
LEMMA GrownHistory ==
  ASSUME NEW ss \in Seq(Saves), HistoryInv(ss), NEW d \in Decisions, Fresh(ss, d),
         NEW b \in 0..Len(ss), NEW f \in 0..Len(ss),
         Len(LogIn(ss, f)) = Len(LogIn(ss, b)), Len(ss) > 0 => b > 0,
         FirstCommitterWins => b = Len(ss)
  PROVE  /\ Entered(ss, b, f, d) \in Saves
         /\ HistoryInv(Append(ss, Entered(ss, b, f, d)))
         /\ LastOf(Entered(ss, b, f, d).log) = d
         /\ \A i \in DOMAIN Entered(ss, b, f, d).log :
              Entered(ss, b, f, d).log[i] = d
                \/ \E k \in 1..Len(ss) : Holds(ss[k].log, Entered(ss, b, f, d).log[i])
<1> DEFINE n == Len(ss)
           ds == LogIn(ss, b)
           s == Entered(ss, b, f, d)
           more == Append(ss, s)
<1>1. /\ ds \in Seq(Decisions) /\ Len(ds) \in Nat /\ DOMAIN ds = 1..Len(ds)
      /\ b # 0 => ds = ss[b].log
  BY LogFits
<1>2. /\ s.log = Append(ds, d) /\ s.base = b /\ s.found = f /\ n \in Nat
  BY DEF Entered
<1>3. /\ s.log \in Seq(Decisions) /\ Len(s.log) = Len(ds) + 1 /\ DOMAIN s.log = 1..Len(ds) + 1
      /\ \A i \in 1..Len(ds) : s.log[i] = ds[i]
      /\ s.log[Len(ds) + 1] = d
  BY <1>1, <1>2, AppendedLog
<1>4. s \in Saves
  BY <1>1, <1>3 DEF Entered, Saves
<1>5. /\ more \in Seq(Saves) /\ Len(more) = n + 1
      /\ \A i \in 1..n : more[i] = ss[i]
      /\ more[n + 1] = s
      /\ \A i \in 0..n : LogIn(more, i) = LogIn(ss, i)
  BY <1>4, LongerHistory
<1>6. \A i \in 1..n : i \in 0..n /\ ss[i].log \in Seq(Decisions) /\ Len(ss[i].log) \in Nat
                      /\ DOMAIN ss[i].log = 1..Len(ss[i].log) /\ LogIn(ss, i) = ss[i].log
  <2> SUFFICES ASSUME NEW i \in 1..n
               PROVE  i \in 0..n /\ ss[i].log \in Seq(Decisions) /\ Len(ss[i].log) \in Nat
                      /\ DOMAIN ss[i].log = 1..Len(ss[i].log) /\ LogIn(ss, i) = ss[i].log
    OBVIOUS
  <2>1. i \in 0..n /\ i # 0
    BY <1>2
  <2> QED
    BY <2>1, LogFits
<1>7. ASSUME NEW i \in 1..Len(ds) PROVE b > 0 /\ b \in 1..n /\ ds[i] = ss[b].log[i] /\ i \in DOMAIN ss[b].log
  <2>1. b # 0
    BY <1>7 DEF LogIn
  <2> QED
    BY <1>1, <1>2, <1>7, <2>1
<1>8. \A i \in 1..Len(ds) : ds[i] # d
  BY <1>7 DEF Fresh, Holds
<1>9. \A i \in DOMAIN s.log : s.log[i] = d \/ \E k \in 1..n : Holds(ss[k].log, s.log[i])
  <2> SUFFICES ASSUME NEW i \in DOMAIN s.log, s.log[i] # d
               PROVE  \E k \in 1..n : Holds(ss[k].log, s.log[i])
    OBVIOUS
  <2>1. i \in 1..Len(ds) /\ s.log[i] = ds[i]
    BY <1>1, <1>3
  <2>2. b \in 1..n /\ ss[b].log[i] = s.log[i] /\ i \in DOMAIN ss[b].log
    BY <1>7, <2>1
  <2> QED
    BY <2>2 DEF Holds
<1>10. LastOf(s.log) = d
  BY <1>3 DEF LastOf
<1>11. Rooted(ss) /\ Kept(ss) /\ Distinct(ss)
  BY DEF HistoryInv
<1> HIDE DEF n, ds, s, more
<1>12. Rooted(more)
  <2> SUFFICES ASSUME NEW k \in 1..n + 1
               PROVE  /\ more[k].base \in 0..k-1 /\ more[k].found \in 0..k-1
                      /\ Len(LogIn(more, more[k].found)) = Len(LogIn(more, more[k].base))
                      /\ k > 1 => more[k].base > 0
                      /\ Len(more[k].log) > 0
                      /\ FirstCommitterWins => Len(more[k].log) = k
    BY <1>5 DEF Rooted
  <2>1. CASE k \in 1..n
    <3>1. /\ ss[k].base \in 0..k-1 /\ ss[k].found \in 0..k-1
          /\ Len(LogIn(ss, ss[k].found)) = Len(LogIn(ss, ss[k].base))
          /\ k > 1 => ss[k].base > 0
          /\ Len(ss[k].log) > 0
          /\ FirstCommitterWins => Len(ss[k].log) = k
      BY <1>11, <2>1 DEF Rooted, n
    <3>2. ss[k].base \in 0..n /\ ss[k].found \in 0..n /\ more[k] = ss[k]
      BY <1>2, <1>5, <2>1, <3>1
    <3> QED
      BY <1>5, <3>1, <3>2
  <2>2. CASE k = n + 1
    <3>1. more[k] = s /\ more[k].base = b /\ more[k].found = f /\ (n > 0 => b > 0)
      BY <1>2, <1>5, <2>2 DEF n
    <3>2. b \in 0..n /\ f \in 0..n
      BY DEF n
    <3>3. Len(LogIn(more, f)) = Len(LogIn(more, b))
      BY <1>5, <3>2
    <3>4. FirstCommitterWins => Len(ds) = n
      <4>1. ASSUME FirstCommitterWins PROVE Len(ds) = n
        <5>1. b = n
          BY <4>1 DEF n
        <5>2. CASE n = 0
          BY <5>1, <5>2 DEF ds, LogIn
        <5>3. CASE n # 0
          <6>1. n \in 1..n /\ ds = ss[n].log
            BY <1>1, <1>2, <5>1, <5>3
          <6>2. Len(ss[n].log) = n
            BY <1>11, <4>1, <6>1 DEF Rooted, n
          <6> QED
            BY <6>1, <6>2
        <5> QED
          BY <5>2, <5>3
      <4> QED
        BY <4>1
    <3>5. more[k].base = b /\ more[k].found = f /\ more[k].log = s.log
      BY <1>2, <3>1
    <3>6. b \in 0..k-1 /\ f \in 0..k-1 /\ (k > 1 => b > 0)
      BY <1>2, <2>2, <3>1, <3>2
    <3>7. Len(s.log) > 0 /\ (Len(ds) = n => Len(s.log) = k)
      <4>1. Len(s.log) = Len(ds) + 1 /\ Len(ds) \in Nat
        BY <1>1, <1>3
      <4>2. n \in Nat
        BY <1>2
      <4> QED
        BY <2>2, <4>1, <4>2
    <3> QED
      BY <3>3, <3>4, <3>5, <3>6, <3>7
  <2> QED
    BY <1>2, <2>1, <2>2
<1>13. Kept(more)
  <2> SUFFICES ASSUME NEW i \in 1..n + 1, NEW j \in 1..n + 1, i <= j
               PROVE  Prefix(more[i].log, more[j].log) \/ Over(more, i)
    BY <1>5 DEF Kept
  <2>1. CASE i = n + 1
    <3>1. j = n + 1 /\ more[i].log = s.log /\ more[j].log = s.log
      BY <1>2, <1>5, <2>1
    <3> QED
      BY <1>1, <1>3, <3>1 DEF Prefix
  <2>2. CASE i \in 1..n /\ Over(ss, i)
    BY <1>4, <1>11, <2>2, StillOver DEF more, n
  <2>3. CASE i \in 1..n /\ j \in 1..n /\ ~Over(ss, i)
    BY <1>5, <1>11, <2>3 DEF Kept, n
  <2>4. CASE i \in 1..n /\ j = n + 1 /\ ~Over(ss, i) /\ i <= b
    <3>1. b \in 1..n /\ i \in 1..n
      BY <1>2, <2>4 DEF n
    <3>2. Prefix(ss[i].log, ss[b].log)
      BY <1>11, <2>4, <3>1 DEF Kept, n
    <3>3. ss[b].log = ds
      BY <1>1, <1>2, <3>1
    <3>4. more[i].log = ss[i].log /\ more[j].log = s.log
      BY <1>5, <2>4
    <3> QED
      BY <1>1, <1>3, <1>6, <2>4, <3>2, <3>3, <3>4 DEF Prefix
  <2>5. CASE i \in 1..n /\ j = n + 1 /\ ~(i <= b)
    <3>1. 0 < b /\ b < i /\ ~FirstCommitterWins /\ b \in 0..n /\ f \in 0..n
      BY <1>2, <2>5 DEF n
    <3>2. n + 1 \in i+1..Len(more) /\ more[n + 1].base = b /\ more[n + 1].found = f
      BY <1>2, <1>5, <2>5
    <3>3. Len(LogIn(more, f)) = Len(LogIn(more, b))
      BY <1>5, <3>1
    <3> QED
      BY <3>1, <3>2, <3>3 DEF Over
  <2> QED
    BY <1>2, <2>1, <2>2, <2>3, <2>4, <2>5
<1>14. Distinct(more)
  <2>1. ASSUME NEW k \in 1..n + 1, NEW i \in DOMAIN more[k].log, NEW j \in DOMAIN more[k].log,
               more[k].log[i] = more[k].log[j]
        PROVE  i = j
    <3>1. CASE k \in 1..n
      BY <1>5, <1>11, <2>1, <3>1 DEF Distinct, n
    <3>2. CASE k = n + 1
      <4>1. more[k].log = s.log /\ i \in 1..Len(ds) + 1 /\ j \in 1..Len(ds) + 1
        BY <1>3, <1>5, <2>1, <3>2
      <4>2. CASE i \in 1..Len(ds) /\ j \in 1..Len(ds)
        <5>1. ds[i] = ds[j] /\ b \in 1..n /\ ds[i] = ss[b].log[i] /\ ds[j] = ss[b].log[j]
              /\ i \in DOMAIN ss[b].log /\ j \in DOMAIN ss[b].log
          BY <1>3, <1>7, <2>1, <4>1, <4>2
        <5> QED
          BY <1>11, <5>1 DEF Distinct, n
      <4>3. CASE ~(i \in 1..Len(ds)) \/ ~(j \in 1..Len(ds))
        BY <1>1, <1>3, <1>8, <2>1, <4>1, <4>3
      <4> QED
        BY <4>2, <4>3
    <3> QED
      BY <1>2, <3>1, <3>2
  <2>2. \A k \in 1..n : LastOf(ss[k].log) # d
    <3> SUFFICES ASSUME NEW k \in 1..n PROVE LastOf(ss[k].log) # d
      OBVIOUS
    <3>1. Len(ss[k].log) \in DOMAIN ss[k].log
      BY <1>6, <1>11 DEF Rooted, n
    <3> QED
      BY <3>1 DEF Fresh, Holds, LastOf, n
  <2>3. ASSUME NEW j \in 1..n + 1, NEW k \in 1..n + 1, LastOf(more[j].log) = LastOf(more[k].log)
        PROVE  j = k
    <3>1. CASE j \in 1..n /\ k \in 1..n
      BY <1>5, <1>11, <2>3, <3>1 DEF Distinct, n
    <3>2. CASE j = n + 1 \/ k = n + 1
      <4>1. LastOf(more[n + 1].log) = d /\ \A i \in 1..n : LastOf(more[i].log) # d
        BY <1>5, <1>10, <2>2
      <4>2. \A i \in 1..n + 1 : i \in 1..n \/ i = n + 1
        BY <1>2
      <4>3. LastOf(more[j].log) = d /\ LastOf(more[k].log) = d
        BY <2>3, <3>2, <4>1
      <4> QED
        BY <2>3, <4>1, <4>2, <4>3
    <3> QED
      BY <1>2, <3>1, <3>2
  <2> QED
    BY <1>5, <2>1, <2>3 DEF Distinct
<1>15. HistoryInv(more)
  BY <1>12, <1>13, <1>14 DEF HistoryInv
<1> QED
  BY <1>4, <1>9, <1>10, <1>15 DEF more, s, n

-----------------------------------------------------------------------------
(* Calls                                                                    *)

Calls == [ pc : Steps, ticket : Tickets, view : [count : Nat, state : ViewStates],
           decision : Decisions \cup {NoDecision},
           loaded : Aggregates, seen : Nat, selected : Aggregates, found : Nat ]

Holding(c) == c.pc \in Unrecorded \cup Told

\* A host without a call is well formed and knows nothing.
LEMMA IdleFits ==
  ASSUME NEW t \in Tickets
  PROVE  /\ Idle(t) \in Calls
         /\ Idle(t).pc = "idle" /\ Idle(t).ticket = t
         /\ Idle(t).view.count = 0
<1>1. NoView \in [count : Nat, state : ViewStates] /\ NoView.count = 0
  BY DEF NoView, ContextView, ViewStates
<1> QED
  BY <1>1, NotStoredFits DEF Calls, Idle, Steps

\* A host that does not move knows what it knew, while others make calls.
LEMMA QuietCall ==
  ASSUME NEW c, NEW ss, NEW n \in Nat, NEW m \in Nat, n <= m, CallInv(c, ss, n)
  PROVE  CallInv(c, ss, m)
<1>1. \A d \in Decisions : d.call \in Nat
  BY DEF Decisions
<1> QED
  BY <1>1 DEF CallInv

\* What was committed, and what a view is of, remains so after another commit.
LEMMA StillCommitted ==
  ASSUME NEW ss \in Seq(Saves), NEW s \in Saves
  PROVE  /\ \A d : Committed(ss, d) => Committed(Append(ss, s), d)
         /\ \A count, state : ViewOf(ss, count, state) => ViewOf(Append(ss, s), count, state)
<1> DEFINE more == Append(ss, s)
<1>1. /\ Len(ss) \in Nat /\ Len(more) = Len(ss) + 1
      /\ \A j \in 1..Len(ss) : more[j] = ss[j]
  BY LongerHistory
<1> HIDE DEF more
<1>2. \A k \in 1..Len(ss) : k \in 1..Len(more) /\ more[k] = ss[k]
  BY <1>1
<1>3. \A d : Committed(ss, d) => Committed(more, d)
  BY <1>2 DEF Committed
<1>4. \A count, state : ViewOf(ss, count, state) => ViewOf(more, count, state)
  BY <1>2 DEF ViewOf
<1> QED
  BY <1>3, <1>4 DEF more

\* Other hosts know what they knew when a decision other than theirs is committed.
LEMMA GrownCall ==
  ASSUME NEW c \in Calls, NEW ss \in Seq(Saves), NEW s \in Saves, NEW d, NEW n, CallInv(c, ss, n),
         \A i \in DOMAIN s.log : s.log[i] = d \/ \E k \in 1..Len(ss) : Holds(ss[k].log, s.log[i]),
         c.pc \in Unrecorded => c.decision # d
  PROVE  CallInv(c, Append(ss, s), n)
<1> DEFINE more == Append(ss, s)
<1>1. /\ Len(ss) \in Nat /\ Len(more) = Len(ss) + 1
      /\ \A j \in 1..Len(ss) : more[j] = ss[j]
      /\ more[Len(ss) + 1] = s
      /\ \A j \in 0..Len(ss) : LogIn(more, j) = LogIn(ss, j)
  BY LongerHistory
<1>2. Committed(ss, c.decision) => Committed(more, c.decision)
  BY StillCommitted
<1>3. ViewOf(more, c.view.count, c.view.state)
  BY StillCommitted DEF CallInv
<1>4. c.seen \in Nat /\ c.found \in Nat
  BY DEF Calls
<1> HIDE DEF more
<1>5. ASSUME c.pc \in Unrecorded PROVE Fresh(more, c.decision)
  <2> SUFFICES ASSUME NEW k \in 1..Len(more), NEW i \in DOMAIN more[k].log, more[k].log[i] = c.decision
               PROVE  FALSE
    BY DEF Fresh, Holds
  <2>1. Fresh(ss, c.decision)
    BY <1>5 DEF CallInv
  <2>2. CASE k \in 1..Len(ss)
    BY <1>1, <2>1, <2>2 DEF Fresh, Holds
  <2>3. CASE k = Len(ss) + 1
    <3>1. i \in DOMAIN s.log /\ s.log[i] = c.decision
      BY <1>1, <2>3
    <3>2. c.decision # d
      BY <1>5
    <3>3. \E j \in 1..Len(ss) : Holds(ss[j].log, c.decision)
      BY <3>1, <3>2
    <3> QED
      BY <2>1, <3>3 DEF Fresh
  <2> QED
    BY <1>1, <2>2, <2>3
<1>6. ASSUME c.pc \in {"saving", "committing"}
      PROVE  c.seen \in 0..Len(more) /\ c.loaded.decisions = LogIn(more, c.seen)
  <2>1. c.seen \in 0..Len(ss) /\ c.loaded.decisions = LogIn(ss, c.seen)
    BY <1>6 DEF CallInv
  <2> QED
    BY <1>1, <2>1
<1>7. ASSUME c.pc = "committing"
      PROVE  /\ c.found \in c.seen..Len(more) /\ c.selected.decisions = LogIn(more, c.found)
             /\ c.selected.version = c.loaded.version
  <2>1. /\ c.found \in c.seen..Len(ss) /\ c.selected.decisions = LogIn(ss, c.found)
        /\ c.selected.version = c.loaded.version
    BY <1>7 DEF CallInv
  <2>2. c.found \in 0..Len(ss) /\ c.found \in c.seen..Len(more)
    BY <1>1, <1>4, <2>1
  <2> QED
    BY <1>1, <2>1, <2>2
<1>8. ASSUME c.pc = "refused" PROVE Len(more) > c.seen
  <2>1. Len(ss) > c.seen
    BY <1>8 DEF CallInv
  <2> QED
    BY <1>1, <1>4, <2>1
<1>9. /\ c.pc \in Unrecorded \cup Told => c.decision \in Decisions /\ c.decision.call <= n
      /\ c.pc \in Told => Committed(ss, c.decision)
  BY DEF CallInv
<1>10. CallInv(c, more, n)
  BY <1>2, <1>3, <1>5, <1>6, <1>7, <1>8, <1>9 DEF CallInv
<1> QED
  BY <1>10 DEF more

-----------------------------------------------------------------------------
(* Steps of a host                                                          *)

\* Nobody but h holds this call's decision.
OnlyHolder(h, c) ==
  \A g \in Hosts \ {h} : Holding(host[g]) /\ Holding(c) => host[g].decision.call # c.decision.call

\* Nothing that other services know of changes.
BusQuiet == UNCHANGED <<updated, commands, project>>

\* What TypeOK says of one host.
LEMMA HostTypes ==
  ASSUME TypeOK
  PROVE  host \in [Hosts -> Calls] /\ calls \in Nat /\ calls \in 0..MaxCalls
BY DecisionLogAssumption DEF TypeOK, Calls

\* What it says of one ticket.
LEMMA TicketTypes ==
  ASSUME TypeOK, NEW t \in Tickets
  PROVE  saves[t] \in Seq(Saves) /\ Len(saves[t]) \in Nat /\ row[t] \in Aggregates
BY DEF TypeOK

\* Host h goes over to call c, and nobody's log changes.
LEMMA QuietHosts ==
  ASSUME Inv, NEW h \in Hosts, NEW c \in Calls, host' = [host EXCEPT ![h] = c],
         row' = row, saves' = saves, calls' \in 0..MaxCalls, calls <= calls',
         CallInv(c, saves[c.ticket], calls'), OnlyHolder(h, c)
  PROVE  /\ host' \in [Hosts -> Calls]
         /\ \A g \in Hosts : HostInv(g)'
         /\ LogInv' /\ Apart'
<1>1. /\ host \in [Hosts -> Calls] /\ calls \in Nat
      /\ host'[h] = c /\ \A g \in Hosts \ {h} : host'[g] = host[g]
  BY HostTypes DEF Inv
<1>2. calls' \in Nat
  BY DecisionLogAssumption
<1>4. ASSUME NEW g \in Hosts PROVE HostInv(g)'
  <2>1. CASE g = h
    BY <1>1, <2>1 DEF HostInv
  <2>2. CASE g # h
    <3>1. host'[g] = host[g]
      BY <1>1, <1>4, <2>2
    <3>2. CallInv(host[g], saves[host[g].ticket], calls)
      BY <1>4 DEF Inv, HostInv
    <3>3. CallInv(host[g], saves[host[g].ticket], calls')
      BY <1>1, <1>2, <3>2, QuietCall
    <3> QED
      BY <3>1, <3>3 DEF HostInv
  <2> QED
    BY <2>1, <2>2
<1>5. LogInv'
  <2> SUFFICES ASSUME NEW t \in Tickets
               PROVE  /\ HistoryInv(saves[t])
                      /\ row[t].decisions = LogIn(saves[t], Len(saves[t]))
                      /\ \A k \in 1..Len(saves[t]) :
                           \A i \in DOMAIN saves[t][k].log : saves[t][k].log[i].call <= calls'
    BY DEF LogInv
  <2>1. saves[t] \in Seq(Saves) /\ Len(saves[t]) \in Nat /\ LogInv
    BY TicketTypes DEF Inv
  <2>2. ASSUME NEW k \in 1..Len(saves[t]), NEW i \in DOMAIN saves[t][k].log
        PROVE  saves[t][k].log[i].call <= calls'
    <3>1. k \in 0..Len(saves[t]) /\ k # 0
      BY <2>1, <2>2
    <3>2. saves[t][k].log[i].call \in Nat
      BY <2>1, <2>2, <3>1, LogFits, LogHolds
    <3>3. saves[t][k].log[i].call <= calls
      BY <2>1, <2>2 DEF LogInv
    <3> QED
      BY <1>1, <1>2, <3>2, <3>3
  <2> QED
    BY <2>1, <2>2 DEF LogInv
<1>6. Apart'
  BY <1>1 DEF Inv, Apart, OnlyHolder, Holding
<1> QED
  BY <1>1, <1>4, <1>5, <1>6

\* With the bus and the views left alone as well, the invariant is kept.
LEMMA QuietStep ==
  ASSUME Inv, NEW h \in Hosts, NEW c \in Calls, host' = [host EXCEPT ![h] = c],
         row' = row, saves' = saves, calls' \in 0..MaxCalls, calls <= calls',
         CallInv(c, saves[c.ticket], calls'), OnlyHolder(h, c), BusQuiet
  PROVE  Inv'
<1>1. /\ host' \in [Hosts -> Calls]
      /\ \A g \in Hosts : HostInv(g)'
      /\ LogInv' /\ Apart'
  BY QuietHosts
<1>2. TypeOK'
  BY <1>1 DEF Inv, TypeOK, Calls, BusQuiet
<1>3. ToldInv' /\ ProjectInv'
  BY DEF Inv, ToldInv, ProjectInv, BusQuiet
<1> QED
  BY <1>1, <1>2, <1>3 DEF Inv

\* A view of the row is well formed, and of the log committed last.
LEMMA ViewOfLog ==
  ASSUME Inv, NEW t \in Tickets
  PROVE  /\ ContextView(row[t].decisions) \in [count : Nat, state : ViewStates]
         /\ ViewOf(saves[t], ContextView(row[t].decisions).count, ContextView(row[t].decisions).state)
         /\ SummaryView(row[t].decisions) \in [sequence : Int, state : ViewStates]
         /\ ViewOf(saves[t], SummaryView(row[t].decisions).sequence + 1,
                   SummaryView(row[t].decisions).state)
<1> DEFINE ds == row[t].decisions
           n == Len(saves[t])
<1>1. /\ ds \in Seq(Decisions) /\ Len(ds) \in Nat /\ ds = LogIn(saves[t], n) /\ n \in Nat
  BY TicketTypes, AggregateParts DEF Inv, LogInv
<1> HIDE DEF ds, n
<1>2. CASE ds = << >>
  <2>1. /\ ContextView(ds) \in [count : Nat, state : ViewStates] /\ ContextView(ds).count = 0
        /\ SummaryView(ds) \in [sequence : Int, state : ViewStates] /\ SummaryView(ds).sequence + 1 = 0
    BY <1>2 DEF ContextView, SummaryView, ViewStates
  <2> QED
    BY <2>1 DEF ViewOf, ds
<1>3. CASE ds # << >>
  <2>1. Len(ds) \in 1..Len(ds)
    BY <1>1, <1>3
  <2>2. ds[Len(ds)] \in Decisions
    BY <1>1, <2>1
  <2>3. ds[Len(ds)].resulting \in Stages
    BY <2>2 DEF Decisions
  <2>4. n \in 1..n /\ ds = saves[t][n].log
    BY <1>1, <1>3 DEF LogIn
  <2>5. ViewOf(saves[t], Len(ds), ds[Len(ds)].resulting)
    BY <2>1, <2>4 DEF ViewOf, n
  <2>6. /\ ContextView(ds).count = Len(ds) /\ ContextView(ds).state = ds[Len(ds)].resulting
        /\ SummaryView(ds).sequence + 1 = Len(ds) /\ SummaryView(ds).state = ds[Len(ds)].resulting
        /\ ContextView(ds) \in [count : Nat, state : ViewStates]
        /\ SummaryView(ds) \in [sequence : Int, state : ViewStates]
    BY <1>1, <1>3, <2>3 DEF ContextView, SummaryView, ViewStates
  <2> QED
    BY <2>5, <2>6 DEF ds
<1> QED
  BY <1>2, <1>3

\* A host that is shown a ticket.
LEMMA RetrieveInv ==
  ASSUME Inv, NEW h \in Hosts, NEW t \in Tickets, Retrieve(h, t)
  PROVE  Inv'
<1> DEFINE c == [Idle(t) EXCEPT !.pc = "deciding", !.view = ContextView(row[t].decisions)]
<1>1. /\ ContextView(row[t].decisions) \in [count : Nat, state : ViewStates]
      /\ ViewOf(saves[t], ContextView(row[t].decisions).count, ContextView(row[t].decisions).state)
  BY ViewOfLog
<1>2. /\ c \in Calls /\ c.pc = "deciding" /\ c.ticket = t
      /\ c.view = ContextView(row[t].decisions)
  BY <1>1, NotStoredFits DEF Calls, Steps, Idle
<1>3. calls' = calls /\ calls \in 0..MaxCalls /\ calls <= calls'
  BY HostTypes DEF Inv, Retrieve
<1>4. host' = [host EXCEPT ![h] = c] /\ row' = row /\ saves' = saves /\ BusQuiet
  BY DEF Retrieve, BusQuiet
<1> HIDE DEF c
<1>5. CallInv(c, saves[c.ticket], calls')
  BY <1>1, <1>2 DEF CallInv, Unrecorded, Told
<1>6. OnlyHolder(h, c)
  BY <1>2 DEF OnlyHolder, Holding, Unrecorded, Told
<1> QED
  BY <1>2, <1>3, <1>4, <1>5, <1>6, QuietStep

\* A host whose call fails, wherever it is.
LEMMA FailsInv ==
  ASSUME Inv, NEW h \in Hosts, Fails(h), UNCHANGED <<row, saves, calls, updated, commands, project>>
  PROVE  Inv'
<1>1. host[h].ticket \in Tickets
  BY HostTypes DEF Inv, Calls
<1> DEFINE c == Idle(host[h].ticket)
<1>2. c \in Calls /\ c.pc = "idle" /\ c.view.count = 0
  BY <1>1, IdleFits
<1>3. calls' = calls /\ calls \in 0..MaxCalls /\ calls <= calls'
  BY HostTypes DEF Inv
<1>4. host' = [host EXCEPT ![h] = c] /\ row' = row /\ saves' = saves /\ BusQuiet
  BY DEF Fails, BusQuiet
<1> HIDE DEF c
<1>5. CallInv(c, saves[c.ticket], calls') /\ OnlyHolder(h, c)
  BY <1>2 DEF CallInv, ViewOf, OnlyHolder, Holding, Unrecorded, Told
<1> QED
  BY <1>2, <1>3, <1>4, <1>5, QuietStep

\* A new call: its number is higher than any in a log or at another host.
LEMMA TransitionInv ==
  ASSUME Inv, NEW h \in Hosts, NEW target \in Stages, Transition(h, target)
  PROVE  Inv'
<1> DEFINE current == IF host[h].view.count = 0 THEN Entry ELSE host[h].view.state
           d == [call |-> calls + 1, previous |-> current, resulting |-> target]
           c == [host[h] EXCEPT !.pc = "loading", !.decision = d]
           ss == saves[host[h].ticket]
<1>1. /\ host[h] \in Calls /\ host[h].ticket \in Tickets /\ host[h].view.count \in Nat
      /\ calls \in Nat /\ calls < MaxCalls /\ calls + 1 \in 0..MaxCalls /\ calls + 1 \in 1..MaxCalls
      /\ host[h].pc = "deciding"
  BY HostTypes, DecisionLogAssumption DEF Inv, Calls, Transition, At
<1>2. CallInv(host[h], ss, calls) /\ LogInv
  BY DEF Inv, HostInv
<1>3. ss \in Seq(Saves) /\ Len(ss) \in Nat
  BY <1>1, TicketTypes DEF Inv
<1>4. current \in Stages
  <2>1. CASE host[h].view.count = 0
    BY <2>1, DecisionLogAssumption
  <2>2. CASE host[h].view.count # 0
    <3>1. PICK k \in 1..Len(ss) : /\ host[h].view.count \in 1..Len(ss[k].log)
                                  /\ ss[k].log[host[h].view.count].resulting = host[h].view.state
      BY <1>2, <2>2 DEF CallInv, ViewOf
    <3>2. k \in 0..Len(ss) /\ k # 0
      BY <1>3
    <3>3. ss[k].log[host[h].view.count].resulting \in Stages
      BY <1>3, <3>1, <3>2, LogFits, LogHolds
    <3> QED
      BY <2>2, <3>1, <3>3
  <2> QED
    BY <2>1, <2>2
<1>5. d \in Decisions /\ d.call = calls + 1
  BY <1>1, <1>4 DEF Decisions
<1>6. host' = [host EXCEPT ![h] = c] /\ row' = row /\ saves' = saves /\ BusQuiet
      /\ calls' = calls + 1
  BY DEF Transition, BusQuiet
<1> HIDE DEF d
<1>7. /\ c \in Calls /\ c.pc = "loading" /\ c.ticket = host[h].ticket
      /\ c.decision = d /\ c.view = host[h].view
  BY <1>1, <1>5 DEF Calls, Steps
<1>8. \A k \in 1..Len(ss) : \A i \in DOMAIN ss[k].log : ss[k].log[i].call <= calls
  BY <1>1, <1>2 DEF LogInv
<1> HIDE DEF c
<1>9. Fresh(ss, d)
  <2> SUFFICES ASSUME NEW k \in 1..Len(ss), NEW i \in DOMAIN ss[k].log PROVE ss[k].log[i] # d
    BY DEF Fresh, Holds
  <2>1. k \in 0..Len(ss) /\ k # 0
    BY <1>3
  <2>2. ss[k].log[i].call \in Nat
    BY <1>3, <2>1, LogFits, LogHolds
  <2> QED
    BY <1>1, <1>5, <1>8, <2>2
<1>10. CallInv(c, ss, calls + 1)
  BY <1>1, <1>2, <1>5, <1>7, <1>9 DEF CallInv, Unrecorded, Told
<1>11. OnlyHolder(h, c)
  <2> SUFFICES ASSUME NEW g \in Hosts \ {h}, Holding(host[g])
               PROVE  host[g].decision.call # calls + 1
    BY <1>5, <1>7 DEF OnlyHolder
  <2>1. host[g].decision \in Decisions /\ host[g].decision.call <= calls
    BY DEF Inv, HostInv, CallInv, Holding
  <2> QED
    BY <1>1, <2>1 DEF Decisions
<1>12. calls' \in 0..MaxCalls /\ calls <= calls' /\ CallInv(c, saves[c.ticket], calls')
  BY <1>1, <1>6, <1>7, <1>10
<1> QED
  BY <1>6, <1>7, <1>11, <1>12, QuietStep

\* A call that goes on with the same decision is still its only holder.
LEMMA StillOnlyHolder ==
  ASSUME Inv, NEW h \in Hosts, NEW c, Holding(host[h]), c.decision = host[h].decision
  PROVE  OnlyHolder(h, c)
BY DEF Inv, Apart, OnlyHolder, Holding

\* The row as it is when it is loaded.
LEMMA LoadInv ==
  ASSUME Inv, NEW h \in Hosts, Load(h)
  PROVE  Inv'
<1> DEFINE t == host[h].ticket
           c == [host[h] EXCEPT !.pc = "saving", !.loaded = row[t], !.seen = Len(saves[t])]
<1>1. /\ host[h] \in Calls /\ t \in Tickets /\ host[h].pc = "loading"
      /\ calls' = calls /\ calls \in 0..MaxCalls /\ calls <= calls'
  BY HostTypes DEF Inv, Calls, Load, At
<1>2. /\ row[t] \in Aggregates /\ Len(saves[t]) \in Nat
      /\ row[t].decisions = LogIn(saves[t], Len(saves[t]))
  BY <1>1, TicketTypes DEF Inv, LogInv
<1>3. /\ c \in Calls /\ c.pc = "saving" /\ c.ticket = t /\ c.decision = host[h].decision
      /\ c.loaded = row[t] /\ c.seen = Len(saves[t]) /\ c.view = host[h].view
  BY <1>1, <1>2 DEF Calls, Steps
<1>4. CallInv(host[h], saves[t], calls)
  BY DEF Inv, HostInv
<1>5. host' = [host EXCEPT ![h] = c] /\ row' = row /\ saves' = saves /\ BusQuiet
  BY DEF Load, BusQuiet
<1> HIDE DEF c
<1>6. c.seen \in 0..Len(saves[t]) /\ c.loaded.decisions = LogIn(saves[t], c.seen)
  BY <1>2, <1>3
<1>7. CallInv(c, saves[t], calls)
  BY <1>1, <1>3, <1>4, <1>6 DEF CallInv, Unrecorded, Told
<1>8. OnlyHolder(h, c)
  BY <1>1, <1>3, StillOnlyHolder DEF Holding, Unrecorded
<1> QED
  BY <1>1, <1>3, <1>5, <1>7, <1>8, QuietStep

\* The guard: the versions agree, or somebody has committed meanwhile.
LEMMA SelectInv ==
  ASSUME Inv, NEW h \in Hosts, Select(h)
  PROVE  Inv'
<1> DEFINE t == host[h].ticket
           n == Len(saves[t])
           same == host[h].loaded.version = row[t].version
           c == [host[h] EXCEPT !.selected = row[t], !.found = n,
                                !.pc = IF same THEN "committing" ELSE "refused"]
<1>1. /\ host[h] \in Calls /\ t \in Tickets /\ host[h].pc = "saving"
      /\ host[h].loaded \in Aggregates /\ host[h].seen \in Nat
      /\ calls' = calls /\ calls \in 0..MaxCalls /\ calls <= calls'
  BY HostTypes DEF Inv, Calls, Select, At
<1>2. row[t] \in Aggregates /\ n \in Nat /\ row[t].decisions = LogIn(saves[t], n)
  BY <1>1, TicketTypes DEF Inv, LogInv
<1>3. CallInv(host[h], saves[t], calls)
  BY DEF Inv, HostInv
<1>4. host' = [host EXCEPT ![h] = c] /\ row' = row /\ saves' = saves /\ BusQuiet
  BY DEF Select, BusQuiet
<1>5. /\ c \in Calls /\ c.pc = (IF same THEN "committing" ELSE "refused")
      /\ c.ticket = t /\ c.decision = host[h].decision /\ c.view = host[h].view
      /\ c.loaded = host[h].loaded /\ c.seen = host[h].seen
      /\ c.selected = row[t] /\ c.found = n
  BY <1>1, <1>2 DEF Calls, Steps
<1>6. host[h].seen \in 0..n /\ host[h].loaded.decisions = LogIn(saves[t], host[h].seen)
  BY <1>1, <1>3 DEF CallInv
<1>7. ~same => n > host[h].seen
  <2>1. ASSUME n = host[h].seen PROVE same
    <3>1. host[h].loaded.decisions = row[t].decisions
      BY <1>2, <1>6, <2>1
    <3> QED
      BY <1>1, <1>2, <3>1, AggregateParts
  <2> QED
    BY <1>1, <1>2, <1>6, <2>1
<1> HIDE DEF c
<1>8. CallInv(c, saves[t], calls)
  <2>1. CASE same
    <3>1. c.pc = "committing" /\ c.found \in c.seen..n /\ c.selected.decisions = LogIn(saves[t], c.found)
          /\ c.selected.version = c.loaded.version
          /\ c.seen \in 0..n /\ c.loaded.decisions = LogIn(saves[t], c.seen)
      BY <1>1, <1>2, <1>5, <1>6, <2>1
    <3> HIDE DEF same
    <3> QED
      BY <1>1, <1>3, <1>5, <3>1 DEF CallInv, Unrecorded, Told
  <2>2. CASE ~same
    <3>1. c.pc = "refused" /\ n > c.seen
      BY <1>5, <1>7, <2>2
    <3> HIDE DEF same
    <3> QED
      BY <1>1, <1>3, <1>5, <3>1 DEF CallInv, Unrecorded, Told
  <2> QED
    BY <2>1, <2>2
<1>9. OnlyHolder(h, c)
  BY <1>1, <1>5, StillOnlyHolder DEF Holding, Unrecorded
<1> QED
  BY <1>1, <1>4, <1>5, <1>8, <1>9, QuietStep

\* What a writer enters in its ticket's history.
EntryOf(h) == Entered(saves[host[h].ticket], host[h].seen, host[h].found, host[h].decision)

\* A host about to commit enters a fresh decision, and it meets a conflict only
\* if somebody has committed since it loaded the row.
LEMMA CommitFits ==
  ASSUME Inv, NEW h \in Hosts, host[h].pc = "committing",
         NEW t \in Tickets, t = host[h].ticket, NEW ss, ss = saves[t],
         NEW b, b = host[h].seen, NEW f, f = host[h].found, NEW d, d = host[h].decision
  PROVE  /\ ss \in Seq(Saves) /\ HistoryInv(ss) /\ d \in Decisions /\ Fresh(ss, d)
         /\ d.call <= calls /\ b \in 0..Len(ss) /\ f \in 0..Len(ss)
         /\ Len(LogIn(ss, f)) = Len(LogIn(ss, b))
         /\ host[h].loaded.decisions = LogIn(ss, b)
         /\ host[h].selected.version = Len(LogIn(ss, b)) - 1
         /\ Conflict(h) => Len(ss) > b
         /\ ~Conflict(h) => (Len(ss) > 0 => b > 0) /\ (FirstCommitterWins => b = Len(ss))
<1> DEFINE n == Len(ss)
<1>1. /\ host[h] \in Calls /\ host[h].loaded \in Aggregates /\ host[h].selected \in Aggregates
      /\ b \in Nat /\ f \in Nat
  BY HostTypes DEF Inv, Calls
<1>2. CallInv(host[h], ss, calls)
  BY DEF Inv, HostInv
<1>3. /\ ss \in Seq(Saves) /\ n \in Nat /\ row[t] \in Aggregates
      /\ row[t].decisions = LogIn(ss, n) /\ HistoryInv(ss)
  BY TicketTypes DEF Inv, LogInv
<1>4. /\ d \in Decisions /\ Fresh(ss, d) /\ d.call <= calls
      /\ b \in 0..n /\ host[h].loaded.decisions = LogIn(ss, b)
      /\ f \in b..n /\ host[h].selected.decisions = LogIn(ss, f)
      /\ host[h].selected.version = host[h].loaded.version
  BY <1>2 DEF CallInv, Unrecorded
<1>5. f \in 0..n /\ b \in 0..n
  BY <1>1, <1>3, <1>4
<1>6. /\ host[h].selected.version = Len(LogIn(ss, f)) - 1 /\ Len(LogIn(ss, f)) \in Nat
      /\ host[h].loaded.version = Len(LogIn(ss, b)) - 1 /\ Len(LogIn(ss, b)) \in Nat
  BY <1>1, <1>4, AggregateParts
<1>7. Len(LogIn(ss, f)) = Len(LogIn(ss, b)) /\ host[h].selected.version = Len(LogIn(ss, b)) - 1
  <2>1. PICK x \in Nat : x = Len(LogIn(ss, f))
    BY <1>6
  <2>2. PICK y \in Nat : y = Len(LogIn(ss, b))
    BY <1>6
  <2>3. host[h].selected.version = x - 1 /\ host[h].selected.version = y - 1
    BY <1>4, <1>6, <2>1, <2>2
  <2>4. x = y
    BY <2>3
  <2> QED
    BY <2>1, <2>2, <2>3, <2>4
<1> HIDE DEF n
<1>8. ASSUME Conflict(h) PROVE n > b
  <2>1. ASSUME n = b PROVE FALSE
    <3>1. f = n
      BY <1>1, <1>3, <1>4, <2>1
    <3>2. host[h].selected.decisions = row[t].decisions
      BY <1>3, <1>4, <3>1
    <3>3. host[h].selected = row[t]
      BY <1>1, <1>3, <3>2, AggregateParts
    <3> QED
      BY <1>8, <3>3 DEF Conflict
  <2> QED
    BY <1>3, <1>4, <2>1
<1>9. ASSUME \A k \in 1..n : Len(ss[k].log) > 0, n > 0, b = 0, host[h].selected = row[t] PROVE FALSE
  <2>1. Len(LogIn(ss, b)) = 0 /\ Len(LogIn(ss, n)) > 0
    BY <1>3, <1>9 DEF LogIn
  <2> QED
    BY <1>3, <1>4, <1>7, <1>9, <2>1
<1>10. \A k \in 1..n : Len(ss[k].log) > 0
  BY <1>3 DEF HistoryInv, Rooted, n
<1>11. ASSUME ~Conflict(h), n > 0 PROVE b > 0
  <2>1. CASE host[h].selected = row[t]
    BY <1>1, <1>9, <1>10, <1>11, <2>1
  <2>2. CASE host[h].selected # NotStored
    <3>1. ASSUME b = 0 PROVE FALSE
      <4>1. Len(LogIn(ss, f)) = 0
        BY <1>7, <3>1 DEF LogIn
      <4>2. host[h].selected.decisions = << >> /\ host[h].selected.version = -1
        BY <1>1, <1>4, <1>6, <4>1, AggregateParts
      <4>3. host[h].selected = NotStored
        BY <1>1, <4>2, AggregateParts, NotStoredFits
      <4> QED
        BY <2>2, <4>3
    <3> QED
      BY <1>1, <3>1
  <2> QED
    BY <1>11, <2>1, <2>2 DEF Conflict
<1>12. ASSUME ~Conflict(h), FirstCommitterWins PROVE b = n
  <2>1. row[t] = host[h].selected
    BY <1>12 DEF Conflict
  <2>2. Len(LogIn(ss, n)) = Len(LogIn(ss, b))
    BY <1>3, <1>4, <1>7, <2>1
  <2>3. ASSUME NEW k \in 0..n PROVE Len(LogIn(ss, k)) = k
    <3>1. CASE k = 0
      BY <3>1 DEF LogIn
    <3>2. CASE k # 0
      BY <1>3, <1>12, <2>3, <3>2 DEF HistoryInv, Rooted, LogIn, n
    <3> QED
      BY <3>1, <3>2
  <2>4. Len(LogIn(ss, n)) = n /\ Len(LogIn(ss, b)) = b
    BY <1>3, <1>5, <2>3
  <2> QED
    BY <2>2, <2>4
<1> QED
  BY <1>3, <1>4, <1>5, <1>7, <1>8, <1>11, <1>12 DEF n

\* What save() writes when the versions agree.
LEMMA WrittenFits ==
  ASSUME NEW l \in Aggregates, NEW d \in Decisions, NEW v, v = l.version
  PROVE  /\ [Appended(l, d) EXCEPT !.version = v + 1] \in Aggregates
         /\ [Appended(l, d) EXCEPT !.version = v + 1].decisions = Append(l.decisions, d)
<1>1. [Appended(l, d) EXCEPT !.version = v + 1] =
        [version |-> l.version + 1, decisions |-> Append(l.decisions, d)]
  BY DEF Appended
<1> QED
  BY <1>1, AppendedAggregate

\* What a commit that meets no conflict writes: the row, and its entry.
LEMMA CommitWrites ==
  ASSUME Inv, NEW h \in Hosts, host[h].pc = "committing", Saved(h),
         NEW t \in Tickets, t = host[h].ticket, NEW s, s = EntryOf(h)
  PROVE  /\ row' \in [Tickets -> Aggregates] /\ row'[t].decisions = s.log
         /\ \A u \in Tickets : u # t => row'[u] = row[u]
         /\ saves' = [saves EXCEPT ![t] = Append(saves[t], s)]
<1> DEFINE d == host[h].decision
           a == [Appended(host[h].loaded, d) EXCEPT !.version = host[h].selected.version + 1]
<1>1. /\ d \in Decisions
      /\ host[h].loaded.decisions = LogIn(saves[t], host[h].seen)
      /\ host[h].selected.version = Len(host[h].loaded.decisions) - 1
  BY CommitFits
<1>2. /\ host[h].loaded \in Aggregates /\ row \in [Tickets -> Aggregates]
      /\ saves \in [Tickets -> Seq(Saves)]
  BY HostTypes DEF Inv, Calls, TypeOK
<1>3. host[h].selected.version = host[h].loaded.version
  BY <1>1, <1>2, AggregateParts
<1>4. a \in Aggregates /\ a.decisions = Append(host[h].loaded.decisions, d)
  BY <1>1, <1>2, <1>3, WrittenFits
<1>5. s.log = a.decisions /\ s = [log |-> a.decisions, base |-> host[h].seen, found |-> host[h].found]
  BY <1>1, <1>4 DEF EntryOf, Entered
<1>6. a = Written(h)
  BY DEF Written
<1> HIDE DEF a
<1>7. row' = [row EXCEPT ![t] = a]
  BY <1>6 DEF Saved
<1>8. saves' = [saves EXCEPT ![t] = Append(saves[t], s)]
  BY <1>5, <1>6 DEF Saved
<1> QED
  BY <1>2, <1>4, <1>5, <1>7, <1>8

\* What the commit of host h adds to its ticket's history.
LEMMA CommitGrows ==
  ASSUME Inv, NEW h \in Hosts, host[h].pc = "committing", ~Conflict(h),
         NEW t \in Tickets, t = host[h].ticket, NEW ss, ss = saves[t],
         NEW d, d = host[h].decision, NEW s, s = EntryOf(h)
  PROVE  /\ ss \in Seq(Saves) /\ s \in Saves /\ HistoryInv(Append(ss, s))
         /\ d \in Decisions /\ d.call <= calls /\ LastOf(s.log) = d
         /\ \A i \in DOMAIN s.log : s.log[i] = d \/ \E k \in 1..Len(ss) : Holds(ss[k].log, s.log[i])
<1>1. PICK b : b = host[h].seen
  OBVIOUS
<1>2. PICK f : f = host[h].found
  OBVIOUS
<1>3. /\ ss \in Seq(Saves) /\ HistoryInv(ss) /\ d \in Decisions /\ Fresh(ss, d)
      /\ d.call <= calls /\ b \in 0..Len(ss) /\ f \in 0..Len(ss)
      /\ Len(LogIn(ss, f)) = Len(LogIn(ss, b))
      /\ Len(ss) > 0 => b > 0
      /\ FirstCommitterWins => b = Len(ss)
  BY <1>1, <1>2, CommitFits
<1>4. s = Entered(ss, b, f, d)
  BY <1>1, <1>2 DEF EntryOf
<1> QED
  BY <1>3, <1>4, GrownHistory

\* A fresh decision goes into one history: the invariant is kept if the host
\* that commits it is right about the history with it.
LEMMA GrownStep ==
  ASSUME Inv, NEW h \in Hosts, NEW c \in Calls, host' = [host EXCEPT ![h] = c],
         host[h].pc = "committing", ~Conflict(h), Saved(h), calls' = calls, BusQuiet,
         NEW t \in Tickets, t = host[h].ticket, NEW d, d = host[h].decision,
         NEW s, s = EntryOf(h),
         c.ticket = t, Holding(c) => c.decision = d,
         CallInv(c, Append(saves[t], s), calls)
  PROVE  Inv'
<1> DEFINE ss == saves[t]
           more == Append(ss, s)
<1>1. /\ host \in [Hosts -> Calls] /\ calls \in Nat
      /\ host'[h] = c /\ \A g \in Hosts \ {h} : host'[g] = host[g]
  BY HostTypes DEF Inv, Calls
<1>2. /\ ss \in Seq(Saves) /\ s \in Saves /\ HistoryInv(more)
      /\ d \in Decisions /\ d.call <= calls
      /\ \A i \in DOMAIN s.log : s.log[i] = d \/ \E k \in 1..Len(ss) : Holds(ss[k].log, s.log[i])
  BY CommitGrows
<1>3. /\ row' \in [Tickets -> Aggregates] /\ row'[t].decisions = s.log
      /\ \A u \in Tickets : u # t => row'[u] = row[u]
      /\ saves' = [saves EXCEPT ![t] = more]
  BY CommitWrites
<1>4. /\ Len(ss) \in Nat /\ Len(more) = Len(ss) + 1 /\ more \in Seq(Saves)
      /\ \A j \in 1..Len(ss) : more[j] = ss[j]
      /\ more[Len(ss) + 1] = s /\ LogIn(more, Len(ss) + 1) = s.log
  BY <1>2, LongerHistory
<1>5. /\ saves' \in [Tickets -> Seq(Saves)]
      /\ saves'[t] = more /\ \A u \in Tickets : u # t => saves'[u] = saves[u]
  BY <1>3, <1>4 DEF Inv, TypeOK
<1> HIDE DEF more
<1>6. TypeOK'
  BY <1>1, <1>3, <1>5 DEF Inv, TypeOK, Calls, BusQuiet
<1>7. ASSUME NEW g \in Hosts PROVE HostInv(g)'
  <2>1. CASE g = h
    BY <1>1, <1>5, <2>1 DEF HostInv, more
  <2>2. CASE g # h
    <3>1. host'[g] = host[g] /\ host[g] \in Calls /\ CallInv(host[g], saves[host[g].ticket], calls)
      BY <1>1, <1>7, <2>2 DEF Inv, HostInv
    <3>2. host[g].ticket \in Tickets
      BY <3>1 DEF Calls
    <3>3. CASE host[g].ticket = t
      <4>1. host[g].pc \in Unrecorded => host[g].decision # d
        BY <1>7, <2>2 DEF Inv, Apart, Unrecorded
      <4>2. CallInv(host[g], more, calls)
        BY <1>2, <3>1, <3>3, <4>1, GrownCall DEF more
      <4> QED
        BY <1>5, <3>1, <3>3, <4>2 DEF HostInv
    <3>4. CASE host[g].ticket # t
      BY <1>5, <3>1, <3>2, <3>4 DEF HostInv
    <3> QED
      BY <3>3, <3>4
  <2> QED
    BY <2>1, <2>2
<1>8. LogInv'
  <2> SUFFICES ASSUME NEW u \in Tickets
               PROVE  /\ HistoryInv(saves'[u])
                      /\ row'[u].decisions = LogIn(saves'[u], Len(saves'[u]))
                      /\ \A k \in 1..Len(saves'[u]) :
                           \A i \in DOMAIN saves'[u][k].log : saves'[u][k].log[i].call <= calls
    BY DEF LogInv
  <2>1. LogInv
    BY DEF Inv
  <2>2. CASE u # t
    <3>1. saves'[u] = saves[u] /\ row'[u] = row[u]
      BY <1>3, <1>5, <2>2
    <3> QED
      BY <2>1, <3>1 DEF LogInv
  <2>3. CASE u = t
    <3>1. HistoryInv(saves'[u])
      BY <1>2, <1>5, <2>3 DEF more
    <3>2. row'[u].decisions = LogIn(saves'[u], Len(saves'[u]))
      BY <1>3, <1>4, <1>5, <2>3
    <3>3. \A k \in 1..Len(ss) : \A i \in DOMAIN ss[k].log : ss[k].log[i].call <= calls
      BY <2>1 DEF LogInv
    <3>4. \A i \in DOMAIN s.log : s.log[i].call <= calls
      BY <1>2, <3>3 DEF Holds
    <3>5. ASSUME NEW k \in 1..Len(more), NEW i \in DOMAIN more[k].log PROVE more[k].log[i].call <= calls
      <4>1. CASE k \in 1..Len(ss)
        BY <1>4, <3>3, <3>5, <4>1
      <4>2. CASE k = Len(ss) + 1
        BY <1>4, <3>4, <3>5, <4>2
      <4> QED
        BY <1>4, <4>1, <4>2
    <3> QED
      BY <1>5, <2>3, <3>1, <3>2, <3>5
  <2> QED
    BY <2>2, <2>3
<1>9. Apart'
  <2>1. host[h].pc \in Unrecorded
    BY DEF Unrecorded
  <2> QED
    BY <1>1, <2>1 DEF Inv, Apart, Holding
<1>10. ASSUME NEW u \in Tickets
       PROVE  /\ \A e : Committed(saves[u], e) => Committed(saves'[u], e)
              /\ \A count, state : ViewOf(saves[u], count, state) => ViewOf(saves'[u], count, state)
  <2>1. CASE u = t
    BY <1>2, <1>5, <2>1, StillCommitted DEF more
  <2>2. CASE u # t
    BY <1>5, <1>10, <2>2
  <2> QED
    BY <2>1, <2>2
<1>11. ToldInv'
  <2>1. ASSUME NEW u \in updated PROVE Committed(saves'[u[1]], u[2])
    BY <1>10, <2>1 DEF Inv, ToldInv, TypeOK
  <2>2. ASSUME NEW m \in commands PROVE Committed(saves'[m.cause[1]], m.cause[2])
    BY <1>10, <2>2 DEF Inv, ToldInv, TypeOK
  <2> QED
    BY <2>1, <2>2 DEF ToldInv, BusQuiet
<1>12. ProjectInv'
  BY <1>10 DEF Inv, ProjectInv, BusQuiet
<1> QED
  BY <1>6, <1>7, <1>8, <1>9, <1>11, <1>12 DEF Inv

\* The commit, whether the host hears of it or not, or the refusal.
LEMMA CommitInv ==
  ASSUME Inv, NEW h \in Hosts, Commit(h) \/ CommitUnanswered(h)
  PROVE  Inv'
<1>1. PICK t \in Tickets : t = host[h].ticket
  BY HostTypes DEF Inv, Calls
<1>2. PICK d : d = host[h].decision
  OBVIOUS
<1>3. PICK s : s = EntryOf(h)
  OBVIOUS
<1>4. /\ host[h] \in Calls /\ host[h].pc = "committing"
      /\ calls' = calls /\ calls \in 0..MaxCalls /\ calls <= calls' /\ BusQuiet
  BY HostTypes DEF Inv, Commit, CommitUnanswered, At, BusQuiet
<1>5. CallInv(host[h], saves[t], calls)
  BY <1>1 DEF Inv, HostInv
<1>6. CASE Conflict(h)
  <2> DEFINE c == [host[h] EXCEPT !.pc = "refused"]
  <2>1. /\ c \in Calls /\ c.pc = "refused" /\ c.ticket = t /\ c.decision = host[h].decision
        /\ c.seen = host[h].seen /\ c.view = host[h].view
    BY <1>1, <1>4 DEF Calls, Steps
  <2>2. host' = [host EXCEPT ![h] = c] /\ row' = row /\ saves' = saves
    BY <1>6 DEF Commit, CommitUnanswered, Goes
  <2> HIDE DEF c
  <2>3. Len(saves[t]) > c.seen
    BY <1>1, <1>4, <1>6, <2>1, CommitFits
  <2>4. CallInv(c, saves[t], calls)
    BY <1>4, <1>5, <2>1, <2>3 DEF CallInv, Unrecorded, Told
  <2>5. OnlyHolder(h, c)
    BY <1>4, <2>1, StillOnlyHolder DEF Holding, Unrecorded
  <2> QED
    BY <1>4, <2>1, <2>2, <2>4, <2>5, QuietStep
<1>7. CASE ~Conflict(h)
  <2>1. Saved(h)
    BY <1>7 DEF Commit, CommitUnanswered
  <2>2. saves[t] \in Seq(Saves) /\ s \in Saves /\ d \in Decisions /\ d.call <= calls /\ LastOf(s.log) = d
    BY <1>1, <1>2, <1>3, <1>4, <1>7, CommitGrows
  <2>3. CASE Commit(h)
    <3> DEFINE c == [host[h] EXCEPT !.pc = "publishing"]
    <3>1. /\ c \in Calls /\ c.pc = "publishing" /\ c.ticket = t /\ c.decision = d
          /\ c.view = host[h].view
      BY <1>1, <1>2, <1>4 DEF Calls, Steps
    <3>2. host' = [host EXCEPT ![h] = c]
      BY <1>7, <2>3 DEF Commit, Goes
    <3> HIDE DEF c
    <3>3. Committed(Append(saves[t], s), d)
      BY <2>2, LongerHistory DEF Committed
    <3>4. ViewOf(Append(saves[t], s), c.view.count, c.view.state)
      <4>1. ViewOf(saves[t], c.view.count, c.view.state)
        BY <1>5, <3>1 DEF CallInv
      <4> QED
        BY <2>2, <4>1, StillCommitted
    <3>5. CallInv(c, Append(saves[t], s), calls)
      BY <2>2, <3>1, <3>3, <3>4 DEF CallInv, Unrecorded, Told
    <3> QED
      BY <1>1, <1>2, <1>3, <1>4, <1>7, <2>1, <3>1, <3>2, <3>5, GrownStep
  <2>4. CASE CommitUnanswered(h)
    <3> DEFINE c == Idle(t)
    <3>1. c \in Calls /\ c.pc = "idle" /\ c.ticket = t /\ c.view.count = 0
      BY IdleFits
    <3>2. host' = [host EXCEPT ![h] = c]
      BY <1>1, <2>4 DEF CommitUnanswered, Fails
    <3> HIDE DEF c
    <3>3. CallInv(c, Append(saves[t], s), calls) /\ ~Holding(c)
      BY <3>1 DEF CallInv, ViewOf, Holding, Unrecorded, Told
    <3> QED
      BY <1>1, <1>2, <1>3, <1>4, <1>7, <2>1, <3>1, <3>2, <3>3, GrownStep
  <2> QED
    BY <2>3, <2>4
<1> QED
  BY <1>6, <1>7

\* The event is published when its decision is committed.
LEMMA PublishInv ==
  ASSUME Inv, NEW h \in Hosts, Publish(h)
  PROVE  Inv'
<1>1. PICK t \in Tickets : t = host[h].ticket
  BY HostTypes DEF Inv, Calls
<1> DEFINE d == host[h].decision
           c == [Idle(host[h].ticket) EXCEPT !.pc = "returned", !.decision = d]
<1>2. /\ host[h] \in Calls /\ host[h].pc = "publishing"
      /\ calls' = calls /\ calls \in 0..MaxCalls /\ calls <= calls'
  BY HostTypes DEF Inv, Publish, At
<1>3. CallInv(host[h], saves[t], calls)
  BY <1>1 DEF Inv, HostInv
<1>4. d \in Decisions /\ d.call <= calls /\ Committed(saves[t], d)
  BY <1>2, <1>3 DEF CallInv, Told
<1>5. /\ c \in Calls /\ c.pc = "returned" /\ c.ticket = t /\ c.decision = d
      /\ c.view.count = 0
  BY <1>1, <1>4, NotStoredFits DEF Calls, Steps, Idle, NoView, ContextView, ViewStates
<1>6. /\ host' = [host EXCEPT ![h] = c] /\ row' = row /\ saves' = saves
      /\ updated' = updated \cup {<<t, d>>} /\ commands' = commands /\ project' = project
  BY <1>1 DEF Publish
<1> HIDE DEF c
<1>7. CallInv(c, saves[c.ticket], calls')
  BY <1>2, <1>4, <1>5 DEF CallInv, ViewOf, Unrecorded, Told
<1>8. OnlyHolder(h, c)
  BY <1>2, <1>5, StillOnlyHolder DEF Holding, Told
<1>9. /\ host' \in [Hosts -> Calls] /\ \A g \in Hosts : HostInv(g)' /\ LogInv' /\ Apart'
  BY <1>2, <1>5, <1>6, <1>7, <1>8, QuietHosts
<1>10. updated' \subseteq Tickets \X Decisions
  BY <1>4, <1>6 DEF Inv, TypeOK
<1>11. TypeOK'
  BY <1>2, <1>6, <1>9, <1>10 DEF Inv, TypeOK, Calls
<1>12. ToldInv'
  <2>1. ASSUME NEW u \in updated' PROVE Committed(saves[u[1]], u[2])
    BY <1>4, <1>6, <2>1 DEF Inv, ToldInv
  <2>2. \A m \in commands : Committed(saves[m.cause[1]], m.cause[2])
    BY DEF Inv, ToldInv
  <2> QED
    BY <1>6, <2>1, <2>2 DEF ToldInv
<1>13. ProjectInv'
  BY <1>6 DEF Inv, ProjectInv
<1> QED
  BY <1>9, <1>11, <1>12, <1>13 DEF Inv

\* A command is published for a decision that was answered.
LEMMA EmitInv ==
  ASSUME Inv, NEW h \in Hosts, NEW k \in CommandTypes, NEW p \in CommandTypes, Emit(h, k, p)
  PROVE  Inv'
<1>1. CASE Fails(h) /\ UNCHANGED commands
  BY <1>1, FailsInv DEF Emit
<1>2. CASE UNCHANGED host /\ p = k /\ commands' = commands \cup
             {[command_type |-> k, payload |-> p, cause |-> <<host[h].ticket, host[h].decision>>]}
  <2>1. PICK t \in Tickets : t = host[h].ticket
    BY HostTypes DEF Inv, Calls
  <2>2. host[h].decision \in Decisions /\ Committed(saves[t], host[h].decision)
    BY <2>1 DEF Emit, At, Inv, HostInv, CallInv, Told
  <2>3. UNCHANGED <<row, saves, host, calls, updated, project>>
    BY <1>2 DEF Emit
  <2>4. TypeOK'
    BY <1>2, <2>1, <2>2, <2>3 DEF Inv, TypeOK
  <2>5. ToldInv'
    <3>1. \A m \in commands' : Committed(saves[m.cause[1]], m.cause[2])
      BY <1>2, <2>1, <2>2 DEF Inv, ToldInv
    <3> QED
      BY <2>3, <3>1 DEF Inv, ToldInv
  <2>6. (\A g \in Hosts : HostInv(g))' /\ LogInv' /\ Apart' /\ ProjectInv'
    BY <2>3 DEF Inv, HostInv, LogInv, Apart, ProjectInv
  <2> QED
    BY <2>4, <2>5, <2>6 DEF Inv
<1> QED
  BY <1>1, <1>2 DEF Emit

\* A project view reads one summary after another.
LEMMA ViewInv ==
  ASSUME Inv, (\E t \in Tickets : Summarize(t)) \/ ProjectRead
  PROVE  Inv'
<1>1. UNCHANGED <<row, saves, host, calls, updated, commands>>
  BY DEF Summarize, ProjectRead
<1>2. ASSUME NEW t \in Tickets, Summarize(t)
      PROVE  ProjectInv' /\ project' \in [Tickets -> [sequence : Int, state : ViewStates]]
  <2>1. PICK v : v = SummaryView(row[t].decisions)
    OBVIOUS
  <2>2. /\ v \in [sequence : Int, state : ViewStates]
        /\ ViewOf(saves[t], v.sequence + 1, v.state)
    BY <2>1, ViewOfLog
  <2>3. /\ project \in [Tickets -> [sequence : Int, state : ViewStates]]
        /\ project' = [project EXCEPT ![t] = v]
    BY <1>2, <2>1 DEF Inv, TypeOK, Summarize
  <2>4. ProjectInv'
    BY <1>1, <2>2, <2>3 DEF Inv, ProjectInv
  <2> QED
    BY <2>2, <2>3, <2>4
<1>3. ASSUME ProjectRead
      PROVE  ProjectInv' /\ project' \in [Tickets -> [sequence : Int, state : ViewStates]]
  BY <1>3 DEF ProjectRead, ProjectInv, NotRead, ViewStates
<1>4. TypeOK' /\ ProjectInv'
  BY <1>1, <1>2, <1>3 DEF Inv, TypeOK
<1> QED
  BY <1>1, <1>4 DEF Inv, HostInv, LogInv, Apart, ToldInv

-----------------------------------------------------------------------------
(* The invariant                                                            *)

\* It holds at first.
LEMMA InitInv == Init => Inv
<1> SUFFICES ASSUME Init PROVE Inv
  OBVIOUS
<1>1. /\ row = [t \in Tickets |-> NotStored] /\ saves = [t \in Tickets |-> << >>]
      /\ calls = 0 /\ updated = {} /\ commands = {}
      /\ project = [t \in Tickets |-> NotRead] /\ MaxCalls \in Nat
  BY DecisionLogAssumption DEF Init
<1>2. \A h \in Hosts : \E t \in Tickets : host[h] = Idle(t)
  BY DEF Init
<1>3. host \in [Hosts -> Calls] /\ \A h \in Hosts : host[h].pc = "idle" /\ host[h].view.count = 0
  <2>1. {Idle(t) : t \in Tickets} \subseteq Calls
    BY IdleFits
  <2>2. host \in [Hosts -> Calls]
    BY <2>1 DEF Init
  <2>3. \A h \in Hosts : host[h].pc = "idle" /\ host[h].view.count = 0
    BY <1>2, IdleFits
  <2> QED
    BY <2>2, <2>3
<1>4. NotRead \in [sequence : Int, state : ViewStates]
  BY DEF NotRead, ViewStates
<1>5. TypeOK
  BY <1>1, <1>3, <1>4, NotStoredFits DEF TypeOK, Calls
<1>6. \A h \in Hosts : HostInv(h)
  BY <1>3 DEF HostInv, CallInv, ViewOf, Unrecorded, Told
<1>7. LogInv
  <2> SUFFICES ASSUME NEW t \in Tickets
               PROVE  /\ HistoryInv(saves[t])
                      /\ row[t].decisions = LogIn(saves[t], Len(saves[t]))
                      /\ \A k \in 1..Len(saves[t]) :
                           \A i \in DOMAIN saves[t][k].log : saves[t][k].log[i].call <= calls
    BY DEF LogInv
  <2>1. saves[t] = << >> /\ Len(saves[t]) = 0 /\ row[t].decisions = << >>
    BY <1>1, NotStoredFits
  <2>2. \A k \in 1..Len(saves[t]) : FALSE
    BY <2>1
  <2>3. HistoryInv(saves[t])
    BY <2>2 DEF HistoryInv, Rooted, Kept, Distinct
  <2> QED
    BY <2>1, <2>2, <2>3 DEF LogIn
<1>8. Apart
  BY <1>3 DEF Apart, Unrecorded, Told
<1>9. ToldInv /\ ProjectInv
  BY <1>1 DEF ToldInv, ProjectInv
<1> QED
  BY <1>5, <1>6, <1>7, <1>8, <1>9 DEF Inv

\* Every step of a host is one of the steps above.
LEMMA HostSteps ==
  ASSUME NEW h \in Hosts, HostNext(h)
  PROVE  \/ \E t \in Tickets : Retrieve(h, t)
         \/ \E target \in Stages : Transition(h, target)
         \/ Load(h) \/ Select(h) \/ Commit(h) \/ CommitUnanswered(h) \/ Publish(h) \/ Fail(h)
         \/ \E k, p \in CommandTypes : Emit(h, k, p)
<1>1. CASE \E payload \in CommandTypes :
             \/ ExecuteCodingJobEmitter(h, payload) \/ ReviewPullRequestEmitter(h, payload)
             \/ SynchronizePullRequestEmitter(h, payload) \/ RequestMergeEmitter(h, payload)
             \/ RequestUserInputEmitter(h, payload) \/ NotifyUserEmitter(h, payload)
             \/ CancelCodingJobEmitter(h, payload) \/ CancelReviewJobEmitter(h, payload)
  <2>1. PICK p \in CommandTypes :
             \/ ExecuteCodingJobEmitter(h, p) \/ ReviewPullRequestEmitter(h, p)
             \/ SynchronizePullRequestEmitter(h, p) \/ RequestMergeEmitter(h, p)
             \/ RequestUserInputEmitter(h, p) \/ NotifyUserEmitter(h, p)
             \/ CancelCodingJobEmitter(h, p) \/ CancelReviewJobEmitter(h, p)
    BY <1>1
  <2>2. \E k \in CommandTypes : Emit(h, k, p)
    BY <2>1 DEF CommandTypes, ExecuteCodingJobEmitter, ReviewPullRequestEmitter,
       SynchronizePullRequestEmitter, RequestMergeEmitter, RequestUserInputEmitter,
       NotifyUserEmitter, CancelCodingJobEmitter, CancelReviewJobEmitter
  <2> QED
    BY <2>2
<1> QED
  BY <1>1 DEF HostNext

\* It is kept by every step.
LEMMA NextInv ==
  ASSUME Inv, [Next]_vars
  PROVE  Inv'
<1>1. CASE UNCHANGED vars
  BY <1>1 DEF vars, Inv, TypeOK, HostInv, LogInv, Apart, ToldInv, ProjectInv
<1>2. CASE (\E t \in Tickets : Summarize(t)) \/ ProjectRead
  BY <1>2, ViewInv
<1>3. ASSUME NEW h \in Hosts, HostNext(h) PROVE Inv'
  <2>1. CASE \E t \in Tickets : Retrieve(h, t)
    BY <2>1, RetrieveInv
  <2>2. CASE \E target \in Stages : Transition(h, target)
    BY <2>2, TransitionInv
  <2>3. CASE Load(h)
    BY <2>3, LoadInv
  <2>4. CASE Select(h)
    BY <2>4, SelectInv
  <2>5. CASE Commit(h) \/ CommitUnanswered(h)
    BY <2>5, CommitInv
  <2>6. CASE Publish(h)
    BY <2>6, PublishInv
  <2>7. CASE Fail(h)
    BY <2>7, FailsInv DEF Fail
  <2>8. CASE \E k, p \in CommandTypes : Emit(h, k, p)
    BY <2>8, EmitInv
  <2> QED
    BY <1>3, <2>1, <2>2, <2>3, <2>4, <2>5, <2>6, <2>7, <2>8, HostSteps
<1> QED
  BY <1>1, <1>2, <1>3 DEF Next

\* So it holds throughout.
THEOREM Invariance == Spec => []Inv
<1>1. Inv /\ [Next]_vars => Inv'
  BY NextInv
<1> QED
  BY <1>1, InitInv, PTL DEF Spec

-----------------------------------------------------------------------------
(* What it says                                                             *)

\* The definitions of the module are those of the histories.
LEMMA SameDefinitions ==
  /\ \A t, i : LogAt(t, i) = LogIn(saves[t], i)
  /\ \A t, i : Overtaken(t, i) <=> Over(saves[t], i)
BY DEF LogAt, LogIn, Overtaken, Over

\* The state is well formed: no aggregate ever has a version that disagrees
\* with the number of its decisions, whichever writer overtook which.
THEOREM TypeCorrect == Spec => []TypeOK
<1>1. Inv => TypeOK
  BY DEF Inv
<1> QED
  BY <1>1, Invariance, PTL

\* A host's answer is true for as long as it keeps it: a decision it was told
\* is recorded was committed once, and is in the log exactly once or was
\* overtaken by a writer with an equal version; a refused one was never in it.
THEOREM AnswersStayTrue == Spec => []AnswersAreTrue
<1>1. ASSUME Inv PROVE AnswersAreTrue
  <2> SUFFICES ASSUME NEW h \in Hosts, NEW t, t = host[h].ticket, NEW d, d = host[h].decision
               PROVE  /\ host[h].pc \in Told =>
                           \E i \in DOMAIN saves[t] :
                             /\ CommitsOf(t, d) = {i}
                             /\ \/ \E p \in DOMAIN row[t].decisions : Positions(row[t].decisions, d) = {p}
                                \/ Positions(row[t].decisions, d) = {} /\ Overtaken(t, i)
                      /\ host[h].pc = "refused" => \A i \in DOMAIN saves[t] : Positions(LogAt(t, i), d) = {}
    BY DEF AnswersAreTrue, At, Told
  <2>1. t \in Tickets /\ CallInv(host[h], saves[t], calls)
    BY <1>1, HostTypes DEF Inv, Calls, HostInv
  <2>2. PICK ss : ss = saves[t]
    OBVIOUS
  <2>3. PICK n : n = Len(ss)
    OBVIOUS
  <2>4. /\ ss \in Seq(Saves) /\ n \in Nat /\ DOMAIN ss = 1..n
        /\ HistoryInv(ss) /\ row[t].decisions = LogIn(ss, n)
    BY <1>1, <2>1, <2>2, <2>3, TicketTypes DEF Inv, LogInv
  <2>5. ASSUME NEW k \in 1..n
        PROVE  /\ LogAt(t, k) = ss[k].log /\ DOMAIN ss[k].log = 1..Len(ss[k].log)
               /\ Len(ss[k].log) \in DOMAIN ss[k].log
               /\ \A i, j \in DOMAIN ss[k].log : ss[k].log[i] = ss[k].log[j] => i = j
    <3>1. k \in 0..Len(ss) /\ k # 0 /\ k \in 1..Len(ss)
      BY <2>3, <2>4
    <3>2. DOMAIN ss[k].log = 1..Len(ss[k].log) /\ Len(ss[k].log) \in Nat /\ LogIn(ss, k) = ss[k].log
      BY <2>4, <3>1, LogFits
    <3>3. Len(ss[k].log) > 0 /\ \A i, j \in DOMAIN ss[k].log : ss[k].log[i] = ss[k].log[j] => i = j
      BY <2>4, <3>1 DEF HistoryInv, Rooted, Distinct
    <3>4. LogAt(t, k) = ss[k].log
      BY <2>2, <3>2, SameDefinitions
    <3> QED
      BY <3>2, <3>3, <3>4
  <2>6. ASSUME host[h].pc = "refused" PROVE \A i \in 1..n : Positions(LogAt(t, i), d) = {}
    <3>1. Fresh(ss, d)
      BY <2>1, <2>2, <2>6 DEF CallInv, Unrecorded
    <3> QED
      BY <2>3, <2>5, <3>1 DEF Fresh, Holds, Positions
  <2>7. ASSUME host[h].pc \in Told
        PROVE  \E i \in 1..n :
                 /\ CommitsOf(t, d) = {i}
                 /\ \/ \E p \in DOMAIN row[t].decisions : Positions(row[t].decisions, d) = {p}
                    \/ Positions(row[t].decisions, d) = {} /\ Overtaken(t, i)
    <3>1. PICK k \in 1..n : LastOf(ss[k].log) = d
      BY <2>1, <2>2, <2>3, <2>7 DEF CallInv, Committed
    <3>2. \A i \in 1..n : Len(LogAt(t, i)) \in Positions(LogAt(t, i), d) <=> LastOf(ss[i].log) = d
      BY <2>5 DEF LastOf, Positions
    <3>3. \A i \in 1..n : LastOf(ss[i].log) = d => i = k
      BY <2>3, <2>4, <3>1 DEF HistoryInv, Distinct
    <3>4. CommitsOf(t, d) = {k}
      BY <2>2, <2>4, <3>1, <3>2, <3>3 DEF CommitsOf
    <3>5. k <= n /\ n \in 1..n /\ k \in 1..Len(ss) /\ n \in 1..Len(ss)
      BY <2>3, <2>4
    <3>6. Prefix(ss[k].log, ss[n].log) \/ Over(ss, k)
      BY <2>4, <3>5 DEF HistoryInv, Kept
    <3>7. row[t].decisions = ss[n].log
      BY <2>2, <2>4, <2>5, <3>5, SameDefinitions
    <3>8. \A p \in Positions(ss[n].log, d) : Positions(ss[n].log, d) = {p}
      BY <2>5, <3>5 DEF Positions
    <3>9. Over(ss, k) => Overtaken(t, k)
      BY <2>2, SameDefinitions
    <3>10. CASE Prefix(ss[k].log, ss[n].log)
      <4>1. /\ DOMAIN ss[k].log = 1..Len(ss[k].log) /\ Len(ss[k].log) \in DOMAIN ss[k].log
            /\ DOMAIN ss[n].log = 1..Len(ss[n].log) /\ Len(ss[n].log) \in DOMAIN ss[n].log
        BY <2>5, <3>5
      <4>2. Len(ss[k].log) \in DOMAIN ss[n].log /\ ss[n].log[Len(ss[k].log)] = d
        BY <3>1, <3>10, <4>1 DEF Prefix, LastOf
      <4>3. Len(ss[k].log) \in Positions(ss[n].log, d)
        BY <4>2 DEF Positions
      <4> QED
        BY <3>4, <3>7, <3>8, <4>2, <4>3
    <3>11. CASE Over(ss, k)
      <4>1. CASE Positions(ss[n].log, d) = {}
        BY <3>4, <3>7, <3>9, <3>11, <4>1
      <4>2. CASE Positions(ss[n].log, d) # {}
        <5>1. PICK p : p \in Positions(ss[n].log, d)
          BY <4>2
        <5>2. p \in DOMAIN ss[n].log
          BY <5>1 DEF Positions
        <5> QED
          BY <3>4, <3>7, <3>8, <5>1, <5>2
      <4> QED
        BY <4>1, <4>2
    <3> QED
      BY <3>6, <3>10, <3>11
  <2> QED
    BY <2>2, <2>4, <2>6, <2>7
<1> QED
  BY <1>1, Invariance, PTL

\* A host is refused only because somebody has committed since it loaded the row.
THEOREM SomebodyGotAhead == Spec => []RefusedOnlyIfOvertaken
<1>1. Inv => RefusedOnlyIfOvertaken
  BY DEF Inv, HostInv, CallInv, RefusedOnlyIfOvertaken, At
<1> QED
  BY <1>1, Invariance, PTL

\* A view is of a log the ticket had, and is only late unless that log was
\* overtaken by a writer with an equal version.
THEOREM ViewsAreOnlyLate == Spec => []ViewsStayTrue
<1>1. ASSUME Inv PROVE ViewsStayTrue
  <2> DEFINE TrueOf(ds, count, state) == count \in 1..Len(ds) /\ ds[count].resulting = state
             Stays(t, count, state) ==
               count = 0 \/ \E i \in DOMAIN saves[t] :
                 /\ Len(LogAt(t, i)) = count /\ TrueOf(LogAt(t, i), count, state)
                 /\ TrueOf(row[t].decisions, count, state) \/ Overtaken(t, i)
  <2>1. ASSUME NEW t \in Tickets, NEW count, NEW state, ViewOf(saves[t], count, state)
        PROVE  Stays(t, count, state)
    <3>1. PICK ss : ss = saves[t]
      OBVIOUS
    <3>2. PICK n : n = Len(ss)
      OBVIOUS
    <3>3. /\ ss \in Seq(Saves) /\ n \in Nat /\ DOMAIN ss = 1..n
          /\ HistoryInv(ss) /\ row[t].decisions = LogIn(ss, n)
      BY <1>1, <2>1, <3>1, <3>2, TicketTypes DEF Inv, LogInv
    <3>4. CASE count # 0
      <4>1. PICK k \in 1..n : /\ Len(ss[k].log) = count /\ count \in 1..Len(ss[k].log)
                              /\ ss[k].log[count].resulting = state
        BY <2>1, <3>1, <3>2, <3>4 DEF ViewOf
      <4>2. k <= n /\ n \in 1..n /\ k \in 1..Len(ss) /\ n \in 1..Len(ss) /\ k # 0 /\ n # 0
        BY <3>2, <3>3
      <4>3. LogAt(t, k) = ss[k].log /\ row[t].decisions = ss[n].log
        BY <3>1, <3>3, <4>2, SameDefinitions DEF LogIn
      <4>4. Prefix(ss[k].log, ss[n].log) \/ Over(ss, k)
        BY <3>3, <4>2 DEF HistoryInv, Kept
      <4>5. Len(ss[n].log) \in Nat /\ Len(ss[k].log) \in Nat
        <5>1. n \in 0..Len(ss) /\ k \in 0..Len(ss)
          BY <3>2, <3>3, <4>2
        <5> QED
          BY <3>3, <4>2, <5>1, LogFits
      <4>6. Prefix(ss[k].log, ss[n].log) => TrueOf(ss[n].log, count, state)
        BY <4>1, <4>5 DEF Prefix
      <4>7. Over(ss, k) => Overtaken(t, k)
        BY <3>1, SameDefinitions
      <4>8. TrueOf(ss[k].log, count, state)
        BY <4>1
      <4> HIDE DEF TrueOf
      <4> QED
        BY <3>1, <3>3, <4>1, <4>3, <4>4, <4>6, <4>7, <4>8
    <3> QED
      BY <3>4
  <2>2. ASSUME NEW h \in Hosts PROVE Stays(host[h].ticket, host[h].view.count, host[h].view.state)
    <3>1. host[h].ticket \in Tickets
      BY <1>1, HostTypes DEF Inv, Calls
    <3>2. ViewOf(saves[host[h].ticket], host[h].view.count, host[h].view.state)
      BY <1>1 DEF Inv, HostInv, CallInv
    <3> HIDE DEF Stays
    <3> QED
      BY <2>1, <3>1, <3>2
  <2>3. ASSUME NEW t \in Tickets, project[t] # NotRead
        PROVE  Stays(t, project[t].sequence + 1, project[t].state)
    <3>1. ViewOf(saves[t], project[t].sequence + 1, project[t].state)
      BY <1>1, <2>3 DEF Inv, ProjectInv
    <3> HIDE DEF Stays
    <3> QED
      BY <2>1, <3>1
  <2> QED
    BY <2>2, <2>3 DEF ViewsStayTrue
<1> QED
  BY <1>1, Invariance, PTL

-----------------------------------------------------------------------------
(* The refinement                                                           *)

Texts(ss) == [i \in DOMAIN ss |-> ss[i].log]
LogsOf == [t \in Tickets |-> [i \in DOMAIN saves[t] |-> saves[t][i].log]]
ToldOf == updated \cup {c.cause : c \in commands}

\* A step that tells nothing and records nothing.
LEMMA Stutters ==
  ASSUME UNCHANGED <<saves, updated, commands>>
  PROVE  UNCHANGED <<LogsOf, ToldOf>>
BY DEF LogsOf, ToldOf

\* One commit more is one log more.
LEMMA LongerTexts ==
  ASSUME NEW ss \in Seq(Saves), NEW s \in Saves
  PROVE  /\ Texts(ss) \in Seq(Seq(Decisions)) /\ Len(Texts(ss)) = Len(ss) /\ Len(ss) \in Nat
         /\ Texts(Append(ss, s)) = Append(Texts(ss), s.log)
<1>1. /\ Append(ss, s) \in Seq(Saves) /\ Len(ss) \in Nat
      /\ DOMAIN ss = 1..Len(ss) /\ DOMAIN Append(ss, s) = 1..Len(ss) + 1
      /\ \A i \in 1..Len(ss) : Append(ss, s)[i] = ss[i]
      /\ Append(ss, s)[Len(ss) + 1] = s
  OBVIOUS
<1>2. s.log \in Seq(Decisions) /\ \A i \in 1..Len(ss) : ss[i].log \in Seq(Decisions)
  <2>1. \A i \in 1..Len(ss) : ss[i] \in Saves
    BY <1>1
  <2> QED
    BY <2>1 DEF Saves
<1> DEFINE ts == Texts(ss)
           more == Texts(Append(ss, s))
           n == Len(ss)
<1>3. /\ ts \in Seq(Seq(Decisions)) /\ Len(ts) = n
      /\ \A i \in 1..n : ts[i] = ss[i].log
  BY <1>1, <1>2 DEF Texts
<1>4. /\ more \in Seq(Seq(Decisions)) /\ Len(more) = n + 1
      /\ \A i \in 1..n + 1 : more[i] = Append(ss, s)[i].log
  <2>1. \A i \in 1..n + 1 : Append(ss, s)[i].log \in Seq(Decisions)
    BY <1>1, <1>2
  <2> QED
    BY <1>1, <2>1 DEF Texts
<1> HIDE DEF ts, more
<1>5. /\ Append(ts, s.log) \in Seq(Seq(Decisions)) /\ Len(Append(ts, s.log)) = n + 1
      /\ \A i \in 1..n : Append(ts, s.log)[i] = ts[i]
      /\ Append(ts, s.log)[n + 1] = s.log
  BY <1>2, <1>3
<1>6. ASSUME NEW i \in 1..n + 1 PROVE more[i] = Append(ts, s.log)[i]
  <2>1. CASE i \in 1..n
    BY <1>1, <1>3, <1>4, <1>5, <2>1
  <2>2. CASE i = n + 1
    BY <1>1, <1>4, <1>5, <2>2
  <2> QED
    <3>1. n \in Nat /\ i \in 1..n + 1
      BY <1>1, <1>6
    <3>2. i \in 1..n \/ i = n + 1
      BY <3>1
    <3> QED
      BY <2>1, <2>2, <3>2
<1>7. more = Append(ts, s.log)
  BY <1>4, <1>5, <1>6, SeqEqual
<1> QED
  BY <1>1, <1>3, <1>7 DEF ts, more

\* A commit that meets no conflict records one decision.
LEMMA CommitRecords ==
  ASSUME Inv, NEW h \in Hosts, ~Conflict(h), Commit(h) \/ CommitUnanswered(h)
  PROVE  \E t \in Tickets, d \in Decisions : Log!Record(t, d)
<1>1. PICK t \in Tickets : t = host[h].ticket
  BY HostTypes DEF Inv, Calls
<1>2. PICK d : d = host[h].decision
  OBVIOUS
<1>3. PICK s : s = EntryOf(h)
  OBVIOUS
<1>4. PICK ss : ss = saves[t]
  OBVIOUS
<1>5. PICK b : b = host[h].seen
  OBVIOUS
<1>6. host[h].pc = "committing" /\ Saved(h) /\ UNCHANGED <<updated, commands>>
  BY DEF Commit, CommitUnanswered, At
<1>7. /\ ss \in Seq(Saves) /\ d \in Decisions /\ b \in 0..Len(ss)
      /\ Len(ss) > 0 => b > 0
      /\ FirstCommitterWins => b = Len(ss)
  BY <1>1, <1>2, <1>4, <1>5, <1>6, CommitFits
<1>8. s \in Saves
  BY <1>1, <1>3, <1>6, CommitGrows
<1>9. s.log = Append(LogIn(ss, b), d)
  BY <1>1, <1>2, <1>3, <1>4, <1>5 DEF EntryOf, Entered
<1>10. saves' = [saves EXCEPT ![t] = Append(ss, s)]
  BY <1>1, <1>3, <1>4, <1>6, CommitWrites
<1>11. /\ Len(ss) \in Nat /\ Len(Texts(ss)) = Len(ss)
       /\ Texts(Append(ss, s)) = Append(Texts(ss), s.log)
  BY <1>7, <1>8, LongerTexts
<1>12. LogsOf[t] = Texts(ss)
  BY <1>4 DEF LogsOf, Texts
<1>13. LogsOf' = [LogsOf EXCEPT ![t] = Append(LogsOf[t], s.log)]
  <2>1. /\ LogsOf = [u \in Tickets |-> Texts(saves[u])]
        /\ LogsOf' = [u \in Tickets |-> Texts(saves'[u])]
    BY DEF LogsOf, Texts
  <2>2. saves' \in [Tickets -> {saves'[u] : u \in Tickets}]
        /\ saves'[t] = Append(ss, s) /\ \A u \in Tickets : u # t => saves'[u] = saves[u]
    BY <1>10 DEF Inv, TypeOK
  <2>3. Texts(saves'[t]) = Append(LogsOf[t], s.log)
    BY <1>11, <1>12, <2>2
  <2>4. \A u \in Tickets : u # t => Texts(saves'[u]) = Texts(saves[u])
    BY <2>2
  <2> HIDE DEF LogsOf
  <2> QED
    BY <2>1, <2>3, <2>4
<1>14. s.log = Append(IF b = 0 THEN << >> ELSE LogsOf[t][b], d)
  <2>1. b # 0 => LogsOf[t][b] = LogIn(ss, b)
    BY <1>7, <1>12 DEF Texts, LogIn
  <2> QED
    BY <1>9, <2>1 DEF LogIn
<1>15. b \in 0..Len(LogsOf[t]) /\ (b = Len(LogsOf[t]) \/ (~FirstCommitterWins /\ b > 0))
  <2>1. b = Len(ss) \/ b > 0
    BY <1>7, <1>11
  <2> QED
    BY <1>7, <1>11, <1>12, <2>1
<1>16. ToldOf' = ToldOf
  BY <1>6 DEF ToldOf
<1>17. LogsOf' = [LogsOf EXCEPT ![t] = Append(LogsOf[t], Append(IF b = 0 THEN << >> ELSE LogsOf[t][b], d))]
  BY <1>13, <1>14
<1> HIDE DEF LogsOf, ToldOf
<1>18. \E i \in 0..Len(LogsOf[t]) :
         /\ i = Len(LogsOf[t]) \/ (~FirstCommitterWins /\ i > 0)
         /\ LogsOf' = [LogsOf EXCEPT ![t] = Append(LogsOf[t], Append(IF i = 0 THEN << >> ELSE LogsOf[t][i], d))]
  BY <1>15, <1>17
<1> QED
  BY <1>7, <1>16, <1>18 DEF Log!Record, LogsOf, ToldOf

\* An event or a command tells of a decision that was committed.
LEMMA BusTells ==
  ASSUME Inv, NEW h \in Hosts, host[h].pc \in Told, saves' = saves,
         ToldOf' = ToldOf \cup {<<host[h].ticket, host[h].decision>>}
  PROVE  \E t \in Tickets, d \in Decisions : Log!Tell(t, d)
<1>1. PICK t \in Tickets : t = host[h].ticket
  BY HostTypes DEF Inv, Calls
<1>2. PICK d : d = host[h].decision
  OBVIOUS
<1>3. d \in Decisions /\ Committed(saves[t], d)
  BY <1>1, <1>2 DEF Inv, HostInv, CallInv
<1>4. PICK k \in 1..Len(saves[t]) : LastOf(saves[t][k].log) = d
  BY <1>3 DEF Committed
<1>5. k \in DOMAIN LogsOf[t] /\ LogsOf[t][k] = saves[t][k].log
  BY <1>1, TicketTypes DEF LogsOf, Inv
<1>6. saves[t][k].log # << >>
  <2>1. Len(saves[t][k].log) > 0
    BY DEF Inv, LogInv, HistoryInv, Rooted
  <2> QED
    BY <2>1
<1>7. LogsOf' = LogsOf /\ ToldOf' = ToldOf \cup {<<t, d>>}
  BY <1>1, <1>2 DEF LogsOf
<1>8. \E i \in DOMAIN LogsOf[t] : LogsOf[t][i] # << >> /\ LogsOf[t][i][Len(LogsOf[t][i])] = d
  BY <1>4, <1>5, <1>6 DEF LastOf
<1> QED
  BY <1>3, <1>7, <1>8 DEF Log!Tell, LogsOf, ToldOf

\* Every step of the hosts and the views is a step of the log, or none.
LEMMA StepRefines ==
  ASSUME Inv, [Next]_vars
  PROVE  Log!Next \/ UNCHANGED <<LogsOf, ToldOf>>
<1>1. CASE UNCHANGED vars \/ (\E t \in Tickets : Summarize(t)) \/ ProjectRead
  BY <1>1, Stutters DEF vars, Summarize, ProjectRead
<1>2. ASSUME NEW h \in Hosts, HostNext(h)
      PROVE  Log!Next \/ UNCHANGED <<LogsOf, ToldOf>>
  <2>1. CASE \/ \E t \in Tickets : Retrieve(h, t)
             \/ \E target \in Stages : Transition(h, target)
             \/ Load(h) \/ Select(h) \/ Fail(h)
    BY <2>1, Stutters DEF Retrieve, Transition, Load, Select, Fail
  <2>2. CASE Commit(h) \/ CommitUnanswered(h)
    <3>1. CASE Conflict(h)
      BY <2>2, <3>1, Stutters DEF Commit, CommitUnanswered
    <3>2. CASE ~Conflict(h)
      BY <2>2, <3>2, CommitRecords DEF Log!Next
    <3> QED
      BY <3>1, <3>2
  <2>3. CASE Publish(h)
    <3>1. host[h].pc \in Told /\ saves' = saves
      BY <2>3 DEF Publish, At, Told
    <3>2. ToldOf' = ToldOf \cup {<<host[h].ticket, host[h].decision>>}
      BY <2>3 DEF Publish, ToldOf
    <3> QED
      BY <1>2, <3>1, <3>2, BusTells DEF Log!Next
  <2>4. ASSUME NEW k \in CommandTypes, NEW p \in CommandTypes, Emit(h, k, p)
        PROVE  Log!Next \/ UNCHANGED <<LogsOf, ToldOf>>
    <3>1. host[h].pc \in Told /\ saves' = saves /\ updated' = updated
      BY <2>4 DEF Emit, At, Told
    <3>2. CASE commands' = commands
      BY <3>1, <3>2, Stutters
    <3>3. CASE commands' = commands \cup
                 {[command_type |-> k, payload |-> p, cause |-> <<host[h].ticket, host[h].decision>>]}
      <4>1. PICK m : m = [command_type |-> k, payload |-> p, cause |-> <<host[h].ticket, host[h].decision>>]
        OBVIOUS
      <4>2. commands' = commands \cup {m} /\ m.cause = <<host[h].ticket, host[h].decision>>
        BY <3>3, <4>1
      <4>3. {c.cause : c \in commands'} = {c.cause : c \in commands} \cup {m.cause}
        BY <4>2
      <4>4. ToldOf' = updated' \cup {c.cause : c \in commands'}
        BY DEF ToldOf
      <4>5. ToldOf' = ToldOf \cup {<<host[h].ticket, host[h].decision>>}
        BY <3>1, <4>2, <4>3, <4>4 DEF ToldOf
      <4> QED
        BY <1>2, <3>1, <4>5, BusTells DEF Log!Next
    <3> QED
      BY <2>4, <3>2, <3>3 DEF Emit
  <2> QED
    BY <1>2, <2>1, <2>2, <2>3, <2>4, HostSteps
<1> QED
  BY <1>1, <1>2 DEF Next

\* The hosts, whatever their interleaving and failures, implement the log whose
\* every record is one decision more at the end of the latest log, or of an
\* earlier one if the database lets writers overwrite, and of which nothing is
\* told that was not recorded.
THEOREM HostsImplementTheLog == Spec => ImplementsLog
<1>1. Init => Log!Init
  <2> SUFFICES ASSUME Init PROVE Log!Init
    OBVIOUS
  <2>1. \A t \in Tickets : saves[t] = << >> /\ [i \in DOMAIN saves[t] |-> saves[t][i].log] = << >>
    BY DEF Init
  <2> QED
    BY <2>1 DEF Log!Init, Init
<1>2. Inv /\ [Next]_vars => [Log!Next]_<<LogsOf, ToldOf>>
  BY StepRefines
<1> QED
  BY <1>1, <1>2, Invariance, PTL DEF Spec, ImplementsLog, Log!Spec, LogsOf, ToldOf

=============================================================================
