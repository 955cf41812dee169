---------------------------- MODULE Ingress_proofs ----------------------------
(***************************************************************************)
(* Proofs about Ingress for any endpoints, rows, secrets, bounds and       *)
(* either publisher.  A request is at no time both under way and on its    *)
(* way out; a body remembered as seen is on the bus, waits or was lost;    *)
(* and what the caches hold has been in force since the process started.   *)
(***************************************************************************)
EXTENDS Ingress, FiniteSetTheorems, SequenceTheorems, TLAPS

-----------------------------------------------------------------------------
(* Sequences as what is in them.                                            *)

Elements(s) == {s[i] : i \in DOMAIN s}
Distinct(s) == \A i, j \in DOMAIN s : s[i] = s[j] => i = j

\* What is in a sequence of requests is a request.
LEMMA ElementsType == ASSUME NEW S, NEW s \in Seq(S) PROVE Elements(s) \subseteq S
BY DEF Elements

\* The empty sequence.
LEMMA NoElements == Elements(<<>>) = {} /\ Distinct(<<>>)
BY DEF Elements, Distinct

\* Something appended is in the sequence; appended once, it is there once.
LEMMA AppendElements ==
  ASSUME NEW S, NEW s \in Seq(S), NEW x \in S
  PROVE  /\ Append(s, x) \in Seq(S)
         /\ Elements(Append(s, x)) = Elements(s) \cup {x}
         /\ Distinct(s) /\ x \notin Elements(s) => Distinct(Append(s, x))
<1> DEFINE n == Len(s)
           t == Append(s, x)
<1>1. n \in Nat /\ DOMAIN s = 1 .. n
  BY LenProperties
<1>2. t \in Seq(S) /\ Len(t) = n + 1
  BY AppendProperties
<1>3. DOMAIN t = 1 .. n + 1 /\ t[n + 1] = x /\ \A i \in 1 .. n : t[i] = s[i]
  BY <1>2, AppendProperties, LenProperties
<1> HIDE DEF n, t
<1>4. 1 .. n + 1 = 1 .. n \cup {n + 1} /\ n + 1 \notin 1 .. n
  BY <1>1
<1>5. Elements(t) = Elements(s) \cup {x}
  BY <1>1, <1>3, <1>4 DEF Elements
<1>6. ASSUME Distinct(s), x \notin Elements(s) PROVE Distinct(t)
  <2>1. \A i \in 1 .. n : t[i] # x
    BY <1>1, <1>3, <1>6 DEF Elements
  <2> QED
    BY <1>1, <1>3, <1>4, <1>6, <2>1 DEF Distinct
<1> QED
  BY <1>2, <1>5, <1>6 DEF t

\* Without its head a sequence has everything but the head, when nothing is in it twice.
LEMMA TailElements ==
  ASSUME NEW S, NEW s \in Seq(S), s # <<>>
  PROVE  /\ Tail(s) \in Seq(S) /\ Head(s) \in S
         /\ Elements(s) = Elements(Tail(s)) \cup {Head(s)}
         /\ Distinct(s) => Distinct(Tail(s)) /\ Head(s) \notin Elements(Tail(s))
<1> DEFINE n == Len(s)
           t == Tail(s)
           h == Head(s)
<1>1. n \in Nat \ {0} /\ DOMAIN s = 1 .. n
  BY LenProperties, EmptySeq
<1>2. t \in Seq(S) /\ h \in S /\ Len(t) = n - 1 /\ h = s[1]
  BY HeadTailProperties
<1>3. DOMAIN t = 1 .. n - 1 /\ \A i \in 1 .. n - 1 : t[i] = s[i + 1]
  BY <1>2, HeadTailProperties, LenProperties
<1> HIDE DEF n, t, h
<1>4. /\ 1 \in 1 .. n /\ \A i \in 1 .. n - 1 : i + 1 \in 1 .. n /\ i + 1 # 1
      /\ \A i, j \in 1 .. n - 1 : i + 1 = j + 1 => i = j
  BY <1>1
<1>5. Elements(s) = Elements(t) \cup {h}
  <2>1. ASSUME NEW i \in 1 .. n PROVE i = 1 \/ \E j \in 1 .. n - 1 : i = j + 1
    <3>1. CASE i # 1
      <4>1. i - 1 \in 1 .. n - 1 /\ i = (i - 1) + 1
        BY <1>1, <3>1
      <4> QED
        BY <4>1
    <3> QED
      BY <3>1
  <2>2. \A i \in 1 .. n : s[i] = h \/ \E j \in 1 .. n - 1 : s[i] = t[j]
    BY <1>2, <1>3, <2>1
  <2>3. \A j \in 1 .. n - 1 : \E i \in 1 .. n : t[j] = s[i]
    BY <1>3, <1>4
  <2>4. Elements(s) = {s[i] : i \in 1 .. n} /\ Elements(t) = {t[j] : j \in 1 .. n - 1}
    BY <1>1, <1>3 DEF Elements
  <2>5. Elements(s) \subseteq Elements(t) \cup {h}
    BY <2>2, <2>4
  <2>6. h \in Elements(s) /\ Elements(t) \subseteq Elements(s)
    BY <1>2, <1>4, <2>3, <2>4
  <2> QED
    BY <2>5, <2>6
<1>6. ASSUME Distinct(s) PROVE Distinct(t) /\ h \notin Elements(t)
  <2>1. \A i, j \in 1 .. n - 1 : t[i] = t[j] => i = j
    BY <1>1, <1>3, <1>4, <1>6 DEF Distinct
  <2>2. \A j \in 1 .. n - 1 : t[j] # s[1]
    BY <1>1, <1>3, <1>4, <1>6 DEF Distinct
  <2> QED
    BY <1>2, <1>3, <2>1, <2>2 DEF Distinct, Elements
<1> QED
  BY <1>2, <1>5, <1>6 DEF t, h

\* The bodies on a sequence are those of the requests on it.
LEMMA BodiesOf == \A s : Bodies(s) = {Event(r) : r \in Elements(s)}
BY DEF Bodies, Elements

-----------------------------------------------------------------------------
(* The invariant: TypeOK by the state it is about, and what relates the parts. *)

ProcessOK == publisher \in Publishers /\ now \in 0 .. MaxTime /\ restarts \in 0 .. MaxRestarts

WorldOK ==
  /\ table \in [Endpoints -> Rows \cup {NoRow}] /\ secrets \in [Refs -> Keys \cup {NoKey}]
  /\ changes \in 0 .. MaxChanges
  /\ pastRows \in [Endpoints -> SUBSET (Rows \cup {NoRow})]
  /\ pastKeys \in [Refs -> SUBSET (Keys \cup {NoKey})]

MemoryOK ==
  /\ cache \in [Endpoints -> Rows \cup {NoRow}] /\ loaded \in [Refs -> Keys \cup {NoKey}]
  /\ read \in BOOLEAN

SentOK ==
  /\ content \in [Events -> Contents \cup {Unsent}]
  /\ request \in [Requests -> Deliveries] /\ at \in [Requests -> Stages]

PublishedOK ==
  /\ seen \subseteq Events /\ lost \subseteq Events
  /\ queue \in Seq(Requests) /\ bus \in Seq(Requests)

Parts == ProcessOK /\ WorldOK /\ MemoryOK /\ SentOK /\ PublishedOK

\* TypeOK is its parts.
LEMMA TypeParts == (TypeOK <=> Parts) /\ (TypeOK' <=> Parts')
BY DEF TypeOK, Parts, ProcessOK, WorldOK, MemoryOK, SentOK, PublishedOK

\* A request that has been sent has a body.
SentInv == \A r \in Requests : at[r] # "none" => content[Event(r)] # Unsent

\* What the caches hold, and what they are filled from, has been in force since the
\* process started.
CacheInv ==
  /\ \A p \in Endpoints : table[p] \in pastRows[p] /\ cache[p] \in pastRows[p] \cup {NoRow}
  /\ \A s \in Refs : secrets[s] \in pastKeys[s] /\ (read => loaded[s] \in pastKeys[s])

\* A request is published, or waits to be, once at most, and only when it has got
\* past everything that could refuse it.
Untouched == {"none", "reading"} \cup Refused
OnItsWay == Elements(bus) \cup Elements(queue)

OnceInv ==
  /\ Distinct(bus) /\ Distinct(queue) /\ Elements(bus) \cap Elements(queue) = {}
  /\ \A r \in Requests : at[r] \in Untouched => r \notin OnItsWay

\* A body that has been acknowledged, or is remembered as seen, is somewhere; a
\* request whose publication is awaited is on the bus.
Somewhere == {Event(r) : r \in OnItsWay} \cup lost

KeptInv ==
  /\ publisher = "inline" => lost = {} /\ queue = <<>>
  /\ \A r \in Requests :
       /\ at[r] = "publishing" => publisher = "inline" /\ r \in Elements(bus)
       /\ at[r] \in Accepted => Event(r) \in Somewhere
  /\ seen \subseteq Somewhere

\* Each process publishes a body once at most, and then remembers it.
Copied(e) == {r \in OnItsWay : Event(r) = e}

CountInv ==
  publisher = "ack" =>
    \A e \in Events : Cardinality(Copied(e)) <= restarts + (IF e \in seen THEN 1 ELSE 0)

FlowInv == OnceInv /\ KeptInv /\ CountInv

Inv == TypeOK /\ SentInv /\ CacheInv /\ FlowInv

\* The requests on their way with a body are finitely many; fewer are no more.
LEMMA CopiedFinite ==
  ASSUME PublishedOK, NEW S \in SUBSET OnItsWay
  PROVE  IsFiniteSet(S) /\ Cardinality(S) \in Nat
<1>1. OnItsWay \subseteq Requests
  BY ElementsType DEF PublishedOK, OnItsWay
<1>2. IsFiniteSet(Requests)
  BY FS_Interval, IngressAssumption DEF Requests
<1> QED
  BY <1>1, <1>2, FS_Subset, FS_CardinalityType

\* Nothing has been sent, published or remembered to begin with.
LEMMA InitInv == Init => Inv
<1> SUFFICES ASSUME Init PROVE Inv
  OBVIOUS
<1> USE DEF Init
<1>1. TypeOK
  <2>1. ProcessOK
    BY IngressAssumption DEF ProcessOK
  <2>2. WorldOK
    BY IngressAssumption DEF WorldOK
  <2>3. MemoryOK
    BY DEF MemoryOK
  <2>4. NoDelivery \in Deliveries
    BY IngressAssumption DEF NoDelivery, Deliveries, Events
  <2>5. SentOK
    BY <2>4 DEF SentOK, Stages
  <2>6. PublishedOK
    BY EmptySeq DEF PublishedOK
  <2> QED
    BY <2>1, <2>2, <2>3, <2>5, <2>6, TypeParts DEF Parts
<1>2. SentInv /\ CacheInv
  BY DEF SentInv, CacheInv
<1>3. OnItsWay = {}
  BY NoElements DEF OnItsWay
<1>4. OnceInv /\ KeptInv
  BY <1>3, NoElements DEF OnceInv, KeptInv, Accepted
<1>5. CountInv
  <2>1. \A e : Copied(e) = {}
    BY <1>3 DEF Copied
  <2>2. Cardinality({}) <= 0 + (IF FALSE THEN 1 ELSE 0)
    BY FS_EmptySet
  <2> QED
    BY <2>1, <2>2 DEF CountInv
<1> QED
  BY <1>1, <1>2, <1>4, <1>5 DEF Inv, FlowInv

-----------------------------------------------------------------------------
(* What the caches hold.                                                    *)

\* The row and the secret that a delivery goes by.
LEMMA InForce ==
  ASSUME WorldOK, MemoryOK, CacheInv
  PROVE  /\ \A p \in Endpoints :
              /\ Configured(p) \in Rows \cup {NoRow} /\ Configured(p) \in pastRows[p]
              /\ Configured(p) = NoRow => table[p] = NoRow
         /\ \A s \in Refs : Secret(s) \in Keys \cup {NoKey} /\ Secret(s) \in pastKeys[s]
<1>1. ASSUME NEW p \in Endpoints
      PROVE  /\ Configured(p) \in Rows \cup {NoRow} /\ Configured(p) \in pastRows[p]
             /\ Configured(p) = NoRow => table[p] = NoRow
  BY <1>1 DEF Configured, CacheInv, WorldOK, MemoryOK
<1>2. ASSUME NEW s \in Refs PROVE Secret(s) \in Keys \cup {NoKey} /\ Secret(s) \in pastKeys[s]
  BY <1>2 DEF Secret, CacheInv, WorldOK, MemoryOK
<1> QED
  BY <1>1, <1>2

\* Filling the caches keeps them so.
LEMMA MemoryKept ==
  ASSUME WorldOK, MemoryOK, CacheInv, NEW p \in Endpoints, Remember(p),
         ReadSecrets \/ UNCHANGED <<loaded, read>>, UNCHANGED world
  PROVE  MemoryOK' /\ CacheInv'
<1>1. cache' \in [Endpoints -> Rows \cup {NoRow}]
  BY InForce DEF Remember, MemoryOK
<1>2. \A q \in Endpoints : cache'[q] \in pastRows[q] \cup {NoRow}
  BY InForce DEF Remember, MemoryOK, CacheInv
<1>3. /\ loaded' \in [Refs -> Keys \cup {NoKey}] /\ read' \in BOOLEAN
      /\ \A s \in Refs : read' => loaded'[s] \in pastKeys[s]
  <2>1. CASE ReadSecrets
    BY <2>1, InForce DEF ReadSecrets
  <2>2. CASE UNCHANGED <<loaded, read>>
    BY <2>2 DEF MemoryOK, CacheInv
  <2> QED
    BY <2>1, <2>2
<1> QED
  BY <1>1, <1>2, <1>3 DEF MemoryOK, CacheInv, world

\* A request that is being handled has a body, for an endpoint.
LEMMA HandledHasBody ==
  ASSUME SentOK, SentInv, NEW r \in Requests, at[r] # "none"
  PROVE  Event(r) \in Events /\ content[Event(r)] \in Contents /\ Endpoint(r) \in Endpoints
<1>1. Event(r) \in Events
  BY DEF SentOK, Event, Deliveries
<1>2. content[Event(r)] \in Contents
  BY <1>1 DEF SentOK, SentInv
<1> QED
  BY <1>1, <1>2 DEF Endpoint, Contents

-----------------------------------------------------------------------------
(* One step of a request, as to what is published.                          *)

\* Request r goes from one stage to another; nothing else of what was sent changes.
Moves(r, from, to) ==
  /\ at[r] = from /\ at' = [at EXCEPT ![r] = to]
  /\ UNCHANGED <<publisher, request, restarts>>

\* Nothing on its way changes its body, nor does what is somewhere move.
LEMMA SameFlow ==
  ASSUME UNCHANGED <<request, queue, bus, lost>>
  PROVE  /\ OnItsWay' = OnItsWay /\ Somewhere' = Somewhere
         /\ \A e : Copied(e)' = Copied(e)
         /\ \A r : Event(r)' = Event(r)
BY DEF OnItsWay, Elements, Somewhere, Copied, Event

\* A request that moves without publishing anything: it is refused or given up, or
\* it goes on to be answered when its body is somewhere, or its publication is done.
LEMMA FlowQuiet ==
  ASSUME SentOK, FlowInv, NEW r \in Requests, NEW from \in Stages, NEW to \in Stages \ Untouched,
         Moves(r, from, to), UNCHANGED <<seen, queue, bus, lost>>,
         to # "publishing", to \in Accepted => Event(r) \in Somewhere
  PROVE  FlowInv'
<1>1. \A q \in Requests : at'[q] = (IF q = r THEN to ELSE at[q])
  BY DEF Moves, SentOK
<1>2. OnceInv'
  BY <1>1, SameFlow DEF Moves, FlowInv, OnceInv, Distinct, Elements
<1>3. KeptInv'
  BY <1>1, SameFlow DEF Moves, FlowInv, KeptInv, Elements
<1>4. CountInv'
  BY SameFlow DEF Moves, FlowInv, CountInv
<1> QED
  BY <1>2, <1>3, <1>4 DEF FlowInv

\* So is one that is refused.
LEMMA FlowRefused ==
  ASSUME SentOK, FlowInv, NEW r \in Requests, NEW to \in Refused,
         Moves(r, "reading", to), UNCHANGED <<seen, queue, bus, lost>>
  PROVE  FlowInv'
<1>1. \A q \in Requests : at'[q] = (IF q = r THEN to ELSE at[q])
  BY DEF Moves, SentOK
<1>2. OnceInv'
  BY <1>1, SameFlow DEF Moves, FlowInv, OnceInv, Distinct, Elements, Untouched
<1>3. KeptInv'
  BY <1>1, SameFlow DEF Moves, FlowInv, KeptInv, Elements, Accepted, Refused
<1>4. CountInv'
  BY SameFlow DEF Moves, FlowInv, CountInv
<1> QED
  BY <1>2, <1>3, <1>4 DEF FlowInv

\* A request that is read is on no queue, and goes on the bus or into the queue once.
LEMMA FlowPublished ==
  ASSUME SentOK, PublishedOK, FlowInv, NEW r \in Requests,
         NEW to \in Accepted \cup {"publishing"}, Moves(r, "reading", to), UNCHANGED lost,
         Event(r) \in Events, restarts \in Nat,
         \/ /\ publisher = "inline" /\ to = "publishing"
            /\ bus' = Append(bus, r) /\ UNCHANGED <<seen, queue>>
         \/ /\ publisher = "ack" /\ to # "publishing" /\ Event(r) \notin seen
            /\ seen' = seen \cup {Event(r)} /\ queue' = Append(queue, r) /\ UNCHANGED bus
  PROVE  FlowInv'
<1>1. \A q \in Requests : at'[q] = (IF q = r THEN to ELSE at[q])
  BY DEF Moves, SentOK
<1>2. r \notin Elements(bus) /\ r \notin Elements(queue)
  BY DEF Moves, FlowInv, OnceInv, OnItsWay, Untouched
<1>3. \/ /\ Elements(bus)' = Elements(bus) \cup {r} /\ Elements(queue)' = Elements(queue)
         /\ Distinct(bus)' /\ Distinct(queue)'
      \/ /\ Elements(bus)' = Elements(bus) /\ Elements(queue)' = Elements(queue) \cup {r}
         /\ Distinct(bus)' /\ Distinct(queue)'
  <2>1. CASE bus' = Append(bus, r) /\ UNCHANGED queue
    BY <1>2, <2>1, AppendElements DEF PublishedOK, FlowInv, OnceInv, Elements, Distinct
  <2>2. CASE queue' = Append(queue, r) /\ UNCHANGED bus
    BY <1>2, <2>2, AppendElements DEF PublishedOK, FlowInv, OnceInv, Elements, Distinct
  <2> QED
    BY <2>1, <2>2
<1>4. OnItsWay' = OnItsWay \cup {r} /\ \A q : Event(q)' = Event(q)
  BY <1>3 DEF OnItsWay, Moves, Event
<1>5. Somewhere' = Somewhere \cup {Event(r)}
  BY <1>4 DEF Somewhere
<1>6. to \notin Untouched
  BY DEF Accepted, Untouched, Refused
<1>7. OnceInv'
  <2>1. Distinct(bus)' /\ Distinct(queue)' /\ Elements(bus)' \cap Elements(queue)' = {}
    BY <1>2, <1>3 DEF FlowInv, OnceInv
  <2>2. ASSUME NEW q \in Requests, at'[q] \in Untouched PROVE q \notin OnItsWay'
    BY <1>1, <1>4, <1>6, <2>2 DEF FlowInv, OnceInv
  <2> QED
    BY <2>1, <2>2 DEF OnceInv, Untouched
<1>8. KeptInv'
  <2>1. publisher' = "inline" => lost' = {} /\ queue' = <<>>
    BY DEF Moves, FlowInv, KeptInv
  <2>2. ASSUME NEW q \in Requests
        PROVE  /\ at'[q] = "publishing" => publisher' = "inline" /\ q \in Elements(bus)'
               /\ at'[q] \in Accepted => Event(q)' \in Somewhere'
    <3>1. CASE q = r
      <4>1. at'[q] = to /\ Event(q)' \in Somewhere'
        BY <1>1, <1>4, <1>5, <3>1
      <4>2. to = "publishing" => publisher = "inline" /\ bus' = Append(bus, r)
        OBVIOUS
      <4>3. bus' = Append(bus, r) => r \in Elements(bus)'
        BY AppendElements DEF PublishedOK, Elements
      <4> QED
        BY <3>1, <4>1, <4>2, <4>3 DEF Moves
    <3>2. CASE q # r
      BY <1>1, <1>3, <1>4, <1>5, <3>2 DEF Moves, FlowInv, KeptInv
    <3> QED
      BY <3>1, <3>2
  <2>3. seen' \subseteq Somewhere'
    BY <1>5 DEF FlowInv, KeptInv
  <2> QED
    BY <2>1, <2>2, <2>3 DEF KeptInv
<1>9. CountInv'
  <2> SUFFICES ASSUME publisher = "ack", NEW e \in Events
               PROVE  Cardinality(Copied(e)') <= restarts + (IF e \in seen' THEN 1 ELSE 0)
    BY DEF CountInv, Moves
  <2>1. /\ Event(r) \notin seen /\ seen' = seen \cup {Event(r)}
        /\ Cardinality(Copied(e)) <= restarts + (IF e \in seen THEN 1 ELSE 0)
    BY DEF FlowInv, CountInv
  <2>2. IsFiniteSet(Copied(e)) /\ Cardinality(Copied(e)) \in Nat
    BY CopiedFinite DEF Copied
  <2>3. CASE e # Event(r)
    <3>1. Copied(e)' = Copied(e)
      BY <1>4, <2>3 DEF Copied
    <3> QED
      BY <2>1, <2>3, <3>1
  <2>4. CASE e = Event(r)
    <3>1. Copied(e)' = Copied(e) \cup {r} /\ r \notin Copied(e)
      BY <1>2, <1>4, <2>4 DEF Copied, OnItsWay
    <3>2. Cardinality(Copied(e)') = Cardinality(Copied(e)) + 1
      BY <2>2, <3>1, FS_AddElement
    <3>3. Cardinality(Copied(e)) <= restarts /\ e \in seen'
      BY <2>1, <2>4
    <3> QED
      BY <2>2, <3>2, <3>3
  <2> QED
    BY <2>3, <2>4
<1> QED
  BY <1>7, <1>8, <1>9 DEF FlowInv

\* Fewer requests on their way, and as many processes, leave the copies few enough.
LEMMA CountShrinks ==
  ASSUME PublishedOK, CountInv, restarts \in Nat, restarts' \in Nat, UNCHANGED publisher,
         \A e \in Events : Copied(e)' \subseteq Copied(e),
         \/ restarts' = restarts /\ seen' = seen
         \/ restarts' = restarts + 1
  PROVE  CountInv'
<1> SUFFICES ASSUME publisher = "ack", NEW e \in Events
             PROVE  Cardinality(Copied(e)') <= restarts' + (IF e \in seen' THEN 1 ELSE 0)
  BY DEF CountInv
<1>1. IsFiniteSet(Copied(e)) /\ Cardinality(Copied(e)) \in Nat
  BY CopiedFinite DEF Copied
<1>2. Cardinality(Copied(e)') <= Cardinality(Copied(e))
  BY <1>1, FS_Subset
<1>3. Cardinality(Copied(e)') \in Nat
  BY <1>1, FS_Subset, FS_CardinalityType
<1>4. Cardinality(Copied(e)) <= restarts + (IF e \in seen THEN 1 ELSE 0)
  BY DEF CountInv
<1> QED
  BY <1>1, <1>2, <1>3, <1>4

\* A dispatch moves the head of the queue onto the bus, or notes its body as lost.
LEMMA FlowDispatch ==
  ASSUME ProcessOK, SentOK, PublishedOK, FlowInv, NEW reaches \in BOOLEAN, Dispatch(reaches)
  PROVE  FlowInv'
<1> DEFINE h == Head(queue)
<1>1. /\ h \in Requests /\ Elements(queue) = Elements(Tail(queue)) \cup {h}
      /\ Distinct(Tail(queue)) /\ h \notin Elements(Tail(queue)) /\ h \notin Elements(bus)
  BY TailElements DEF PublishedOK, Dispatch, FlowInv, OnceInv
<1>2. Elements(queue)' = Elements(Tail(queue)) /\ Distinct(queue)'
  BY <1>1 DEF Dispatch, Elements, Distinct
<1>3. /\ Elements(bus)' = IF reaches THEN Elements(bus) \cup {h} ELSE Elements(bus)
      /\ Distinct(bus)'
  <2>1. CASE reaches
    <3>1. bus' = Append(bus, h)
      BY <2>1 DEF Dispatch
    <3>2. /\ Elements(Append(bus, h)) = Elements(bus) \cup {h}
          /\ Distinct(Append(bus, h))
      BY <1>1, AppendElements DEF PublishedOK, FlowInv, OnceInv
    <3> QED
      BY <2>1, <3>1, <3>2 DEF Elements, Distinct
  <2>2. CASE ~reaches
    BY <2>2 DEF Dispatch, FlowInv, OnceInv, Elements, Distinct
  <2> QED
    BY <2>1, <2>2
<1>4. /\ OnItsWay' = IF reaches THEN OnItsWay ELSE OnItsWay \ {h}
      /\ Elements(bus) \subseteq Elements(bus)'
      /\ lost' = IF reaches THEN lost ELSE lost \cup {Event(h)}
      /\ UNCHANGED <<publisher, request, at, seen, restarts>> /\ \A r : Event(r)' = Event(r)
  BY <1>1, <1>2, <1>3 DEF OnItsWay, Dispatch, sent, Event
<1> HIDE DEF h
<1>5. Somewhere' = Somewhere
  <2>1. h \in OnItsWay
    BY <1>1 DEF OnItsWay
  <2> QED
    BY <1>4, <2>1 DEF Somewhere
<1>6. OnceInv'
  <2>1. Elements(bus)' \cap Elements(queue)' = {}
    BY <1>1, <1>2, <1>3 DEF FlowInv, OnceInv
  <2>2. \A r \in Requests : at'[r] \in Untouched => r \notin OnItsWay'
    BY <1>4 DEF FlowInv, OnceInv
  <2> QED
    BY <1>2, <1>3, <2>1, <2>2 DEF OnceInv, Untouched
<1>7. KeptInv'
  <2>1. publisher # "inline"
    BY DEF Dispatch, FlowInv, KeptInv
  <2> QED
    BY <1>4, <1>5, <2>1 DEF FlowInv, KeptInv
<1>8. CountInv'
  <2>1. \A e \in Events : Copied(e)' \subseteq Copied(e)
    BY <1>4 DEF Copied
  <2>2. restarts \in Nat
    BY IngressAssumption DEF ProcessOK
  <2> QED
    BY <1>4, <2>1, <2>2, CountShrinks DEF FlowInv
<1> QED
  BY <1>6, <1>7, <1>8 DEF FlowInv

\* A restart loses the queue, and what it loses it had acknowledged.
LEMMA FlowRestart ==
  ASSUME ProcessOK, SentOK, PublishedOK, FlowInv, Restart
  PROVE  FlowInv'
<1>1. \A r \in Requests : at'[r] = (IF at[r] \in {"reading", "publishing"} THEN "dropped" ELSE at[r])
  BY DEF Restart
<1>2. /\ Elements(bus)' = Elements(bus) /\ Elements(queue)' = {} /\ Distinct(queue)'
      /\ OnItsWay' = Elements(bus) /\ \A r : Event(r)' = Event(r)
      /\ Distinct(bus)' = Distinct(bus)
  BY NoElements DEF Restart, Elements, OnItsWay, sent, Event, Distinct
<1>3. lost' = lost \cup {Event(r) : r \in Elements(queue)}
  BY DEF Restart, Elements
<1>4. Somewhere' = Somewhere
  BY <1>2, <1>3 DEF Somewhere, OnItsWay
<1>5. OnceInv'
  BY <1>1, <1>2 DEF FlowInv, OnceInv, Untouched, Refused, OnItsWay
<1>6. KeptInv'
  <2>1. publisher = "inline" => lost' = {}
    <3>1. publisher = "inline" => Elements(queue) = {} /\ lost = {}
      BY NoElements DEF FlowInv, KeptInv
    <3> QED
      BY <1>3, <3>1
  <2>2. \A r \in Requests :
          at'[r] # "publishing" /\ (at'[r] \in Accepted => at[r] \in Accepted)
    BY <1>1 DEF Accepted
  <2> QED
    BY <1>2, <1>4, <2>1, <2>2 DEF Restart, FlowInv, KeptInv
<1>7. CountInv'
  <2>1. \A e \in Events : Copied(e)' \subseteq Copied(e)
    BY <1>2 DEF Copied, OnItsWay
  <2>2. restarts \in Nat /\ restarts' = restarts + 1 /\ UNCHANGED publisher
    BY IngressAssumption DEF ProcessOK, Restart
  <2> QED
    BY <2>1, <2>2, CountShrinks DEF FlowInv
<1> QED
  BY <1>5, <1>6, <1>7 DEF FlowInv

\* A request that is only sent is nowhere yet.
LEMMA FlowSend ==
  ASSUME SentOK, FlowInv, NEW r \in Requests, at[r] = "none",
         at' = [at EXCEPT ![r] = "reading"], NEW d, request' = [request EXCEPT ![r] = d],
         UNCHANGED <<publisher, seen, queue, bus, lost, restarts>>
  PROVE  FlowInv'
<1>1. \A q \in Requests : at'[q] = (IF q = r THEN "reading" ELSE at[q])
  BY DEF SentOK
<1>2. r \notin OnItsWay
  BY DEF FlowInv, OnceInv, Untouched
<1>3. OnItsWay' = OnItsWay /\ \A q \in Requests \ {r} : Event(q)' = Event(q)
  BY DEF OnItsWay, Elements, Event, SentOK
<1>4. \A q \in OnItsWay : Event(q)' = Event(q)
  BY <1>2 DEF Event, SentOK
<1>5. Somewhere' = Somewhere /\ \A e : Copied(e)' = Copied(e)
  BY <1>3, <1>4 DEF Somewhere, Copied
<1>6. OnceInv'
  BY <1>1, <1>2, <1>3 DEF FlowInv, OnceInv, Distinct, Elements
<1>7. KeptInv'
  <2>1. "reading" \notin Accepted \cup {"publishing"}
    BY DEF Accepted
  <2> QED
    BY <1>1, <1>3, <1>5, <2>1 DEF FlowInv, KeptInv, Elements
<1>8. CountInv'
  BY <1>5 DEF FlowInv, CountInv
<1> QED
  BY <1>6, <1>7, <1>8 DEF FlowInv

\* What changes neither requests nor publications.
LEMMA FlowSame ==
  ASSUME FlowInv, UNCHANGED <<publisher, request, at, seen, queue, bus, lost, restarts>>
  PROVE  FlowInv'
<1>1. OnceInv'
  BY SameFlow DEF FlowInv, OnceInv, Distinct, Elements
<1>2. KeptInv'
  BY SameFlow DEF FlowInv, KeptInv, Elements
<1>3. CountInv'
  BY SameFlow DEF FlowInv, CountInv
<1> QED
  BY <1>1, <1>2, <1>3 DEF FlowInv

-----------------------------------------------------------------------------
(* Every step.                                                              *)

\* A delivery that has been looked up, whatever comes of it, leaves the caches true.
LEMMA LookedUp ==
  ASSUME Parts, SentInv, CacheInv, NEW r \in Requests,
         NotFound(r) \/ Misconfigured(r) \/ Unauthorized(r) \/ Invalid(r)
           \/ PublishInline(r) \/ PublishFails(r) \/ PublishLater(r)
  PROVE  /\ at[r] = "reading" /\ Event(r) \in Events /\ Endpoint(r) \in Endpoints
         /\ UNCHANGED <<publisher, now, world, sent, restarts>>
         /\ MemoryOK' /\ CacheInv'
<1>1. at[r] = "reading"
  BY DEF NotFound, Misconfigured, Unauthorized, Invalid, PublishInline, PublishFails, PublishLater,
         Admitted, Authenticating, Serving
<1>2. Event(r) \in Events /\ Endpoint(r) \in Endpoints
  BY <1>1, HandledHasBody DEF Parts
<1>3. /\ UNCHANGED <<publisher, now, world, sent, restarts>>
      /\ Remember(Endpoint(r)) /\ (ReadSecrets \/ UNCHANGED <<loaded, read>>)
  BY DEF NotFound, Misconfigured, Unauthorized, Invalid, PublishInline, PublishFails, PublishLater,
         Admitted, Authenticating, Serving
<1> QED
  BY <1>1, <1>2, <1>3, MemoryKept DEF Parts

\* Handling a request, or the end of an awaited publication.
LEMMA HandleStep ==
  ASSUME Parts, SentInv, CacheInv, FlowInv, NEW r \in Requests, Handle(r)
  PROVE  Parts' /\ SentInv' /\ CacheInv' /\ FlowInv'
<1> USE DEF Parts, Accepted
<1>0. restarts \in Nat
  BY IngressAssumption DEF ProcessOK
<1>1. CASE /\ NotFound(r) \/ Misconfigured(r) \/ Unauthorized(r) \/ Invalid(r)
                \/ PublishInline(r) \/ PublishFails(r) \/ PublishLater(r)
  <2>1. /\ at[r] = "reading" /\ Event(r) \in Events
        /\ UNCHANGED <<publisher, now, world, sent, restarts>>
        /\ MemoryOK' /\ CacheInv'
    BY <1>1, LookedUp
  <2>2. WorldOK' /\ ProcessOK'
    BY <2>1 DEF WorldOK, ProcessOK, world
  <2>3. \E to \in Stages \ {"none"} : Answer(r, to)
    BY <1>1 DEF NotFound, Misconfigured, Unauthorized, Invalid, PublishInline, PublishFails,
                PublishLater, Stages, Refused, Echoed
  <2>4. PICK to \in Stages \ {"none"} : Answer(r, to)
    BY <2>3
  <2>5. SentOK'
    BY <2>1, <2>4 DEF SentOK, sent, Answer
  <2>6. SentInv'
    BY <2>1, <2>4 DEF SentInv, SentOK, sent, Answer, Event
  <2>7. PublishedOK' /\ FlowInv'
    <3>1. CASE (NotFound(r) \/ Unauthorized(r) \/ Invalid(r)) /\ UNCHANGED <<seen, queue, bus, lost>>
      <4>1. \E a \in Refused : Answer(r, a)
        BY <3>1 DEF NotFound, Unauthorized, Invalid, Refused
      <4>2. PICK a \in Refused : Answer(r, a)
        BY <4>1
      <4>3. Moves(r, "reading", a)
        BY <2>1, <4>2 DEF Moves, Answer, sent
      <4> QED
        BY <3>1, <4>3, FlowRefused DEF PublishedOK
    <3>2. CASE (Misconfigured(r) \/ PublishFails(r)) /\ UNCHANGED <<seen, queue, bus, lost>>
      <4>1. Moves(r, "reading", "error")
        BY <2>1, <3>2 DEF Moves, Answer, sent, Misconfigured, PublishFails
      <4>2. "error" \in Stages \ Untouched /\ "reading" \in Stages
        BY DEF Stages, Untouched, Refused
      <4> QED
        BY <3>2, <4>1, <4>2, FlowQuiet DEF PublishedOK
    <3>3. CASE PublishInline(r)
      <4>1. /\ Moves(r, "reading", "publishing") /\ publisher = "inline"
            /\ bus' = Append(bus, r) /\ UNCHANGED <<seen, queue, lost>>
        BY <2>1, <3>3 DEF Moves, Answer, sent, PublishInline
      <4>2. FlowInv'
        BY <1>0, <2>1, <4>1, FlowPublished
      <4>3. bus' \in Seq(Requests)
        BY <4>1, AppendProperties DEF PublishedOK
      <4> QED
        BY <4>1, <4>2, <4>3 DEF PublishedOK
    <3>4. CASE PublishLater(r)
      <4>1. /\ Moves(r, "reading", Echoed(r)) /\ publisher = "ack" /\ Echoed(r) \in Accepted
            /\ UNCHANGED <<bus, lost>> /\ seen' = seen \cup {Event(r)}
            /\ queue' = IF Event(r) \in seen THEN queue ELSE Append(queue, r)
        BY <2>1, <3>4 DEF Moves, Answer, sent, PublishLater, Echoed
      <4>2. queue' \in Seq(Requests)
        BY <4>1, AppendProperties DEF PublishedOK
      <4>3. FlowInv'
        <5>1. CASE Event(r) \in seen
          <6>1. seen' = seen /\ queue' = queue /\ Event(r) \in Somewhere
            BY <4>1, <5>1 DEF FlowInv, KeptInv
          <6>2. Echoed(r) \in Stages \ Untouched /\ "reading" \in Stages /\ Echoed(r) # "publishing"
            BY <4>1 DEF Stages, Untouched, Refused
          <6> QED
            BY <4>1, <6>1, <6>2, FlowQuiet
        <5>2. CASE Event(r) \notin seen
          <6>1. Echoed(r) # "publishing"
            BY <4>1
          <6> QED
            BY <1>0, <2>1, <4>1, <5>2, <6>1, FlowPublished
        <5> QED
          BY <5>1, <5>2
      <4> QED
        BY <2>1, <4>1, <4>2, <4>3 DEF PublishedOK
    <3> QED
      BY <1>1, <3>1, <3>2, <3>3, <3>4
         DEF NotFound, Misconfigured, Unauthorized, Invalid, PublishFails, published
  <2> QED
    BY <2>1, <2>2, <2>5, <2>6, <2>7
<1>2. CASE \E a \in Accepted \cup {"error"} : PublishedInline(r, a)
  <2>1. PICK a \in Accepted \cup {"error"} : PublishedInline(r, a)
    BY <1>2
  <2>2. /\ Moves(r, "publishing", a) /\ UNCHANGED <<seen, queue, bus, lost>>
        /\ UNCHANGED <<now, world, memory, sent>>
    BY <2>1 DEF PublishedInline, Moves, Answer, sent, published
  <2>3. Event(r) \in Somewhere
    <3>1. r \in Elements(bus)
      BY <2>2 DEF Moves, FlowInv, KeptInv
    <3> QED
      BY <3>1 DEF Somewhere, OnItsWay
  <2>4. a \in Stages \ Untouched /\ "publishing" \in Stages /\ a # "publishing"
    BY DEF Stages, Untouched, Refused
  <2>5. FlowInv'
    BY <2>2, <2>3, <2>4, FlowQuiet
  <2>6. SentOK' /\ SentInv'
    BY <2>2, <2>4 DEF SentOK, SentInv, sent, Moves, Event
  <2>7. ProcessOK' /\ WorldOK' /\ MemoryOK' /\ PublishedOK' /\ CacheInv'
    BY <2>2 DEF ProcessOK, WorldOK, MemoryOK, PublishedOK, CacheInv, world, memory, Moves
  <2> QED
    BY <2>5, <2>6, <2>7
<1> QED
  BY <1>1, <1>2 DEF Handle

\* A request that comes in.
LEMMA SendStep ==
  ASSUME Parts, SentInv, CacheInv, FlowInv, NEW r \in Requests, NEW e \in Events,
         NEW c \in Contents, NEW key \in Keys \cup {NoKey}, NEW stamp \in Int,
         Send(r, e, c, key, stamp)
  PROVE  Parts' /\ SentInv' /\ CacheInv' /\ FlowInv'
<1> USE DEF Parts
<1>1. FlowInv'
  BY FlowSend DEF Send, published
<1>2. SentOK'
  <2>1. [event |-> e, key |-> key, stamp |-> stamp] \in Deliveries
    BY DEF Deliveries
  <2> QED
    BY <2>1 DEF Send, SentOK, Stages
<1>3. SentInv'
  <2>1. c # Unsent
    BY IngressAssumption DEF Contents
  <2>2. \A f \in Events : content[f] # Unsent => content'[f] # Unsent
    BY <2>1 DEF Send, SentOK
  <2>3. content'[e] # Unsent /\ request'[r].event = e
    BY <2>1 DEF Send, SentOK
  <2>4. \A q \in Requests \ {r} : request'[q] = request[q] /\ at'[q] = at[q]
    BY DEF Send, SentOK
  <2>5. \A q \in Requests : request[q].event \in Events
    BY DEF SentOK, Deliveries
  <2> QED
    BY <2>2, <2>3, <2>4, <2>5 DEF SentInv, Event
<1>4. ProcessOK' /\ WorldOK' /\ MemoryOK' /\ PublishedOK' /\ CacheInv'
  BY DEF Send, ProcessOK, WorldOK, MemoryOK, PublishedOK, CacheInv, world, memory, published
<1> QED
  BY <1>1, <1>2, <1>3, <1>4

\* The dispatcher, the operators, the clock, a restart.
LEMMA OtherStep ==
  ASSUME Parts, SentInv, CacheInv, FlowInv,
         \/ \E reaches \in BOOLEAN : Dispatch(reaches)
         \/ \E p \in Endpoints, row \in Rows : Configure(p, row)
         \/ \E s \in Refs, key \in Keys \cup {NoKey} : Rotate(s, key)
         \/ Restart \/ Tick
  PROVE  Parts' /\ SentInv' /\ CacheInv' /\ FlowInv'
<1> USE DEF Parts
<1>0. {MaxChanges, MaxRestarts, MaxTime} \subseteq Nat
  BY IngressAssumption
<1>1. CASE \E reaches \in BOOLEAN : Dispatch(reaches)
  <2>1. PICK reaches \in BOOLEAN : Dispatch(reaches)
    BY <1>1
  <2>2. FlowInv'
    BY <2>1, FlowDispatch
  <2>3. PublishedOK'
    <3>1. Head(queue) \in Requests /\ Tail(queue) \in Seq(Requests)
      BY <2>1, TailElements DEF Dispatch, PublishedOK
    <3>2. Append(bus, Head(queue)) \in Seq(Requests) /\ Event(Head(queue)) \in Events
      BY <3>1, AppendElements DEF PublishedOK, SentOK, Event, Deliveries
    <3> QED
      BY <2>1, <3>1, <3>2 DEF Dispatch, PublishedOK
  <2>4. ProcessOK' /\ WorldOK' /\ MemoryOK' /\ SentOK' /\ SentInv' /\ CacheInv'
    BY <2>1 DEF Dispatch, ProcessOK, WorldOK, MemoryOK, SentOK, SentInv, CacheInv, world, memory,
                sent, Event
  <2> QED
    BY <2>2, <2>3, <2>4
<1>2. CASE \E p \in Endpoints, row \in Rows : Configure(p, row)
  <2>1. PICK p \in Endpoints, row \in Rows : Configure(p, row)
    BY <1>2
  <2>2. FlowInv'
    BY <2>1, FlowSame DEF Configure, sent, published
  <2>3. WorldOK'
    BY <1>0, <2>1 DEF Configure, WorldOK
  <2>4. CacheInv'
    BY <2>1 DEF Configure, CacheInv, WorldOK, memory
  <2>5. ProcessOK' /\ MemoryOK' /\ SentOK' /\ PublishedOK' /\ SentInv'
    BY <2>1 DEF Configure, ProcessOK, MemoryOK, SentOK, PublishedOK, SentInv, memory, sent,
                published, Event
  <2> QED
    BY <2>2, <2>3, <2>4, <2>5
<1>3. CASE \E s \in Refs, key \in Keys \cup {NoKey} : Rotate(s, key)
  <2>1. PICK s \in Refs, key \in Keys \cup {NoKey} : Rotate(s, key)
    BY <1>3
  <2>2. FlowInv'
    BY <2>1, FlowSame DEF Rotate, sent, published
  <2>3. WorldOK'
    BY <1>0, <2>1 DEF Rotate, WorldOK
  <2>4. CacheInv'
    BY <2>1 DEF Rotate, CacheInv, WorldOK, memory
  <2>5. ProcessOK' /\ MemoryOK' /\ SentOK' /\ PublishedOK' /\ SentInv'
    BY <2>1 DEF Rotate, ProcessOK, MemoryOK, SentOK, PublishedOK, SentInv, memory, sent,
                published, Event
  <2> QED
    BY <2>2, <2>3, <2>4, <2>5
<1>4. CASE Restart
  <2>1. FlowInv'
    BY <1>4, FlowRestart
  <2>2. ProcessOK'
    BY <1>0, <1>4 DEF Restart, ProcessOK
  <2>3. WorldOK' /\ MemoryOK' /\ CacheInv'
    BY <1>4 DEF Restart, WorldOK, MemoryOK, CacheInv
  <2>4. SentOK' /\ SentInv'
    BY <1>4 DEF Restart, SentOK, SentInv, sent, Event, Stages
  <2>5. PublishedOK'
    <3>1. \A r \in Elements(queue) : Event(r) \in Events
      BY ElementsType DEF PublishedOK, SentOK, Event, Deliveries
    <3> QED
      BY <1>4, <3>1, EmptySeq DEF Restart, PublishedOK, Elements
  <2> QED
    BY <2>1, <2>2, <2>3, <2>4, <2>5
<1>5. CASE Tick
  <2>1. FlowInv'
    BY <1>5, FlowSame DEF Tick, sent, published
  <2>2. ProcessOK'
    BY <1>0, <1>5 DEF Tick, ProcessOK
  <2>3. WorldOK' /\ MemoryOK' /\ SentOK' /\ PublishedOK' /\ SentInv' /\ CacheInv'
    BY <1>5 DEF Tick, WorldOK, MemoryOK, SentOK, PublishedOK, SentInv, CacheInv, world, memory, sent,
                published, Event
  <2> QED
    BY <2>1, <2>2, <2>3
<1> QED
  BY <1>1, <1>2, <1>3, <1>4, <1>5

\* The invariant is inductive.
LEMMA StepInv == Inv /\ [Next]_vars => Inv'
<1>0. SUFFICES ASSUME Inv, [Next]_vars PROVE Inv'
  OBVIOUS
<1>1. Parts /\ SentInv /\ CacheInv /\ FlowInv
  BY <1>0, TypeParts DEF Inv
<1>2. Parts' /\ SentInv' /\ CacheInv' /\ FlowInv'
  <2>1. CASE \E r \in Requests, e \in Events, c \in Contents, key \in Keys \cup {NoKey},
               stamp \in 0 .. MaxTime : Send(r, e, c, key, stamp)
    <3>1. 0 .. MaxTime \subseteq Int
      OBVIOUS
    <3> QED
      BY <1>1, <2>1, <3>1, SendStep
  <2>2. CASE \E r \in Requests : Handle(r)
    BY <1>1, <2>2, HandleStep
  <2>3. CASE UNCHANGED vars
    <3>1. FlowInv'
      BY <1>1, <2>3, FlowSame DEF vars
    <3>2. Parts' /\ SentInv' /\ CacheInv'
      BY <1>1, <2>3 DEF vars, Parts, ProcessOK, WorldOK, MemoryOK, SentOK, PublishedOK, SentInv,
                        CacheInv, Event
    <3> QED
      BY <3>1, <3>2
  <2> QED
    BY <1>0, <1>1, <2>1, <2>2, <2>3, OtherStep DEF Next
<1> QED
  BY <1>2, TypeParts DEF Inv

\* Throughout, what the caches hold has been in force, and what has been acknowledged
\* or is remembered is somewhere, once per process.
THEOREM Invariance == Spec => []Inv
BY InitInv, StepInv, PTL DEF Spec

\* Every value stays in its type, whatever is sent, edited or restarted.
THEOREM TypeCorrect == Spec => []TypeOK
<1>1. Inv => TypeOK
  BY DEF Inv
<1> QED
  BY <1>1, Invariance, PTL

\* A 200 stands for a body that is on the bus, or, with the acknowledging publisher,
\* waits for its dispatch or is accounted for as lost; a refusal, for none.
THEOREM AcknowledgedKept == Spec => []AcknowledgedIsKept
<1>1. Inv => AcknowledgedIsKept
  <2> SUFFICES ASSUME Inv PROVE AcknowledgedIsKept
    OBVIOUS
  <2>1. Somewhere = Bodies(bus) \cup Bodies(queue) \cup lost
    BY BodiesOf DEF Somewhere, OnItsWay
  <2>2. \A r \in Requests : at[r] \in Refused => \A i \in DOMAIN bus : bus[i] # r
    BY DEF Inv, FlowInv, OnceInv, OnItsWay, Elements, Untouched
  <2> QED
    BY <2>1, <2>2 DEF Inv, FlowInv, KeptInv, AcknowledgedIsKept
<1> QED
  BY <1>1, Invariance, PTL

\* A request is published once at most, and a body once per process at most, in
\* whatever order it is sent again.
THEOREM DuplicatesBounded == Spec => []DuplicatesTakeARestart
<1>1. Inv => DuplicatesTakeARestart
  <2> SUFFICES ASSUME Inv PROVE DuplicatesTakeARestart
    OBVIOUS
  <2>1. \A i, j \in DOMAIN bus : bus[i] = bus[j] => i = j
    BY DEF Inv, FlowInv, OnceInv, Distinct
  <2>2. ASSUME publisher = "ack", NEW e \in Events
        PROVE  Cardinality(Copies(e)) <= restarts + 1
    <3> DEFINE f == [k \in Copies(e) |-> IF k > 0 THEN bus[k] ELSE queue[-k]]
    <3>1. PublishedOK /\ restarts \in Nat
      BY IngressAssumption DEF Inv, TypeOK, PublishedOK
    <3>2. /\ DOMAIN bus = 1 .. Len(bus) /\ DOMAIN queue = 1 .. Len(queue)
          /\ Len(bus) \in Nat /\ Len(queue) \in Nat
      BY <3>1, LenProperties DEF PublishedOK
    <3>3. ASSUME NEW k \in Copies(e)
          PROVE  \/ k \in DOMAIN bus /\ f[k] = bus[k] /\ Event(bus[k]) = e
                 \/ \E j \in DOMAIN queue : k = -j /\ f[k] = queue[j] /\ Event(queue[j]) = e
      <4>1. CASE k \in DOMAIN bus /\ Event(bus[k]) = e
        <5>1. k > 0
          BY <3>2, <4>1
        <5> QED
          BY <4>1, <5>1
      <4>2. ASSUME NEW j \in DOMAIN queue, k = -j, Event(queue[j]) = e
            PROVE  f[k] = queue[j]
        <5>1. ~(k > 0) /\ -k = j
          BY <3>2, <4>2
        <5> QED
          BY <5>1
      <4>3. \/ k \in DOMAIN bus /\ Event(bus[k]) = e
            \/ \E j \in DOMAIN queue : k = -j /\ Event(queue[j]) = e
        BY DEF Copies
      <4> QED
        BY <4>1, <4>2, <4>3
    <3>4. f \in [Copies(e) -> Copied(e)]
      <4>1. \A k \in Copies(e) : f[k] \in Copied(e)
        BY <3>3 DEF Copied, OnItsWay, Elements
      <4> QED
        BY <4>1
    <3>5. ASSUME NEW k \in Copies(e), NEW m \in Copies(e), f[k] = f[m] PROVE k = m
      <4>1. /\ \A i \in DOMAIN bus, j \in DOMAIN queue : bus[i] # queue[j]
            /\ \A i, j \in DOMAIN queue : queue[i] = queue[j] => i = j
        BY DEF Inv, FlowInv, OnceInv, Distinct, Elements
      <4>2. \/ k \in DOMAIN bus /\ f[k] = bus[k]
            \/ \E j \in DOMAIN queue : k = -j /\ f[k] = queue[j]
        BY <3>3
      <4>3. \/ m \in DOMAIN bus /\ f[m] = bus[m]
            \/ \E j \in DOMAIN queue : m = -j /\ f[m] = queue[j]
        BY <3>3
      <4> HIDE DEF f
      <4> QED
        BY <2>1, <3>5, <4>1, <4>2, <4>3
    <3>6. f \in Injection(Copies(e), Copied(e))
      BY <3>4, <3>5 DEF Injection, IsInjective
    <3>7. IsFiniteSet(Copied(e)) /\ Cardinality(Copied(e)) \in Nat
      BY <3>1, CopiedFinite DEF Copied
    <3> HIDE DEF f
    <3>8. Cardinality(Copies(e)) <= Cardinality(Copied(e)) /\ Cardinality(Copies(e)) \in Nat
      BY <3>6, <3>7, FS_Injection, FS_CardinalityType
    <3>9. Cardinality(Copied(e)) <= restarts + (IF e \in seen THEN 1 ELSE 0)
      BY <2>2 DEF Inv, FlowInv, CountInv
    <3> QED
      BY <3>1, <3>7, <3>8, <3>9
  <2> QED
    BY <2>1, <2>2 DEF DuplicatesTakeARestart
<1> QED
  BY <1>1, Invariance, PTL

-----------------------------------------------------------------------------
(* Answers.                                                                 *)

\* What VerdictsAreJustified says of one request in one step.
Verdict(r) ==
  at[r] = "reading" =>
    /\ at'[r] \in Accepted \cup {"publishing", "invalid"} => AdmittedRightly(r)
    /\ at'[r] = "not-found" => NotFoundRightly(r)
    /\ at'[r] = "unauthorized" => RefusedRightly(r)

\* A request that goes on waiting, or is given up, gets no verdict.
LEMMA NoVerdict ==
  ASSUME NEW r \in Requests, at[r] = "reading" => at'[r] \in {"reading", "error", "dropped"}
  PROVE  Verdict(r)
BY DEF Verdict, Accepted

\* A strategy that could be built goes by an ACTIVE row and a secret that have both
\* been in force.
LEMMA BuiltFrom ==
  ASSUME Parts, SentInv, CacheInv, NEW r \in Requests, Authenticating(r)
  PROVE  LET row == Configured(Endpoint(r)) IN
           /\ row \in ActiveRows(r) /\ Secret(row.ref) \in pastKeys[row.ref]
           /\ Secret(row.ref) # NoKey
<1> DEFINE row == Configured(Endpoint(r))
<1>1. /\ at[r] = "reading" /\ row # NoRow /\ row.status = "ACTIVE"
      /\ row.strategy \in Strategies /\ Secret(row.ref) # NoKey
  BY DEF Authenticating, Serving, Open
<1>2. Endpoint(r) \in Endpoints
  BY <1>1, HandledHasBody DEF Parts
<1>3. row \in Rows /\ row \in pastRows[Endpoint(r)]
  BY <1>1, <1>2, InForce DEF Parts
<1>4. row.ref \in Refs
  BY <1>3, IngressAssumption
<1>5. Secret(row.ref) \in pastKeys[row.ref]
  BY <1>4, InForce DEF Parts
<1> QED
  BY <1>1, <1>3, <1>5 DEF ActiveRows, Known

\* Whatever is answered to a request that is handled is answered rightly.
LEMMA HandleVerdict ==
  ASSUME Parts, SentInv, CacheInv, NEW r \in Requests, Handle(r)
  PROVE  Verdict(r)
<1>0. at \in [Requests -> Stages]
  BY DEF Parts, SentOK
<1>1. CASE NotFound(r)
  <2>1. at'[r] = "not-found" /\ at[r] = "reading" /\ ~Open(Endpoint(r))
    BY <1>0, <1>1 DEF NotFound, Answer
  <2>2. Endpoint(r) \in Endpoints
    BY <2>1, HandledHasBody DEF Parts
  <2>3. CASE Configured(Endpoint(r)) = NoRow
    BY <2>1, <2>2, <2>3, InForce DEF Parts, Verdict, NotFoundRightly, Accepted
  <2>4. CASE Configured(Endpoint(r)) # NoRow
    <3>1. Configured(Endpoint(r)) \in Rows /\ Configured(Endpoint(r)) \in pastRows[Endpoint(r)]
      BY <2>2, <2>4, InForce DEF Parts
    <3>2. Configured(Endpoint(r)).status = "INACTIVE"
      BY <2>1, <2>4, <3>1, IngressAssumption DEF Open
    <3>3. Configured(Endpoint(r)) \in Known(r)
      BY <2>4, <3>1 DEF Known
    <3> QED
      BY <2>1, <3>2, <3>3 DEF Verdict, NotFoundRightly, Accepted
  <2> QED
    BY <2>3, <2>4
<1>2. CASE Misconfigured(r) \/ PublishFails(r)
  BY <1>0, <1>2, NoVerdict DEF Misconfigured, PublishFails, Answer
<1>3. CASE Unauthorized(r)
  <2> DEFINE row == Configured(Endpoint(r))
  <2>1. at'[r] = "unauthorized" /\ Authenticating(r) /\ ~Authentic(r, row)
    BY <1>0, <1>3 DEF Unauthorized, Answer
  <2>2. row \in ActiveRows(r) /\ Secret(row.ref) \in pastKeys[row.ref] /\ Secret(row.ref) # NoKey
    BY <2>1, BuiltFrom
  <2>3. ~SignedFor(r, row, Secret(row.ref))
    BY <2>1, <2>2 DEF Authentic, Signed, SignedFor
  <2> HIDE DEF row
  <2>4. RefusedRightly(r)
    BY <2>2, <2>3 DEF RefusedRightly
  <2> QED
    BY <2>1, <2>4 DEF Verdict, Accepted
<1>4. CASE Invalid(r) \/ PublishInline(r) \/ PublishLater(r)
  <2> DEFINE row == Configured(Endpoint(r))
  <2>1. Authenticating(r) /\ Authentic(r, row)
    BY <1>4 DEF Invalid, PublishInline, PublishLater, Admitted
  <2>2. row \in ActiveRows(r) /\ Secret(row.ref) \in pastKeys[row.ref] /\ Secret(row.ref) # NoKey
    BY <2>1, BuiltFrom
  <2>3. SignedFor(r, row, Secret(row.ref))
    BY <2>1, <2>2 DEF Authentic, Signed, SignedFor
  <2> HIDE DEF row
  <2>4. AdmittedRightly(r)
    BY <2>2, <2>3 DEF AdmittedRightly
  <2>5. at'[r] \in Accepted \cup {"publishing", "invalid"}
    BY <1>0, <1>4 DEF Invalid, PublishInline, PublishLater, Answer, Echoed, Accepted
  <2> QED
    BY <2>4, <2>5 DEF Verdict, Accepted
<1>5. CASE \E a \in Accepted \cup {"error"} : PublishedInline(r, a)
  BY <1>5 DEF PublishedInline, Verdict
<1> QED
  BY <1>1, <1>2, <1>3, <1>4, <1>5 DEF Handle

\* Every answer goes by a row and a secret that were in force at some time since the
\* process started, whatever was edited, rotated or restarted meanwhile.
THEOREM AnswersJustified == Spec => VerdictsAreJustified
<1>1. ASSUME Inv, Next, NEW r \in Requests PROVE Verdict(r)
  <2>1. Parts /\ SentInv /\ CacheInv /\ at \in [Requests -> Stages]
    BY <1>1, TypeParts DEF Inv, Parts, SentOK
  <2>2. CASE \E q \in Requests : Handle(q)
    <3>1. PICK q \in Requests : Handle(q)
      BY <2>2
    <3>2. CASE q = r
      BY <2>1, <3>1, <3>2, HandleVerdict
    <3>3. CASE q # r
      <4>1. at'[r] = at[r]
        BY <2>1, <3>1, <3>3 DEF Handle, NotFound, Misconfigured, Unauthorized, Invalid, PublishInline,
                                PublishFails, PublishLater, PublishedInline, Answer
      <4> QED
        BY <4>1, NoVerdict
    <3> QED
      BY <3>2, <3>3
  <2>3. CASE ~\E q \in Requests : Handle(q)
    <3>1. at[r] = "reading" => at'[r] \in {"reading", "dropped"}
      BY <1>1, <2>1, <2>3 DEF Next, Send, Dispatch, Configure, Rotate, Restart, Tick
    <3> QED
      BY <3>1, NoVerdict
  <2> QED
    BY <2>2, <2>3
<1>2. Inv /\ [Next]_vars => [\A r \in Requests : Verdict(r)]_vars
  BY <1>1
<1>3. Inv /\ [Next]_vars =>
        [ \A r \in Requests : at[r] = "reading" =>
            /\ at'[r] \in Accepted \cup {"publishing", "invalid"} => AdmittedRightly(r)
            /\ at'[r] = "not-found" => NotFoundRightly(r)
            /\ at'[r] = "unauthorized" => RefusedRightly(r) ]_vars
  BY <1>2 DEF Verdict
<1> QED
  BY <1>3, Invariance, PTL DEF Spec, VerdictsAreJustified
===============================================================================
