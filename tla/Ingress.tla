------------------------------- MODULE Ingress -------------------------------
(***************************************************************************)
(* The external-events webhook: WebhookIngressEndpoint over the endpoint   *)
(* resolver, the authentication strategies and a publisher, inside the     *)
(* ChallengeEchoMiddleware.  Requests overlap: one gives the event loop up *)
(* while its body comes in and while its publication is awaited, and what  *)
(* lies between is one step.  Operators edit the endpoint table and the    *)
(* secrets file meanwhile, the process restarts, providers send again.     *)
(***************************************************************************)
EXTENDS Integers, Sequences, FiniteSets

CONSTANTS
  Endpoints,     \* endpoint ids
  Rows,          \* rows of operational.endpoint_configs that operators write
  NoRow,         \* the endpoint is not configured
  Refs, Keys,    \* secret references and signing secrets
  NoKey,         \* no such secret; a delivery whose signature fits no secret
  Unsent,        \* a body nobody has sent yet
  Publishers,    \* which publishers to look at
  Window,        \* _MAX_AGE_SECONDS
  MaxEvents,     \* bound: different bodies
  MaxRequests,   \* bound: requests, redeliveries included
  MaxChanges,    \* bound: edits by operators
  MaxRestarts,   \* bound: restarts of the process
  MaxTime        \* bound: ticks of the clock

Strategies == {"slack_signature", "github_hmac"}
Publications == {"inline", "ack"}

ASSUME IngressAssumption ==
  /\ \A row \in Rows :
       /\ row.status \in {"ACTIVE", "INACTIVE"} /\ row.ref \in Refs
       /\ {"provider", "strategy"} \subseteq DOMAIN row
  /\ NoRow \notin Rows /\ NoKey \notin Keys
  /\ Unsent \notin [endpoint : Endpoints, kind : {"json", "handshake", "malformed", "oversized"}]
  /\ Publishers \subseteq Publications
  /\ {Window, MaxEvents, MaxRequests, MaxChanges, MaxRestarts, MaxTime} \subseteq Nat
  /\ MaxEvents > 0

VARIABLES
  publisher,   \* ExternalEventPublisher ("inline") or AckThenProcessPublisher ("ack")
  now,         \* the clock
  table,       \* the endpoint table
  secrets,     \* the secrets file
  cache,       \* EndpointConfigResolver._cache
  loaded,      \* LocalSecretProvider._cache, one entry per reference
  read,        \* that cache has been filled
  content,     \* what each body is and for whom
  request,     \* the requests
  at,          \* where each request is, in the end its answer
  seen,        \* AckThenProcessPublisher._seen
  queue,       \* its dispatches that have not been made
  bus,         \* requests published, in order
  lost,        \* bodies whose publication failed after they were acknowledged
  changes, restarts,
  pastRows,    \* history: the rows an endpoint has had since the process started
  pastKeys     \* history: the values a secret has had since then

vars == <<publisher, now, table, secrets, cache, loaded, read, content, request, at, seen,
          queue, bus, lost, changes, restarts, pastRows, pastKeys>>
world == <<table, secrets, changes, pastRows, pastKeys>>
memory == <<cache, loaded, read>>
sent == <<content, request>>
published == <<queue, bus, lost>>

-----------------------------------------------------------------------------
Events == 1 .. MaxEvents
Requests == 1 .. MaxRequests

\* malformed: neither a JSON object nor a form with one under "payload".
Contents == [endpoint : Endpoints, kind : {"json", "handshake", "malformed", "oversized"}]

\* key: the secret the signature was made with; stamp: the signed timestamp.
Deliveries == [event : Events, key : Keys \cup {NoKey}, stamp : Int]
NoDelivery == [event |-> 1, key |-> NoKey, stamp |-> 0]

Accepted == {"ok", "challenge"}
Refused == {"not-found", "unauthorized", "invalid"}
Stages == {"none", "reading", "publishing", "error", "dropped"} \cup Accepted \cup Refused

TypeOK ==
  /\ publisher \in Publishers /\ now \in 0 .. MaxTime
  /\ table \in [Endpoints -> Rows \cup {NoRow}]
  /\ cache \in [Endpoints -> Rows \cup {NoRow}]
  /\ secrets \in [Refs -> Keys \cup {NoKey}] /\ loaded \in [Refs -> Keys \cup {NoKey}]
  /\ read \in BOOLEAN
  /\ content \in [Events -> Contents \cup {Unsent}]
  /\ request \in [Requests -> Deliveries]
  /\ at \in [Requests -> Stages]
  /\ seen \subseteq Events /\ lost \subseteq Events
  /\ queue \in Seq(Requests) /\ bus \in Seq(Requests)
  /\ changes \in 0 .. MaxChanges /\ restarts \in 0 .. MaxRestarts
  /\ pastRows \in [Endpoints -> SUBSET (Rows \cup {NoRow})]
  /\ pastKeys \in [Refs -> SUBSET (Keys \cup {NoKey})]

Init ==
  /\ publisher \in Publishers /\ now = 0
  /\ table \in [Endpoints -> Rows \cup {NoRow}]
  /\ secrets \in [Refs -> Keys \cup {NoKey}]
  /\ cache = [p \in Endpoints |-> NoRow]
  /\ loaded = [s \in Refs |-> NoKey] /\ read = FALSE
  /\ content = [e \in Events |-> Unsent]
  /\ request = [r \in Requests |-> NoDelivery] /\ at = [r \in Requests |-> "none"]
  /\ seen = {} /\ lost = {} /\ queue = <<>> /\ bus = <<>>
  /\ changes = 0 /\ restarts = 0
  /\ pastRows = [p \in Endpoints |-> {table[p]}]
  /\ pastKeys = [s \in Refs |-> {secrets[s]}]

Event(r) == request[r].event
Endpoint(r) == content[Event(r)].endpoint
Kind(r) == content[Event(r)].kind

-----------------------------------------------------------------------------
(* Providers                                                                *)

\* A provider, or somebody else, POSTs body e; the same body may come again,
\* signed anew.
Send(r, e, c, key, stamp) ==
  /\ at[r] = "none" /\ \A q \in 1 .. r - 1 : at[q] # "none"
  /\ content[e] \in {Unsent, c} /\ \A f \in 1 .. e - 1 : content[f] # Unsent
  /\ content' = [content EXCEPT ![e] = c]
  /\ request' = [request EXCEPT ![r] = [event |-> e, key |-> key, stamp |-> stamp]]
  /\ at' = [at EXCEPT ![r] = "reading"]
  /\ UNCHANGED <<publisher, now, world, memory, seen, published, restarts>>

-----------------------------------------------------------------------------
(* WebhookIngressEndpoint._handle_delivery, once the body is read           *)

\* Fault: that there is no row is remembered too, as an INACTIVE one.
ConfiguredMissing(p) ==
  IF cache[p] # NoRow THEN cache[p]
  ELSE IF table[p] # NoRow THEN table[p]
  ELSE CHOOSE row \in Rows : row.status = "INACTIVE"

\* EndpointConfigResolver.resolve: a row found is kept, a miss is not.
Configured(p) == IF cache[p] # NoRow THEN cache[p] ELSE table[p]

\* LocalSecretProvider.resolve: the file is read once.
Secret(s) == IF read THEN loaded[s] ELSE secrets[s]

Fresh(r) == now - request[r].stamp \in -Window .. Window

\* _read_body keeps 1 MiB; the signature is made over the whole body.
Whole(r) == Kind(r) # "oversized"

\* GitHubHmacStrategy.authenticate.
Signed(r, row) == request[r].key = Secret(row.ref) /\ Whole(r)

\* SlackSignatureStrategy.authenticate judges the timestamp too.
Authentic(r, row) ==
  /\ row.strategy = "slack_signature" => Fresh(r)
  /\ Signed(r, row)

\* What one delivery leaves in the caches.
Remember(p) == cache' = [cache EXCEPT ![p] = Configured(p)]
ReadSecrets ==
  /\ loaded' = [s \in Refs |-> Secret(s)]
  /\ read' = TRUE

Answer(r, a) == at' = [at EXCEPT ![r] = a]

\* An endpoint without a row and one that is not ACTIVE look the same.
Open(p) == Configured(p) # NoRow /\ Configured(p).status = "ACTIVE"

NotFound(r) ==
  /\ at[r] = "reading"
  /\ ~Open(Endpoint(r))
  /\ Remember(Endpoint(r))
  /\ Answer(r, "not-found")
  /\ UNCHANGED <<publisher, now, world, loaded, read, sent, seen, published, restarts>>

Serving(r) ==
  /\ at[r] = "reading"
  /\ Open(Endpoint(r))
  /\ Remember(Endpoint(r))

\* build_authentication_strategy raises: the strategy is unknown, or the secret
\* cannot be resolved.
Misconfigured(r) ==
  /\ Serving(r)
  /\ LET row == Configured(Endpoint(r)) IN
       IF row.strategy \in Strategies
       THEN Secret(row.ref) = NoKey /\ ReadSecrets
       ELSE UNCHANGED <<loaded, read>>
  /\ Answer(r, "error")
  /\ UNCHANGED <<publisher, now, world, sent, seen, published, restarts>>

\* The strategy can be built.
Authenticating(r) ==
  /\ Serving(r)
  /\ LET row == Configured(Endpoint(r)) IN row.strategy \in Strategies /\ Secret(row.ref) # NoKey
  /\ ReadSecrets

Unauthorized(r) ==
  /\ Authenticating(r)
  /\ ~Authentic(r, Configured(Endpoint(r)))
  /\ Answer(r, "unauthorized")
  /\ UNCHANGED <<publisher, now, world, sent, seen, published, restarts>>

Invalid(r) ==
  /\ Authenticating(r)
  /\ Authentic(r, Configured(Endpoint(r)))
  /\ Kind(r) = "malformed"
  /\ Answer(r, "invalid")
  /\ UNCHANGED <<publisher, now, world, sent, seen, published, restarts>>

Admitted(r) ==
  /\ Authenticating(r)
  /\ Authentic(r, Configured(Endpoint(r)))
  /\ Kind(r) # "malformed"
  /\ UNCHANGED <<publisher, now, world, sent, restarts>>

\* ChallengeEchoMiddleware: a 200 is held until the endpoint is done, and becomes
\* the challenge if the body is a handshake.
Echoed(r) == IF Kind(r) = "handshake" THEN "challenge" ELSE "ok"

\* Fault: answered before the bus has it.
PublishAfterwards(r) ==
  /\ publisher = "inline" /\ Admitted(r)
  /\ Answer(r, Echoed(r))
  /\ UNCHANGED <<seen, published>>

\* ExternalEventPublisher.publish awaits the bus, which has the message before
\* its consumers run.
PublishInline(r) ==
  /\ publisher = "inline" /\ Admitted(r)
  /\ bus' = Append(bus, r)
  /\ Answer(r, "publishing")
  /\ UNCHANGED <<seen, queue, lost>>

\* The bus, or a consumer on it, raises: so does the endpoint.
PublishFails(r) ==
  /\ publisher = "inline" /\ Admitted(r)
  /\ Answer(r, "error")
  /\ UNCHANGED <<seen, published>>

PublishedInline(r, a) ==
  /\ at[r] = "publishing" /\ a \in {Echoed(r), "error"}
  /\ Answer(r, a)
  /\ UNCHANGED <<publisher, now, world, memory, sent, seen, published, restarts>>

\* Fault: no body is remembered.
PublishUnseen(r) ==
  /\ publisher = "ack" /\ Admitted(r)
  /\ queue' = Append(queue, r)
  /\ Answer(r, Echoed(r))
  /\ UNCHANGED <<seen, bus, lost>>

\* AckThenProcessPublisher.publish: a body seen before is dropped, and answered
\* like the others.
PublishLater(r) ==
  /\ publisher = "ack" /\ Admitted(r)
  /\ seen' = seen \cup {Event(r)}
  /\ queue' = IF Event(r) \in seen THEN queue ELSE Append(queue, r)
  /\ Answer(r, Echoed(r))
  /\ UNCHANGED <<bus, lost>>

\* AckThenProcessPublisher._dispatch: a failure is only logged.
Dispatch(reaches) ==
  /\ queue # <<>>
  /\ queue' = Tail(queue)
  /\ bus' = IF reaches THEN Append(bus, Head(queue)) ELSE bus
  /\ lost' = IF reaches THEN lost ELSE lost \cup {Event(Head(queue))}
  /\ UNCHANGED <<publisher, now, world, memory, sent, at, seen, restarts>>

-----------------------------------------------------------------------------
(* Operators, restarts, time                                                *)

Configure(p, row) ==
  /\ changes < MaxChanges /\ changes' = changes + 1
  /\ table' = [table EXCEPT ![p] = row]
  /\ pastRows' = [pastRows EXCEPT ![p] = @ \cup {row}]
  /\ UNCHANGED <<publisher, now, secrets, pastKeys, memory, sent, at, seen, published, restarts>>

Rotate(s, key) ==
  /\ changes < MaxChanges /\ changes' = changes + 1
  /\ secrets' = [secrets EXCEPT ![s] = key]
  /\ pastKeys' = [pastKeys EXCEPT ![s] = @ \cup {key}]
  /\ UNCHANGED <<publisher, now, table, pastRows, memory, sent, at, seen, published, restarts>>

\* Requests in progress lose their connection; caches, _seen and the dispatches
\* not made are gone.
Restart ==
  /\ restarts < MaxRestarts /\ restarts' = restarts + 1
  /\ cache' = [p \in Endpoints |-> NoRow]
  /\ loaded' = [s \in Refs |-> NoKey] /\ read' = FALSE
  /\ at' = [r \in Requests |-> IF at[r] \in {"reading", "publishing"} THEN "dropped" ELSE at[r]]
  /\ seen' = {} /\ queue' = <<>>
  /\ lost' = lost \cup {Event(queue[i]) : i \in DOMAIN queue}
  /\ pastRows' = [p \in Endpoints |-> {table[p]}]
  /\ pastKeys' = [s \in Refs |-> {secrets[s]}]
  /\ UNCHANGED <<publisher, now, table, secrets, changes, sent, bus>>

Tick ==
  /\ now < MaxTime /\ now' = now + 1
  /\ UNCHANGED <<publisher, world, memory, sent, at, seen, published, restarts>>

Handle(r) ==
  \/ NotFound(r) \/ Misconfigured(r) \/ Unauthorized(r) \/ Invalid(r)
  \/ PublishInline(r) \/ PublishFails(r) \/ PublishLater(r)
  \/ \E a \in Accepted \cup {"error"} : PublishedInline(r, a)

Next ==
  \/ \E r \in Requests, e \in Events, c \in Contents, key \in Keys \cup {NoKey},
       stamp \in 0 .. MaxTime : Send(r, e, c, key, stamp)
  \/ \E r \in Requests : Handle(r)
  \/ \E reaches \in BOOLEAN : Dispatch(reaches)
  \/ \E p \in Endpoints, row \in Rows : Configure(p, row)
  \/ \E s \in Refs, key \in Keys \cup {NoKey} : Rotate(s, key)
  \/ Restart
  \/ Tick

Spec == Init /\ [][Next]_vars

-----------------------------------------------------------------------------
(* Properties                                                               *)

\* Whatever the caches hold, an answer goes by a row and a secret that were in
\* force at some time since the process started: a request gets in only signed
\* with such a secret, of an ACTIVE row, and (Slack) while fresh; it is not found
\* only if the endpoint has no row at this moment or had an INACTIVE one, and
\* unauthorized only if some such row and secret refuse it.
\* About: EndpointConfigResolver.resolve, LocalSecretProvider and the strategies,
\* across edits and restarts.
SignedFor(r, row, key) ==
  /\ key # NoKey /\ request[r].key = key /\ Whole(r)
  /\ row.strategy = "slack_signature" => Fresh(r)

Known(r) == pastRows[Endpoint(r)] \ {NoRow}
ActiveRows(r) == {row \in Known(r) : row.status = "ACTIVE" /\ row.strategy \in Strategies}

AdmittedRightly(r) ==
  \E row \in ActiveRows(r) : \E key \in pastKeys[row.ref] : SignedFor(r, row, key)
NotFoundRightly(r) == table[Endpoint(r)] = NoRow \/ \E row \in Known(r) : row.status = "INACTIVE"
RefusedRightly(r) ==
  \E row \in ActiveRows(r) : \E key \in pastKeys[row.ref] : key # NoKey /\ ~SignedFor(r, row, key)

VerdictsAreJustified ==
  [][ \A r \in Requests : at[r] = "reading" =>
        /\ at'[r] \in Accepted \cup {"publishing", "invalid"} => AdmittedRightly(r)
        /\ at'[r] = "not-found" => NotFoundRightly(r)
        /\ at'[r] = "unauthorized" => RefusedRightly(r) ]_vars

\* A 200, the challenge's included, is only ever sent for a body that is on the
\* bus; with the acknowledging publisher, for one that is on the bus, waits for
\* its dispatch, or was lost after the answer.  A refused request is on neither.
\* About: webhook.py's order of publication and answer, ChallengeEchoMiddleware's
\* held 200, and what AckThenProcessPublisher gives up.
Bodies(s) == {Event(s[i]) : i \in DOMAIN s}

AcknowledgedIsKept ==
  /\ publisher = "inline" => lost = {} /\ queue = <<>>
  /\ \A r \in Requests :
       /\ at[r] \in Accepted => Event(r) \in Bodies(bus) \cup Bodies(queue) \cup lost
       /\ at[r] \in Refused => \A i \in DOMAIN bus : bus[i] # r

\* No request is published twice, and with the acknowledging publisher no body is,
\* except by a process started since.
\* About: AckThenProcessPublisher's _seen, against redeliveries in any order.
Copies(e) == {i \in DOMAIN bus : Event(bus[i]) = e} \cup {-i : i \in {j \in DOMAIN queue : Event(queue[j]) = e}}

DuplicatesTakeARestart ==
  /\ \A i, j \in DOMAIN bus : bus[i] = bus[j] => i = j
  /\ publisher = "ack" => \A e \in Events : Cardinality(Copies(e)) <= restarts + 1
=============================================================================
