# EcoaNetwork: TLA+ models and proofs

This directory specifies the parts of EcoaNetwork that run today: the node
(`src/node`, Go), the gateway (`src/backend`, Python) and the web client
(`src/frontend`, TypeScript), with the properties that make them correct, TLC
runs on small instances and TLAPS proofs for any instance. Every definition is
read off the source; `PROJECT.json` names the lines of each.

## 1. The system

A client posts a signed event to the gateway over HTTP. The gateway checks its
size and that it is JSON and hands the bytes to a node over gRPC, to the next
one when the first does not answer. The node stores it in a bbolt file under
the id it claims, answers, and gossips it to the other nodes, which store it
the same way. Beside that the gateway keeps accounts: half of each is in a
Cognito user pool, half (the handle) in a Postgres table. A browser carries a
session of the pool as two cookies. The web client is a page that presents the
network and five identity screens; it calls no backend yet.

| component | state | operations | what is hard |
|---|---|---|---|
| Node event log (`store/`) | one bucket, id -> envelope, on disk | `AddEvent` in one transaction | callers racing for an id, crash, disk failure |
| Node (`node/`, `cmd/`) | process life, context | `Handle`, `Run`, `Publish`, start, interrupt, drain | shutdown beside calls and goroutines |
| Peer (`p2p/`) | connections, what Gossipsub knows of peers, subscription buffer | `WaitForPeers`, `Publish`, `ReceiveEvent` | a mesh that is not there yet or no more, lost and duplicate messages |
| gRPC door (`server/`) | calls in progress, one goroutine per accepted event | `Publish`, graceful stop | answer first, gossip later, nothing remembered across a crash |
| Gateway event endpoint (`routers/events.py`, `dependencies/events.py`, `services/events.py`) | requests in progress | `read_envelope`, `publish` | limits of two programs that must agree |
| Node client (`clients/node.py`) | the list of nodes | `publish` | deadlines, fallback, calls that outlive their deadline |
| Account service (`services/auth.py`, `routers/auth.py`) | none of its own | register, login, me, create_profile, delete_account, verify, reset_password, logout, refresh | each is a series of calls on two systems with other requests in between |
| Users table (`storage/`, `clients/database.py`, `models/`) | rows with unique sub and handle | find, insert, delete, each a transaction | commits refused or unheard |
| Identity provider client (`clients/cognito.py`, `clients/tokens.py`) | none | sign_up, sign_in, get_user, delete_user, ... | an access token is checked locally for signature and expiry only |
| Sessions and cookies (`utils/cookies.py`) | the browser's two cookies, which age apart | set, clear; login, refresh, logout, delete_account | requests that overlap, answers late or lost |
| Lifecycle, health, errors, CORS, configuration | settings | start, stop | nothing a request changes |
| Email control (`components/ui/EmailField.tsx`) | highlight, dismissed, the list that fades out | type, arrows, Enter, Escape, hover, click, blur | a highlight kept beside a list computed anew |
| Identity screens (`app/auth`, `router.tsx`) | what is typed, errors, confirmations, the tab's history | submit, links, back, forward, reload | screens that stay or go, state in the history |
| Top bar and landing page (`site/`) | surface and section of the bar, menu, step of the diagram, drawer, questions | scroll, resize, links, frames | looks at the page one frame late |
| Decorative drawings (`motifs/`, `components/ecoa`) | animations from constants | none | nothing depends on them |
| Protocol, fixtures, schemas, indexer | - | documents and test data without an implementation | - |
| Infrastructure (`src/infra`) | - | declarations | - |

The hazards, each at its line and with the property that covers it, are listed
in `PROJECT.json`.

## 2. The modules

| module | what it is |
|---|---|
| `EventLog` | the abstract specification of the network: write-once logs, and answers in keeping with them |
| `EventNode` | the node processes in detail; implements `EventLog` |
| `Gateway` | the event endpoint and node client on top of `EventLog`; to its clients it is an `EventLog` again |
| `Registry` | the abstract specification of accounts: one to an email and a handle, and lost only to their owners' password |
| `Accounts` | the account service over pool and table; implements `Registry` |
| `Sessions` | one browser's jar, its requests and the pool's sessions |
| `EmailField` | the email control, extended by the screens that show it |
| `WebAuth` | the identity screens in one tab's history, over `EmailField` |
| `Landing` | the landing page and the bar over it |
| `MC*` | values of the constants for TLC |
| `*Proofs` | the theorems |

`Gateway` does not compose with `EventNode` but with `EventLog`, so what it
relies on is just what `EventNode` is shown to implement. In both the nodes'
variables `submitted`, `log` and `answers` are those of `EventLog`, so the
refinement mapping is the identity on them and forgets the rest. A second
mapping (`ClientsSeeTheLog`) takes what the clients of the gateway were `told`
for the answers: lost calls, late nodes and fallbacks disappear.

`Registry` has no request, call, session or row: `accounts` says which account
exists under which email, `profiles` who has which handle, `vouched` whose
password was given to delete the account, `told` what clients were answered.
Every action is one step of an owner's view. `Accounts` defines the four from
its own variables, and `ImplementsRegistry` is the refinement under that mapping.

### EventNode

- A process is `down`, `up`, `stopping` (interrupted, `Run` not returned) or
  `draining` (`GracefulStop`). `Exit` needs the calls in progress to end and not
  the goroutines, as `main`'s deferred calls are ordered. `Crash` and `Exit`
  share `Ends`: all but `log` goes.
- `server.Publish` is three steps: `Arrive`, `ServerHandle` (the transaction),
  `ServerAnswer` (start the goroutine, answer). `Run` is one step per message.
- The goroutine of an accepted event goes through `WaitForPeers`: `polling`
  until a peer is listed, `heartbeat` until the next heartbeat, then
  `GossipPublish`. The list is not read again after the heartbeat, as in the
  code. `-publish` starts one without storing.
- Gossipsub and libp2p are external and modelled as they are used: no
  validator, relay on first arrival, duplicates ignored, a message dropped when
  the subscription is full, no redial.
- `Heartbeat` is both Gossipsub's heartbeat, which grafts the listed peers, and
  the end of the timer of `gossip.go:82`, which waits as long as one. In the code
  they are apart and the timer may be the first by a little; that one case, where
  the publish finds no mesh, is left out of the order but not of the outcomes: a
  publish that finds nobody happens here when the peer has left. No safety
  property depends on the order, `AcceptedSpreads` does.
- History: `born` is the life in which an entry was stored, `published` counts the
  calls of `topic.Publish` a node made for its gRPC clients, by id and over all its
  lives, and `dropped` holds what a process received and did not get to handle (a
  full subscription) or could not store (a transaction that failed).
- `GossipedOnce` is about that count. A message has its envelope, origin, life
  and door for identity, so two publications of the same bytes in one life are
  one message on the wire; the counter tells them apart.
- `RelayedIsStored` relates what Gossipsub has `seen` to the log. Gossipsub passes
  a message on before `Run` handles it, and `-publish` puts one on the topic that
  the node has not stored: its own copy comes back by its own subscription.

### Gateway

- A request is `idle`, `reading`, `calling`, `awaiting` a call, `answered`.
  `rpcs` holds the calls the nodes may still act on; `DeadlineExceeded` moves the
  request on and leaves the call, which the node may handle later.
- The protobuf size of the message is computed (`MessageSize`), since the two
  ceilings count different things.
- `told` pairs what a client was answered with the node that was asked last
  (`AnsweredBy`). `AwaitedAnyNode`, the mutant that takes a late answer of an
  earlier node for that of the present one, is what both of its properties rule out.

### Accounts

- `step[r]` names the call request r makes next and `req[r]` the handler's
  locals; every call to the pool or table is one action, so any number of other
  requests fit between two calls. `me` makes its two calls in either order, as
  `asyncio.gather` does.
- Each call may be refused, may take effect unheard, or the gateway may crash
  before it (`Faults`). "Unheard" includes the answer to boto's own retry.
- The pool's accounts and sessions are external. A token `Verified` locally may
  no longer be `Accepted` by the pool.

### Sessions

- The jar is `access` and `refresh` with the age of each; `Tick` is a unit of
  `max_age` and drops what has expired. A request carries the jar of the moment
  it is sent; its handler's calls on the pool are one action each and may be
  refused or unheard. `Receive` applies the answer to the jar as it is *then*,
  `GiveUp` never applies it.
- `overlapped` is history: the browser once sent a request before the answer to
  another. Several properties are about browsers that wait; with overlaps they
  do not hold, and the code does not prevent it.

### EmailField and WebAuth

- An address is the sequence of parts that `split('@')` makes. `suggest` offers
  indices of `DOMAINS`; `Fits`, the limit and the order are those of the code.
- A list that closes fades out and its buttons still work (`Listed`,
  `leaving`), unless motion is reduced; a click then completes the address the
  list was for.
- `history` and `at` are the tab's session history. A plain link loads another
  document (`doc`), a router's link pushes; `Go` keeps a screen whose path and
  document stay the same and mounts it anew otherwise.
- Enter in the control is one action, `EnterInEmail`: `Accept` while a suggestion
  is highlighted, and else the browser's submission of the form. A form is also
  submitted from its button or by Enter in another control (`Submit`).
- `pointed` is history: the suggestion of the open list that an arrow or the
  pointer was last moved to, none once the list was closed or is a new one. The
  code keeps only the number `active`, which outlives a list that Escape or a
  blur closes and which hovering over a list that fades out moves. `enter` is
  history as well: what was pointed at when Enter was pressed in the last step,
  and whether the key went on to the form. `EnterServesOne` compares them.

### Landing

- The page is a column; `Top[w]` gives where each block starts in the wide and
  the narrow layout, `pos` how far it is scrolled. An open answer pushes down
  what follows. `BlockAt` lists what `querySelectorAll('section, footer')`
  finds, the review card's own footer included.
- Events and frames are apart: `MoveTo` raises `moved`, `Hear` asks for the
  frames, `Update` and `Measure` run in one. So the page may change again
  between any two of them, as it may in a browser.
- `canStick` lags behind `wide` until `Notice`; media queries are evaluated
  before the callbacks of a frame (`Drawing`).
- `reached` is set only while the list is beside the diagram, as in
  `HowItWorks.tsx:40`.

## 3. What the runs check

| run | bounds | what it shows |
|---|---|---|
| `node_core` | 2 nodes, 2 callers, 2 envelopes claiming one id | one caller at most is told ACCEPTED, `EventLog` is implemented |
| `node_faults` | 2 nodes with 2 lives each, 1 envelope, crashes, disk failures, link losses | answers and entries survive restarts unchanged, what is stored in this life is on its way, an id is published once for clients through resubmissions and restarts |
| `node_relays` | 3 nodes in any topology, the `-publish` door of up to 2 of them, an envelope without id, a subscription of 1 | what was passed on or published unstored ends in the node's own log |
| `node_alive` | 2 nodes, interrupts | accepted events spread, interrupted processes exit |
| `gateway_core` | 2 requests, 2 nodes, 4 envelopes | success is true, sizes fit, two clients told accepted for one id were served by different nodes, to the clients the gateway is an `EventLog`, every request is answered |
| `accounts_core` | 3 requests, 2 accounts, one with a handle, 1 email, 1 handle, 2 passwords, calls unheard | only the own account is deleted, the profile goes before the account, `Registry` is implemented |
| `accounts_faults` | 3 requests, 2 accounts, one without a handle, 2 emails, 2 handles, all faults | handles stay, create_profile answers with the row it inserted unless the account is being deleted |
| `sessions_core` | 3 requests, 2 accounts, 1 earlier session, cookies of age 2 | a refresh token has its access token, a renewal keeps its account, a browser that waits has one session, stays signed out, drops only what is ended |
| `web_auth` | 3 history entries, 3 typed addresses, 3 domains of which 2 are offered, passwords of 0, 7 and 8 characters | the highlight is in the list, confirmations are true, one Enter serves the list or the form as was meant |
| `landing_core` | 10 sections and a footer of one unit (one of 3, one of 2 more), 2 layouts, 1 question | the bar at rest is right, is of one section, and never stops looking |

The bounds are the smallest in which the cases meet. Two envelopes on one id
make duplicates and divergence; two callers and a `Run` loop make three writers
of one key; two lives make a restart; a third node makes a relay; a subscription
buffer of one makes it overflow. Two gateway requests are a client and its
retry, two nodes a primary and a fallback. Three account requests are a
deletion, a second deletion that frees the email and a registration that takes
it; or two create_profile and a deletion of one account. Three session requests are two that overlap and a third that sees what they
left; an age of 2 lets one cookie be older than the other. Three history entries
are a form, its confirmation and a third path to come back from. A page of one
unit a block puts every boundary under the bar, and a list of 2 units at 4 steps
reaches the first, a middle and the last. `GossipedOnce` is run with one
envelope, where two lives and two callers resubmit it; rival envelopes of one id
in two lives are too many states, and are the proof's. `MaxLives`, `MaxFlags` (how many processes are started with `-publish`),
`SubBuffer`, `MaxAge` and `MaxHistory` are the only bounds inside a model; the number of requests, callers
and accounts is that of their sets. Deadlock is checked for the web client, which
can always go on, and not for the others: they may be at rest with nothing left
to do.

Two runs end in a violation, each of a statement in the repository:

- `accounts_left`: delete_account is said to delete the profile; a concurrent
  create_profile leaves a row that holds the handle after the account is gone.
- `landing_step`: the diagram is said to be "built as the reader scrolls through
  it"; after the viewport was narrow it stands at a step that was passed long
  ago, until the progress changes again.

Other disagreements were met while modelling. They are in the models, and no
run is spent on them:

- `WaitForPeers` "blocks until the topic is ready to carry a publish"
  (`gossip.go:66`); it does not look again after the heartbeat wait, and a peer
  that leaves meanwhile leaves it ready for nobody.
- Publishing is said to be idempotent because an id is a content hash
  (`docs/architecture.md:55`); the node stores under the claimed id without
  recomputing it, and two nodes may keep different envelopes under one id.
- Missed events are said to be recovered (`docs/architecture.md:57`); after a
  crash between answer and publish nothing gossips the event again, not even its
  resubmission.
- create_profile returns the account "now with its handle"
  (`services/auth.py:230`); a concurrent deletion makes it answer null. Hence
  the exception in `ProfileIsOwn`.
- logout "removes the cookies" (`routers/auth.py:172`); a refresh that was sent
  before it and is answered after it puts an access token back. Hence
  `SignedOutStaysOut` is about browsers that wait for their answers.
- login whose me fails, and delete_account whose delete_user fails, leave a
  session open with the pool that no browser holds, until it expires.
- Two confirmations of one document, two history entries apart, share "Link
  sent" (`VerifyEmail.tsx:27`). A list opens again when a form comes back with
  an address that another domain extends (`EmailField.tsx:56`).
- A link of the bar lands 104px above its section, where the bar, which looks
  36px below the top, marks the section before (`global.css:19`). The menu stays
  open when the viewport gets wide.

### Fairness

`node_alive` assumes weak fairness of what a running
process does by itself: the server handles and answers calls, the goroutine and
`Run` are scheduled by Go, heartbeats tick, connected peers announce
subscriptions, a connection that stays up delivers, and an interrupted process
goes on. No fairness is assumed of clients, operators or faults.
`gateway_core` assumes that a handler is scheduled and that `CALL_TIMEOUT` ends
a call; nodes need not do anything. The other specifications state no fairness:
what they check are safety and action properties.

`AcceptedSpreads` has an exception for a process being stopped: the goroutine
is then cancelled, by the code's own design, and the event stays behind.

## 4. What is proved

TLAPS proves the following for every value of the constants under the named
assumptions of each module, which are what the code gives: an envelope claims
one id or none, the configured stubs are nodes, the accounts that exist before
have different emails and handles. Every safety property of the passing runs is
among them.

| module | theorems |
|---|---|
| `EventLogProofs` | `LogIsWrittenOnce`, `LogIsNotForged`, `AnswersStayTrue`, `OneEnvelopeAccepted` |
| `EventNodeProofs` | `TypeCorrect`, `AnswersAreKept`, `AcceptedOnce`, `OneGossip`, `RelayedIsKept`, `NothingQuiet`, `Refinement`, and by it `NodesWriteOnce`, `NodesForgeNothing`, `NodesAcceptOne` |
| `GatewayProofs` | `TypeCorrect`, `SuccessIsKept`, `NoCallTooLarge`, `AcceptedApart`, `UsesTheLog`, `GatewayIsTheLog` |
| `RegistryProofs` | `RegistryConsistent`, `RegistryKeepsHandles`, `RegistryLosesVouched`, `RegistryIdsFinal` |
| `AccountsProofs` | `TypeCorrect`, `OwnAccountOnly`, `HandleKept`, `ProfileOwn`, `ProfileFirst`, `Refinement`, and by it `AccountsConsistent`, `AccountsLoseVouched`, `AccountsFinal` |
| `SessionsProofs` | `TypeCorrect`, `RenewalIsPossible`, `RenewalStaysHome`, `OneSession`, `StaysOut`, `LetsGoOfEnded` |
| `WebAuthProofs` | `TypeCorrect`, `HighlightStaysInList`, `ConfirmationHasForm`, `LinkHasAddress`, `PasswordIsNew`, `EnterDoesWhatIsMeant` |
| `LandingProofs` | `TypeCorrect`, `BarIsRight`, `BarIsWhole`, `FlagIsHonest` |

Each rests on an inductive invariant (`SafeInv` or `IInv`, with a second one on
top of it where named below) that TLC checked first. What is proved of an
abstract specification is proved once, in its own module, and holds of each
module that implements it: the theorem is an instance of the abstract one under
the refinement mapping, applied to the refinement theorem.

- *Event log.* `LogInv` says that what is written was submitted under its id and
  that answers are true of the log. `Adopt` writes only where nothing is written
  and `Reply` writes nothing, which is `LogIsWrittenOnce`; the rest follows.
- *Nodes.* A call at stage `new` wrote the entry it will answer for, and no
  other call or answer of that node claims it (`CallsKept`); lives only grow, so
  a goroutine belongs to the current life or is lost (`LivesKept`,
  `GossipKept`). `AnswersHold` then follows from logs that are write-once.
  `Refinement` maps each step to an `EventLog` step or a stutter.
  `SoleAcceptance` is needed for it: accepting twice is no `EventLog` step.
  `OneGossip` rests on it too, in two steps. What the gRPC door gossips was
  answered ACCEPTED (`GossipKept`), so a call about to start a goroutine for that
  id, in this life or a later one, would be a second acceptance: there is one
  goroutine an id (`OneMessage`). And what is counted under an id was published by
  a goroutine that is through (`Counted`), so the goroutine about to publish is
  another one, or the count is still 0.
  `RelayedIsKept` is inductive with the types: ids stay stored (`StoredStays`), a
  first copy is buffered or overflows, and a turn of `Run` that does not fail
  leaves the id stored whether it was new or not (`HandleStores`).
- *Gateway.* A call on its way carries an envelope that was read and submitted,
  and an answer on its way is true of the node that gave it (`RpcsKept`); logs
  only grow, so it is still true when it is received, however late.
  `NoCallTooLarge` is arithmetic: 16384 bytes make a message of 16388.
  That logs only grow is the step form of `WriteOnce`, taken from `EventLogProofs`.
  `GatewayIsTheLog` needs `ToldInv`: what a client was told is an answer of the
  node its request asked last (`ToldIsAnswered`), and an answer `ACCEPTED` of a
  node belongs to one request or call still on its way (`ToldOnce`). Without the
  second, two clients told accepted by one node would be no step of `EventLog`;
  a call that is answered late must keep its claim until it is dropped.
- *Accounts.* The table's constraints and ids that are never reused
  (`RowsKept`), one account per email (`PoolKept`), one session per request
  (`SessionsKept`). `DeletionsKept` is the heart: between its calls a deletion
  knows that either its account is gone or the email it read is still that
  account's, so the password it checks is the right one, and that the row it
  read is that account's. What steps never take back is collected in `Stable`
  (an id once used, a password once checked, a handle once told, an account once
  gone) and proved once; each handler is then shown to keep what is its own.
  `ProfileOwn` adds `ProfilesKept`: from its insert on, a create_profile has its
  row or a checked deletion to show; the two reads find that row since an account
  has one at most.
- *Registry.* `Consistent` is inductive with the types alone. `Refinement` maps every
  call to a step of the registry or to none (`MovesHold`): the insert claims, the
  password check of a deletion vouches, the two deletions release and close, an
  answer tells. `HasAccount` is the invariant it adds: no row and no request that
  is about to make one is of an account that never was. TLC checks the refinement
  with lost answers (`accounts_core`); the theorem is for any `Faults`.
- *Sessions.* What a request carries and what its answer says stays so: issued
  tokens keep their session, sessions their account, ended ones stay ended
  (`Stable`). So an answer is right however late it is received, and `JarKept`
  follows, overlaps or not: the access cookie is never older than the refresh
  cookie. `SerialKept` is what waiting gives: one request is out, and since it was
  sent the jar has only lost cookies to age.
- *WebAuth.* `FieldInv` carries the highlight through every handler of the
  control; it needs the counting of a finite list (`NumberInList`). The history
  is carried by `TabKept`: an entry's document number is at most its index and
  the reset form's path is only ever that of the first entry. With
  `ScreensKept` (a screen says "sent" or "done" only where it can), cutting and
  pushing keep each confirmation behind the form that led to it
  (`ConfirmationFollowsForm`, `SentToAnAddress`, `DoneWithNewPassword`).
  `EnterDoesWhatIsMeant` needs that the number and the pointed suggestion agree
  while the list is open: a number stands for one suggestion (`NumberedIsOne`), and
  the list is the one the number was given in (`HighlightIsPointed`).
- *Landing.* `BarIsFresh` says that a bar with neither event nor frame to come
  has looked at the page as it is, and is kept by each step because what moves
  the page raises `moved`. An answer that opens below the bar's line moves no
  block the bar looks at. That the first block found is the section's is
  geometry: the sections tile the page and the card's footer lies inside one.

Not proved, only model-checked: the liveness properties (`AcceptedSpreads`,
`InterruptedExits`, `EveryPostAnswered`) and the violations. Liveness under
fairness is out of the prover's reach.

## 5. What is not modelled

- Start-ups that fail (`main.go:67-100`: store, host, topic, listener): such a
  process is one that never started. An unreadable `-publish` file ends a process
  that already serves (`main.go:120`), which is a `Crash`.
- `GET /me` as a request of its own: it writes nothing. `me` is modelled where login
  and create_profile end in it.
- Pages restored from the browser's back/forward cache: an entry of another
  document is always mounted anew.
- Requests that only have an email sent (resend, forgot-password).
- Several browsers at one account: `Sessions` is one jar; sessions opened
  elsewhere are `Settled` ones it does not hold.
- Storage operations no service uses: get, find_many, insert_many, delete_many
  and the updates.
- Signatures, content hashes, the orphan buffer, sync, chain heads, identity
  and reputation: the documents, schemas and fixtures describe them, no code
  implements them. For the same reason `ORPHAN` appears only in the gateway's
  table. Gossipsub relays before the node has validated (`p2p/gossip.go:41`);
  `docs/protocol.md:111` forbids it, but there is no validation to order yet.
- What the web client draws: animations, hints, the strength bar, the decorative motifs, the wording. The
  motion library is external, so is the question whether the seal's line really
  shifts when tampered with (`SealMotif.tsx:53` and `:60` animate one property).
- Fragments in the session history: a link within a page makes an entry with the
  same path. Layout that changes without a scroll or a resize (fonts, an answer
  opened off screen): the bar would be stale until the next event.
- Lengths in UTF-16 units (`Register.tsx:57`) against code points in the gateway:
  the form calls no gateway yet.
- Addresses, logging, generated code and the infrastructure.

## 6. Plan

Done, in the order of what matters most: `EventLog` and `EventNode`, `Gateway`,
`Accounts`, `Sessions`, then the web client with `WebAuth` and `Landing`, each
with its proofs; then `Registry` and the second refinement of the gateway.

What a next step would take up:

1. `Storage`: `insert_many`, `delete_many` and the updates over
   `Database.session`, all or nothing with a lost commit, against a table as the
   abstract specification, once a service uses them.
2. Composition of `Gateway` and `EventNode` proper, with nodes that shut down
   while calls are queued, to check the answers of the drain.
3. Composition of `WebAuth` and `Sessions` once the screens call the gateway.
4. Pure tables: the translation of provider and database errors against the
   declared responses of each route.
5. Proofs: an abstract specification of the session of a browser that waits
   (signed out, or signed in to one account), which `Sessions` would implement
   while nothing overlaps.
