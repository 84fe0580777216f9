# NgenOrca in TLA+

TLA+ modules of the NgenOrca gateway, the TLC configurations that check them,
and theorems about them that TLAPS proves. Paths below are relative to the
repository; `gateway/` stands for `crates/ngenorca-gateway/src/`, `memory/`,
`identity/`, `bus/` and so on for `crates/ngenorca-<name>/src/`.

NgenOrca is a Rust gateway between messaging channels and language models. One
process holds an HTTP and WebSocket server, channel adapters, background tasks
and a few SQLite files. All its concurrency is tokio tasks on several threads,
sharing `Arc<AppState>`; there is no distribution, but every database outlives
the process, the CLI opens the identity database from another process, and the
platforms, the model servers and the commands that the agent runs are outside
of it and answer when and what they like.

To check a run: `tlc -workers 2 -config <run>.cfg <Module>.tla`; to check the
proofs of a module: `tlapm <Module>.tla`. `PROJECT.json` lists the runs, the
properties of each, the source lines of every definition, the hazards, the
disagreements found, and for every property a mutant of the code it refutes.

## 1. Inventory

For each part: its state, the modules of it, and what makes it correct. What is
missing of a part is said in the notes of `PROJECT.json` and in section 7.

| Part | Source | State | Modelled in |
|---|---|---|---|
| Session manager | `gateway/sessions.rs` | `sessions`, `user_sessions`, each behind a `std::sync::RwLock` | `Sessions` |
| Event bus, event log | `bus/lib.rs`, `bus/event_log.rs` | `events` table (SQLite), tokio broadcast ring | `EventBus` |
| Inbound pipeline | `gateway/lib.rs` | plugin queue (unbounded mpsc), bridge, worker and retention tasks | `EventBus`, `Replies` |
| Identity | `identity/*.rs`, `gateway/runtime_identity.rs` | users, devices, handles, requests (SQLite) | `Identity` |
| Episodic and semantic memory | `memory/lib.rs`, `episodic.rs`, `semantic.rs` | two SQLite tables | `Memory` |
| Working memory, chat turn | `memory/working.rs`, `gateway/routes.rs`, `gateway/lib.rs` | per-session deque in an `RwLock<HashMap>` | `Conversation` |
| Rate limiter | `gateway/rate_limit.rs` | a queue of instants per key in a `DashMap` | `RateLimiter` |
| WebSocket connections | `gateway/routes.rs` | atomic gauge, per-connection window | `WebSockets` |
| Plugin registry | `gateway/plugins.rs` | adapters in a vector and an index of it, behind async locks | `Replies` |
| Webhooks | `gateway/routes.rs`, `channels/*.rs` | none of their own | `Webhooks` |
| Channel adapters | `gateway/channels/*.rs` | offsets, sockets, a child process, caches of credentials | `Channels`, `Telegram`, `Discord`, `Slack`, `Matrix`, `Signal`, `WhatsAppClient`, `TeamsCredentials` |
| WhatsApp Web client | `crates/ngenorca-whatsapp-web` | connection, transport counters, one session file per contact | `WhatsAppClient`, `SignalSession`, `Noise`, `WaBinary` |
| Orchestrator | `gateway/orchestration/orchestrator.rs` | per turn: draft, trace of tools, verdicts, passes | `Orchestrator` |
| Classifier, router, quality gate | `orchestration/classifier.rs`, `quality.rs`, `orchestrator.rs` | none: functions | `Routing`, `Orchestrator` |
| Learned routes | `gateway/orchestration/learned.rs` | table of rules with confidence (SQLite) | `LearnedRoutes` |
| Model providers | `gateway/providers/*.rs` | registry, attempts and waits of a call | `ModelCalls` |
| Skills, tools | `gateway/skills.rs`, `gateway/tools.rs` | artifact files, journal and snapshots of a staged run | `Skills`, `Workspace` |
| Sandbox | `crates/ngenorca-sandbox` | child process, timer, a profile file | `Sandbox` |
| HTTP API, server | `gateway/routes.rs`, `server.rs`, `state.rs` | `AppState` | its handlers are the actors of the modules |
| CLI | `crates/ngenorca-cli` | none | `pair` and `revoke` in `Identity` |
| Auth, request ids, metrics, configuration, plugin SDK | their files | none, or read once | not modelled: section 7 |

**Sessions.** `get_or_create` looks a key (user, channel) up, then creates;
`promote_to_user` rebinds a session to a user in several critical sections;
`promote_alias_to_user` finds and moves or ends the alias's session. Hard: two
locks taken in both orders, decisions on snapshots, a clock read before two
waits. Correct when an entry leads to a session of its own channel and user,
when pruning removes expired sessions and their own entries only, and when no
request waits forever.

**Bus and inbound pipeline.** `publish` inserts into the log, then broadcasts;
a receiver that falls behind skips. Adapters send to an unbounded queue, from
which the bridge publishes one event at a time; the worker handles one message
at a time. Hard: order over three hops, lag, failed inserts, a crash between
insert and broadcast, deletion by a cutoff. Correct when nothing is seen that
is not durable, messages are handled once and in order, and an accepted message
is handled or lost for a reason the code knows.

**Identity.** A method of the store is one SQL statement under a mutex; pairing,
verification and resolution consist of several. Hard: calls that interleave or
fail between statements, another process on the database. Correct when bindings
lead to users, a completed pairing is linked, a request is answered once, nobody
takes another user's handle, and nothing panics.

**Memory.** Requests store episodes; the consolidation task reads each user's
recent ones, stores the facts it extracts, and prunes; a deletion removes a
user's data. Working memory is a window per session with a budget of tokens,
which turns read and write without holding a lock between. Hard: what was read
before others ran, failures of single statements, a task whose panic nobody
notices. Correct when no fact is duplicated or comes from erased episodes, each
is learnt, pruning takes the oldest, and a session remains a dialogue.

**Limits.** A sliding window per key; a cap by an atomic gauge; a fixed window
per connection. Hard: a clock read outside the lock, check-then-act on an
atomic, a decrement a panic skips. Correct when a limit admits its maximum,
refuses only when full, and the gauge is exact.

**Channels.** Each platform has its own idea of what has been delivered: an
offset, a token, an acknowledgement, or none. Hard: crashes between taking and
handing over, redelivery, half-open sockets, a pipe that fills, refreshes that
overlap, one mutex kept across an await. Correct when messages reach the queue
in order and once between two starts, when what is lost or repeated has a
reason, when a dead connection is noticed, and when a reply goes to its chat.

**Agent.** A turn is a pipeline of model calls with loops inside: tools,
escalation, verification, remediation. Models, tools and commands answer
anything. Hard: the bounds of nested loops, answers that claim what was never
verified, tool calls repeated, branches that fail side by side, runs that are
killed half-way. Correct when a turn ends in a bounded number of calls, does not
fail once somebody has answered, claims nothing unverified, when what a skill
overwrote can be had again, and when nothing is done twice without need.

## 2. The modules

```
Sessions       <- MCSessions <- SessionsProofs          <- MCLiveness (INSTANCE)
EventBus       <- EventBusProofs                        <- MCLiveness
Identity       <- MCIdentity <- IdentityProofs
Memory         <- MCMemory   <- MemoryProofs            <- MCLiveness (INSTANCE)
Conversation   <- MCMemory (INSTANCE)

Edges (INSTANCE of each) <- EdgesProofs
   RateLimiter   WebSockets   Webhooks   TeamsCredentials   Replies
   Channels <- Telegram, Discord, Matrix, Signal    each implements ChannelFeed
            <- Slack, WhatsAppClient
   SignalSession   Noise
Edges <- MCEdges                                    adds WaBinary (INSTANCE)

Routing <- Orchestrator <- Agent                    implements AgentTurn
Agent (INSTANCE of each) <- AgentProofs <- TurnProofs
   LearnedRoutes   Workspace <- Skills   Sandbox   ModelCalls
Agent <- MCAgent

Sums           <- EdgesProofs, TurnProofs           lemmas on sums over finite sets
```

In every module a step is what the code does under one lock acquisition, in one
SQL statement, in one file operation or between two awaits; whatever happens
between two of them may interleave with every other actor. A handler that is
several steps keeps its position in `pc` (or `step`, `at`, `task`) and its
locals in a record, cleared when they go out of scope.

### Sessions

| State | Code |
|---|---|
| `sessions`, `user_sessions` | the two maps, sessions.rs:14-21 |
| `usersRead`, `prune = "locked"` | a lock held while the other is awaited |
| `cutoff` | the local of `prune_expired` |
| `pc`, `req` | a handler's place in the manager and its arguments |

`StartChat`, `StartChatWithId`, `StartAlias` and `StartPair` are the callers;
`LookupUser` to `MapSession` are `get_or_create`; `Promote` to `RemapSession`
are `promote_to_user`; `FindExisting` to `EndSession` are
`promote_alias_to_user`; `PruneBegin`, `PruneLock`, `PruneFinish` are
`prune_expired`, which reads the clock, waits for `sessions.write()`, and holds
it while it waits for `user_sessions.write()`.

### EventBus

`log` is the table, `stream` everything ever broadcast (the ring is its last
`Capacity` events), `rx` the position of each receiver, `plugin_rx` the queue,
`task` the publisher's local between its steps. `emitted`, `acked`, `seen`,
`handled` and `lost` are history: they guard nothing. A start goes in the code's order: bridge,
adapters, the worker's subscription, and last the server with its handlers and
sockets (`Serving`); what is broadcast before the worker has subscribed nobody
receives. `WorkerPanics` is the panic of `identity_panic` below, which ends the
worker's loop until the next start (`Ended`). A ULID is a millisecond
and a random part, so an event's id is any unused number of the current tick.
tokio's channels and SQLite are external and modelled from how they are used.

### Identity

`users`, `devices`, `channels`, `requests` are the tables; a call moves through
`Register`, `Check*`, `Bind*`, `PairDevice`, `Mark` (`complete_pairing_request`
and `verify_device_challenge`) or `Owner`, `Binding`, `OwnerAgain`,
`BindingAgain`, `Find` (`resolve_from_device`, `resolve_from_channel`). `Fail`
ends a call after any step with an SQL error; `CliPair` and `CliRevoke` are the
CLI. `Candidates` is a constant: the spellings under which `link_channel` and
the lookups treat a handle as one, so that the proofs hold for any such table.

### Memory and Conversation

`episodes` and `facts` are the tables, `turn` an answered request that has not
stored its episode yet, `job` the locals of the consolidation cycle (`dead`
once the task has panicked), `deletion` and `erasing` those of a deletion;
`erased` and `carried` (the episodes that a cycle had in hand when their
deletion ended) are history. `Fetch`, `Known`, `Learn`, `Count`, `Prune` are the
statements of `consolidate_for_user`; `LearnFails`, `JobFails`,
`StoreEpisodeFails` and `DeleteFactsFails` their errors, which the code logs;
`Panic` is the slice inside a character; `Crash` drops everything but the
tables. In `Conversation` a turn takes `Begin`, `ReadContext`, `AddMessage`,
`AddAnswer`, or `Withdraw` when the orchestrator fails, in the order of its
callers; `Push` evicts from the front until the window fits.

### The edges

`RateLimiter`: `ReadClock` and `Check` are the two halves of
`RateLimiterState::check`; `admitted` is history. `WebSockets`: `Accept` loads
and compares the gauge, `Open` increments it, `Message` applies the window,
`Close` and `CloseEarly` end a connection and `Panic` ends it without the
statements after its loop. `Webhooks`: a platform posts a batch until it is
answered with success; `Arrive` authenticates, `Publish` publishes one message
and may fail, `GiveUp` is a platform that no longer waits.

`ChannelFeed` is what a listener promises, whatever the platform; `Channels` the
state that listeners share (what the platform has seen, what it will not offer
again, what is on the queue); each adapter adds its own: Telegram's
`lastUpdateId`, Matrix's `since` with the rooms of an answer (a `HashMap`: in
any order, each with its newest `TimelineLimit` events), Discord's socket, Slack's acknowledgements,
and for Signal the child process with its three pipes, of which nobody reads the
third. `WhatsAppClient` has the task, the client handle, the connections and
the mutexes that a reply needs; `StopFlag`, `Disconnect`, `Notified` and `Closed`
are the steps of `shutdown` and of the task's own end, of which the one note of
`notify_one` may be taken by the loop of an older connection.

`Replies` registers the configured adapters and takes a reply from the worker to
an address. `TeamsCredentials` are the two caches, each read under a lock,
fetched without and written under it again.

`Noise` derives keys as sequences of the secrets that enter them, so that two
sides agree exactly when they derived the same. `SignalSession` is a file that a
reply and the receive loop load, advance and save without locking it; a save
truncates (`Truncate`) before it writes (`Save`), so that a crash or an error
within it leaves a file that does not parse (`Torn`).
`WaBinary` writes a node as marks, digits and blobs, each with the bytes it
takes, with `Radix` and `Nibble` for the 256 and 16 of a byte, so that each
boundary is a few children or bytes away.

### The agent

`Routing` are operators: the rules of the classifier in their order, and the
router with its strategies. `Orchestrator` is one turn: `pc` is the part of the
pipeline, `loop` the tool loop that runs, `support` the branches of the support
agents, `trace` the tools and their outcomes, `report` and `passes` the
verification; a step is one model call with the tools it asks for, or what the
code does between two. `AgentTurn` is what the user is promised: it ends, and
not in failure once there is a draft.

`LearnedRoutes` has the table with its rates, decay and trend in units of
1/10000, and turns that are between `lookup` and `ingest`. `Skills` has the
artifact files with readers and writers that nothing locks, and a staged run
with journal, snapshots and rollback that may be killed at any step;
`Workspace` resolves paths. `Sandbox` gives a command to one backend after
another. `ModelCalls` is one call: the provider it resolves to, the messages as
that provider sends them, attempts and waits.

### The MC modules

`Edges` and `Agent` put components beside each other: a step is a step of one
of them. In `Edges` the variable `part`, chosen at the start and never changed,
says which; in `Agent` all may act, and theorems are about all of them at once.
An MC module gives the constants their values and, where the specification has
no `part` yet, adds it for the runs, so that components that share nothing are
not multiplied with each other; `MCEdges` also adds the codec of WhatsApp, whose
definitions are recursive, so that `MCSpec` implies `EdgesSpec` (a step of the
codec leaves `edgeVars` alone). Components share a run this way only if they share no state in the code,
or if their interaction is what another module is about. `part` (or `overlap`)
also selects between instances of one specification: calls that overlap, or
calls that do not; deletions and failures, or neither and larger bounds. A
property named `Sequential...` or `Undisturbed...` is the part of a promise that
the code keeps when calls do not overlap, or when nobody deletes data, while all
other actors (pruning, the CLI, the clock, requests) still interleave. A
violation run shows the promise itself broken for the lock order of pruning,
the resolution of devices, the extraction, deduplication and deletion of facts,
and the wait after a 429. The other statements of the source that the code does
not keep, among them the cap on connections, single-use keys of the handshake,
the secret of Telegram's webhook and the pairing of WhatsApp, no run shows: they
are listed at the end of section 3.

## 3. The runs

| Run | Shows | Bounds and why they are enough |
|---|---|---|
| `sessions_safety` | channel isolation; user isolation for requests that do not overlap; pruning drops only expired sessions and their own entries | 2 users, 2 channels, 2 handlers, 3 instants, TTL 1, and 2 sessions, or 3 for requests one at a time: one handler can hold an expired session while the other replaces it and pruning waits |
| `liveness` | the bus: durability, order, no duplicates, every accepted message taken up or lost for a known reason; the sessions: between two pruning cycles no request waits forever; the memory: every fact that is said is learnt, in spite of one failing statement or restart, unless newer episodes displace it, its user is too busy for the scan, or a text panics the task | an adapter, a direct publisher, a worker that may panic, a socket, 3 events, a ring of 2 (so a receiver can lag) and one crash; or 2 handlers that contend for the two locks; or 1 user, 2 episodes of which 1 is kept, a scan of 1 and a window of 4 cycles, so that the scan leaves an entry behind and the failure fits the window: with no room for the failure TLC refutes the property |
| `identity` | bindings, completed pairings; for calls that do not overlap one answer per request, in all spellings, and handles that stay | 2 calls, 2 users, 1 device, 2 spellings, and either one request or one failure with two requests, so that a failed call can be repeated |
| `memory` | a fact twice only for a user with more than the budget; of what a finished deletion took, only what a cycle had in hand; pruning removes the oldest while nobody deletes; the window of a session is kept, and turns one at a time leave a dialogue | 2 users, 2 facts and a retrieval of 1, so that deduplication misses one; 4 episodes with `Keep = 1`; or 3 episodes with a deletion, texts that panic, and one failing statement or crash; or 3 turns of 2 sessions with messages of 1 or 3 tokens and a window of 5, so that eviction takes none, one or several |
| `edges` | exact limits; receipts of webhooks; fresh credentials; each listener against `ChannelFeed`, or what it accounts for; a WhatsApp connection that ends is noticed; replies reach plain chats; the two ends of the WhatsApp connection stay in step and a Signal session uses its keys once; the codec of WhatsApp reads what it writes | 3 requests against a maximum of 2, 2 connections against 1; 2 batches, one of two messages, one failed publication; 3 posts with every kind of refused message and one restart, for Matrix in 2 rooms with timelines of 2 events, so that an answer leaves one out; 2 connections of the WhatsApp client, the older of which may end late; 3 messages each way over the first key and 2 ratchet chains, and one save that fails or is cut; counters that wrap after 2 frames; nodes at each boundary of the codec's digits |
| `agent` | a turn keeps its abstract promise and is honest; routes are earned, used while they hold up and penalized; skills can be recovered and their outcome is true; commands and model calls are repeated only after failures | 3 configurations, with and without tools, small model and judge, 2 rounds of tools, one remediation pass; 4 records over 3 days, accepted with and without contradiction (`Penalties`), escalated or failed; a skill of 4 stages that writes one file twice, with a crash or failure anywhere, beside 2 calls on the store; 2 executions on every platform; 3 conversations and 3 sets of providers against every class of answer |
| `sessions_prune_liveness` (violation) | `prune_expired` and `get_or_create` block each other | one handler is enough |
| `identity_panic` (violation) | the second read of a device fails an `expect` | 2 calls, 1 device |
| `memory_panic` (violation) | a text cut inside a character ends the consolidation | one such text |
| `memory_duplicates` (violation) | a fact beyond the retrieval budget is stored again | 2 facts against a budget of 1 |
| `memory_erasure` (violation) | a fact of an erased episode is stored after its deletion | 1 user, 1 deletion |
| `retry_after` (violation) | a 429 that names its wait is tried again after another | the answers of `agent` |

Bounds that exist only for TLC: `MaxSessions`, `MaxTime`, `LastTime`,
`MaxCycles`, `MaxDay`, `MaxEvents`, `MaxCrashes`, `MaxEpisodes`, `MaxFacts`,
`MaxFails`, `MaxFailed`, `MaxPanics`, `MaxStops`, `MaxPosts`, `WhatsAppPosts`,
`MaxTries`, `TimelineLimit` (a page of the homeserver), `MaxLinks`, `MaxSent`, `MaxChains`, `MaxFrames`, `MaxInbound`,
`MaxRecords`, `MaxCalls`, `MaxWork`, `Slow`, `FewEpisodes`, `EarlyTime`, `FewSessions`
and `IdsPerTick`. Each is a guard or a type of the module that declares it.
Because the clock and the supplies end, every run states `CHECK_DEADLOCK
FALSE`; a state in which actors wait for each other is the matter of the
liveness properties. Symmetry is declared in safety runs only, over sets whose
members the specification never tells apart.

### Refinements

- `Feeds`: Telegram, Discord, Matrix and Signal implement `ChannelFeed`. The
  mapping leaves out what is theirs (offsets, tokens, sockets, pipes) and keeps
  what was posted and in which room, what the platform forgot and what was handed
over. The order it promises is that of each room; only Matrix has more than one
in an answer, and brings them in any order. `Keeps`
  is true of Telegram alone: it forgets only what was handed over. Slack does
  not implement it (it acknowledges before it hands over, and hands over again
  what it could not acknowledge): its part of `Feeds` is `SlackAccounts` instead.
- `TurnKeepsPromises`: a turn implements `AgentTurn`. The budget is what the
  pipeline may still ask for from where it is, as a sum over the loops that are
  left; the property says that each model call uses it up.

### What the violation runs say

- `sessions_prune_liveness`: `sessions.rs:258` takes the locks in the order
  opposite to `sessions.rs:47`. The two tasks block, and every later request
  behind them. That is why `RequestsFinish` is stated between two cycles.
- `identity_panic`: `resolver.rs:112` relies on a read made earlier; a pairing,
  or the CLI in its own process, comes between.
- `memory_panic`: byte offsets 120 and those found in a lower-cased copy are
  used to slice the original text; the task that runs the loop is never
  restarted.
- `memory_duplicates`: "Background consolidation merges, deduplicates, and
  prunes" (`memory/src/lib.rs:15`), but the facts that it compares with are
  those of `retrieve_for_user(user_id, 10_000)` (line 167): the youngest within
  a budget of tokens. A fact beyond it is stored again by every cycle that scans
  its episode. `FactsAreSound` is what holds instead.
- `memory_erasure`: "Delete **all** data for a user" (`memory/src/lib.rs:348`),
  but a cycle that fetched the user's episodes before (line 154) stores facts of
  them after the deletion has returned (line 193).
- `retry_after`: `providers/mod.rs:24` announces that the wait of a 429 is
  parsed and `retry.rs:62` that it is kept; `mod.rs:25` passes none on, so that
  every wait is that of the backoff.

### Behaviour the models contain and no property promises

Sessions and identity: two first requests of a key can each create a session
(`sessions.rs:68`); two promotions of one session leave an entry of one user
leading to the other's, since session and entry move in separate critical
sections; two calls can both answer one request (`identity/lib.rs:258`).

Bus: `replay_after` compares ids that publishers took in another order
(`bus/lib.rs:92`); a message that is broadcast before the worker subscribes
(`gateway/lib.rs:146`), or after a panic has ended it, stays in the log and is
never processed.

Memory: `prune` counts and deletes under separate
locks (`episodic.rs:311`); a scan's LIMIT keeps the oldest entries of its window
(`episodic.rs:252`), so that a user with more never has the newest scanned
(`Crowded`); nothing clears the working memory of a
session that ended.

Edges: the limit of connections is checked before it is counted
(`routes.rs:2297`); a Discord connection starts afresh (no RESUME) and what came
meanwhile is never offered; nobody reads the stderr of signal-cli, which blocks
the child once the pipe is full; a read error ends the reading and waits for a
child that may live on; a Matrix adapter whose initial sync fails
repeats the history, one that is offline for more than a timeline skips what
came first, and messages of two rooms reach the bus in any order
(`matrix.rs:306`); a reply in Teams or to a group knows only the part of the
address that its channel keeps; the frames of the Noise handshake are all
enciphered under nonce 0, though the comment of `noise.rs:281` calls keys
single-use: the server's payload and the client's static key share one, and a
server that counts refuses it (`counting`); `read_content` takes any content
sent with a length for binary, so that `extract_qr_ref` finds a reference only
when it is a word of the dictionary or a JID; a reply and a message that overlap, or
a save that fails, use a Signal key twice; a save that a crash cuts
(`store.rs:167`) leaves a file that no message can be read with until the next
reply asks for new keys (`client.rs:730`); the
pairing task panics in `blocking_lock()` (`transport.rs:182`, called at
`client.rs:306`) before it shows a code, though `client.rs:215` says that it
does; `setWebhook` (`channels/telegram.rs:300`) does not set the secret that
`routes.rs:2137` says it sets, and every update is refused when one is
configured.

Agent: Anthropic gets only the last system message (`anthropic.rs:134`), so the
guidance of the tool loop replaces the system prompt; messages of role `tool`
carry no call id; the prefix `google/` stays in the name of the model
(`openai_compat.rs:243`); errors of a custom
gateway are retried by the words in them (`error.rs:73`); no client has a
timeout; a rule found by its second tag is penalized under the first, where it
is not; a skill that can be run never reaches "approved" (`can_approve`) though
`save` accepts the word; saves of one skill that overlap lose one another's
counters, and a crash between truncation and write leaves a torn file; a
command whose own stderr has the words a backend looks for is run again.

## 4. Fairness

- A tokio task that can go on does: weak fairness of a handler's, publisher's,
  receiver's or job's next step.
- A waiting writer of `std`'s futex `RwLock` goes before readers that arrive
  after it: strong fairness of the steps behind `user_sessions.write()`. Weak
  fairness would let two readers hold the lock in turn forever.
- The interval of a background task fires: weak fairness of `Tick` in `Memory`,
  where a tick is one interval and cannot pass while its cycle is running. So a
  cycle is assumed to finish within its interval (an hour by default,
  `gateway/lib.rs:471`; the window is 24 hours, `gateway/lib.rs:489`).
- In `agent` a turn's next step is weakly fair: every model call returns, with
  an answer or an error. Since the clients have no timeout, this is an
  assumption about the servers and the network, not a consequence of the code.
  The end of a turn rests on it. `AcceptedResolved` rests on the same of the
  turns of the worker, and says so itself: it is about behaviours in which the
  worker is time and again not busy (`[]<>(Worker \notin busy)`); fairness of
  the bus is of receiving only.
- Nothing else is assumed of what comes from outside: requests, messages,
  deletions, the CLI, retention, failures, crashes.

## 5. Proofs

All theorems hold for every value of the constants, under the modules' named
assumptions about them. `SessionsAssumption`, `EventBusAssumption`,
`IdentityAssumption`, `MemoryAssumption` and `AgentAssumption` are ASSUMEs of
their modules; those of the edges are definitions, stated as hypotheses of their
theorems and assumed by `MCEdges`. A few theorems have a hypothesis of their
own, named in the table.

| Theorem | Invariant and why it is needed |
|---|---|
| `SessionsProofs!TypeCorrect` | `TypeInv`: types, and `LocalsReady`, what a handler's locals hold at each `pc`; otherwise a step could index a map by a missing id |
| `ChannelIsolated` | `IInv` adds `Fresh` (ids not yet issued are absent from both maps) and `HandlerChannel` (a handler about to write an entry holds a session of that channel) |
| `RecentSessionsSurvive` | `CutoffInv`: while pruning waits, `cutoff + TTL <= now`, since the clock only advances |
| `PruneKeepsLiveEntries` | none beyond types |
| `SequentialUsersIsolated` | `SInv`, while requests do not overlap: `UsersKnown` (a request knows the user of its session before and after `promote_to_user` changes it) and `EntriesLeadHome` (an entry leads to a session of its user, except the one that the running promotion is about to move). `MCSpec` chooses whether they overlap; pruning always interleaves |
| `EventBusProofs!DurableDelivery` | `IInv`: an event in the ring, or with a publisher past its insert, is logged; needed since both become visible later |
| `EventBusTypes`, `OnceInOrder` | `Way`: `PlaceInv` says where the id of an event may be (with one publisher, in the queue, or out, and nowhere twice), `OrderInv` that queue, bridge, broadcast stream and the worker's position follow one order, all of it being ahead of a worker that has not subscribed and nothing of one that has panicked; ids that repeat, or a bridge that holds two events, would break it |
| `IdentityProofs!IdentityTypes`, `NoDanglingBindings`, `PairingsAreLinked` | `IInv`: `CallsReady` says what a call knows at each step (its user is registered, the candidates before its index are linked, its request is of its kind), and that the tables only grow makes this stable under other calls; `ChallengesHaveDevice` rules out an unlinked completion |
| `SequentialAnswersHold`, `SequentialHandlesStay` | `SInv`: `CallsUndisturbed` (what the one running call has checked is still so), `AnswersMarked`, and, as long as no statement has failed, `BoundTogether` (a handle has all its candidates with it). Needs `NestedSpellings`, which `candidate_handles` gives: the candidates of a candidate are candidates |
| `MemoryProofs!SoundFacts` | `IInv`: `KnownInv` (while a cycle stores, it knows every fact of its user, unless the user has more different ones than the budget), `KeysInv` (keys of facts are handed out once), `OwnersInv` and `GoneInv` (an episode has one owner, wherever it is held, and one that a deletion removed is not in the table, nor, once the deletion is over and unless the cycle had it then, in the hands of the cycle), `EntriesInv` (a cycle holds its own user's entries). Every other step keeps this: learning adds the text to what is known, and a deletion leaves the user none |
| `Types` | `RoomInv`: a place is kept for every episode that is yet to be stored, so no key passes its bound. Hypothesis `IsFiniteSet(Handlers)` |
| `PruneKeeps` | `EpisodeKeysInv`, and `CountedInv`: what a prune counted is still there when it deletes, and only one cycle counts |
| `WindowHolds` | the total of a session is that of its messages: `TokensAre` connects the running totals of a window with those of the part of it that an eviction leaves |
| `SequentialDialogue` | `DialogueInv`: of a turn that has asked, the question is the last message of its session until the turn ends (`QuestionsLast`), no other message is of a turn that is to come (`OwnMessages`), and contexts and memories are dialogues, which an eviction from the front leaves them |
| `EdgesProofs!FreshCredentials` | `CacheInv`: what the caches hold was issued by a fetch that took at most `Slow`, whichever fetch wrote last. The proof showed that `Slow <= Margin` and `Margin < Life` are needed: a token that lives no longer than the margin is handed out expired |
| `LimitedSockets` | `GaugeInv` (the gauge stays in `Nat` because it counts, and counts because a connection is counted once); `WindowsInv`: the property bounds what one interval holds, which is not inductive; the invariant says of every interval how much its beginning and its end, left and right of the start of the connection's window, may hold; `CapInv`: an upgrade that is alone has compared the gauge that it increments |
| `ExactLimiter` | `LimiterInv`. The queue of a key is in the order of the locks, not of the clocks, so that a drain can remove a timestamp that lies in the window of a later request. `ExactInv` says of each window: either the queue still holds what was admitted in it, or it is over, and those in flight with a clock in it can exceed it by one each (`Kept`, `Safe`); `TurnsInv`: requests that do not overlap are in order |
| `ReceiptsHold` | `ReceiptsInv`: `WayInv` and `FreshInv` say what of a batch has been published by where its attempt is and by the attempts before, `DoneInv` and `OnceInv` are the two halves of the property. Hypothesis: no message is the empty answer |
| `RepliesArrive` | `IndexInv`: the index and the vector of adapters agree where a channel is registered, between the two locks as well; `MailInv`: a message carries the address of its chat. Hypothesis, in `RepliesAssumption`: an id names one chat of its platform |
| `ListenersFeed`, `TelegramFeeds` | one invariant per listener, and `SlackIsAccounted` for Slack's part of `Feeds`. Telegram: `PassedHanded` (what the offset has passed and was wanted has been handed over), `OfferedWhole`, `HandedPassed`. Discord, Signal, Matrix: what is in transit, or in the pipe is in order and after all that was handed over (`Ahead`); for Signal what the service gave away is a beginning of what there is; for Matrix what a start handed over comes before what the batch still has of the same room, and the token covers both and, unless the initial sync failed, all that any start handed over |
| `SlackIsAccounted` | `SlackInv`: what is on the wire is in order and not acknowledged, so that what is read a second time lost its acknowledgement (`ReadInv`); needs that the envelopes Slack offers are in order, by least-number induction over the recursive function `Envelopes` |
| `EndsAreNoticed` | `DownIsNoticed` itself with the types of links and queue: the flag falls only with a word to the task, or in a disconnect, which only a stop or the end of the task calls |
| `CiphersTheorem` | The connection: `NoiseInv` says of every frame, enciphered, in the socket, on its way or arrived, that its key and nonce are those of its place in its direction, and of both counters that they are that place modulo `CounterSize` (`Sends`, `Receives`, `Arrives`; before the handshake, `Greets`). The two ends agree only because of this, and a nonce returns only after `CounterSize` frames (`SameRemainder`). The session, while reply and receive loop take turns and no save has failed or been cut: `TakeTurns` says that the session that counts (`Stored`: the file, or what its writer holds between truncation and write) is where our chain and the contact's are, that every key used lies before the one to be used next, and that what is on its way follows one after the other from what that session expects (`Letters`) |
| `EdgeTypes` | the invariants above for the limiter, the gauge, the webhooks, the caches, the connection, the session and the WhatsApp client, whose types are not inductive alone; `RepliesInv` with `RpOwn` (no kind is registered more often than the configuration lists it); types alone for the listeners. Hypothesis `EdgesAssumption` |
| `AgentProofs!RetriesTheorem` | `CommandInv`: an execution's runs so far have failed and their number tells its backend (`FailedSoFar`); `CallInv`: every attempt but the last failed in a way that may pass (`AttemptsFailed`), waits double up to their maximum (`WaitsDouble`) |
| `StoreTheorem` | `StoreInv`: one client at a time has a file in hand, and what it is about to write is what was asked |
| `SnapshotsTheorem`, `OutcomeTheorem` | `RunInv`: `Snapshots` (a step that was made has its snapshot and the journal says so), `Undo` (every write can be undone, and of the writes of one file the first holds what was there before), `Outcome`. A rollback goes backwards through a list with repetitions: the last restore of a file is that of its first write |
| `RoutesTheorem` | `RoutesInv`: a rule's confidence is at most `Faded[i]` after `i` failures in a row, and the other terms add at most `Lift` |
| `TurnProofs!AnswersTheorem` | `TurnInv`: `Kept` (no tool that ran is missing from the traces; `RanIn` against the sum of `runs`), `AtStage` (what the checks have established by each stage), `RunsInv`. Hypothesis `IsFiniteSet(Calls)` |
| `TurnTheorem` | the safety half of `TurnKeepsPromises` with `SupportInv` (two support agents at most): one lemma per action says what the step takes from each summand of the budget. The end of the turn is left to TLC |
| `TypesTheorem` | the types of the turn follow from `TurnInv`, those of skills and staged run from `SkillsInv`, those of commands and model calls from `CommandInv` and `CallInv`, those of the rules from `RoutesInv`. Hypothesis `IsFiniteSet(Calls)` |
| `WorkersTheorem` | `FitInv`: who works on a task is settled when it is routed, and the route is followed unchanged. Hypothesis `NamedApart`: no two agents of a configuration have one name |

Each proof has one lemma per action, or group of actions with the same effect,
and a lemma that combines them. Lemmas on helpers come first. A theorem about
one component of `Edges` or `Agent` rests on lemmas about the steps of that
component alone, and on `Steps`, `ListenerSteps` or `PartsStep`: a step of the
whole is one of the component or leaves its variables alone.

Where a definition is a recursive function or a fold (running totals, sums over
a set, Slack's envelopes), what it computes is proved by the least number for
which it would not (`LeastIn`, from the well-foundedness of the naturals):
`Sums` has such lemmas about `SumFunctionOnSet`, `MemoryProofs` about the token
counts, `EdgesProofs` about what is left of a queue.

Only model-checked: all liveness (`RequestsFinish`, `AcceptedResolved`,
`LearnedUnlessPanicked`, the end of a turn), which rests on fairness and
ENABLED; `WireIsFaithful`, whose codec is recursive over trees of nodes;
`BadRoutesPenalized`, which compares two sums of products and quotients of ten
terms each, rounded to integers, before and after a record: nonlinear
arithmetic that the provers do not find, and true of weights like those of the
run only (with `minConfidence = 0` a rule that is at 0 can be followed and
cannot fall).

## 6. Abstractions

- Ids, texts, names and payloads are numbers or model values. Exceptions, which
  are modelled by what they do: the candidates of a handle, the slice of a text
  that may panic, the codec of WhatsApp, the resolution of paths, the address of
  a reply, and the roles of messages on the wire.
- A message of working memory has a size in tokens; the estimate from the
  number of its characters is left out.
- What a model answers is one of the kinds that the code tells apart, and any
  of them may come; so may any verdict of a judge.
- The floating point numbers of the learned routes are integers of 1/10000.
- Signatures and nonces of identity: a check may go either way. A ciphertext
  opens under its key, nonce and associated data and under nothing else.
- The clock is monotonic: adjustments of `SystemTime` are outside the models.
- Token counters, thinking levels and metrics change no decision here.

## 7. Not modelled

- The plugin SDK (traits, builders, test doubles), and the start, health checks
  and shutdown of third-party plugins: what they call is not in the repository.
- Authentication and request ids: pure checks of one request.
- Metrics: monotone counters, but for the gauge that is read back.
- Configuration and the page that edits it: read once at the start.
- Of the stores, ranked retrieval (`query`, `build_context`), `query_filtered`,
  `list_active` and the read-only endpoints, which change nothing; trust levels
  and composite scores of identity.
- Streaming, JSON bodies, protobuf fields and cryptographic primitives:
  conversions without shared state.
- Prompts, event records and the wording of a turn; the word lists of the
  classifier and the measures of a text behind a verdict.
- The other commands of the CLI, fingerprinting, deployment and documentation.

## 8. What could follow

Theorems: for which policies a rejected answer lowers the rule it is recorded
under, which needs lemmas about rounded quotients; and the codec of
WhatsApp, if its recursion over trees of nodes can be put as a fold over their
depth. Models: ranked retrieval as operators against a reference, and an
abstract session table to say which part of "at most one session per key"
`Sessions` implements.
