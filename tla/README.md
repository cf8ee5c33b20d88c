# Formal models of oma-server

TLA+ models of the concurrent core of oma-server (`src/com/ohmyagent`), the TLC
runs that check them on small instances, and the theorems TLAPS proves about
them for every instance. `PROJECT.json` holds the run list, the code lines every
definition models, the hazards and the theorems.

The server is a Go process, several of which may serve one database (MySQL or
SQLite). Every HTTP request, WebSocket frame and background task is a goroutine.
Use cases read and write the database one statement at a time, with no
transaction around a read and the write that depends on it, and there are caches
in memory that the database does not know of. What can go wrong is therefore
mostly in what happens *between* two statements, and that is what is modelled.
The other half of the core is the conversion of one conversation into five
providers' protocols and back, which is sequential and modelled as such.

## Inventory

Paths are below `src/com/ohmyagent/internal`.

| Component | State | Operations | Hard part | What makes it correct | Module |
|---|---|---|---|---|---|
| Chat rooms and membership (`application/messaging/service.go`, `adapter/out/db/messaging_repository.go`) | `chat_rooms`, `chat_room_members` | CreateGroup, CreateDirect, AddMembers, LeaveRoom, KickMember, AdminDeleteRoom | kind, creator and membership are checked by statements before the one that writes | a 1:1 room keeps its two members; one 1:1 room per pair; events stay in the room; a creator is not thrown out | `ChatRooms` |
| Typing cache (`typing_cache.go`) | room -> member list, five seconds, bounded | get, put, invalidate | a fill that overlaps a change | stale only after a late fill; bounded | `ChatRooms` |
| Messages and read positions | `chat_messages`, `last_read_at` | Send, Edit, Delete, MarkRead, Unread, History | edit against delete, event order, timestamps in seconds taken before the insert | deleted messages stay empty; the last event told is what is stored; nobody's position goes back; pages miss only ties | `ChatMessages`, `Mailbox` |
| Hub, presence, broadcasters (`hub.go`, `broadcaster.go`, `messagingbus/redis.go`, `chat_ws_handler.go`) | connections, send queues, Redis channel | Register, Unregister, SendToMembers, Broadcast, both pumps | a close against a send, full queue, lost publish, order of online/offline | no send on a closed channel; one order; last presence told is the true one; dead connections leave | `ChatHub` |
| Members and roles (`application/auth/usecase.go`, `member_repository.go`, `cmd/api/main.go`) | `members` | Create, ChangeRole, SetActive, Delete, seeding of the super admin | authorisation and write use rows read earlier | unique names; one super admin whom nobody touches; only he raises; the deleted stay deleted | `MemberAccounts` |
| LLM providers (`application/llmprovider`, `adapter/out/llm/cache.go`) | `llm_providers`, cached adapter per instance | Create, UpdateConfig, Activate, Delete, GetActiveAdapter, seeding | cache fill against invalidate; key kept by read-then-write | one active provider; the adapter used is the active one's | `Providers` |
| Provider adapters, agent and chat turns (`adapter/out/llm`, `application/agent`, `agent_handler.go`, `chat_handler.go`) | locals of one stream | ChatStream of five adapters, building of requests, events to the client | fragments out of step, ids that providers do not give, failures half-way | the answer is whole; results reach their calls; one stop and nothing after it | `Streams`, `TurnStream`, `Turns` |
| Token quota (`application/quota`) | counters, limits, cached defaults | Check, Add, ResetUsage, SetMemberLimits, SetDefaultLimits | check and add are far apart; a cached copy of the defaults | overshoot bounded by the turns in flight; windows agree; the copy is true | `Quota`, `Turns` |
| Tool policy (`application/toolpolicy`) | policy, overrides, a copy of each | UpdateSettings, UpdateMemberPolicy, reload, EffectivePolicy | reloads that overtake each other; empty lists | copies are true | `ToolPolicy`, `Turns` |
| Transcripts (`application/transcript`, `adapter/out/transcript/recorder.go`) | settings, backend in use, bounded channel, worker | Record, Close, UpdateSettings, purge | a record after the close; a full channel; a swap under the worker | what was queued is saved or its failure logged; backend and switch are the stored ones | `Transcripts`, `Turns` |
| Service accounts and keys (`application/serviceaccount`) | accounts, keys | CreateAccount, DeleteAccount, IssueKey, RevokeKey, Authenticate | account and keys revoked by two statements, a key issued between | a revoked account's agents fall silent | `ServiceAccounts`, `Access` |
| Agent registry (`application/agentregistry/usecase.go`, sweeper) | `agents` | Register, Heartbeat, Deregister, AdminDelete, sweep | upsert and reload around the sweeper; MySQL's count of changed rows | 404 only for an agent that was removed | `AgentRegistry`, `Access` |
| A2A broker (`broker.go`) | signing key per instance | EnableBroker | two instances start with no key | all instances sign with one key | `Broker`, `Access` |
| Session settings (`application/session`) | settings row, store and cap in memory | UpdateSettings, reload | reloads overtaking each other, a fallback | store and cap are the stored ones | `SessionSettings`, `Conversations` |
| Projects and conversations (`application/project`) | rows, bodies in a store | UpsertProject, DeleteProject, UpsertConversation, DeleteConversation | cap by check-then-act; body before row | a row has its body; the cap is passed by a bounded number | `Conversations` |
| Agent chat sessions (`application/chatsession`) | `chat_sessions` | Upsert, Delete | ids chosen by clients; owner checked before the write | a session holds what its owner put | `AgentSessions`, `Conversations` |
| Client-version manager, chat attachments, tokens and request security, HTTP plumbing, web console, configuration, logging | little or none shared | | | not modelled, see below | |

How they interact: the chat handlers call the service, which calls the
repositories and then the broadcaster (the local hub, or Redis and every
instance's hub). Every administrative use case asks the auth use case for the
actor's row first. A turn asks the quota, checks its tools against the policy,
takes the active provider's adapter from the cache, streams, hands a transcript
to the recorder and adds the usage. Headless agents sign in with a service
account's key before they reach the registry. Settings are read from the
managers' copies, which a change reloads on the instance that served it.

## Plan

1. `ChatRooms`, `ChatRoomsProofs`. **Done.**
2. `MemberAccounts`; `AccountsProofs`, with what item 8 needs. **Done.**
3. `Providers`; `LLMProofs`, with what item 6 needs. **Done.**
4. `ChatMessages`, the abstract `Mailbox`, `ChatMessagesProofs`. **Done.**
5. `ChatHub`, `ChatHubProofs`. **Done**, with liveness.
6. `Streams` and the abstract `TurnStream`; `LLMProofs`. **Done.**
7. `Turns`, which composes `Quota`, `ToolPolicy` and `Transcripts` over the constants
   of `Server`; `TurnsProofs`. **Done**, with liveness.
8. `Access`, which composes `ServiceAccounts`, `AgentRegistry` and `Broker`;
   `AccountsProofs`. **Done**, with liveness.
9. `Conversations`, which composes `SessionSettings` and `AgentSessions`;
   `ConversationsProofs`. **Done.**

Left: `ChatRooms` composed with `ChatHub` (several rooms whose members differ
while connections come and go); the client-version manager.

The modules take their sets of accounts, rows and goroutines as constants and have one action
per statement or local step of a handler. What goes over a sequence or a set (`Streams`, the
sums of `Quota`) is written with recursive functions or the folds of the library, and the
proofs about it rest on `Induction`.

## How the code is read

* A request is a goroutine; a function of the goroutines (`req[p]`, `handler[h]`,
  `push[h]`, ...) holds where its handler is and the locals it still needs. One action
  is one database statement (or one transaction), or one critical section of a lock.
  Guards come from the code's conditions; an early return ends the request.
* A statement that fails was not applied, and the handler's error is returned.
  (A commit whose answer is lost would add behaviours in which an applied write is
  followed by nothing more; a crash or an abandoned request covers those where the
  modules have one.)
* Ids are drawn when the row is inserted, from a finite set or a counter with a
  bound. In the modules of items 1 to 4 nothing else is bounded: requests start for
  ever, and the state spaces are finite because rows are sets and records. The
  composed modules of items 7 to 9 take a *plan*, drawn in `Init`, which says how
  often each kind of event may still happen; an action that uses the plan up spends
  it. Plans never restrict how the events interleave.
* Where a pair of operations may cross, and the code lets them, the property says
  "unless crossed", and a history variable (`late`, `stale`, `crossed`, `mixed`,
  `policyStale`, `settingsStale`) records exactly that: it is set by the step that
  overtakes, and cleared by the next change that nothing overtakes. No guard reads a
  history variable, so they take no behaviour away.
* Tokens are not modelled. A token names its member, and the chat does not look
  the member up again, so any account may be the actor of any request at any
  time.
* Names, texts, timestamps that no property reads, logging and HTTP status codes
  are left out.
* A definition that no action and no property uses, most of them commented "With a
  fault", is a variant of the one after it as a plausible bug would have it: put in its
  place it breaks a property, which shows that the property is not vacuous. The
  specifications never refer to them.

### `ChatRooms`

`room` and `members` are the two tables, `posted` the rooms that have a message,
`cache` the typing cache of one instance. `during` and `late` are history
variables: who was a member of a request's room at some time since it began, and
which entries were put after a change they had missed. Invalidating the cache
and broadcasting are one step: the first is a critical section, the second does
not touch this module's state. An entry that has expired is kept, with its list
dropped, because it still counts against the cache's limit.

### `MemberAccounts`

`row` is the table `members`, reduced to username, level and active flag. A
request reads its actor, then its target, then writes the row it read with one
field changed, as `MemberRepository.Update` does. Starting instances are
goroutines that list the super admins and insert one if there is none; every
instance is configured with the same `SeedAdminUsername`, which is what makes
the unique index on `username` the guard against two super admins.

### `Providers`

`row` is the table `llm_providers`, `cache` the provider each instance's
`llm.Cache` holds, `inst` where each instance is: down, seeding the defaults (with
the locals of `seedDefaultProviders`) or serving. `late` is a history variable,
the instances whose cache was filled with a provider that had changed since the
fill read it.

* `Activate` is one transaction (everything off, one on), the only one here; every
  other step is a statement or a cache access. Invalidation is local to the
  instance that served the command.
* A configuration is reduced to its stored API key: an update replaces all the
  rest, and what can go wrong is the key it carries over.
* `GetActive` takes the provider updated last if there are several; the model
  takes any, which only adds behaviours.
* An instance starts with or without seeding (`Config.SeedsInitialAdmin`), serves
  only once seeding is over, as `run` builds the server after it, and may crash at any step. A default
  whose insert fails is skipped, and seeding has by then given up the need for an
  active one: there may be none, which the code allows.
* The administrator gate of the commands reads another table and is left out: any
  command may arrive at any time. `TestConnection` changes no state.

### `ChatMessages` and `Mailbox`

One room. `row` is the table `chat_messages`, `in` and `lastRead` the members and
their `last_read_at`, `clock` the time in seconds, as the code stores it (0 is
never). `req` is where each handler is, between its reads, its clock reading, its
write and its broadcast. The steps are those of `SendMessage`, `EditMessage`,
`DeleteMessage`, `AdminDeleteMessage`, `MarkRead` and `History`. How members come
and go is the subject of `ChatRooms`; here anybody joins or leaves at any time,
with any join time up to now.

* `told` is a history variable: what the last event about a message said. It is
  `Unsure` once requests about the message overlapped (nothing orders their events),
  or an event was lost: the process died, the room was deleted under the request, or
  `AdminDeleteMessage` could not read the members after its write. Those are the
  cases in which the code promises nothing.
* A text stands for all a message says, attachments and mentions included.
* The checks of `ownMessage` come in the code's order: the message, its author and
  its deletion, then the membership, then the write.
* `pager` is a client, outside the repository, that asks for the page before the last
  message of the page before, as the query of `History` allows. Messages of one second
  come in any order, as the SQL orders by the time only.

`Mailbox` is what the store promises of each message: absent, then live, edited any
number of times, then deleted, or gone with the room. `Box` maps the row of a message
to its stage: an id that was not drawn is absent, one whose row is gone is gone.
An edit prepared before a deletion and written after it is a stutter, since the
statement of the edit leaves deleted messages alone; that is the point of the
refinement.

### `ChatHub`

Connections on several instances, the hub of each, and the broadcaster between them.
`reader` is `Serve` with `readPump`, `writer` is `writePump`, `wire` the connection
itself; `hub` holds the registered connections of every instance, `queue` and
`closed` a connection's `Client.Send`. A call of `SendToMembers` takes the
connections registered when it gets the read lock and offers the event to one after
the other (`sending`, `Deliver`); a full queue drops it. `Register` and `Unregister`
take the write lock and so wait for every call of their instance (`Unlocked`). With
Redis, `Publish` reaches every instance or none, in one order, and each instance has
one loop that hands over one event at a time (`BusLoop`); Redis is external.

* `got` is the history of what entered a queue, `told` the presence last told about a
  member, `crossed` the members of whom two changes of presence were told at once, or
  one could not be told because `CoMembers` failed.
* All members share a room: who is in which is the subject of `ChatRooms`. What an
  event says is that of `ChatMessages`; here it is a number.
* The peer may leave with or without a word, or stop reading, which is the same to the
  server: the wire is dead, and reads and writes fail at their deadlines.

### `Streams` and `TurnStream`

The agent loop of one client: `Ask` sends the history, `Connect` converts it to the
provider's form (`Build`, one operator per adapter), the provider says text, thoughts,
calls and pieces of arguments in any order its protocol allows, `On` (one operator per
adapter) folds each event into the adapter's locals and passes a chunk on, and
`FinalEvents` writes the calls and the stop. The provider is external. An error may
end the turn at any point, and the client may leave.

* A call carries its *origin*, the turn and its place in it, beside the id the client
  knows it by. No adapter reads the origin; the properties use it to tell whether a
  result reached the call it answers, also when Gemini sends no ids and every turn's
  first call is `call_1`, and when the provider was switched between two turns.
* The client may return results in another order, with or without the function's name,
  and with a system message between: `Forms`. Gemini's form looks a missing name up by the
  call's id (`NameFor`); Ollama's has none (`GivenName`); the others have no place for it.
* Texts, arguments and token counts are numbers; whether arguments parse is a Boolean.

`TurnStream` is what the route promises whoever reads the events: deltas, then tool
calls, then one stop; or at most one error and nothing after it. `StreamContract` is
the refinement, with the kinds of the events written as `read` and `Status` as
the state of the turn.

### `Turns` with `Quota`, `ToolPolicy`, `Transcripts` and `Server`

`Turns` is the life of a turn in `AgentHandler.Chat` and `ChatHandler.Stream`:
`Begin`, `FindLimits`, `Admit` or `Refuse`, `EnterGate` and `PassGate` (the two reads of
`EffectivePolicy`), the provider's answer (`Answered`, or `Broken`), `RecordTurn`, and
`CountTurn` under `accountingCtx`. The client may leave after the answer, and the
server may be told to stop at any time: `Signal`, `StopRecorder` (the recorder is
closed when the HTTP server has stopped or given up waiting for its handlers), `Exit`. A
handler that is still at work then may panic on the closed channel, which `Handle` recovers:
`RecordPanics`.

* `Quota`: `copy` is the cache of the default limits, `checks` the locals of `Check`.
  Days, weeks and months are counters of the clock; `Monday` and `First` are the days on
  which a week and a month begin, so that the three windows start over at different
  times. `WriteDefaultLimitsElsewhere` is another instance, whose change does not empty
  this one's copy. `stale` says why the copy may differ: it was read before a change
  (`"crossed"`), or the change was made elsewhere.
* `ToolPolicy` and `Transcripts`: `reloads` and `updates` are the reloads that follow
  each administrator's change, `late` those that read before a later change was stored;
  `policyStale` and `settingsStale` name what may leave a copy false: a crossing, a failed
  reload, a backend that could not be built.
* `Transcripts`: the worker takes a transcript, then saves it in whatever backend is in
  use by then; `PurgeReads` and `PurgeDeletes` are the retention job.
* `fate` is the history of every answered turn: what became of its record, and of its count.

### `Access` with `ServiceAccounts`, `AgentRegistry` and `Broker`

A headless agent is let in if its key is usable and its account is not revoked
(`Authenticate`, one query), and then registers, sends heartbeats or deregisters
statement by statement.

* `ServiceAccounts`: `DeleteAccount` revokes the account and, by a second statement which
  may fail, its keys; `IssueKey` looks the account up and saves a key later. A key may run
  out at any time.
* `AgentRegistry`: a row keeps the id it was inserted under. MySQL counts the rows an
  UPDATE *changed*, so a second heartbeat within a second counts none: `Touch` then goes
  on to `Verify`, and only a row that is not there to `Classify`, which answers 404.
  The sweeper computes its cutoff (`Cut`), and its DELETE may run later. Ages stop
  counting where they no longer make a difference (`MaxAge`).
* `Broker`: an instance that starts loads the newest key, or makes and saves one.
  Keys of one second are tied, and `LoadKey` may take any. `crossed` says that an instance
  found no key while another was making one.

### `Conversations` with `SessionSettings` and `AgentSessions`

One member's pushes of conversations: `Begin` finds the project, `Find` the conversation,
`Cap` and `Count` apply to a new one, `SaveContent` writes the body to the store in use,
`UpsertConversation` the row; `PushFails` ends a push anywhere, and `SaveTears` one that writes a
file, which is truncated first and may be left without a whole body. Bodies are keyed by
store, project and conversation id, as the stores key them. Everything is scoped by
owner, so one member stands for all.

* `alone` is a push that nothing met so far; `mixed` are the conversations whose last
  pushes met, or of which one broke off while a file was written or between body and row,
  or lost its project. The
  next push that is alone repairs them, and the model says so by taking it out of `mixed`.
* `SessionSettings`: `store` and `defaultMax` are each atomic, but not the pair.
* `AgentSessions`: ids are the clients' own, so two members may use one; of a session's
  contents only whose they are is kept.

## Runs

| Run | Instance | Shows |
|---|---|---|
| `chat_rooms` | 3 accounts, 3 room ids drawn in order, a cache for 1 room, 2 goroutines (`Focus`) | `DirectRoomsKeepTheirPair`, `OneDirectRoomPerPair`, `CreateDirectAnswersStoredRoom`, `EventsReachOnlyMembers`, `TypingEntryStaleOnlyIfLate`, `CreatorStaysUntilHeLeaves` |
| `member_accounts` | 3 ids, 3 usernames, 2 goroutines | `TypeOK`, `UsernamesUnique`, `AtMostOneSuperAdmin`, `SuperAdminsUntouched`, `OnlySuperAdminsRaise`, `DeletedStayDeleted` |
| `providers` | one instance, 3 ids, 2 names which are the defaults, 1 key, 2 goroutines | `AtMostOneActive`, `CacheStaleOnlyIfLate`, `UpdatesKeepActivation`, `SeedsOnlyMissing` |
| `chat_messages` | 2 accounts, 2 messages, 2 texts, 2 goroutines, clock 1..2, pages of one message | `TypeOK`, `LastEventTrue`, `PagesMissOnlyTies`, `ReadPositionsForward`, `MailboxSpec` (the refinement) |
| `chat_hub` | 2 connections, of one member or two, on one instance or two; queues of 1, Redis holds 2; in memory mode 1 frame and both peers may leave, with Redis 2 frames and none does | `NeverSendsOnClosed`, `OnceInOneOrder`, `PresenceTrueUnlessCrossed`, `DeadConnectionsEnd` (liveness) |
| `streams` | all five adapters, in any order; an answer with 1 piece of text and 2 calls, then one with 1 call, then a third request that carries everything back in three forms | `AnswerWhole`, `ResultsReachTheirCalls`, `StreamContract` (the refinement) |
| `turns` | 1 member, 2 handlers, 2 administrators, 2 tools, a day of one tick, a queue of 1, 1 or 2 tokens a turn, 6 plans | `CountersAgree`, `CopiesTrueUnlessCrossed`, `OvershootBounded`, `AnsweredTurnsCounted`, `QueueDrains` (liveness) |
| `access` | 2 accounts, 2 keys, 2 administrators, 2 agents, 2 instances, retention 1, the sweeper's DELETE up to 1 tick late, 4 plans | `HeartbeatMissesOnlyRemoved`, `SharedKeyUnlessCrossed`, `RevokedFallSilent` (liveness) |
| `conversations` | 2 handlers, 2 projects, 3 conversations, 2 texts, 2 administrators, 2 members with one session id, 2 PUTs at once, 5 plans | `SettingsTrueUnlessCrossed`, `RowsWholeUnlessMixed`, `CapOvershootBounded`, `SessionsAreTheirOwners` |
| `session_cap` | as `conversations` | violated: `CapHard`. The conversations are counted before the row of a new one is inserted, so two new ones that meet at the last place are both stored, though `project/service.go:2`, `domain/project/model.go:17` and `docs/API-SPEC.md:694` call the cap hard |
| `streams_truncation` | as `streams` | violated: `TruncationTold`. Gemini's `MAX_TOKENS` is told as `end_turn` (or `tool_use`), though `docs/API-SPEC.md:338` gives `max_tokens` for an answer cut at its limit |
| `tool_allowlists` | as `turns`, with two disjoint allow lists | violated: `MembersOnlyNarrow`. The intersection of two disjoint allow lists is the empty list, which allows every tool, though `docs/API-SPEC.md:117` says that a member's override only narrows the global policy |

### The bounds and why they are enough

*Rooms, accounts, providers, messages.* Every property is about one room or about two
rows, and every step reads and writes one room (or one row) at a time; two goroutines
give every pair of interleaved handlers, and a third party is only ever a state
the first two find. Three accounts are an actor, a target and a bystander.
`chat_rooms` needs three room ids, so that a pair's room can be deleted and created again
while the loser of a race still holds the first. Its constraint `Focus` lets that happen
while nothing else is going on, and lets requests do whatever they can with the room of
the last id once the others are gone, the opening of the pair's chat again included: sending
and membership changes of one room do not touch the state of another, and no step reads the
messages that were sent (`NoneLeft`). Its room ids are drawn in order, which is what symmetry
of them would come to. The theorems need none of this. In
`providers` three ids are the two defaults and a provider an administrator adds,
which may take the name of a default before or after the instance dies half-way through
seeding. Accounts, goroutines and the ids of the other runs are interchangeable and declared symmetric. No run with a
liveness property uses symmetry.

In `chat_messages` two messages and pages of one are the least with which a page
can be missed; two seconds are the least with which messages are ordered, or tied.
Two texts tell an edit from what it replaced. Two state constraints keep the run
short, and cut off only what the properties do not relate: `PagingWithSenders` (while the client
pages, only senders work beside it, since no page depends on texts, deletion marks
or read positions) and `OneReader` (one account at a time has a read position,
since each position is about one account).

*`chat_hub`.* Order and presence relate two connections: two devices of a member, or
one each of two members, on one instance or two (`MCPlaces`). A queue of one is full
after one event, so drops happen; two frames are the least that can be reordered.
Leaving and ordering are separated by mode only to keep the run short: with Redis there
is one order whoever leaves, which the theorem shows without the bound.

*`streams`.* Two calls are the least that can be swapped, mixed in pieces or confused;
the second turn's call is the one whose generated id collides with the first's, and the
third request is the one in which both stand. Three forms of the results cover order,
names and notes.

*`turns`, `access`, `conversations`.* Each plan holds the events of one question
(`MCTurns`, `MCAccess`, `MCConversations` list them): four turns with a limit and two
midnights, changes of limits, policy or settings in pairs (two are the least that
cross), a purge, a shutdown with a client that leaves; revocations with keys being
issued and running out, removals of agents, first starts that cross and restarts; more
pushes than the cap, two projects with deletions, changes of the store. Two requests at
once are the least that meet. `MaxSecond` 1 gives tied and untied keys. The plans are separate because
the state they are about is; the theorems do not depend on any plan.

### Deadlock and fairness

Deadlock is checked in `chat_rooms`, `member_accounts`, `providers` and `chat_messages`, where requests keep coming. In the others the system really may
stop: connections are used once, answers end, plans run out, the process exits.

Most runs need none: their properties are safety properties, and nothing in the code
forces a request to arrive. Three specifications assume this much:

* `ChatHub`: weak fairness of the steps of `Serve` once the peer is gone (`ReadEnds`: the
  read deadline passes), of `Unregister` (a writer waiting for Go's `RWMutex` keeps new
  readers out), of what a connection does after it is registered (the database answers),
  of the write pump's writes, of `Deliver` and of `BusLoop`. Nothing is assumed of peers,
  pings, posts or new connections.
* `Turns`: weak fairness of `Work`, the recorder's worker, which waits only for its
  channel and the store.
* `Access`: weak fairness of a request that was let in, of the clock, of the sweeper's
  ticker, and of the end of a sweep one way or the other; strong fairness of a DELETE
  that succeeds, since an agent can only be swept if not every DELETE fails. Agents
  and administrators promise nothing, so an agent may register until the last moment
  at which it is let in, and also complete a request that was let in before.

## Abstract specifications

`Mailbox` is refined by `ChatMessages` and `TurnStream` by `Streams`. Both are
checked as properties of a run, and proved.

## Proofs

All proofs are from the named assumptions of the modules (finiteness of some sets, ranges
of bounds, distinct names of the defaults) and nothing else; they hold for every value of
the constants, plans included. Each follows one pattern: an inductive invariant, one lemma
per action or per part of the state that shows it is kept, and the property as
its consequence. Every safety property, action property and refinement that a passing run
checks is also a theorem.

`Induction` states induction over numbers and over finite sets, and that a function
defined by recursion over either exists, as lemmas about *sets* and *functions* (`NatInduct`,
`FiniteInduct`, `NatRecursion`, `SetRecursion`): the library's induction theorems take an
operator, which the provers cannot instantiate, whereas a set defined by a formula they can.
A recursive definition in the modules is `CHOOSE` of the function that satisfies its equation; the
lemmas give one that does, so the definition does too. `Sum`, `Only`, `FlattenSeq`
and `ClaudeBuild` are unfolded in this way.

`AccountsProofs` proves the safety properties of `MemberAccounts` for any
number of accounts, usernames and goroutines, from `MemberAssumption` alone.
`UsernamesUnique` and `AtMostOneSuperAdmin` are not inductive: the invariant
`IInv` adds that undrawn ids have no row, that a super admin carries the seeded
username, that a request which is past its check has an actor level that
controls what it holds, and that no request holds a copy of a super admin's
row. One lemma per action shows that `IInv` is kept; the action properties
follow from `IInv` and the same case split. It also proves the two safety properties and
`TypeOK` of `Access`. `RegistryInv`: ids are below
`nextId`, no two rows share one, the id an agent holds belongs to no other owner's row, and
an agent about to be told 404 holds an id that is not stored. `BrokerInv`: an instance that is up has a stored key,
the latest of those it could see, and while nothing crossed there is one key, or one
instance about to save the first. `RevokedFallSilent` is liveness and stays with TLC.

`LLMProofs` proves the safety properties of `Providers` from
`ProviderAssumption`, for any number of ids, names, defaults, keys and
goroutines. `TypeOK` and `UpdatesKeepActivation` hold on any number of instances,
by `Base`: undrawn ids have no row, and a handler past its first step runs on an
instance that serves and knows its provider. `AtMostOneActive`,
`CacheStaleOnlyIfLate` and `SeedsOnlyMissing` are proved under `OneInstance`
(`Instances` has at most one element): two instances that seed at once may each
activate a provider, so the first needs it. None of the three is inductive: seeding decides from statements
it ran earlier, so `IInv` adds `Steady`: while the instance seeds, nothing is
cached, a need for an active provider still means that there is none, and every
stored name was found stored or is a default already gone through. `Steady` is
kept because a handler runs only where the instance serves (`Served`), and
`Steady` asks nothing of an instance that does (`ServingSteady`). The names of the defaults being different is an assumption, and
`SeedsOnlyMissing` rests on it.

`LLMProofs` also proves the three properties of `Streams`, from `StreamsAssumption`, for any number of turns,
pieces, calls and results, in three layers.

* `StreamContract`, from `Frame`: types, and what is still to be written and has been in each
  phase (`Order`). Every step of `Streams` is a step of `TurnStream` or leaves what the client
  read, and how the turn stands, as they are.
* `AnswerWhole`, from `Answering`, which adds to `Frame` that the adapter's locals hold exactly the
  calls the provider began, each once and with the pieces said so far (`Collected`), the reason
  and the usage as they were said (`Concluded`), and that what a reading client has seen,
  followed by what is still to be written, is the text so far and the final events
  (`Passed`). Where pieces are mixed the calls come out in the provider's order because a list
  of different numbers has exactly one ordering (`ByKeySorts`), and no call is missing because a finished answer began
  an initial segment of them (`Increasing`).
* `ResultsReachTheirCalls`, from `Conversed`: the history is a `Conversation` (the calls of
  an answer have ids of their own, a turn calls in one message, each call has one result and each result its call, and only
  results of the same turn and system messages stand between), and what is sent is made of it.
  `ContinuationFacts` shows that what a client adds is a conversation of the new turn, in any of
  its forms, and `Continued` that two conversations about different turns make one. A request then
  `Traces` its history: every part comes from a message (`Sourced`), in the messages' order
  (`Ordered`), and no result is lost (`Complete`). OpenAI's, Ollama's and Gemini's requests, and the items of
  OpenAI's responses, are made message by message (`Renders`, `Rendered`); that Gemini's results bear the name of the right
  function, although ids repeat from turn to turn, is `NamesFound`: the last call with the id
  before a result is the one it answers. Of Ollama's the property asks for the name only where
  the client gave it, since nothing in the code finds it otherwise. Anthropic's collects results into one message, so the
  induction over the messages carries that calls which may still be answered are in
  the last message sent (`LastCalls`), which puts their results into the next (`Adjacent`).
  `Delivered` draws the property from the trace.

`ChatMessagesProofs` proves `TypeOK`, `ReadPositionsForward`, `LastEventTrue`,
`PagesMissOnlyTies` and `MailboxSpec` for any number of accounts, messages, texts, goroutines and seconds,
from `MessageAssumption`. All rest on `Base`: the types, that an id not drawn has no
row, that exactly the deleted messages say nothing, and what the locals of a
handler hold at each of its steps. `LastEventTrue` is not inductive: `Agree` adds,
for a message about which nothing is `Unsure`, that at most one request has written
it and not yet told, that this one will tell what is stored, and that whoever is
about to edit it still finds it stored and not deleted. `ImplementsMailbox` maps each
step to one of `Mailbox` or to a stutter: `PostStep`, `EditStep`, `DeleteStep` and
`RemoveStep`, the rest leaves `Box` alone. `PageInv` makes paging inductive: of what was
there at the first page, what is not yet shown either shares its second with the end of a
page or is older than the last one shown; the messages that ended the pages are still there
as long as any of the first ones is; and a page is empty only when nothing is left.

`ConversationsProofs` proves all four properties for any number of handlers,
conversations, administrators and members. `SessionsInv` is the property with types: an
owner is asked for again by the statement that writes. `SettingsInv` accounts for the
copies: each is the stored one, or a change has not come to it yet, or a late reload is
still to come or has been. `WholeInv` adds `IdsInv` (an id is
used for one conversation only) and `Undisturbed` (a push that is still alone finds its project and its
conversation as it left them). `CapInv` counts the conversations that are there together
with those let in but not yet written (`Claimed`): counting happens only below the cap and
every handler claims one at most, which is what makes the bound survive deletions.

`ChatRoomsProofs` proves every property of `ChatRooms`, and the bound of the typing cache,
from `ChatAssumption`. `IInv` adds to them what the locals of a handler promise at each
step: which room it is about and of what kind (`LocalRoom`), and that every list of
members it holds was true at some time since the request began (`LocalList`).

`TurnsProofs` proves `AnsweredTurnsCounted`, `OvershootBounded`,
`CopiesTrueUnlessCrossed` and `CountersAgree`, from the assumptions of the four modules. `ServedInv` ties
the handlers to the history of their turns and to their quota checks. The overshoot is not
inductive: `SteadyInv` says that the counter, plus the most that the handlers who have
been let in may still add, stays below the limit plus the most that all may add.
`PolicyInv` and `SettingsInv` account for late reloads as in `Conversations`.
`CountersAgree` is inductive given the types: a turn adds the same to today's counter and to those of
this week and month, which are sums that today's is part of, and all other sums leave it out.

`ChatHubProofs` proves the three safety properties and `TypeOK`, from `HubAssumption`, for any
number of instances, members and connections. `HubInv`: the hub holds exactly the
connections whose reader registered and has not left, exactly those that left are
closed, and a call under way sends to registered connections of its instance only; the
write lock is what keeps the last. `PresenceInv`: of a member nobody crossed, one change
at most waits to be told, and it is the one that made the hub as it is. `OrderInv` looks at
the *line* of a connection, what was put into its queue, then what a call is about to
offer it, then what Redis holds for its instance: an event is once in a line at most, only
events that were sent are in one, and with Redis no two lines have two events in opposite
orders.

### Only model-checked

`QueueDrains`, `RevokedFallSilent` and `DeadConnectionsEnd`: liveness under fairness is out
of the prover's reach, as is ENABLED. `AtMostOneActive`, `CacheStaleOnlyIfLate` and
`SeedsOnlyMissing` are proved and checked for one instance only, since they do not hold of two.

What the three violated properties say is refuted, not proved: each is a sentence of the
documents that the code contradicts. For the cap `CapOvershootBounded` says, and is proved
to say, how far what is written may be missed: by fewer conversations than are served at once.

## What the code lets happen

The documents are contradicted where the runs `session_cap`, `streams_truncation` and
`tool_allowlists` show it. Not every surprise contradicts a document, and the models contain these behaviours without
a property that forbids them. `PROJECT.json` lists them as hazards with their lines.

* A message or a member can be inserted into a room that was deleted meanwhile; nobody
  reaches the row any more.
* A role change writes the whole account it read, and so may switch an account on again that
  was switched off meanwhile; an update of a provider that gives no key may undo one that has
  just stored a key.
* A message's time is taken before it is stored, in whole seconds: a mark read that is
  written in between makes it read for its reader before he could see it.
* A new member is not in a cached list of a typing event for up to five seconds, if the
  list was read before he came and stored after the invalidate; and not for the same time on
  other instances, whose caches nobody invalidates.
* Two instances that seed an empty database at once may leave two active providers. The
  code takes the one updated last.
* Two first starts of the broker may leave two keys; instances agree again when they
  have restarted, if the keys are not of one second.
* A key issued while its account is being revoked is stored unrevoked; what keeps it out is
  that `Authenticate` asks for the account too. When revoking the keys fails, trying again is
  answered 404.
* A push of a conversation whose body the database holds already fails on MySQL, and an
  agent session put twice in one second is answered 404 there: an UPDATE that changes
  nothing counts no row.
* A transcript that meets a full queue is dropped, and a turn that ends while the process
  closes may record on the closed channel: the panic is recovered, and the turn not counted.
* A result that the client returned without the function's name reaches Ollama with an empty
  one. The name is optional in a request, and the call's id is sent all the same.
* Two requests about one message that overlap may be told in the other order than they were
  stored, and a moderator's deletion is not told if the members cannot be read after it.
* An event whose publish fails is lost on every instance, the sender's own included; one that
  meets a full queue is lost for that connection.
* Settings that were saved but not reloaded are in the database and not in the process, until the
  next change.

## Not modelled

* *The client-version manager* (`application/clientversion`) saves and reloads in the same way as the
  session manager, and nothing else depends on its copy.
* *Chat attachments* are stored once and read back by id. *Tokens and request security* are
  pure functions of their input; an A2A token outlives the revocation of its account, as any
  signed token does until it expires.
* *HTTP plumbing, the web console, configuration, logging*: parsing, rendering and wiring.
  Login, profiles, passwords, mention feeds and the dashboards run single statements that
  touch nothing a property is about.
* *Of the adapters*: the fields of thinking blocks beyond whether they come back first, tool
  schemas, sampling options and caching marks.
* *Copies on other instances*: the managers' copies of a second instance are never reloaded
  when the first changes the settings, except for the quota's, which expires
  (`WriteDefaultLimitsElsewhere`).
