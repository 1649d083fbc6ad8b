# A TLA+ model of cpa-github-copilot

The program is a reverse proxy that serves the OpenAI, Claude and Responses
protocols from a pool of GitHub Copilot accounts. One half of its logic is about
shared state: account objects that many goroutines look up, keep and change;
files that must agree with them after a crash; a dispatcher that walks over
accounts while they change; a memory budget with waiters; and streams that a
client, an upstream and a shutdown end at the same time. The other half is
translation: what a client asks in one protocol is asked of a model in another,
and the answer is translated back event by event, while it streams. The
modules here model both. TLC checks them on small instances, TLAPS proves the
central invariants of the first half for every instance.

Paths below are relative to the repository. `accounts.go`, `server.go`,
`security.go`, `affinity.go`, `config.go` and `management.go` are in
`internal/app`; `engine.go`, `runtime.go`, `stream.go` and `auth.go` are in
`internal/copilot`.

## 1. Inventory

### Components

| Component | State | Operations | Correct when |
|---|---|---|---|
| Account store (`accounts.go`) | `s.accounts`, the `account` objects with `raw`, `epoch`, `deleted`, `disabled`, `guard`, the flights `quotaFlight` and `refreshFlight`, the mutexes `s.mu`, `a.mu`, `s.persistMu`; files `auths/*.json`, `state/*.json` | import, update, delete, checkQuota, refresh, catalog, persistAuth, loadAccounts | the map holds the only live object; no late result changes a retired one; memory and files agree whenever no operation is half done; flights land |
| Budget guard (`accounts.go:22-31, 330-352`) | `Blocked`, `Reason`, `ResetAt` | block, postpone, lift, inherit | once blocked, an account stays blocked until its known reset time has passed |
| Dispatch (`server.go:241-525`) | `s.sequence`, `cooldown`, `cooldownKind`, `nextRefresh` | candidates, the walk of `inference`, retryAccount | no account twice, none that has been closed throughout, equal shares, 429 respected, every request answered |
| Session affinity (`affinity.go`) | `s.affinity` | bind, look up, expire | bounded, live bindings survive, a conversation does not fan out |
| Admission gate (`security.go:192-243`) | `used`, the channel `changed`, leases | acquire, resize, release | the count is what is held and within budget; no lost wakeup |
| Stream forwarding (`stream.go`, `runtime.go`, `engine.go`) | outputs, readers, stream tasks, `closed`, `streamWG` | Stream, the forwarder, emit, closeOutput, closeStream, Close | a cut answer is never taken for a whole one; nothing stays open; Close returns |
| SSE framer, terminal tracker (`stream_sse.go`, `stream.go`) | buffer; `status`, `reason`, `seen` | push, flush; observeSource, translatedFrame | a client of responses is told of success only when there was one |
| Stream translators (`internal/conversion/*/*_response.go`) | per stream: open blocks and items, buffers, indices, what was put off | translate one event; translate a whole answer | the client's stream is legal, has the same content and the right end, and equals the translation of the whole answer |
| Request converters (`internal/conversion/*/*_request.go`, `common/`) | per request: pending calls, outputs, reasoning | convert; repair the history | the endpoint accepts the request; nothing said is lost or moved; results meet their calls |
| Device login (`auth.go:324-626`) | sessions with secrets, capacity 256 | start, poll, complete, expire | bounded; one poll at a time; one account per session; no secret left behind; GitHub's interval kept |
| Authentication limiter (`security.go:113-190`) | failures per client, a bounded table | admit, record, forget | failures count, the table is bounded |
| Usage, logs, configuration (`server.go`, `config.go`) | counters with a dirty flag, snapshots of the configuration | recordUsage, flushUsage, saves | nothing counted is lost by a clean shutdown |
| Management API (`management.go`) | none of its own | HTTP over all of the above | – |
| Model catalog, quota parsing, request preparation, transport, web interface | none, or per request | pure functions | their data |

### How they interact

* HTTP handlers, the monitor's workers and the quota and refresh flights are
  goroutines that look an `*account` up under `s.mu`, drop the lock and go on
  with the object. `deleted` and `epoch` tell them later that it is no longer
  the account they meant.
* `persistMu` orders the file writes of different operations, but each takes it
  at another moment: `importAccount` before it reads anything,
  `updateAccount` and `persistAuth` just before the write, `checkQuota`
  after it has changed the guard.
* `inference` first asks the gate for memory, then takes a list of candidates
  and for each in turn waits for a quota check, a refresh and a catalog, all
  through the flights of the store.
* A request is converted to the protocol of the model's endpoint before it is
  sent. If the endpoint's protocol is not the client's, the forwarder of a
  streaming request passes each event of the upstream through a translator with
  a state of its own, and for a client of responses through the terminal tracker.
* A streaming request registers an output with the engine; the forwarder
  copies from the upstream body into the output's channel; the handler copies
  from the channel to the client. Each of client, upstream and `Engine.Close`
  can end this first.

### What is hard

Results that come back for replaced objects; values read before an unlock and
used after it; failing writes between changes in memory; a crash between two
files; lists taken before the accounts changed; a table at its limit; lost
wakeups; a shutdown that closes a body under its reader; a full channel whose
reader has gone; parts of an answer that stream interleaved in a protocol that
allows it and must come out one after the other in one that does not; answers
that break off; conversations that are resumed with calls nobody answered. `PROJECT.json` lists each at its line with the properties that
are about it.

## 2. Modules

| Module | Models | Extends or instantiates |
|---|---|---|
| `AccountStore` | one credential name: all objects that carried it, its files, the operations | instantiates `BudgetLatch` per object |
| `BudgetLatch` | the abstract specification of one guard | – |
| `AccountStoreProofs` | theorems about the objects, guards, flights and files of `AccountStore` | `AccountStore`, TLAPS |
| `MemoryGate`, `MemoryGateProofs` | the admission gate; its theorems | – |
| `Dispatch`, `DispatchProofs` | candidates, walk, affinity table; theorems | – |
| `StreamForward`, `StreamForwardProofs` | handlers, forwarders, output channels, Close; theorems | – |
| `DeviceLogin`, `DeviceLoginProofs` | login sessions, polls, expiry, clearing; theorems | – |
| `ChatProtocol`, `ClaudeProtocol`, `ResponsesProtocol` | a client of each streaming protocol: the events, which may follow, what they add up to | – |
| `OpenAIToClaude`, `OpenAIToResponses`, `CodexToClaude`, `CodexToChat`, `ClaudeToResponses`, `ClaudeToChat` | the stream translators, and their translation of a whole answer | the protocols they write |
| `Tables` | Go's maps and `sort.Slice`, as the translators use them | – |
| `ToChat`, `ToClaude`, `ToResponses` | a protocol and the translators to it, by their names in the modules below | instantiate them |
| `Upstream` | every stream an endpoint may send | extends `ToChat`, `ToClaude`, `ToResponses` |
| `TranslatedStream` | upstream, translator, terminal tracker and client composed | extends `Upstream` |
| `FoldFacts` | what a fold from the left keeps, for an operator and a property that an instance chooses | – |
| `TranslatorProofs` | lemmas about the translators and the clients alone | `ToChat`, `ToClaude`, `ToResponses`; instantiates `FoldFacts` per fold |
| `TranslatedStreamProofs` | theorems about `TranslatedStream` | `TranslatedStream`, `TranslatorProofs` |
| `Conversation` | messages and parts; the repairs in `conversion/common` | – |
| `RequestToClaude`, `RequestToChat`, `RequestToCodex` | the request converters by the endpoint they write for | `Conversation` |
| `TranslatedRequest` | a client that writes a conversation, and what the endpoint gets | extends `Conversation`, instantiates the converters |
| `MC…` | small instances: constant values and symmetry | the module of the same name |

Definitions named `…Unchecked`, `…Eager`, `Ranked…` and the like, marked `Mutant`
in a comment, are plausible mistakes in the code. Nothing uses them; each breaks
one property, which shows that the property notices the code.

### AccountStore

Files and map entries of different names share nothing but mutexes, so the module
has one name. `heap` keeps every object that carried the name since the process
started, because goroutines keep pointers to old ones; `cur` is the map's entry.
A goroutine's locals are in `op[p]`. An operation is cut where it drops a lock:

| Code | Actions |
|---|---|
| `importAccount` | `ImportBegin` (reads the current object or the state file under `persistMu`), `ImportWrite`, `ImportCommit` |
| `updateAccount` | `UpdateBegin`, `UpdateWrite`, `UpdateCommit` |
| `deleteAccount` | `DeleteBegin`, `DeleteFile`, `DeleteCommit` |
| `checkQuota` | `QuotaBegin`, `QuotaReply` (with `GuardAfter`), `QuotaSave` or `QuotaSaveFailed`, `QuotaDone` |
| `refresh`, `catalog`, `persistAuth` | `RefreshBegin`, `RefreshReply`, `PersistWrite`, `PersistCommit`, `RefreshDone` |
| process death and `loadAccounts` | `Restart`, at any point |

A document is reduced to identity, provider version, the disabled control and
the migration marker. A file operation may fail when `IOFaults`; `atomicWrite`
leaves the old file or the new one. A quota answer is one of fail, unknown,
allow, block with a reset time. Intervals are one tick of the clock.

### BudgetLatch

What a guard promises: it latches, learns a reset time once, moves it only to a
later cycle after it has passed, and lifts only after it has passed.
`AccountStore!Latch(o)` maps it to the object `o`.

### MemoryGate

`Arrive` chooses a declared weight, `Acquire` is one turn of the loop under
`g.mu`, `Wake` the closed channel, `GiveUp` the timeout or a client that left,
`Resize` and `Release` the lease. The channel `changed` is modelled by the set
`closed` of waiters whose channel was closed. The gate is always at least as
large as the largest body (`GateAssumption`), because `requestMemoryBudget` never
returns less than `maxInferenceBody`.

### Dispatch

`Begin` is `candidates`: filter, rotate by `sequence`, stable sort by priority,
promotion of the bound account, reservation. `AfterQuota`, `AfterRefresh`,
`Check`, `Send`, `Reply` are the critical sections of the walk. What quota checks
and refreshes do inside is `AccountStore`'s subject; here only their result
counts (`GuardMoves`, `Refreshes`). The priority of an account is constant;
`candidates` reads each account under its own lock and is one step here.
`shut`, `tried` and `limited` are history.

### StreamForward

One chunk of the upstream is one frame, and only whether it is the terminal one
matters. `Open`/`OpenFails`/`Start`/`StartRefused` are `Engine.Stream` and
`startStreamForwarding`; `Receive…` the handler's loop; `Read`, `ReadCut`,
`Emit`, `CloseUpstream`, `CloseOutput`, `LeaveTable` the forwarder with its
deferred end; `Shutdown`, `CancelTask`, `CloseTask`, `WaitForTasks`, `Stopped`
are `Engine.Close`. Cancelling and closing are separate steps because their order
matters. A handler's write may fail at any time (`Receive`, second disjunct),
because of the write deadline. The forwarder is the pass-through one. The cases
that matter at the end differ by client protocol: only Responses must see a
terminal event, and chat's `[DONE]` ends forwarding without being forwarded.

### DeviceLogin

`op[p]` holds the locals of one request: `Reserve` and `Insert` are the end of
`startLoginRequest`, whose check for room and insertion are two critical
sections; `Lookup`, `Look`, `Ask`, `TokenReply`, `Complete`, `ExchangeReply`,
`Drop` and `Land` are `pollLoginRequest` with the functions it calls, cut where
it drops a mutex or waits for GitHub. `Clear` wipes one session and is where
`Drop` and `Reserve` go on. Secrets are there or not. The clock is read at
`Reserve` and `Lookup` and used later, as in the code. `pollGitHubToken` reads
the device code without the session's mutex: besides the old or the new value it
may get a torn one while another goroutine clears it (`Ask`, second disjunct).
`asked` and `won` are history.

### The translated stream

An answer is a tree of parts: texts, thoughts, calls with arguments, searches.
A piece of text or of arguments is a number that is used once, so that one that is
lost, repeated, reordered or given to another part is seen. Arguments are whole
when their last piece is 0. Events are records with the fields the translators look
at; JSON, ids of messages, wording and usage figures are left out.

* The protocol modules are clients: `Receive` folds events into what the client has
  and goes to the phase `"wrong"` at an event its protocol does not allow there
  (a delta for a block that is not open, a second terminal event).
  They are what the services and clients around the code expect, and are
  marked external.
* `Upstream` sends any event that a client of its protocol would accept, within the
  bounds of a profile. The profile's `quirks` are what services do beyond
  the protocol and the translators have code for: names that come late, texts after a
  call, calls that are finished without being announced, items left open at the end.
* A translator is an operator `Translate(st, e)` from state and event to state with
  `out`, the events to send. Its fields are those of the Go state struct as far as
  the control depends on them; each operator is one function or one case of
  the code's switch, and `map` in `PROJECT.json` names its lines. `Whole` is
  the translation of an answer that does not stream, which is other code.
* `TranslatedStream` is `forwardTranslatedStream`: `Frame` takes one event through
  observeSource, allowsSourceTranslation, the translator and translatedFrame, as
  `emitFrame` does; `Hangup` is an upstream that ends without an error.
* `Said` is what a client has in the end: the text, the thoughts and the calls as
  sequences, the searches by their ids, and the `Course`, all parts in their order
  (neighbours of text or of thoughts are one part, as the translators merge them).
  `SameAnswer` compares everything but the course always, and the course where both
  protocols have one and the upstream sends one part at a time (the profiles with
  `open` = 1: Claude's, and a responses endpoint that does not overlap its items).
  Its one exception is the order of the calls from chat to Claude (section 4).

### The translated request

The client of `TranslatedRequest` writes a conversation part by part (`Speak`,
`Ponder`, `Call`, `Answer`); after every part the conversation so far is
converted. `quirks` say what a client does: resume after an interruption, send
results late, twice, without an id or for no call, remind in the middle of results.
Parts carry a number, so that what is lost or moved is seen. The converters are
written as folds over the messages, with the pending lists of the code as the
accumulator, followed by the repair passes in their order.

## 3. Runs

| Run | Instance | Shows |
|---|---|---|
| `store_guard` | 2 goroutines, 2 objects, imports (also with a migrated lock), deletes, quota checks, failing files, clock 2, fair | `FlightHasOwner`, `OnlyMappedIsLive`, `RetiredIsFrozen`, `ObjectsLatch`, `FlightsLand` |
| `store_sequential` | 1 goroutine, 2 identities, all operations, failing files, crash anywhere | `DiskIsCurrent`, `ControlsAreDurable`, `BlockIsDurable`, `CredentialLatch` |
| `gate` | 3 goroutines, 5 requests of weight 2, 3 or 5 in a budget of 5, fair | `UsedIsHeld`, `WithinBudget`, `NoLostWakeup`, `WaitersGetIn` |
| `dispatch_table` | 2 requests at a time, 2 accounts, 3 conversations, a table of 2, clock 3, TTL 2, deletions | `TypeOK` (with the limit of the table), `NoRepeat`, `RoundRobinShares`, `OneAccountPerConversation`, `LiveBindingsSurvive` |
| `dispatch_live` | 3 requests one after the other, 2 priorities, every kind of answer, users, guard, refreshes, outages, fair | `NeverServedWhileShut`, `Answered`, `RateLimitRespected` |
| `stream` | 1 chat stream, 5 frames, channel of 2, shutdown and disconnect anywhere, fair | `NoSilentTruncation`, `NothingHeld`, `QuietAfterClose`, `CloseReturns`, `AbandonedIsReleased` |
| `device_login` | 2 goroutines, 3 sessions of lifetime 3 in a table of 1, intervals 1 and 2, clock 4 | `PollHasOwner`, `OneAccountPerLogin`, `SecretsGo`, `GitHubNotHurried` |
| `translated_stream` | 9 profiles over the 6 translators: up to 3 parts, up to 3 of them at a time, 1 to 3 pieces | `DownstreamIsLegal`, `AnswerIsWhole`, `EndIsTold`, `SameAsWhole`, `SuccessIsEarned`, `EndRepeatsItems` |
| `translated_request` | 14 profiles over the 6 converters: conversations of up to 5 or 6 parts | `UpstreamAccepts`, `NothingIsLost`, `OrderIsKept`, `ResultsMeetCalls` |
| `stale_credential_write` | 2 goroutines: import and refresh | `DiskIsCurrent` is violated |
| `unequal_shares` | 3 accounts, the middle one of a lower priority | `RoundRobinShares` is violated |
| `unannounced_call` | an answer with an announced call and one that is not | `FinishedCallsArrive` is violated |

### Why the bounds are enough

* Store: a race needs one operation that holds an old object and one that
  replaces it, so two goroutines and two objects; a third object or goroutine
  repeats the same relations. The clock values give before, at and after a
  reset time, and `Resets` holds the zero time, passed ones and later ones. One
  refresh (`MaxVer`) tells an old document from a new one. The theorems of
  section 5 lift these bounds for what they cover.
* Gate: three requests make one that holds, one that waits and one that slips
  in between; weights 2, 3 and 5 make exact fits, misfits and the request that
  needs the whole gate.
* Dispatch: a table of 2 with three conversations is full and contended, and two
  accounts with two requests are enough to exchange their order between a choice
  and its reservation; `unequal_shares` has three accounts, the fewest with one
  between two others. `MaxPicks` bounds the requests of a behaviour. The theorems
  cover any number of requests, accounts and conversations.
* Streams: five frames outrun a channel of two and its reader. Streams share
  nothing but the flag and the loop of the shutdown; the theorems cover any
  number of them, each client protocol and every capacity. The
  run takes a chat stream, whose forwarder has no terminal event to insist on, so
  that only the order of the shutdown keeps a cut answer from passing for a whole one.
* Login: two overlapping starts in a table of one exceed it by one, and with a
  third session it would be seen if they exceeded it by more. A lifetime of 3
  leaves room for two polls before the expiry, for a slow_down that doubles the
  interval between them, and for one after it. The theorems cover any number.
* Translated stream: three parts are one that is open, one that comes between and one
  that is put off; one piece each tells whose it is, two tell their order. A profile
  has the parts of one kind of trouble at a time, because the product of all
  would not end; the translator's state per part is the same for further parts.
* Translated request: two calls, their results and two more parts are the
  shortest conversation with a result that comes late, one that comes twice and one in
  the right place.

Deadlock is checked for the gate, which has an explicit quiet state. The other
models are bounded (objects, time, requests, frames), so their behaviours come to
an end by themselves, as a stream that ended and a conversation that is complete
do, and their configurations say `CHECK_DEADLOCK FALSE`; the
liveness runs are what shows that nobody waits for everybody.

### Fairness, and why the code justifies it

* `AccountStore!FairSpec`: each goroutine that has begun an operation goes on.
  Provider calls have timeouts, and a Go mutex in starvation mode
  is handed to its longest waiter, so waiting for `persistMu` ends though others
  take it in between: strong fairness per goroutine.
* `DeviceLogin`, `TranslatedStream` and `TranslatedRequest` state no fairness: their
  properties are about safety only. A translator ends with each event.
* `MemoryGate!FairSpec`: runnable goroutines run and requests end; nobody has to
  arrive or give up.
* `Dispatch!FairSpec`: each step of the walk ends, because the flights it waits
  for land (`FlightsLand`) and Copilot's answer has a timeout.
* `StreamForward!LiveSpec`: handlers, forwarders and the closing goroutine are
  scheduled, and a write of the handler ends by the write deadline. Reading a
  frame, leaving and shutting down are not fair: the upstream may be silent
  for ever, the client may stay, the server may run.

## 4. Where the code and its documents disagree

Each of these is a run that TLC finds violated.

* **`stale_credential_write`** – `persistAuth` writes the file
  (`accounts.go:573`) before it looks at `deleted` and `epoch`. A refresh that
  began before a replacing import leaves the old identity on disk; the next start
  loads the account the user has replaced. The comment at `accounts.go:541`
  promises "rejecting credential replacement races" and "preserving user-owned
  controls". The same window undoes a disable: the user's controls are copied at
  `accounts.go:559` and written later, and a disable committed in between does not
  change the epoch, so a restart enables the account again.
* **`unequal_shares`** – `candidates` rotates all usable accounts and sorts by
  priority afterwards, so an account inherits the turns of lower ones before it.
  `README.md:170` says that priority is sorted first.
* **`unannounced_call`** – the fallback for a finished call that was not announced
  (`codex_openai_response.go:340`) works only for the first call of an answer:
  `findToolCallState` ends with the call seen last (`:611`), which gets the arguments
  of the new one or makes it disappear.

Seen while modelling and not kept as runs:

* The late write of `persistAuth` also recreates the file of an account that was
  deleted meanwhile (same cause as the first above).
* A block latched while an import has already copied the guard
  (`accounts.go:148`) is lost with the old object; a state save that was
  overtaken (`accounts.go:363`) writes an older guard over a newer one. Both are
  why the properties on durability are checked for one operation at a time.
* The error of removing the state file is dropped (`accounts.go:506`): a later
  account of the same name and identity inherits the state.
* A blocked migration marker in an imported file is replaced by the guard of the
  live account or of the state file with the same identity (`accounts.go:148`,
  `:160`), also when that one is not blocked; `README.md:157` calls the marker a lock.
  `store_sequential` has no such marker (`NoMarks`), and `BlockTheorem` assumes it
  (`Unlocked`).
* A 401 that comes after a 429 replaces its pause by one the next refresh ends
  (`server.go:515`): `RateLimitRespected` holds for one request at a time.
* Overlapping starts exceed the limit of 256 login sessions (`auth.go:363`,
  `:378`): `TableNearlyBounded` is what holds. A poll that outlives its session
  may put a token into an object that has left the table; nobody clears it, and
  it goes with the object (`SecretsGo`, `OneAccountPerLogin` except expired ones).
* A client that leaves during a read is logged as `service_shutdown`
  (`stream.go:593`), although the comment at `stream.go:151` keeps the two apart.
* A streaming request that Copilot refuses with a 4xx leaves no trace in the usage
  (`server.go:440-447`), and the last streams are counted after the usage was
  flushed (`server.go:168`).

Seen in the translators. The runs leave these cases out (a quirk no profile has, or
a condition in the property), because each would break a property:

* OpenAI → Responses: a text after a tool call goes to a message item that was
  finished. Calls without arguments have `{}` in their item and nothing in the last
  event. An answer of thoughts only has no terminal event, which the test
  `DoesNotCompleteReasoningOnlyStream` intends. A message is finished before the
  reason of a later end is known, so its status may differ in the last event
  (`EndRepeatsItems` ignores it).
* OpenAI → Claude: order is kept within the text, within the thoughts and among the
  calls, not between them. Text and thoughts that arrive while a call is open are held
  (`InterleavedContentChunks`) and told after all calls. A call whose name comes
  later than another's is told after that one, so of the calls one may go before the
  others (`SameAnswer`, for the quirk `late_name`). The translation of a whole answer
  tells the text, then the thoughts, then the calls by their indices
  (`openai_claude_response.go:878-897`), the stream tells a thought before the text of
  the same chunk (`:234`) and the rest as it comes: the same answer, streamed or not, may
  reach the client in another order. OpenAI → Responses has the same difference.
* OpenAI → Claude: a chat stream that ends with `[DONE]` or usage before any delta, or
  without `[DONE]`, leaves Claude's message unfinished. An answer that finishes with
  `stop` and has calls is `tool_use` when it streams and `end_turn` when it does not;
  arguments that are not whole are treated differently too (`SameAsWhole` asks for
  neither).
* Codex → Chat: the text of a message that was not streamed is dropped.
* Codex → Claude: when items overlap, what comes while a call is open is told after
  the calls, and a search when it is finished.
* Codex → Claude: `HasTextDelta` is never reset, so only the first message that comes
  without deltas is made up for. A search without a query is told when it streams
  and left out when it does not.
* Claude → Chat: the translation of a whole answer says `tool_calls` whenever there is
  a call, also when it was cut off; a full context window is told as `stop`.
* Requests to Claude: a conversation that the assistant began is passed on with its first
  message the assistant's, although `claudeMessageInvariantProblems` lists "first
  message is not user" (`claude_openai-responses_request.go:870`) among the shapes that
  Anthropic rejects: the responses converter logs it (`:540`), the chat converter does not
  look. `UpstreamAccepts` asks for a first message of the user in every other conversation.
* Requests: a result given again after its call was answered is dropped on the way
  from responses to a Claude model that takes no prefill, and so is then the
  assistant's message before it, which has become the last. Chat → Claude and the
  converters to chat and codex do not repair interrupted calls; chat → codex drops a
  second result. A user message that is a string, after a call nobody answered, lets a
  system reminder that was held back come after it (claude → chat).

## 5. Proofs

All constants are arbitrary within the named assumptions of each module.

**AccountStoreProofs.** From `StoreAssumption` and `MarksAssumption`.
`OnlyMappedIsLive` is not inductive: `ImportCommit` relies on what `ImportBegin`
read. `StoreInv` adds that a goroutine between two file steps holds
`persistMu` (`HolderHasMutex`), that under it the current object of an import
cannot have changed (`ImportIsCurrent`), and that operations work on objects that
exist (`WorksOnObject`). `OwnStep` and `ObjectStep` are the two shapes of steps
(locals only; locals and fields of one object), so each action is
one instance of a lemma. `RetiredTheorem` is the action property: every step
writes only to live objects or flights. `LatchTheorem` is the refinement: without
a restart, initial states map to initial states of `BudgetLatch` and each
step to a step or a stutter; the case analysis of `GuardAfter` is its heart.

`FlightTheorem` adds to `StoreInv` that the mark of a flight is up exactly while one
goroutine is between its begin and its end (`QueryOwned`, `RefreshOwned`, each an
equivalence and a uniqueness). Steps come in four shapes (flights kept, begun, ended,
and a new or restarted object), and each action is shown to have one of them for
each kind of flight.

What a restart finds: `DurableInv` says that the
credential file describes the account in memory or the document that an operation
under `persistMu` is about to commit, and which of the two by the program counter.
Two hypotheses keep out what the code does not promise, and both are named
definitions:

* `Exclusive`: operations come one at a time, or none of them is an update or a
  refresh. `persistAuth` and `updateAccount` copy what they write before they write
  it, which is the divergence of `stale_credential_write`. Under it `DiskTheorem`
  proves `DiskIsCurrent` and `ControlTheorem` `ControlsAreDurable`.
* `Alone` (one goroutine) with `Unlocked` (no lock carried over by migration), for
  `BlockTheorem` (`BlockIsDurable`): two of the disagreements of section 4 need a
  second goroutine or such a lock. `CredentialTheorem` (`CredentialLatch`) needs
  `Alone` only.

**MemoryGateProofs.** From `GateAssumption`. The invariant says that `used` is
bounded by the capacity, and that whoever waits on an open channel does not fit;
each decrease of `used` closes all channels. `HeldTheorem` is about an equation with
a sum over a set, which the model writes as a fold. `Sum` is that fold as a table over
all subsets; `SubsetInduction`, from the well-foundedness of the strict subsets of a
finite set, shows that every such table has the same entries (`TablesAgree`), from
which one holder more or less changes the sum by its units (`SumRemove`) and nobody
else's changes nothing (`SumSame`). That is why `GateAssumption` has finitely many
requests at a time.

**DispatchProofs.** From `DispatchAssumption`. `NeverServedWhileShut` depends on
history: `shut` is what has been closed since the request turned to its candidate.
`DispatchInv` says that `shut` holds closed accounts only, so that the second look
of `Check`, which finds the candidate open, proves it is not among them; an account
that opens is struck from every `shut` (`BecomesStep`), one that is refreshed or
paused keeps what `Closed` looks at (`PausesCloseNothing`). `TableTheorem` is
about counting: a full table of live bindings has one that expires first
(`NatHasLeast`, by the well-foundedness of the naturals), so `Kept` leaves room for
the new one (`KeptLeavesRoom`).

The other theorems need to know what sorting yields. `Ordered` puts at place `i` the
candidate that `i - 1` others come before; since `Before` is a strict order
(`BeforeIsOrder`), each candidate has one place and the first is the one nobody comes
before (`ListHead`). `WalkInv` then says of a request at work that what it tried and
what it has left are the list it began with, without a repetition: `RepeatTheorem`.
`BindingTheorem` is an action property of the table. The remaining three hold only
under what the code relies on:

* `RateTheorem`: one request at a time, or no 401 answers (`Single`, or
  `"auth" \notin Results`), because of the pause that a 401 replaces (section 4).
* `FanTheorem`: `Steady`, that nothing closes the accounts; otherwise the requests of a
  conversation have to be spread.
* `ShareTheorem`: the usable accounts have one priority; `unequal_shares` shows what
  happens otherwise. It is about division: the rotation puts each account first in
  every turn of as many requests as there are accounts (`RestIs`, `DivisionIs`).

**DeviceLoginProofs.** From `LoginAssumption`. The first part
proves types (with `Role`, what each program counter knows of its session) and
`TableIsNearlyBounded`, which compares the waiting sessions and the starts between
their look for room and their insertion by cardinality. The second has one
invariant for the four properties of the run: `Owned` (polling is up while its
goroutine is at work), `Doomed` (what is dropped or cleared has expired or belongs
to its goroutine), `Secrets`, `Accounted` (a session that gave its account is out
of the table or about to be) and `Paced` (a code that may be presented is not due
before its interval). They need each other: an account is single because the
poll that won drops the session before its mark goes down.

**StreamForwardProofs.** From the three assumptions of `StreamForward`.
`NoSilentTruncation` speaks of the verdict of the handler, but the reason for it
lies several steps back in another goroutine. `StreamInv` follows it:

* `Held(s)`: the phases of handler and forwarder, the body and the table of tasks
  agree. Its key conjunct is that a forwarder that reads or emits either has an
  open body or has been cancelled. This is the order of `cancel` and `closeStream` in
  `stopStreamForwarding`, and the reason why the end of a body that was closed by the
  shutdown is never taken for the end of the answer.
* `Honest(s)`: a terminal frame is in the hand, in the channel or delivered;
  an empty reason means that the upstream has ended the answer; an
  output closed for another reason still has its error item in the channel while
  the client stays.

`HeldStep` and `HonestStep` have one step per action. Items in a channel are
tracked with `Has`, for which `AppendFacts` and `TailFacts` say what sending and
receiving do.

**FoldFacts, TranslatorProofs, TranslatedStreamProofs.** The translators fold over events, calls and
pieces. The library's theorems on folds take operators as parameters, which no
installed prover can instantiate, so `FoldFacts` makes the operator (`Op`) and what
it keeps (`Good`) constants of a module: `FoldKeeps` is proved once, by induction over
the subsets of the indices as the community modules define `FoldLeft`, and each fold is an
instance. The induction is a hypothesis there (`Induction`), so that an instance
carries no library along; `IndexInduction` proves it, and each group of instances has a lemma
that discharges it. `FoldReaches` is the stronger form for a property that differs
from element to element. They cover operators written in the model, not recursion over
data of another shape. What concerns a translator or a client alone is in
`TranslatorProofs`: without the variables of `TranslatedStream` the provers have much
less to look at.

`EarnedTheorem` proves `SuccessIsEarned` for every upstream of `Upstream`, whatever
the bounds of its profile. It is not inductive: that an end is earned depends on what
the translator kept since the first event. `EarnedInv` adds, while the answer is under way,
that the translator is `Calm` (its tables are finite and its output has had no end
in it), that the client has no end, and that the tracker has status `incomplete` if
the upstream has cut or filtered the answer (`CutShort`). `ChatTranslate` and
`ClaudeTranslate` go through every operator of the two translators to a responses
client; `PassedFits` and `ReceiveTold` say that what the tracker passes on and what the
client makes of it is an end only if it has the tracker's status. TLC checked
`EarnedInv` on the instance of `translated_stream` before it was proved.

`LegalTheorem` proves `DownstreamIsLegal` for clients of chat and of Claude, on the four
routes `codex-chat`, `claude-chat`, `chat-claude` and `codex-claude`. A client accepts an
event only in some states, so what has to be invariant is that translator and
client are in step (`InStep`), and each route has its own reason:

* `codex-chat`: `CodexInStep` says that `index` is the index of the client's last
  call, all of the client's calls are identified, and every entry of the translator's
  table is one of them.
* `claude-chat`: calls are collected and sent whole, so `MessageInStep` also relates the
  translator to what the upstream has sent (`MessageGrows`): at most the
  block that is open is in the table, and its index is the client's next.
* `chat-claude`: calls may come interleaved, but a Claude message has one block
  open at a time. `BlocksInStep` says which one: the text or the thoughts that the
  translator remembers, or the call whose arguments it lets through, while what
  concerns the other calls waits in `held`. `Release` sends the calls that wait one after
  the other; `SendFold` shows that each leaves the client with no block open.
* `codex-claude`: calls may overlap and come before they are named, so the translator
  queues them. `QueueInStep` says that an active call is the head of the queue and owns
  the client's open block, that those behind it have sent nothing, and that what is
  deferred is content and calls only. When the queue runs empty the deferred events
  are replayed (`ReplayFold`), each of which leaves the queue empty again. A
  finished response may name calls that were never announced (`CallsFromTerminal`).

`EndTheorem` proves `EndIsTold` for clients of chat, unless the upstream stops a message of
Claude because its context window is full (`window`; it is told as `stop`, section 4). The
reason to finish is told by one event and the calls by many before it, so `EndInv` counts
along: from Claude, the calls begun so far are there exactly if the message has
blocks that call tools (`Counted`), and the upstream stops with `tool_use` exactly for such
a message (`MessageStops`); from responses, the last event gives the reason that fits
its status and the client's calls (`CodexFinish`), and names a cut-off only when it is
incomplete (`EndReasons`). `EndFrame` takes one event through, on top of `LegalInv`.

What the upstream may send matters as well: the two translators to Claude rely on a
call being announced before its arguments and on an item not being finished
twice (`ChoiceStep`, `ResponseGoesOn`, `CodexShapes`). The statement holds between
events: the output is cleared at the next one (`ChatCleared`, `ClaudeCleared`), and the
tracker passes all of it on to a client that does not speak responses (`PassedAll`).

Only model-checked: all liveness properties and fairness, and of the translated
streams and requests everything but `SuccessIsEarned`, `DownstreamIsLegal` to chat and
Claude, and `EndIsTold` to chat. `EndRepeatsItems` relates every item of the client to the translator's
record of it, and so does `DownstreamIsLegal` for clients of responses; `AnswerIsWhole` and
`SameAsWhole` compare what whole sequences of events amount to, and the
request properties what a chain of folds and filters makes of a conversation.
For clients of responses two of the upstream's quirks would have to be excluded from a
theorem, and the profiles of `translated_stream` do not combine them with that
route: text after a call (a chat completion may go on with it, but
`OpenAIToResponses` has finished the message by then), and a call without any arguments, which
`CallDone` finishes with `{}` (openai_openai-responses_response.go:584) while the last
event repeats the arguments as they were collected, empty (`:203`).

## 6. Not modelled

JSON documents, HTTP routing, logging and the web interface; the SSE framer,
because the models begin with events; of the translators everything that is not a
part of the answer or the conversation (sampling parameters, tool definitions,
images, signatures, usage); request preparation (`executor.go`, `grok_responses.go`);
the model catalog and quota parsing, whose results are chosen from small sets;
a shutdown during a translated stream; the authentication limiter; usage counters;
`listAccounts` and `readCPAGuard`, which only yield views and the marker of
an imported file; what `Engine.Close` discards of the login sessions when the
process ends; signal handling. Pre-emption inside a critical section is not
modelled: the code's mutexes exclude it.

## 7. Plan

Done, in this order: the store, because everything else trusts the object it looks
up; dispatch, streams, the gate and login; the translated streams and requests;
proofs for the store's flights and files, dispatch, the gate, login, the terminal
tracker, the streams to clients of chat and of Claude, and the end that chat is
told. Open:

1. Proofs: `EndIsTold` for clients of Claude and responses, `EndRepeatsItems`, and `DownstreamIsLegal` for clients of responses: each
   open item of the client is one that the translator has open, with the same body.
2. `UsageLedger`: `recordUsage`, `flushUsage` and the order of `Close`
   (`server.go:159-175`, `:594-623`), and `AuthLimiter` (`security.go:113-190`). Both
   are small; they would share a run with a component that is proved by then.
3. `SSEFramer`: for every way to cut the input, the same events.
4. Composition of gate, walk and flights: a request waits for memory, for a flight
   and for an answer, and is answered.

There are twelve runs; a property that a theorem states and a run need not repeat
(`TypeOK` of the store, the gate, the streams and login, `TableNearlyBounded`) is not
in a run. All of them were checked by TLC before they were proved.
