# rancher-compose-executor in TLA+

The executor is a small Go process. Rancher's server (Cattle) tells it over a
websocket that a stack ("environment") is to be created; the executor reads the
stack's compose text, makes the services through the Rancher API and reports the
outcome. Most of its logic lives in packages under
`src/Godeps/_workspace/src/github.com/` that are built into it and drive it:
`rancher/go-machine-service` (events, locks), `docker/libcompose/project`,
`rancher/rancher-compose/rancher` and, for its connection, `gorilla/websocket`.
This project models the parts of them that the executor runs.

File names below are short: `locks.go` and `listener.go` are
go-machine-service's, `project.go`, `service-wrapper.go` and `utils.go` are
libcompose's (`interpolation.go` too), `service.go`, `sidekick*.go` and
`context.go` rancher-compose's, `conn.go` is gorilla's.

## Inventory

| Part | State | Operations | Must be right |
|---|---|---|---|
| locks (`locks.go`) | the set `lockedItems` owned by goroutine `locker()`; requests on an unbuffered channel; one answer channel per call | `Lock`, `Unlock` | exclusion, no lock left behind, no caller blocked for ever |
| event router (`listener.go`) | channel of free workers; the websocket; one goroutine per event | `Start` with its read loop, `Stop`, `DoWork`; registration: `removeOldHandler`, `createNewHandler`, `subscribeToEvents` | the pool neither shrinks nor grows; every way out of `DoWork` unlocks and returns the worker; an event is dropped only for lack of a worker or because its stack is being worked on |
| websocket (`conn.go`) | place in the current frame, `readFinal`, `readErr`, `closeSent` | `ReadMessage` over `NextReader`, `Read` and `advanceFrame`; `WriteControl` | messages whole and in order whatever comes between their fragments; one close frame; the end noticed |
| main (`src/main.go`) | none | starts the router, ends with it | – |
| create handler (`src/handlers`) | none of its own; replies sent to Cattle | `CreateEnvironment`, `constructProject`, the replies | "done" only for what has been created; one verdict per delivery |
| project traversal (`project.go`, `service-wrapper.go`) | `launched`, `ignored`, one WaitGroup and error per service | `traverse`, `startService`, `Do`, `waitForDeps`, `Wait` | dependencies first, no circular waiting, errors reported, nothing at work after the return |
| sidekicks (`sidekick*.go`, `service_factory.go`) | maps between primaries and sidekicks | `NewSidekickInfo`, `DependentServices` | part of the dependency graph |
| Rancher service (`service.go`) | none; services and links in Rancher | `Create`: `findExisting`, `createService` for four types, `getLinks`, `setupLinks`, `Wait` | what nil means for the caller; no service made twice |
| Rancher context (`context.go`) | the API client, the stack | `fixUpProjectName`, `open`, `loadEnv` | the stack the services go to is the event's |
| interpolation (`interpolation.go`, `src/lookup`) | none | `Interpolate`, `Lookup` | substitution, errors for malformed text |
| parsing and merging (`merge.go`, `types_yaml.go`) | the map `Configs` | `Parse`, `Load` | – |
| log listener (`src/handlers/log.go`) | one goroutine per project | prints project events | – |

How they interact: the read loop hands a message to a worker goroutine through
the channel of free workers; workers share the lock table through channels and
Cattle through the API client, nothing else. A handler builds one `Project` per
event, and that project's goroutines share its wrappers through WaitGroups. All
that outlives an event is in Rancher: stacks, services, links and the replies.
So a restart forgets every lock and every unread message, and a retry meets the
services of the attempt before.

What is hard: requests of several workers at the lock goroutine, and `Unlock()`
returning before the key is free; redelivered events; a full pool; replies whose
acknowledgement is lost; the process ending in the middle of handlers; goroutines
that start while the graph is still being walked in the arbitrary order of a Go
map; cycles; processes that register at the same time; a connection that ends
within a message; two calls where one look is stale by the time of the other.
`PROJECT.json` lists these hazards at their lines.

## Modules

- **LockTable** – the promise of package locks: a call is granted at an instant
  at which nobody owns the key, or refused at one at which somebody does.
- **Locks** – the package itself. `sendq` is the queue of senders blocked on
  `lockRequests`, `lockReq` the request `locker()` holds between its receive and
  its next one, `response[c]` the buffered channel of c's request. `Receive` is the
  rendezvous (it ends `Unlock()`), `Serve` the body of the loop.
- **StackCreation** – the promise to Cattle: one event of a resource at a time,
  replies only from an event being worked on, "done" only for a created stack.
- **EventRouter** – `main()`, the read loop, `DoWork()` and the create handler.
  `wire` is the websocket, `workers` the channel of free workers, `pc[w]` and
  `job[w]` the goroutine of worker w. One action per step that another goroutine
  or Cattle can see: each API call and publish is one. The lock is the table Locks
  implements; a stack is one of empty, valid, invalid, dollar (its text makes the
  interpolation panic) or stuck (its `project.Create()` never returns: see the finding
  below). `Panic` is the end of the process by that text or by an event that is JSON's
  null, whose nil pointer `DoWork()` follows (listener.go:163). A publish is acked,
  unacked (it arrived, its answer did not) or lost. `Exit` stands for a closed
  websocket, after which `main()` ends; `Start` is the process started again by
  whoever runs it. The registration before the read loop is part of `Start`; the
  websocket is a queue that loses what was not read when the process ends.
- **MessageStream** – the promise of `ReadMessage()`: the peer's messages one by one
  and in order, until the connection fails; then the last ones may be lost, or one
  more is returned that the peer did not finish.
- **WebSocket** – the goroutine of the read loop inside `ReadMessage()`, and a peer
  that sends any frames. `rpc` is in `NextReader()` ("next"), in the reader's
  `Read()` ("read") or on the way out; `r`, `readRemaining` and `readFinal` are the
  place in the stream. A payload is a sequence of units, so that the messages
  returned can be compared with `said`, which `Hear` computes from the frames the way
  RFC 6455 reads them. A write may fail, with a part written or not, or time out
  before it begins; then `closeSent` is not set.
- **Registration** – `Start()` before the read loop, for several processes: the list
  of active handlers, deactivating and removing each of them, waiting for Cattle's
  transitions, making the new one, subscribing. `Exit` is any error of a call, the
  limit `MaxWait`, a crash or the end of the connection.
- **RancherStack** – `open()` and `loadEnv()`, then `RancherService.Create()` for
  the four types of service, by several handlers at once. `lower` and `norm` are the
  conversions of names (`strings.ToLower`, `fixUpProjectName`), given by what they
  do to each name; `StackAssumption` says that they are idempotent and agree.
- **Interpolation** – `parseLine()` and the functions below it, one step per
  character; `marks` records what had been read and written after each write, so
  that the result can be cut into the parts the tokens stand for.
- **ComposeProject** – `Project.Create()`. `path` and `todo` are the call stack of
  `startService()`; `gpc[s]` is the goroutine `serviceWrapper.Do()` of service s;
  `exists`, `created`, `linked` are the services in Rancher. All orders of map
  iteration are explored, because every choice in the walk is an `\E`. Every
  RancherService is of type "service". `Create` of a Sidekick does nothing, as in
  `EmptyService`. `external` are the links that are looked up and not waited for:
  external links, and links with blanks around the name, which `getLinks()` trims and
  the dependency graph does not. A name of another stack is one of `Missing`: its
  look-up fails if there is no such stack, and what it finds there is not recorded.
- **MCLocks, MCEventRouter, MCComposeProject, MCRancherStack, MCInterpolation** –
  constants for TLC; WebSocket and Registration are run as they are.
- **LocksProofs, EventRouterProofs, ComposeProjectProofs, WebSocketProofs,
  RegistrationProofs, RancherStackProofs, InterpolationProofs** – theorems and
  proofs.

EventRouter's abstraction of `project.Create()` (it returns nil, or an error, or
never) is what ComposeProject looks into; its `Start` is what Registration looks
into, its wire what WebSocket does, and its lock is what Locks is shown to
implement. RancherStack takes one service of ComposeProject and adds the stack it
goes to, its type, other handlers, further attempts and the users of Rancher.
Operators marked "Mutant" are plausible mistakes: each property is shown to fail
when one of them takes the place of the code's step.

## Runs

| Run | Shows |
|---|---|
| `locks` | three clients, two keys: exclusion, no call forgotten, every call returns, LockTable is implemented. Three clients are needed for a queue of two behind a request being served; deadlock is checked. |
| `router` | two workers, the event of one stack delivered twice, a second stack and a message that is no event, both of which may make the process panic, all outcomes of a publish, one restart: exclusion, an intact pool, events dropped only for a cause, a final verdict for each before its lock is given back, StackCreation is implemented. Two workers meet on one resource and find the pool empty; one restart is enough to lose every kind of volatile state, and nothing volatile survives to tell a second one from the first. |
| `router_live` | a valid, an empty and an invalid stack, a ping on the resource of one of them, a blank message: workers return, handled events get a verdict, an event with a worker and an idle resource is handled. No restart (a killed handler answers nobody), no stuck stack, and replies arrive. |
| `links` | all 512 graphs of links over three services, up to renaming, and every order of the walk: dependencies first, only true cycles ignored, nothing stranded, no circular waiting, every step an advance; deadlock is checked. |
| `stacks` | nine files with sidekicks of one and of two primaries, namespaces, external links, undefined names and cycles, with failing API calls and services left by an earlier attempt: what the result says is true, nothing runs on after the return, and for the six files without a hard cycle `Create()` is never stuck and returns. |
| `websocket` | three frames of up to two units, of every kind and in every order, and every end of the connection: MessageStream is implemented, so messages are whole and in order; none is lost, pongs and one close frame are written, the end is noticed. Three frames are a message in two fragments with a control frame between them, and a message behind another; two units are a payload cut off in the middle. |
| `registration` | two processes, two exits at any point besides those by a refused call, and transitions that fail: old handlers go first, one handler and no refused call unless registrations overlap, a handler in the end. |
| `stack_services` | two handlers, two deliveries each, stacks whose names are changed by case or by a special character and whose project names differ or collide, a case-sensitive database (the theorems hold for both kinds), a DNS service and one of type "service", one removal by a user, failing calls and crashes: the right stack, no twins, what nil means, why the process panics. |
| `interpolation` | every text of up to five characters over seven kinds of character, with variables whose names are prefixes of each other and whose values look like variables or numbers: tokens and refusals are right, exactly the sequences of tokens are accepted, every step goes forward; deadlock is checked, so the scan ends only with a result. Five characters are a name in braces with a character before or behind it. |
| `cycle_reported`, `websocket_whole`, `number_text` | findings, see below. |

Deadlock checking is off where the program may stop: in the router and the websocket
when the other side sends nothing more, in `registration` and `stack_services` when
everybody is done, and in `stacks` and `cycle_reported` because files with a hard
cycle really hang. Message sets are finite: `CattleSend` sends each message once,
and a redelivery is a second message with the same resource. The bounds are the sets
in the MC modules, `MaxExits`, `MaxRuns`, `MaxRemovals`, `MaxFrames`, `MaxLen` and
`MaxText`.

**Fairness.** Weak fairness of each goroutine's next step: the Go scheduler runs
every runnable goroutine. In Locks a client that holds a lock gives it back,
because `DoWork` defers `Unlock()`, but nobody is made to call `Lock()`. In the
other modules a step contains the API call it makes, so fairness also says that
API calls return. The code does not ensure that (the HTTP client has no timeout and
`RancherService.Wait` polls without a limit); the liveness results hold as long as
Cattle answers. In WebSocket the goroutine is fair and the peer is not. In
Registration Cattle's transitions end, and a process that has exited is started
again, which is up to whoever runs it.

**Findings.** *A cycle hangs the handler* (`cycle_reported`). A Sidekick depends
on its primaries, and not optionally. If its primary links to it, or two sidekicks
join each other's namespace, `startService()` returns "Cycle detected in path"
(project.go:300), which `traverse()` drops (project.go:345). The services on the
path are marked launched and have no goroutine, so `traverse()` waits for them for
ever (project.go:354). The handler never replies and its worker and lock stay
taken. Whether it happens can depend on where the walk starts.
`OnlyHardCyclesStrand` (run `links`), `NeverStuck` and `CreateReturns` say that
nothing else strands a service or blocks the call.

*A message that is cut off is taken for a whole one* (`websocket_whole`). When the
connection ends within a payload, `Read()` returns the network's io.EOF as it is
(conn.go:735-741), `ReadAll()` takes it for the end of the message, and
`ReadMessage()` returns the part with a nil error. The package's documentation tells
the caller to "read until io.EOF is returned" (doc.go:47-48).
`ImplementsMessageStream` allows this as `DeliverUnfinished`, and the theorem
`DeliversWholeAlways` says that it is the only way a message can be wrong. The event
router hands the part to a worker, whose JSON decoding then fails.

*Numbers do not come back as they were* (`number_text`). `parseConfig()` makes an
integer of every text of digits; the comment at interpolation.go:118-119 says that
go-yaml will convert it back where a string is wanted, but `007` comes back as `7`.

Behaviours the properties allow for, on purpose, because the code has them:
a "done" whose acknowledgement is lost is followed by an "error" for the same
delivery (`VerdictIsFinal` counts acknowledged replies), and a link ignored on a
cycle is left out if its target is not there yet (`LinksComplete` excuses
`ignored`), as is one named by an external link. A service found by a retry is not linked again; `LinksComplete` and
`NilMeansComplete` speak of the services made by the call, and of a transition
that has ended, well or badly. A handler goes to another stack than its event's
when the name of its stack is changed by more than case, and then makes a new stack
of that name (`OwnStack`); two stacks with one project name share their services.
Two processes that register at the same time may leave two handlers
(`OneUnlessOverlapped`), and a handler left inactive by a process that ended
between deactivating and removing it is never removed, because the list asks for
active ones only (listener.go:271). An external, DNS or load balancer service
that a user removes while it is being made is looked up as nil, and the panic
ends every handler (`PanicNeedsRemoval`). A text that ends in a single `$` makes the
scanner read behind its end, which is a panic too (`Refusal`), and it ends every handler as well (`Panic` of
EventRouter).

## Proofs

TLAPS proves the following for every value of the constants. The assumptions are
those of the modules: none for Locks; for EventRouter `RouterAssumption`, which
only types the constants (any pool, any finite or infinite set of messages, any
number of restarts); for WebSocket, Registration and Interpolation types of the
constants; for ComposeProject and RancherStack the assumptions named below.

- **Locks**: `LockInv` is inductive. Exclusion alone is not: it needs to know that
  the map holds the key of every owner (`TableMatchesOwners`), that a request in
  the queue or in `locker()`'s hands agrees with its client
  (`QueueMatchesClients`, `ServedIsWaiting`), and that an answer waits only for a
  waiting client (`AnswerIsAwaited`). The second half of `TableMatchesOwners` says
  that nobody owns a key whose UNLOCK is being served; this is where the early
  return of `Unlock()` could go wrong. Type correctness, `MutualExclusion`,
  `NoLeakedLock`, `NoCallIsLost` and the refinement of LockTable follow. `NoCallIsLost`
  is the safety half of `CallsReturn`: what fairness has to add is that `locker()` goes
  on with its loop. In the refinement a call is
  decided when `locker()` answers, and released at the rendezvous of `Unlock()`; a
  LOCK served later finds the key deleted, because one request is served at a time.
- **EventRouter**: `RouterInv` is inductive. The lock table is exactly the
  resources of the workers between Lock and Unlock (`LocksMatchHolders`); each
  message is in one place (`MessagesAreUnique`), without which two workers could
  hold the same delivery and `VerdictIsFinal` would not be preserved; after its verdict
  a delivery can only unlock and return (`FinalIsLast`); a worker about to say
  "done" may say so (`ReadyToReply`); a process that is down holds nothing
  (`DownIsIdle`). `MutualExclusion`, `NoLeakedLock`, `PoolIntact`,
  `DoneImpliesCreated`, the action properties `VerdictIsFinal`, `DroppedForCause` and
  `VerdictBeforeUnlock`, and the refinement of StackCreation follow. `DroppedForCause`
  needs `LocksMatchHolders` (a lock found taken has a worker behind it) and
  `PoolIntact` (an empty channel means that all are at work). The two say without
  fairness what `IdleResourceIsHandled` and `HandledIsAnswered` say with it: no way
  through the code passes an event over or ends without a verdict.

- **ComposeProject**: `ProjectInv` is inductive, for every set of services and
  every set of compose files (`ProjectAssumption` types the constants and keeps
  defined and undefined names apart). `WalkInv` says that every service on the path
  of `startService()` reaches the ones after it; stated for all pairs, it needs no
  induction over the path, and it makes a dependency found on the path close a cycle
  (`IgnoredOnCycle`) and a hard one the only reason to end the walk early
  (`OnlyHardCyclesStrand`, with `LaunchInv`). That a service on the path has no
  goroutine yet is what lets `DepsFirst` survive `Launch`. `ReturnInv` relates the
  result to the services waited for. `ServiceInv` and `LinkInv` follow a service and
  each of its links through the look-ups; a link is found because its target, not
  ignored, has ended (`DepsFirst`) and, unless it failed, exists.
  `NoCircularWait` is not about cycles of any length: it says that among any
  goroutines one waits for none of the others, which `Launch` keeps if a new goroutine
  is waited for by none that exists. That is `WaitInv`, kept together with it: what a
  service on the path still waits for has been left by the walk, except the next one on
  the path. Applied to the goroutines that have not ended it gives `NeverStuck`, that
  the caller or one of them can go on unless there is a hard cycle; and every step is
  progress (`StepsAdvance`, over the phase, the launched services, the walk and the
  goroutines). With finitely many services these two are `CreateReturns` but for the
  fairness.

- **WebSocket**: `ConnInv` is inductive, for any number of frames of any length.
  What has been returned is related to what the peer has said up to the last header
  read, by place: between messages they are the same (`NothingSkipped`), at the end
  of a frame the buffer is the peer's open message or the last complete one
  (`AtFrameEnd`), within a payload it is what was said before with the units read
  so far (`InPayload`), and after an error only the message cut off is too much
  (`AfterError`). `Heard` ties `said` to the frames; a failed write may drop unread
  frames but changes nothing that was read (`SameUpTo` in the proofs). `CloseOnce`
  says that a close frame is only written on the way out. `DeliversWhole`,
  `NothingLost` and `OneCloseAndAllPongs` follow. For the refinement of MessageStream
  the invariant is strengthened to `StreamInv`: what was said up to a frame is a prefix
  of what was said later (`SaidGrows`), a payload is cut off in the last frame only
  (`CutIsLast`), and once a cut message has been returned nothing comes behind it
  (`CutIsReturnedLast`). A partial write that drops frames is then a `Lose` or `Close`
  of MessageStream: it drops unreturned messages, and the last ones.
- **Registration**: `RegInv` is inductive, for any set of processes. A process that
  has deactivated a handler is the only one at it (`OneOwner`), because Cattle refuses
  a second deactivation, and the handler is in the state its steps brought it to
  (`CurStage`); so what a process's loop has passed is gone (`RestIsGone`). Without
  overlap one process registers at a time and knows every current handler
  (`OneRegisters`, `CurrentIsTodo`). `OldGoneBeforeNew` and `OneUnlessOverlapped`
  follow. That Cattle refuses nobody who registers alone (`RefusedNeedsOverlap`) needs
  one fact more, that what is left of such a process's list is still active
  (`TodoIsActive`).
- **RancherStack**: `StackInv` is inductive, for any number of handlers and any
  names with `StackAssumption`. A stack that was made has the project name of one that
  could not be found (`MadeForLost`), and a handler whose project name is its own
  finds no service, then only its own one, in its stack (`Knows`): nobody else
  has that stack. `OwnStack`, `NoTwins`, `NilMeansComplete` and `PanicNeedsRemoval`
  follow.
- **Interpolation**: `ScanInv` is inductive, for texts of any length and any
  variables. `Place` says where each function is, relative to the last mark, and that
  the name in its buffer is the part of the text behind it; earlier marks are not
  disturbed, because a write only appends (`MarksInBuffer`). `Expansion` and `Refusal`
  follow, so no induction over the text is needed.
  For `Verdict` the scanner must not have gone the wrong way: `OnEveryWay` says that
  every division of the text into tokens has a cut where the scanner's last mark
  is, because at most one token begins at each place (lemma `TokensAreUnique`).
  `ScanAdvances` follows from `Place`.

The type invariants, `NoLeakedLock`, `DoneImpliesCreated` and `DeliversWhole` are proved
and no longer part of a run: the invariants and refinements that the runs check imply
them or would be broken with them.

Only model-checked: all liveness properties (`CallsReturn`, `WorkersReturn`,
`HandledIsAnswered`, `IdleResourceIsHandled`, `CreateReturns`, `EndIsNoticed`,
`EndsRegistered`), because fairness is out of the prover's reach.

## Not modelled

- Decoding YAML and merging files. The executor gives no `ConfigLookup`, so a file
  with `extends` or `env_file` is an error, and otherwise the parser's outcome, a
  valid or invalid text and the graph of its services, is what the modules take as
  their input.
- The content of launch configurations (images, ports, volumes) and certificates:
  data that is handed on, in one call whose outcome is modelled.
- The generated API client. Each call is a step that succeeds, fails, or fails
  although it had its effect. Its HTTP client has no timeout.
- The log listener (`src/handlers/log.go`): it prints, and nothing depends on it.
  One goroutine of it stays behind per stack.
- The operations of `Project` and `RancherService` other than `Create` (up, down,
  scale, restart, ...), which the executor never calls; `ErrRestart` is returned by no
  service of rancher-compose, so `traverse()` never runs again. Writing messages
  to a websocket: the executor only reads them.
- The rest of `Godeps/_workspace`, which is nearly all of the repository's lines:
  the AWS SDK and the docker packages (uploads for a `build:` with a local path, for
  which the executor sets no Uploader), registry and flag packages, YAML, logging.
  It is linked in and for the most part never run, or used as plain
  functions; it keeps no state of the executor's.

What the modules take for granted, and the code does not check:

- A frame's length is below 2^63. The header's 64 bits are converted to int64
  (conn.go:614), and a larger length, which RFC 6455 forbids, would count as an empty
  payload.
- Cattle accepts several handlers with the one Uuid the executor uses
  (listener.go:65); if it refused the second one, a leftover that is inactive would
  keep every process from registering. A refusal is an `Exit` of Registration. Cattle
  offers "deactivate" on a handler it lists as active, so that the branch without it
  (listener.go:290) is not taken.
- In RancherStack the name of a service holds no "/", and a list arrives as a whole:
  `findExisting()` and `loadEnv()` ask for no second page.
- A text that `Atoi()` takes for a number has no sign and fits into an int. Only
  `ConvertedBack`, which fails without these cases too, is about the conversion.
