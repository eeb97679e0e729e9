# Verification of BSG

BSG is a game of solving programming problems together. Users meet in a *room*, a room plays *rounds*, a round has a
problem set, and accepted solutions earn points on the leaderboard of the round and on a global leaderboard. This
directory holds TLA+ models of the parts of BSG in which several processes, two databases and failures meet, the TLC
configurations that check them and TLAPS proofs of what matters most.

## 1. The system and its parts

| part | state | operations | hard because |
| --- | --- | --- | --- |
| HTTP handlers of central-service (Go, `central-service/controllers`, `services`) | none of their own; rooms, rounds, submissions in Postgres, members and leaderboards in Redis | create, join and leave a room; create, start, end a round; submit | handlers run concurrently, nothing is locked, and each works on rows it read several round trips ago |
| timers of central-service (`madflojo/tasks`) | TTL tasks and end-of-round tasks, in memory | delete a room, end a round | they race the handlers and do not survive a restart |
| Redis queues (`central-service/queue`, `worker-service/redis_queue.go`) | a main list and a processing list each | publish, consume, ack, requeue, recover | lost replies, crashes between consume and ack |
| worker-service (Go) | the message it holds | validate, copy from ingress to egress | crash between publish and ack |
| egress listener (`services/submission-queue.go`) | the message it holds | store the verdict, pay two leaderboards | at-least-once delivery, two ledgers without a transaction |
| RTC client (`services/rtc-client.go`) | a websocket, a mutex, a channel of answers | send a message and wait for its answer | answers are matched by type only, a late answer meets the next request |
| rtc-service (Go) | rooms, users, rounds and history, in memory | one handler per message type, broadcast, replay | locks and unbuffered channels, rooms known to two services |
| server (Express, `server/src`) | sessions, GitHub tokens, links to repositories and rate limit counters, all in Redis | login, logout, link a repository, forward to central-service, push accepted solutions to GitHub | every handler is a chain of awaits on Redis, GitHub and central-service, replicas share Redis, the limiter fails open |
| service worker of the extension (`extension/background.js`) | `chrome.storage`, a websocket, a chain of writes | messages of panel and page, storage events, reconnection, forwarding of accepted submissions | the browser stops it at any time; every storage call is a point where other callbacks run |
| create-room form (`useRoomChoice`, `useProblemPicker`, `useRoomInit`) | filters, a debounced and cached count, picked problems | change a filter, pick, create a room in three requests | answers to older questions, unmounted tabs |
| layout of the panel (`extension/contentScript.js`) | width, folded and maximized form, highlight, theme, in the page and in `chrome.storage` | drag, fold, unfold, maximize, resize, press, change the theme | messages between frames cross, reads are asynchronous |
| room panel (`useRoomInit`, `useRoomEvents`, `useChatSocket`, the stores) | user, room, round, unread count, the chat's socket | restore the session, join, leave, follow a round, move the tab to its problems | a move loads the page and the panel again; the history is replayed, but not all of it |
| web front end (`bsg-frontend/apps/web`) and UI components | what a page shows | pages that fetch and show | none: no state that outlives a page |
| seeding and fetching of problems | the problems table | import CSV files | none: run once, sequential |

They interact through calls (extension to server to central-service), queues (central-service to worker and back), a
websocket (central-service to rtc-service to worker and panel), messages between the frames of a tab, and shared state: the rows and the Redis keys above.

## 2. Modules

| module | what it models | extends or instantiates |
| --- | --- | --- |
| `RedisQueue` | the reliable queue of two Redis lists; every operator is one Redis command or transaction | |
| `SubmissionPipeline` | handlers of a submission, worker, egress listener, both queues, both leaderboards | `RedisQueue`, `PointsLedger` |
| `PointsLedger` | abstract: every user is paid the score of a problem at most once | |
| `RoomMembership` | create, join, leave, hand on, expire and delete a room | |
| `RoundLifecycle` | create, edit, start and end the rounds of a room, join while one is played | |
| `RtcService` | connections of rtc-service, their readers and writers, what it keeps of one room | |
| `ApiServer` | the server: limiters, sessions, logins, logout, repository link, forwarded routes, pushes | |
| `ExtensionWorker` | `background.js`, with what `injected.js` and `contentScript.js` send it | |
| `CreateRoomForm` | the page that creates a room | |
| `PanelLayout` | width, forms, highlight and theme of the panel in a LeetCode page | |
| `RoomPanel` | session, room, round and chat of the panel, and its moves of the tab | |
| `SubmissionPipelineProofs` | types, durability, number and order of payments of the pipeline; that it implements `PointsLedger` | `SubmissionPipeline` |
| `RoomMembershipProofs` | pointers and leaders of rooms | `RoomMembership` |
| `RoundLifecycleProofs` | the connection of RoundService comes back to the pool; everyone in the room plays | `RoundLifecycle` |
| `RtcServiceProofs` | no message is missed, empty rooms leave | `RtcService` |
| `ApiServerProofs` | limits, lockouts and tokens of the server | `ApiServer` |
| `ExtensionWorkerProofs` | memory, touched problems and submissions of the service worker | `ExtensionWorker` |
| `CreateRoomFormProofs` | limits and count of the form | `CreateRoomForm` |
| `PanelProofs` | width, highlight and theme of the panel; what it shows of its room | `PanelLayout`, `RoomPanel` |
| `MC...` | constants for TLC | the module they name |

`PROJECT.json` maps every definition to the lines it models. An operator whose comment begins with "Mutant" is a
plausible bug: put in place of the definition that follows it, it must break the property that `mutants` names.

The four modules of the Go services (2.1 to 2.4) have the same shape. A Go function that makes several round trips (to Postgres, Redis or
rtc-service), or takes several locks, is a chain of actions, one for each; a program counter (`pc`, `hpc`, `wpc`,
`lpc`) says which comes next, and a record (`req`, `hreq`, `job`) holds what the function has read so far. That is
where the interleavings come from: a decision is made on what an earlier action has read. A round trip whose error the
code handles has a failing variant that takes the code's error path, also where that path is to give up: the lookup of an
expired room, the UPDATE of the task that ends a round, the scheduling of a task. A publish to a queue, a consume
and a statement of `RoundLifecycle` outside a transaction may also have been carried out, with only the reply lost; elsewhere a write
that fails has not been carried out. `faults` is the set of kinds that have failed,
each at most once and `MaxFaults` in all. A crash forgets what is in memory (program counters, tasks in the scheduler)
and keeps what is in Postgres and Redis.

### 2.1 SubmissionPipeline

| code | model |
| --- | --- |
| `RoundService.CreateRoundSubmission` | `Admit` (checks), `ScoreRequest` (query for earlier solutions), `InsertRoundSubmission`, `CommitSubmission`, `RollbackSubmission`, `LinkFails`, `Enqueue`, `CountSolved` |
| `worker-service/main.go` | `WorkerRecover`, `WorkerConsume`, `WorkerPublish`, `WorkerRequeue`, `WorkerAck`, `WorkerCrash`, `WorkerRestart` |
| `ListenForSubmissionData`, `ProcessSubmissionData` | `ListenerRecover`, `ListenerConsume`, `FindSubmission`, `CheckExisting`, `UpdateVerdict`, `UpdateLeaderboardScore` (Redis), `SaveLeaderboard` (SQL), `Settle`, `ListenerRequeue`, `ListenerAck` |
| `EndRoundByRoomID`, `deleteRoom` | `EndRound`, `DeleteLeaderboard`, `DeleteRows`: what they do to a submission under way |

A submission is a row with the ids of its `round_submissions` and its `submissions` row. They come from two sequences,
so the model can tell them apart and the listener looks up what the code looks up. Points are kept apart from the
timestamp with which the code packs them into a float. `redisPaid`, `sqlPaid`, `queued` and `handled` are history.

### 2.2 RoomMembership

`row`, `admin` and `rounds` are the SQL rows, `joined` and `active` the Redis keys, `armed` the TTL tasks. `CreateRoom`
is one step (an INSERT and the scheduling of the task, which may be refused: the code logs that and keeps the room); `JoinRoom`, `LeaveRoom`, `CreateRound` (as far as it can delete
the room) and `deleteRoom` are chains. `deleteRoom` is one chain that handlers and TTL tasks enter with `Delete`; a TTL
task is a process of its own, which runs once: when its lookup of the room reports any error, `Expire` takes the room for
gone, as the code does. `overlapped` remembers whether two processes have ever been busy at once, so that a
property can be stated for requests that follow one another. Lookups by short code and the checks of names change no
state and are left out.

### 2.3 RoundLifecycle

One room. `db` is what is committed. `handle` is `RoundService.db`, the field that `InitiateRoundStart` sets to its
transaction and back, and `pend` the writes of open transactions. `Exec` sends a write to wherever `handle` points: to
the database, to somebody's transaction, or nowhere if that transaction has ended. What a transaction sees (`View`) is
`Written(db, pend[h])`: the last write of each field, of those that found their row. A statement that reports an error (`Breaks`) has been
executed or not; in somebody else's transaction it would abort that transaction too, which is left out. When the UPDATE of
`TimerEnd` fails the task is over: nothing is told to rtc-service, and the task does not run again. Two tables of the code are reduced:
participants are the set of those who have a row, and the insertion of a row and its `ZADD` are one step. Not modelled
are the scores on the leaderboard, the key `mostRecentRound` and the participants that rtc-service keeps. Writing a value
twice in a transaction is recorded once. A restart drops the timers and all open transactions.

### 2.4 RtcService

One room id. Every connection has a reader, which serves one request after another (`Read`, then the steps in `Serve`),
and a writer. The channel between them is unbuffered, so a send (`Send`, `Replaying`, `Answer`) is one step with the
writer of the connection that is sent to, and cannot be taken once that writer has ended. Rooms are listed by pointer,
therefore as numbered objects; `GetRoom` may return any listed one. A replay goes through the messages under the read
lock, one step each, and sends those of a type that is replayed. A broadcast iterates over `room.Users` without a
lock: a user who enters meanwhile may or may not have a turn, and `MapFault` is the Go runtime ending the process when
it notices the race. `RemoveAllUsers` replaces the map, so a broadcast that has begun goes on over the old one.
Initially connections are accepted, and either nothing has been said or the panel `First` has joined. `JoinedRoom` is
never read by the code and is left out. A write to a websocket is taken to return, and the contents of messages are left
out but for type, identity and whether they are refused.

### 2.5 ApiServer

A request occupies a slot; `at` is the await its handler has reached, and the other fields are what it has read so far.
`Receive` takes a request, `Limit` is a limiter (`INCR`, then `EXPIRE` for the first of a window, then the decision),
`Handler` the route behind it. A counter is keyed by limiter, caller and window, as in `rate-limit.js`; `window` advances
by itself. When Redis fails, the limiter lets the request pass. `session`, `stored` (`gh_token`) and `link` (`gh_repo`)
are Redis, `live` and `repo` GitHub, `scored` and `stats` central-service. Tokens are numbers that GitHub issues; a login
is the chain read, save, revoke of `passport.js`, the link the chain token, repository, session, save (`ConnectSave`). When a
save fails, Redis may have carried it out: then a failed login leaves the new token in `gh_token`, and a failed link leaves
a token in `link` that the handler goes on to revoke. `pushes` are calls
of `pushToGithub` that nobody awaits. The routes that only forward (`ForwardedRoutes`) or only answer (`AnsweredRoutes`) are
names: what they do is `EnsureAuth` and `Upstream`, or nothing. `seen`, `letIn`, `refused`, `linked` and `quiet` are
history; `linked` has the tokens whose SET was confirmed (`saved`) or whose reply was lost (`unconfirmed`), and those that
a later link has replaced (`replaced`).

### 2.6 ExtensionWorker

`local`, `touched` and `round` are `chrome.storage`; `worker` the variables of `background.js`, gone after `Stop`. A
message that needs the storage becomes a member of `tasks` and goes on in an action of its own; touches of problems are
the sequence `chain`, one at a time, as `touchedWrites` makes them. `changes` are the `storage.onChanged` events on their
way, which also start a stopped worker. A websocket is connecting, open, closed or not there; `onclose` schedules
a reconnection. A read or write of `chrome.storage.session` in the chain may fail (the task is dropped and the next runs),
so may the worker's first read of `chrome.storage.local` (`configReady` is resolved all the same, with no room and no user:
`blind`) and the request of `CHECK_AUTH` (the user is removed, whatever session there is); `MaxFaults` bounds them. The reads
and writes in callback style, whose errors the code does not look at, succeed, and messages between page, panel and worker
arrive. A page reports each problem once, in whatever round that was (`reported`), until it is
loaded again. The branch
of `onmessage` for `round-end` is left out: rtc-service has no response of that type. `atomTouched`, `failed`,
`blind`, `raced` and `accepted` are history, the first for properties that compare with messages that take effect at once.

### 2.7 CreateRoomForm

`form` is the state of the wizard and `Key(form)` what the count depends on. `LookUp` is the effect React runs after a
change, its cleanup first; a request waits 300 ms (`Debounce`), then is answered or fails. `Pool`, a constant, is the
server's answer. A tab that is not shown is not mounted: its state is lost, and creations it has begun go on without it
(`mine`). `createRoom` is three requests, each of which may fail.

### 2.8 PanelLayout

Widths are pixels, `panelWidthFraction` is a fraction of numerator and denominator, and `Px` rounds as `Math.round` does.
`view` is the style, `mem` the variables, `stored` the storage; `Reload` keeps only the last. `UNFOLD` reads
the storage (`Unfold`) and applies what it has read later (`UnfoldFinish`). A theme is shown by the callback of a read of the
preference; the panel makes one such read on its own when it starts (`start`). `before` is history.

### 2.9 RoomPanel

`member`, `round` and `history` stand for central-service and rtc-service and are external: what they do to
this user, and the history that is replayed. `tab` is where the tab is; a move of it loads the panel again, which
forgets `page` and the socket and keeps `saved`. `flow` is the chain of awaits of restoring, joining, leaving, login or
logout; `queries` and `moves` are the two halves of `navigateActiveTab`. `wire` are the messages on their way to the
panel, in order.

A room plays `MaxRounds` rounds, one after the other, each with problems of its own (`NewRound`, `StartRound`, `End`); the
code also allows several rounds that have not been played yet, of which only the one to be played next matters to the panel.
A tab on a problem of a round that does not exist yet counts as elsewhere. The joins of all rounds stay in the history and
are replayed. The end of a round is a `system-announcement`, a line in the chat that is kept and replayed: rtc-service has
no response of type `round-end`, so the last branch of `GameEvent` is never taken. The panel that ends a round itself does
it in three steps: the call (`EndHandled`, nothing if there is no round in progress), its answer (`EndAnswer`), and a
timer (`EndTimer`); each is applied to the room the panel is in by then. `panel.crossed` is history: the answer came while
a round was running in the panel's room, thus another one than that it had ended.

## 3. Runs

All bounds are constants. `CHECK_DEADLOCK FALSE` is set throughout since requests, inputs and faults are bounded: when
they have run out the model stops, and the program would wait for the next request. That nobody waits for ever is a
liveness property of its own (`EventuallyHandled`, `EmptyRoomReclaimed`, `EndsEventually`, `RequestsServed`,
`RequestsAnswered`, `JoinsActiveRoom`, `ButtonComesBack`, `PanelComesUp`).

| run | bounds | shows |
| --- | --- | --- |
| `pipe_scoring` | 2 handlers, 2 rounds, 2 verdicts, 1 failure that delivers nothing twice | the pipeline implements `PointsLedger` (`RefinesLedger`): a user is paid once for a problem, with its score |
| `pipe_faults` | 1 handler, 2 ids, poison messages, deletion of the room, 1 failure of any kind, 1 crash | nothing queued is lost (`NoSubmissionLost`, `DurabilityInv`), a submission is paid at most once more per failure (`PaidBounded`), the global leaderboard is never ahead (`GlobalNeverAhead`), every submission is handled in the end (`EventuallyHandled`) |
| `room_faults` | 1 handler, the TTL task, 2 users, 1 failure of any kind, 1 crash | leaders and `active_room` pointers are sound when nothing overlaps (`LeaderPresent`, `PointersSound`); rooms are reclaimed, by leaving and by TTL (`EmptyRoomReclaimed`, `TtlHonoured`) |
| `round_faults` | 1 handler and the tasks, 2 users, 2 rounds, all requests, 2 failures, 1 restart | the connection is put back on every path (`HandleHome`), everyone in the room plays (`EveryonePlays`) |
| `round_race` | 2 handlers and the tasks, 1 user, 1 round, requests to start and to end it, 2 failures, 1 restart | a round ends in the database and in rtc-service, also one that a late start opens or announces again (`EndsEventually`, `RtcEndsEventually`) |
| `rtc_rooms` | central-service and two panels, 3 requests, 2 room objects, history of 2, 1 lost panel | a panel that joins misses no message that is kept (`NoMessageMissed`), an empty room is removed (`EmptyRoomLeaves`), a lost connection is forgotten (`LostConnectionRemoved`), nobody waits for ever while all writers run (`RequestsServed`) |
| `server_api` | 2 slots, 1 browser, a burst of 1, 2 requests, 2 windows, 4 tokens, 1 failure | a limiter lets no more than its burst through (`BurstHeld`) and locks nobody out (`NoLockout`), tokens can be revoked (`NoOrphanToken`), a link that was confirmed keeps its token (`LinkSurvives`), every request is answered (`RequestsAnswered`) |
| `worker` | 2 problems, 2 rounds, 1 submission, 2 rooms, 2 sockets, 4 inputs, 1 stop, 1 failure | the list of touched problems is what the messages make of it (`TouchesInOrder`), an accepted submission is sent once (`ForwardedOnce`), memory and storage agree (`MemoryFollowsStorage`), the worker gets into the room (`JoinsActiveRoom`) |
| `create_form` | 1 topic, 1 company, 2 problems, limits 2 and 1, 3 inputs, 2 failures | the form stays within its limits (`FormOK`), the count is that of the filters shown (`CountIsCurrent`), no creation asks for more than there is (`NeverTooMany`), the button comes back (`ButtonComesBack`) |
| `panel_layout` | windows of 320 and 1600, drags to 120, 121, 200 and 700, 5 inputs | no dead zone (`NoDeadZone`), the panel looks as the script takes it for (`PanelFits`), unfolding restores (`UnfoldRestores`), one highlight (`OneHighlighted`), the right theme (`ThemeFollows`) |
| `panel` | 2 rooms of 2 rounds with 2 problems each, 4 inputs, 1 retry | a running round is noticed (`RoundNoticed`), what is in view is not unread (`UnreadHidden`), the tab comes to rest unless the joins of two rounds are replayed (`NoBounceInOneRound`), the panel comes up (`PanelComesUp`) |
| `v_dead_handle` | as small as possible | a disagreement of code and comment, section 5 |

Why the bounds are enough. Two handlers, or two requests in slots, are the smallest number for which a decision can be
overtaken, and the races of this code are between pairs: what a process has read is changed by one other process. Two ids
allow two submissions for one problem, the case both checks for earlier solutions are about. Failures and crashes hit any
of the steps, and one crash with one failure covers a failing recovery. Three requests let a message be stored while a
panel joins and a third party leaves. A burst of one with two requests passes the limit; two windows let a counter
outlive its own. In the extension an input is a click or an event from outside, and the steps that follow it are not
counted: three to five of them reach every pair of operations with a third in between, and each mutant in `PROJECT.json`
is found within them. Widths lie on both sides of 36, 120 and 160 pixels, and the small window makes a fraction of the
large one too narrow. Tokens and room objects are as many as the inputs can use; a third
socket in `worker` adds 3 thousand states to 2.2 million and changes nothing (checked with two submissions).
The invariants of `RtcService` were also checked once with four connections, two of them of the
same user, all types of requests and any connection losable (1 million states).

In `RoundLifecycle` a request to start or edit a round arrives only while no open transaction has changed that round
(`Quiet`): this bounds how long a chain of transactions reads through another's uncommitted writes.

Several properties leave a case out, by a history variable or a guard. In each case the code does not hold the property
there: section 5 lists what happens.

* Requests that overlap: `LeaderPresent`, `PointersSound`, `EveryonePlays`, `NoOrphanToken`, `ForwardedOnce`. Overlapping
  starts: `HandleHome`, `EndsEventually`, `RtcEndsEventually`.
* A restart: `TtlHonoured`, `EndsEventually`, `RtcEndsEventually`; a stop of the worker: `TouchesInOrder`, `ForwardedOnce`.
* Failing calls without which a task, which runs once, does nothing: `TtlNeeds` for `TtlHonoured` (its scheduling, the
  lookup of the room, the statements of `deleteRoom`), `EndNeeds` for `EndsEventually` and `RtcEndsEventually` (the
  UPDATE and the transaction of the start, the scheduling of the task, its UPDATE); for the latter also the calls of rtc-service.
* Tokens: of a link that another one has replaced (`NoOrphanToken`), and of a link whose SET got no reply (`LinkSurvives`).
* Touches that the storage refused, and everything after a refused reset (`TouchesInOrder`); a worker whose
  first read failed may know no room or no user, though never a wrong one (`MemoryFollowsStorage`).
* A writer that has ended (`RequestsServed`), a panel that has `crossed` (`RoundNoticed`), two rounds whose joins are
  replayed (`NoBounceInOneRound`).

### Fairness

* Pipeline: weak fairness of the worker's and the listener's loops. Both are `for` loops around blocking calls with a
  timeout. docker-compose restarts central-service (`restart: on-failure`), so the listener comes back; worker-service
  has no restart policy, so `EventuallyHandled` assumes that the worker is not down for ever instead of deriving it.
* Rooms and rounds: weak fairness of the steps of a request that has begun, of `deleteRoom`, of TTL tasks and of
  end-of-round tasks. Goroutines are scheduled, and `madflojo/tasks` runs what is due. Requests are never fair.
* rtc-service: weak fairness of each reader, of the end of a reader whose websocket is down, and of the ping at each tick.
* Server: weak fairness of each slot's next step. Node runs the continuation of every await, and Redis, GitHub and
  central-service answer or fail.
* Worker: weak fairness of its callbacks together, `onopen` and `onclose` included, of which there are finitely many
  between two inputs; a storage event starts a worker that is stopped. Nothing else does: that the browser starts it is never assumed.
* Form: weak fairness of timers and answers together, of which there are finitely many. Clicks are never fair.
* Panel: weak fairness of its steps together, which are finitely many between two inputs (that is what `NoBounceInOneRound` shows for a room with one joined round), and
  of restoring the session. `PanelLayout` has safety properties only.

## 4. Proofs

Every theorem is about `Spec`, for all values of the constants that meet the named assumptions (and, for `ImplementsLedger`
and `EveryoneGetsToPlay`, the hypothesis in its statement): any number of processes, users, rooms, messages, inputs, faults and crashes. A bound of the model is a natural number, so nothing
depends on it being small. Each proof has the same outline: an inductive invariant, a lemma that it holds initially, one
lemma per action that it is kept, and a theorem per property that follows from it. TLC has checked the invariants on the
instances of the runs first.

| module | theorems | inductive invariant |
| --- | --- | --- |
| `SubmissionPipelineProofs` | `TypeCorrect` (`TypeOK`), `DurabilityInvariant`, `Durability` (`NoSubmissionLost`), `RoundPaidFirst` (`GlobalNeverAhead`), `PaymentsBounded` (`PaidBounded`), `ImplementsLedger` (`RefinesLedger`) | `DurabilityInv`, `PaymentInv`, `BudgetInv`, `LedgerInv` |
| `RoomMembershipProofs` | `RoomInvariant`, `PointersAreSound` (`PointersSound`), `LeaderIsPresent` (`LeaderPresent`) | `Inv` |
| `RoundLifecycleProofs` | `HandleInvariant`, `HandleComesHome` (`HandleHome`), `EveryoneGetsToPlay` (`EveryonePlays`) | `HandleInv`, `PlayInv` |
| `RtcServiceProofs` | `RtcInvariant`, `NothingIsMissed` (`NoMessageMissed`), `EmptyRoomsLeave` (`EmptyRoomLeaves`) | `Inv` |
| `ApiServerProofs` | `ServerInvariant`, `LimitHoldsAcrossReplicas` (`BurstHeld`), `NobodyLockedOut` (`NoLockout`), `LinksOutliveLogins` (`LinkSurvives`), `TokensAccountedFor` (`NoOrphanToken`) | `Good` |
| `ExtensionWorkerProofs` | `WorkerInvariant`, `MemoryIsStorage` (`MemoryFollowsStorage`), `TouchesAreInOrder` (`TouchesInOrder`), `SentExactlyOnce` (`ForwardedOnce`) | `MemoryInv`, `TouchInv`, `SubmissionInv` |
| `CreateRoomFormProofs` | `FormStaysWithin` (`FormOK`), `CountStaysCurrent` (`CountIsCurrent`), `NeverAsksForTooMany` (`NeverTooMany`) | `Inv` |
| `PanelProofs` | `NeverInDeadZone` (`NoDeadZone`), `PanelAlwaysFits` (`PanelFits`), `UnfoldingRestores` (`UnfoldRestores`), `OneIsHighlighted` (`OneHighlighted`), `ThemeIsFollowed` (`ThemeFollows`), `RoundIsNoticed` (`RoundNoticed`), `UnreadIsHidden` (`UnreadHidden`) | `LayoutInv`, `HighlightInv`, `ThemeInv`, `NoticeInv` |

### 4.1 Pipeline

`NoSubmissionLost` alone is not inductive. An ack takes a message out of a processing list; that it loses nothing
depends on the message having been passed on or handled before (`AckAfterEffect`). A requeue moves the message the
consumer holds; that something is moved depends on it being in the processing list (`HeldIsParked`). The lemmas on
queues say what each operator does to the set of messages that is held: publish adds one, consume and recovery keep the
set, a requeue of a parked message keeps it, an ack removes at most the acked message.

`GlobalNeverAhead` compares two ledgers that the listener writes one after the other. `PaymentInv` adds that an id names
one row (`OneRow`), that neither the listener nor the global leaderboard deals with an id that has no row yet
(`KnownRows`), and that between its two writes the listener owes the second (`OneAhead`).

`PaidBounded` says how often a submission may be paid, `BudgetInv` how often it still may be: the payments made, and those
that are due for the copies in the queues, in the hands of worker and listener and not yet published (`Due`), are at most
one more than what has doubled a copy. Three things do: an ack that fails (the copy stays behind), a publish of the
worker whose reply is lost (it is repeated), and a crash (`Doubled`). Every other step moves a copy or turns one into a
payment. For this, handlers have to have different ids (`OwnIds`). No induction over the lists is needed: the lemmas on queues say by
how much a command changes the number of copies.

`ImplementsLedger` has a hypothesis, `OnceOnly`: none of those three things happens, the queries for earlier solutions
and for the user do not fail, and no room is deleted while its submissions are under way. The run `pipe_scoring` has just such
constants, and every part is needed: section 5 lists what the code does without it. Under it the budget is one, so that the row the
listener holds has not been paid before. `LedgerInv` adds that a score is that of the problem or 0 (`Scored`), that what is paid
is accepted (`PaidAccepted`), and that what the listener has decided to pay is still unpaid, for the user and the
problem of the row it will pay (`Owes`). Then its write to the global leaderboard is a step of `PointsLedger`, and every other step a stutter.

Assumptions: `MaxId`, `MaxFaults`, `MaxCrashes` are natural numbers; every problem has a positive score; `Accepted` is a
verdict; payloads, faults and deletable rounds are among those named; `NoUser` is not a user.

### 4.2 Rooms

Both properties are about requests that follow one another, so `SerialInv` is conditional on `~overlapped`: one process
is busy at most (`Alone`), what it has read is still so at each of its steps (`RoomThere`), and a pointer or a leader that
is not yet right is right once its chain has ended (`Pointed`, `Led`). Two parts were found while proving: that the heir
a leaver has picked is still a member when the admin is written, and that nobody is a member of a room that was not
created or is gone (`GoneIsEmpty`). Assumptions: names of rooms, users and handlers are distinct from each other and from
`NoRoom` and `NoUser`; faults are among those named.

The lemmas on lists that `SubmissionPipelineProofs` and `RoomMembershipProofs` begin with say what RPUSH, LMOVE, LREM, ZADD and
ZREM do to the set of members; three of them stand in both modules, which have nothing else in common.

### 4.3 Rounds

`HandleHome` says where `RoundService.db` is, not what a start will put back, so it is not inductive: a start that saved
another connection than the pool would leave that one behind. `HandleInv` adds, as long as no two transactions of
`InitiateRoundStart` overlapped, that at most one start is in its transaction (`OneStart`), that this transaction is its own and the pool is
what it has saved, and that the field is the pool before its swap and after its restore (`Own`). Nothing is assumed of the
other requests and tasks, which make their statements in that transaction meanwhile, and neither a failing row nor a crash needs a case
of its own. The end of a transaction turns the other copies of it into a dead connection; there are none. Assumption:
handlers are distinct from `"pool"` and `"dead"`. With an overlap `HandleHome` says nothing; the run `v_dead_handle` shows what happens then.

`EveryonePlays` is proved for requests that come one at a time (`Handlers = {h}`), the instance of its run, and any number of
users and rounds, with the tasks of the rounds and the members who leave in between. With requests that overlap the code
does not hold it: who joins between `ZRANGE` and `UPDATE` has no part. `PlayInv` says, while nothing
has failed, who is where in every phase of a start. Before its UPDATE its round is created or ended, so nothing is played that
the members should be in; from then on they are in the list it has read, or have a row in its transaction
(`Added`), which at the commit has all of them; a task may have ended the round in that same transaction. Between
requests the members have their rows (`Settled`), and who joins has found the round that is played
(`JoinOK`): if only one round of the room is there, the last row of the query without an order is that one. `CommitRows` is
the lemma on what a commit does to the rows; it needs that a set of positions has a last one (`LastExists`).

### 4.4 rtc-service

`NoMessageMissed` says that a kept message is written to a panel or on its way to it. "On its way" is too weak to be
kept by the steps: a broadcast might end without a turn for the panel, or go through another object. `Inv` says more.
`MessagesInv`: requests are numbered as they are read, so a message has one sender, is stored at most once, and its
broadcast goes through the object that keeps it. `NamesInv`: as long as no two connections had one name, `FindService`
finds the connection of a user or none. `RoomsInv`: the user of a panel that was given the history is in a listed room,
and without a split there is only one. `ReachInv` then names the reader that carries the message (`Carries`): its broadcast
began when the user was in the room, over a map that has not been replaced, and has yet to come to him; or it is the
panel's own reader, with the message among those it has to replay. The loop over the users may end only when
everybody who was there at its start and still is has had a turn, which is what closes the argument (`CastEnds`).
`EmptyInv` drops from `EmptyRoomLeaves` the readers that only look at a room: a join that has found the room will
put a user into it, a leave or an expiry will look whether it is empty.

Assumptions: `Central` and `First` are two connections; every connection has an owner, and central-service's name is
that of its connection only; bounds are natural numbers, the history and the number of objects are not 0.

### 4.5 Server

`Good` has a part for each question and the types. `LimitInv`: until its window is over a counter
covers whom it let in (`Covered`), it counts no request that did not come (`CountsArrivals`), and a request that waits for
its `EXPIRE` has its place already (`PlaceKept`); a counter may disappear only when no request of its window can reach it
any more. `TokenInv`: nothing knows a token before it was issued, the tokens of logins and of links are apart, a request
that links holds a token of its own, and a token whose SET was confirmed is valid and stays in the link until another one
replaces it (`LinksLive`). What a link holds may also be a token whose SET got no reply; of that nothing is claimed, since
the handler revokes it. `QuietInv`: while no call has failed and no two logins or logouts overlapped, a valid token
is in `gh_token`, of a link or in the hands of the one login, that login knows what `gh_token` holds, and every link was
confirmed. `NoOrphanToken` follows for all tokens but those of replaced links, which are valid and kept nowhere. Assumptions:
clients are finitely many (the initial states count those that are logged in), bursts are positive, routes are among those named.

### 4.6 Service worker

`MemoryInv` relates the variables of the worker to the storage through the `storage.onChanged` events that are still to
come: the last of them that changes a value brings what is stored, and without one the value in memory is the stored one,
or, in a worker whose first read failed, none. `TouchInv` follows the chain of writes:
carrying out what is left of it leads from the storage to the state of messages that take effect at once, up to the marks
that the storage refused (`Agree`), and as long as it refused no reset. The rest of
the chain is described by a sequence of the states in between, one per write, and not by a fold, which would take an
induction. `SubmissionInv` is conditional on messages that do not overlap and a worker that is not stopped, as
`ForwardedOnce` is. Assumptions: rooms and sockets are positive numbers, since 0 stands for none.

### 4.7 Form and panel

`Inv` of the form says that at most one request for the count is under way, for the filters that are shown, and that a
creation carries a number no larger than the count it was shown. Assumptions: limits are positive; the server's answer is a
natural number (`PoolAssumption`).

`LayoutInv` adds the types of what a width is computed from, since a width after a resize or an unfolding comes from
a fraction that was stored long before, and the way back from the folded and the maximized form (`WidthIsFraction`,
`WayBack`). `HighlightInv` accounts for the messages between the frames that are under way, `ThemeInv` for the reads of the preference.
`UnfoldingRestores` is an action property. Assumptions: windows are wider than `MinExpandWidth` (`WindowsAssumption`: in a
narrower one an unfolded panel may not have the room to be usable), drags are whole numbers of pixels.

`RoundNoticed` speaks of a panel that has read everything it was sent. `NoticeInv` says what is still to be read: until a
running round is shown, the user's own `join-round` of that round, and not of an earlier one, is on the wire (`OnItsWay`).
Two things could spoil this. A join in the history might be of a round that has not started, whose start would then find the
user joined already: there is none (`JoinedStarted`). And messages of another room might come: there
is no socket while a session is restored or a room is joined (`NoStraySocket`). One thing does break it: the
answer to `handleEndRound` is applied to whatever room the panel is in by then, and to whatever round that room plays
(section 5). `RoundNoticed` therefore excludes a
panel to which this has happened (`crossed`). `UnreadHidden` is inductive together with the types. Assumptions: rooms
are positive numbers, since 0 stands for none; problems are numbered from 1.

### 4.8 Only model-checked

* All liveness: `EventuallyHandled`, `EmptyRoomReclaimed`, `TtlHonoured`, `EndsEventually`, `RtcEndsEventually`,
  `LostConnectionRemoved`, `RequestsServed`, `RequestsAnswered`, `JoinsActiveRoom`, `ButtonComesBack`, `NoBounceInOneRound`,
  `PanelComesUp`. Fairness is out of the prover's reach.
* Every invariant, every action property of a passing run and the refinement are proved, `EveryonePlays` and `RefinesLedger` under the
  hypotheses named in 4.1 and 4.3.

## 5. Findings

With a run:

* `v_dead_handle`: two starts overlap, the second puts the first one's transaction back after it has ended, and from
  then on `RoundService` has no database: the task cannot end the round.

Seen while modelling, without a run of their own (most appear when an exclusion in a property is dropped):

* Submissions: the row of a submission is stored with its verdict before it is paid, so two accepted submissions under way
  can find each other and neither is paid; the message carries the id of the `round_submissions` row and the listener looks
  up the `submissions` row with that id, so two interleaved inserts let it find another submission;
  a redelivered message pays again (`PaidBounded`); when the query for the user fails, `FirstOrCreate` has
  the id 0 as its condition, which is none, and takes somebody's row (`CreditedRow`); an error of `Save` is not retried;
  once a room is deleted its solutions are forgotten and pay again.
* Rooms: when the leader and his heir leave at once the room is handed to a user who has left; a join that races a
  deletion leaves an `active_room` pointer to nothing; a TTL task whose lookup of the room fails takes it for gone and never runs
  again, and a task that cannot be scheduled is only logged (`room.go:113`, `:134`): such a room never expires; when two first rounds are created at once and one fails, its
  clean-up deletes the room with the other (`room.go:509-511` says it does not); after a restart no TTL is honoured;
  `ttlTaskIDs` is a map that handlers read and write without a lock (`room.go:98`).
* Rounds: a user who joins between `ZRANGE` and `UPDATE` has no part in the round; a late start reopens a round that has
  ended; the task of an earlier round ends the next one in rtc-service; a round without problems can keep the next from
  starting; a failing transaction leaves a started round that nothing ends, and so does a task that cannot be scheduled or whose UPDATE
  fails, since it runs once (`round.go:300`, `:275`); editing the duration after a start does not
  move the task; a second start sets the scores on the round's leaderboard to 0.
* rtc-service: when a panel is lost during a broadcast, the sender's reader waits for ever for that panel's writer, and
  a replay cut short keeps the room's read lock; a broadcast iterates over a map that a join changes;
  `response-types.go:16,19` calls two types "not kept in room history", `service.go:134-135` keeps them;
  `Readme.md:29` says a name cannot be changed, `service.go:83` sets it with every message; `service.go:101` says
  central-service registers users silently, its join is announced (`room.go:231`); the joins of central-service and of a panel
  can both be announced; of two panels of one user only one receives a message; "_bg" users never leave, so
  their rooms stay listed; panel and worker listen for `round-end`, which is sent as a system announcement.
* RTC client (read, not modelled): an answer that comes after the five seconds answers the next request of its type
  (`rtc-client.go:117`); answers are matched by type only (`:108`); while nobody asks, ten broadcasts fill the channel and
  the reader stops (`:150`).
* Users (read, not modelled): a user is looked up and then inserted without a unique constraint (`user.go:53`): two logins at
  once make two rows.
* Server: two logins at once both read the old token, and the token that is overwritten can no longer be revoked; a logout
  can delete the token of a newer login; when the reply to the SET of a link is lost, the handler takes
  the link for not stored (`auth.js:417`) and revokes the token Redis has in it, so that the repository looks connected and every push is
  refused (`LinkSurvives` without `linked.unconfirmed`); linking a second repository overwrites the first token (`auth.js:407`), which stays valid and
  can no longer be revoked; an error after central-service has taken a submission answers 500, and the
  extension does not know that it was scored.
* Service worker: `pendingSubmissions` is read and written back without a chain, so messages that overlap lose a submission;
  a `CHECK_AUTH` under way during a logout writes the user back; `onclose` of an old socket forgets a newer one, and a second
  is opened; a page reports a problem once and forgets that only when it is loaded
  again (`contentScript.js:29`), so a problem typed into in one round and again in the next is not in the list that
  `background.js:55` calls "slugs the user typed code into this round"; a touch whose storage call fails is logged and dropped (`background.js:81`, `:99`), and the page does not report
  it again; after a failed first read the worker has no room and no user while both are stored, and nothing tells it of
  them (`background.js:286`); a failed request of `CHECK_AUTH` removes the user although there is a session (`:137`).
* Create-room form: when the round or the join fails, the room that was created stays, with nobody in it, until its TTL.
* Layout: a panel that was folded while maximized fills the window after a reload although it is stored as folded; an `UNFOLD`
  that read the storage before a drag applies the older width; without a preference, the panel's own read at its start may
  show the system's theme after LeetCode's.
* Room panel: the answer to `handleEndRound` (`useRoomEvents.ts:309-340`) is applied to whatever room the panel is in by
  then, so it hides the running round of a room the user has gone to meanwhile (found while proving `RoundNoticed`), or the next
  round of the same room; its timer also clears what is stored of a round that has begun meanwhile; the joins of two rounds of a room are both
  replayed on every load, and each moves a tab that is not on a problem of its own round to the first of them, so that the tab goes back and forth for ever, against
  the comment at `useRoomEvents.ts:33` (`NoBounceInOneRound` without `ReplaysTwoRounds`); the end of a round reaches the panel as a
  line of the chat only, so the panel goes on showing the round as running, and the wait "after the round-end event has had
  time to arrive" (`useRoomEvents.ts:325`) is for an event that nothing sends; a chat socket that is closed
  is not opened again until the panel is loaded.

## 6. Not modelled

* The RTC client of central-service: its calls are round trips that may fail. The in-memory limiters of the Go services
  and the limiter's `reset` and `getCount`, which nothing modelled calls.
* The packing of scores and timestamps into a float (the pipeline keeps points apart), and the selection of problems (its
  result is modelled: problems or an error).
* Users, leaderboard queries and statistics: single statements and lookups. The HTTP controllers decode a request and call
  one operation each: they are the requests of the modules.
* The pages of the web front end and the UI components, the participants, leaderboards and statistics that the panel polls
  and shows, the text of the chat, the word filter, logging: presentation and text, with no state that a second process
  could disturb. The import of problems runs once, sequentially.
* In the modelled parts: heights, colours and animations of the panel, the badge and the clipboard, the duration and the
  wording of errors in the form.

## 7. Plan

| module | question | properties |
| --- | --- | --- |
| `RedisQueue`, `SubmissionPipeline`, `PointsLedger` | is a submission lost, or paid twice? | done; durability, number and order of payments and the refinement proved |
| `RoomMembership` | are rooms led, reclaimed, consistent? | done; both invariants proved |
| `RoundLifecycle` | does every round start for everyone and end? | done; both invariants proved, `EveryonePlays` for requests one at a time |
| `RtcService` | are messages missed, does anybody wait for ever? | done; both invariants proved |
| `ApiServer` | do limits hold, are tokens revocable, is everyone answered? | done; all invariants proved |
| `ExtensionWorker` | does the extension follow the room and the round? | done; all invariants proved |
| `RoomPanel` | does the panel follow the round? | done; both invariants proved |
| `CreateRoomForm` | does the form show and ask what it should? | done; all invariants proved |
| `PanelLayout` | is the panel usable in every form? | done; all properties proved |
| `RtcClient` | answers matched by type, five seconds, a channel of ten | an answer belongs to its request, the reader does not stop |
| `ScoreCodec`, `ProblemSelection` | operators against a reference definition | decoding inverts encoding up to the boundary; a selection has the size and difficulties asked for, or is an error |

Compositions worth stating: `RtcClient` with the requests of `RtcService`; `RoundLifecycle` with the submissions of
`SubmissionPipeline` (scores reset by a second start); `RoomPanel` with `RtcService` in place of its external part.
