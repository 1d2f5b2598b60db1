# Erreia: models, checks and proofs

Erreia is a Kanban server in Go: pages rendered on the server, boards, columns
and cards in Postgres, and Server-Sent Events that carry changes to every open
page of a board. This directory holds TLA+ models of its core, the TLC
configurations that check them and theorems about them that the TLA+ proof system
checks. Modelled are card ordering and the statements that keep it, boards and
columns, the event hub, the way of a change to an open page, sessions, the rate
limiter, and the life of the server process with its connection pool, its listener
and its avatars. Paths below are relative to the repository.

## The system

| Part | Code | State it keeps | Operations |
|---|---|---|---|
| Board repository | `internal/board/board.go` | rows of `boards`, `columns`, `cards` | CreateBoard, CreateColumn, CreateCard, UpdateCard, MoveCard, DeleteCard, reads |
| Board service | `internal/board/service.go` | none | repository call, then a notification |
| Publisher | `internal/realtime/publisher.go` | none | `pg_notify` on a pooled connection |
| Listener | `internal/realtime/listener.go` | one connection, the backoff | LISTEN, wait, Broadcast, reconnect |
| Hub | `internal/realtime/hub.go` | rooms of subscribers, drop counter | Subscribe, cancel, Broadcast, Stats |
| SSE stream | `internal/web/sse.go` | one subscription and event loop per open stream | render an event, write a frame, ping |
| HTTP handlers | `internal/web/handlers.go`, `server.go` | none | sessions, ownership, then one service call |
| Page script | `internal/web/static/js/board.js`, `templates/` | the page | drop a card, open the stream again |
| Sessions, CSRF | `internal/session/`, `internal/web/middleware/{auth,csrf}.go` | rows of `sessions` | load, commit, renew, destroy |
| Accounts | `internal/auth/`, `internal/user/` | rows of `users` | register, authenticate |
| Avatars | `internal/avatar/`, `internal/storage/` | objects, `users.avatar_key` | upload, serve |
| Rate limiter | `internal/web/middleware/ratelimit.go` | a window per address | count a request |
| Lifecycle | `cmd/server/main.go` | the process | start, shut down |
| Configuration, pool, migrations, headers, assets | the other packages | none of their own | |

How they interact. A handler calls the service; the service calls the repository
(synchronously, on a connection of the pool) and, once the repository has
returned, the publisher, whose failure it swallows. Postgres carries the
notification to the listener's own connection, if that is up. The listener, a
single goroutine, calls `Hub.Broadcast`; the hub does a non-blocking send into the
buffered channel of every subscriber of the board. Each open stream is a goroutine
that takes events out of its channel, reads the card, the column or the board *again* and
writes a frame. The frame of an edited or moved card is the card's title and description
(`CardView`); of a created card, its column; of a column, the board; of a deletion, the id.
Requests share the tables, and the hub's map is shared by the listener
and all streams.

What is hard about it:

* **Concurrency of statements.** MoveCard runs five statements at READ COMMITTED
  and locks its own card and whatever rows it happens to shift, never the column.
  CreateCard reads a maximum and inserts in two statements with no transaction.
* **Failure in the middle.** An unknown column, an int4 overflow, a client that
  goes away or a deadlock ends a move after it has locked or written rows.
* **Order.** Commit and notify are separate steps, so notifications may arrive in
  another order than the commits, and an event may be rendered long after it.
* **Loss.** Notifications are lost while the listener reconnects, events when a
  buffer is full, frames when a read fails or a connection breaks with frames under way.
* **Waiting.** Moves wait for each other's rows, every request for a connection of the
  pool; the hub must not wait for anyone, and a shutdown waits, but not for ever.
* **Two stores.** An avatar is an object and, in a second write, a column of a row; the
  process may end between the two.
* **Time.** The rate limiter reads the clock before it takes its mutex.

What makes the parts correct:

* *Repository, serial*: positions are distinct within a column, other cards keep
  their order, only deletes and moves past the end of a column open holes, and while there
  are none a drop index is honoured.
* *Repository, concurrent*: a move's first read stays true until it commits, it
  shifts only rows it holds and by one, a failed request leaves nothing, deleted
  cards stay deleted, every request is answered, and without overlap the
  statements amount to the serial operations.
* *Hub*: rooms are exactly the subscribers, boards do not mix, events arrive in
  order and at most once, losses are counted, a broadcast ends.
* *Boards and columns*: a board comes with all of its default columns or not at all, a
  column goes after those its request found, a rendered tree is consistent although it is
  read in two statements.
* *Realtime path*: what a page shows of a card's title and description was in the database
  and never goes back, a page that is behind on them is about to be told or was passed by, and
  one that nothing passed by shows every card in the end. Of the place of a card the code keeps
  no such promise to open pages.
* *Sessions*: a session written back by several requests loses nothing, a page's form
  token is its session's, a sign-in or sign-out lasts.
* *Avatars*: a row, or a key read from it, names an object that is there.
* *Rate limiter*: how many pass in any window's length is bounded, nobody is refused before
  the limit, and waiting for longer than a window is enough.
* *Lifecycle*: every request ends, nobody who holds a connection waits for another, the
  listener comes back from every outage, a process told to stop exits.

## Modules

```
CardRows            rows and the three UPDATEs of MoveCard, as operators
  SerialBoard         one operation at a time      (the abstract specification)
    MCSerialBoard
    BoardTree           boards, columns and the trees read from them, around SerialBoard
      BoardTree_proofs    MCBoardTree              (the proofs about SerialBoard, too)
  BoardStore          statement by statement
    MCBoardStore                                   (the moves that disagree)
    StoreAlone          with a record of which requests ran alone
      BoardStore_proofs   MCStoreAlone             (the proofs about both)
Hub                 Subscribe, cancel, Broadcast
  Hub_proofs
  HubLedger           the hub with numbered events, to speak about loss and order
    HubLedger_proofs    MCHub                      (with Hub_proofs)
  Realtime            service, listener, hub and pages together
    Realtime_proofs     MCRealtime                 (with Hub_proofs)
    BoardPage           what of it the page displays, and where
      MCBoardPage
LiveBoard           what a page may rely on         (the abstract specification of Realtime)
Sessions            sessions, sign-in and sign-out, accounts, the browser's cookie
  Sessions_proofs     MCSessions
Server              the process: requests on the pool, the listener, avatars, start and stop
  Server_proofs       MCServer
RateLimiter         windows, the clock and the mutex
  RateLimiter_proofs  MCRateLimiter
```

**CardRows.** A row is a column and a position; `Unborn` and `Gone` stand for ids
not inserted yet and deleted ones. Titles and timestamps are left out. `AfterSource`
and `FromGap` are the WHERE clauses of steps 1 and 2 of MoveCard, `Moved` the whole
of it on a table nobody else touches; `RaiseOverflows` is the int4 limit.

**SerialBoard.** `CreateCard`, `MoveCard`, `DeleteCard` and `NotFound`, each one step.
`PageNext` asks only for indexes a user can drop a card at (`board.js` sends Sortable's
`newIndex`).

**BoardStore.** Variables: `cards`, the committed rows; `draft`, the newest version
of each; `lock`, which transaction holds a row; `req`, per request its place in the
code and its local variables (`from` is `srcColumnID, srcPos`; `todo` the rows the
running UPDATE has yet to visit). Actions follow the code:

| Code | Actions |
|---|---|
| `handleCardMove` up to the call | `AskMove`, `AskNotFound` |
| SELECT ... FOR UPDATE, ErrNotFound | `SelectForUpdate` |
| SELECT board_id fails | `ColumnUnknown` |
| step 1 | `StartTakeOut` (the snapshot), then `TakeOutRow` per row |
| step 2 | `StartGap`, `GapRow` per row, `GapOverflow` |
| step 3 | `Place` |
| UPDATE boards, Commit | `TouchBoard`, `Commit` |
| CreateCard | `AskCreate`, `ReadNextPos`, `NextPosOverflow`, `Insert` |
| DeleteCard | `AskDelete`, `DeleteRow` |
| deferred Rollback; request context cancelled; deadlock detector | `Rollback`, `Cancel`, `DeadlockVictim` |

Postgres is modelled from its documented behaviour at the isolation level that
`pgx.TxOptions{}` selects: an UPDATE chooses rows in its statement's snapshot,
waits for each row's holder, evaluates the WHERE clause again on the newest
version and keeps the row locked. A position outside int4 cannot be encoded and fails
the transaction exactly as an overflow does, so `DestPositions` is a subset of
int4. UpdateCard writes neither column nor position and locks one row for one
statement; it is left out.

**StoreAlone** adds one history variable: the requests that no other one has overlapped since
they were asked. For those it instantiates SerialBoard: whatever ran before, such a request
commits what one operation of SerialBoard does. `DoneSoFar` says what of it is done at each
statement.

**BoardTree** extends SerialBoard by `boards`, `columns`, `job` (where each creating request is)
and `page` (where each reading request is). A card operation commits as one step here.

| Code | Actions |
|---|---|
| CreateBoard: transaction, INSERT of each default column, Commit | `BeginBoard`, `InsertDefault`, `CommitBoard` |
| CreateColumn: MAX(position), INSERT | `AskColumn`, `ReadMax`, `InsertColumn` |
| GetBoard, GetColumn: columns, then cards | `ListColumns`, `ReadCards`, `EndRead` |
| a statement fails; the client goes away | `Cut` |

Two history fields say what a request found: `seen`, the columns the maximum is of, and
`stayed`, the cards that have been in the listed columns ever since.

**Hub.** `open` is the key set of the `rooms` map, `rooms` its values, `buf` the
buffered channels, `cast` the broadcasts in progress (the copied room and the sends
still to do), `sub` which board's subscriber reads a channel. Subscribe and the
cancel func are one step each (they hold the write lock); Broadcast is one step up to
RUnlock and then one step per send. `Collected` says when a channel's name may stand
for a new channel: when neither a subscriber nor a broadcast refers to the old one.

**HubLedger** adds two history variables and changes nothing else: events carry
their broadcaster and a number.

**Realtime** composes service, publisher, listener, hub and pages. The content of a card, its
title and description, is a number of committed versions (`db`); its place is its column
(`at`). Positions are left out. `view` is the version of each card a page was last told, `tab`
the board it shows, which its stream is opened for again and again.

| Code | Actions |
|---|---|
| the service: commit, and the notification still owed | `CreateCard`, `UpdateCard`, `MoveCard`, `DeleteCard`, `AddColumn` |
| `notify`; what stops it | `Notify`, `NotifyFails`, `BoardLookupFails` |
| `Listener.runOnce` | `Listen`, `Disconnect`, `Broadcast`, `SendTo` |
| GET /boards/{id}: the two statements of GetBoard, and the page | `BeginLoad`, `Load` |
| `handleBoardEvents` and the page's EventSource | `OpenStream`, `TakeEvent`, `CloseStream`, `LeavePage` |
| `writeEvent` | `BeginRender` (the columns of the board), `WriteEvent`, `ReadFails` |
| a frame arrives at the page | `ReceiveFrame` |

An event holds an action, a card and, for a creation, a column. `Frame` says what the stream
writes for it, and holds what the code's templates render and nothing else: `CardFrame` the
content of one card and no column, for a move as for an edit; `ListFrame` the cards of a column
or of a board, with their columns; `DeletionFrame` an id. `wire` has the frames that were
written to the connection and have not arrived; `CloseStream` throws them away. GetBoard's two
statements are two steps, for a page (`BeginLoad`, `Load`) and for a frame (`BeginRender`,
`WriteEvent`): a card that gets in between into a column added in between is not found.

Every loss of content the code can have is an action or a branch of one: `NotifyFails`, `Notify`
while the listener is down, `Disconnect`, a full buffer in `SendTo`, a stream not open yet in
`Broadcast`, `ReadFails`, `CloseStream` with something under way, `Load` with a card that was
not found. The history variable `missed` collects the pages that each of these passes by, until
they are loaded anew. A move between boards is not modelled (`BoardOf` is constant).

**LiveBoard** states what is promised with all that left out: the content of cards changes,
pages open with some of the cards and close, and some cards of a page's board are shown anew, as
they are or as they were since they were last shown, never as they were before.
`ImplementsLiveBoard` is the refinement, with `view` for `shown`. Where a page shows a card, and
when it is told, is not among the promises: `MovesAreDisplayed` and `ConvergesUnlessMissed` are
about those.

**BoardPage** adds `dom`, the card elements a browser displays, each with its content and the
column it stands in. Which frames change it is decided by two attributes of
`templates/board.templ` (`sse-swap`, `hx-swap`), where a card stands by the frame, if it says so;
htmx and its extension are external. `HealthySpec` leaves out every failure.

**Sessions.** Variables: `rows`, the sessions table as `Find` sees it (an expired row is a
missing one); `accounts`; `req`, per request its place in the code, the copy of the session
it works on and its answer; `jar`, each browser's cookie; `last`, a history variable. scs
surrounds every request with `Load` (PostgresStore.Find) and `Store` or `Close`
(PostgresStore.Commit, or nothing). As `NewManager` sets an idle timeout, a session that
was found is always written back. Handlers act in between:

| Code | Actions |
|---|---|
| GET /login, /register: GetOrCreateCSRF | `ShowForm` |
| other pages: CurrentUser, RequireAuth | `ShowPage` |
| CSRF.Protect and checkCSRF, the rate limit, a wrong password, a taken e-mail, a failed delete | `Refuse` |
| Authenticate; Register (INSERT INTO users) | `Authenticate`, `Register` |
| RenewToken, SetUserID, SetCSRF | `SignIn` |
| Destroy | `SignOut` |
| a statement fails, a panic, a restart | `Fail` |
| the browser; expiry | `Send`, `Arrive`, `Abandon`, `Expire` |

POST requests other than sign-in, registration and sign-out leave the session alone and are
`ShowPage` as far as sessions go. A token stands for a new random one once nothing
refers to the old one.

**Server.** A request is a sequence of places (`Steps`), some of which need a connection of
the pool; `conn` is the connections in use, `avatar` and `objects` the two stores.

| Code | Actions |
|---|---|
| a handler begins; a stream takes an event; the client goes away | `Accept`, `TakeEvent`, `Leave` |
| pgxpool: a connection, or none any more; its return | `Acquire`, `Refused`, `Query`, `QueryFails`, `Save` |
| `Uploader.Upload`, `SetAvatarKey`, `handleAvatarImage` | `Put`, `PutFails`, `Save`, `Get` |
| `Listener.Run` and `runOnce` | `Connect`, `Disconnect`, `Wait`, `ListenerStops` |
| `main` | `Serve`, `StartFails`, `Stop`, `ShutdownReturns`, `Exit` |
| a kill; the next start | `Crash`, `Restart` |

Five kinds of request stand for all handlers: they differ in which places they pass. "user"
stands for the session's Find and GetByID, "owner" for the lookups of a board and its owner,
"commit" for the session that scs stores before the answer goes out; each takes a connection
and gives it back, however many statements it stands for.

**RateLimiter.** `now` is the clock, `windows` the map, `req` a request between reading the
clock and the mutex, `log` (history) what was counted. `ReadClock` is the statement before the
mutex, `Count` the section under it, `Tick` the passing of time, which `MaxDelay` keeps
from running away from a waiting request. A reading may be older than the window it is
counted in.

Definitions called *Variant* stand next to some actions: what the action would be with
a plausible slip in the code (a lock not taken, a check left out, an order
swapped). No specification uses them. Each property has been seen to fail when
the variant takes the place of the definition, so each can fail for a reason that
lies in the code.

## What is checked

| Run | Instance | Shows |
|---|---|---|
| `MCSerialBoard.cfg` | 3 cards, 2 columns, int4 = -2..4, positions -1..3 | `TypeOK`, `UniquePositions`, `HolesOnlyFromDeletes`, `OthersKeepOrder`, `DropIndexHonouredWhenDense` |
| `MCSerialBoard_dropindex.cfg` | the same, drops only | `DropIndexHonoured` **fails** |
| `MCStoreAlone.cfg` | 2 cards, 2 columns, 2 requests, positions 0..1, int4 = -1..2 | the inductive invariant `AloneIInv`, `NothingLeftBehind`, `FreshSource`, `NoNegativePositions`, `OnlyNeighboursShift`, `DeletedStaysDeleted`, `AloneIsSerial`, `EveryRequestAnswered` |
| `MCBoardStore_moves.cfg` | 3 cards, 2 requests, moves only | `UniquePositions` **fails** |
| `MCBoardTree.cfg` | 4 columns, 2 boards with 2 default columns, 2 cards, 2 creating requests, 1 reader | the inductive invariant `TreeIInv`, `BoardsAreWhole`, `TreeIsConsistent`, `LaterColumnsFollow` |
| `MCHub.cfg` | 2 boards, 2 channels, 2 broadcasters, buffers of 2, 2 events each | the inductive invariant `LedgerIInv`, `RoomsAreSubscribers`, `Isolation`, `InOrder`, `LossesAreCounted` |
| `MCRealtime.cfg` | 1 page of either of 2 boards that may stop reading, 1 column and one to be added on each, 1 card with an edit, 3 commits, 2 requests, buffer of 1, 2 frames on the wire | the inductive invariant `RealtimeIInv`, `ImplementsLiveBoard` (refinement), `ConvergesUnlessMissed`, `BroadcastEnds` |
| `MCBoardPage.cfg` | 1 page, 2 columns, 2 cards, 1 commit, buffer of 4, nothing breaks | `MovesAreDisplayed` **fails** |
| `MCSessions.cfg` | 1 browser, 2 requests at a time, 2 users, 3 session and 2 form tokens | the inductive invariant `SessionsIInv`, `SessionCopiesAgree`, `PagesMatchSessions`, `SignInsLast` |
| `MCServer.cfg` | 2 requests on 1 connection, 1 user, keys for 2 uploads, waits of 1 and 2 | the inductive invariant `IInv`, `AvatarsAreStored`, `RequestsEnd`, `StopsWhenTold`, `ListensAgain` |
| `MCServer_backoff.cfg` | the same, waits of up to 30 | `OutagesStartOver` **fails** |
| `MCRateLimiter.cfg` | limit 2, windows and delays of 2 ticks, 6 ticks, 6 calls, 2 of them at a time | the inductive invariant `LimiterIInv`, `BurstsAreBounded`, `RefusalsAreEarned`, `WaitingIsEnough` |

**Bounds.** Three cards are enough for a card to be moved between two others, and
for two moves to shift each other's card and a third. `MCStoreAlone` has two, so that its
liveness property can be checked on the same graph: two moves still shift each other's
card and wait for each other, and each of its safety properties is a theorem for every number of
cards. Two columns are enough for moves within and across columns; two requests for every race
of two handlers. The int4 range
is a few values wide so that both ends are reached. `MCBoardTree`'s four columns are two whole
boards, or one and two columns created at a time. `MCHub`'s buffer of 2 (4 in the
code) is filled and overflows within four events. In `MCRealtime` one event
fills the buffer while the handler renders another and two frames are on their way; three commits
are enough for a card to be created, edited and deleted, or to be moved into a column that was
added meanwhile; the two requests may notify in either order, and the page may leave the board of
the card for the other one and come back.
In `MCSessions` a browser's session, its successor and a third one that a request given up
earlier still works on are all there at once; browsers share nothing but accounts, so one
is enough. In `MCServer` one connection makes every other request wait, and the second upload
overtakes or replaces the first. `MCRateLimiter` has time for three windows, which is where the
bound with waiting requests comes from; addresses share nothing, so one is enough. `MaxEdits`,
`NewCards`, `MaxChanges`, `MaxColumns`, `MaxEvents`, `Keys`, `MaxTime` and `MaxCalls` bound
counters that the code does not bound, `SocketBuffer` what fits between the server and the page.
Symmetry is used in `MCBoardTree.cfg`, `MCHub.cfg`, `MCSessions.cfg` and `MCRateLimiter.cfg`
only, which check no liveness.

**Fairness.** `Fairness` of BoardStore (in `FairAloneSpec`) has strong fairness of each
request's own steps (Postgres grants a row in the order of requests, so nobody is overtaken
for ever) and weak fairness of the deadlock detector. Nothing has to ask, cancel
or fail. `Fairness` of Realtime: a request that has committed finishes (it has nothing to
wait for but a connection), the listener reconnects (its loop retries until shutdown) and
forwards. That a page goes on reading is nothing the server controls: `KeepsReading` is a
premise of `ConvergesUnlessMissed`, and `BroadcastEnds` holds without it. Server: strong
fairness of each request's work, as pgxpool hands out connections in the order they are
asked for, and of `Connect`, as Postgres accepts a connection now and then; weak
fairness of timers and of `main`'s own steps. Strong fairness of `Connect` is needed because an
attempt may fail any number of times before it succeeds.

**Deadlock** is checked in all passing runs but `MCRateLimiter.cfg`, which really ends when
the clock and the calls are used up. Of the runs that fail on purpose, those of cards and pages
do without it too, because their restricted next-state relations end when no card can be changed
any more.

**What overlapping requests do to a sign-in.** `SignInsLast` is silent (`last` is
`Unknown`) where the code promises nothing: an answer that belongs to the old session may
arrive after the sign-in's own and put the old cookie back, and the row of a session that
was signed out may be written back by a request that had loaded it. Both need requests that
overlap a sign-in or sign-out. `SessionCopiesAgree` says what is written back then: exactly
the old session.

**What two windows let through.** Windows are fixed, so a burst at the end of one and another
at the start of the next both pass. `BurstsAreBounded` says how much: in any stretch as long as
a window, twice the limit less the one that opened the first window. A request that had to
wait for the mutex is counted with an old reading; with delays of up to a window a third window
can contribute, and the bound is three times the limit less two. The instance reaches both.

**What a page can miss.** An event that finds the buffer full is dropped and counted
(`hub.go:93`), one sent before the stream opens or while the listener reconnects is gone, a frame
written to a connection that breaks is gone with it (`sse.go:94`), and nothing sends any of them
again: an EventSource that reconnects starts with what happens next. A board read in two
statements (`board.go:100`, `:127`) lacks a card that is in a column added in between.
`LossesAreCounted` covers the first. `BehindOnlyIfMissed`, a part of `RealtimeIInv`, says that the
losses in `missed` are the only ones of *content*: whenever a page shows the title and description
of a card of its board, or its absence, otherwise than the database has it, an event that is sure
to have it told is owed by a request, queued, being broadcast, buffered or in the handler's hand,
or the frame is on the wire. `ConvergesUnlessMissed` adds that it arrives. Of the *place* of a
card nothing of the kind holds: the frame of a move does not tell it (disagreement 3).

### Disagreements found

1. *Concurrent moves break positions* (`MCBoardStore_moves.cfg`). Two moves that overlap
   leave two cards of a column at one position. `board_integration_test.go:184` says
   positions are dense after a move; from then on `created_at` decides
   the order and shifts act on both cards at once.
2. *A drop index is not a position* (`MCSerialBoard_dropindex.cfg`). DeleteCard leaves a
   hole (`board.go:258`); with cards at 1 and 2 left, a card dropped at index 1 is
   written to position 1, in front of the card it was dropped behind. This takes no
   concurrency. As long as no column has a hole, `DropIndexHonouredWhenDense` holds.
3. *A move is never told* (`MCBoardPage.cfg`). For a `card-moved` event the stream writes a
   `card-updated` frame with `CardView` (`sse.go:85-98`, `templates/board.templ:100-116`): title
   and description, no column and no position. `docs/docs/api.md:47-48` documents an event
   `card_moved` with the columns and the position, and `docs/docs/quickstart.md:47` promises that
   a second tab shows a move without a reload.
4. *An open page displays no frame* (the same run). The elements of the board page that
   listen to the stream listen to `card-updated` and `board-replaced` only, and
   `hx-swap="none"` on the outer one (`templates/board.templ:50`), which `#board` inherits,
   discards both; `sse.go:81` says that each event name maps to a swap target. Even if
   nothing breaks, an open page goes on displaying what it was loaded with. In the model, a
   repair of the attributes alone leaves `MovesAreDisplayed` violated, because of 3; with frames
   that carry the column as well it holds.
5. *The backoff is never reset* (`MCServer_backoff.cfg`). `Run` starts over with a second when
   `runOnce` returns nil (`listener.go:40-43`), and `runOnce` returns only errors. An outage
   begins with twice the last wait of the one before, up to 30 seconds, however long the
   connection was up in between.

Three more were met and are not a run's: `session/store_integration_test.go:56-64` and `:79-85`
read the second result of `Find` as "expired", where `store.go:26-28` and scs have it as "found",
so those tests contradict the code; `service.go:116-117` speaks of a version field of the event
that lets clients ignore stale ones, and the payload (`:130`) has none (`FramesGoForward` shows
that clients of one stream need none); and the pages of the documentation name routes and
events by other names than the code does.

## What is proved

The proof modules establish, for every value of the constants that satisfies the
named assumptions:

* `BoardTree_proofs`: of SerialBoard, `TypeOK`, `UniquePositions`, `OthersKeepOrder`,
  `HolesOnlyFromDeletes` and `DropIndexHonouredWhenDense`; of BoardTree, `TreeIInv`,
  `BoardsAreWhole`, `TreeIsConsistent`, `LaterColumnsFollow`, and `TreeCardsAreSerial`: its cards
  behave as SerialBoard, so what is proved of that holds there.
* `BoardStore_proofs`: the inductive invariant `IInv` and from it `FreshSource`,
  `NothingLeftBehind`, `OnlyNeighboursShift`, `DeletedStaysDeleted` and, if no negative
  position is asked for, `NoNegativePositions`; of StoreAlone, `AloneIInv` and `AloneIsSerial`,
  which is the refinement: the statements of a request that ran alone are one step of SerialBoard.
* `Hub_proofs`: `RoomsAreSubscribers` and `Isolation`.
* `HubLedger_proofs`: the ledger implements `HubSpec`; `LedgerIInv`, `InOrder`, `LossesAreCounted`.
* `Realtime_proofs`: `RealtimeIInv` and from it `BehindOnlyIfMissed` and `FramesGoForward`;
  Realtime implements LiveBoard, and its hub `HubSpec`.
* `Sessions_proofs`: `SessionsIInv`, `SessionCopiesAgree`, `PagesMatchSessions` and `SignInsLast`.
* `Server_proofs`: `IInv` and `AvatarsAreStored`.
* `RateLimiter_proofs`: `LimiterIInv`, `BurstsAreBounded`, `RefusalsAreEarned` and
  `WaitingIsEnough`.

So each invariant and each action property that a passing run checks is a theorem as well.

Assumptions: `Markers` and `Int4Range` (the markers are no columns, int4 is an interval
around 0), `DestInRange`, `StoreConstants`, `TreeConstants`, `HubConstants`, `RealtimeConstants`,
`SessionConstants`, `ServerConstants`, `LimiterConstants`. They are evaluated by the runs
of the modules that declare them. The bounds of the instances (`MaxTime`, `MaxCalls`,
`MaxEdits`, `Keys`) are constants of the theorems too, which hold for every value of them.

*Positions of SerialBoard.* `MovedUnique` carries `UniquePositions`: taking out leaves no other
card at the source, so lowering is injective; the gap is free, so placing is too. The two
properties of tables without holes speak of how many cards are above another one. `AsManyBelow`
says that in a column where no position is skipped, position n has n cards below it, by way of a
smallest counterexample (`SmallestOf`): a set of naturals that is not empty has a least element,
which is what induction comes to for a prover without operator parameters. `OthersDense` shows
that taking a card out leaves none skipped and `PlacesBelow` that what a gap moves up is behind
the dropped card, so as many are above it as its index says.

*The invariant of BoardStore.* `OnlyNeighboursShift` speaks of a commit, which publishes
drafts, so the invariant must say what a draft can be at each place of a move:
`DraftsAreShifts` says a held row differs from its committed version by at most the shifts
made so far, or is the destination. That needs `FreshSource` (the moved card's row does
not change under it), which needs `HeldRowsExist` and `FreshIds` (an insert never hits a
held row), which need `KnownIds` (a delete never hits an id being created). Every
lemma about an action shows that the action leaves other requests' rows alone and
`StepInv` assembles the rest. Non-negative positions come from a second invariant on
top, `NoNegativeSources`: step 1 lowers a row only if it is still above the source when it
is written.

*The invariant of StoreAlone* adds `DoneSoFar` for the one request that has the table to itself:
the rows its UPDATE has visited are as SerialBoard's operator for the finished statement has
them, those still to visit as the statement before left them. When nothing is left to visit
they all are, and the drafts a commit publishes are `Moved`. No draft or lock of a request
before it interferes, which is `IInv`.

*The invariant of Hub* adds `CastsAreFormed`: a broadcast with sends to do has an event.
`Isolation` follows because a copied room holds only channels of the event's board, and a
channel's name is used again only when no broadcast is to send to it.

*The invariant of HubLedger* adds `NumbersAreSent`: an event carries its broadcaster's number
for its board, no larger than the last one given out. A broadcast that begins has then a larger
number than all that is buffered, and a broadcaster is in one broadcast at a time, so order is
kept; and a number between the last one taken and the last one given out that is neither
buffered nor about to be sent has been dropped, which the counter shows.

*The invariant of Sessions.* `SessionCopiesAgree` holds because a stored session always has
a form token (`StoredSessionsAreFormed`), so no handler has a reason to change one it
loaded, and a sign-in puts its user into a session with a new token. `RequestsAreFormed`
says what a request may know of its session at each place in the code. `NoNewCopy` covers
the ten actions that make no new copy of a session; `Load`, `SignIn` and `Store`, which do, have
lemmas of their own.

`SignInsLast` needs the second half, `SignIInv`. `TokensAreOwned`: no two browsers come by one
token. `NewSessionsAreUnknown`: until the answer to a sign-in arrives, nobody else has its
token. `TurnsRunAlone`: where it is known whom a browser is signed in as, a sign-in or sign-out
runs alone, and one that was given up works on a session the browser does not have any more.
`SettledSessionsAgree`: between two of them, every session the browser can come to have, in
its cookie, in its requests, in their answers and in the table, is one of the same user.

*The invariant of BoardTree* is about what a request holds between two statements. `JobIsSound`:
the columns of an uncommitted board are nobody else's, and a position read as a maximum plus
one has every lower position below it taken, which stays so because columns are only
added. `PageIsSound`: the cards said to have stayed are still in the listed columns when the
second statement reads them.

*The invariant of Realtime* is the hub's with four parts. `EventsAreTrue`: wherever a
notification is on its way, in a request, on the connection, in a broadcast, a buffer or the
handler's hand, it goes to the board of its card, and if it tells a deletion, the card is deleted
for good. `card-deleted` frames need it, the only ones written without reading the card again.
`StreamsFollowPages`: a stream is that of the page's board and ends with what its handler holds and
what it has written. `FramesGoForward`: the versions of a card on the wire, oldest first, begin
with what the page shows and end with the database. A frame that is written holds what the
database has (`WrittenFrames`), which is no earlier than all before it, so each frame that
arrives is a `Show` of LiveBoard, and `StepsShow` maps the rest of the steps. `BehindOnlyIfMissed`:
`Tells` says which events are sure to have a card told as it is by then. That of an edit or a move
is, and of a creation as long as the card is in the column it was created in, because the column
frame may find the card gone from it; a deletion is only ever told by its own event. Each commit
owes such an event, `StaysOnItsWay` carries it over every step that only moves it on, `PageTells`
over the steps of a page and its stream, which hand it on, put the page into `missed`, or have the
frame hold the card, and `BehindKeeps` joins them.

*The invariant of Server* adds `ConnectionsInUse`: a connection is that of a request at a place
which needs one, so none is leaked by a failure. `AvatarsAreStored` speaks of keys that
requests hold as well as of rows, because a row is written from what a request holds; objects
are never removed.

*The invariant of RateLimiter* relates each entry of the log to the window there is now
(`EntryIsSound`, `WindowIsLogged`): windows of an address do not overlap, and the n-th
request of one has n - 1 others counted before it. The bounds follow by counting: a
stretch of a window's length cannot hold the openings of two windows, and requests that were
counted at their reading are of two windows at most. With waiting requests there may be a third,
but then the first and the third were opened outside of the stretch, which leaves each
one admission less.

Model-checked only are the liveness properties, `EveryRequestAnswered`, `BroadcastEnds`,
`ConvergesUnlessMissed`, `RequestsEnd`, `StopsWhenTold` and `ListensAgain`: the prover handles
neither fairness nor ENABLED. `BehindOnlyIfMissed` is the part of `ConvergesUnlessMissed` that is
safety.

## What is not modelled

* Third-party browser code, image processing, configuration, HTML, headers, routing and the
  JSON codec: they keep no state, or their state is not the server's.
* Flash messages, `ClearUserID`, `Storage.Delete` and `PresignedGet`: no handler calls them.
  As replaced avatars are never deleted, an object may outlive every row that names it.
* The rate limiter's map is never pruned (`ratelimit.go:38`); a model only restates that it
  grows. Its key is `r.RemoteAddr`: address and port, a new entry for each connection, unless
  the RealIP middleware (`server.go:47`) has put there the address that a proxy's header names,
  without a port. The model counts one key, whichever it is.
* `sse.go:33` asserts that the response writer can flush. Whether it can behind the session
  middleware depends on the library, which is not part of the repository; the models take
  it that streams open.
* The browser's cache of an avatar, and the swap of the answer to a page's own request.
* A move of a card to another board: Realtime fixes each card's board. The repository part
  is covered, as BoardStore does not ask whether two columns belong to one board.
* Changes committed while the process shuts down: the listener has stopped by then, and what
  they notify is lost as in any other outage.

## Plan

Done: the modules and proofs above. Next, in this order:

1. Moves between boards in Realtime, with the event going to the board the card is on now; the
   pages of the board it left are then told by nothing, which `BehindOnlyIfMissed` has to say.
2. Proofs of what is safety in the liveness properties: in Server, that a request which waits
   for a connection holds none; in BoardStore, that only moves can wait for each other.
3. BoardTree over BoardStore instead of SerialBoard, so that trees are read between the
   statements of a move.
