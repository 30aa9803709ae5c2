# tjucli in TLA+

Specifications, model-checking runs and proofs for `tjucli`, a command-line
client for a course-sharing site, and `tjucli-server`, the tool server through
which sandboxed runs use it. Paths below are relative to `src/`.

| Part | Module | Checked by | Proved in |
| --- | --- | --- | --- |
| request pipeline of the tool server | `ToolServer`, `Admission` | `MCToolServer` + 3 cfg | `ToolServerProofs` |
| the grants file, read while it is edited | `GrantsFile` | `MCGrantsFile` | `GrantsFileProofs` |
| spool directory and process exit | `SpoolShutdown` | `MCSpoolShutdown` + 2 cfg | `SpoolShutdownProofs` |
| catalog search | `CatalogSearch` | `MCCatalogSearch` + 2 cfg | `CatalogSearchProofs` |
| downloads, local and remote | `Download`, `Publication` | `MCDownload` | `DownloadProofs` |
| `course ls` from agent to host and back | `Browse`, `Listing` | `MCBrowse` | `BrowseProofs` |
| room queries | `RoomQuery` | `MCRoomQuery` + 2 cfg | `RoomQueryProofs` |

`PROJECT.json` maps each definition to the lines it stands for, and lists runs,
mutants, hazards, findings and theorems.

## 1. The system

A user or an agent runs `tjucli` (`cmd/tjucli`). In local mode it talks to the
course host itself (`internal/tjucli`), in remote mode to `tjucli-server`
(`internal/remote` to `internal/toolserver`), which holds the same local
provider. Nothing is persisted but the files a user downloads; the state that
matters is in the server's memory, its spool directory, and the target path.

| Component | State | Operations | Talks to |
| --- | --- | --- | --- |
| request pipeline (`toolserver/server.go`) | semaphore, per-request grant, deadline and response | three POST routes behind `withAuthAndLimit`, `/healthz` | authorizer, provider, net/http |
| authorizer (`toolserver/authorizer.go`) | none; reads the grants file for each request | `Authorize`, `ValidateGrantsFile` | grants file, written by an operator |
| spool and process (`server.go`, `cmd/tjucli-server`) | `spoolDir`, `spoolMu`, the directory tree, `run` | `NewServer`, `Shutdown`, `Close`, `cleanupSpoolDir`; download handlers make and remove `dl-*` | signals, download handlers |
| catalog search (`tjucli/provider.go`) | cursor, cursors seen, matches | `Search` over `List` | course host |
| downloads (`tjucli/provider.go`, `remote/client.go`) | temporary file, target | `Provider.Download`, `Client.Download` | course host or server, file system |
| remote list and search, error mapping (`remote/client.go`) | none | `List`, `Search`, `doJSON`, `parseErrorResponse` | server |
| remote configuration | none | `LoadConfig` | environment, token file |
| rooms (`tjucli/rooms_provider.go`) | none | `CheckRooms`, `ResolveBuilding`, ... | room host; no command uses it yet |
| command line (`cmd/tjucli`) | none | option parsing, envelopes, exit status | provider or client |
| index client (`internal/search`) | none | single HTTP calls | index server; not used by the rest |

What is hard here:

* **Concurrency.** A goroutine per request shares semaphore, grants file and
  spool. A shutdown deletes directories that handlers are still filling.
  Downloads of several processes share a target path.
* **Time.** A grant expires while its request runs. Deadline, drain timeout,
  client timeouts and late answers race.
* **Failure.** Clients stall or vanish, hosts send short or altered bodies,
  processes are killed, and every error return has to undo what came before it.
* **Adversity of data.** Cursors of the course host may cycle, be too long, or
  change their meaning while they are followed. Names of buildings match a query
  in several ways at once, and some of the lists are missing.
* **Meaning of errors.** A code changes its name and its status twice between
  the host and the exit status, and an agent acts on what is left of it.

What makes each part correct: slots are conserved and come back; only a live
grant is served, and not (much) beyond its expiry; a clean exit leaves no spool
behind and an exit always comes; a search's answer is what its marks say; a
download appears whole, at once, only where nothing was, and otherwise leaves
no trace; a listing has every page in order and says when it is complete; a
denial or a usage error means what it says; the rooms answered are those of the
building that was meant. The properties below say this precisely.

## 2. The modules

### Admission and ToolServer

`Admission` is the abstract promise of `TOOL_SERVER.md:20`, 32 and 40: at most
`MaxConcurrency` requests are in a slot and the rest is turned away; a request
is served only on the entry the file holds for its own token at one moment of
its own time in a slot (`Look`), and only if that is in scope and has not
expired when serving begins (`Serve`); it is answered once, with payload or with
a failure, or not at all, and which of these is settled before its slot is given
back, although net/http may send what it still buffers of the answer after that. `ToolServer` is
the code. Its instance `Promised` maps the holders of the semaphore to the
slots and each request to what `Call` tells of it: its stage by `pc` and
deadline, the entry it goes by (from the document it has read, then from the
grant), and what it has answered. `KeepsPromise` is `Promised!Spec`.

In `ToolServer` one request is one goroutine; its `pc` names the statement it stands at, and an
action is a run of statements that touches shared state once.

| Action | Code |
| --- | --- |
| `Arrive`, `Disconnect` | net/http starts the goroutine; the client closes its sending side, or goes away |
| `Acquire`, `Busy` | the `select` on `s.sem` (`server.go:183`), 429 |
| `CheckHeader` | bearer token extraction |
| `LoadGrants`, `Match` | `Authorize`: the file's read, then the clock's and the decision |
| `CheckExpiry`, `SetDeadline` | the first and the second clock read (216, 229) |
| `ReadBody`, `RejectBody`, `AbandonBody` | `decodeStrictJSON` and argument checks |
| `CallProvider` | the provider, with its error through `writeProviderError` |
| `CheckContext`, `VerifySpool` | the looks at `r.Context().Err()`, the download's verification |
| `Respond`, `WriteEnvelope`, `StopEnvelope` | `writeSuccess`: the start of an envelope, its writes to the socket if it is large, a write error |
| `StreamPart`, `StopStream`, `BreakStream` | the streaming loop, and its ends on a write error or the deadline, on a half closed client or a read error |
| `Return`, `Flush` | the deferred receive from `sem`; net/http ends the response |

The three routes share their actions up to `CheckContext`, where a download
goes to `VerifySpool` and the others to `Respond`. Buffering matters. A small
envelope, like every failure, stays in net/http's buffer until `Flush`, after
`Return`. A large one is written to the socket within `writeSuccess`, part by
part, under the slot: `WriteEnvelope` waits for a client that does not read, and
only the write deadline ends that wait (`StopEnvelope`). What is left of it in
the buffer leaves at `Flush`. Stream parts leave as they are flushed.

A connection is `open`, `half` closed or `closed`. That the context may be done
(`MayBeDone`) and that writes fail (`~Writable`) are different things: net/http
cancels `r.Context()` when its read of the connection meets the end of what the
client sends, also of a client that still reads. Its writes succeed, so a
handler that returns in silence makes net/http send it an empty 200. That is the
one case in which a client gets one (`EmptyOnlyToHalfClosed`).

`offered`, `checkedAt` and `setAt` are history, which the instance does not use:
what the file held for the token between arrival and decision, and the times of
the two clock reads.

Abstracted: a document is a function from tokens to grants or `Unreadable`
(duplicates make the real one unreadable); the read of the file is atomic
(`GrantsFile` says how far it is); the 405 of `withAuthAndLimit` (177) cannot occur, since the mux routes POST only.
The download handler's work on disk is in `SpoolShutdown`.

### GrantsFile

`readAndValidateGrantsDoc`, one action for each system call, beside an operator
who may rename a file or a link onto the path, put a link in the file's place,
unlink, chmod and write in place. `io.ReadAll` takes the document in `Parts`, and
a part may end within an entry: the entries are made of a head, the hash of a
token, and a tail, its expiry and scopes, and head and tail are read apart. An
inode lives while it has a name or a
reader, and its number may be used again after that, so `SameFile` can be
deceived. `Garbage` is anything invalid by itself; `Valid` is what the checks of the
decoded document leave: each entry whole and no token twice.
`during`, `held`, `trusted` and `torn` are history: the documents the path led
to, those and the ones in the open file, the files that were private, and whether
the open file was written to.

The module tells which edits keep `ToolServer`'s atomic read true: with rename
the document returned is one the path led to during the call
(`WholeUnlessTorn`). A write in place can tear it, within an entry too: the head
of one entry is then followed by the tail of another, and every check of the
code accepts it. What is left is that each part was at its place in a document of the call
(`PiecesOffered`). So `ToolServer`, and `Browse`, are about a site whose operator
replaces the grants file by rename. `TakesEffectAtOpen`, in
`GrantsFileProofs`, says at which moment: the document returned is the one in the
file at `Open`. `loadTokenFromFile`
(`remote/client.go:133`) makes the same calls in the same order.

Abstracted: the three size checks make documents `Garbage` or the call fail;
Lstat may fail for any reason, as may each later call.

### SpoolShutdown

The tree below `spoolDir`, with every system call of `os.RemoveAll` an action:
a first rmdir, which is all an empty directory needs (`CleanTry`, `UnwindTry`);
else list, unlink, rmdir, and this rmdir fails on what has appeared since the
listing.
Handlers run `handleCourseDownload` with `Provider.Download` inside;
`Main` is `run` with `Shutdown`, `Close` and the deferred `Close`. `cutOff` is
history: handlers that were at work when the server was closed.

Assumed: `http.Server.Shutdown` keeps its documented contract (it returns nil
when no request is in progress); the end of the process ends its goroutines;
unlink and rmdir fail only for the reasons modelled.

### CatalogSearch

A page is the number of its matching items and its next cursor; a host may
serve any such map from cursors to pages, and may replace pages while the search
runs (`Republish`, recorded in `changed`). What the answer means is stated for a
catalog at rest; `EachPageOnce` holds for any. `List` contributes its failures and its limit on
cursor length. `Reachable`, `OnCycle` and `AllHits` say what a right answer is
by least closed sets, without the loop.

### Publication and Download

`Publication` is the abstract promise: in one step a target that is absent
becomes the whole content of a download; success is reported only after that; a
failed or killed download does not touch the target; other programs do as they
please. `Download` models both implementations: the calls in `Remote` are
`Client.Download` (directory made, length insisted on, checksum compared,
context and target looked at again), the others `Provider.Download`. A file is
an inode with names: `target` names the inode the temporary name refers to, so
a write after the link would be seen by `TargetWhole`. The instance `Promised`
maps `pc` and `error` to the abstract `status`; `KeepsPromise` is
`Promised!Spec`.

Assumed: `link(2)` is atomic and refuses an existing name; the removal of one's
own temporary file succeeds; random temporary names do not collide. The body
may end anywhere and at any length, although net/http already cuts it at a
declared length: the checks of the code are what the properties rest on. The
output directory is not removed under a call.

### Listing and Browse

`Listing` is the promise of `TJUCLI.md:28` and `SKILL.md:43` to an agent that
follows `next_cursor`: the pages of the directory, from the first, in the host's
order and without a gap, called complete with the last one. `Browse` composes
the parts that keep it; one command runs at a time.

| Action | Code |
| --- | --- |
| `Run`, `GetProvider`, `Report` | `runList` with `parseOptions`; `getProvider` with `LoadConfig`, also for a `TJUCLI_MODE` it does not know; `success`, `fail` |
| `ListDirect` | `Provider.List` in local mode |
| `SendRequest`, `Receive`, `GiveUp` | `Client.List`: up to the request; from the reply, with `doJSON`, `validateListResponse` and `parseErrorResponse`; without one |
| `Admit`, `LoadGrants`, `Match`, `CheckExpiry`, `Serve` | the server's `withAuthAndLimit`, `Authorize`, `handleCourseList` |
| `Lose`, `Intrude` | the network; an ingress, or a 200 that does not decode or is too long |
| `EditGrants`, `Expire`, `ReplaceToken` | the operator, the clock, whoever hands out tokens |

`LongCursors` are above 8192 bytes; `WideCursors` are not, but above 16 KiB once
escaped as JSON. Codes are mapped by `ProviderError` on the server and by
`ByCode` and `ByStatus` in the client. `offered` and `foreign` are history: what
the file held for the token since the request, and whether the reply is the
server's own. The instance `Promised` has the variables of `Listing` under the
same names.

Assumed: the catalog is at rest during a session; the agent asks for JSON, and
a command whose output cannot be written exits with 1 (`main.go:254-276`); the
token file is read in one step (the protocol is `GrantsFile`'s); the server
answers `not_found` and `file_too_large` for downloads only, so `ProviderError`
leaves them out. The model keeps `--cursor` apart from the other arguments: a
cursor that is literally `--json` would be taken for the flag.

A cursor above 8192 bytes is handed out by a local `course ls`, which then
refuses it, and a wide one cannot be sent to a server. `TJUCLI.md:28` says that
a `next_cursor` "can be supplied unchanged with `--cursor`". `KeepsPromise` holds
all the same, since such a listing stays open for ever.

### RoomQuery

One call of `CheckRooms`. Strings are abstracted to what the code compares: a
campus or building is the set of its traits with respect to the query (`id`,
`exact`, `alias`, `contains`, ...), constrained by `TraitsAssumption`, and a host
is any list of campuses with lists of buildings. Each list is asked for once and
may fail to arrive; the context may be done at any time. `BestOf`,
`BuildingClasses` and `Meant` say what a query means without a search: the
first entry of the best class that is not empty.

Behaviour worth knowing, which the properties state and do not excuse: with
several matches for an alias the host's first is taken; the query `0` becomes
the empty string, which every name contains; and without a campus, one in
which the building is ambiguous is passed over like one without it.

Abstracted: the rooms, `parseBuildingID`, the checks of date and session (an
argument is valid or not). Blank queries are invalid.

## 3. The runs

| Run | Instance and bounds | Shows |
| --- | --- | --- |
| `server_safety` | 2 requests, 2 slots, 1 token, timeout 2, one expiry (2), `Horizon` 1, 2 parts | `TypeOK`, `AdmittedOnLiveGrant`, `EmptyOnlyToHalfClosed`, `DeliveryWithinOverrun` |
| `server_slots` | 2 requests, 1 slot, timeout 1, expiry 1, `Horizon` 1, 2 parts, fairness | `SlotAccounting`, `SlotsComeBack`, `KeepsPromise` |
| `server_deadline` | 2 requests, 2 slots, timeout 2, expiry 3, `Horizon` 2 | finding 1: `DeadlineWithinGrant` fails |
| `spool` | 2 handlers, fairness | `TypeOK`, `OwnDirectoryGone`, `GracefulExit`, `LeftoverHasOwner`, `Exits` |
| `spool_leak` | 2 handlers | finding 2: `ExitCleans` fails |
| `search` | every catalog over 3 cursors and a long one, 0 to 2 matches a page, caps 4 and 3, every pair of limits, also invalid ones; pages are republished | `TypeOK`, `EachPageOnce`, `LimitIsTight`, `CompleteMeansAll`, `IncompleteMeansMore`, `RepeatMeansCycle` |
| `search_exit` | as `search`, caps 3 and 3 | finding 3: `InvalidArgumentIsCallersFault` fails |
| `download` | 1 local and 1 remote call, limit of 1 unit, fairness | `TypeOK`, `TargetWhole`, `NothingLeft`, `CancelledUnpublished`, `CollisionReported`, `KeepsPromise`, `Returns` |
| `rooms` | up to 2 campuses with up to 2 buildings, plain and alias queries, fairness | `TypeOK`, `AnswerIsMeant`, `AnswerIsOnlyOne`, `RefusalJustified`, `Returns` |
| `rooms_upstream` | 1 campus with 1 building | finding 4: `UpstreamFailureIsRuntime` fails |
| `grants_file` | 3 inodes, 4 documents over 2 entries, 4 parts, 3 edits a call | `TypeOK`, `WholeUnlessTorn`, `PiecesOffered`, `PrivateWhenRead` |
| `browse` | 7 directories over 4 cursors, 1 token, 3 commands, 2 edits, fairness | `TypeOK`, `UsageErrorsExplained`, `DeniedOnlyWithoutGrant`, `PagesOnGrant`, `KeepsPromise`, `Returns` |

**Bounds, and why they are enough.** `Horizon` bounds time: nothing arrives and
no file is edited at or after it, and the clock runs on only while a deadline is
pending. With timeout 2, expiry 2 and horizon 1 a request that passes its check
at 0 keeps the configured timeout and one at 1 is clamped, either may be
descheduled between its clock reads, and either may meet its deadline at any
later point. Two requests suffice for an interaction over a slot or over the file: a
slot more than `MaxConcurrency` needs one holder and one intruder. Two
handlers let the cleaner be in one directory while the other is filled or
removed by its owner. Three cursors give cycles of each length with
and without an entry; four pages let a cap fall before, on and after the last.
Two units (`MaxBytes + 1`) are what a transfer needs to be short, exact and too
long. Two buildings of one kind each give every tie and every order, two
campuses every combination of found, ambiguous, absent and missing. Two edits
of the grants file are what it takes to free an inode and use its number again
under a call, and one more is left to tear it; a third inode keeps one free.
Four parts are two entries, so a document may be torn between them and within
either. Three commands let a session fail, go on and finish; the directories
have one page, two, a cycle, and long and wide cursors at the start, in the
middle and at the end. The proofs remove all these bounds but for liveness.
Requests (in the safety runs) and inodes are symmetric; no run with a
liveness property uses symmetry.

**Deadlock** is checked in every run. `Rest`, `Gone` and `Returned` stutter
where a bounded run, a session, a process, a search or a query has really ended, with guards that
say so; any other standstill would be reported. In `Download` other programs
can always act, and in `GrantsFile` the reader is called again and again; there
`Returns` and the next call take that part.

**Fairness.** `ToolServer`: time passes and a runnable goroutine runs; every
step that waits for a client is excluded, and the provider returns because its
HTTP client has a timeout and takes the request's context. `SpoolShutdown`:
only `run` itself is fair, so `Exits` holds with every handler stuck.
`Download`: a call that is not killed goes on, since both HTTP clients have a
timeout. `RoomQuery`: the call goes on, since its HTTP client has a timeout of 15
seconds. `Browse`: the process goes on, `GiveUp` among its steps, which is the
client's timeout; neither the server nor the network is fair. None of the operator, the client, a signal or a kill is fair.

**Mutants.** Each property has one in its module, marked `Mutant:`, that makes
TLC find it violated: a dropped guard, a late check, a missing reset.

### Findings

1. `server.go:216/229`. The remaining time is taken from one clock read and
   added to a later one. The deadline lies beyond the expiry by the gap between
   the two, against `server.go:173` and `TOOL_SERVER.md:20` ("expiry also bounds
   in-flight work"). `DeliveryWithinOverrun` is the exact bound that does hold.
2. `server.go:149-156`. After a drain that timed out, `RemoveAll` of the spool
   finds a handler's directory there, and fails when that handler makes an entry
   behind it; the error is dropped, `spoolDir` is cleared, and the deferred
   `Close` cannot try again. Against `server.go:132` and `TOOL_SERVER.md:42`.
   `LeftoverHasOwner` says what does hold: only handlers the server was closed
   under leave anything.
3. `provider.go:82`. A cursor of the host above 8192 bytes is refused as the
   caller's invalid argument, and the command exits with status 2, against
   `TJUCLI.md:41`.
4. `rooms_provider.go:245`. Without a campus, a list of buildings that cannot be
   had is passed over; when none arrives, or the context is done, a valid query
   is refused as `building not found` with exit status 2, against `types.go:7`
   and `types.go:84`. `RefusalJustified` says what holds: a refusal is right about
   the lists that did arrive.

Two more behaviours are worth a reader's attention; the models have them and the
properties are stated around them. A handler whose context is done returns
without a word (`server.go:255`, 293, 350, 388, 434) and net/http sends an empty
200, which a client that has closed only its sending side receives: the table at
`TOOL_SERVER.md:36-38` knows no such success. `EmptyOnlyToHalfClosed` says that no
other client does. And a grants file rewritten in place, as
`authorizer_test.go:140` revokes a grant, can be read half old and half new,
split within an entry, the hash of one token with the expiry and scopes of
another: `PiecesOffered` leaves that open, and `WholeUnlessTorn` says that a
rename never leads to it.

## 4. The proofs

All theorems hold for every value of the constants under the named assumptions
of the modules (finite sets, positive limits, model values that are none of the
other values).

**ToolServerProofs.** `IInv` is `TypeOK`, `SlotAccounting` and `Flow(r)` for
each request. `Flow` says what a request may rely on at each point: before the
decision, the entry in the file is among those offered; from `match` on, so is
the one in the document it read; the clamped timeout is at most the time left at
the first clock read; once set, the deadline is the second clock read plus that
timeout; nothing is in the response before a deadline is set; a handler that is
writing has parts left and says of what; and one that left without a word did so
when its context may have been done. None of the listed properties is inductive
alone: `AdmittedOnLiveGrant` needs what was read before the decision,
`DeliveryWithinOverrun` needs the equation for the deadline,
`EmptyOnlyToHalfClosed` the past of a silent return (with a connection that
still takes writes before the deadline, only the half close is left of
`MayBeDone`), which needs that `Expired` is never undone (`TickFlow`), and
`TypeOK`, which has it that a request past the expiry check has a positive
timeout, needs the grant to be one. The step is proved per request: `OthersKept` and
`KeptFlow` dispose of the others, `OwnFlow`, `RequestTypes` and `SlotStep` have
one case per action. `Horizon` plays no part in the argument.

`Implements` maps each step of a request to a step of `Admission` or a stutter
(`RequestPromised`, one case per action): `Acquire` is `Take`, `Busy` `TurnAway`,
`LoadGrants` `Look`, `CheckExpiry` `Serve` when it lets the request pass, every
failure up to there `Refuse`, what is settled as the response after it `Answer`
(the parts of it that leave are stutters),
`Return` `Release`, `Flush` `Finish`. `Match`, when it accepts, is a stutter, as
the entry it takes is the one that was in the file at `Look`, and so is
`SetDeadline`, which the promise does not speak of. `Take` needs
`SlotAccounting`: the code compares a counter, the promise is about who holds a
slot.

**CatalogSearchProofs.** `EachPageOnce` holds under any change of the catalog
because of what the search remembers, not of what the host serves: the cursors
requested are `First` and those in `seen`, the current one has not been fetched,
and one is added to both counts at a time (`WalkInvariant`). While the catalog
is at rest (`changed` is false) `ChainInvariant` adds that the fetched pages are
closed under `next` except at the current cursor and contain only reachable
ones; closure makes them all of `Reachable` when the last page is met, which is
`CompleteMeansAll`, and an unexplored cursor in `Reachable` is the other half,
`IncompleteMeansMore`.

**DownloadProofs.** `Flow(d)` ties the shared target to its owner's `pc`: a
target named by `d` is whole and `d` is past its link; a temporary name exists
between creation and return; a remote call past its last look was not
cancelled; a collision has its error. `Implements` maps each step of a call to
`Publish`, `Succeed`, `Fail`, `Crash` or a stutter, and other programs' steps to
`Interfere`.

**SpoolShutdownProofs.** `HandlerInv(h)`: a directory exists only while its
handler is at work, and a handler that unlinks has listed all there is.
`TypeOK` has the lock, held in the phases `Cleaning` and in no other.
`ServerInv`: once the server is closed, whoever is at work was cut off by that;
without an error in `run` nobody was; and the cleaner leaves the spool directory
only to such handlers. `LeftoverHasOwner` needs the history of the cleaner, since
the directory it fails on may be gone by the exit.

**GrantsFileProofs.** `HistoryInv`: what the path leads to, what is open and what
is private is in the history of the call, whatever edits it. `ReadInv`: each part that has
been read was at its place in a document of the call, and all of it is a beginning of the open file's document unless
that was written to. `PrivateWhenRead` rests on the second look at the mode
alone, not on the inode's number.

**RoomQueryProofs.** First the algorithms: each class of matches is one case of
`ResolveBuilding` and `ResolveCampus`; the best entry is unique and is what they
return (`ResolveBuildingIsBest`, `ResolveCampusIsBest`, with the minimum of
a set of numbers by well-foundedness). Then the call: the pairs found are those
of the campuses passed whose list arrived, at most one for each.

**BrowseProofs.** `Flow` says what each point of a command may rely on: which
right the server has seen and that the file held it (`Authorized`), what the reply
on its way says and why (`Replied`), and why a result is what it is (`Explained`).
`Linked` ties the agent's cursor to the last page shown. A foreign reply has no
envelope that decodes, so it is never a page; with `Linked` that makes each
`Report` a `Show` of `Listing` or a stutter (`Implements`).

**Termination.** Each proof module ends with a bound on the steps that are left
(`StepsLeft`) and a theorem that every step of the component itself lowers it
and that nothing the environment does raises it.

| Theorem | Bound | Set back by nothing that ... |
| --- | --- | --- |
| `RequestsAdvanceHolds` | `Parts + 12` | clients, clock, operator or other requests do |
| `RunAdvancesHolds` | phases left, then names left in the removal | handlers create behind the cleaner |
| `SearchAdvancesHolds` | `maxPages + 2` | the host publishes, in cycles or not |
| `CallsAdvanceHolds` | `MaxBytes + 12` | the peer sends or others do to the target |
| `CallAdvancesHolds` | `Parts + 3` | the operator does to the file |
| `QueryAdvancesHolds` | campuses and 5 | fails or is cancelled |
| `CommandAdvancesHolds` | 4 | server, network or operator do |

Hence a retry, a loop over a cycle of cursors or a cleaner that chases its
handlers would break a theorem, for every size. What liveness adds is that a
step is possible until the end, which TLC checks with fairness. `RunAdvancesHolds` needs
that the directory the cleaner is in is still among those it has to remove
(`CleanerInvariant`) and the count of finite sets; `SearchAdvancesHolds` needs
`Walk`, `RequestsAdvanceHolds` needs `Flow` for the parts sent, and for the others types
are enough, but for `RoomQuery`, where the host's lists have lengths.

`TakesEffectAtOpenHolds` is about any pair of states between `Open` and the
return: only a write into the open file itself changes what the call reads, and
what it returns is all of that. It is the reason why `ToolServer` may read the file
in one step when grants are replaced by rename.

**Only model-checked.** Liveness (`SlotsComeBack`, `Exits`, `Returns`), since
fairness and `ENABLED` are beyond the prover; the bounds above are its part that
is not. Every other property of the passing runs is proved. The four findings
are counterexamples of TLC. No module declares a recursive operator.

## 5. Not modelled

* `/healthz`, and the commands help, version and capabilities: constants.
* The decoding and normalisation of JSON, paths, hosts, dates and items, and
  `validateServerURL`: local computation with one outcome each, which appears as
  success or failure of the action around it.
* Redirect policy and TLS: inside the request that fails or succeeds.
* Remote search and remote download through the command line: `Client.Search`
  shares `doJSON` and the error mapping with `Client.List`, which `Browse` has;
  `Client.Download` is in `Download`, with its own mapping of codes left out.
* The content of a room answer.
* The index client (`internal/search`): wrappers of single calls, not used.
* Recovery: the code has none; a killed server's directory stays. Nor can it
  tell a truncated body without a declared length from a whole one.

## 6. What could follow

1. `GrantsFile` composed below `ToolServer`, so that `LoadGrants` is the call with
   its system calls; `TakesEffectAtOpen` is the lemma that needs.
2. The download end to end: host, provider, spool, stream and remote client in
   one, with the codes only a download can meet.
3. Sessions of `Browse` over a catalog that changes while it is listed; the
   documents promise nothing for that case so far.
