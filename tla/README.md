# QuickLogger: a TLA+ model

QuickLogger logs amateur-radio and GMRS nets from a terminal. Several operators
may log one net at once: each has a process of its own (the console's, or one
forked per SSH connection), and all of them share one SQLite database. There is
no server that orders what they do; each process polls the database to see what
the others did. Around that core are a data updater with a job lock in the same
database, an SSH server with SFTP, scp and Mosh, ZMODEM transfers over the
terminal, and pushing to and pulling from another QuickLogger.

This directory holds TLA+ specifications of these parts, TLC configurations that
check them on small instances, and TLAPS proofs of what matters most. Sources are
named below without their `src/src/`.

## The system

| Component | State | Operations | What is hard | What makes it correct |
|---|---|---|---|---|
| **Session log tables** `db/database.cpp` | `net_instances`, `check_ins`, `net_saved_stations`, `stations` | a method per statement or `WriteTransaction` | numbers with gaps, clean-up of unused stations, a close in two statements | references hold, a close is final, numbers are distinct and stand |
| **Live logging** `ui/app_state.cpp`, `ui/handlers.cpp`, `interactive_session.cpp` | per process: page, prompt, window, session watched, list shown, copies of rows in forms | a handler per key; tasks the `ScreenTicker` posts | others run between a handler's statements, copies go stale, tasks run late, the lock times out, connections drop | nobody changes what they did not mean to; everyone is told what they must be and screens catch up |
| **Users, keys and access** `public_key.cpp`, `access.cpp`, `db/database.cpp`, `ui/app_state.cpp` | `users`, `net_grants`, server options, listed copies | Manage Users, My Keys, Net Access, adding and deleting nets | several statements an operation, lists read long ago, two admins at once | nobody locks themself out; keys and nets go where they may |
| **Station data refresh** `data_updater.cpp`, `uls_import.cpp` | `import_runs`: claim, heartbeat, progress, request | claim, load, beat, finish, take over, ask | a process that dies or is slow with the job | one refresh at a time, a dead one's job is taken over, records are true |
| **Push** `upstream_push.cpp`, `remote_command.cpp`, `ui/push_runner.cpp` | the console's thread and question, `pushed_at`; upstream uploads and processes | copy, import, confirm, discard | lost answers, time-outs, retries, questions | a session arrives once, unasked nowhere, and shows as pushed only if it is there |
| **Net files, merge, pull** `net_slice.cpp`, `upstream_pull.cpp`, `ui/pull_runner.cpp` | stored plan, Pull window, `imports/.pull` | import, plan, merge, fetch | plans that go stale, windows closed under a thread | nothing twice, nothing unwanted, nothing left |
| **ZMODEM** `zmodem_protocol.cpp`, `zmodem_send.cpp` | both ends' positions and retries, the line | frames | garbled frames that hide or run into others | files arrive whole and in order; the ends tell the truth |
| **SSH server** `ssh_server.cpp` | listener, a process per connection, the session it forks | accept, log in, serve, stop | stalls, kills, full ptys, inherited descriptors | the fork rule; nothing is orphaned; the port comes free |
| **Mosh bridge** `mosh_bridge.cpp`, `run_program.cpp` | one-time token, mosh-server | start, redeem, relay | timing of a file another process removes | a session only with a valid token |
| **SFTP and scp** `sftp_server.cpp`, `scp_server.cpp`, `sftp_paths.cpp`, `file_export.cpp` | open uploads, temporary files, limits | open, write, close, remove, rename | failures in the middle, several at once, a renamed user | only whole files show, nothing is left, the client is told the truth |
| **Schema upgrade** `db/database.cpp` (`CreateSchema`) | `user_version`, tables and columns | upgrade steps | a stop half way, two processes at once | nothing anyone entered is lost |
| Remote commands `remote_command.cpp` | none of its own | import, discard; listings | see Push | see Push |
| Precise grid `precise_grid.cpp` | a thread's queue | ask, answer | late answers | fills only blanks |
| Screen output, pages, exports, rules, settings | none shared | formatting, parsing, layout | none | unit tests reach these |

Processes share the **database**: each statement is atomic, each
`WriteTransaction` is (`BEGIN IMMEDIATE`), and a statement that cannot have the
lock in five seconds throws. Within a process, **threads** (`ScreenTicker`,
`PushRunner`, `PullRunner`) post **tasks** to the UI thread's queue. A key
**handler** runs to its end on the UI thread, but other processes run between its
statements, and an exception ends it where it is (`SafeAppEventDispatcher`).
Programs run over SSH are processes that outlive whoever gave up on them.

The hazards of all this, each at its line with the properties that are about it,
are in `PROJECT.json`, which also maps every definition to the lines it models.

## Modules

| Module | What it models | Proofs |
|---|---|---|
| `NetLogTables` | the tables of one net's log, and an operator per `Database` method from one state of the tables to the next | in `SessionLog_proofs` |
| `SessionLog` (over `NetLogTables`) | several operators logging, with handlers, windows, copies and posted tasks | `SessionLog_proofs` |
| `Accounts` | users, keys, grants, nets and options, changed by several sessions | `Accounts_proofs` |
| `DataRefresh` | the updaters of several instances and the job's row | `DataRefresh_proofs` |
| `Connections` | listener, connection processes, forked sessions, Mosh token and server | `Connections_proofs` |
| `Federation` | pushing: consoles, their threads, the upstream's processes and tables | `Federation_proofs` |
| `Uploads` | an SSH user's /imports, over SFTP, scp and exec | `Transfers_proofs` |
| `NetFiles` | the Import page, the merge window with its plan, the Pull window and its thread | `NetFiles_proofs` |
| `Zmodem`, `FileTransfer` | sender, receiver and line; what a transfer promises | `Transfers_proofs` |
| `SchemaUpgrade` | `CreateSchema` on files of earlier releases | `SchemaUpgrade_proofs` |

Each `MC*` module extends one of these with the values its `.cfg` gives to the
constants. In all of them an action is what one process does without another
being able to tell its parts apart: usually a handler up to its first change of
something shared, and then one action for each later statement, transaction, file
or message. Text that only travels along is left out.

### `SessionLog` and `NetLogTables`

* `db` is the database. Ids are never given twice (`AUTOINCREMENT`), which is why
  `last_check_in` is part of it.
* `ui[u]` is operator u's `AppState`: page, prompt over it, window over it,
  `active_instance.id`, `watched_instance_id`, `viewing_only`, the check-ins shown
  with their rows as read, the row a delete was asked for, and the whole row the
  edit form copied (`edit_checkin_original`). `ui[u].step` is where the running
  handler is: `CloseNetInstance`, for one, is `CloseActiveNet` (its `UPDATE`) and
  then `RenumberThenLeave`; `LogStationCheckIn` is cut where its transaction
  begins, as it has read the session's status before.
* `tasks[u]` are tasks posted and not yet run. `CheckWatchedSession` is the poll;
  `RunTask` runs a task when the UI thread is between handlers.
* `StatementFails` is a statement that gives up waiting for the lock: the handler
  ends there, and what it did before stays. `Disconnect` is a process that ends.
* Remarks, reports, notes and times only travel with a row and are left out; of a
  session's end time what is kept is whose close it came with. A call sign stands
  for call sign and name together; that a GMRS name can be edited is left out, as
  are ad hoc nets, the lookups of F6 and F9 and pushing after a close.
* One net. Sessions of other nets share only `stations`, and a station another net
  uses stays for the same reason as here.
* The poll reads three atomics as one. Read across a change they make it post a
  reload not needed, which is a task run late, or miss one until the next poll.

### `Accounts`

`users`, `grants`, `nets` and `options` are the tables. `session[s]` is a session:
who it is and the key it logged in with, the window it shows with the copy it last
read (`list`, `names`, `offered`), and `step`, the statement its handler is at with
what it has read. `Looks` actions read; the action after writes from what was read.
Transactions (`AddMyKeyTransaction`, `GrantTransaction`...) are one step.

### `DataRefresh`

`job` is the `data_refresh` row of `import_runs`: lock, heartbeat and request box.
`rows` are the datasets' rows, `content` what their tables hold (`empty`, `mixed`
of two files, `whole`), `updater[p]` an instance's updater and the refresh it runs.
`Proceeds` is what a refresh does unasked: claim, begin a load, write a batch,
record, finish. Claiming is three steps, since `RunRefreshIfDue` reads the clock twice:
for the claim (`StampClaim`), whose statement may wait for the lock
(`TryClaimImportRun`), and for the row its end will write (`StampJob`). A heartbeat
counts from its write. A `Tick` is a second, with limits scaled to a few. Times compared
with a limit are kept as ages up to just past it, and times only compared with one
another as ranks, so that time can go on for ever in a finite model.

### `Connections`

`conn[c]` is the process of connection c at its place in `HandleConnection`, with
its alarm, database, pty and what its channel is used for; `child[c]` the session
it forked; `client[c]` what TCP knows of the client; `token` and `mosh` a Mosh
login. Times are not counted: an alarm or keepalive may come at any moment while it
is set, and does come if nothing else happens first.

### `Federation`

`push`, `prompt`, `pushed`, `posted` and `thread` are each console's `AppState` and
`PushRunner`; `nets`, `grants`, `rows`, `uploads` are upstream, and `jobs` are its
processes. `PushTimesOut` ends the thread's wait and not the job, which goes on
(`JobGoesOn`) or dies. `agreed` is a history of what operators said yes to.

### `NetFiles`

`win[w]` is each window's import or merge, with the plan made when it opened; `pull`,
`puller`, `posted`, `dir` are the Pull window, its thread, results not yet seen, and the
files in `imports/.pull`. The console may quit (`~PullRunner` cancels, and removes
nothing) or be killed (its scp goes on: `stray` is what that may yet write), and start
anew. Other people edit, delete and add nets in between. Whether a session's check-ins
here and in the file are the same is a bit.

### `Zmodem` and `FileTransfer`

`forth` and `back` are the line as queues of headers and subpackets. A checksum tells
that one is garbled but not where it ended: noise can hide a header, and make a
subpacket run on into the next. `FileTransfer` says that files arrive whole, in
order and once, an end says it succeeded only if all are across, and both ends
end. `Zmodem!TransfersFiles` is that specification, fairness included, under the
mapping `arrived <- received`, `sending <- Outcome(sender.at)`,
`receiving <- Outcome(receiver.at)`.

### `Uploads`

`imports[<<dir, name>>]` is a file with its size and whether it misses anything
sent; `up[u]` an upload in its temporary file; `conn[c]` a connection's process;
`told` what the last step answered. A user may be renamed meanwhile, which moves
the folder; old files go hourly; a process may die with an upload open.

### `SchemaUpgrade`

`db` is the file: which columns and tables there are and what is in them, for
saved stations, users, one net's details and licenses a first import left.
`process[p]` is where in `CreateSchema` a process is and `read`, what it goes by there: a
check is a step before its transaction, as in the code, and the copy of FCC licenses may
fail, which `CreateSchema` does not look at before it deletes them. `Stops` ends a
process anywhere. `entered` is a history of what users entered; `together` of
whether two upgrades were ever under way at once.

## What is checked

Each run asks a question of its own; deadlock is checked where the system cannot
come to rest within the bounds.

| Run | Instance | States | Shows |
|---|---|---|---|
| `SharedLog` | 2 operators and a third call sign, the first one's on the move; log, edit, pick, delete, disconnect, statements that fail; 1 session, 2 check-ins | 552,560 | `NumbersStand`: a number never changes while a session is open, though edits write whole rows back. `NextNumbersDistinct`, `LoggedOnceButOperator`: no two stations get one number, and none is in twice, but for the operator's own. `OperatorKeepsRole`. `DeletesWhatWasNamed`: a delete goes by index, and the row deleted is the one named. `UnnoticedIsUnchanged`: comparing count and newest id misses nothing. |
| `Sessions` | 2 operators, one of whom manages the net; view, close, close and start anew, History, saved stations; 2 sessions | 657,607 | `ClosedStays`; `CloserNeverTold` (statements do not fail here, see below); `WatchersOnlyWatch`; `ReferencesHold`: the stations kept are those in use. |
| `KeepingUp` | 2 operators; view, log, pick, delete, close; fairness | 69,000 | `StaysInStep` and `ToldWhenClosed`. |
| `StationData` | 2 instances, 1 batched dataset, 1 cut; fairness | 466,600 | `OneRefreshAtATime`, `LastUpdatedIsTrue`; `RequestStands`: no refresh that read the clock for its job before a request was made swallows it; `DueIsTried`: whatever is due is loaded although the refresh that had the job died. |
| `MyKeys` | an Admin and a user with a key each, a third one that both may add, the Admin also in Manage Users; 2 sessions of whoever logs in | 1,452,563 | `OwnRemovalLeavesAKey`, `OwnKeysAreNew`, `NoOneLocksThemselfOut`. |
| `NetAccess` | an Admin and a Net Admin with a net, 2 sessions | 2,176,770 | `NetsGoToThoseWhoLog`, with users renamed and deleted, their access changed, options set and nets deleted and made meanwhile. |
| `Connections` | a connection of any kind, the console restarted once; fairness | 1,344 | `ForkRule`, `NoOrphans`, `NoneStalls`, `PortFreed`. |
| `Push` | a console; a session, its net and an ad hoc session; 2 pushes, 2 upstream processes at once; fairness | 724,695 | `NotTwice`, `PushedIsThere`, `AskedFirst`, `PushesEnd`. |
| `NetFiles` | a console, three nets' names of which two look alike, a file of each kind; 4 pull steps; the console quits, is killed and starts anew; fairness | 973,245 | `NotTwiceHere`, `PulledIsWanted`, `PullsEnd`; `NoPullLeft`: a pull ends with `imports/.pull` empty unless its console ends with it. |
| `Zmodem` | files of 3, 1 (too big) and 0 blocks, 2 faults; fairness | 199,103 | `TransfersFiles` (the refinement) and `Recovers`. |
| `Imports` | an SFTP connection and one for scp and exec, 3 names, 2 uploads at once, a rename | 885,418 | `OnlyWhole`, `NoStrayTemps`, `WithinOneFile`, `ToldIsThere`. |
| `Upgrade` | 2 processes, a saved and a seed station, files of four releases; the copy of licenses may fail | 57,098 | `RowsKept`: no station is lost, even by two upgrades at once, and no license but by a process whose copy failed. `UpgradedWhole`: without those, an upgrade cut short is finished and what anyone entered is as it was. |

**Why the bounds are enough.** Two actors are enough where a property relates one
actor's copies to what one other does: a third could only do what the second can do
later. Each instance has what its hazards need and one more than would make them
trivial: a third key, since the user must be able to lose one and have another
added; a second session, since a task for the first may run in it; a third net name
that looks like no other; a block whose bytes look like a header. `Keys`, `Asked`,
`Pushable`, `Wants` and `Elsewhere` are the operations of a run (with `Added` and
`Created`, the keys and the names that may be new), chosen as those
that can disturb its properties, since the product of all is beyond TLC; between
them the runs take every action. `MaxCheckIns` lets nothing be begun once so many
were logged, though handlers already begun finish, so a run with 2 has up to 3.
`MyKeys` has room for two more keys than at first (`MaxId = 4`), so that one key can be
added twice at once; its `kMaxKeysPerUser` is 2. In `NetFiles` the count of pull steps,
which is a bound too, goes on when the console starts anew. `MaxFaults = 2` lets the
resend of what was garbled be garbled too. Every property
of a run is violated when the code is changed as a plausible bug would (the mutants
of `PROJECT.json`).

**Fairness.** The poll is weakly fair (`ScreenTicker::Run` loops while its process
lives), as is a handler under way (it waits for nobody's key); running a posted task
is strongly fair, since keys and tasks wait in one queue and are taken in turn. The
updater looks every few seconds, a refresh goes on, and time does. The SSH server's
processes go on, and the kernel's alarm, keepalive and signals come; clients, users
and mosh need do nothing. Time-outs of pushes and pulls come and their posted results
are seen; no answer need ever arrive. Both ends of a ZMODEM transfer go on and time
out; noise need not occur. No key is ever assumed to be pressed.

## What is proved

For all values of the constants, from the assumptions named in the modules:

**Tables and logging** (`SessionLog_proofs`). `InvAlways` has `TypeOK`, `Sound(db)` (no check-in
without its session, stations exactly those in use, no id above the last given) and,
for each operator, `Traces`: each check-in its process holds a copy of, however old,
is gone or still of that station and session, and whatever a watched session has
beyond its list came later. `Succeeds(d, e)` says what any later state of the tables
keeps of an earlier one; the lemmas show that each operation's result succeeds, and
`OthersKeep` that this is all others can do to an operator's state, so that a step
need only be looked at from its own operator's side. From it: `TypeCorrect`,
`ReferencesAlwaysHold`, `PollIsSound`, `ClosedSessionsStay`.

`LogInvAlways` adds `Distinct(db)` (no number and no station twice in a session but
for the operator's own), `Careful` (an operator's copies carry the number and role
their rows have as long as the session is open) and `Upright` (which window goes with
which copy). `Careful` is why edits, which write a whole copied row, do not disturb
anything in an open session: only a close numbers again. From it:
`NumbersAreDistinct`, `LoggedOnce`, `NumbersAlwaysStand`, `OperatorAlwaysKeepsRole`,
`DeletesAlwaysWhatWasNamed`, `WatchersNeverChange`. `CloserIsNeverTold` adds that
nobody is on a session they closed themselves (`ClosingInv`), and needs
`StatementsFail = FALSE`: the code breaks it otherwise (below).

**Accounts** (`Accounts_proofs`). `AccountsInvAlways`: rows keep distinct ids, and
each session is at a statement with what it read of the right kind. With it:
`TypesAlways`, `OwnRemovalAlwaysLeavesAKey`, `OwnKeysAlwaysNew`,
`NetsAlwaysGoToThoseWhoLog`. `NoAdminLocksThemselfOut` adds `LoginsKept`: a listed row
is still the one of its id, and no statement under way is aimed at the key or user it
was begun by. It assumes that users are not renamed (`"rename" \notin Asked`), for the
code does not keep it under renames by another Admin (below).

**Station data** (`DataRefresh_proofs`). `TypesAlways` in any case, and
`RequestAlwaysStands` too, whatever stalls: it needs of the past only that a request is
not later than the clock (`Dated`), and then which actions write the row's start.
`OneAtATime` and `LastUpdatedAlwaysTrue` are from `JobInv`: a refresh that runs is the
one of the job's row, whose heartbeat is fresh, and it is alone. They assume
`Stalls = FALSE`, that no live refresh misses its heartbeat for longer than the limit,
which is what the code relies on too; a slow one breaks them (below).

**SSH server** (`Connections_proofs`). `ConnInvAlways`: what of alarm, database, pty,
session and channel goes with which place in `HandleConnection`. From it `TypesAlways`,
`ForkRuleHolds`, `OneUseAlways`.

**Push** (`Federation_proofs`). `PushInvAlways` has six parts: the upstream's tables;
uploads named after what is in them; each site's push, thread, posted result and
question agreeing; one waiting thread per process (`Ids`); each upstream process's
reading of a file; each site's `pushed`. From it `TypesAlways`, `NeverTwice` and
`OnlyFinishedArrive` without conditions; `PushedIsAlwaysThere` and
`AlwaysAskedFirst` if no two of what is pushed have one file name (`NamesApart`). That
cannot be dropped: a net has one file name a day, and with two sessions of one day
TLC finds `PushedIsThere` violated (below).

**Uploads** (`Transfers_proofs`). `UploadsInvAlways`: which files, connections and uploads go
together. From it `WholeFiles`, `NoTempsLeft`, `TellsTheTruth`. `BudgetInvAlways` is for
the folder's limit. That files are within it now is not inductive: an upload already
open may land later on top of one opened after it. So it says of every set `S` of the
uploads under way that the files, with those of `S` grown to their limits in place of
what they replace, are within the bound; opening one adds to each such sum at most what
is left, and landing one only turns a sum into a smaller one. From it `FolderBound`.

**ZMODEM** (`Transfers_proofs`). `ZmodemTransfers` is the step refinement: every step
of the protocol, faults included, is a step of `FileTransfer` or changes none of its
variables, for any batch, sizes, faults and length of line. So files arrive whole, in
order and once, and neither end says ok before all are across. That what has arrived is
a prefix of the batch is far from inductive: a ZEOF makes a file of what the receiver
has, so nothing wrong may be taken for data, and an answer moves the sender on, so none
may be a late one. `TransferInvAlways` says what makes that so. An offer is on the line
only while the sender waits for its answer, and nothing follows it but a cancel or noise
(`OfferLine`, `ForthOK`). Within a file everything on the line is of that file; a
subpacket is at the position that the header or subpacket before it leads to; what the
sender sends next follows the last, and the first follows what the receiver has, unless
the receiver already knows that the checksum will be wrong (`FileLine`, `EndsAt`,
`StartsAt`, `LineOK`): so a garbled block spoils what runs on from it but is never
skipped unseen. Of the answers on their way, a position is of the file the sender is in,
and those to one file come before those to the next (`BackOK`). How many files have come
once the sender is at file `g` is `Through`; that the list of files to take exists at
all is `ListExists`, by a least counterexample. A cancel, a timeout at any moment and
noise in any element keep all this, since each only takes offers and data away
(`Spoiled`). `ZmodemTyped` adds the types and the line's bound.

**Schema upgrade** (`SchemaUpgrade_proofs`). `UpgradeInvAlways` says what a process
that is at a step of `CreateSchema` has behind it (`Behind`: a column once added or a
text once put right stays so, whoever else upgrades) and what it has besides when it
has always been alone (`BehindAlone`: the columns a rebuilt table could lose, and that
what it saw before a transaction is still so); that licenses are in `uls_stations`
before they are deleted, if the copy came through, and seed stations are saved when their
table goes (`Kept`);
that nobody enters anything before the file is current; and in which order member IDs
and names can be there. From it `RowsAlwaysKept`, for files of every release and any
number of upgrades at once, and `AlwaysUpgradedWhole`, which assumes
`"earliest" \notin Releases`: files of those lose their member IDs (below).

**Net files** (`NetFiles_proofs`). `NetFilesInvAlways`: while the Pull window is up
nothing else is up in that console (`Windowed`); its thread runs for its present step
(`Waiting`); results are of no later step, one of the present step means that the
thread is through, and its files are those of the net asked for (`Fetched`). A console
that has ended has no thread (`Waiting`). From it `TypesAlways`,
`PulledIsWantedAlways` and, a step at a time, `NoPullLeftAlways` (`FolderStep`: only a
step of the Pull window's own, of a console that ends, or of a stray scp changes what is
in the folder), for any windows, and
`OnlyPlansEverRepeat`: imports and pulls never put a session into a net twice, since
they ask in the transaction that adds it. A merge goes by its plan; `NotTwiceHereAlone`
adds that a plan still fits what is here (`Fits`) and holds with one window
(`Windows = {Console}`), as in the run: with a second one the code breaks it (below).

**Only model-checked.** All liveness (`ToldWhenClosed`, `StaysInStep`, `DueIsTried`,
`NoOrphans`, `NoneStalls`, `PortFreed`, `PushesEnd`, `PullsEnd`, `Recovers`, and the
fairness that `TransfersFiles` has from `FileTransfer`, so that both ends come to an
end), which TLAPS does not prove from fairness.

## Where code and documentation disagree

Found while modelling; the properties above are the strongest forms that hold.

* An edit form open while a role is handed on brings it back when saved, and two
  check-ins hold it (`app_state.cpp:2819`; `models.hpp:168` says at most one). Two such
  edits leave a session's role column naming a station without the role.
* A session closed just after `LogStationCheckIn` looked is logged to all the same
  (`app_state.cpp:2725`; `USER_GUIDE.md:97`), and an edit form open across a close
  writes back the number from before the renumbering (`app_state.hpp:768`).
* `CloseNetInstance` is two statements (`database.cpp:1753`, `1767`): a connection lost
  between leaves gaps for good (`database.hpp:260`), and if the second times out the
  closer is told that somebody else closed the session (`app_state.hpp:997`).
* Someone who joins before the operator is checked in can log them first
  (`handlers.cpp:891`; `USER_GUIDE.md:91`).
* A load of ZIP codes cut short leaves rows that pass for a whole table and is not
  tried again (`database.cpp:2843`, `uls_import.cpp:1323`; `uls_import.hpp:81`).
* A refresh that is only slow is taken over while it runs: two load at once
  (`data_updater.hpp`, "only one updater does the work"). A request made between a plan
  and its claim is taken for handled (`data_updater.cpp:117`), and so is one made after
  the claim read the clock (`:122`, before a statement that may wait five seconds) and no
  later than the job did (`:130`): the refresh's last write has the later time. TLC shows
  it when `RequestStands` is stated without its second alternative.
* Deleting a user or adding a net in two statements can leave a grant for a name nobody
  has, which the next user of that name gets (`database.hpp:518`, `SHARED_SERVER.md:55`).
  Turning off a key can race its user's removal of their others (`app_state.cpp:4452`;
  `SHARED_SERVER.md:20`).
* Two Admins' renames that cross can leave one of them locked out by a step of their own:
  `NoOneLocksThemselfOut` fails with `"rename"` in `Asked`.
* `RemoveStaleTokens` can remove a token just created and not yet written
  (`mosh_bridge.cpp:290`).
* `ConfirmNetMerge` applies a plan made when its window opened: a check-in added to the
  session since is lost, and a session that another window imported meanwhile comes twice
  (`app_state.cpp:5642`; `USER_GUIDE.md:261`).
* A console that quits or is killed while sessions are fetched leaves them in
  `imports/.pull` until the next such pull: `~PullRunner` only cancels
  (`pull_runner.cpp:58`), and nothing on the way out removes the folder
  (`interactive_session.cpp:770`; `app_state.hpp:570`, "removed once they're imported").
* Two `import-net` processes at once can make two nets of one name (`USER_GUIDE.md:250`).
  `import-session` removes its upload by name, a newer one of that name with it
  (`remote_command.cpp:827`). A late upload under a shared file name marks the wrong
  session as pushed.
* An scp client that ends its stream in place of the last acknowledgement gets exit
  status 0 though the file was not saved (`scp_server.cpp:370`).
* Two processes that upgrade a file at once can lose member IDs and levels of access: one
  has looked, the other upgrades wholly, and the first rebuilds the table without the new
  columns (`database.cpp:739`, "every row kept"; `:556`, "It's all idempotent"). TLC shows
  it when `UpgradedWhole` is stated without `~together`.
* A file of the earliest builds, with `net_seed_stations` and no `net_saved_stations`, loses
  its member IDs: the new table is created with its `member_id` column, so
  `MoveMemberIdsToNets` returns early (`database.cpp:762`). TLC shows it with
  `Releases = {"earliest"}`, even for one process, which is why the `Upgrade` run leaves
  that release out. Errors of `EnsureColumnExists` are not looked at either: a lock held
  for over five seconds can leave a column out of a file whose version says it is there.
* The copy of FCC licenses out of `stations` may fail (a full disk, the lock): its error is
  not looked at either (`database.cpp:592`), the `DELETE` after it (`:599`) runs all the
  same, and they are gone until the FCC data is next loaded. TLC shows it when `RowsKept` is
  stated without its second alternative.

## What is not modelled, and the plan

Next: the precise grid's queue.

Left out of modelled parts: GMRS names, remarks and notes (`SessionLog`); the key log
and ad hoc rights (`Accounts`); saved stations and station details in files, and a stray
scp that still writes once its folder was removed and made again by a later pull
(`NetFiles`); what `import-session` and `import-net` refuse because a net is on the
other service, and files that are too big or cannot be read (`Federation`: a net or file
of those kinds is not pushed here); ZSINIT, ZCRC, ZABORT and checksum widths (`Zmodem`),
and there too that data which goes over the 25 MB limit ends a transfer
(`zmodem_protocol.cpp:525`, `1136`): a header read as data can do that to a file within
a header's length of it, which then fails and is not recovered; listings and attributes
(`Uploads`); cryptography and mosh's UDP side (`Connections`); indexes, ZIP+4s and
columns without content (`SchemaUpgrade`). Left out for good: pages and their layout,
frames and escape sequences, exports, parsing of downloaded data, and rules for call
signs, frequencies and modes, which are sequential and pure; `Base` stands for the one
rule the log depends on.
