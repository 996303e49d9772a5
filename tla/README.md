# Norris Writer: a verification development

Norris Writer is a writing application for fiction: a fork of VS Code (about
2.3 million lines of TypeScript) with a small core of its own. These TLA+
modules model that core where it is concurrent, check it with TLC on small
instances, and prove part of it with TLAPS for every value of the constants.

Paths are relative to the repository root. `NW` stands for
`src/vs/workbench/contrib/norrisWriter`, `MD` for
`extensions/markdown-language-features`.

## The system

| Component | Code | State | Operations |
| --- | --- | --- | --- |
| Codex database rows | `NW/node/codexDatabase.ts`, `NW/electron-main/codexDatabaseMainService.ts` | SQLite tables of pen names, stories, entries, aliases, relationships | create, update, delete, list of each; `setEntryAliases`; a change event per kind of row |
| Codex database connection | the same, and `runMigrations` in `src/vs/platform/agentHost/node/sessionDatabase.ts` | the file with its `user_version`, the cached promise, one connection | open, configure, migrate, hand out, dispose |
| Rendered Markdown editor | `MD/src/preview/markdownEditorProvider.ts`, `MD/markdown-editor-src/editor.ts` | the text model, the host's mirror, each panel's source text, the flags that suppress echoes | open, type, update, workspace edit, save |
| Codex cache | `NW/browser/norrisWriterCodexService.ts` | `_entriesPromise`, `_codexRoot`, loads under way | `getEntries`, `invalidate`, three listeners |
| TokenMix | `NW/browser/tokenMix*.ts` | the key in the settings and a legacy secret, the registered models | get, set, delete, migrate; refresh the models |
| Writing assistant | `NW/browser/norrisWriterChat*.ts` | none between requests | `invoke`: check, choose a model, gather context, stream |
| Text files | `src/vs/workbench/services/textfile/common/textFileEditorModel*.ts`, `TaskSequentializer` in `src/vs/base/common/async.ts`, `writeFile` of `src/vs/platform/files/common/fileService.ts` | the text and its versions, dirty, conflict and error flags, the last known stat, saves and reloads under way | edit, undo, save, revert, reload |
| Backups | `src/vs/workbench/services/workingCopy/common/workingCopyBackup{Tracker,Service}.ts`, `electron-browser/workingCopyBackupTracker.ts` | content versions, pending operations, the queue of file operations, the table of known backups, the backup files | schedule, discard, back up, close the window, restore |
| Project commands | `NW/browser/norrisWriterActions.ts` | none | New Novel, New Codex Entry, Open Codex |
| The rest of VS Code | `src/vs/base`, `src/vs/platform`, `src/vs/workbench` | other working copies, storage, undo, IPC | upstream, used by all of the above |

How they interact:

- Windows call the database service in the main process over IPC. All calls
  share one connection, and one SQL statement is awaited after another, so
  calls of different windows interleave between statements. Change events go
  back to every window, which re-reads.
- A Markdown panel's webview posts whole texts to the extension host, which
  turns them into versioned workspace edits for the renderer's text model,
  whose events come back to the host and from there to every panel.
- The assistant asks the codex cache for entries. The cache reads the codex
  folder and is invalidated by file events, which arrive late and coalesced,
  by settings, and by the New Codex Entry command.
- The assistant, the list of models and its refreshes all ask the credential
  service for the key. The first of them to find the key of an earlier build
  moves it to the settings, which makes the others start again.
- A manuscript is a text file: what a writer types goes to the file through the
  save sequencing of its model, comes back through file events, and is kept in
  a backup while it is unsaved. Saving and reverting discard the backup.
- `CodexDatabase` imports `runMigrations` from the agent host.

What is hard, and what makes each component right:

- Rows: interleaved statements, checks that are stale when the insert runs,
  cascades, partial failure, the end of the process. Right when no row points
  at a missing row, a relationship stays within a story, deletes reach exactly
  what they should, deleted rows stay deleted, every change is announced, every
  call is answered, and all of it looks like indivisible operations.
- Connection: failures at each statement, a crash at each statement, two
  openings on one file, older and newer builds. Right when the version always
  tells the schema, an upgrade is all or nothing, connections handed out are
  ready, no lock is left behind, and every call is answered.
- Markdown editor: three copies of a text and four queues. Right when the host
  mirrors the model, an edit replaces the text the host compared it with,
  updates and edits do not chase each other, suppression ends, and panels end up
  with the document.
- Cache: in-flight loads shared and invalidated, a walk that is no snapshot,
  events that come late or never. Right when an answer is current up to what is
  still to be heard of, the cache follows the setting, and answers come.

- Credentials and assistant: three parties read and move one key, a list is
  made anew while the settings it is made from change. Right when the list ends
  up as the settings ask, a request is not turned away because of what is just
  under way, a cleared key stays cleared, and every request ends.
- Text files: the text changes while it is saved, the file changes while it is
  read, between its stat and its text too, saves are queued behind saves and
  cancelled. Right when saves never overlap, each is answered, a clean model
  holds what is on disk, and neither the user's nor another program's text is
  lost unasked, but for the known ways listed with the module.
- Backups: operations are cancelled while they run; a window closes, crashes
  and starts between any two, before its backups are restored and while a save
  goes on. Right when the table follows the file, whoever pauses is backed up,
  and closing leaves the unsaved text and nothing stale, but for the ways listed
  with the module.

`PROJECT.json` lists the hazards one by one, at their lines, with the
properties that cover them or the reason none does yet.

## Modules

| Module | What it is |
| --- | --- |
| `CodexStore` | abstract: the store as indivisible operations |
| `CodexDatabase` | the calls as chains of SQL statements; refines `CodexStore` |
| `CodexDatabaseProofs` | its theorems |
| `SchemaUpgrade` | abstract: an upgrade is one step |
| `CodexConnection` | opening, migrating, sharing, closing; refines `SchemaUpgrade` |
| `CodexConnectionProofs` | its theorems |
| `MarkdownEditorSync` | webviews, extension host, renderer and their channels |
| `MarkdownEditorSyncProofs` | its theorems |
| `CodexCache` | the cache, its loads, the watcher's coalescing, the listeners |
| `CodexCacheProofs` | its theorems |
| `WritingAssistant` | settings, key migration, list of models, chat requests |
| `WritingAssistantProofs` | its theorems |
| `TextFile` | saving, reloading and reverting a text file |
| `TextFileProofs` | its theorems |
| `Backups` | backups, closing the window, crash and restart |
| `BackupsProofs` | its theorems |
| `MC_*` | instances for TLC: small sets, operators for the .cfg files, symmetry |

Operators commented "Mutant" are plausible bugs of the operator that follows
them. No specification uses them: each shows that some property would notice.

### CodexDatabase

One SQL statement is one action, foreign keys included, because the engine
commits each statement by itself and the code opens no transaction. `pc[c]`
names the statement call `c` awaits; `input`, `id`, `existing` and `todo` are
its locals. `Receive` is the IPC call, `Check...` the read before a write,
`CreateStory` and its like the writing statement, `ClearAliases` and
`InsertAlias` the loop of `_replaceAliases`, `Reread` the row the operation
returns, `Announce` the service's `_fireChange`. `EngineFailure` rejects a
statement, `Crash` ends the process between statements. `getEntry` reads a row
and its aliases with two statements; they are one step, as no property looks at
the aliases a read returns. Reading calls change nothing and are left out.
`ICodexEntry` keeps its story and title, a relationship its story and ends:
the other columns take part in no check.

`unannounced` is history: kinds of rows with a committed change that no event
has followed yet.

### CodexConnection

The same grain for the opening: `OpenFile`, `Configure` (the WAL and
busy-timeout pragmas, which no property tells apart), the steps of
`runMigrations`, and the ways out of it. A deferred `BEGIN` takes no lock; the
first write does, and `SQLITE_BUSY` is one of the failures `Fail` stands for.
`dispose` forgets an opening that is under way without stopping it, so a second
one may run on the file; the first connection then stays open for good, which
the model keeps. The cached promise keeps a rejection for the life of the
process; calls then get that rejection. `dbClose` is assumed to succeed.

### MarkdownEditorSync

One action is one message handled up to the next await. A message of a webview
enters the renderer first (`fromView`) and is forwarded behind the model's own
events on `toHost`; what the host posts to a webview passes through the
renderer without touching state, so `toView` is one queue. `ReceiveEdit` and
`ApplyEdit` are the two validations around the asynchronous preparation of a
workspace edit. The order of the change and dirty events is left open, because
it depends on the order in which listeners were registered. Not modelled:
closing a panel, quick diff, highlighting, and the dirty state an undo to the
saved version clears.

`typed`, and `base` in an edit, are history. `base` is the host's text at the
moment it compares an edit with its document; it is not the text that the panel
showed, for no version travels between host and webview. A panel into which
somebody types while an update is in `toView`, or while updates are withheld for
an edit of its own, sends an edit that gets the version of the change it has not
shown, and replaces it. `EditReplacesComparedText` says nothing of that: it says
that what `_applyEdit` compared is what the applied edit replaces, across the
preparation of the edit and the changes that others make meanwhile. `Patient`
restricts people, not the program: with it they act only when nothing is in
flight.

### CodexCache

A load (`loads[l]`) is the state of one `_loadEntries` call: what is left of
its queue and of the listing it is reading, and what it has found. `Ask` joins
the cached promise or starts a load, up to its first await. `gathered` is the
watcher's window with `EventCoalescer.processEvent` as `Merged` and `coalesce`
as `Batch`; `sent` are batches on their way. The listener's `startsWith` test
is `Concerns`, from a constant that says which paths start with which folder's
text, so a sibling folder with a longer name counts, as in the code.

A setting changes and is told of in one step (`Reconfigure`). The workspace's
folders do not: `updateWorkspaceConfiguration` replaces them, awaits the new
folders' settings and those who joined, and fires the event then
(`configurationService.ts:908-912`). `ReplaceFolders` is the first part,
`notices` counts the events to come, and `FoldersReplaced` is one of them.
Requests in between get the old folder's entries from the cache or a load under
way; the properties allow that, and only until the event.

`recent`, `formerly`, `acceptable` and `missed` are history: what a file held
and which folders were configured since the current load began, what a caller
may be answered, and the files a load could not read or whose change no event
will bring. Files are taken to be watched: that a folder just added to the
workspace is not watched from the first moment is left out.

### WritingAssistant

One action is one callback up to its next await. `getApiKey` answers at once
when the settings hold a key; otherwise it awaits the secret, the write of the
setting and the deletion of the secret, and the three callers of it are the
three groups of `Reads`, `Writes`, `Deletes`: the refreshes (counted, as they
are alike), the resolution at the head of `_resolveLMSequencer`, and each
request of the chat. `Announce` is what follows from a changed setting: how
many refreshes and resolutions start. The list is represented by the settings
it was made with (`Listing`), so that an outdated list is told from a current
one. `deleteApiKey` has no caller in the sources and is left out, as are the
network's content, cancellation and the parts of the stream.

`steady` and `cleared` are history. `cleared` leaves out one known way for a
key to come back: two parties have both read the secret, one has moved it, the
user clears the setting, and the other then writes what it had read.

### TextFile

`saves` holds the `TaskSequentializer` (`running`, `queued`), the state of each
save that is under way (`ops`) and what each call's promise waits for
(`calls`). The code runs one save; the model has two slots, so that a second
one could start if the protocol let it. `DoSave` is `doSave` with its early
returns in their order; `Done` is `doneRunning` with `runQueued`, which `Finish`
applies twice, because a save is known first by the version it was asked for
and then by the one it writes. `Check` and `Write` are `validateWriteFile` and
the write, one await apart; the stat and the contents that `Check` may compare
are taken together. `FileChanged` and the actions after it are the reload queue
of the manager and the read of `resolveFromFile`, which a revert shares.
`doReadFileStream` (`fileService.ts:586-661`) awaits the file's stat and its
text apart: `ReadStat` and `ReadText` come in this order when an etag is given,
which is when a reload asks, and in any order for a revert, which has none. A
stat equal to the etag ends the reading without a text. The text is read in one
step.

`kept`, `shown` and `astray` are history. `astray` is set by the ways in which
a clean model can differ from the file although the code does what it says:

- undo to the saved version while the file holds another text or is being saved
  (`onModelContentChanged` compares alternative versions only),
- a revert while a save is under way, which reads nothing (`resolve` returns),
- a failed read of the reload or revert of a clean model,
- another program writing between the write and the stat that follows it,
- a text read while a save was under way or had failed, or older than the stat
  the model then keeps: a save ended while it was being read, or a revert read
  the text, another program wrote, and the revert's stat came after that. The
  reload for that write finds the etag it knows and reads nothing, and a save
  finds no change and overwrites it (`OthersKept` leaves out files of the size
  the save knew),
- a reload dropped for a save of a clean model that is then cancelled.

Left out: redo, deleted and readonly files, save as, encodings, disposal, and
`skipSaveParticipants`.

### Backups

`timer` is the tracker's pending backup up to its place in the queue, `queue`
the file operations of the service with their cancellation tokens, `file` the
backup on disk and `model` the table. A write truncates the file when it starts
(`Partial`) and fills it when it ends. A save begins (`BeginSave`), and ends or
fails at any later moment, whether or not somebody still waits for it; what it
does in between is the matter of `TextFile`.

`tracker` is `starting` until `resolveBackupsToRestore` has listed the backups
(`Ready` sets `isReady`), and `restored` once `restoreBackups` has opened them.
`Start` fills the table from the folder; a text that has a readable backup is
`unrestored` until `OpenEditor` resolves it from there. `discardBackups` leaves
an unrestored backup alone, and nothing is discarded before the tracker is ready
(`NoVeto`, `DeleteFolder`).

`phase` follows `onFinalBeforeShutdown` and what comes after it: which of its
ways is taken depends on settings and on the reason for closing and is left
open, their order is not. With `WillShutdown` the window begins to join: the
backup service asks it to wait for the queue (`joinBackups`), text files for
their saves (`joinState`). `Quit` may come before they have ended and cuts off
what runs, as the user can end the waiting (`force` in `handleWillShutdown`);
a window that waited is the case in which nothing is left to cut off.

`bare`, `late`, `slow` and `raced` are history and name what the code does not
promise:

- `bare`: an operation failed, or closing cancelled it and was then vetoed, or
  closing did not discard a backup because the tracker was not ready; nothing
  schedules it again before the next change.
- `late`: the text changed, or a save of it failed after a revert, when the
  window had looked at it for the last time; the user would not wait; or the
  window crashed.
- `slow`: the save that made the text a saved one ended after the shutdown had
  turned from saving to backing up. The tracker is suspended then, and the
  backup stays; `QuitKeepsText` says that it holds what the file holds.
- `raced`: a backup was taken for this text's because it has the same version
  (versions start anew when a file is reopened, and `hasBackupSync` is asked
  without the modification time), `discardBackups` deleted the folder while
  a backup was being written, or writing a text over a backup of the same
  text failed halfway.

Simplified: the window has a folder open (an empty window discards unrestored
backups too). A modification time is a number that identifies a save.
`OpenEditor` reads the backup in one step, when the queue is empty. An editor is
closed when its text is saved and no save is under way. After `StopDiscarding`
the folder stays, the worse of the two outcomes. Backups that cannot be
restored, scratchpads and more than one working copy are left out; operations on
different files do not wait for each other.

## Runs

| Run | Question | Bounds | States, time |
| --- | --- | --- | --- |
| `codex_tree` | do rows stay connected, and does the store look indivisible? | 2 calls, 2 pen names, stories, entries, 1 relationship, crashes | 808,000, 80 s |
| `codex_settle` | are changes announced, do deleted rows stay deleted, is every call answered? | 2 calls, 1 row of each kind, 2 alias lists, 1 engine failure, no symmetry | 304,000, 110 s |
| `codex_aliases` | is an alias list what one call set? (no) | 2 calls that set the aliases of 1 entry, 3 alias lists, no failure, no crash | finding |
| `codex_open` | do openings, upgrades and failures leave file and calls right? | 2 openings, 2 calls, builds with 0, 1, 2 migrations | 18,000, 6 s |
| `codex_cache` | are answers current, of the right folder, and do they come? | 2 requests, 2 loads, 3 folders, 2 files, 2 changes, 1 failure | 378,000, 140 s |
| `codex_nested` | is the cache true once all events are heard? (no) | a nested codex folder, 1 change | finding |
| `md_patient` | do panels show the document when people wait? | 2 panels, 3 contents, 6 acts | 4,000, 3 s |
| `md_hurried` | are mirror, edits and echoes right when they do not, and does suppression end? | 2 panels, 2 contents, 2 acts, no symmetry | 152,000, 60 s |
| `md_diverges` | do panels show the document when people hurry? (no) | 1 panel, 2 keystrokes | finding |
| `assistant` | does the list follow the settings, and do requests get through? | 1 request, 2 keys, 2 addresses, 1 change, 1 failure | 299,000, 100 s |
| `text_file` | do saves, reloads and reverts keep texts apart, and is every save answered? | 2 edits or undos, 2 saves, 1 foreign write, 1 revert, 1 failure | 1,204,000, 170 s |
| `backups` | is the unsaved text always where a restart finds it, and a saved one not? | 2 texts, 1 save, 1 reopening, 2 closings, 1 crash, 1 failure | 1,562,000, 140 s |

Why the bounds are enough. Every row hazard is between two calls; a third call
adds orders of the same pairs. Ids are never reused, so two of each kind give
the row an operation works on and one it must not touch. The proofs lift these
bounds for the properties they cover. Two openings are what one disposal makes
possible, two migrations are the least for a failure between them. In the
editor, three contents tell apart what a panel saw, what another wrote and what
it writes next, and one act of each of two panels plus one elsewhere is the
shortest race of all parties. In the cache, two changes put one before and one
after the point a load has reached, or delete and restore a file, change the
setting there and back, or change a file, or replace the folders again, between
a replacement of the workspace's folders and its event. For the assistant, one change puts its refreshes
and listings between any two awaits of the request and of the migration. For
text files, two edits make a version older, equal or newer than the one a save
writes, two saves are one running and one queued (a third finds both), and one foreign
write of another size is what the dirty write prevention can see, or what comes
between stat and text. For backups, the second
closing follows a vetoed one or a restart, before or after the tracker is ready,
the second text follows a restart or is typed while the first is saved, and one
save can end in each phase of a closing. Three texts take TLC much longer;
the proofs cover any number.

Deadlock is checked in the database runs. In the others it is off: people may stop at any time with everything handled, and the acts are
bounded.

Symmetry is used in runs without liveness only.

### Findings

- `codex_aliases`: overlapping `setEntryAliases` calls that both return leave a
  list neither of them set. The run starts from a database with one entry and
  has neither crashes nor failures, after which nobody is promised a whole list.
- `md_diverges`: a second keystroke within one round trip can be lost to the
  document while the panel shows it.
- `codex_nested`: deleting a folder above the codex folder leaves the deleted
  entries cached.

Each is in `PROJECT.json` with the text it disagrees with.

Not findings, because no text of the repository disagrees with them, but worth
knowing: the known exceptions under `WritingAssistant`, `TextFile` and
`Backups` above, among them a stale text after a revert; a person who types
before an update has reached the panel replaces the change that is on its way,
without a conflict being noticed; a panel that opens while the document changes posts the
content it was initialised with (`editor.ts:50`), which `md_patient` excludes
by waiting; and after a failed opening the database service keeps rejecting.

## Fairness

- `CodexDatabase`: `WF` of each call's next step. The SQLite binding calls back
  for every statement, with a result or an error, and the event loop runs
  continuations. `Receive`, `EngineFailure` and `Crash` are under none.
- `CodexConnection`: `WF` of each opening's step, failing included, and of each
  call's continuation.
- `MarkdownEditorSync`: `WF` of each process's message loop and of each panel's
  channel. Nothing is asked of people.
- `CodexCache`: `WF` of each load's step, failing included, and of the callers'
  continuations. Nothing is asked of people, and neither of the watcher: a
  batch may be delayed for ever, and answers still come.

- `WritingAssistant`: `WF` of the resolution under way and of each request:
  settings, secret storage and network answer, with an error at worst.
- `TextFile`: `WF` of each save's step: the disk answers, delays end, save
  participants end. None of people, reloads or other programs.
- `Backups`: `WF` of timers and file operations. None of people, of closing or
  of restarting.

## Proofs

All constants are arbitrary: sets of calls, rows, panels, texts, folders and
loads of any size, under the named assumptions of each module (for instance
that `Absent` is no row, or that bounds are natural numbers).

- `CodexDatabaseProofs`. The inductive invariant `CodexInv` adds two facts to
  types and `ReferentialIntegrity`: `FreshIds` (the id a create will insert has
  no row, and no other call holds it) and `CheckedEntries` (a
  `createRelationship` past its test knows entries that, where they still
  exist, are of its story). Without the second, `RelationshipWithinStory` is
  not inductive: the insert itself checks nothing about stories. An entry's
  story never changes, which is why a test on stale rows is enough.
  `CodexImplementsStore` maps each statement to an operation of `CodexStore` or
  to a stutter.
- `CodexEventsProofs`. `EveryChangeAnnounced` says nothing while a call runs.
  `Owed` says that each change without an event is one that some call still
  announces: a call past its last test, or one whose row is there. When the row
  of an updating call is deleted, its change passes to the call that deleted it,
  which fires an event of the same kind.
- `CodexConnectionProofs`. `ConnectionInv` relates the open write transaction
  to the statement its connection is at (`Draft`), bounds each migration loop
  by what the file has (`Loop`: another opening may have upgraded the file since
  the version was read), and says what an opening past each statement has
  achieved (`Enforced`, `Upgraded`, `Held`). The four safety properties and the
  refinement of `SchemaUpgrade` follow.
- `MarkdownEditorSyncProofs`. A text is `Recent` with a version when the version
  is not newer than the model's and, if it is the model's, the text is the
  model's. `Mirror`: so are the host's and those of every change event, versions
  ascend, and the model's version is the host's or in flight. `Quotes`: so are
  the version and the base of every edit in flight, which makes the version test
  of `ApplyEdit` a test of the text. `NoEchoLoop` is proved by counting
  (`EchoInv`): changes made, edits asked for at the renderer, edits on their way
  from webviews, in both queues, and panels yet to be initialised never exceed
  acts and panels opened; each step turns one of these into another. Under
  `Patient`, the assumption of two theorems, one thing happens at a time
  (`OneAtATime`): everything rests, or one panel is `Opening`, has `Posted` an
  edit, has it `Sent` on, or has it `Applied`; each phase says what every queue
  holds and what every other panel shows.
- `CodexCacheProofs`. `CacheFollowsSetting` needs `EmptyTogether`: nothing
  cached, no folder remembered, since a load without a workspace leaves
  `_codexRoot` as it finds it; and that the folder remembered was configured
  since the load began (`SameFolder`), an earlier one only while an event is to
  come (`NoticeDue`). `AnswersCurrent` needs each load's place in its
  walk: a file is `Pending` or found as it was at some time since the caller
  asked (`Served`) or since the load began (`CurrentShows`); only for the load
  that is cached may it be a value from before the request, and then its change
  is still `Audible`, on its way to the service, since hearing of it would have
  dropped the load. `TreeAssumption` says that folders and files form a tree.
- `WritingAssistantProofs`. `ListFollowsSettings` needs to know what is still on
  its way. `FreshInv` says that unless somebody waits behind the head of the
  queue, the list being made is the one the settings ask for, or its resolution
  has yet to look at them; every change queues somebody. `ClearedStays` needs
  that a cleared key leaves nobody who has read the secret, and no secret.
  `ConfiguredRequestsSent` follows each request (`Attended`): its turn comes
  after the resolution under way, or that resolution was begun with a key, or
  the list has models already.
- `TextFileProofs`. `OneSaveAtATime` needs `Orderly`: the running task's id is
  that of its save, never above the version, and below it while a save is
  queued; so the second clearing of a save that ends cannot hit the queued save
  that the first clearing started. `CleanTextWasKept` needs `KeptInv`: what is
  on disk and what has been read was kept, and a write whose version is still
  the editor's writes the editor's text. `ReadKeepsTyping` needs that the text
  was kept while a reading goes on for the version there still is (`ReadBase`).
  `OthersKept` needs that the stat the model knows is of the file or older
  (`KnownInv`), that a foreign text in the editor was shown, and that what a
  save found when it looked at the file holds until something is written
  (`MetInv`). `CleanTextIsOnDisk` rests on `SettleInv`: a clean text that is not
  on disk has something coming that will show or replace it (`Expected`), and
  neither a write of an older version (`WriteBehind`), nor a reload that finds
  the file as it is known (`FileKnown`), nor an overtaken reading (`Overtaken`)
  drops it. `NoneAssumption` keeps `None` apart from every other value.
- `BackupsProofs`. `TableMatchesFile` says nothing while an operation runs;
  `Table` adds that a backup being written has truncated the file and that a
  deletion has not touched it, and that a window that is down has an empty
  queue. Among the assumptions, `None` is no entry of the table. The two
  properties of the text need `NumbersInv` (no text was seen before it is
  typed), `SavingInv` (a save writes a text of the present version or of an
  earlier one), `UnrestoredInv` (a backup that waits to be restored is in file
  and table, and nothing in the queue touches it), `CurrentInv` (while the text
  is unsaved, its backups carry the present version, stand behind those of older
  texts, and are the only ones left once the table knows one), `PlanInv` (in
  each phase, what is in front of the operation the tracker or the shutdown
  waits for was cancelled and will tell nobody) and `KeepInv` (unless a known
  exception came up, the text is safe, or the timer or the last operation of the
  queue will make it so).

Only model-checked: liveness (`CallsSettle`, `CallsAnswered`, `AsksAnswered`,
`SuppressionEnds`, `RequestsEnd`, `UnsavedTextIsBackedUp`), which is out of the
prover's reach. Every invariant and every other action property of the passing
runs is proved.

## Plan

Done, in order of importance: `CodexStore` and `CodexDatabase`;
`CodexConnection` and `SchemaUpgrade`; `MarkdownEditorSync`; `CodexCache`;
`WritingAssistant`; `TextFile`; `Backups`.

What a continuation would take up: context selection and its byte limit against
a reference definition; `TextFile` and `Backups` composed, so that the steps of
a save in the former (participants, the write, a foreign write in between) take
the place of `BeginSave` and what ends it in the latter; a second working copy,
whose operations wait in a queue of their own.

## Not modelled

Network code (`tokenMixOpenAiClient`), settings registration,
word count, templates, formatting commands and appearance are synchronous or
plain input and output. The stubs under `NW/browser` replace removed services
and do nothing. The project
commands are linear scripts without state of their own. `SessionDatabase`,
storage, undo groups and the other working copies are upstream code that the
writing application does not depend on for its texts. The rest of VS Code is
upstream code; it is modelled where what a writer types, or the program's own
components, depend on its timing (workspace edits, the document mirror, the
watcher's coalescing, migrations, text files, backups, the list of models) and otherwise taken as described
above: FIFO channels, calls answered at most once.
