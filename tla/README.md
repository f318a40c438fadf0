# claude-launcher, specified

claude-launcher is a web server that starts `claude` sessions in pseudo
terminals on the machine it runs on, and on the followers that it lists. This
directory holds TLA+ models of the parts that keep state, the TLC
configurations that check them on small instances, and TLAPS proofs of what each
component guarantees for any number of sessions, clients, requests, launchers
and directories.

## The system

| Component | State | Operations | What is hard about it | What makes it correct |
|---|---|---|---|---|
| Session manager (`internal/sessions`: `Manager`, `Shutdown`, `killGroup`; the exit in `main.go`) | the map of sessions under `m.mu`; of each session `exited` under `l.mu`, a process group, the `pump` and `reap` goroutines, a delayed SIGKILL | `Spawn`, `List`, `Remove`, `TailLog`, `Shutdown`, the shell's exit | handlers, goroutines, the signal handler and processes interleave; reads under a lock are used after it; shells ignore SIGTERM; a log write may hang | no live shell is lost track of; no double kill; Shutdown leaves nothing behind and ends; no caller is wedged; a session only moves forward |
| One session's output (`live`: `onData`, `scanGatesLocked`, `reap`) | log, tail, scan window, answered gates, timers | a chunk read, a timer fired, the exit | limits crossed in mid chunk; keystrokes sent late; close order at the exit | the log is a faithful prefix; each startup gate is answered once and in time, ordinary output never; the exit is recorded, last |
| Catalog store (`internal/catalog`) | `cur`, `gen`, `stamp`, `failed` under an RWMutex | `New`, `reloadIfChanged` in every read | the file changes between stat, read and stat; half-written files; requests race | the store neither sticks to an old file nor rolls back |
| Shell registry (`internal/shells`) | the detection and its generation under a mutex | `Available` | two catalog calls, one of them with the lock held; a launch makes a third | the cache is never of another generation than its tag says; a launch gets its shell and its model from catalogs in force; no deadlock |
| Ring and page (`internal/nodes`, `internal/server`, the table of `web/templates`) | none of its own: the table shown, calls under way | poll, launch, kill, each followed by a fan-out | late service after a timeout, lost answers, dead followers, mutual followers, crossing answers | a kill goes to the owner; fan-outs end; polls do not pile up; stale rows go away |
| Recent directories (`internal/recents`) | `recents.json` under a mutex | `List`, `Add` | launches that race; reads that fail; a crash or a full disk inside `os.WriteFile` | the history is the last directories launched, most recent first; it survives restarts |
| Directory browser (`internal/browse`, `uiBrowse`, `uiMkdir`) | the file system, which is everybody's | `Browse`, `MakeDir` | what a stat said is stale at the read, or the mkdir, that follows | no request makes a folder that was there; what is shown was there |
| Configuration, assets | none after the start | | | |

The page calls the server; the server calls the manager, catalog and registry
in-process, and the same JSON API on a follower. `Spawn` calls the registry and
the catalog before it starts a shell, and adds its directory to the recents
after. The manager owns the processes.
`PROJECT.json` lists under `hazards` where each difficulty bites.

## The modules

| Module | Models | Correspondence |
|---|---|---|
| `SessionStore` | what the manager promises: a session is launched, stops, is removed, and is killed at most once after that | abstract; implemented by `Manager` |
| `Manager` | the manager with all its goroutines | `items` is the map's key set; `handler`, `remover`, `sweep`, `pump`, `reap`, `killer` are the program counters of the handler that spawns a session, the one that removes it, Shutdown's loop, and the session's goroutines; one critical section is one action. `pump` holds `l.mu` as a state of its own, since it is the one that does I/O beside it |
| `MCManager` | symmetry for TLC | |
| `ManagerProofs` | theorems about `Manager` | |
| `Live`, `MCLive` | one session's output | `pump` is the program counter of `onData`; a pattern is the set of texts that it matches, `head` and `chunk` are joined and trimmed as the code does it, so that a read may cut a prompt in two; `logCap`, `tailBytes`, `promptWind`, `gateWindowBytes` and the size of a read are constants; `procs` are the shell and a claude that it may have forked and that may outlive it; `cuts` records where reads ended |
| `Catalog` | the store and the file | a write makes a new *edition*; its number stands for its content and its stamp; a half-written edition can become whole without its stamp moving |
| `LiveProofs`, `CatalogProofs`, `RegistryProofs`, `RingProofs`, `RecentsProofs`, `FoldersProofs` | theorems about the modules they are named after; `RegistryProofs` builds on `CatalogProofs` and `FoldersProofs` on `RecentsProofs`, as the modules do | |
| `Registry` | `Available`, and the two catalog calls of a launch, on top of `Catalog`, whose actions it conjoins with its own | the detection is represented by the edition its shell specs come from; `told` is what `Available` returned, with which a launch goes on to `ResolveModel` |
| `Ring`, `MCRing` | one page, its launcher and the ring | `pending`, `heard`, `rows` are `allSessions`' goroutines and slots; `goal`, `outcome` the launch or kill under way; `late` the calls that are served after their caller gave up; `since` the clock of the poll; `Followers` is computed from what each launcher lists, as `nodes.New` does |
| `Recents` | the history file and its lock | `file` is the list, or torn while `os.WriteFile` is at it, and after a crash in there; `adds` is the history of launches that the list must agree with |
| `Folders`, `MCFolders` | the requests that browse, make folders, launch and list recents, on top of `Recents` | `pc` says which system call comes next; `kind` is the file system, which other programs change between any two of them |

Every definition that models code is in the `map` of `PROJECT.json` with its
lines. Definitions named `Op_Something` and marked "Faulty variant" are the code
with a plausible bug; no specification uses them. Putting one in the place of
`Op` makes a property fail, which shows that the property says something about
the code. `mutants` in `PROJECT.json` lists the pairs.

## The runs

| Run | Instance | Shows |
|---|---|---|
| `manager_safety` | 2 sessions, no pollers, both platforms | `ShellTracked`, `KilledAtMostOnce`, `OnlyTheLateSurvive`, and that `Manager` implements `SessionStore` |
| `manager_polling` | 1 session, 1 poller, fair | `TypeOK` (with it, that what was taken out of the map stays out), `ListAnswered`, `SpawnAnswered`, `RemovedShellDies`, `ShutdownEnds`, `DeathReported`, `PollsMoveForward` |
| `live` | 2 gates, 5 bytes of output, cap 4, window 2, byte limit 3, reads of 1 or 2, fair | `LogFaithful`, `CapMarkedOnce`, `TailFresh`, `StartupOnly`, `GateNotMissed`, `AnsweredOnce`, `ExitAfterOutput`, `ExitRecorded`, `GateTyped` |
| `catalog_reload` | 2 requests, 2 edits, fair | `StampMeansLoadedUnlessOvertaken`, `NeverRollsBack`, `LoadedInTheEnd`, `CallsReturn` |
| `registry` | 2 requests, 2 edits | `CacheIsCurrent`, `AvailableIsFresh`, `LaunchMatches`, `SomebodyMoves` |
| `ring` | 3 launchers that list one another and themselves, 1 session id, fair | `PollsDoNotPileUp`, `NotFoundIsGone`, `RefreshShowsIt`, `StaleRowsVanish`, `RowsComeUp` |
| `folders` | 2 requests, a tree of 3 directories, 4 names, history of 2, 3 launches | `HistoryKept`, `NewFolderIsNew`, `PickerHonest` |

All but `manager_safety` and `catalog_reload` check a type invariant too (that
of `Catalog` is part of `RegTypeOK`).

Five more runs are expected to fail: each states what a comment of the code
says, and the code does otherwise.

| Run | Comment | What the run shows |
|---|---|---|
| `manager_orphans` | no session outlives the launcher | a launch served while Shutdown sweeps does |
| `manager_removed` | the launcher does not exit before the SIGKILL of a session that ignores SIGTERM | it does if the session was removed: Shutdown waits only for what is still in the map |
| `live_lost` | closing the PTY and then waiting for `pump` keeps the last output | closing it first makes `pump`'s next read fail with output unread |
| `live_note` | nothing touches the log once `pumped` is closed | a gate timer's note may follow the exit line |
| `catalog_stale` | a write during the read is picked up by the next request | the stamp is taken after the read, so that such a write is recorded as loaded |

One more comment was found to say something else than the code, and is not
worth a run: `Browse` is said to fall back to the parent of a directory that is
missing or unreadable, and then to home (`browse.go:53`). It goes to home for
what is missing, and stays at what it cannot read; `BrowseStats` and
`BrowseReads` do what the code does.

### Bounds

Sessions meet one another only in the map and in Shutdown's loop, where two are
enough to have one in each state that the loop tells apart; the proofs cover
every number. The texts of the two gates are `ab` and `a`, and `bb` is that of
remote control: one read may show both gates, or a half of one, and with a
window of two bytes a prompt that is cut in two is found or lost, depending on
how long the second read is. Five bytes pass the cap, the tail, the scan window
and the byte limit, each in the middle of a read. `PastIsOne`, a constraint of
`live.cfg`, lets only `b` be printed past the byte limit, where nothing looks at
what a byte is; a scan that did would find it, since `b` completes `ab` and
`bb`. `MaxOut` and `MaxEdits` bound the output and the writes of the
file; two edits are enough for an edition that overtakes one that overtook. Two
requests are enough for one to be inside the lock that the other finds taken.
Three launchers let one follower answer while the other is dead, and each lists
all three, so that queries could go round in circles. Three directories compete
for a history of two; one of them is home, one the root, and one below home can
be made and removed; of the names that are typed one climbs and one has a
separator. `MaxAdds` counts the launches since the history was last lost. In `ring.cfg`
1, 2 and 3 stand for the code's 3 s, 4 s and 5 s. The page of `Ring` has its poll
and one click under way at a time, of any number one after the other; launches
and kills of other pages, and those that were given up and are served late, run
beside it.

### The scan window

The window that carries a prompt over from one read to the next is trimmed to
its last `promptWind` bytes before it is matched (`sessions.go:520-526`).
`GateNotMissed` therefore says no more than that what the window shows when a
read of the startup is scanned is answered, although it may have come in several
reads (`ShownAt`). A prompt that is cut in two, with nearly a windowful after its
end in the second read, is shown by neither window, and in the code it is not
answered. That takes a read of more than `promptWind`, 4096, less the length of
the prompt: a Linux PTY returns up to 4096 bytes at a time, so the code does not
exclude it, although an onboarding screen is shorter. `SplitsAreSeen` has the
condition under which no cut can do harm, that the prompt fits the window beside
a whole read.

### Fairness

Goroutines that can run are run, and the mutexes of Go let no waiter starve:
weak fairness for steps that stay enabled, strong fairness for a lock that
others keep taking. The table of sessions is polled every four seconds as long
as the page is open, which `ring` assumes; that poll does not look at the catalog,
and `catalog_reload` does not assume that there are requests: `LoadedInTheEnd`
speaks of a request that has found the file, and says that it loads it. Nothing is assumed of users, processes, output, the editor, followers or
the network, and `manager_polling` assumes nothing of writes to a log, either:
that is its point. `live` does assume that the disk answers; a claude may hold
the PTY, and print, long after its shell. Time is
modelled where the code relies on it: a SIGKILL whose delay is shorter than
Shutdown's grace is sent before the grace is over, and the clock of the page
does not pass a timeout that is due.

### Deadlock

The configurations switch TLC's deadlock check off where the modelled program
stops for good: the launcher exits, a session ends, `main` refuses an invalid
file. That nobody waits for anybody for ever is stated as `SomebodyMoves`,
`CallsReturn` and the liveness properties. `ring` and `folders` have it on.
`SomebodyMoves` has two halves: `NoCircle` says, of what the calls hold and wait
for, that some call is not held up; the other half, that not being held up
(`CanMove`) is all that a call needs for its next step (`ENABLED`).

## What is proved

`ManagerProofs` proves, for any sets of sessions and pollers and on both
platforms:

- `TypeCorrect`, `ShellsAreTracked`, `KillsHappenOnce`: the invariants of the runs;
- `OnlyLateShellsSurvive`: with `KillDelay < ShutdownGrace` (2 s and 3 s in the
  code), a shell that survives the launcher is one of a launch that Shutdown
  overtook or of a Remove that was not done with it, which are the cases of
  `manager_orphans` and `manager_removed`: there is no third;
- `PollsNeverGoBack`: the action property about what clients see;
- `Refinement`: every step of `Manager` is a step of `SessionStore` or a stutter;
- `StagesMoveForward`, from the refinement: what `SessionStore` says of the order
  of a session's stages holds of the manager;
- `ListIsASnapshot`, `MapMoves` and `RemovedIsNotListed`: the answer of a `List`
  is the map at one instant during the call, though its rows are collected one by
  one, and the map changes by one new session, one removed session, or all of
  them at once. That is what `Ring` takes a launcher to be: a set of ids that is
  looked at in one step.

None of the invariants is inductive. `ShellTracked`, for one, needs to know that
a session that was killed either has a killer asleep or is dead, and that
whoever skips the kill has seen the exit. `IInv` adds, by session, `Lifecycle`
(Spawn and reap go in order), `Owned` (a session in the map is nobody's, one that
left it belongs to exactly one of Remove and Shutdown) and `KillState` (how many
kills there were, given where the owner stands), and, by poller and session,
`RowState` (a row under way is not ahead of the session, nor behind what the
client saw). `SessionStep` and `RowStep` prove that each action keeps it. The
assumptions are those of the module, `DelayAssumption`, and of the theorem. The
timing assumption sits in `GraceOver`.

`CatalogProofs` proves, for any number of requests and edits, `StampIsHonest` and
`RollsForward`. Mutual exclusion is part of `TypeOK`; what has to be added is what
editions are under way: the file is never older than the store (`OnlyNewer`),
what the holder of the lock has read is whole and at least as new
(`CarriesNewer`), and the stamp is the store's own unless the last load was
overtaken (`StampMatches`). `EditsTakeEffect` says when a user sees an edit: with
the first request that begins after it, if it is valid and stays in place and no
load was overtaken. `Heeds` says how far such a request may be before it holds the
new edition. The only assumption is `ThreadsAssumption`, that `Nobody` is no
thread.

`RegistryProofs` proves `RegistryUsesCatalog` (every step of `Registry` is a step
of `Catalog` or leaves it alone), and, on top of the catalog's invariant,
`CacheStaysCurrent`, `AvailableStaysFresh` and `LaunchesMatch`. `CacheIsCurrent`
is inductive only together with `KnownGens`: a call that asked for the generation
and was then overtaken by reloads tags its detection with a generation that is
past, and no tag is ahead of the store. `NotBehind` bounds what a call under way
may get to see from below, and with it what a launch does. `EditsReachLaunches`
is `EditsTakeEffect` for a launch: it gets both the shell and the model of the
edit in place, be the shell detected or cached (`LaunchHeeds`).
`LocksCloseNoCircle`
proves `NoCircle`: a call that waits for the registry waits for one that is in the
catalog (`InTheCatalog`), and whoever holds the lock there waits for nobody.

`LiveProofs` proves every safety property of `Live`, for any gates, limits and
output. Its invariant `LiveInv` says where each of the three
goroutines is with respect to the others (pump before reap's exit line, a timer
per gate that was seen) and what the tail and the window are of what has been
read; the log's limit is stated by the position of its marker. `OnlyAtStartup`
and `NoGateMissed` need `Startup` as well, which says that the gates answered are
those that the window showed at some read until startup was over. Both hold for
any patterns and any sizes of reads and window, since joining `head` and `chunk`
and trimming them gives the end of all that was read (`WindowShows`).
`SplitsAreSeen` adds that a text with `length - 1 + ReadMax <= PromptWind` is
shown at some read, wherever it is cut. `LogIsFaithful` is about the output among other entries of
the log. It says by counting, not by filtering, that the k-th entry of output is
the k-th byte (`Carries`); the invariant `Filing` adds the chunk that pump has
read but not yet written. `ClosedLogIsWhole` says what is found in the file of a
session that is over: the exit line and, up to the cap, all that pump read, and
nothing changes it any more. `AnswersAreKept` says that no answer to a gate is lost
on its way from onData over the timer to the keystroke. They are what
`ExitRecorded` and `GateTyped` need beside fairness.

`RingProofs` proves the safety properties of `Ring` for any launchers, whatever
each lists. `NotFoundIsGone` is about a kill that may be served long after
another page launched, killed, or gave up. It rests on `OneHome`: an id is only
ever seen on one launcher, where its kills go; a launch under way or late is of an
id not seen anywhere yet; and no two of them are of one id. `ServedOnce` and
`Settled` add what has become of the page's own order, from which `ClicksShow`
follows. `SessionsLiveOnce` adds time: what has run or been shown anywhere
neither starts again nor moves, since no order that is under way or late could
start it (`Past`). `EndedRowsStayAway` (what has ended gets into no answer that
does not have it yet, and is not shown again once it is nowhere) and
`SteadyRowsAreShown` (an answer has every session its launcher had all along, if
that launcher answered) are what `StaleRowsVanish` and `RowsComeUp` need beside
fairness. `NoPilingUp` has an invariant of its own, `Timed`, and needs
`FanoutTimeout < PollInterval` (3 s and 4 s in the code).

`RecentsProofs` proves that the history of some launches and one more is what
`Add` makes of the history of those (`HistoryGrows`), for a list of any length.
`Collected` is a recursive function, as the loop that it stands for; what it
returns is shown without induction over operators: of the positions where the
claim fails there would be a least one (`LeastElement`). `RecentsInv` then follows
the file through the write that empties it first. `RecentsInvariance` speaks of
any threads that use the store as `RecentsStep` says.

`FoldersProofs` proves that the requests are such threads (`FoldersUseRecents`),
and so `HistoryIsKept`. It proves `FoldersAreNew` and `PickersAreHonest` for any
tree, names and requests: the invariant says, per request, that the folder to be
made is a single name in its parent, that no error is left over from an earlier
request, and that what is about to be read is what was asked for, unless an error
is already to be shown. `FoldersTypeCorrect` needs the shape of the tree, that
the parent of every directory is one (`Tree`): what other programs make hangs
from what is there, and what they remove is a leaf.

Only model-checked: all liveness, of which the safety part is proved as said
above, and the half of `SomebodyMoves` that speaks of `ENABLED`; both are out of
the provers' reach.

## What is not modelled

Parsing and validation of the catalog (which editions are valid is arbitrary),
the text of the command line and of names, the environment of a session, the
pruning of logs, errors of writes to a log, pids and their reuse, the contents
of launch forms, reads without state (models, shells, config, log, probes) and
their pass-through proxy, and configuration: these are sequential and do not
depend on what else goes on. Symbolic links, Windows drives and the order of
entries in `Browse` are abstracted. `Folders` is about the directories of the
launcher that serves the page; browsing and making folders on a follower is not
modelled. There `uiMkdir` drops the error of `browseFor` (`server.go:379`): a
follower that goes down between the two calls is shown as an empty picker
without an error. `apiMkdir`, which answers with the path instead of browsing
it, is `uiMkdir` without its last step. `Ring` takes ids of followers as unique.
`Live` has no ANSI sequences, and so does not cover one that a read cuts in two
and that is then not stripped. `main` returns without Shutdown if its listener
fails, which it does at the start, when there is no session.
