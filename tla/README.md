# kra in TLA+

kra is a command-line program that keeps *workspaces* under a *root* directory.
A workspace is the directory `workspaces/<id>` with a metadata file
`.kra.meta.json`, notes, and git worktrees under `repos/<alias>`; a closed one
is the same directory, without its worktrees, under `archive/<id>`.  The
worktrees belong to bare repositories in a pool that all roots share.  Every
command is a short-lived process.  Nothing coordinates two processes but the
file system, git, and one lock file of `ws add-repo`.

This directory holds TLA+ models of those commands at the grain of single
file-system and git calls, TLC configurations that check them on small
instances, and TLAPS proofs for every instance.

## Inventory

| Component | State | Operations | What makes it correct |
|---|---|---|---|
| `ws create` | `workspaces/<id>`, baseline | stat, mkdir, fill, baseline, commit | an id names one workspace; a failed create leaves no workspace |
| `ws lock`, `ws unlock` | purge guard in the metadata | load, write | the guard is what the last of them said |
| `ws close` | worktrees, metadata, both directories, root commits | risk prompt, scan, pre-commit, remove worktrees, write metadata, rename, drop baseline, archive commit; rollback | no binding to a repository is lost, status agrees with place, unconfirmed work is not thrown away |
| `ws reopen` | the same | stat, pre-commit, rename, load, add worktrees, write metadata, baseline, commit; rollback | what close archived comes back |
| `ws purge` | the same | guard check, pre-commit, remove worktrees, remove both directories, baseline, commit | nothing guarded is purged; what is purged is in git |
| `ws add-repo` | worktrees, `repos_restore`, lock file, `FETCH_HEAD` of the bare repositories | lock, select, prefetch in goroutines, fetch again, preflight, add worktrees, load and write metadata, rollback | every worktree has its entry; two of them do not overlap; what is added is in sync as far as the flags ask |
| `ws remove-repo` | worktrees, `repos_restore` | select, remove worktrees, load and write metadata | records, entries and worktrees agree |
| workspace metadata (`ws_meta_json.go`) | status, guard, `repos_restore` | load, atomic write | a reader never sees half a file |
| repository risk | none (a function of git status) | classify | what would be lost is reported |
| baseline and work state, `ws list` | baseline files, a cache per root | snapshot, compare, list, clear | in progress once the files say so, until the workspace is closed, and not for an earlier life |
| repo pool and gc | bare repositories | add, remove, gc over all roots | a bare repository in use is not deleted |
| root registry, contexts | one JSON file for all roots, current context | touch, init, create, rename, remove, use | a name stands for one root; gc learns of every root |
| cmux integration | mapping file, external terminal workspaces | open, list, switch, close | a workspace is shown in one cmux workspace, and none is forgotten |
| `ws import jira` | plan | choose a sprint, search, plan, create | every issue is created or reported, and the counts add up |
| launcher | none of its own | list, select one or several, run the action | what was marked is what is acted on, all of it |
| selector | cursor, filter, marks | keys, confirmation timer | the cursor is on a visible row, within the range that is rendered; no choice hangs |
| doctor | none of its own | check, remove stale locks, register the root | it repairs nothing a living process uses |
| templates, init and config, dashboard and insight, command line, state store | see `PROJECT.json` | | |

Components meet in three places: the directories of a workspace (all `ws`
commands), the git repositories (root commits, worktree records of the bare
repositories) and the files shared by all processes (registry, current context,
cmux mapping, work-state cache).  The only threads are the goroutines of `ws
open --multi`, `repo add` and the prefetch of `ws add-repo`, and the only
messages those of its progress channel and of the selector's timer.  The hard behaviours are the
interleaving of calls of two commands, a call that fails in the middle of a
command and the rollback that follows, a process that dies between two calls,
and state that is read before a prompt, a commit or a git call and used after
it.  `PROJECT.json` lists each of them under `hazards` with its line.

## Modules

| Module | What it is |
|---|---|
| `Lifecycle` | the abstract specification: absent, active, archived, and a guard |
| `WorkspaceLifecycle` | the seven commands, call by call |
| `MCWorkspaceLifecycle` | command sets and symmetry for TLC |
| `AddRepoLock` | the lock file of `ws add-repo`, system call by system call |
| `MCAddRepoLock` | its instances for TLC |
| `RootRegistry` | the registry of roots and the current context: load, change, rename |
| `RepoPool` | extends `RootRegistry` with the pool, the commands that use it, and `repo gc` |
| `MCRepoPool` | its instances for TLC |
| `AddRepoFetch` | how add-repo fetches: goroutines, channel, printer, phase B, preflight |
| `MCAddRepoFetch` | its instance for TLC |
| `CmuxMapping` | the mapping to cmux workspaces: open with goroutines, close, list, switch |
| `Doctor` | extends `WorkspaceLifecycle` with what doctor reports of a workspace |
| `RepoRisk` | classification of a git status, as operators |
| `WorkState` | baseline, cache, and the comparison that makes a workspace in progress |
| `Filtered` | the elements of a sequence at chosen positions, in their order |
| `Selector` | the interactive selector |
| `JiraImport` | extends `WorkState` with the plan of `ws import jira` |
| `Tracking` | composes `WorkState`, `JiraImport` and `Selector` into `ws list`, `ws --select`, `ws create` and `ws import jira` |
| `MCTracking` | its instance for TLC |
| `WorkspaceLifecycleProofs` | type correctness, for every instance |
| `WorkspaceSerialProofs` | the safety invariants, the refinement, entries, worktrees and purge when no commands on one workspace overlap but add-repos |
| `AddRepoLockProofs` | what a lock file means to the commands and to doctor |
| `RepoPoolProofs` | context names stay unique and gc deletes nothing in use, whatever interleaves |
| `AddRepoFetchProofs` | the fetching of add-repo is safe for any pool and any selection, and what is shown of it is right |
| `CmuxMappingProofs` | the mapping for any number of targets and goroutines |
| `TrackingProofs` | work state, selector and import for any sets of workspaces, files and issues |
| `FilteredProofs` | facts about `Filtered`: the n-th of the positions that are left, and counting |

### WorkspaceLifecycle

`ws[i]` and `arc[i]` are the directories of workspace `i`, each with its
metadata (status, guard, `repos_restore`), a version number `note` for all its
other files, its worktrees, those of them that hold work found nowhere else and
those with a detached HEAD.
`reg` is git's record of worktrees, `base` the baselines, `head[i]` the last
root commit.  `pc[p]` is the next call of process `p`, `job[p]` its command line
and local variables.

An action is one call together with the early returns and the rollback the code
attaches to it; `map` in `PROJECT.json` gives the lines.  `MayFail` lets a call
fail for reasons of its own, the calls of a rollback included: the code ignores
their errors, and so do `WriteBack`, `RenameBack`, `AddRollback` and the cleanup
in `CreateFill`, which then leave things as they are.  `Crash` ends a process and
keeps the disk.  `EditNote` and `EditTree` are the user, who also detaches heads.

`scars` is a history variable.  A few calls leave a workspace in a state that
nothing repairs if the next call does not happen, or fails together with its
rollback: mkdir without metadata in create, the status of the other place in
close and reopen (`"status"`), a worktree without its entry in add-repo, or a
second add-repo let in by the lock (`"trees"`).  No action reads `scars`; the
properties about metadata and worktrees name it as their exception, so that what
they say of all other failures and deaths is exact.

What is abstracted:

* a repository is identified with its alias, and the branch of a worktree with
  the id of its workspace, which is the default branch name; a worktree with a
  detached HEAD has none, and its entry is `"headless"` after a close;
* bare repositories are always present (`RepoPool` has them come and go);
* calls that only read, one after the other, are one step: `AddPlan` is the
  check that the workspace is active, the lock, the selection and the
  preflight; `CloseScan` and `PurgeCheck` likewise;
* a git commit names paths, and git refuses a path that is neither on disk nor
  in the last commit (`Known`); the archive commit of close also wants every
  file of the workspace among the staged changes (`AllFilesStaged`);
* `os.RemoveAll` of the archive takes two steps, so that a crash can leave the
  directory without its metadata;
* `--format json` and the interactive form make the same calls; a prompt is a
  nondeterministic answer;
* the cmux mapping (`CmuxMapping`), the fetching of add-repo (`AddRepoFetch`)
  and the work state (`Tracking`) are not part of this module.

`Doctor` is the view of `kra doctor` on these directories.  Its findings are a
function of the disk; the property about them is checked where calls fail.

### AddRepoLock

The file at the lock path is identified with the process that created it, and is
`stamped` once the pid is in it.  `Open`, `Stamp`, `Read`, `Unlink` and
`Release` are the system calls of `acquireWorkspaceAddRepoLock` and of its
release function.  `f_lock_mutex` shows the window in which the file does not
exclude a second command.  `WorkspaceLifecycle` therefore does not rely on it:
its `AddPlan` may go on while another add-repo is at work, and notes that in
`scars`.  `DoctorScan` and
`DoctorRemove` are `kra doctor --fix`: it remembers a file it judged stale and
later removes the path.

### AddRepoFetch

One add-repo from its selection to its apply.  `bare[c]` says of a selected bare
repository whether the base_ref is there and whether `FETCH_HEAD` is old (or
absent), recent, or touched within the TTL by a fetch that failed; the code
cannot tell the last two apart.  While the command is at `input`, `go[j]` is where the
goroutine of the j-th repository is, `chan` the buffered channel, and nobody
reads it; then come `StartPrinter`, `WaitAndClose`, `Join` and two rounds of
phase B with the preflight and the confirmation between them.  `prefetched` and
`prefetchFailed` are the maps of these names, keyed by owner and name without
the host, as in the code.  `fetched`, `foundFresh` and `taken` are history
variables: fetched by this command, found recent, and taken for recent because a
failed fetch had touched the file.
A fetch that fails may have touched `FETCH_HEAD` and pruned the base_ref; the
clock (`Age`) and other commands (`OtherFetch`) act at any time.  The race
detector's question (the maps are read without the mutex after the wait) is part
of `NothingAfterClose`.

### RootRegistry and RepoPool

`file[r]` is the entry of root `r` in the registry: absent, unnamed, or with a
context name.  Every update is two steps, the load with its checks
(`TouchLoad`, `SetLoad`, `RenameLoad`, `RemoveLoad`) and the rename over the
file (`WriteRegistry`), and any command may run in between: updates get lost.
`RemoveCheck` and `Resolve` read, `Select` writes the current context.

`RepoPool` adds the pool and, for each workspace, the directory it is under,
whether the metadata is there, the repositories the metadata names and the
worktrees git knows of.  `repo gc` is cut at every read: the pool, the registry,
`workspaces/` and then `archive/` of each root, the current root again, git's
worktree list for each repository, the user's selection, one deletion after the
other.  The workspace commands appear only as far as gc can tell: where the
worktree, the entry and the directory change.  Two of them do not work on one
workspace at a time (that is `WorkspaceLifecycle`'s subject).  A refusal, a call
that fails and a crash all end a command without undoing anything (`Crash`).

`used[p]` is a history variable: the entries and worktrees that exist when the
gc of `p` loads the registry and have been there ever since, an entry in the same
directory.  `GcKeepsInUse` says that gc deletes none of their repositories.  It
is the strongest statement the code supports: an add-repo after the inspection
is not seen, nor is an entry whose workspace moves from `archive/` to
`workspaces/` between the two reads, though its worktree then is.

### CmuxMapping

`file` is the mapping file, `mapping` the copy in memory that the goroutines of
an open share under a mutex, `owner[i]` what the cmux workspace `i` was made
for, while it exists.  `Take`, `Identify`, `SwitchTo`, `Create` and `Dress` are
the calls of `openOne`; a call of cmux succeeds, says "not found" when the
workspace does not exist, or fails.  Whether an error says "not found" is a
substring test in the code, which exec's "executable file not found in $PATH"
passes as well: `Misread`, and the alternatives like it in `CloseMapped` and the
pruning of a list, drop the entry of a workspace that may well exist.
`UserCloses` is the user.  `lost` is a history variable: workspaces that an open
made before it failed, which the code neither closes nor records, and those whose
entry was dropped for a misread error.  The list and switch operations of the service are
modelled although no command calls them at present.  One command runs at a time.

### WorkState, Selector, JiraImport and Tracking

`place`, `fs` and `repos` are a workspace as `ws list` sees it: where it is, its
files outside of `repos/`, its worktrees with HEAD and git status.  `baseline`
is the file written by create and reopen, `cache` the set of workspaces the
cache file holds as in progress.

`Selector` is the model of `ws_selector.go`: candidates, the visible ones among
them, a cursor that counts visible rows, and marks by index.  Of a filter only
the set of ids it matches is kept (`Matches`); which row is the n-th visible one,
and the order of what was selected, are `Filtered`.  `marked` is a history variable:
the ids of the rows the cursor was on when they were marked.  The range of rows
render goes through counts candidates; the headings between them are not counted
by the code either, so no property speaks of lines on the screen.

`JiraImport` has the plan and the marking of failed items.  `Tracking` puts them
into commands: `cli` is the command line's local state, `listRows`, `Inspect`
and `SaveCache` are `listRowsFromFilesystem`, and `Act`, `WriteBaseline` and
`ClearCache` an action with its bookkeeping.  The actions themselves are one
step here, or none; their calls are `WorkspaceLifecycle`.  `started`, `touched`
and `troubled` are history variables over one life of a workspace, from its
creation or reopening to its closing.  While a command waits at a prompt another
terminal may run one to its end (`Elsewhere`); two commands that compute at the
same time are left out, since the cache has no lock and the later save wins.
`UserEdit` is allowed where the next step reads or writes what it changes;
elsewhere it commutes with the steps of the command.

## Runs

Passing:

| Run | Question | Instance |
|---|---|---|
| `serial_faults` | `Exclusive`, `PurgeRecoverable` and the refinement of `Lifecycle`, when every call may fail, rollbacks included, and every process may die | one workspace, one repository, all commands in both modes, a user who edits |
| `serial_trees` | what failures, failing rollbacks and deaths leave: `FailuresLeaveMetadataRight` (in the words of doctor), `BindingsKept`, `ArchivedReopenable` | two repositories, all commands without commits, a user who edits and detaches heads |
| `concurrent` | `TypeOK` and `TreesHaveEntries` when two add-repo commands, or a reopen and a purge, interleave at every call (the overlaps are chosen by `MCOverlap`) | two processes, two repositories, all commands, failing calls, deaths, edits |
| `lock` | `RefusedOnlyByOthers`, `AcquireEnds`, `DoctorSparesTheLiving`: a stale lock file refuses nobody, acquiring ends, doctor removes no lock it saw a living process hold | three processes and doctor, failing calls, deaths anywhere |
| `pool` | `NamesUnique`, `GcKeepsInUse`: lost updates of the registry, and gc against everything else | two roots, two names, two processes; one runs gc and names contexts, the other runs everything |
| `cmux` | `OneToOne`, `AccountedFor`, `EntriesKept`, `CommandEnds` | three targets, two goroutines, three cmux workspaces |
| `fetch` | `SendsNeverBlock`, `NothingAfterClose`, `LastShown`, `AppliedInSync`, `FetchEnds`: the prefetch and what it covers | up to two of three repositories, two with the same owner and name on different hosts; every flag, failing and retried fetches |
| `tracking` | `InProgressKept`, `InProgressJustified`, `FSComparisonExact`, `MarkedAreActedOn`, `CursorUsable`, `ImportAccounted`, `CommandsReturn` | two workspaces, five states of their files, three of a worktree, two issues, two events (edits, failures, crashes, commands of another terminal) |

Violations, each the counterexample to a sentence of the repository
(`findings` quotes it):

| Run | What TLC shows |
|---|---|
| `f_close_commit` | close, reopen `--no-commit`, close: the archive commit is refused after the directory has moved |
| `f_reopen_rollback` | a reopen that fails at its second worktree takes the first one back to `archive/` |
| `f_lock_mutex` | a lock file not yet stamped is taken for stale: two holders |
| `f_gc_unknown_root` | `context rm` removes the entry of a root, not just its name; gc in another root then deletes a repository that an archived workspace names |

### Bounds

`MCOverlap` lets only those pairs of commands overlap that `TreesHaveEntries` is
about.  Any other pair of commands that write the metadata can lose an entry
(reopen loads, add-repo writes, reopen writes back): only add-repo takes the
lock.  That is listed as a hazard without a property.

Commands on different workspaces share nothing in `WorkspaceLifecycle` (no
action of a process touches an index other than its own; the proofs use exactly
this fact), so one workspace is enough.  Two repositories are enough for a loop
over worktrees to fail after it has succeeded once; more only repeat that.  The
metadata and the worktrees tell a committed directory from a changed one, so
`MaxNote`, the number of further versions of the notes, is 0 in the runs, and the
commits, which `serial_trees` leaves out, are in `serial_faults`.  Two processes
give every pair of commands every interleaving; the lock has three because a
third process must be able to create the file between the read and the unlink
of the other two.

In `RepoPool` two roots are the known and the forgotten one, two names let one be
taken while another is free, and one process that runs only gc and context create
against one that runs everything gives gc every interleaving with a single
other command at a time.  One workspace passes through every place and one
repository is referenced or not; the loops of gc over workspaces and over
repositories treat each on its own.  In `CmuxMapping` three targets for two
goroutines are the least with which both can fail and a target is left.  `Id`
bounds how many cmux workspaces are mentioned at a time; when all are, creation
fails.

In `AddRepoFetch` two selected repositories are a goroutine that runs while the
command still reads input, and the pair that shares a key; a third only adds
another independent goroutine.  `MaxPlan` is the bound.  In `Tracking` two
workspaces make a cache in which one entry is cleared while another must stay,
and two rows of which a filter hides either; four actions give the selector a
longer list.  The five states of the files are empty, the template, the template
edited, another file in its place, and one more file.  Two events (`MaxEvents`)
are a change that is taken back, or a change and a failure; a property about a
later life needs no more, as the commands themselves are unbounded.
`MaxIssues = 2` lets one issue come twice or two compete.

### Fairness

The specification of `WorkspaceLifecycle` has none: its properties are about
safety.  In `AddRepoLock` a live process runs on (`WF` of its steps): a command is
straight-line code with loops over finite lists, and the operating system keeps
running it; starting commands and deaths are not fair.  In `CmuxMapping`
each goroutine and the command are fair: the Go scheduler runs them, and the
calls of cmux are processes that return.  In `AddRepoFetch` the command, each
goroutine and the printer are fair, because `git fetch` returns, with an error at
worst; the user need not answer, so `FetchEnds` leads to the next question.  In
`Tracking` the command is fair (`Work`, the selector's timer included) and the
user is not: `CommandsReturn` says that kra ends or waits for the user.

## Proofs

`WorkspaceLifecycleProofs` proves `TypeCorrect == Spec => []TypeOK` for any
sets of workspaces, repositories and processes, any failures, and any
interleaving.  `TypeOK` is inductive: besides the types it says that a directory
that is gone has no contents and that only worktrees hold work.

`WorkspaceSerialProofs` is about commands that do not overlap on a workspace, but
for add-repos, whose lock is not taken to be perfect.  The hypothesis is
`[]OnlyAddsOverlap`: of two commands on one workspace, both are add-repo.  It is
one about the user, since
the code protects nothing else (see *Bounds*); `SerialSuffices` shows that the
specification with `Serial` satisfies it, so that every result holds of commands
run one after the other.  Commands on different workspaces interleave freely.
With any failures, crashes and edits:

* `SerialCorrect`: the inductive invariant
  `SerialInv == TypeOK /\ Exclusive /\ ViewsFresh`;
* `ExclusiveCorrect`: a workspace is never in both places;
* `Refinement`: `Spec /\ []OnlyAddsOverlap => RefinesLifecycle`;
* `PurgeRecoverableCorrect`: a purge that commits deletes an archive only while
  the last commit holds it.

`Exclusive` is not inductive: a create or a reopen keeps it only because the
other directory was absent when it was looked at and still is.  `Fresh(p)`
records, for each label, what the process knows; `ViewsFresh` is only that part
of the induction, and no result by itself.  A step of `p` changes nothing of
another workspace (`OwnStep`), and the steps of an add-repo, whether or not
another one is at work too, leave places and guard alone; a step of each command
preserves the conjuncts for its own workspace (one lemma per command); and each
such step is a step of `Lifecycle` or leaves `StatusOf` and `GuardOf` alone
(`LifecycleStep`).
`PurgeRecoverable` needs `PurgeInv`: from its commit to its deletion the archive
is what was committed, since nobody else writes it.

Four results speak of workspaces without the scar in question, and again of any
failures, failing rollbacks, crashes and edits:

* `StatusCorrect`: `StatusInv` says that status and place agree at every call but
  the four of `Halfway`, and what the metadata in memory says; a death at such a
  call, or a failure with a failing rollback, is the scar `"status"`.
  `FailuresLeaveMetadataRightCorrect` follows;
* `TreesCorrect`: `TreesInv` says of a workspace at rest that its worktrees have
  complete entries and that git has on record no worktree of an entry that is not
  there; and of one at which a command is, what the local variables of the
  command add (`CloseTask`, `AddTask`, `RemoveTask`): which worktrees have been
  removed or made so far, and that the metadata in memory is still that on disk.
  As long as there is no scar `"trees"`, the add-repo at work is also the only one
  (`Alone`): this is what a working lock gives, and a second one let in is a scar
  from its first step.  `TreesHaveEntriesCorrect`, `BindingsKeptCorrect` and
  `ArchivedReopenableCorrect` follow.

The rollbacks are steps like others: each has to lead back to rest, or leave a
scar.

`AddRepoLockProofs` proves `RefusedOnlyByOthersCorrect` and
`DoctorSparesTheLivingCorrect` for any number of processes, from `LockAssumption`.
`LockInv` says whose file can be at the path (one about to stamp it, one that
holds it, or a dead one), that the file doctor is to remove is that of a dead
process, and that a process nobody has met is the only one alive and finds the
path free on its second attempt.

`RepoPoolProofs` proves `NamesUniqueCorrect == Spec => []NamesUnique` for any sets
of roots, names, workspaces, repositories and processes, from the assumptions
`RegistryAssumption` and `PoolAssumption`.  `NamesUnique` speaks of the file only
and is not inductive: a process writes what it has prepared in memory, however
old.  `NamesInv` adds that every prepared registry is free of conflicts too, and
that only commands with a name argument reach the calls that write a name
(`Fits`, which the `touch` of `init` passes on to its `set.load`).  The argument
is then that each of the four changes keeps one registry free of conflicts
(`TouchedUnique`, `SetNameUnique`, `RenamedUnique`, `RemovedUnique`), and a write
replaces one such registry by another; nothing about order is needed.

The same module proves `GcKeepsInUseCorrect`.  `GcInv` follows a use (an entry or
a worktree that has been there since the registry was loaded) through the reads
of gc: as long as gc scans, the entry has been found or is still to be found in a
place gc has not read (`ToBeFound`); afterwards its repository is known to be
named, and no repository in use, by an entry or a worktree, is among those chosen
for deletion (`Spared`).

`AddRepoFetchProofs` proves `SendsNeverBlockCorrect`, `NothingAfterCloseCorrect`,
`AppliedInSyncCorrect` and `LastShownCorrect` for any pool and any selection, from
`PoolAssumption` alone.  None of the four is inductive.  `FetchCorrect` proves the
invariant the first three follow from,
`FetchInv == Shape /\ QuietInv /\ CountInv /\ SyncInv`:

* `Shape`: the goroutines are a prefix of the plan;
* `QuietInv`: they run only before the close;
* `CountInv`: the channel holds at most one event for each repository past its
  announcement and one for each that has reported, hence at most 2n;
* `SyncInv`: a key in `prefetched` is that of a fetched repository of the plan;
  `--no-fetch` starts none; phase B has settled what it has passed; and two
  repositories of one key do not get past the preflight, which is why the key
  is enough in the end.

`LastShown` needs `ShowInv` besides: of a goroutine that has ended, either the
last event of its key in the channel is the one its row is to end with, or there
is none left and the row says so already.

`CmuxMappingProofs` proves `AccountedForCorrect`, `OneToOneCorrect` and
`EntriesKeptCorrect`, from `CmuxAssumption`.  `CmuxInv` relates the mapping in
memory to the file (equal until an operation changes it, and different only
where a cmux workspace is gone or an error was misread), says that goroutines
have different targets and
hold what their target's entry says, and that whatever an entry or a goroutine
names was made for its workspace.

`TrackingProofs` proves six results about the commands that list, select, act and
import, from the assumptions of `WorkState`, `JiraImport` and `Tracking`.
`TrackInv == WorkInv /\ ChosenInv /\ ImportInv`:

* `WorkInv`: a workspace that was neither touched nor troubled compares as todo
  with its baseline, or has none if it is not active; the cache holds nothing
  without a reason; a listing's view holds the cache and agrees with its rows
  (`InProgressJustifiedCorrect`, `InProgressKeptCorrect`);
* `ChosenInv`: the cursor is below the number of visible rows, the marks are the
  selected rows, and what is done and still to do is what was marked
  (`CursorUsableCorrect`, `MarkedAreActedOnCorrect`; `ActsEndWithAll` is the step
  that ends a command: nothing is left to do);
* `ImportInv`: for each key, as many items say create as there are creations to
  come, and one more if it has been created, so that the counts add up
  (`ImportAccountedCorrect`).

`FSComparisonExactCorrect` is a fact about finite functions: comparing the number
of files and the files of the baseline is comparing the two.

`FilteredProofs` has what those arguments need of filtered lists: ranks are a
bijection between the positions that are left and 0..n-1 (`RankBijection`), so
that there is exactly one n-th of them (`NthProperties`), and the elements left are
the ones at those positions (`RemainingProperties`).  `Filtered` defines them by
counting, because the library's `SelectSeq` is recursive and the provers cannot
unfold it.

TLC checked every inductive invariant on instances like those of the runs before
it was proved.

Assumptions on constants are the named `ASSUME`s; they say that constants are of
their types, that model values such as "none" are no process, key or root, that
`Names` lists each workspace once, and that the set of paths is finite.

Only model-checked: liveness (`AcquireEnds`, `CommandEnds`,
`FetchEnds`, `CommandsReturn`), which needs ENABLED and fairness; and
`TreesHaveEntries` for a reopen and a purge that overlap (`concurrent`), which the
hypothesis of the theorem leaves out.

## Where documents and code part

Besides the four findings, which a run shows:

* `ws --select --multi --no-commit` still commits: the flag is not handed to the
  commands, whose default is to commit (`ws_launcher.go:528-551`,
  `docs/spec/commands/ws/select.md:38`);
* a workspace of a multiple selection that fails does not stop the others, and no
  option changes that, where `select-multi.md:26` describes fail-fast as the
  default (`ws_launcher.go:514`); `MarkedAreActedOn` states what the code does;
* a `git fetch` that fails after the remote has answered has touched
  `FETCH_HEAD`, so that phase B finds it within the TTL and neither repeats it nor
  aborts (`ws_add_repo.go:1269`, `add-repo.md:142`): the exception `taken` of
  `AppliedInSync`;
* `ws close` drops the mapping entry of a living cmux workspace when cmux cannot be
  run, because "executable file not found in $PATH" reads like "not found"
  (`ws_close.go:583`, `close.md:80`): the exception `lost` of `EntriesKept`,
  `AccountedFor` and `OneToOne`;
* close records the branch `HEAD` for a worktree with a detached HEAD, and reopen
  then fails (`ws_close.go:648`): the exception `"headless"` of
  `ArchivedReopenable`;
* `context rm` checks the current context and removes the entry in a second load
  of the registry: a `context use` in between leaves the current root out of it
  (`context.go:704`);
* the lookup of the remote branch has no influence on the decision to fetch
  (`ws_add_repo.go:1257`, `add-repo.md:90-92`);
* two listings, or a listing and a reopen, that overlap can undo each other's
  change of the work-state cache (`ws_list.go:171`, `list.md:87-96`);
* `ws import jira` writes no baseline, so that its workspaces are judged by the
  risk of their worktrees (`ws_import_jira.go:272`, `list.md:92-94`);
* an issue key that is no workspace id is a failure of the plan, where
  `import/jira.md` speaks of a skip (`ws_import_jira.go:499`);
* the selector's viewport counts candidates and not the headings between them,
  so that in a low terminal the frame is taller than the screen
  (`ws_selector.go:516`);
* `doctor --fix` removes by path: a lock that was taken since it looked goes too
  (`doctor.go:312`).

## Not modelled, and the plan

In the order of importance:

1. a theorem: `TreesHaveEntries` for a reopen and a purge that overlap;
2. the names of branches, and the branches add-repo makes and deletes;
3. overlapping commands on the cmux mapping and its one temporary file, and on
   the work-state cache: the code has no protection there.

Left out because they keep no state that outlives a call: templates (a
validated copy of files), the dashboard, the command line, shell integration and
completion, the debug log, JSON envelopes, terminal rendering.  `ws insight`
writes one new file and touches nothing else.  The Jira and cmux clients are
network and process I/O and appear as external answers.  The state store is
retired: its types are still used, its operations do nothing.
