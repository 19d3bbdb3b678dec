# SourceRegistry in TLA+

TLA+ models of SourceRegistry (`src/src/source_registry`), the configurations
with which TLC checks them, and proofs checked by TLAPS.

SourceRegistry keeps forks of upstream repositories pinned: a registry yaml
names each source, its fork, its local clone and the commit it is pinned to
(`expected_sha`); patch yamls record the fixes the fork carries; the lifecycle
operations move clone, fork, pin and installed package along with upstream.
Nothing in it locks anything, everything it does is a sequence of git, gh,
file and callback calls, and people work in the same clone, edit the same
yamls and push to the same fork.

## 1. Inventory

| Component | State | Operations | Talks to |
|---|---|---|---|
| git primitives (`git/git_ops.py`) | the clone on disk: HEAD, branches, tracking refs, working tree | fetch, rebase, reset --hard, checkout, push --force-with-lease, status, rev-parse | git, the servers; 60 s timeout nobody catches |
| lifecycle (`lifecycle.py`) | none; changes the clone, the fork and, through callbacks, the pin and the package | bump, rebase, sync, auto-sync, auto-sync of all | git primitives; callbacks `has_local_patches`, `on_pin_update`, `install_runner` |
| facade (`service.py`) | the entries read when it was built | the above, for an entry by name | lifecycle, verify, loader |
| source entry (`contracts/source_entry.py`) | `expected_sha`, `auto_sync`, `auto_pr_push`, install commands | render the install command | read by all |
| patch records (`patches.py`, `contracts/patch_record.py`) | one yaml per patch | load all, drop one | files |
| push (`push.py`) | none; changes fork branches, upstream's pull requests, the yaml | push one patch | git, gh, files |
| poll (`poll.py`) | none, reads only | snapshot of upstream, findings | gh, files |
| verify (`verify.py`) | none, reads only | compare HEAD or the installed package with the pin | git, uv's metadata |
| registry loader and resolver (`registry/`) | index by name | load, resolve | yaml |
| CLI (`cli.py`) | none | one command per operation, without callbacks | all |
| io helpers (`io/`) | none | read yaml, write json | files |

What is hard:

* **Order and atomicity.** Auto-sync is fetch, compare, ask for patches,
  checkout, reset, push, bump, install. Upstream, other people, the operator
  and other runs move between any two of them. `_record_push` is
  exists, read, truncate, write.
* **Stale values.** The comparison with upstream uses the pin a facade read at
  start-up; bump reads HEAD again after the push; push decides on a record it
  read two network calls before it writes it.
* **Failure in the middle.** A timeout or crash between reset, push, pin and
  install, or between opening a pull request and recording it; a lost answer of
  a call that had its effect; a rebase that stops half way.
* **Progress.** Every refusal and early return must leave a way to catch up
  with upstream later.
* **Several sources.** A pass over the registry is a list comprehension: what one
  source raises ends it for all. Verify compares with pins a facade may hold
  since before they moved, in clones a sync is moving.

What makes each component correct: a recorded fix is never lost from the fork's
branch; a push never overwrites what the clone has not seen; after a sync, pin,
branch, fork and package agree; neither branch nor pin goes back and catches up with
upstream; a patch gets at most one pull request and people's edits of its yaml
survive; poll suggests a drop exactly for merged fixes and a rebase exactly for
patches whose files upstream changed; verify ends up saying of every source what
is so; a source does not wait for those after it in the yaml.

## 2. Modules

| Module | What it is |
|---|---|
| `GitClone` | one source's clone, fork and upstream; one action per git command of `git_ops.py`, and what people do with git |
| `Lifecycle` | extends `GitClone`: the steps of bump, rebase, sync and auto-sync, run by several processes; the pin yaml, the patch records, the installed package |
| `PinnedFork` | abstract specification of auto-sync: fork follows upstream, pin follows fork |
| `MCLifecycle` | instances of `Lifecycle` for TLC |
| `GitCloneProofs`, `LifecycleProofs`, `PinProofs` | theorems about `GitClone` and `Lifecycle`: types and fixes; what is pinned, and the refinement of `PinnedFork` |
| `PatchPush` | the patch yamls, the push and drop commands, pull requests, authors and reviewers |
| `PatchPushProofs` | theorems about `PatchPush` and their proofs |
| `Poll` | extends `PatchPush`: the poll and its findings, upstream's commits, `base_commit` |
| `PollProofs` | theorems about `Poll` |
| `MCPoll` | instances of `Poll` for TLC; with `Pollers = {}` it is `PatchPush` |
| `Fleet` | auto-sync and verify over all sources of a registry, by several programs |
| `FleetProofs` | theorems about `Fleet` |
| `MCFleet` | instances of `Fleet` for TLC |
| `NaturalSets` | the least element of a set of numbers, for the proofs |

`Lifecycle` instantiates `PinnedFork` with the revisions its fork and pin stand
on, `Fleet` once for each source.

### GitClone

A commit is `[base, fixes]`: the upstream revision it stands on and the fixes
carried on top. `mergedAt` says which revision of upstream merged a fix, so the
content of a commit is its own fixes and those merged up to its base; `Replay`
is a rebase, which skips what upstream has. Tracking refs (`upRef`, `orRef`)
are what the clone last saw. `foreign` holds fixes other people pushed that the
clone has not fetched. git itself is external code: each command is one atomic
step that does what the callers rely on. `--force-with-lease` succeeds when the
server's branch is where the tracking ref says (or already where it should
go). A conflict leaves HEAD detached on any part of the replayed fixes with a
dirty tree (`rebasing = "conflict"`); `git reset --hard` keeps untracked files,
and with HEAD detached by a rebase it moves HEAD only. A `git checkout` out of a
rebase leaves `.git/rebase-merge` behind ("stale"): no other rebase starts until
somebody removes it. `_git` kills a command after 60 s. A killed rebase
(`RebaseKilled`) has HEAD on any part of the fixes, between two picks with a clean
tree ("half"), or is done but for its clean-up, or not begun ("stale"); a
killed checkout or reset leaves the files half written (`TreeHalfWritten`).

### Lifecycle

`run[p].pc` is the next call of process `p`; its other fields are the
function's locals: the entry in hand, `upstream_changed`, the new pin,
`actions_taken`, the result. `Consumers` are programs that use the facade and
pass the callbacks: `records` answers `has_local_patches`, `on_pin_update`
writes `yaml`, `install_runner` sets `installed`. `Clis` are runs of the
command line, which pass none; they load the yaml at each start, a consumer
only when it builds a new facade (`Load`).

| Code | Actions |
|---|---|
| `rebase_source` 140-173 | `RebaseClean`, `RebaseFetch`, `Rebase` |
| `sync_source` 191-201 | the same, then `BumpClean`, `BumpHead`, `BumpPin`, `Install` |
| `auto_sync_source` 235-327 | `Start` (the refusal), `AutoFetch`, `Resolve`, `Decide`, `Checkout`, `Reset`, `Push`, the bump, `Install` |
| `bump_source` 96-122 | `BumpClean`, `BumpHead`, `BumpPin` |

`Fault` marks a command that fails for reasons outside the model (no clone, no
network, no disk); `Crash` is the death of a process between two commands, or
in one that had no effect yet; `KilledInGit` is the timeout, whose
`TimeoutExpired` nobody catches, or the death of the process, within a command
that did all of its work or some of it (`LeftByGit`). `MaxFaults` bounds their
number. Results: "error" is a raised
`LifecycleError`, "failed" a result that says so, "blocked", "no_op" and
"synced" are `final_state`.

SHAs are abstracted to the commit and the number of digits kept, which is what
`startswith(upstream_head[:7])` tells apart; distinct commits are taken to
differ in their first 7 digits.

Two constants name disciplines nothing in the code enforces: `RunsSerial` (one
operation at a time) and `OperatorWaits` (clone and patch yamls are left alone
while one runs). Every run says which it assumes.

### PatchPush and Poll

A yaml is absent, empty (truncated, not yet written), broken (a mapping that
is no record) or whole; a whole one has `push_enabled`, `upstream_pr_url` and
`pushed_pr_url`, as numbers of pull requests, 0 for none. `job[j]` is a push or
drop with its locals. `load_patches` reads the files listed at its start one
by one, so it can meet one that vanished or is empty. gh refuses a second open
pull request of one branch; that is all the model asks of it. `authored` and
`gone` are history variables, `due` in a poll too.

`PushesSerial` is the discipline of one push at a time. `RecordsAlone` says that
nobody edits, drops or records a yaml from `_record_push`'s `exists` to its
write. No lock provides it; those three file accesses follow each other without
any other call in between, whereas the two network calls before them, which the
model leaves open, take seconds. Without it `EditsKept` and `DroppedStaysGone`
are false.

A poll reads the yamls, then asks for each patch's cited and pushed pull
requests, then for upstream's head and, when that is not `base_commit`, for the
files changed between the two; any answer may be missing. A commit of upstream
is the set of patches with a touched file it changes. `Client = "gh"` is the
default client, which never learns upstream's head (section 6); "other" is one
a program plugs in. The age of an open pull request of ours, in whole days gone by,
is chosen when it is asked for. The poll subtracts dates (`CalendarDays`): one
more day than that may have begun in UTC, by the hour of the last activity, and
the local date is up to a day off.

| Code | Actions |
|---|---|
| `load_patches`, by `poll_all` 324-329 | `StartPoll`, `PollRead`, `PollLoaded` |
| `poll_source` 200-222 | `AskCited`, `AskPushed`, `AskHead`, `AskFiles` |
| `reconcile` 246-310 | `Reconcile`, with `Drops`, `Rebases`, `Pushes`, `Stale`, `Abandoned` |

### Fleet

The sources are numbered in the order of the yaml. `pass[p]` is what program
`p` is at: the entry in hand is the first of `todo`, `entries` are the pins its
facade read (`Load` builds a new one), `ok` and `bad` are verify's results so
far. An exception leaves the comprehension (`Raise`): the list is lost and the
rest of `todo` not looked at. `clone[s]` keeps of a clone whether it is there,
HEAD, the fetched `upstream/<branch>`, `origin/<branch>` as last seen (`seen`, the
lease of `Push`) and whether files nobody committed lie in it; `built[s]` is the installed tool, with what its `direct_url.json` says:
the commit ("vcs") or the directory ("dir").

| Code | Actions |
|---|---|
| `auto_sync_source` 235-276 | `Compare` |
| 286-303, 305-313, 315, 318-327 | `Reset`, `Push`, `Bump`, `Install` |
| `verify_source`, `_read_direct_url` | `Look` |
| `is_git_repo`, `get_head_sha` (`verify.py` 74, 85, 174, 176) | `Repo`, `ReadHead` |
| `auto_sync_all`, `verify_all` | `Start`, `Through`, `Verdict`, `Raise`, `Finish` |

It is coarser than `Lifecycle`, which has one source, fixes, topic branches,
rebases and files half written by a killed git; here a step takes a change with the
checks right before it, a command that fails may have done its work before, and
the fork has no one else pushing. A push whose answer is lost leaves `seen` at the
old value, and once upstream has moved again the lease refuses every push until
somebody runs `git fetch origin` (`FetchOrigin`, or `Mess`, a clone made anew). What auto-sync answers (synced, no_op
or blocked) is not kept, as nobody in `src/` decides by it.

## 3. Runs

| Run | Instance | Question | 
|---|---|---|
| `keep_fixes` | 2 fixes, 2 revisions, 1 consumer, bump --to, rebase, auto-sync, conflicts, topic branch, 1 fault; both disciplines | is a recorded fix ever lost from the branch? (`FixesKept`) |
| `sync_pins` | 1 fix, 3 revisions, bump, sync, auto-sync in dev and ci mode, dirty tree, 1 fault; both disciplines | do pin, HEAD, branch and fork, in dev mode the package too, agree after "synced"; is what is pinned ever less than a branch; does the branch or the pin go back? |
| `foreign` | consumer and CLI overlapping, operator not waiting, foreign pushes, 1 fault; no discipline | type correctness; does a push overwrite unseen work? |
| `tracks` | consumer and CLI overlapping, 3 revisions, short pins, 1 fault | does the pin reach upstream's newest revision and stay? (liveness) |
| `refines` | auto-sync and dry runs of consumer and CLI, 3 revisions, 1 fault | does auto-sync implement `PinnedFork`, safety and liveness? |
| `push` | 1 patch, 2 commands, 2 pull requests, 1 fault | do people's edits survive, does a dropped yaml stay gone, is there ever a second pull request of ours? |
| `poll` | 1 patch, 1 command, 1 poll, 1 pull request, 2 revisions of upstream | are drops and rebases right and complete, does a poll contradict itself? |
| `all_track` | an external source and a tool, 3 revisions each, one program syncing, stray files and removal of the first clone, patches of the second source, 2 faults | does a source track its upstream whatever the later ones do and whatever becomes of the earlier ones' pushes? (liveness) |
| `fleet` | an external source and a tool, 2 revisions each, one program syncing and one verifying, stray files and removal of the first clone, patches of the second source, 1 fault | does verify end up saying what is so (liveness); does each source keep `PinnedFork`'s safety? |

Three more runs refute what the documentation says; section 6 lists them.

Why the bounds are enough for the questions: two fixes are needed for a rebase
to stop with a part of the fixes replayed; three revisions let upstream move
both between fetch and reset and after the push, so a stale ref, a stale pin and
the newest revision are three different things; two processes are needed for
overlap, and each can run any number of operations; one fault at any step
covers each single crash, failure or lost answer and everything that follows
it. Two pull requests are needed in `push` for a second one, or for a third
party's beside ours; in `poll` the one there is may be ours or another's, cited,
pushed or both, which is all a single poll's findings depend on. Two revisions
put `base_commit` before, at and after the head asked for. In `all_track` and `fleet` two
sources give one before and one after the other in every property; the messy
clone is the first's, because only what comes before can stop a source, and the
patched source is the second, because a patch matters only to its own;
`all_track` has three revisions, the least for a lease that is refused for ever, and
two faults, one for each source. One patch is enough for `push` and `poll`, because patches meet
only in the loading of the files, where another patch's bad file has the same
effect as one's own (two patches with two processes are beyond five minutes).

**Fairness** (`Lifecycle!Fairness`). Weak fairness on each process's steps: the
operating system runs it. Strong fairness on a consumer's `Load` and start of
auto-sync: a scheduler that comes round for ever (`poll_cadence_hours` is its
period), strong because other operations disable it in between. Strong
fairness on `git fetch origin` by the operator: after a push whose answer was
lost, and once upstream has moved, the lease refuses every push, and no code
of the project ever fetches origin; without the operator that is for ever.
Nothing is assumed of upstream, of other people, of faults or of the CLI.
`Fleet!Fairness` is the same for the programs of `all_track` and `fleet`, except that no
`git fetch origin` is assumed: their steps go on
(weak), and they come round to building a facade and to their operation over
all sources again and again (strong: a facade can be built only when the pins
moved, a pass started only when none is running). Instead `EarlierSourcesTrack`
speaks of sources whose clone is, again and again, up to date about its fork;
without that TLC finds the source whose pushes are refused for ever.
`CHECK_DEADLOCK` is left on in all runs.

## 4. Proofs

Every safety property a passing run checks is also a theorem, for all values of
the constants its assumptions allow. TLC checked every inductive invariant
below on small instances before it was proved.

| Theorem | States | Assumes |
|---|---|---|
| `TypeCorrect` | `TypeOK` | nothing |
| `ForeignWorkSafe` | `ForeignWorkKept` | nothing |
| `NoFixLost` | `FixesKept` | `OperatorWaits`, no CLI |
| `NoPartialPin` | `PinsWholeBranch` | `RunsSerial`, `OperatorWaits` |
| `SyncedSafe` | `SyncedIsConsistent` | `RunsSerial`, `OperatorWaits`, no fetch of what others push |
| `PinSafe` | `PinNeverRegresses` | `RunsSerial`, nobody pins a topic branch or names the commit to pin |
| `AutoSyncKeepsPromise` | `Lifecycle` implements `PinnedFork!Spec` | `RunsSerial`, only auto-sync, no switch of branches under it |
| `EditsSafe`, `DropsSafe` | `EditsKept`, `DroppedStaysGone` | `RecordsAlone` |
| `OnePrSafe` | `NoSecondPr` | `PushesSerial` |
| `PollTypeCorrect` | `PollTypeOK` | nothing |
| `DropsSound`, `RebasesSafe`, `NoContradictionSafe` | what poll says, section 3 | nothing |
| `FleetTypeCorrect` | `FleetTypeOK` | nothing |
| `EachSourceKeepsPromise` | `EachPinFollowsItsFork` | one program that syncs |

No assumption is there for the prover's sake: without any one of them TLC finds
the property violated, by behaviours the paragraphs below name. None of the disciplines is
enforced by the code; the scheduler of a consumer and the operator provide them.
`AutoSyncKeepsPromise` also takes the first pin to be of the revision the fork
starts on.

**Lifecycle.** `GitCloneProofs` has the lemmas about git commands: each keeps the
types, and each keeps `foreign` within the fork.

* `ForeignWorkSafe` strengthens the invariant: what the clone holds (tracking
  ref, branches, HEAD) has no fix of `foreign`, and while the tracking ref is
  where the server's branch is, `foreign` is empty; so a push whose lease holds
  takes nothing away, under any overlap of operations, operators and faults.
* `NoFixLost`: a reset is safe only as no patch was recorded when the run asked
  and every dropped one had been merged in a revision the run fetched. `KeepInv`
  adds just that: a dropped fix is merged; a run past its fetch has a tracking ref
  that holds the merge of every dropped fix; a run at checkout or reset has no
  record on disk. Runs may overlap, as a fetch only takes the tracking ref
  forward and no run touches the records. An operator who records a fix between
  the question and the reset breaks it, as does the CLI, which never asks.

`PinProofs` reasons from `Move`, what a step of a run does by where it comes from
and where it goes, and from `CalmInv`: one run at a time; a conflict shows in the
working tree; auto-sync past its checkout, and sync past its rebase, have HEAD on
a branch, and no operation past its look at a clean clone has a conflict.

* `NoPartialPin`: with it, what is about to be pinned is what HEAD names
  (`HoldsHead`), and HEAD is on a branch but where a bump of its own met what a
  killed rebase left; an operator who commits or switches branches between the
  two reads breaks it.
* `SyncedSafe`: branch, fork, pin and package fall into line one after the other
  (`AutoInv`): from the push on the tracking ref is the branch's commit, and so is
  the server's branch if nobody else pushes. In ci and prod the installer builds
  the pin of the entry it was handed, the old one, so of the package something
  is said for dev only. Were others' work fetched after the push, the tracking ref
  would no longer be what this clone pushed.
* `PinSafe`: the branch itself goes forward with every git command (`BranchForward`, which
  needs no discipline). `OrderInv` has a pin in hand at the branch's revision or a newer one,
  so writing it takes forward a pin that is on the branch's history (`Forward`). From
  the reading of HEAD to the write the branch stays on its revision, whatever the
  operator does meanwhile (`OutsideKeepsBase`). A bump in a killed rebase pins ahead of the branch, which a
  `git rebase --abort` leaves so; from there a later bump may go back, and the
  property is silent. The operator need not wait; two overlapping runs break it,
  as the one that read its HEAD first may write last.
* `AutoSyncKeepsPromise`: `PromiseInv` has the fork at most at the branch's
  revision, equal to it from the push to the pin, where the pin in hand is the
  fork's. Then each step is one of `Advance`, `Publish`, `PinFork` or a stutter of
  `PinnedFork`. A bump on its own can pin a reset whose push failed, and a second
  run can reset the clone between a push and its bump; both break it.

**PatchPush.** For `EditsSafe` and `DropsSafe`, what a push writes is what it read
two steps before. `PushInv` adds that a running command has a patch, that at most
one push is rewriting a yaml, that its file is present meanwhile (empty once
truncated), and that the record in its hand has the fields people last wrote.
Overlapping pushes and drops, crashes and lost answers are all allowed.
`OnePrSafe` needs neither of those two: `OnePrInv` says that with one push at a
time, and until a call fails, a patch with a pull request of ours has a yaml
that records it, or no yaml, or a push under way that holds its number; a push
that decided on a record read earlier decided on what is still so.

**Poll.** Nothing is assumed: polls run beside each other, pushes, drops, people's
edits and upstream. `PollInv` follows a poll through its questions (`PollOK`): they
are asked in order; an answer "merged" stays true, and a later answer about the
same pull request does not belie it; each merged citation is still to be asked
about, was answered merged, or its answer is missing; what had changed upstream
when the poll began is in the files asked for, as revisions only add changes and
`base` is read once; a finding is made exactly by the snapshot. `FilesCite`, that
a yaml cites only pull requests of its own patch, holds of the disk and of what
a push has read to write again, so the invariant spans both modules.
`PollsOnlyLook` says that a step of `Poll` is one of `PatchPush` or changes
nothing of it: what is proved of `PatchPush` holds beside polls.

**Fleet.** `FleetInv` is the types, that a pass under way has an entry in hand, and
for each source fork at most HEAD at most tracking ref at most upstream.
`EachSourceKeepsPromise` adds `PushedHead`: a pass at its bump finds HEAD where
the fork is. A second syncing program can reset between push and bump, as in
`Lifecycle`; verify and people in the clones cannot.

**Only model-checked**: the liveness properties `TracksUpstream`,
`EarlierSourcesTrack`, `VerifyNoticesDrift`, `VerifyClears`, and the fairness of
`PinnedFork!FairSpec` in `PinFollowsFork` (its safety is `AutoSyncKeepsPromise`).
They need fairness and ENABLED, which TLAPS does not handle.

## 5. What is not modelled

* The loader's validation and the resolver's duplicate and missing names: they
  end the program before anything changes.
* The at-risk report of bump and the per-patch report of rebase: they read
  the tree and change nothing.
* The `index.lock` a killed git may leave, which makes every later command fail until
  somebody removes it. Of a rebase left behind with HEAD on a branch again
  ("stale") the operator is taken to remove the rest (`git rebase --quit`), not
  to abort it, which would throw the branch back.
* Where uv keeps a tool's metadata, and the tool's name: a lookup of files.
* `latest_release`, which no finding depends on; the repository and the form of
  the URLs of pull requests.
* `metadata`, `poll_cadence_hours` and the other descriptive fields of an entry.
* Output, exit codes, formatting, the io helpers.

Observed, and shown by no run: the auto-sync command passes no `has_local_patches`
(`cli.py` 189, 195), so `lifecycle.py` 269 takes it as False and a source with patch
yamls is reset and pushed, which `lifecycle.py` 225 rules out (`FixesKept` is about
consumers that do pass it); the day of a review's last activity is UTC's, today
is local, and their difference is compared with 30 (`poll.py` 299-300), so
STALE_REVIEW may come some 29 days and 10 hours after it, where `poll.py` 13 says
">30d"; a conflicting rebase is returned as failed and
never aborted (`lifecycle.py` 159); where the timeout of `_git` kills a rebase between
two picks, HEAD is detached on part of the fixes with a clean tree, and a bump pins
it (101 asks no more than a clean tree; `PinsWholeBranch` excepts just that, sync and
auto-sync never do); after a push whose answer was lost and another revision of
upstream, auto-sync is blocked until somebody fetches origin; the merge of the pull request push opened is
not reported unless somebody cites it (`poll.py` 290); `push` lets a
`PatchError` through that the CLI does not catch; a failed reinstall is not
repeated, as the pin was already moved; a tool installed from a directory is
taken to be at that clone's present HEAD (`verify.py` 171-176), so in dev mode
verify cannot tell a failed reinstall, and `VerifyNoticesDrift` takes such a tool
to be what its clone is; verify raises when a clone vanishes or git times out
between its two readings of HEAD (`verify.py` 5 says it never does), which
`VerifyClears` has to except; the CLI's bump and auto-sync persist no pin (they
say so).

## 6. Where code and documentation disagree

| Run | The code | The text |
|---|---|---|
| `one_raises_all_end` | an untracked file in one clone makes its bump raise after reset and push, and auto-sync of all ends there, in every pass | `lifecycle.py` 339, 7 |
| `pushed_unrecorded` | a lost answer of gh leaves an unrecorded pull request | `patch_record.py` 15 |
| `rebase_never_suggested` | the default client takes a bare SHA for JSON and never knows upstream's head, so no poll ever suggests a rebase | `poll.py` 11 |

## 7. Plan

Done: the lifecycle of one source, its abstract specification and the proof that
it implements its safety; patch yamls, push and drop; the whole of poll;
auto-sync and verify over a registry; every checked safety property as a theorem.

Next:

1. What is true of `EachPinFollowsItsFork` and `PinNeverRegresses` without the
   disciplines: which part of each survives overlapping runs.
2. A theorem from `Fleet` to a single source's `Lifecycle`, whose steps it takes
   together.
3. The pull request that outlives a lost answer: what push and poll still
   guarantee about it.
