------------------------------ MODULE GitClone ------------------------------
(***************************************************************************)
(* One managed source seen through the git commands of git/git_ops.py: the *)
(* clone at local_path, its two remotes `upstream` and `origin` (the       *)
(* fork), and the people who work in the clone or push to the fork.        *)
(*                                                                         *)
(* A commit is abstracted to what the registry's promises tell apart: the  *)
(* revision of upstream it is built on and the fixes (patches) carried on  *)
(* top.  Upstream's branch only grows; a fix may be merged into it.        *)
(* Git's own behaviour is external: it is modelled as the code relies on   *)
(* it, each command a single step, with what a git killed by the timeout   *)
(* of _git (git_ops.py 28-32) leaves behind as steps of their own.         *)
(***************************************************************************)
EXTENDS Integers

CONSTANTS Patch,     \* the fixes that may be carried on the fork
          MaxRev     \* bound: number of revisions upstream goes through

ASSUME MaxRevAssumption == MaxRev \in Nat \ {0}

VARIABLES
  rev,        \* upstream: its newest revision
  mergedAt,   \* upstream: the revision that merged each fix, 0 for none
  origin,     \* the fork on the server: the commit its branch points to
  foreign,    \* fixes others pushed to the fork, unseen by this clone
  on,         \* clone: the branch checked out ("branch" is entry.branch)
  tip,        \* clone: the commit of each local branch
  head,       \* clone: the commit HEAD names
  rebasing,   \* clone: what is left of a git rebase that did not finish
  upRef,      \* clone: the remote-tracking ref upstream/<branch>
  orRef,      \* clone: the remote-tracking ref origin/<branch>
  work        \* clone: uncommitted changes, of tracked or untracked files

upstream == <<rev, mergedAt>>
fork     == <<origin, foreign>>
clone    == <<on, tip, head, rebasing, upRef, orRef, work>>
gitVars  == <<upstream, fork, clone>>

Commit == [base : 1..MaxRev, fixes : SUBSET Patch]
Branch == {"branch", "topic"}
Work   == SUBSET {"tracked", "untracked"}

\* conflict: stopped for the operator, HEAD detached, the index unmerged;
\* half: HEAD detached half way and nothing to resolve; stale: HEAD is on a
\* branch, but .git/rebase-merge is still there and forbids another rebase.
Rebasing == {"none", "conflict", "half", "stale"}
Detached == rebasing \in {"conflict", "half"}

GitTypeOK ==
  /\ rev \in 1..MaxRev
  /\ mergedAt \in [Patch -> 0..MaxRev]
  /\ origin \in Commit
  /\ foreign \in SUBSET Patch
  /\ on \in Branch
  /\ tip \in [Branch -> Commit]
  /\ head \in Commit
  /\ rebasing \in Rebasing
  /\ upRef \in Commit
  /\ orRef \in Commit
  /\ work \in Work

Up(u)        == [base |-> u, fixes |-> {}]
MergedBy(u)  == {p \in Patch : mergedAt[p] \in 1..u}
Content(c)   == c.fixes \cup MergedBy(c.base)
\* Rebasing skips the commits whose change upstream already has.
Replay(c, u) == [base |-> u, fixes |-> c.fixes \ MergedBy(u)]

Clean      == work = {}

\* A fresh clone of the fork, the fork level with upstream.
GitInit ==
  /\ rev = 1
  /\ mergedAt = [p \in Patch |-> 0]
  /\ origin = Up(1) /\ foreign = {}
  /\ on = "branch"
  /\ tip = [b \in Branch |-> Up(1)]
  /\ head = Up(1) /\ rebasing = "none"
  /\ upRef = Up(1) /\ orRef = Up(1)
  /\ work = {}

-----------------------------------------------------------------------------
(* The commands of git_ops.py *)

\* git fetch upstream: nothing but the tracking ref moves.
FetchUpstream ==
  /\ upRef' = Up(rev)
  /\ UNCHANGED <<upstream, fork, on, tip, head, rebasing, orRef, work>>

\* git checkout <branch>.  Local changes are carried along; a half-way rebase
\* is left, not ended.  Git refuses while the index is unmerged.
CheckoutBranch ==
  /\ rebasing # "conflict"
  /\ on' = "branch"
  /\ head' = tip["branch"]
  /\ rebasing' = IF rebasing = "none" THEN "none" ELSE "stale"
  /\ UNCHANGED <<upstream, fork, tip, upRef, orRef, work>>

\* ... and it refuses when a local change would be overwritten.
CheckoutRefused ==
  /\ rebasing = "conflict" \/ ((on # "branch" \/ Detached) /\ ~Clean)
  /\ UNCHANGED gitVars

\* Slip: reset to origin/<branch>.
ResetHardToOrigin ==
  /\ head' = orRef
  /\ tip' = IF Detached THEN tip ELSE [tip EXCEPT ![on] = orRef]
  /\ rebasing' = IF Detached THEN "half" ELSE rebasing
  /\ work' = work \ {"tracked"}
  /\ UNCHANGED <<upstream, fork, on, upRef, orRef>>

\* git reset --hard upstream/<branch>: the checked-out branch moves, changes
\* of tracked files are discarded, untracked files stay.
ResetHard ==
  /\ head' = upRef
  /\ tip' = IF Detached THEN tip ELSE [tip EXCEPT ![on] = upRef]
  /\ rebasing' = IF Detached THEN "half" ELSE rebasing
  /\ work' = work \ {"tracked"}
  /\ UNCHANGED <<upstream, fork, on, upRef, orRef>>

\* A checkout or reset killed in the middle: HEAD and the branches are where
\* they were, files are not.
TreeHalfWritten ==
  /\ work' = work \cup {"tracked"}
  /\ UNCHANGED <<upstream, fork, on, tip, head, rebasing, upRef, orRef>>

CanRebase == rebasing = "none" /\ "tracked" \notin work

\* git rebase upstream/<branch> rebases whatever branch is checked out.
RebaseOk ==
  /\ CanRebase
  /\ head' = Replay(head, upRef.base)
  /\ tip' = [tip EXCEPT ![on] = Replay(head, upRef.base)]
  /\ UNCHANGED <<upstream, fork, on, rebasing, upRef, orRef, work>>

\* A fix does not apply: git stops with the commits replayed so far on a
\* detached HEAD and the conflict in the working tree.
RebaseConflict ==
  /\ CanRebase
  /\ head.base # upRef.base
  /\ \E done \in (SUBSET head.fixes) \ {head.fixes} :
       head' = Replay([head EXCEPT !.fixes = done], upRef.base)
  /\ rebasing' = "conflict"
  /\ work' = work \cup {"tracked"}
  /\ UNCHANGED <<upstream, fork, on, tip, upRef, orRef>>

\* The rebase is killed: with HEAD detached on the commits replayed so far,
\* between two picks or in one; or with nothing left to do but to remove
\* .git/rebase-merge, or with HEAD not detached yet.
KilledHalfWay ==
  /\ \E done \in SUBSET head.fixes :
       head' = Replay([head EXCEPT !.fixes = done], upRef.base)
  /\ rebasing' = "half"
  /\ work' \in {work, work \cup {"tracked"}}
  /\ UNCHANGED tip

KilledAtTheEnds ==
  /\ rebasing' = "stale"
  /\ \/ UNCHANGED <<tip, head>>
     \/ /\ head' = Replay(head, upRef.base)
        /\ tip' = [tip EXCEPT ![on] = Replay(head, upRef.base)]
  /\ UNCHANGED work

RebaseKilled ==
  /\ CanRebase
  /\ head.base # upRef.base
  /\ KilledHalfWay \/ KilledAtTheEnds
  /\ UNCHANGED <<upstream, fork, on, upRef, orRef>>

RebaseRefused ==
  /\ ~CanRebase
  /\ UNCHANGED gitVars

\* Slip: plain --force.
NoLease == TRUE

\* git push --force-with-lease origin <branch>: the lease is that origin is
\* where this clone last saw it.  Nothing is sent when it is already there.
LeaseHolds == origin \in {orRef, tip["branch"]}

ForcePushWithLease ==
  /\ LeaseHolds
  /\ origin' = tip["branch"]
  /\ foreign' = foreign \ tip["branch"].fixes
  /\ orRef' = tip["branch"]
  /\ UNCHANGED <<upstream, on, tip, head, rebasing, upRef, work>>

PushRejected ==
  /\ ~LeaseHolds
  /\ UNCHANGED gitVars

\* The server took the push and the answer was lost (the 60 s timeout of
\* _git): the tracking ref is not updated.
PushAnswerLost ==
  /\ LeaseHolds
  /\ origin' = tip["branch"]
  /\ foreign' = foreign \ tip["branch"].fixes
  /\ UNCHANGED <<upstream, on, tip, head, rebasing, upRef, orRef, work>>

-----------------------------------------------------------------------------
(* Upstream, and other people's pushes to the fork *)

UpstreamAdvance ==
  /\ rev < MaxRev
  /\ rev' = rev + 1
  /\ \E M \in SUBSET {p \in Patch : mergedAt[p] = 0} :
       mergedAt' = [p \in Patch |-> IF p \in M THEN rev + 1 ELSE mergedAt[p]]
  /\ UNCHANGED <<fork, clone>>

ForeignPush(p) ==
  /\ p \notin Content(origin) \cup orRef.fixes \cup head.fixes
  /\ \A b \in Branch : p \notin tip[b].fixes
  /\ origin' = [origin EXCEPT !.fixes = @ \cup {p}]
  /\ foreign' = foreign \cup {p}
  /\ UNCHANGED <<upstream, clone>>

-----------------------------------------------------------------------------
(* The operator, working in the clone by hand *)

CommitFix(p) ==
  /\ ~Detached
  /\ p \notin Content(head) \cup foreign \cup origin.fixes
  /\ LET c == [head EXCEPT !.fixes = @ \cup {p}]
     IN head' = c /\ tip' = [tip EXCEPT ![on] = c]
  /\ UNCHANGED <<upstream, fork, on, rebasing, upRef, orRef, work>>

LeaveWork(w) ==
  /\ ~Detached
  /\ w \notin work
  /\ work' = work \cup {w}
  /\ UNCHANGED <<upstream, fork, on, tip, head, rebasing, upRef, orRef>>

TidyUp ==
  /\ ~Detached /\ work # {}
  /\ work' = {}
  /\ UNCHANGED <<upstream, fork, on, tip, head, rebasing, upRef, orRef>>

\* git checkout of the other branch; a new topic starts from entry.branch.
SwitchToTopic ==
  /\ ~Detached /\ on = "branch" /\ Clean
  /\ on' = "topic"
  /\ \E c \in {tip["branch"], tip["topic"]} :
       head' = c /\ tip' = [tip EXCEPT !["topic"] = c]
  /\ UNCHANGED <<upstream, fork, rebasing, upRef, orRef, work>>

SwitchBack ==
  /\ ~Detached /\ on = "topic"
  /\ on' = "branch" /\ head' = tip["branch"]
  /\ UNCHANGED <<upstream, fork, tip, rebasing, upRef, orRef, work>>

\* git rebase --continue once the conflict is resolved.
FinishRebase ==
  /\ rebasing = "conflict"
  /\ head' = Replay(tip[on], head.base)
  /\ tip' = [tip EXCEPT ![on] = Replay(tip[on], head.base)]
  /\ rebasing' = "none"
  /\ work' = work \ {"tracked"}
  /\ UNCHANGED <<upstream, fork, on, upRef, orRef>>

\* git rebase --abort.
AbortRebase ==
  /\ Detached
  /\ head' = tip[on]
  /\ rebasing' = "none"
  /\ work' = work \ {"tracked"}
  /\ UNCHANGED <<upstream, fork, on, tip, upRef, orRef>>

\* git rebase --quit: HEAD is on a branch already and stays there.
QuitRebase ==
  /\ rebasing = "stale"
  /\ rebasing' = "none"
  /\ UNCHANGED <<upstream, fork, on, tip, head, upRef, orRef, work>>

FetchOrigin ==
  /\ orRef # origin
  /\ orRef' = origin
  /\ foreign' = {}
  /\ UNCHANGED <<upstream, origin, on, tip, head, rebasing, upRef, work>>

OperatorPush ==
  /\ origin # tip["branch"]
  /\ ForcePushWithLease
=============================================================================
