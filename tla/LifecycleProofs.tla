-------------------------- MODULE LifecycleProofs --------------------------
(* Theorems about Lifecycle for any number of processes, fixes, revisions   *)
(* and faults, and any selection of operations.                             *)
EXTENDS Lifecycle, GitCloneProofs

\* The effect of the small helpers on the run records.
LEMMA BecomeEffect ==
  ASSUME run \in [Proc -> Run], NEW p \in Proc, NEW r \in Run, Become(p, r)
  PROVE  /\ run' \in [Proc -> Run] /\ run'[p] = r
         /\ \A q \in Proc \ {p} : run'[q] = run[q]
BY DEF Become

LEMMA GotoEffect ==
  ASSUME run \in [Proc -> Run], NEW p \in Proc, NEW l \in Pcs, Goto(p, l)
  PROVE  /\ run' \in [Proc -> Run]
         /\ run'[p].pc = l
         /\ \A q \in Proc \ {p} : run'[q] = run[q]
<1> DEFINE r == [run[p] EXCEPT !.pc = l]
<1>1. r \in Run /\ r.pc = l BY DEF Run
<1>2. Become(p, r) BY DEF Goto
<1> QED BY <1>1, <1>2, BecomeEffect

LEMMA DidEffect ==
  ASSUME run \in [Proc -> Run], NEW p \in Proc, NEW l \in Pcs, NEW a \in Taken,
         Did(p, a, l)
  PROVE  /\ run' \in [Proc -> Run]
         /\ run'[p].pc = l
         /\ \A q \in Proc \ {p} : run'[q] = run[q]
<1> DEFINE r == [run[p] EXCEPT !.pc = l, !.taken = run[p].taken \cup {a}]
<1>1. r \in Run /\ r.pc = l BY DEF Run
<1>2. Become(p, r) BY DEF Did
<1> QED BY <1>1, <1>2, BecomeEffect

LEMMA ReturnEffect ==
  ASSUME run \in [Proc -> Run], NEW p \in Proc, NEW s \in Results, Return(p, s)
  PROVE  /\ run' \in [Proc -> Run]
         /\ run'[p].pc = "done"
         /\ \A q \in Proc \ {p} : run'[q] = run[q]
<1> DEFINE r == [run[p] EXCEPT !.pc = "done", !.result = s]
<1>1. r \in Run /\ r.pc = "done" BY DEF Run, Pcs
<1>2. Become(p, r) BY DEF Return
<1> QED BY <1>1, <1>2, BecomeEffect

LEMMA FaultType ==
  ASSUME TypeOK, Fault \/ NoFault PROVE faults' \in 0..MaxFaults
BY LifecycleAssumption DEF TypeOK, Fault, NoFault

LEMMA NoRunType ==
  ASSUME NEW e \in Entry PROVE NoRun(e) \in Run /\ NoRun(e).pc = "idle"
BY DEF NoRun, Run, Entry, Pcs, AllOps, AllModes, Taken, Results

\* A step of process p changes its own run record only, leaves the patch
\* yamls alone and does at most one git command.
ProcessStep(p) ==
  \/ Load(p) \/ Step(p) \/ Crash(p) \/ KilledInGit(p)
  \/ \E op \in Ops, mode \in Modes : Start(p, op, mode)

LEMMA LoadEffect ==
  ASSUME TypeOK, NEW p \in Proc, Load(p)
  PROVE  /\ run' \in [Proc -> Run] /\ \A q \in Proc \ {p} : run'[q] = run[q]
         /\ run'[p].pc = "idle"
         /\ UNCHANGED <<gitVars, store>> /\ NoFault
<1> DEFINE r == [run[p] EXCEPT !.entry = yaml]
<1>1. r \in Run /\ r.pc = "idle" BY DEF TypeOK, Run, Load, At
<1>2. Become(p, r) BY DEF Load
<1> QED BY <1>1, <1>2, BecomeEffect DEF Load, TypeOK

LEMMA StartEffect ==
  ASSUME TypeOK, NEW p \in Proc, NEW op \in Ops, NEW mode \in Modes,
         Start(p, op, mode)
  PROVE  /\ run' \in [Proc -> Run] /\ \A q \in Proc \ {p} : run'[q] = run[q]
         /\ run'[p].pc \in {"clean", "rbclean", "fetch", "done"}
         /\ UNCHANGED <<gitVars, store>> /\ NoFault
<1> DEFINE entry == IF p \in Clis THEN yaml ELSE run[p].entry
           refused == op \in {"auto", "dry"} /\ ~AutoSyncAllowed(entry)
           pc == IF refused THEN "done" ELSE FirstPc(op)
           res == IF refused THEN "blocked" ELSE "none"
           r == [NoRun(entry) EXCEPT !.op = op, !.mode = mode, !.pc = pc,
                                     !.result = res]
<1>1. entry \in Entry BY DEF TypeOK, Run
<1>2. op \in AllOps /\ mode \in AllModes BY LifecycleAssumption
<1>3. pc \in {"clean", "rbclean", "fetch", "done"}
  BY <1>2 DEF FirstPc, AllOps
<1>4. pc \in Pcs /\ res \in Results BY <1>3 DEF Pcs, Results
<1>5. NoRun(entry) \in Run BY <1>1, NoRunType
<1> HIDE DEF entry, pc, res
<1>6. r \in Run /\ r.pc = pc BY <1>2, <1>4, <1>5 DEF Run
<1>7. Become(p, r) BY DEF Start, entry, pc, res
<1>8. UNCHANGED <<gitVars, store>> /\ NoFault BY DEF Start
<1> QED BY <1>3, <1>6, <1>7, <1>8, BecomeEffect DEF TypeOK

\* The steps of auto-sync between the fetch and the push, where what was
\* fetched and decided is still to be acted on.
Pending == {"resolve", "decide", "checkout", "reset"}

\* What a step of a running operation does to the clone, by where it goes.
Progress(p) ==
  \/ QuietStep /\ run'[p].pc \notin Pending
  \/ FetchUpstream /\ run'[p].pc = "resolve"
  \/ UNCHANGED gitVars /\ At(p, "resolve") /\ run'[p].pc = "decide"
  \/ UNCHANGED gitVars /\ At(p, "decide") /\ run'[p].pc = "checkout"
       /\ ~HasLocalPatches(p)
  \/ QuietStep /\ At(p, "checkout") /\ run'[p].pc = "reset"
  \/ ResetHard /\ At(p, "reset") /\ run'[p].pc \in {"push", "done"}

LEMMA StepEffect ==
  ASSUME TypeOK, NEW p \in Proc, Step(p) \/ Crash(p) \/ KilledInGit(p)
  PROVE  /\ run' \in [Proc -> Run] /\ \A q \in Proc \ {p} : run'[q] = run[q]
         /\ run[p].pc # "idle"
         /\ UNCHANGED <<mergedAt, records, dropped>>
         /\ yaml' \in Entry /\ installed' \in Commit
         /\ faults' \in 0..MaxFaults
         /\ Progress(p)
<1> DEFINE Own == run' \in [Proc -> Run] /\ \A q \in Proc \ {p} : run'[q] = run[q]
           Kept == /\ yaml' \in Entry /\ installed' \in Commit
                   /\ UNCHANGED <<mergedAt, records, dropped>>
                   /\ faults' \in 0..MaxFaults
<1>0. /\ run \in [Proc -> Run] /\ run[p] \in Run /\ head \in Commit
      /\ yaml \in Entry /\ installed \in Commit
  BY DEF TypeOK, GitTypeOK
<1>a. ASSUME NEW l \in Pcs, Goto(p, l) PROVE Own /\ run'[p].pc = l
  BY <1>0, <1>a, GotoEffect
<1>b. ASSUME NEW r \in Results, Return(p, r) PROVE Own /\ run'[p].pc = "done"
  BY <1>0, <1>b, ReturnEffect
<1>c. ASSUME NEW l \in Pcs, NEW a \in Taken, Did(p, a, l)
      PROVE  Own /\ run'[p].pc = l
  BY <1>0, <1>c, DidEffect
<1>d. ASSUME UNCHANGED store, mergedAt' = mergedAt, Fault \/ NoFault PROVE Kept
  BY <1>0, <1>d, FaultType DEF store
<1>e. ASSUME UNCHANGED gitVars PROVE mergedAt' = mergedAt /\ QuietStep
  BY <1>e DEF gitVars, upstream, QuietStep
<1>f. /\ {"ok", "failed", "error", "blocked", "no_op", "synced", "crashed"} \subseteq Results
      /\ Pending \cup {"rbfetch", "rebase", "clean", "head", "pin", "push",
                        "install", "done"} \subseteq Pcs
      /\ Taken = {"reset", "pushed", "bumped", "reinstalled"}
      /\ Pending = {"resolve", "decide", "checkout", "reset"}
  BY DEF Results, Pcs, Taken, Pending
<1> HIDE DEF Own, Kept
<1> SUFFICES Own /\ Kept /\ run[p].pc # "idle" /\ Progress(p)
  BY DEF Own, Kept
<1>1. CASE RebaseClean(p)
  BY <1>1, <1>a, <1>b, <1>d, <1>e, <1>f DEF RebaseClean, At, Progress
<1>2. CASE RebaseFetch(p)
  <2>1. FetchUpstream => mergedAt' = mergedAt /\ QuietStep
    BY DEF FetchUpstream, upstream, QuietStep
  <2> QED BY <1>2, <2>1, <1>a, <1>b, <1>d, <1>e, <1>f DEF RebaseFetch, At, Progress
<1>3. CASE Rebase(p)
  <2>1. RebaseOk \/ RebaseConflict \/ RebaseRefused => mergedAt' = mergedAt /\ QuietStep
    BY DEF RebaseOk, RebaseConflict, RebaseRefused, gitVars, upstream, QuietStep
  <2> QED BY <1>3, <2>1, <1>a, <1>b, <1>d, <1>f DEF Rebase, At, Progress
<1>4. CASE AutoFetch(p)
  <2>1. FetchUpstream => mergedAt' = mergedAt BY DEF FetchUpstream, upstream
  <2> QED BY <1>4, <2>1, <1>a, <1>b, <1>d, <1>e, <1>f DEF AutoFetch, At, Progress
<1>5. CASE Resolve(p)
  <2> DEFINE r == [run[p] EXCEPT !.pc = "decide",
                     !.changed = ~PinStartsWith(run[p].entry.pin, upRef)]
  <2>1. r \in Run /\ r.pc = "decide"
    <3> DEFINE c == ~PinStartsWith(run[p].entry.pin, upRef)
    <3>1. c \in BOOLEAN BY DEF PinStartsWith
    <3> HIDE DEF c
    <3>2. /\ [run[p] EXCEPT !.pc = "decide", !.changed = c] \in Run
          /\ [run[p] EXCEPT !.pc = "decide", !.changed = c].pc = "decide"
      BY <1>0, <3>1, <1>f DEF Run
    <3> QED BY <3>2 DEF c
  <2>2. Become(p, r) => Own /\ run'[p].pc = "decide"
    BY <1>0, <2>1, BecomeEffect DEF Own
  <2> HIDE DEF r
  <2>3. \/ Become(p, r) /\ NoFault
        \/ Fault /\ Return(p, "blocked")
    BY <1>5 DEF Resolve, r
  <2>4. At(p, "resolve") /\ UNCHANGED <<gitVars, store>> BY <1>5 DEF Resolve
  <2> QED BY <2>2, <2>3, <2>4, <1>b, <1>d, <1>e, <1>f DEF At, Progress
<1>6. CASE Decide(p)
  BY <1>6, <1>a, <1>b, <1>d, <1>e, <1>f DEF Decide, At, Progress
<1>7. CASE Checkout(p)
  <2>1. CheckoutBranch \/ CheckoutRefused => mergedAt' = mergedAt /\ QuietStep
    BY DEF CheckoutBranch, CheckoutRefused, gitVars, upstream, QuietStep
  <2> QED BY <1>7, <2>1, <1>a, <1>b, <1>d, <1>f DEF Checkout, At, Progress
<1>8. CASE Reset(p)
  <2>1. ResetHard => mergedAt' = mergedAt BY DEF ResetHard, upstream
  <2> QED BY <1>8, <2>1, <1>b, <1>c, <1>d, <1>e, <1>f DEF Reset, At, Progress
<1>9. CASE Push(p)
  <2>1. ForcePushWithLease \/ PushRejected => mergedAt' = mergedAt /\ QuietStep
    BY DEF ForcePushWithLease, PushRejected, gitVars, upstream, QuietStep
  <2> QED
    BY <1>9, <2>1, <1>b, <1>c, <1>d, <1>e, <1>f DEF Push, At, Progress
<1>10. CASE BumpClean(p)
  BY <1>10, <1>a, <1>b, <1>d, <1>e, <1>f DEF BumpClean, At, Progress
<1>11. CASE BumpHead(p)
  <2>1. PICK new \in BumpTargets(p) :
          Become(p, [run[p] EXCEPT !.pc = "pin", !.new = new])
    BY <1>11 DEF BumpHead
  <2>2. new \in Pin
    BY <1>0 DEF BumpTargets, ShortPin, Pin, TypeOK, GitTypeOK
  <2> DEFINE r == [run[p] EXCEPT !.pc = "pin", !.new = new]
  <2>3. r \in Run /\ r.pc = "pin" BY <1>0, <2>2, <1>f DEF Run
  <2>4. Own /\ run'[p].pc = "pin" BY <1>0, <2>1, <2>3, BecomeEffect DEF Own
  <2> QED BY <1>11, <2>4, <1>d, <1>e, <1>f DEF BumpHead, At, Progress
<1>12. CASE BumpPin(p)
  <2>1. yaml' \in Entry
    <3>1. [yaml EXCEPT !.pin = run[p].new] \in Entry BY <1>0 DEF Entry, Run
    <3> QED BY <1>0, <1>12, <3>1 DEF BumpPin
  <2>2. Kept BY <1>0, <1>12, <1>e, <2>1, FaultType DEF BumpPin, Kept
  <2>3. Own /\ run'[p].pc \in {"done", "install"}
    BY <1>12, <1>b, <1>c, <1>f DEF BumpPin
  <2> QED BY <1>12, <2>2, <2>3, <1>e, <1>f DEF BumpPin, At, Progress
<1>13. CASE Install(p)
  <2>1. InstallOk(p) \in Results BY <1>f DEF InstallOk
  <2> DEFINE r == [run[p] EXCEPT !.pc = "done", !.result = InstallOk(p),
                                 !.taken = run[p].taken \cup {"reinstalled"}]
  <2>2. r \in Run /\ r.pc = "done"
    <3> DEFINE t == run[p].taken \cup {"reinstalled"}
    <3>1. t \in SUBSET Taken BY <1>0 DEF Run, Taken
    <3> HIDE DEF t
    <3>2. /\ [run[p] EXCEPT !.pc = "done", !.result = InstallOk(p), !.taken = t] \in Run
          /\ [run[p] EXCEPT !.pc = "done", !.result = InstallOk(p), !.taken = t].pc
               = "done"
      BY <1>0, <2>1, <3>1, <1>f DEF Run
    <3> QED BY <3>2 DEF t
  <2>3. Become(p, r) => Own /\ run'[p].pc = "done"
    BY <1>0, <2>2, BecomeEffect DEF Own
  <2>4. InstallTarget(p) \in Commit
    BY <1>0 DEF InstallTarget, Run, Entry, Pin
  <2>5. /\ installed' \in Commit /\ Own /\ run'[p].pc = "done"
        /\ Fault \/ NoFault
    <3>1. CASE installed' = InstallTarget(p) /\ Become(p, r) /\ NoFault
      BY <2>3, <2>4, <3>1
    <3>2. CASE /\ Return(p, IF run[p].op = "auto" THEN "blocked" ELSE "failed")
               /\ Fault /\ UNCHANGED installed
      BY <1>0, <1>b, <1>f, <3>2
    <3>3. CASE Return(p, InstallOk(p)) /\ NoFault /\ UNCHANGED installed
      BY <1>0, <1>b, <2>1, <3>3
    <3> QED BY <1>13, <3>1, <3>2, <3>3 DEF Install
  <2>6. Kept BY <1>0, <1>13, <1>e, <2>5, FaultType DEF Install, Kept
  <2> QED BY <1>13, <2>5, <2>6, <1>e, <1>f DEF Install, At, Progress
<1>14. CASE Finish(p)
  <2>1. NoRun(run[p].entry) \in Run /\ NoRun(run[p].entry).pc = "idle"
    BY <1>0, NoRunType DEF Run
  <2>2. Own /\ run'[p].pc = "idle"
    BY <1>0, <1>14, <2>1, BecomeEffect DEF Finish, Own
  <2> QED BY <1>14, <2>2, <1>d, <1>e, <1>f DEF Finish, At, Progress
<1>15. CASE Crash(p)
  BY <1>15, <1>b, <1>d, <1>e, <1>f DEF Crash, Progress
<1>16. CASE KilledInGit(p)
  <2>1. LeftByGit(p) => /\ mergedAt' = mergedAt /\ run[p].pc # "idle"
                        /\ QuietStep \/ (At(p, "reset") /\ ResetHard)
    BY DEF LeftByGit, At, FetchUpstream, RebaseOk, RebaseConflict, RebaseKilled,
           CheckoutBranch, TreeHalfWritten, ResetHard, PushAnswerLost, upstream,
           QuietStep
  <2> QED BY <1>16, <2>1, <1>b, <1>d, <1>f DEF KilledInGit, Progress
<1> QED
  BY <1>1, <1>2, <1>3, <1>4, <1>5, <1>6, <1>7, <1>8, <1>9, <1>10, <1>11,
     <1>12, <1>13, <1>14, <1>15, <1>16 DEF Step

\* What people and upstream do never touches a run, and the git commands
\* among it are quiet ones.
Outside == Operator \/ Refetch \/ World

LEMMA OutsideEffect ==
  ASSUME TypeOK, Outside
  PROVE  /\ UNCHANGED <<run, faults, yaml, installed>> /\ QuietStep
         /\ records' \in SUBSET Patch /\ dropped' \in SUBSET Patch
         /\ \/ UNCHANGED <<records, dropped>>
            \/ OperatorMayAct /\ UNCHANGED gitVars
<1>0. records \in SUBSET Patch /\ dropped \in SUBSET Patch BY DEF TypeOK
<1>1. CASE Operator
  <2>1. OperatorMayAct /\ UNCHANGED <<run, faults>> BY <1>1 DEF Operator
  <2>2. CASE UNCHANGED store /\ QuietStep
    BY <1>0, <2>1, <2>2 DEF store
  <2>3. ASSUME NEW f \in Patch, RecordFix(f) \/ DropFix(f)
        PROVE  /\ UNCHANGED <<gitVars, yaml, installed>>
               /\ records' \in SUBSET Patch /\ dropped' \in SUBSET Patch
    BY <1>0, <2>3 DEF RecordFix, DropFix
  <2>4. OperatorPush => QuietStep BY DEF OperatorPush, QuietStep
  <2>5. CASE \E f \in Patch : RecordFix(f) \/ DropFix(f)
    BY <2>1, <2>3, <2>5 DEF QuietStep
  <2>6. (UNCHANGED store /\ QuietStep) \/ (\E f \in Patch : RecordFix(f) \/ DropFix(f))
    BY <1>1, <2>4 DEF Operator, QuietStep
  <2> QED BY <2>2, <2>5, <2>6
<1>2. CASE Refetch
  BY <1>0, <1>2 DEF Refetch, QuietStep, store
<1>3. CASE World
  BY <1>0, <1>3 DEF World, QuietStep, store
<1> QED BY <1>1, <1>2, <1>3 DEF Outside

\* Every step is one of a process or comes from outside.
LEMMA NextCases ==
  Next <=> (\E p \in Proc : ProcessStep(p)) \/ Outside
BY DEF Next, ProcessStep, Outside

LEMMA ProgressIsGitStep ==
  ASSUME NEW p \in Proc, Progress(p) PROVE GitStep
BY DEF Progress, GitStep, QuietStep

\* Every step, of whatever kind, does at most one git command.
LEMMA NextGitStep ==
  ASSUME TypeOK, [Next]_vars PROVE GitStep
<1>1. ASSUME NEW p \in Proc, ProcessStep(p) PROVE GitStep
  <2>1. CASE Load(p) BY <2>1, LoadEffect DEF GitStep, QuietStep
  <2>2. CASE Step(p) \/ Crash(p) \/ KilledInGit(p)
    BY <2>2, StepEffect, ProgressIsGitStep
  <2>3. CASE \E op \in Ops, mode \in Modes : Start(p, op, mode)
    BY <2>3, StartEffect DEF GitStep, QuietStep
  <2> QED BY <1>1, <2>1, <2>2, <2>3 DEF ProcessStep
<1>2. CASE Outside BY <1>2, OutsideEffect DEF GitStep
<1>3. CASE UNCHANGED vars BY <1>3 DEF vars, GitStep, QuietStep
<1> QED BY <1>1, <1>2, <1>3, NextCases

LEMMA InitType == ASSUME Init PROVE TypeOK
<1>1. GitTypeOK BY GitInitType DEF Init
<1>2. Up(1) \in Commit BY UpType, MaxRevAssumption
<1>3. PICK pin \in InitPins, flag \in Flags : yaml = [pin |-> pin, flag |-> flag]
  BY DEF Init
<1>4. yaml \in Entry BY <1>3, LifecycleAssumption DEF Entry
<1>5. NoRun(yaml) \in Run BY <1>4, NoRunType
<1>6. run \in [Proc -> Run] BY <1>5 DEF Init
<1>7. faults \in 0..MaxFaults BY LifecycleAssumption DEF Init
<1> QED BY <1>1, <1>2, <1>4, <1>6, <1>7 DEF Init, TypeOK

LEMMA NextType == ASSUME TypeOK, [Next]_vars PROVE TypeOK'
<1>1. GitTypeOK'
  BY NextGitStep, GitTypeStep DEF TypeOK
<1>2. ASSUME NEW p \in Proc, ProcessStep(p) PROVE TypeOK'
  <2>1. CASE Load(p) BY <1>1, <2>1, LoadEffect, FaultType DEF store, TypeOK
  <2>2. CASE Step(p) \/ Crash(p) \/ KilledInGit(p)
    BY <1>1, <2>2, StepEffect DEF TypeOK
  <2>3. CASE \E op \in Ops, mode \in Modes : Start(p, op, mode)
    BY <1>1, <2>3, StartEffect, FaultType DEF store, TypeOK
  <2> QED BY <1>2, <2>1, <2>2, <2>3 DEF ProcessStep
<1>3. CASE Outside BY <1>1, <1>3, OutsideEffect DEF TypeOK
<1>4. CASE UNCHANGED vars BY <1>1, <1>4 DEF vars, store, TypeOK
<1> QED BY <1>2, <1>3, <1>4, NextCases

\* Every variable keeps its type, for any number of processes and fixes: the
\* base of the other theorems.
THEOREM TypeCorrect == Spec => []TypeOK
BY InitType, NextType, PTL DEF Spec

-----------------------------------------------------------------------------
\* The force push of auto-sync (lifecycle.py 305) never overwrites work that
\* others pushed to the fork and this clone has not fetched: no assumption
\* on how runs overlap, on the operator or on crashes and lost answers.
THEOREM ForeignWorkSafe == Spec => []ForeignWorkKept
<1>1. Init => TypeOK /\ ForeignInv BY InitType, ForeignInit DEF Init
<1>2. TypeOK /\ ForeignInv /\ [Next]_vars => (TypeOK /\ ForeignInv)'
  BY NextType, NextGitStep, ForeignStep DEF TypeOK
<1>3. ForeignInv => ForeignWorkKept BY DEF ForeignInv, ForeignWorkKept
<1> QED BY <1>1, <1>2, <1>3, PTL DEF Spec

-----------------------------------------------------------------------------
(* No fix is lost, under what the docstring of auto_sync_source asks of its *)
(* callers, even if runs overlap.                                           *)

\* FixesKept alone is not inductive.  A reset is harmless because, from the
\* decision on, no patch yaml exists, and because every fix whose yaml was
\* dropped is in what the run fetched: the drop came before the run began.
\* Other runs change neither: they fetch newer revisions only.
KeepInv ==
  /\ GitInv
  /\ FixesKept
  /\ \A d \in dropped : mergedAt[d] # 0
  /\ \A p \in Proc : run[p].pc \in Pending
       => \A d \in dropped : mergedAt[d] <= upRef.base
  /\ \A p \in Proc : run[p].pc \in {"checkout", "reset"} => records = {}

\* FixesKept is a matter of the branch's content.
LEMMA KeptByContent ==
  ASSUME FixesKept, UNCHANGED <<records, dropped>>,
         Content(tip["branch"]) \subseteq Content(tip["branch"])'
  PROVE  FixesKept'
BY DEF FixesKept

LEMMA KeepInit == ASSUME Init PROVE KeepInv
<1>1. GitInv BY GitInvInit DEF Init
<1>2. \A p \in Proc : run[p].pc = "idle" BY DEF Init, NoRun
<1>3. records = {} /\ dropped = {} BY DEF Init
<1> QED BY <1>1, <1>2, <1>3 DEF KeepInv, FixesKept, Pending

\* The tracking ref of upstream never goes back.
LEMMA UpRefGrows ==
  ASSUME TypeOK, GitInv, GitStep
  PROVE  /\ upRef.base \in Nat /\ upRef'.base \in Nat /\ upRef.base <= upRef'.base
<1>1. rev \in Nat /\ upRef.base \in Nat /\ upRef.base <= rev
  BY MaxRevAssumption DEF TypeOK, GitTypeOK, Commit, GitInv
<1>2. FetchUpstream => upRef'.base = rev BY DEF FetchUpstream, Up
<1>3. upRef' = upRef \/ FetchUpstream
  BY DEF GitStep, QuietStep, CheckoutBranch, CheckoutRefused, RebaseOk,
     RebaseConflict, RebaseKilled, RebaseRefused, TreeHalfWritten,
     ForcePushWithLease, PushRejected, PushAnswerLost, UpstreamAdvance,
     ForeignPush, CommitFix, LeaveWork, TidyUp, SwitchToTopic, SwitchBack,
     FinishRebase, AbortRebase, QuitRebase, FetchOrigin, ResetHard, gitVars, clone
<1> QED BY <1>1, <1>2, <1>3

\* What a run between fetch and reset relies on, others leave alone.
LEMMA PendingStays ==
  ASSUME TypeOK, KeepInv, GitStep, UNCHANGED <<mergedAt, records, dropped>>,
         NEW q \in Proc, run'[q] = run[q]
  PROVE  /\ run'[q].pc \in Pending => \A d \in dropped : mergedAt[d] <= upRef'.base
         /\ run'[q].pc \in {"checkout", "reset"} => records = {}
<1>1. \A d \in dropped : mergedAt[d] \in Nat BY DEF TypeOK, GitTypeOK
<1>2. /\ upRef.base \in Nat /\ upRef'.base \in Nat /\ upRef.base <= upRef'.base
  BY UpRefGrows DEF KeepInv
<1> QED BY <1>1, <1>2 DEF KeepInv

\* A process step that leaves no run between fetch and reset.
LEMMA KeepQuiet ==
  ASSUME TypeOK, KeepInv, NEW p \in Proc, QuietStep,
         UNCHANGED <<mergedAt, records, dropped>>,
         \A q \in Proc \ {p} : run'[q] = run[q],
         run'[p].pc \notin Pending
  PROVE  KeepInv'
<1>1. GitInv' BY GitInvStep DEF TypeOK, KeepInv, GitStep
<1>2. FixesKept' BY QuietStepKeeps, KeptByContent DEF TypeOK, KeepInv
<1>3. \A q \in Proc \ {p} :
        /\ run'[q].pc \in Pending => \A d \in dropped : mergedAt[d] <= upRef'.base
        /\ run'[q].pc \in {"checkout", "reset"} => records = {}
  BY PendingStays DEF GitStep
<1> QED BY <1>1, <1>2, <1>3 DEF KeepInv, Pending

LEMMA KeepStep ==
  ASSUME Clis = {}, TypeOK, KeepInv, NEW p \in Proc,
         Step(p) \/ Crash(p) \/ KilledInGit(p)
  PROVE  KeepInv'
<1>0. /\ \A q \in Proc \ {p} : run'[q] = run[q]
      /\ UNCHANGED <<mergedAt, records, dropped>> /\ Progress(p)
  BY StepEffect
<1>1. GitStep /\ GitInv'
  BY <1>0, ProgressIsGitStep, GitInvStep DEF TypeOK, KeepInv
<1>2. \A q \in Proc \ {p} :
        /\ run'[q].pc \in Pending => \A d \in dropped : mergedAt[d] <= upRef'.base
        /\ run'[q].pc \in {"checkout", "reset"} => records = {}
  BY <1>0, <1>1, PendingStays
<1>3. \A d \in dropped : mergedAt[d] # 0 /\ d \in Patch /\ mergedAt[d] \in Nat
  BY DEF KeepInv, TypeOK, GitTypeOK
<1>4. ASSUME FixesKept',
             run'[p].pc \in Pending => \A d \in dropped : mergedAt[d] <= upRef'.base,
             run'[p].pc \in {"checkout", "reset"} => records = {}
      PROVE  KeepInv'
  BY <1>0, <1>1, <1>2, <1>3, <1>4 DEF KeepInv, Pending
<1>5. QuietStep => FixesKept'
  BY <1>0, QuietStepKeeps, KeptByContent DEF TypeOK, KeepInv
<1>6. UNCHANGED gitVars => QuietStep /\ upRef' = upRef
  BY DEF QuietStep, gitVars, clone
<1>7. CASE QuietStep /\ run'[p].pc \notin Pending
  BY <1>0, <1>7, KeepQuiet
<1>8. CASE FetchUpstream /\ run'[p].pc = "resolve"
  <2>1. upRef'.base = rev BY <1>8 DEF FetchUpstream, Up
  <2>2. \A d \in dropped : mergedAt[d] <= rev BY <1>3 DEF KeepInv, GitInv
  <2> QED BY <1>4, <1>5, <1>8, <2>1, <2>2 DEF QuietStep
<1>9. CASE UNCHANGED gitVars /\ At(p, "resolve") /\ run'[p].pc = "decide"
  BY <1>4, <1>5, <1>6, <1>9 DEF KeepInv, At, Pending
<1>10. CASE /\ UNCHANGED gitVars /\ At(p, "decide") /\ run'[p].pc = "checkout"
            /\ ~HasLocalPatches(p)
  <2>1. records = {} BY <1>10 DEF HasLocalPatches, Proc
  <2> QED BY <1>4, <1>5, <1>6, <1>10, <2>1 DEF KeepInv, At, Pending
<1>11. CASE QuietStep /\ At(p, "checkout") /\ run'[p].pc = "reset"
  <2>1. /\ upRef.base \in Nat /\ upRef'.base \in Nat /\ upRef.base <= upRef'.base
    BY <1>1, UpRefGrows DEF KeepInv
  <2>2. \A d \in dropped : mergedAt[d] <= upRef.base
    BY <1>11 DEF KeepInv, At, Pending
  <2>3. \A d \in dropped : mergedAt[d] <= upRef'.base
    BY <1>3, <2>1, <2>2
  <2> QED BY <1>4, <1>5, <1>11, <2>3 DEF KeepInv, At
<1>12. CASE ResetHard /\ At(p, "reset") /\ run'[p].pc \in {"push", "done"}
  <2>1. records = {} /\ \A d \in dropped : mergedAt[d] <= upRef.base
    BY <1>12 DEF KeepInv, At, Pending
  <2>2. tip'["branch"] \in {tip["branch"], upRef}
    BY <1>12 DEF ResetHard, TypeOK, GitTypeOK, Branch
  <2>3. dropped \subseteq MergedBy(upRef.base)
    BY <1>3, <2>1, MaxRevAssumption DEF MergedBy, TypeOK, GitTypeOK, Commit
  <2>4. FixesKept'
    <3>1. CASE tip'["branch"] = tip["branch"]
      BY <1>0, <3>1, KeptByContent DEF KeepInv, Content, MergedBy
    <3>2. CASE tip'["branch"] = upRef
      BY <1>0, <2>1, <2>3, <3>2 DEF FixesKept, Content, MergedBy
    <3> QED BY <2>2, <3>1, <3>2
  <2> QED BY <1>4, <1>12, <2>4 DEF Pending
<1> QED BY <1>0, <1>7, <1>8, <1>9, <1>10, <1>11, <1>12 DEF Progress

\* Upstream may merge at any time, but what was merged stays merged where it
\* was, and nothing outside moves the tracking ref of upstream.
LEMMA WorldKeepsMerges ==
  ASSUME TypeOK, World \/ Refetch
  PROVE  /\ upRef' = upRef /\ UNCHANGED <<records, dropped, run>> /\ QuietStep
         /\ \A f \in Patch : mergedAt[f] # 0 => mergedAt'[f] = mergedAt[f]
<1>1. CASE World
  <2>1. CASE UpstreamAdvance
    <3>1. PICK M \in SUBSET {f \in Patch : mergedAt[f] = 0} :
            mergedAt' = [f \in Patch |-> IF f \in M THEN rev + 1 ELSE mergedAt[f]]
      BY <2>1 DEF UpstreamAdvance
    <3> QED BY <1>1, <2>1, <3>1 DEF World, UpstreamAdvance, QuietStep, clone, store
  <2>2. ASSUME NEW f \in Patch, ForeignPush(f)
        PROVE  upRef' = upRef /\ mergedAt' = mergedAt /\ QuietStep
    BY <2>2 DEF ForeignPush, QuietStep, clone, upstream
  <2> QED BY <1>1, <2>1, <2>2 DEF World, store
<1>2. CASE Refetch
  BY <1>2 DEF Refetch, FetchOrigin, QuietStep, upstream, store
<1> QED BY <1>1, <1>2

LEMMA KeepOutside ==
  ASSUME OperatorWaits = TRUE, TypeOK, KeepInv, Outside
  PROVE  KeepInv'
<1>0. /\ run' = run /\ QuietStep /\ GitInv'
      /\ \A d \in dropped : d \in Patch
  BY OutsideEffect, GitInvStep DEF TypeOK, KeepInv, GitStep
<1>1. CASE World \/ Refetch
  <2>1. FixesKept'
    BY <1>0, <1>1, WorldKeepsMerges, QuietStepKeeps, KeptByContent DEF TypeOK, KeepInv
  <2>2. \A d \in dropped : mergedAt'[d] = mergedAt[d]
    BY <1>0, <1>1, WorldKeepsMerges DEF KeepInv
  <2>3. upRef' = upRef /\ UNCHANGED <<records, dropped>>
    BY <1>1, WorldKeepsMerges
  <2> QED BY <1>0, <2>1, <2>2, <2>3 DEF KeepInv, Pending
<1>2. CASE Operator
  <2>1. \A p \in Proc : run'[p].pc = "idle"
    BY <1>0, <1>2 DEF Operator, OperatorMayAct, AllIdle, At
  <2>2. SUFFICES FixesKept' /\ \A d \in dropped' : mergedAt'[d] # 0
    BY <1>0, <2>1 DEF KeepInv, Pending
  <2>3. CASE UNCHANGED <<records, dropped, mergedAt>>
    BY <1>0, <2>3, QuietStepKeeps, KeptByContent DEF TypeOK, KeepInv
  <2>4. ASSUME NEW f \in Patch, RecordFix(f)
        PROVE  FixesKept' /\ \A d \in dropped' : mergedAt'[d] # 0
    BY <2>4 DEF RecordFix, KeepInv, FixesKept, Content, MergedBy, gitVars,
       clone, upstream
  <2>5. ASSUME NEW f \in Patch, DropFix(f)
        PROVE  FixesKept' /\ \A d \in dropped' : mergedAt'[d] # 0
    BY <2>5 DEF DropFix, KeepInv, FixesKept, Content, MergedBy, gitVars,
       clone, upstream
  <2>6. \/ UNCHANGED <<records, dropped, mergedAt>>
        \/ \E f \in Patch : RecordFix(f) \/ DropFix(f)
    <3>1. ASSUME NEW f \in Patch, CommitFix(f) PROVE mergedAt' = mergedAt
      BY <3>1 DEF CommitFix, upstream
    <3>2. ASSUME \/ \E w \in {"tracked", "untracked"} : LeaveWork(w)
                 \/ TidyUp \/ SwitchToTopic \/ SwitchBack
                 \/ FinishRebase \/ AbortRebase \/ QuitRebase \/ OperatorPush
          PROVE mergedAt' = mergedAt
      BY <3>2 DEF LeaveWork, TidyUp, SwitchToTopic, SwitchBack, FinishRebase,
         AbortRebase, QuitRebase, OperatorPush, ForcePushWithLease, upstream
    <3> QED BY <1>2, <3>1, <3>2 DEF Operator, store
  <2> QED BY <2>3, <2>4, <2>5, <2>6
<1> QED BY <1>1, <1>2 DEF Outside

LEMMA KeepNext ==
  ASSUME OperatorWaits = TRUE, Clis = {}, TypeOK, KeepInv, [Next]_vars
  PROVE  KeepInv'
<1>1. ASSUME NEW p \in Proc, ProcessStep(p) PROVE KeepInv'
  <2>1. CASE Load(p)
    <3>1. \A q \in Proc : run'[q].pc = run[q].pc
      BY <2>1, LoadEffect DEF Load, At
    <3>2. UNCHANGED <<gitVars, store>> BY <2>1, LoadEffect
    <3>3. GitInv' /\ FixesKept'
      BY <3>2, GitInvStep, QuietStepKeeps, KeptByContent
         DEF GitStep, QuietStep, TypeOK, KeepInv, store
    <3> QED
      BY <3>1, <3>2, <3>3 DEF KeepInv, gitVars, upstream, clone, store
  <2>2. CASE Step(p) \/ Crash(p) \/ KilledInGit(p) BY <2>2, KeepStep
  <2>3. ASSUME NEW op \in Ops, NEW mode \in Modes, Start(p, op, mode)
        PROVE  KeepInv'
    <3>1. UNCHANGED <<gitVars, store>> /\ run'[p].pc \notin Pending
          /\ \A q \in Proc \ {p} : run'[q] = run[q]
      BY <2>3, StartEffect DEF Pending
    <3>2. QuietStep /\ UNCHANGED <<mergedAt, records, dropped>>
      BY <3>1 DEF QuietStep, gitVars, upstream, store
    <3> QED BY <3>1, <3>2, KeepQuiet
  <2> QED BY <1>1, <2>1, <2>2, <2>3 DEF ProcessStep
<1>2. CASE Outside BY <1>2, KeepOutside
<1>3. CASE UNCHANGED vars
  <2>1. GitInv' BY <1>3, GitInvStep DEF vars, GitStep, QuietStep, TypeOK, KeepInv
  <2> QED
    BY <1>3, <2>1 DEF vars, gitVars, upstream, clone, store, KeepInv, FixesKept,
       Content, MergedBy
<1> QED BY <1>1, <1>2, <1>3, NextCases

\* A fix recorded in a patch yaml stays in the branch through every rebase,
\* sync, bump and auto-sync, and after its yaml was dropped because upstream
\* merged it, provided the callers ask has_local_patches (no CLI run does)
\* and the operator works only while nothing runs.  Runs may overlap.
THEOREM NoFixLost ==
  ASSUME OperatorWaits = TRUE, Clis = {}
  PROVE  Spec => []FixesKept
<1>1. Init => TypeOK /\ KeepInv BY InitType, KeepInit
<1>2. TypeOK /\ KeepInv /\ [Next]_vars => (TypeOK /\ KeepInv)'
  BY NextType, KeepNext
<1>3. KeepInv => FixesKept BY DEF KeepInv
<1> QED BY <1>1, <1>2, <1>3, PTL DEF Spec
=============================================================================
