----------------------------- MODULE PinProofs -----------------------------
(* Theorems about what Lifecycle pins, for any number of fixes, revisions   *)
(* and faults.                                                              *)
EXTENDS LifecycleProofs

Busy(p) == run[p].pc # "idle"

-----------------------------------------------------------------------------
(* What a step of a run does, by where it comes from and where it goes *)

Keeps(p) == run'[p].op = run[p].op /\ run'[p].mode = run[p].mode /\ run'[p].new = run[p].new

\* A run ends, reporting no sync.
Ends(p) ==
  /\ run'[p].pc = "done" /\ (run'[p].result = "synced" => run[p].op = "dry")
  /\ yaml' = yaml
  /\ UNCHANGED gitVars \/ LeftByGit(p)

\* It goes on, before the reset of auto-sync or the bump after a rebase.
Prepares(p) ==
  \/ /\ \/ run[p].pc \in {"rbclean", "rbfetch"} /\ run'[p].pc \in {"rbfetch", "rebase"}
        \/ run'[p].pc \in {"resolve", "decide", "checkout"}
     /\ UNCHANGED gitVars \/ FetchUpstream
     /\ yaml' = yaml
  \/ /\ run[p].op = "sync" /\ run'[p].pc = "clean" /\ RebaseOk /\ yaml' = yaml

Syncs(p) ==
  \/ At(p, "checkout") /\ run'[p].pc = "reset" /\ CheckoutBranch /\ yaml' = yaml
  \/ At(p, "reset") /\ run'[p].pc = "push" /\ ResetHard /\ yaml' = yaml
  \/ At(p, "push") /\ run'[p].pc = "clean" /\ ForcePushWithLease /\ yaml' = yaml

Pins(p) ==
  /\ At(p, "pin") /\ UNCHANGED gitVars
  /\ yaml' = IF PersistsPin(p) THEN [yaml EXCEPT !.pin = run[p].new] ELSE yaml
  /\ \/ run[p].op \in {"bump", "bumpTo"} /\ run'[p].pc = "done"
     \/ run[p].op \notin {"bump", "bumpTo"} /\ run'[p].pc = "install"

Installs(p) ==
  /\ At(p, "install") /\ run'[p].pc = "done" /\ UNCHANGED <<gitVars, yaml>>
  /\ p \in Consumers => installed' = InstallTarget(p)

Move(p) ==
  \/ Keeps(p) /\ \/ Ends(p) \/ Prepares(p) \/ Syncs(p) \/ Pins(p) \/ Installs(p)
                 \/ /\ At(p, "clean") /\ run'[p].pc = "head" /\ Clean
                    /\ UNCHANGED <<gitVars, yaml>>
  \/ /\ At(p, "head") /\ run'[p].pc = "pin" /\ run'[p].new \in BumpTargets(p)
     /\ run'[p].op = run[p].op /\ run'[p].mode = run[p].mode
     /\ UNCHANGED <<gitVars, yaml>>
  \/ run'[p] = NoRun(run[p].entry) /\ UNCHANGED <<gitVars, yaml>>

\* The fields a move leaves alone.
LEMMA GotoKeeps ==
  ASSUME TypeOK, NEW p \in Proc, NEW l \in Pcs, Goto(p, l)
  PROVE  Keeps(p) /\ run'[p].pc = l /\ run'[p].result = run[p].result
<1>1. PICK c \in Run : c = run[p] BY DEF TypeOK
<1>2. run'[p] = [c EXCEPT !.pc = l] BY <1>1 DEF TypeOK, Goto, Become
<1> QED BY <1>1, <1>2 DEF Run, Keeps

LEMMA DidKeeps ==
  ASSUME TypeOK, NEW p \in Proc, NEW l \in Pcs, NEW a \in Taken, Did(p, a, l)
  PROVE  Keeps(p) /\ run'[p].pc = l /\ run'[p].result = run[p].result
<1>1. PICK c \in Run : c = run[p] BY DEF TypeOK
<1>2. run'[p] = [c EXCEPT !.pc = l, !.taken = c.taken \cup {a}]
  BY <1>1 DEF TypeOK, Did, Become
<1> QED BY <1>1, <1>2 DEF Run, Keeps

LEMMA ReturnKeeps ==
  ASSUME TypeOK, NEW p \in Proc, NEW s \in Results, Return(p, s)
  PROVE  Keeps(p) /\ run'[p].pc = "done" /\ run'[p].result = s
<1>1. PICK c \in Run : c = run[p] BY DEF TypeOK
<1>2. run'[p] = [c EXCEPT !.pc = "done", !.result = s]
  BY <1>1 DEF TypeOK, Return, Become
<1> QED BY <1>1, <1>2 DEF Run, Keeps

LEMMA StepMoves ==
  ASSUME TypeOK, NEW p \in Proc, Step(p) \/ Crash(p) \/ KilledInGit(p)
  PROVE  Move(p)
<1>0. /\ run \in [Proc -> Run] /\ run[p] \in Run
      /\ {"ok", "failed", "error", "blocked", "no_op", "synced", "crashed"} \subseteq Results
      /\ {"rbfetch", "rebase", "resolve", "decide", "checkout", "reset", "push", "clean",
          "head", "pin", "install", "done"} \subseteq Pcs
      /\ {"reset", "pushed", "bumped"} \subseteq Taken
  BY DEF TypeOK, Results, Pcs, Taken
<1>a. ASSUME NEW s \in Results, s # "synced" \/ run[p].op = "dry", Return(p, s), yaml' = yaml,
             UNCHANGED gitVars \/ LeftByGit(p)
      PROVE  Move(p)
  BY <1>a, ReturnKeeps DEF Ends, Move
<1>b. ASSUME UNCHANGED store PROVE yaml' = yaml BY <1>b DEF store
<1>1. CASE RebaseClean(p)
  BY <1>0, <1>1, <1>a, <1>b, GotoKeeps DEF RebaseClean, At, Prepares, Move
<1>2. CASE RebaseFetch(p)
  BY <1>0, <1>2, <1>a, <1>b, GotoKeeps DEF RebaseFetch, At, Prepares, Move
<1>3. CASE Rebase(p)
  <2>1. RebaseRefused => UNCHANGED gitVars BY DEF RebaseRefused
  <2>2. RebaseOk \/ RebaseConflict => LeftByGit(p) BY <1>3 DEF Rebase, LeftByGit
  <2> QED BY <1>0, <1>3, <1>a, <1>b, <2>1, <2>2, GotoKeeps DEF Rebase, Prepares, Move
<1>4. CASE AutoFetch(p)
  BY <1>0, <1>4, <1>a, <1>b, GotoKeeps DEF AutoFetch, Prepares, Move
<1>5. CASE Resolve(p)
  <2>1. PICK ch : \/ Become(p, [run[p] EXCEPT !.pc = "decide", !.changed = ch])
                  \/ Return(p, "blocked")
    BY <1>5 DEF Resolve
  <2>2. CASE Become(p, [run[p] EXCEPT !.pc = "decide", !.changed = ch])
    <3>1. PICK c \in Run : c = run[p] BY <1>0
    <3>2. run'[p] = [c EXCEPT !.pc = "decide", !.changed = ch] BY <1>0, <2>2, <3>1 DEF Become
    <3>3. Keeps(p) /\ run'[p].pc = "decide" BY <3>1, <3>2 DEF Run, Keeps
    <3> QED BY <1>5, <1>b, <3>3 DEF Resolve, Prepares, Move
  <2> QED BY <1>0, <1>5, <1>a, <1>b, <2>1, <2>2 DEF Resolve
<1>6. CASE Decide(p)
  BY <1>0, <1>6, <1>a, <1>b, GotoKeeps DEF Decide, Prepares, Move
<1>7. CASE Checkout(p)
  <2>1. CheckoutRefused => UNCHANGED gitVars BY DEF CheckoutRefused
  <2> QED BY <1>0, <1>7, <1>a, <1>b, <2>1, GotoKeeps DEF Checkout, Syncs, Move
<1>8. CASE Reset(p)
  BY <1>0, <1>8, <1>a, <1>b, DidKeeps DEF Reset, Syncs, Move
<1>9. CASE Push(p)
  <2>1. PushRejected => UNCHANGED gitVars BY DEF PushRejected
  <2> QED BY <1>0, <1>9, <1>a, <1>b, <2>1, DidKeeps DEF Push, Syncs, Move
<1>10. CASE KilledInGit(p) BY <1>0, <1>10, <1>a, <1>b DEF KilledInGit
<1>11. CASE BumpClean(p)
  BY <1>0, <1>11, <1>a, <1>b, GotoKeeps DEF BumpClean, Move
<1>12. CASE BumpHead(p)
  <2>1. PICK new \in BumpTargets(p) : Become(p, [run[p] EXCEPT !.pc = "pin", !.new = new])
    BY <1>12 DEF BumpHead
  <2>2. PICK c \in Run : c = run[p] BY <1>0
  <2>3. run'[p] = [c EXCEPT !.pc = "pin", !.new = new] BY <1>0, <2>1, <2>2 DEF Become
  <2>4. run'[p].pc = "pin" /\ run'[p].new = new /\ run'[p].op = c.op /\ run'[p].mode = c.mode
    BY <2>3 DEF Run
  <2> QED BY <1>12, <1>b, <2>2, <2>4 DEF BumpHead, Move
<1>13. CASE BumpPin(p)
  BY <1>0, <1>13, ReturnKeeps, DidKeeps DEF BumpPin, Pins, Move
<1>14. CASE Install(p)
  <2>1. CASE /\ RunsInstaller(p) /\ installed' = InstallTarget(p)
             /\ Become(p, [run[p] EXCEPT !.pc = "done", !.result = InstallOk(p),
                                         !.taken = run[p].taken \cup {"reinstalled"}])
    <3>1. PICK c \in Run : c = run[p] BY <1>0
    <3>2. PICK s, t : run'[p] = [c EXCEPT !.pc = "done", !.result = s, !.taken = t]
      BY <1>0, <2>1, <3>1 DEF Become
    <3>3. Keeps(p) /\ run'[p].pc = "done" BY <3>1, <3>2 DEF Run, Keeps
    <3> QED BY <1>14, <2>1, <3>3 DEF Install, Installs, Move
  <2>2. CASE RunsInstaller(p) /\ Return(p, IF run[p].op = "auto" THEN "blocked" ELSE "failed")
    BY <1>0, <1>14, <1>a, <2>2 DEF Install
  <2>3. CASE ~RunsInstaller(p) /\ Return(p, InstallOk(p))
    <3>1. InstallOk(p) \in Results BY <1>0 DEF InstallOk
    <3> QED BY <1>14, <2>3, <3>1, ReturnKeeps DEF Install, RunsInstaller, Installs, Move
  <2> QED BY <1>14, <2>1, <2>2, <2>3 DEF Install
<1>15. CASE Finish(p)
  BY <1>0, <1>15, <1>b DEF Finish, Become, Move
<1>16. CASE Crash(p) BY <1>0, <1>16, <1>a, <1>b DEF Crash
<1> QED BY <1>1, <1>2, <1>3, <1>4, <1>5, <1>6, <1>7, <1>8, <1>9, <1>10, <1>11, <1>12, <1>13,
           <1>14, <1>15, <1>16 DEF Step

\* Every step is one of a run, an idle process taking up work, or comes from
\* outside and leaves the runs and what they wrote alone.
LEMMA NextMoves ==
  ASSUME TypeOK, [Next]_vars
  PROVE  \/ \E p \in Proc : /\ Move(p) /\ Busy(p) /\ run' \in [Proc -> Run]
                            /\ \A q \in Proc \ {p} : run'[q] = run[q]
         \/ \E p \in Proc : /\ At(p, "idle") /\ run' \in [Proc -> Run]
                            /\ \A q \in Proc \ {p} : run'[q] = run[q]
                            /\ UNCHANGED <<gitVars, store>>
                            /\ \/ Load(p)
                               \/ \E op \in Ops, mode \in Modes : Start(p, op, mode)
         \/ Outside /\ UNCHANGED <<run, yaml, installed>>
         \/ UNCHANGED vars
<1>1. ASSUME NEW p \in Proc, Load(p)
      PROVE  /\ At(p, "idle") /\ run' \in [Proc -> Run]
             /\ \A q \in Proc \ {p} : run'[q] = run[q]
             /\ UNCHANGED <<gitVars, store>>
  BY <1>1, LoadEffect DEF Load
<1>2. ASSUME NEW p \in Proc, NEW op \in Ops, NEW mode \in Modes, Start(p, op, mode)
      PROVE  /\ At(p, "idle") /\ run' \in [Proc -> Run]
             /\ \A q \in Proc \ {p} : run'[q] = run[q]
             /\ UNCHANGED <<gitVars, store>>
  BY <1>2, StartEffect DEF Start
<1>3. ASSUME NEW p \in Proc, Step(p) \/ Crash(p) \/ KilledInGit(p)
      PROVE  /\ Move(p) /\ Busy(p) /\ run' \in [Proc -> Run]
             /\ \A q \in Proc \ {p} : run'[q] = run[q]
  BY <1>3, StepEffect, StepMoves DEF Busy
<1>4. Outside => UNCHANGED <<run, yaml, installed>> BY OutsideEffect
<1> QED BY <1>1, <1>2, <1>3, <1>4, NextCases DEF ProcessStep

-----------------------------------------------------------------------------
(* Runs one at a time, and the half-way rebases they meet *)

OneRun == \A p, q \in Proc : Busy(p) /\ Busy(q) => p = q

\* A rebase stopped by a conflict shows in the working tree, where BumpClean
\* looks; one that was killed need not.
Marked == rebasing = "conflict" => "tracked" \in work

\* After its own rebase or checkout a run has HEAD on a branch; a bump of its
\* own knows only that there is no conflict.
Bumps   == {"bump", "bumpTo"}
Settled == {"reset", "push", "clean", "head", "pin", "install"}
Calm(p) ==
  /\ run[p].pc \in Settled /\ run[p].op \notin Bumps => ~Detached
  /\ run[p].pc \in {"head", "pin"} => rebasing # "conflict"

CalmInv == GitInv /\ OneRun /\ Marked /\ \A p \in Proc : Calm(p)

LEMMA OneRunKeeps ==
  ASSUME OneRun, RunsSerial = TRUE, TypeOK, [Next]_vars PROVE OneRun'
<1>1. ASSUME NEW p \in Proc, \A q \in Proc \ {p} : run'[q] = run[q] /\ ~Busy(q)
      PROVE  OneRun'
  BY <1>1 DEF OneRun, Busy
<1>2. ASSUME NEW p \in Proc, Busy(p), \A q \in Proc \ {p} : run'[q] = run[q]
      PROVE  OneRun'
  BY <1>1, <1>2 DEF OneRun
<1>3. ASSUME NEW p \in Proc, Load(p), \A q \in Proc \ {p} : run'[q] = run[q]
      PROVE  OneRun'
  <2>1. \A q \in Proc : run'[q].pc = run[q].pc BY <1>3, LoadEffect DEF Load, At
  <2> QED BY <2>1 DEF OneRun, Busy
<1>4. ASSUME NEW p \in Proc, NEW op \in Ops, NEW mode \in Modes, Start(p, op, mode),
             \A q \in Proc \ {p} : run'[q] = run[q]
      PROVE  OneRun'
  BY <1>1, <1>4 DEF Start, AllIdle, At, Busy
<1>5. CASE UNCHANGED run BY <1>5 DEF OneRun, Busy
<1> QED BY <1>2, <1>3, <1>4, <1>5, NextMoves DEF vars

\* The steps from outside end rebases and start none.
LEMMA OutsideSettles ==
  ASSUME TypeOK, Outside, Marked PROVE Marked' /\ rebasing' \in {rebasing, "none"}
<1>1. ASSUME NEW f \in Patch,
             CommitFix(f) \/ RecordFix(f) \/ DropFix(f) \/ ForeignPush(f)
      PROVE  UNCHANGED <<rebasing, work>>
  BY <1>1 DEF CommitFix, RecordFix, DropFix, ForeignPush, gitVars, clone
<1>2. ASSUME \/ SwitchToTopic \/ SwitchBack \/ OperatorPush \/ FetchOrigin
             \/ UpstreamAdvance
      PROVE  UNCHANGED <<rebasing, work>>
  BY <1>2 DEF SwitchToTopic, SwitchBack, OperatorPush, ForcePushWithLease, FetchOrigin,
              UpstreamAdvance, clone
<1>3. ASSUME (\E w \in {"tracked", "untracked"} : LeaveWork(w)) \/ TidyUp
      PROVE  rebasing' = rebasing /\ ~Detached
  BY <1>3 DEF LeaveWork, TidyUp
<1>4. FinishRebase \/ AbortRebase \/ QuitRebase => rebasing' = "none"
  BY DEF FinishRebase, AbortRebase, QuitRebase
<1> QED BY <1>1, <1>2, <1>3, <1>4 DEF Outside, Operator, Refetch, World, Marked, Detached

\* Of a run's own steps only a rebase leaves one unfinished.
LEMMA MoveSettles ==
  ASSUME TypeOK, CalmInv, NEW p \in Proc, Move(p)
  PROVE  GitStep /\ Marked' /\ Calm(p)'
<1>0. Calm(p) /\ Marked BY DEF CalmInv
<1>1. GitStep
  BY DEF Move, Ends, LeftByGit, Prepares, Syncs, Pins, Installs, GitStep, QuietStep
<1>2. UNCHANGED gitVars \/ PushAnswerLost \/ FetchUpstream \/ RebaseOk \/ ForcePushWithLease
        => UNCHANGED <<rebasing, work>>
  BY DEF gitVars, clone, PushAnswerLost, FetchUpstream, RebaseOk, ForcePushWithLease
<1>3. RebaseConflict \/ RebaseKilled => Marked'
  BY DEF RebaseConflict, RebaseKilled, KilledHalfWay, KilledAtTheEnds, Marked
<1>4. CheckoutBranch => rebasing' \in {"none", "stale"} BY DEF CheckoutBranch
<1>5. ResetHard => rebasing' # "conflict" /\ (~Detached => rebasing' = rebasing)
  BY DEF ResetHard, Detached
<1>6. TreeHalfWritten => Marked' BY <1>0 DEF TreeHalfWritten, Marked
<1>7. Marked'
  BY <1>0, <1>2, <1>3, <1>4, <1>5, <1>6
     DEF Move, Ends, LeftByGit, Prepares, Syncs, Pins, Installs, Marked
<1>8. Calm(p)'
  <2> USE DEF Calm, Settled, Detached
  <2>1. CASE Ends(p) BY <2>1 DEF Ends
  <2>2. CASE Keeps(p) /\ Prepares(p)
    <3>1. RebaseOk => rebasing = "none" BY DEF RebaseOk, CanRebase
    <3> QED BY <1>2, <2>2, <3>1 DEF Prepares
  <2>3. CASE Keeps(p) /\ Syncs(p)
    BY <1>0, <1>2, <1>4, <1>5, <2>3 DEF Keeps, Syncs, At
  <2>4. CASE Keeps(p) /\ Pins(p) BY <1>0, <1>2, <2>4 DEF Keeps, Pins, Bumps, At
  <2>5. CASE Installs(p) BY <2>5 DEF Installs
  <2>6. CASE /\ Keeps(p) /\ At(p, "clean") /\ run'[p].pc = "head" /\ Clean
             /\ UNCHANGED gitVars
    BY <1>0, <1>2, <2>6 DEF Keeps, At, Clean, Marked
  <2>7. CASE /\ At(p, "head") /\ run'[p].pc = "pin" /\ run'[p].op = run[p].op
             /\ UNCHANGED gitVars
    BY <1>0, <1>2, <2>7 DEF At
  <2>8. CASE run'[p] = NoRun(run[p].entry) BY <2>8 DEF NoRun
  <2> QED BY <2>1, <2>2, <2>3, <2>4, <2>5, <2>6, <2>7, <2>8 DEF Move
<1> QED BY <1>1, <1>7, <1>8

\* An idle process reads the yaml again or takes up work.
LEMMA ArrivalsSettle ==
  ASSUME TypeOK, NEW p \in Proc,
         Load(p) \/ \E op \in Ops, mode \in Modes : Start(p, op, mode)
  PROVE  Calm(p)'
<1>1. CASE Load(p) BY <1>1, LoadEffect DEF Calm, Settled
<1>2. ASSUME NEW op \in Ops, NEW mode \in Modes, Start(p, op, mode) PROVE Calm(p)'
  <2> DEFINE e == IF p \in Clis THEN yaml ELSE run[p].entry
             refused == op \in {"auto", "dry"} /\ ~AutoSyncAllowed(e)
             l == IF refused THEN "done" ELSE FirstPc(op)
             s == IF refused THEN "blocked" ELSE "none"
  <2>1. l \in Settled => op \in Bumps /\ l = "clean"
    BY LifecycleAssumption DEF FirstPc, AllOps, Settled, Bumps
  <2>2. Become(p, [NoRun(e) EXCEPT !.op = op, !.mode = mode, !.pc = l, !.result = s])
    BY <1>2 DEF Start
  <2> HIDE DEF e, refused, l, s
  <2>3. run'[p] = [NoRun(e) EXCEPT !.op = op, !.mode = mode, !.pc = l, !.result = s]
    BY <2>2 DEF TypeOK, Become
  <2>4. run'[p].op = op /\ run'[p].pc = l BY <2>3 DEF NoRun
  <2> QED BY <2>1, <2>4 DEF Calm, Settled
<1> QED BY <1>1, <1>2

LEMMA CalmInit == ASSUME Init PROVE CalmInv
<1>1. GitInv BY GitInvInit DEF Init
<1>2. \A p \in Proc : run[p].pc = "idle" BY DEF Init, NoRun
<1> QED BY <1>1, <1>2 DEF Init, GitInit, CalmInv, OneRun, Marked, Busy, Calm, Settled

LEMMA CalmNext ==
  ASSUME RunsSerial = TRUE, TypeOK, CalmInv, [Next]_vars PROVE CalmInv'
<1>1. GitInv' BY NextGitStep, GitInvStep DEF TypeOK, CalmInv
<1>2. OneRun' BY OneRunKeeps DEF CalmInv
<1>3. ASSUME NEW p \in Proc, Move(p), Busy(p), \A q \in Proc \ {p} : run'[q] = run[q]
      PROVE  CalmInv'
  <2>1. \A q \in Proc \ {p} : run'[q].pc = "idle" BY <1>3 DEF CalmInv, OneRun, Busy
  <2>2. \A q \in Proc \ {p} : Calm(q)' BY <2>1 DEF Calm, Settled
  <2> QED BY <1>1, <1>2, <1>3, <2>2, MoveSettles DEF CalmInv
<1>4. ASSUME NEW p \in Proc, At(p, "idle"), \A q \in Proc \ {p} : run'[q] = run[q],
             UNCHANGED <<gitVars, store>>,
             Load(p) \/ \E op \in Ops, mode \in Modes : Start(p, op, mode)
      PROVE  CalmInv'
  <2>1. UNCHANGED <<rebasing, work>> BY <1>4 DEF gitVars, clone
  <2> QED BY <1>1, <1>2, <1>4, <2>1, ArrivalsSettle DEF CalmInv, Marked, Calm, Detached
<1>5. CASE Outside /\ UNCHANGED run
  BY <1>1, <1>2, <1>5, OutsideSettles DEF CalmInv, Calm, Detached
<1>6. CASE UNCHANGED vars
  BY <1>1, <1>2, <1>6 DEF vars, gitVars, clone, CalmInv, Marked, Calm, Detached
<1> QED BY <1>3, <1>4, <1>5, <1>6, NextMoves

LEMMA CalmAlways ==
  ASSUME RunsSerial = TRUE PROVE Spec => [](TypeOK /\ CalmInv)
<1>1. Init => TypeOK /\ CalmInv BY InitType, CalmInit
<1>2. TypeOK /\ CalmInv /\ [Next]_vars => (TypeOK /\ CalmInv)' BY NextType, CalmNext
<1> QED BY <1>1, <1>2, PTL DEF Spec

-----------------------------------------------------------------------------
(* What bump pins *)

\* What is to be pinned is still what HEAD names.
HoldsHead ==
  \A p \in Proc : At(p, "pin") /\ run[p].op # "bumpTo" => run[p].new = ShortPin(head)

\* Nobody works in the clone while a run goes on.
LEMMA OutsideWaits ==
  ASSUME OperatorWaits = TRUE, Outside
  PROVE  \/ AllIdle
         \/ /\ UNCHANGED <<on, tip, head, rebasing>>
            /\ \/ orRef' = orRef /\ (origin' = origin \/ "foreign" \in Env)
               \/ "refetch" \in Env /\ orRef # origin /\ UNCHANGED origin
BY DEF Outside, Operator, OperatorMayAct, Refetch, FetchOrigin, World, UpstreamAdvance,
       ForeignPush, clone, fork

LEMMA HoldsHeadNext ==
  ASSUME RunsSerial = TRUE, OperatorWaits = TRUE, TypeOK, CalmInv, HoldsHead, [Next]_vars
  PROVE  HoldsHead'
<1>1. ASSUME NEW p \in Proc, Move(p), Busy(p), \A q \in Proc \ {p} : run'[q] = run[q]
      PROVE  HoldsHead'
  <2>1. \A q \in Proc \ {p} : run'[q].pc # "pin" BY <1>1 DEF CalmInv, OneRun, Busy
  <2>2. run'[p].pc = "pin" =>
          /\ run'[p].new \in BumpTargets(p) /\ run'[p].op = run[p].op /\ head' = head
    BY <1>1 DEF Move, Ends, Prepares, Syncs, Pins, Installs, NoRun, gitVars, clone
  <2> QED BY <2>1, <2>2 DEF HoldsHead, At, BumpTargets, ShortPin
<1>2. ASSUME NEW p \in Proc, At(p, "idle"), \A q \in Proc \ {p} : run'[q] = run[q],
             UNCHANGED <<gitVars, store>>,
             Load(p) \/ \E op \in Ops, mode \in Modes : Start(p, op, mode)
      PROVE  HoldsHead'
  <2>1. run'[p].pc # "pin" BY <1>2, LoadEffect, StartEffect
  <2> QED BY <1>2, <2>1 DEF HoldsHead, At, ShortPin, gitVars, clone
<1>3. CASE Outside /\ UNCHANGED run
  BY <1>3, OutsideWaits DEF HoldsHead, AllIdle, At, ShortPin
<1>4. CASE UNCHANGED vars BY <1>4 DEF vars, gitVars, clone, HoldsHead, At, ShortPin
<1> QED BY <1>1, <1>2, <1>3, <1>4, NextMoves

\* Only the run that reached its pin writes one.
LEMMA OnlyPinsWrite ==
  ASSUME TypeOK, [Next]_vars, yaml' # yaml
  PROVE  \E p \in Proc : Pins(p) /\ Busy(p)
<1>1. ASSUME NEW p \in Proc, Move(p) PROVE Pins(p)
  BY <1>1 DEF Move, Ends, Prepares, Syncs, Installs
<1> QED BY <1>1, NextMoves DEF store, vars

\* PinsWholeBranch: bump, alone or in sync and auto-sync, pins the commit of
\* the branch checked out and never one a conflict stopped a rebase at, as
\* long as runs do not overlap and the operator waits for them.  Git may be
\* killed in any of its commands: a bump of its own is then the only one to
\* pin what a rebase left half done.
THEOREM NoPartialPin ==
  ASSUME RunsSerial = TRUE, OperatorWaits = TRUE
  PROVE  Spec => PinsWholeBranch
<1> DEFINE Right == \A p \in Proc : At(p, "pin") /\ run[p].op # "bumpTo" /\ yaml' # yaml
                      => \/ yaml'.pin.sha = tip[on]
                         \/ run[p].op = "bump" /\ rebasing = "half"
<1>1. ASSUME Init PROVE HoldsHead
  <2>1. \A p \in Proc : run[p].pc = "idle" BY <1>1 DEF Init, NoRun
  <2> QED BY <2>1 DEF HoldsHead, At
<1>2. TypeOK /\ CalmInv /\ HoldsHead /\ [Next]_vars => HoldsHead' BY HoldsHeadNext
<1>3. ASSUME TypeOK, CalmInv, HoldsHead, [Next]_vars PROVE [Right]_vars
  <2> SUFFICES ASSUME NEW p \in Proc, At(p, "pin"), run[p].op # "bumpTo", yaml' # yaml
               PROVE  \/ yaml'.pin.sha = tip[on]
                      \/ run[p].op = "bump" /\ rebasing = "half"
    OBVIOUS
  <2>1. Pins(p)
    <3>1. PICK q \in Proc : Pins(q) /\ Busy(q) BY <1>3, OnlyPinsWrite
    <3>2. q = p BY <1>3, <3>1 DEF CalmInv, OneRun, Busy, At
    <3> QED BY <3>1, <3>2
  <2>2. head = tip[on] \/ (run[p].op = "bump" /\ rebasing = "half")
    BY <1>3 DEF CalmInv, Calm, Detached, GitInv, Settled, Bumps, At
  <2>3. yaml' = [yaml EXCEPT !.pin = run[p].new] BY <2>1 DEF Pins
  <2>4. yaml'.pin = ShortPin(head) BY <1>3, <2>3 DEF HoldsHead, TypeOK, Entry
  <2> QED BY <2>2, <2>4 DEF ShortPin
<1>4. Spec => [](TypeOK /\ CalmInv) BY CalmAlways
<1> QED BY <1>1, <1>2, <1>3, <1>4, PTL DEF Spec, PinsWholeBranch

-----------------------------------------------------------------------------
(* What "synced" says *)

Reports(p, s) == At(p, "done") /\ run[p].result = s

\* The branch, the fork as last pushed, the pin and the package fall into
\* line one after the other.
AutoOK(p) ==
  LET to(l) == run[p].pc \in l \/ Reports(p, "synced")
  IN run[p].op = "auto" =>
       /\ to({"reset", "push", "clean", "head", "pin", "install"}) => on = "branch"
       /\ to({"clean", "head", "pin", "install"}) =>
            /\ orRef = tip["branch"]
            /\ "foreign" \notin Env => origin = tip["branch"]
       /\ Reports(p, "synced") => head = tip["branch"]
       /\ p \in Consumers /\ to({"install"}) => yaml.pin = ShortPin(head)
       /\ p \in Consumers /\ Reports(p, "synced") /\ run[p].mode = "dev"
            => installed = head

AutoInv == \A p \in Proc : AutoOK(p)

\* Taking up work: the arguments are set, and nothing is reported synced.
LEMMA StartKeepsAuto ==
  ASSUME TypeOK, NEW p \in Proc, NEW op \in Ops, NEW mode \in Modes, Start(p, op, mode)
  PROVE  AutoOK(p)'
<1> DEFINE entry == IF p \in Clis THEN yaml ELSE run[p].entry
           refused == op \in {"auto", "dry"} /\ ~AutoSyncAllowed(entry)
           l == IF refused THEN "done" ELSE FirstPc(op)
           s == IF refused THEN "blocked" ELSE "none"
<1>1. s # "synced" /\ (op = "auto" => l \in {"fetch", "done"}) BY DEF FirstPc
<1>2. Become(p, [NoRun(entry) EXCEPT !.op = op, !.mode = mode, !.pc = l, !.result = s])
  BY DEF Start
<1> HIDE DEF entry, refused, l, s
<1>3. run'[p] = [NoRun(entry) EXCEPT !.op = op, !.mode = mode, !.pc = l, !.result = s]
  BY <1>2 DEF TypeOK, Become
<1>4. run'[p].mode = mode /\ run'[p].result = s /\ run'[p].op = op /\ run'[p].pc = l
  BY <1>3 DEF NoRun
<1> QED BY <1>1, <1>4 DEF AutoOK, Reports, At

LEMMA LoadKeepsAuto ==
  ASSUME TypeOK, AutoInv, NEW p \in Proc, Load(p) PROVE AutoOK(p)'
<1>1. PICK c \in Run : c = run[p] /\ c.pc = "idle" BY DEF TypeOK, Load, At
<1>2. run'[p] = [c EXCEPT !.entry = yaml] BY <1>1 DEF Load, Become, TypeOK
<1>3. run'[p].mode = c.mode /\ run'[p].pc = "idle" BY <1>1, <1>2 DEF Run
<1> QED BY <1>1, <1>3 DEF AutoInv, AutoOK, Reports, At

LEMMA MoveKeepsAuto ==
  ASSUME TypeOK, CalmInv, HoldsHead, AutoInv, NEW p \in Proc, Move(p) PROVE AutoOK(p)'
<1>1. AutoOK(p) BY DEF AutoInv
<1>2. UNCHANGED gitVars => UNCHANGED <<on, tip, head, orRef, origin>>
  BY DEF gitVars, fork, clone
<1>3. CASE Keeps(p) /\ Ends(p)
  BY <1>1, <1>3 DEF Keeps, Ends, AutoOK, Reports, At
<1>4. CASE Keeps(p) /\ Prepares(p)
  BY <1>1, <1>4 DEF Keeps, Prepares, AutoOK, Reports, At
<1>5. CASE Keeps(p) /\ Syncs(p)
  BY <1>1, <1>5
     DEF Keeps, Syncs, AutoOK, Reports, At, CheckoutBranch, ResetHard, ForcePushWithLease
<1>6. CASE Keeps(p) /\ Pins(p)
  <2>1. run[p].op = "auto" => /\ run'[p].pc = "install"
                              /\ p \in Consumers => yaml'.pin = ShortPin(head)
    BY <1>6 DEF Pins, PersistsPin, HoldsHead, At, TypeOK, Entry
  <2> QED BY <1>1, <1>2, <1>6, <2>1 DEF Keeps, Pins, AutoOK, Reports, At, ShortPin
<1>7. CASE Keeps(p) /\ Installs(p)
  <2>1. run[p].op = "auto" => head = tip[on]
    BY <1>7 DEF Installs, CalmInv, Calm, GitInv, Settled, Bumps, At
  <2>2. p \in Consumers /\ run[p].mode = "dev" => installed' = head
    BY <1>7 DEF Installs, InstallTarget
  <2> QED BY <1>1, <1>2, <1>7, <2>1, <2>2 DEF Keeps, Installs, AutoOK, Reports, At, ShortPin
<1>8. CASE Keeps(p) /\ At(p, "clean") /\ run'[p].pc = "head" /\ UNCHANGED <<gitVars, yaml>>
  BY <1>1, <1>2, <1>8 DEF Keeps, AutoOK, Reports, At
<1>9. CASE /\ At(p, "head") /\ run'[p].pc = "pin" /\ UNCHANGED <<gitVars, yaml>>
           /\ run'[p].op = run[p].op /\ run'[p].mode = run[p].mode
  BY <1>1, <1>2, <1>9 DEF AutoOK, Reports, At
<1>10. CASE run'[p] = NoRun(run[p].entry)
  BY <1>10 DEF NoRun, AutoOK, Reports, At
<1> QED BY <1>3, <1>4, <1>5, <1>6, <1>7, <1>8, <1>9, <1>10 DEF Move

LEMMA AutoNext ==
  ASSUME RunsSerial = TRUE, OperatorWaits = TRUE,
         "foreign" \notin Env \/ "refetch" \notin Env,
         TypeOK, CalmInv, HoldsHead, AutoInv, [Next]_vars
  PROVE  AutoInv'
\* A process that does nothing has nothing to keep.
<1>1. ASSUME NEW q \in Proc, At(q, "idle"), run'[q] = run[q] PROVE AutoOK(q)'
  BY <1>1 DEF AutoInv, AutoOK, Reports, At
<1>2. ASSUME NEW p \in Proc, Move(p), Busy(p), \A q \in Proc \ {p} : run'[q] = run[q]
      PROVE  AutoInv'
  <2>1. \A q \in Proc \ {p} : At(q, "idle") BY <1>2 DEF CalmInv, OneRun, Busy, At
  <2> QED BY <1>1, <1>2, <2>1, MoveKeepsAuto DEF AutoInv
<1>3. CASE UNCHANGED <<on, tip, head, orRef, origin, yaml, installed, run>>
  BY <1>3 DEF AutoInv, AutoOK, Reports, At, ShortPin
<1>4. ASSUME NEW p \in Proc, At(p, "idle"), \A q \in Proc \ {p} : run'[q] = run[q],
             UNCHANGED <<gitVars, store>>,
             Load(p) \/ \E op \in Ops, mode \in Modes : Start(p, op, mode)
      PROVE  AutoInv'
  <2>1. AutoOK(p)' BY <1>4, LoadKeepsAuto, StartKeepsAuto
  <2>2. UNCHANGED <<on, tip, head, orRef, origin, yaml, installed>>
    BY <1>4 DEF gitVars, fork, clone, store
  <2>3. ASSUME NEW q \in Proc \ {p} PROVE AutoOK(q)'
    BY <1>4, <2>2 DEF AutoInv, AutoOK, Reports, At, ShortPin
  <2> QED BY <2>1, <2>3 DEF AutoInv
<1>5. CASE Outside /\ UNCHANGED <<run, yaml, installed>>
  <2>1. CASE AllIdle BY <1>1, <1>5, <2>1 DEF AllIdle, AutoInv
  <2>2. CASE UNCHANGED <<on, tip, head, orRef>> /\ (origin' = origin \/ "foreign" \in Env)
    BY <1>5, <2>2 DEF AutoInv, AutoOK, Reports, At, ShortPin
  <2>3. CASE UNCHANGED <<on, tip, head, origin>> /\ "refetch" \in Env /\ orRef # origin
    BY <1>5, <2>3 DEF AutoInv, AutoOK, Reports, At, ShortPin
  <2> QED BY <1>5, <2>1, <2>2, <2>3, OutsideWaits
<1>6. CASE UNCHANGED vars BY <1>3, <1>6 DEF vars, gitVars, fork, clone, store
<1> QED BY <1>2, <1>4, <1>5, <1>6, NextMoves

\* SyncedIsConsistent: a consumer told "synced" finds the pin in the yaml,
\* HEAD, the branch, the fork as last pushed and a package installed in dev
\* mode at one commit, as long as runs do not overlap, the operator waits for
\* them and nobody fetches what others push to the fork meanwhile (the
\* tracking ref would no longer be what this clone pushed).
THEOREM SyncedSafe ==
  ASSUME RunsSerial = TRUE, OperatorWaits = TRUE,
         "foreign" \notin Env \/ "refetch" \notin Env
  PROVE  Spec => []SyncedIsConsistent
<1>1. ASSUME Init PROVE HoldsHead /\ AutoInv
  <2>1. \A p \in Proc : run[p].pc = "idle" BY <1>1 DEF Init, NoRun
  <2> QED BY <2>1 DEF HoldsHead, AutoInv, AutoOK, Reports, At
<1>2. TypeOK /\ CalmInv /\ HoldsHead /\ AutoInv /\ [Next]_vars => (HoldsHead /\ AutoInv)'
  BY HoldsHeadNext, AutoNext
<1>3. HoldsHead /\ AutoInv => SyncedIsConsistent
  BY DEF AutoInv, AutoOK, Reports, At, SyncedIsConsistent, Proc
<1>4. Spec => [](TypeOK /\ CalmInv) BY CalmAlways
<1> QED BY <1>1, <1>2, <1>3, <1>4, PTL DEF Spec

-----------------------------------------------------------------------------
(* The branch, and a pin on its history, only go forward *)

\* Whatever branch is checked out, what moves entry.branch puts it on the
\* revision last fetched, on one a rebase has reached, or adds a fix.
LEMMA BranchForward ==
  ASSUME TypeOK, GitInv, GitStep
  PROVE  tip["branch"].base <= tip'["branch"].base
<1>0. /\ head \in Commit /\ tip["branch"].base \in Nat
      /\ tip \in [Branch -> Commit] /\ on \in Branch /\ "branch" \in Branch
  BY MaxRevAssumption DEF TypeOK, GitTypeOK, Branch, Commit
<1>1. tip["branch"].base <= upRef.base BY <1>0 DEF GitInv
<1>2. Replay(head, upRef.base).base = upRef.base /\ Replay(tip[on], head.base).base = head.base
  BY DEF Replay
<1>3. CASE UNCHANGED tip BY <1>0, <1>3
<1>4. CASE ResetHard BY <1>0, <1>1, <1>4 DEF ResetHard
<1>5. CASE RebaseOk BY <1>0, <1>1, <1>2, <1>5 DEF RebaseOk
<1>6. CASE RebaseKilled
  BY <1>0, <1>1, <1>2, <1>6 DEF RebaseKilled, KilledHalfWay, KilledAtTheEnds
<1>7. ASSUME NEW f \in Patch, CommitFix(f) PROVE tip["branch"].base <= tip'["branch"].base
  <2>1. [head EXCEPT !.fixes = @ \cup {f}].base = head.base BY <1>0 DEF Commit
  <2>2. head = tip[on] BY <1>7 DEF CommitFix, GitInv
  <2> QED BY <1>0, <1>7, <2>1, <2>2 DEF CommitFix
<1>8. CASE SwitchToTopic BY <1>0, <1>8 DEF SwitchToTopic
<1>9. CASE FinishRebase
  <2>1. tip[on].base <= head.base BY <1>9 DEF FinishRebase, GitInv, Detached
  <2> QED BY <1>0, <1>2, <1>9, <2>1 DEF FinishRebase
<1> QED
  BY <1>3, <1>4, <1>5, <1>6, <1>7, <1>8, <1>9
     DEF GitStep, QuietStep, FetchUpstream, CheckoutBranch, CheckoutRefused, RebaseConflict,
         RebaseRefused, TreeHalfWritten, ForcePushWithLease, PushRejected, PushAnswerLost,
         UpstreamAdvance, ForeignPush, LeaveWork, TidyUp, SwitchBack, AbortRebase, QuitRebase,
         FetchOrigin, gitVars, clone

\* While no conflict waits to be resolved, people do not move the branch to
\* another revision, even if they work during a run.
LEMMA OutsideKeepsBase ==
  ASSUME TypeOK, GitInv, Outside, on = "branch", rebasing # "conflict"
  PROVE  tip'["branch"].base = tip["branch"].base
<1>0. /\ head \in Commit /\ tip["branch"] \in Commit
      /\ tip \in [Branch -> Commit] /\ "branch" \in Branch
  BY DEF TypeOK, GitTypeOK, Branch
<1>1. ASSUME NEW f \in Patch, CommitFix(f)
      PROVE  tip'["branch"].base = tip["branch"].base
  <2>1. [head EXCEPT !.fixes = @ \cup {f}].base = head.base BY <1>0 DEF Commit
  <2>2. head = tip["branch"] BY <1>1 DEF CommitFix, GitInv
  <2> QED BY <1>0, <1>1, <2>1, <2>2 DEF CommitFix
<1>2. ASSUME NEW f \in Patch, RecordFix(f) \/ DropFix(f) \/ ForeignPush(f) PROVE tip' = tip
  BY <1>2 DEF RecordFix, DropFix, ForeignPush, gitVars, clone
<1>3. ASSUME \/ OperatorPush \/ FetchOrigin \/ UpstreamAdvance \/ AbortRebase \/ QuitRebase
             \/ (\E w \in {"tracked", "untracked"} : LeaveWork(w)) \/ TidyUp \/ SwitchBack
      PROVE  tip' = tip
  BY <1>3 DEF OperatorPush, ForcePushWithLease, FetchOrigin, UpstreamAdvance, AbortRebase,
              QuitRebase, LeaveWork, TidyUp, SwitchBack, clone
<1>4. SwitchToTopic => tip'["branch"] = tip["branch"] BY <1>0 DEF SwitchToTopic
<1>5. ~FinishRebase BY DEF FinishRebase
<1> QED BY <1>1, <1>2, <1>3, <1>4, <1>5 DEF Outside, Operator, Refetch, World

\* Without topic branches nobody leaves entry.branch.
LEMMA StaysOnBranch ==
  ASSUME TypeOK, "topic" \notin Env, on = "branch", [Next]_vars PROVE on' = "branch"
<1>1. ASSUME NEW p \in Proc, Move(p) PROVE on' = "branch"
  BY <1>1 DEF Move, Ends, LeftByGit, Prepares, Syncs, Pins, Installs, PushAnswerLost, RebaseOk,
              RebaseConflict, RebaseKilled, TreeHalfWritten, FetchUpstream, CheckoutBranch,
              ResetHard, ForcePushWithLease, gitVars, clone
<1>2. ASSUME NEW f \in Patch,
             CommitFix(f) \/ RecordFix(f) \/ DropFix(f) \/ ForeignPush(f)
      PROVE  on' = on
  BY <1>2 DEF CommitFix, RecordFix, DropFix, ForeignPush, gitVars, clone
<1>3. ASSUME \/ OperatorPush \/ FetchOrigin \/ UpstreamAdvance \/ FinishRebase \/ AbortRebase
             \/ QuitRebase
             \/ (\E w \in {"tracked", "untracked"} : LeaveWork(w)) \/ TidyUp
      PROVE  on' = on
  BY <1>3 DEF OperatorPush, ForcePushWithLease, FetchOrigin, UpstreamAdvance, FinishRebase,
              AbortRebase, QuitRebase, LeaveWork, TidyUp, clone
<1>4. Outside => on' = on BY <1>2, <1>3 DEF Outside, Operator, Refetch, World
<1> QED BY <1>1, <1>4, NextMoves DEF vars, gitVars, clone

\* What is about to be pinned is no older than the branch.
OrderInv ==
  /\ on = "branch"
  /\ \A p \in Proc : /\ run[p].op # "bumpTo"
                     /\ At(p, "pin") => tip["branch"].base <= run[p].new.sha.base

Forward == yaml.pin.sha.base <= tip["branch"].base => yaml.pin.sha.base <= yaml'.pin.sha.base

LEMMA BasesAreNumbers ==
  ASSUME TypeOK, [Next]_vars
  PROVE  /\ tip["branch"].base \in Nat /\ tip'["branch"].base \in Nat /\ head.base \in Nat
         /\ yaml.pin.sha.base \in Nat /\ yaml'.pin.sha.base \in Nat
         /\ \A p \in Proc : run[p].new.sha.base \in Nat
<1>1. TypeOK' BY NextType
<1> QED BY <1>1, MaxRevAssumption DEF TypeOK, GitTypeOK, Branch, Commit, Entry, Pin, Run

LEMMA OrderNext ==
  ASSUME RunsSerial = TRUE, "topic" \notin Env, "bumpTo" \notin Ops,
         TypeOK, CalmInv, OrderInv, [Next]_vars
  PROVE  OrderInv' /\ Forward
<1>1. on' = "branch" BY StaysOnBranch DEF OrderInv
<1>2. /\ tip["branch"].base \in Nat /\ tip'["branch"].base \in Nat /\ head.base \in Nat
      /\ yaml.pin.sha.base \in Nat /\ yaml'.pin.sha.base \in Nat
      /\ \A p \in Proc : run[p].new.sha.base \in Nat
  BY BasesAreNumbers
<1>3. ASSUME yaml' = yaml PROVE Forward BY <1>2, <1>3 DEF Forward
<1>4. ASSUME NEW p \in Proc, Move(p), Busy(p), \A q \in Proc \ {p} : run'[q] = run[q]
      PROVE  OrderInv' /\ Forward
  <2>1. \A q \in Proc \ {p} : run'[q].pc = "idle" /\ run'[q].op # "bumpTo"
    BY <1>4 DEF CalmInv, OneRun, Busy, OrderInv
  <2>2. run'[p].op # "bumpTo" BY <1>4 DEF Move, Keeps, NoRun, OrderInv
  <2>3. CASE Pins(p)
    <3>1. yaml'.pin \in {yaml.pin, run[p].new} /\ run'[p].pc # "pin"
      BY <2>3 DEF Pins, TypeOK, Entry
    <3>2. tip["branch"].base <= run[p].new.sha.base BY <2>3 DEF Pins, OrderInv, At
    <3>3. Forward BY <1>2, <3>1, <3>2 DEF Forward
    <3> QED BY <1>1, <2>1, <2>2, <3>1, <3>3 DEF OrderInv, At
  <2>4. CASE At(p, "head") /\ run'[p].new \in BumpTargets(p) /\ UNCHANGED <<gitVars, yaml>>
    <3>1. tip["branch"].base <= head.base BY <1>2 DEF CalmInv, GitInv, OrderInv
    <3>2. run'[p].new.sha = head BY <2>4 DEF BumpTargets, OrderInv, ShortPin
    <3>3. tip' = tip BY <2>4 DEF gitVars, clone
    <3> QED BY <1>1, <1>3, <2>1, <2>2, <2>4, <3>1, <3>2, <3>3 DEF OrderInv, At
  <2>5. CASE run'[p].pc # "pin" /\ yaml' = yaml
    BY <1>1, <1>3, <2>1, <2>2, <2>5 DEF OrderInv, At
  <2> QED BY <1>4, <2>3, <2>4, <2>5 DEF Move, Ends, Prepares, Syncs, Installs, NoRun
<1>5. ASSUME NEW p \in Proc, \A q \in Proc \ {p} : run'[q] = run[q], UNCHANGED <<gitVars, yaml>>,
             Load(p) \/ \E op \in Ops, mode \in Modes : Start(p, op, mode)
      PROVE  OrderInv' /\ Forward
  <2>1. run'[p].pc # "pin" BY <1>5, LoadEffect, StartEffect
  <2>2. run'[p].op # "bumpTo"
    <3>1. CASE Load(p)
      <4>1. PICK c \in Run : c = run[p] BY DEF TypeOK
      <4>2. run'[p] = [c EXCEPT !.entry = yaml] BY <3>1, <4>1 DEF Load, Become, TypeOK
      <4> QED BY <4>1, <4>2 DEF Run, OrderInv
    <3>2. ASSUME NEW op \in Ops, NEW mode \in Modes, Start(p, op, mode)
          PROVE  run'[p].op # "bumpTo"
      <4>1. PICK e, l, s : run'[p] = [NoRun(e) EXCEPT !.op = op, !.mode = mode,
                                                     !.pc = l, !.result = s]
        <5> DEFINE e == IF p \in Clis THEN yaml ELSE run[p].entry
                   refused == op \in {"auto", "dry"} /\ ~AutoSyncAllowed(e)
                   l == IF refused THEN "done" ELSE FirstPc(op)
                   s == IF refused THEN "blocked" ELSE "none"
        <5>1. Become(p, [NoRun(e) EXCEPT !.op = op, !.mode = mode, !.pc = l, !.result = s])
          BY <3>2 DEF Start
        <5> HIDE DEF e, refused, l, s
        <5> QED BY <5>1 DEF TypeOK, Become
      <4> QED BY <4>1 DEF NoRun
    <3> QED BY <1>5, <3>1, <3>2
  <2>3. tip' = tip BY <1>5 DEF gitVars, clone
  <2> QED BY <1>1, <1>3, <1>5, <2>1, <2>2, <2>3 DEF OrderInv, At
<1>6. CASE Outside /\ UNCHANGED <<run, yaml>>
  <2>1. ASSUME NEW p \in Proc, At(p, "pin")
        PROVE  tip'["branch"].base = tip["branch"].base
    BY <1>6, <2>1, OutsideKeepsBase DEF CalmInv, Calm, OrderInv, At
  <2> QED BY <1>1, <1>3, <1>6, <2>1 DEF OrderInv, At
<1>7. CASE UNCHANGED vars
  BY <1>1, <1>3, <1>7 DEF vars, gitVars, clone, store, OrderInv, At
<1> QED BY <1>4, <1>5, <1>6, <1>7, NextMoves DEF store, vars

\* PinNeverRegresses: over any sequence of bump, rebase, sync and auto-sync,
\* with git killed in any of them, upstream's progress and an operator at
\* work even during runs, neither the branch nor a pin the branch has reached
\* goes back to an older revision, as long as runs do not overlap, nobody names the commit to
\* pin and nobody pins a topic branch.
THEOREM PinSafe ==
  ASSUME RunsSerial = TRUE, "topic" \notin Env, "bumpTo" \notin Ops
  PROVE  Spec => PinNeverRegresses
<1>1. ASSUME Init PROVE OrderInv
  <2>1. \A p \in Proc : run[p].pc = "idle" /\ run[p].op = "auto" BY <1>1 DEF Init, NoRun
  <2>2. on = "branch" BY <1>1 DEF Init, GitInit
  <2> QED BY <2>1, <2>2 DEF OrderInv, At
<1>2. TypeOK /\ CalmInv /\ OrderInv /\ [Next]_vars
        => /\ OrderInv'
           /\ [/\ tip'["branch"].base >= tip["branch"].base
               /\ yaml.pin.sha.base <= tip["branch"].base
                    => yaml'.pin.sha.base >= yaml.pin.sha.base]_vars
  <2> SUFFICES ASSUME TypeOK, CalmInv, OrderInv, [Next]_vars
               PROVE  /\ tip'["branch"].base >= tip["branch"].base
                      /\ yaml.pin.sha.base <= tip["branch"].base
                           => yaml'.pin.sha.base >= yaml.pin.sha.base
    BY OrderNext
  <2>1. /\ yaml.pin.sha.base \in Nat /\ yaml'.pin.sha.base \in Nat
        /\ tip["branch"].base \in Nat /\ tip'["branch"].base \in Nat
    BY BasesAreNumbers
  <2>2. tip["branch"].base <= tip'["branch"].base BY BranchForward, NextGitStep DEF CalmInv
  <2> QED BY <2>1, <2>2, OrderNext DEF Forward
<1>3. Spec => [](TypeOK /\ CalmInv) BY CalmAlways
<1> QED BY <1>1, <1>2, <1>3, PTL DEF Spec, PinNeverRegresses

-----------------------------------------------------------------------------
(* Auto-sync keeps the promise of PinnedFork *)

\* From the checkout to the pin a run of auto-sync stays on entry.branch; from
\* the push to the pin the fork stands where the branch does; what is to be
\* pinned is what the fork has.
Following(p) ==
  LET pushed == {"clean", "head", "pin"}
  IN /\ run[p].op \in {"auto", "dry"} /\ run[p].pc \notin {"rbclean", "rbfetch", "rebase"}
     /\ run[p].pc \in {"reset", "push"} \cup pushed => on = "branch"
     /\ run[p].pc \in pushed => origin.base = tip["branch"].base
     /\ At(p, "pin") => run[p].new.sha.base = origin.base

\* The branch is ahead of the fork while a push is due, or after one failed.
PromiseInv ==
  /\ rebasing = "none" /\ origin.base <= tip["branch"].base
  /\ \A p \in Proc : Following(p)

\* What a step does to the state PinnedFork sees.
Advances  == rev' \in {rev, rev + 1} /\ origin'.base = origin.base /\ yaml' = yaml
Publishes == rev' = rev /\ origin'.base = tip["branch"].base /\ yaml' = yaml
PinsFork  == /\ rev' = rev /\ origin' = origin
             /\ yaml'.pin.sha.base \in {yaml.pin.sha.base, origin.base}
PromiseStep == Advances \/ Publishes \/ PinsFork

LEMMA PromiseBases ==
  ASSUME TypeOK, GitInv, PromiseInv
  PROVE  /\ rev \in 1..MaxRev /\ MaxRev \in Nat
         /\ origin.base \in Nat /\ tip["branch"].base \in Nat /\ upRef.base \in Nat
         /\ yaml.pin.sha.base \in Nat
         /\ origin.base <= tip["branch"].base /\ tip["branch"].base <= upRef.base
         /\ upRef.base <= rev /\ head = tip[on]
         /\ tip \in [Branch -> Commit] /\ "branch" \in Branch
BY MaxRevAssumption DEF TypeOK, GitTypeOK, GitInv, PromiseInv, Detached, Commit, Branch, Entry, Pin

LEMMA MoveFollows ==
  ASSUME TypeOK, CalmInv, PromiseInv, NEW p \in Proc, Move(p)
  PROVE  /\ Following(p)' /\ PromiseStep
         /\ rebasing' = "none" /\ origin'.base <= tip'["branch"].base
<1>0. Following(p) /\ rebasing = "none" /\ origin.base <= tip["branch"].base BY DEF PromiseInv
<1>1. /\ origin.base \in Nat /\ tip["branch"].base \in Nat /\ upRef.base \in Nat
      /\ tip["branch"].base <= upRef.base /\ head = tip[on]
      /\ tip \in [Branch -> Commit] /\ "branch" \in Branch
  BY PromiseBases DEF CalmInv
<1>2. UNCHANGED gitVars => UNCHANGED <<rev, origin, on, tip, head, rebasing, upRef>>
  BY DEF gitVars, upstream, fork, clone
<1>3. CASE Keeps(p) /\ Ends(p)
  <2>1. Following(p)' BY <1>0, <1>3 DEF Keeps, Ends, Following, At
  <2>2. CASE UNCHANGED gitVars
    BY <1>0, <1>2, <1>3, <2>1, <2>2 DEF Ends, PromiseStep, Advances
  <2>3. CASE LeftByGit(p)
    <3>1. CASE FetchUpstream \/ CheckoutBranch \/ TreeHalfWritten
      BY <1>0, <1>3, <2>1, <3>1
         DEF Ends, FetchUpstream, CheckoutBranch, TreeHalfWritten, upstream, fork, PromiseStep, Advances
    <3>2. CASE At(p, "reset") /\ ResetHard
      <4>1. tip'["branch"] = upRef /\ UNCHANGED <<rev, origin, rebasing>>
        BY <1>0, <1>1, <3>2 DEF Following, At, ResetHard, Detached, upstream, fork
      <4> QED BY <1>0, <1>1, <1>3, <2>1, <4>1 DEF Ends, PromiseStep, Advances
    <3>3. CASE PushAnswerLost
      BY <1>0, <1>1, <1>3, <2>1, <3>3 DEF Ends, PushAnswerLost, upstream, PromiseStep, Publishes
    <3> QED BY <1>0, <2>3, <3>1, <3>2, <3>3 DEF LeftByGit, Following, At
  <2> QED BY <1>3, <2>2, <2>3 DEF Ends
<1>4. CASE Keeps(p) /\ Prepares(p)
  BY <1>0, <1>1, <1>2, <1>4
     DEF Keeps, Prepares, Following, At, FetchUpstream, upstream, fork, PromiseStep, Advances
<1>5. CASE Keeps(p) /\ Syncs(p)
  <2>1. CASE At(p, "checkout") /\ CheckoutBranch
    BY <1>0, <1>1, <1>5, <2>1
       DEF Keeps, Syncs, Following, At, CheckoutBranch, upstream, fork, PromiseStep, Advances
  <2>2. CASE At(p, "reset") /\ ResetHard
    <3>1. tip'["branch"] = upRef /\ UNCHANGED <<rev, origin, on, rebasing>>
      BY <1>0, <1>1, <2>2 DEF Following, At, ResetHard, Detached, upstream, fork
    <3> QED
      BY <1>0, <1>1, <1>5, <2>2, <3>1 DEF Keeps, Syncs, Following, At, PromiseStep, Advances
  <2>3. CASE At(p, "push") /\ ForcePushWithLease
    BY <1>0, <1>1, <1>5, <2>3
       DEF Keeps, Syncs, Following, At, ForcePushWithLease, upstream, PromiseStep, Publishes
  <2> QED BY <1>5, <2>1, <2>2, <2>3 DEF Syncs
<1>6. CASE Keeps(p) /\ Pins(p)
  <2>1. yaml'.pin \in {yaml.pin, run[p].new} /\ run'[p].pc \in {"done", "install"}
    BY <1>6 DEF Pins, TypeOK, Entry
  <2>2. run[p].new.sha.base = origin.base BY <1>0, <1>6 DEF Pins, Following
  <2> QED BY <1>0, <1>1, <1>2, <1>6, <2>1, <2>2
             DEF Keeps, Pins, Following, At, PromiseStep, PinsFork
<1>7. CASE Keeps(p) /\ Installs(p)
  BY <1>0, <1>1, <1>2, <1>7 DEF Keeps, Installs, Following, At, PromiseStep, Advances
<1>8. CASE Keeps(p) /\ At(p, "clean") /\ run'[p].pc = "head" /\ UNCHANGED <<gitVars, yaml>>
  BY <1>0, <1>1, <1>2, <1>8 DEF Keeps, Following, At, PromiseStep, Advances
<1>9. CASE /\ At(p, "head") /\ run'[p].pc = "pin" /\ UNCHANGED <<gitVars, yaml>>
           /\ run'[p].new \in BumpTargets(p) /\ run'[p].op = run[p].op
  <2>1. run'[p].new.sha = tip["branch"]
    BY <1>0, <1>1, <1>9 DEF BumpTargets, Following, At, ShortPin
  <2> QED BY <1>0, <1>1, <1>2, <1>9, <2>1 DEF Following, At, PromiseStep, Advances
<1>10. CASE run'[p] = NoRun(run[p].entry) /\ UNCHANGED <<gitVars, yaml>>
  BY <1>0, <1>1, <1>2, <1>10 DEF NoRun, Following, At, PromiseStep, Advances
<1> QED BY <1>3, <1>4, <1>5, <1>6, <1>7, <1>8, <1>9, <1>10 DEF Move

\* Taking up auto-sync again, and reading the yaml anew.
LEMMA ArrivalsFollow ==
  ASSUME TypeOK, PromiseInv, Ops \subseteq {"auto", "dry"}, NEW p \in Proc,
         Load(p) \/ \E op \in Ops, mode \in Modes : Start(p, op, mode)
  PROVE  Following(p)'
<1>1. CASE Load(p)
  <2>1. PICK c \in Run : c = run[p] /\ c.op \in {"auto", "dry"}
    BY DEF TypeOK, PromiseInv, Following
  <2>2. run'[p] = [c EXCEPT !.entry = yaml] BY <1>1, <2>1 DEF Load, Become, TypeOK
  <2>3. run'[p].op = c.op BY <2>1, <2>2 DEF Run
  <2> QED BY <1>1, <2>1, <2>3, LoadEffect DEF Following, At
<1>2. ASSUME NEW op \in Ops, NEW mode \in Modes, Start(p, op, mode) PROVE Following(p)'
  <2> DEFINE e == IF p \in Clis THEN yaml ELSE run[p].entry
             refused == op \in {"auto", "dry"} /\ ~AutoSyncAllowed(e)
             l == IF refused THEN "done" ELSE FirstPc(op)
             s == IF refused THEN "blocked" ELSE "none"
  <2>1. l \in {"fetch", "done"} BY DEF FirstPc
  <2>2. Become(p, [NoRun(e) EXCEPT !.op = op, !.mode = mode, !.pc = l, !.result = s])
    BY <1>2 DEF Start
  <2> HIDE DEF e, refused, l, s
  <2>3. run'[p] = [NoRun(e) EXCEPT !.op = op, !.mode = mode, !.pc = l, !.result = s]
    BY <2>2 DEF TypeOK, Become
  <2>4. run'[p].op = op /\ run'[p].pc = l BY <2>3 DEF NoRun
  <2> QED BY <2>1, <2>4 DEF Following, At
<1> QED BY <1>1, <1>2

\* People commit on the branch and push it, upstream advances, others push to
\* the fork: nobody moves the branch to another revision, and it is switched
\* only between runs.
LEMMA OutsideKeepsPromise ==
  ASSUME OperatorWaits = TRUE \/ "topic" \notin Env,
         TypeOK, CalmInv, PromiseInv, Outside
  PROVE  /\ PromiseStep /\ rebasing' = "none" /\ origin'.base <= tip'["branch"].base
         /\ tip'["branch"].base = tip["branch"].base
         /\ origin.base = tip["branch"].base => origin'.base = origin.base
         /\ on' = on \/ AllIdle
<1> USE DEF PromiseStep
<1>0. /\ origin.base \in Nat /\ tip["branch"].base \in Nat /\ head = tip[on]
      /\ origin.base <= tip["branch"].base /\ rebasing = "none"
      /\ tip \in [Branch -> Commit] /\ "branch" \in Branch /\ origin \in Commit
      /\ head \in Commit
  BY PromiseBases DEF CalmInv, PromiseInv, TypeOK, GitTypeOK
<1>1. yaml' = yaml BY OutsideEffect
<1>2. ASSUME NEW f \in Patch, CommitFix(f)
      PROVE  /\ UNCHANGED <<rev, origin, on, rebasing>>
             /\ tip'["branch"].base = tip["branch"].base
  <2>1. [head EXCEPT !.fixes = @ \cup {f}].base = head.base BY <1>0 DEF Commit
  <2> QED BY <1>0, <1>2, <2>1 DEF CommitFix, upstream, fork
<1>3. ASSUME \/ (\E w \in {"tracked", "untracked"} : LeaveWork(w)) \/ TidyUp
             \/ FetchOrigin \/ UNCHANGED gitVars
      PROVE  UNCHANGED <<rev, origin, on, tip, rebasing>>
  BY <1>3 DEF LeaveWork, TidyUp, FetchOrigin, gitVars, upstream, fork, clone
<1>4. ASSUME SwitchToTopic \/ SwitchBack
      PROVE  UNCHANGED <<rev, origin, rebasing>> /\ tip'["branch"] = tip["branch"]
  BY <1>0, <1>4 DEF SwitchToTopic, SwitchBack, upstream, fork
<1>5. OperatorPush => /\ origin' = tip["branch"] /\ UNCHANGED <<rev, on, tip, rebasing>>
  BY DEF OperatorPush, ForcePushWithLease, upstream
<1>6. UpstreamAdvance => rev' = rev + 1 /\ UNCHANGED <<origin, on, tip, rebasing>>
  BY DEF UpstreamAdvance, fork, clone
<1>7. ASSUME NEW f \in Patch, ForeignPush(f)
      PROVE  origin'.base = origin.base /\ UNCHANGED <<rev, on, tip, rebasing>>
  BY <1>0, <1>7 DEF ForeignPush, upstream, clone, Commit
<1>8. ~FinishRebase /\ ~AbortRebase /\ ~QuitRebase
  BY <1>0 DEF FinishRebase, AbortRebase, QuitRebase, Detached
<1>9. ASSUME NEW f \in Patch, RecordFix(f) \/ DropFix(f) PROVE UNCHANGED gitVars
  BY <1>9 DEF RecordFix, DropFix
<1>10. "topic" \in Env /\ Operator => AllIdle BY DEF Operator, OperatorMayAct
<1>11. CASE Operator
  BY <1>0, <1>1, <1>2, <1>3, <1>4, <1>5, <1>8, <1>9, <1>10, <1>11
     DEF Operator, Advances, Publishes
<1>12. CASE Refetch BY <1>0, <1>1, <1>3, <1>12 DEF Refetch, Advances
<1>13. CASE World BY <1>0, <1>1, <1>6, <1>7, <1>13 DEF World, Advances
<1> QED BY <1>11, <1>12, <1>13 DEF Outside

LEMMA PromiseNext ==
  ASSUME RunsSerial = TRUE, OperatorWaits = TRUE \/ "topic" \notin Env,
         Ops \subseteq {"auto", "dry"},
         TypeOK, CalmInv, PromiseInv, [Next]_vars
  PROVE  PromiseInv' /\ PromiseStep
\* A process that does nothing has nothing to keep but its operation.
<1>1. ASSUME NEW q \in Proc, At(q, "idle"), run'[q] = run[q] PROVE Following(q)'
  BY <1>1 DEF PromiseInv, Following, At
<1>2. ASSUME UNCHANGED <<gitVars, yaml>>
      PROVE  /\ PromiseStep /\ rebasing' = "none" /\ origin'.base <= tip'["branch"].base
             /\ \A q \in Proc : run'[q] = run[q] => Following(q)'
  BY <1>2 DEF PromiseInv, Following, At, PromiseStep, Advances, gitVars, upstream, fork, clone
<1>3. ASSUME NEW p \in Proc, Move(p), Busy(p), \A q \in Proc \ {p} : run'[q] = run[q]
      PROVE  PromiseInv' /\ PromiseStep
  <2>1. \A q \in Proc \ {p} : At(q, "idle") BY <1>3 DEF CalmInv, OneRun, Busy, At
  <2> QED BY <1>1, <1>3, <2>1, MoveFollows DEF PromiseInv
<1>4. ASSUME NEW p \in Proc, \A q \in Proc \ {p} : run'[q] = run[q],
             UNCHANGED <<gitVars, yaml>>,
             Load(p) \/ \E op \in Ops, mode \in Modes : Start(p, op, mode)
      PROVE  PromiseInv' /\ PromiseStep
  BY <1>2, <1>4, ArrivalsFollow DEF PromiseInv
<1>5. CASE Outside /\ UNCHANGED run
  <2>1. ASSUME NEW q \in Proc PROVE Following(q)'
    <3>1. CASE At(q, "idle") BY <1>1, <1>5, <3>1
    <3>2. CASE ~At(q, "idle")
      <4>1. on' = on BY <1>5, <3>2, OutsideKeepsPromise DEF AllIdle
      <4> QED BY <1>5, <4>1, OutsideKeepsPromise DEF PromiseInv, Following, At
    <3> QED BY <3>1, <3>2
  <2> QED BY <1>5, <2>1, OutsideKeepsPromise DEF PromiseInv
<1>6. CASE UNCHANGED vars BY <1>2, <1>6 DEF vars, store, PromiseInv
<1> QED BY <1>3, <1>4, <1>5, <1>6, NextMoves DEF store

\* Where auto-sync is the only operation, Lifecycle implements PinnedFork, so
\* whatever people commit, push, fetch and record meanwhile, after crashes,
\* lost answers and forced pushes refused: a revision is pinned only once the
\* fork has it, and the fork never goes back (lifecycle.py 294-316).  Runs must
\* not overlap, and nobody switches branches under one.
THEOREM AutoSyncKeepsPromise ==
  ASSUME RunsSerial = TRUE, OperatorWaits = TRUE \/ "topic" \notin Env,
         Ops \subseteq {"auto", "dry"}, \A pin \in InitPins : pin.sha.base = 1
  PROVE  Spec => Promise!Spec
<1>1. ASSUME Init PROVE PromiseInv /\ Promise!Init
  <2>1. PICK pin \in InitPins, flag \in Flags : yaml = [pin |-> pin, flag |-> flag]
    BY <1>1 DEF Init
  <2>2. yaml.pin.sha.base = 1 BY <2>1
  <2>3. \A p \in Proc : run[p].pc = "idle" /\ run[p].op = "auto" BY <1>1 DEF Init, NoRun
  <2> QED BY <1>1, <2>2, <2>3
             DEF Init, GitInit, Up, Branch, PromiseInv, Following, At, Promise!Init
<1>2. TypeOK /\ CalmInv /\ PromiseInv /\ [Next]_vars
        => PromiseInv' /\ [Promise!Next]_(Promise!vars)
  <2> SUFFICES ASSUME TypeOK, CalmInv, PromiseInv, [Next]_vars
               PROVE  PromiseInv' /\ [Promise!Next]_(Promise!vars)
    OBVIOUS
  <2> USE DEF Promise!Next, Promise!vars
  <2>0. /\ rev \in Nat /\ rev' \in 1..MaxRev /\ MaxRev \in Nat
        /\ origin.base \in Nat /\ tip["branch"].base \in Nat
        /\ origin.base <= tip["branch"].base /\ tip["branch"].base <= rev
    <3>1. TypeOK' BY NextType
    <3> QED BY <3>1, PromiseBases DEF CalmInv, TypeOK, GitTypeOK
  <2>1. PromiseInv' /\ PromiseStep BY PromiseNext
  <2>2. CASE Advances BY <2>0, <2>1, <2>2 DEF Advances, Promise!Advance
  <2>3. CASE Publishes BY <2>0, <2>1, <2>3 DEF Publishes, Promise!Publish
  <2>4. CASE PinsFork BY <2>0, <2>1, <2>4 DEF PinsFork, Promise!PinFork
  <2> QED BY <2>1, <2>2, <2>3, <2>4 DEF PromiseStep
<1>3. Spec => [](TypeOK /\ CalmInv) BY CalmAlways
<1> QED BY <1>1, <1>2, <1>3, PTL DEF Spec, Promise!Spec
=============================================================================
