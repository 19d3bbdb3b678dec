----------------------------- MODULE Lifecycle -----------------------------
(***************************************************************************)
(* The operations of lifecycle.py on one managed source, run by several    *)
(* processes against the same clone, registry yaml and patch yamls.        *)
(*                                                                         *)
(* Consumers call the service facade and pass the callbacks                *)
(* has_local_patches, on_pin_update and install_runner; CLI processes run  *)
(* cli.py, which passes none of them.  Every git command, callback and     *)
(* file access is a step of its own, so runs interleave with each other,   *)
(* with upstream, with other people's pushes and with the operator.        *)
(***************************************************************************)
EXTENDS GitClone

CONSTANTS
  Consumers, Clis,  \* processes calling the facade, and `sourceregistry` runs
  Ops,              \* operations started, a subset of AllOps
  Modes,            \* install modes asked for
  InitPins,         \* pins the registry yaml may start with
  Flags,            \* values of auto_sync in the yaml
  Env,              \* what people do meanwhile, a subset of AllEnv
  RunsSerial,       \* discipline: no operation starts while another runs
  OperatorWaits,    \* discipline: the clone and the patch yamls are left
                    \* alone while an operation runs
  MaxFaults         \* bound: failures and crashes

AllOps    == {"bump", "bumpTo", "rebase", "sync", "auto", "dry"}
AllModes  == {"dev", "ci", "prod"}
AllFlags  == {"absent", "true", "false"}
AllEnv    == {"fix", "dirty", "topic", "foreign", "push", "refetch",
               "resolve"}
Proc      == Consumers \cup Clis
\* A pin is a prefix of a commit's SHA, `len` digits of it.
Pin       == [sha : Commit, len : 1..40]
Entry     == [pin : Pin, flag : AllFlags]
Pcs       == {"idle", "rbclean", "rbfetch", "rebase", "fetch", "resolve",
              "decide", "checkout", "reset", "push", "clean", "head", "pin",
              "install", "done"}
Results   == {"none", "ok", "failed", "error", "blocked", "no_op", "synced",
              "crashed"}
Taken     == {"reset", "pushed", "bumped", "reinstalled"}
Run       == [pc : Pcs, op : AllOps, mode : AllModes, entry : Entry,
              changed : BOOLEAN, new : Pin, taken : SUBSET Taken,
              result : Results]

ASSUME LifecycleAssumption ==
  /\ Consumers \cap Clis = {}
  /\ Ops \subseteq AllOps /\ Modes \subseteq AllModes
  /\ InitPins \subseteq Pin
  /\ Flags \subseteq AllFlags /\ Env \subseteq AllEnv
  /\ RunsSerial \in BOOLEAN /\ OperatorWaits \in BOOLEAN
  /\ MaxFaults \in Nat

VARIABLES
  records,    \* fixes with a patch yaml
  dropped,    \* fixes whose patch yaml was removed after upstream's merge
  yaml,       \* the source's entry in the registry yaml on disk
  installed,  \* the commit the installed package was built from
  run,        \* the operation each process is running: its step `pc`, its
              \* arguments, and the result under construction (`taken` is
              \* AutoSyncResult.actions_taken)
  faults      \* failures and crashes so far

store == <<records, dropped, yaml, installed>>
vars  == <<gitVars, store, run, faults>>

TypeOK ==
  /\ GitTypeOK
  /\ records \in SUBSET Patch /\ dropped \in SUBSET Patch
  /\ yaml \in Entry
  /\ installed \in Commit
  /\ run \in [Proc -> Run]
  /\ faults \in 0..MaxFaults

NoRun(e) == [pc |-> "idle", op |-> "auto", mode |-> "dev", entry |-> e,
             changed |-> FALSE, new |-> e.pin, taken |-> {},
             result |-> "none"]

Init ==
  /\ GitInit
  /\ records = {} /\ dropped = {}
  /\ \E pin \in InitPins, flag \in Flags : yaml = [pin |-> pin, flag |-> flag]
  /\ installed = Up(1)
  /\ run = [p \in Proc |-> NoRun(yaml)]
  /\ faults = 0

-----------------------------------------------------------------------------
At(p, l)     == run[p].pc = l
Become(p, r) == run' = [run EXCEPT ![p] = r]
Goto(p, l)   == Become(p, [run[p] EXCEPT !.pc = l])
Did(p, a, l) == Become(p, [run[p] EXCEPT !.pc = l,
                                         !.taken = run[p].taken \cup {a}])
Return(p, r) == Become(p, [run[p] EXCEPT !.pc = "done", !.result = r])

Fault   == faults < MaxFaults /\ faults' = faults + 1
NoFault == faults' = faults

AllIdle == \A p \in Proc : At(p, "idle")

\* The pin starts with the first 7 digits of the commit's SHA.  Distinct
\* commits are taken to differ there.
PinStartsWith(pin, c) == pin.len >= 7 /\ pin.sha = c
ShortPin(c) == [sha |-> c, len |-> 7]

\* auto_sync defaults to true in the contract.
AutoSyncAllowed(entry) == entry.flag # "false"

\* Slips: patch yamls never consulted; a listing cached before the drop.
HasLocalPatchesNever(p)  == FALSE
HasLocalPatchesCached(p) == p \in Consumers /\ records \cup dropped # {}
HasLocalPatches(p) == p \in Consumers /\ records # {}
PersistsPin(p)     == p \in Consumers
RunsInstaller(p)   == p \in Consumers

-----------------------------------------------------------------------------
(* Starting an operation *)

\* SourceRegistry.from_yaml: the facade keeps the entries it read.
Load(p) ==
  /\ p \in Consumers /\ At(p, "idle")
  /\ run[p].entry # yaml
  /\ Become(p, [run[p] EXCEPT !.entry = yaml])
  /\ NoFault /\ UNCHANGED <<gitVars, store>>

FirstPc(op) == CASE op \in {"bump", "bumpTo"} -> "clean"
                 [] op \in {"rebase", "sync"} -> "rbclean"
                 [] op \in {"auto", "dry"}    -> "fetch"

\* A CLI run reads the yaml first; a consumer uses what its facade holds.
\* auto_sync_source's first check (237-240) is made here.
Start(p, op, mode) ==
  LET entry   == IF p \in Clis THEN yaml ELSE run[p].entry
      refused == op \in {"auto", "dry"} /\ ~AutoSyncAllowed(entry)
  IN /\ At(p, "idle")
     /\ RunsSerial => AllIdle
     /\ Become(p, [NoRun(entry) EXCEPT
                     !.op = op, !.mode = mode,
                     !.pc = IF refused THEN "done" ELSE FirstPc(op),
                     !.result = IF refused THEN "blocked" ELSE "none"])
     /\ NoFault /\ UNCHANGED <<gitVars, store>>

-----------------------------------------------------------------------------
(* rebase_source.  A fault here and below is a command that fails: the      *)
(* clone is missing, the network or the disk is not there, a ref is gone.  *)

RebaseClean(p) ==
  /\ At(p, "rbclean")
  /\ \/ Clean /\ Goto(p, "rbfetch") /\ NoFault
     \/ ~Clean /\ Return(p, "error") /\ NoFault
     \/ Fault /\ Return(p, "error")
  /\ UNCHANGED <<gitVars, store>>

RebaseFetch(p) ==
  /\ At(p, "rbfetch")
  /\ \/ FetchUpstream /\ Goto(p, "rebase") /\ NoFault
     \/ Fault /\ Return(p, "failed") /\ UNCHANGED gitVars
  /\ UNCHANGED store

\* sync_source goes on to bump; rebase_source returns.
Rebase(p) ==
  /\ At(p, "rebase")
  /\ \/ /\ RebaseOk
        /\ IF run[p].op = "sync" THEN Goto(p, "clean") ELSE Return(p, "ok")
     \/ (RebaseConflict \/ RebaseRefused) /\ Return(p, "failed")
  /\ NoFault /\ UNCHANGED store

-----------------------------------------------------------------------------
(* auto_sync_source *)

AutoFetch(p) ==
  /\ At(p, "fetch")
  /\ \/ FetchUpstream /\ Goto(p, "resolve") /\ NoFault
     \/ Fault /\ Return(p, "blocked") /\ UNCHANGED gitVars
  /\ UNCHANGED store

\* head_sha_at_ref, compared with the pin of the entry in hand.
Resolve(p) ==
  /\ At(p, "resolve")
  /\ \/ /\ Become(p, [run[p] EXCEPT !.pc = "decide",
             !.changed = ~PinStartsWith(run[p].entry.pin, upRef)])
        /\ NoFault
     \/ Fault /\ Return(p, "blocked")
  /\ UNCHANGED <<gitVars, store>>

Decide(p) ==
  /\ At(p, "decide")
  /\ IF HasLocalPatches(p) \/ ~run[p].changed THEN Return(p, "no_op")
     ELSE IF run[p].op = "dry" THEN Return(p, "synced")
     ELSE Goto(p, "checkout")
  /\ NoFault /\ UNCHANGED <<gitVars, store>>

Checkout(p) ==
  /\ At(p, "checkout")
  /\ \/ CheckoutBranch /\ Goto(p, "reset")
     \/ CheckoutRefused /\ Return(p, "blocked")
  /\ NoFault /\ UNCHANGED store

\* Slip: pin and install before the push.
ResetThenBump(p) ==
  /\ At(p, "reset")
  /\ \/ ResetHard /\ Did(p, "reset", "clean") /\ NoFault
     \/ Fault /\ Return(p, "blocked") /\ UNCHANGED gitVars
  /\ UNCHANGED store

Reset(p) ==
  /\ At(p, "reset")
  /\ \/ ResetHard /\ Did(p, "reset", "push") /\ NoFault
     \/ Fault /\ Return(p, "blocked") /\ UNCHANGED gitVars
  /\ UNCHANGED store

Push(p) ==
  /\ At(p, "push")
  /\ \/ ForcePushWithLease /\ Did(p, "pushed", "clean") /\ NoFault
     \/ PushRejected /\ Return(p, "blocked") /\ NoFault
     \/ Fault /\ Return(p, "blocked") /\ UNCHANGED gitVars
  /\ UNCHANGED store

-----------------------------------------------------------------------------
(* bump_source, on its own, in sync_source and in auto_sync_source *)

\* Slip: no clean check.
BumpAnyway(p) ==
  /\ At(p, "clean")
  /\ Goto(p, "head")
  /\ NoFault /\ UNCHANGED <<gitVars, store>>

BumpClean(p) ==
  /\ At(p, "clean")
  /\ \/ Clean /\ Goto(p, "head") /\ NoFault
     \/ ~Clean /\ Return(p, "error") /\ NoFault
     \/ Fault /\ Return(p, "error")
  /\ UNCHANGED <<gitVars, store>>

\* to_sha, or HEAD's first 7 digits.
BumpTargets(p) == IF run[p].op = "bumpTo"
                  THEN {[sha |-> c, len |-> 40] : c \in {head, upRef, orRef}}
                  ELSE {ShortPin(head)}

BumpHead(p) ==
  /\ At(p, "head")
  /\ \E new \in BumpTargets(p) :
       Become(p, [run[p] EXCEPT !.pc = "pin", !.new = new])
  /\ NoFault /\ UNCHANGED <<gitVars, store>>

\* Slip: the callback gets the commit instead of the pin.
BumpPinRaw(p) ==
  /\ At(p, "pin")
  /\ yaml' = IF PersistsPin(p) THEN [yaml EXCEPT !.pin = run[p].new.sha] ELSE yaml
  /\ IF run[p].op \in {"bump", "bumpTo"} THEN Return(p, "ok")
     ELSE Did(p, "bumped", "install")
  /\ NoFault /\ UNCHANGED <<gitVars, records, dropped, installed>>

\* on_pin_update: the consumer writes the pin to its registry yaml.
BumpPin(p) ==
  /\ At(p, "pin")
  /\ yaml' = IF PersistsPin(p) THEN [yaml EXCEPT !.pin = run[p].new] ELSE yaml
  /\ IF run[p].op \in {"bump", "bumpTo"} THEN Return(p, "ok")
     ELSE Did(p, "bumped", "install")
  /\ NoFault /\ UNCHANGED <<gitVars, records, dropped, installed>>

\* Slip: the entry's pin in every mode.
InstallOldPin(p) == run[p].entry.pin.sha

\* What the installer builds: the working copy in dev mode, the pin of the
\* entry it was handed in ci and prod.
InstallTarget(p) == IF run[p].mode = "dev" THEN head ELSE run[p].entry.pin.sha

InstallOk(p) == IF run[p].op = "auto" THEN "synced" ELSE "ok"

Install(p) ==
  /\ At(p, "install")
  /\ \/ /\ RunsInstaller(p)
        /\ installed' = InstallTarget(p)
        /\ Become(p, [run[p] EXCEPT !.pc = "done", !.result = InstallOk(p),
                                    !.taken = run[p].taken \cup {"reinstalled"}])
        /\ NoFault
     \/ /\ RunsInstaller(p) /\ Fault
        /\ Return(p, IF run[p].op = "auto" THEN "blocked" ELSE "failed")
        /\ UNCHANGED installed
     \/ /\ ~RunsInstaller(p)
        /\ Return(p, InstallOk(p)) /\ NoFault /\ UNCHANGED installed
  /\ UNCHANGED <<gitVars, records, dropped, yaml>>

-----------------------------------------------------------------------------
\* The caller takes the result and is free to run another operation.
Finish(p) ==
  /\ At(p, "done")
  /\ Become(p, NoRun(run[p].entry))
  /\ NoFault /\ UNCHANGED <<gitVars, store>>

\* The process dies between its steps, or in one that had no effect yet.
Crash(p) ==
  /\ run[p].pc \notin {"idle", "done"}
  /\ Fault /\ Return(p, "crashed")
  /\ UNCHANGED <<gitVars, store>>

\* What a git command may have done by the time it is killed: all of its
\* work, with the answer lost, or some.
LeftByGit(p) ==
  \/ run[p].pc \in {"rbfetch", "fetch"} /\ FetchUpstream
  \/ At(p, "rebase")   /\ (RebaseOk \/ RebaseConflict \/ RebaseKilled)
  \/ At(p, "checkout") /\ (CheckoutBranch \/ TreeHalfWritten)
  \/ At(p, "reset")    /\ (ResetHard \/ TreeHalfWritten)
  \/ At(p, "push")     /\ PushAnswerLost

\* It runs into the 60 s of _git, which kills it and raises what nobody
\* catches, or the process dies under it.
KilledInGit(p) ==
  /\ LeftByGit(p)
  /\ Fault /\ Return(p, "crashed")
  /\ UNCHANGED store

Step(p) ==
  \/ RebaseClean(p) \/ RebaseFetch(p) \/ Rebase(p)
  \/ AutoFetch(p) \/ Resolve(p) \/ Decide(p) \/ Checkout(p) \/ Reset(p)
  \/ Push(p)
  \/ BumpClean(p) \/ BumpHead(p) \/ BumpPin(p) \/ Install(p) \/ Finish(p)

-----------------------------------------------------------------------------
(* The operator and the rest of the world *)

OperatorMayAct == OperatorWaits => AllIdle

\* The operator records a fix the branch carries in a patch yaml.
RecordFix(p) ==
  /\ p \in Content(tip["branch"]) \ (records \cup dropped)
  /\ records' = records \cup {p}
  /\ UNCHANGED <<gitVars, dropped, yaml, installed>>

\* poll reported DROP_PATCH: upstream merged the fix, the yaml goes.
DropFix(p) ==
  /\ p \in records /\ mergedAt[p] # 0
  /\ records' = records \ {p} /\ dropped' = dropped \cup {p}
  /\ UNCHANGED <<gitVars, yaml, installed>>

Operator ==
  /\ OperatorMayAct
  /\ UNCHANGED <<run, faults>>
  /\ \/ /\ UNCHANGED store
        /\ \/ "fix" \in Env     /\ \E p \in Patch : CommitFix(p)
           \/ "dirty" \in Env   /\ \E w \in {"tracked", "untracked"} : LeaveWork(w)
           \/ "dirty" \in Env   /\ TidyUp
           \/ "topic" \in Env   /\ (SwitchToTopic \/ SwitchBack)
           \/ "resolve" \in Env /\ (FinishRebase \/ AbortRebase \/ QuitRebase)
           \/ "push" \in Env    /\ OperatorPush
     \/ "fix" \in Env /\ \E p \in Patch : RecordFix(p) \/ DropFix(p)

\* git fetch origin, the way out when the push was rejected.  It touches
\* neither the working tree nor the branch, so it may come at any time.
Refetch ==
  /\ "refetch" \in Env /\ FetchOrigin
  /\ UNCHANGED <<store, run, faults>>

World ==
  /\ \/ UpstreamAdvance
     \/ "foreign" \in Env /\ \E p \in Patch : ForeignPush(p)
  /\ UNCHANGED <<store, run, faults>>

Next ==
  \/ \E p \in Proc : \/ Load(p) \/ Step(p) \/ Crash(p) \/ KilledInGit(p)
                     \/ \E op \in Ops, mode \in Modes : Start(p, op, mode)
  \/ Operator \/ Refetch
  \/ World

Spec == Init /\ [][Next]_vars

\* The consumer's scheduler keeps reading the registry and starting
\* auto-sync, the operating system keeps running what was started, and an
\* operator told of a rejected push looks at the fork.  Nothing is assumed
\* of upstream, of other people or of faults.
Fairness ==
  /\ \A p \in Proc : WF_vars(Step(p))
  /\ \A p \in Consumers : SF_vars(Load(p))
  /\ \A p \in Consumers : SF_vars(Start(p, "auto", "dev"))
  /\ SF_vars(Refetch)

FairSpec == Spec /\ Fairness

-----------------------------------------------------------------------------
(* Properties *)

\* A fix with a patch yaml is in the branch, carried as a commit or merged
\* upstream, and stays there when poll's DROP_PATCH removed its yaml: neither
\* the rebase nor the reset of auto-sync (lifecycle.py 159, 294) loses it.
FixesKept == records \cup dropped \subseteq Content(tip["branch"])

\* Work others pushed to the fork survives auto-sync's force push (305) as
\* long as this clone has not fetched it, whatever runs at the same time.
ForeignWorkKept == foreign \subseteq origin.fixes

\* When auto-sync reports "synced", the pin in the yaml, HEAD, the branch and
\* the fork as last pushed are one commit, and so is the package of a dev
\* install.  (One of ci or prod is built at the pin the entry had before.)
SyncedIsConsistent ==
  \A p \in Consumers :
    At(p, "done") /\ run[p].op = "auto" /\ run[p].result = "synced"
      => /\ yaml.pin = ShortPin(head)
         /\ head = tip["branch"] /\ head = orRef
         /\ run[p].mode = "dev" => head = installed

\* A pin is all of the branch checked out, not some of its fixes: the commit
\* a rebase stopped at for a conflict is never pinned, by bump (101) or by the
\* operations that bump after git commands of their own (195, 315).  One case
\* escapes the clean check: where the timeout killed a rebase between two
\* picks the tree is clean, and a later bump of its own pins the half.
PinsWholeBranch ==
  [][\A p \in Proc : At(p, "pin") /\ run[p].op # "bumpTo" /\ yaml' # yaml
       => \/ yaml'.pin.sha = tip[on]
          \/ run[p].op = "bump" /\ rebasing = "half"]_vars

\* Neither the branch nor a pin on its history ever goes back to an older
\* revision, over any sequence of bump, rebase, sync and auto-sync with
\* rebases stopped, killed and aborted and pushes refused in between.  (A pin
\* ahead of the branch is one taken from a killed rebase that was aborted.)
PinNeverRegresses ==
  [][/\ tip'["branch"].base >= tip["branch"].base
     /\ yaml.pin.sha.base <= tip["branch"].base
          => yaml'.pin.sha.base >= yaml.pin.sha.base]_vars

\* Once upstream rests and no fix is recorded any more, auto-sync brings the
\* pin to upstream's newest revision, in the length its own comparison (266)
\* accepts, and leaves it there: after any overlap of runs, killed commands,
\* short pins and stale facades.  (After a lost push answer the lease is
\* stale, and only a fetch of origin, assumed in Fairness, renews it.)
TracksUpstream ==
  <>[](records = {}) => <>[](PinStartsWith(yaml.pin, Up(rev)))

\* auto-sync implements the promise made to the registry's readers: the pin
\* moves only to what the fork holds, and both catch up with upstream
\* (lifecycle.py 294-316: reset, push, then bump).
Promise == INSTANCE PinnedFork
             WITH up <- rev, fork <- origin.base, pin <- yaml.pin.sha.base
PinFollowsFork == Promise!FairSpec
=============================================================================
