------------------------------- MODULE Fleet -------------------------------
(***************************************************************************)
(* The facade over a whole registry: auto_sync_all and verify_all go       *)
(* through the sources in the order of the registry yaml (lifecycle.py,    *)
(* verify.py, service.py), while upstreams move, people work in the clones *)
(* and patches come and go.                                                *)
(*                                                                         *)
(* One source's auto-sync is taken in a step per change it makes, each     *)
(* with the reads and checks right before it; its single git commands, and *)
(* the fixes, are the matter of Lifecycle.  A commit is the upstream       *)
(* revision it stands on.                                                  *)
(***************************************************************************)
EXTENDS Naturals, FiniteSets, FiniteSetsExt

CONSTANTS
  Sources,     \* the registry's sources, numbered in the yaml's order
  Kind,        \* install_kind of each
  AutoSync,    \* the sources with auto_sync: true
  Modes,       \* install modes the passes are given
  Consumers,   \* programs that keep a facade and pass the callbacks
  Does,        \* the operations each of them runs
  MaxRev,      \* bound: revisions of each upstream
  Asked,       \* what they are run for: all the sources, or one by name
  Moving,      \* sources whose upstream moves
  Messy,       \* sources whose clone people leave files in, remove, clone anew
  Patchy,      \* sources whose patch yamls come and go
  MaxFaults    \* bound: failures and timeouts

Ops  == {"auto", "verify"}
Revs == 1..MaxRev

ASSUME FleetAssumption ==
  /\ Sources \subseteq Nat /\ IsFiniteSet(Sources) /\ Sources # {}
  /\ Kind \in [Sources -> {"external", "cli_tool", "library", "binary", "none"}]
  /\ {AutoSync, Moving, Messy, Patchy} \subseteq SUBSET Sources
  /\ Modes \subseteq {"dev", "ci"} /\ Does \in [Consumers -> SUBSET Ops]
  /\ Asked \subseteq {Sources} \cup {{s} : s \in Sources}
  /\ MaxRev \in Nat \ {0} /\ MaxFaults \in Nat

VARIABLES
  rev,      \* upstream's newest revision, of each source
  fork,     \* the fork's branch on the server
  clone,    \* local_path: there or not, HEAD, upstream/<branch> (ref),
            \* origin/<branch> (seen), stray files
  pins,     \* expected_sha of each entry of the registry yaml
  built,    \* what uv has installed, and how direct_url.json says it was;
            \* of a source that is no cli_tool nobody looks at it
  patched,  \* sources with a patch yaml
  pass,     \* the operation each process is running, with its entries
  faults    \* failures so far

world     == <<rev, fork, clone, pins, built, patched>>
fleetVars == <<world, pass, faults>>

Clone  == [there : BOOLEAN, head : Revs, ref : Revs, seen : Revs, stray : BOOLEAN]
Build  == [rev : Revs, from : {"none", "dir", "vcs"}]
Pass   == [pc : {"idle", "compare", "reset", "push", "bump", "install",
                 "look", "repo", "head", "returned", "raised"},
           entries : [Sources -> Revs], todo : SUBSET Sources,
           ok : SUBSET Sources, bad : SUBSET Sources]

FleetTypeOK ==
  /\ rev \in [Sources -> Revs] /\ fork \in [Sources -> Revs]
  /\ clone \in [Sources -> Clone]
  /\ pins \in [Sources -> Revs]
  /\ built \in [Sources -> Build]
  /\ patched \in SUBSET Sources
  /\ pass \in [Consumers -> Pass]
  /\ faults \in 0..MaxFaults

NoPass(all) == [pc |-> "idle", entries |-> all, todo |-> {}, ok |-> {}, bad |-> {}]

Init ==
  /\ rev = [s \in Sources |-> 1] /\ fork = rev /\ pins = rev
  /\ clone = [s \in Sources |->
       [there |-> TRUE, head |-> 1, ref |-> 1, seen |-> 1, stray |-> FALSE]]
  /\ built = [s \in Sources |-> [rev |-> 1, from |-> "none"]]
  /\ patched = {}
  /\ pass = [p \in Consumers |-> NoPass(pins)]
  /\ faults = 0

-----------------------------------------------------------------------------
At(p, l)     == pass[p].pc = l
Become(p, r) == pass' = [pass EXCEPT ![p] = r]
Goto(p, l)   == Become(p, [pass[p] EXCEPT !.pc = l])
This(p)      == Min(pass[p].todo)
Pin(p)       == pass[p].entries[This(p)]
Here(p)      == clone[This(p)]
Fault        == faults < MaxFaults /\ faults' = faults + 1
Quiet        == faults' = faults

\* The comprehension goes on to the next entry, or returns.
Go(p, l, r) ==
  LET rest == pass[p].todo \ {This(p)}
  IN Become(p, [r EXCEPT !.todo = rest, !.pc = IF rest = {} THEN "returned" ELSE l])

\* auto_sync_source is through with its entry, synced, no_op or blocked (the
\* callers in src/ only print which); verify_source has its verdict.
Through(p)     == Go(p, "compare", pass[p])
Verdict(p, ok) == Go(p, "look", IF ok THEN [pass[p] EXCEPT !.ok  = @ \cup {This(p)}]
                                      ELSE [pass[p] EXCEPT !.bad = @ \cup {This(p)}])

\* An exception leaves the comprehension, and its list with it.
Raise(p) == Become(p, [NoPass(pass[p].entries) EXCEPT !.pc = "raised"])

\* A git command fails, or runs into the timeout nobody catches; which may
\* be when its work was done.
GitFails(p) == Fault /\ (Through(p) \/ Raise(p))

\* Slip: the patches of every source, not of this one.
HasAnyPatches(s)   == patched # {}
HasLocalPatches(s) == s \in patched

-----------------------------------------------------------------------------
(* SourceRegistry *)

\* from_yaml: a consumer that builds a new facade.
Load(p) ==
  /\ At(p, "idle")
  /\ pass[p].entries # pins
  /\ Become(p, [pass[p] EXCEPT !.entries = pins])
  /\ Quiet /\ UNCHANGED world

\* All entries the facade holds, or the one a name resolves to.
Start(p, op, names) ==
  /\ At(p, "idle") /\ op \in Does[p]
  /\ Become(p, [pass[p] EXCEPT !.todo = names,
                               !.pc = IF op = "auto" THEN "compare" ELSE "look"])
  /\ Quiet /\ UNCHANGED world

Finish(p) ==
  /\ At(p, "returned") \/ At(p, "raised")
  /\ Become(p, NoPass(pass[p].entries))
  /\ Quiet /\ UNCHANGED world

-----------------------------------------------------------------------------
(* auto_sync_source *)

\* The refusals, the fetch, and what the comparison and the patches decide.
Compare(p) ==
  /\ At(p, "compare")
  /\ LET s       == This(p)
         allowed == s \in AutoSync /\ Here(p).there
         fetched == [clone EXCEPT ![s].ref = rev[s]]
     IN \/ ~allowed /\ Through(p) /\ Quiet /\ UNCHANGED clone
        \/ /\ allowed /\ clone' = fetched
           /\ IF HasLocalPatches(s) \/ Pin(p) = rev[s] THEN Through(p)
              ELSE Goto(p, "reset")
           /\ Quiet
        \/ allowed /\ GitFails(p) /\ clone' \in {clone, fetched}
  /\ UNCHANGED <<rev, fork, pins, built, patched>>

\* checkout and reset --hard, which leave stray files where they are.
Reset(p) ==
  /\ At(p, "reset")
  /\ LET wasReset == [clone EXCEPT ![This(p)].head = Here(p).ref]
     IN \/ Here(p).there /\ clone' = wasReset /\ Goto(p, "push") /\ Quiet
        \/ ~Here(p).there /\ Through(p) /\ Quiet /\ UNCHANGED clone
        \/ Here(p).there /\ GitFails(p) /\ clone' \in {clone, wasReset}
  /\ UNCHANGED <<rev, fork, pins, built, patched>>

\* Slip: the push left to the end of the pass.
PushLater(p) ==
  /\ At(p, "push")
  /\ Goto(p, "bump") /\ Quiet /\ UNCHANGED world

\* The fork's branch is where this clone last saw it, or where it is to go.
LeaseHolds(s) == fork[s] \in {clone[s].seen, clone[s].head}

\* A push the server takes and one it refuses; then one whose answer is lost,
\* after which the clone goes on with the branch of before, and one that did
\* not reach the server.
Push(p) ==
  /\ At(p, "push")
  /\ LET s == This(p)
         sent == Here(p).there /\ LeaseHolds(s)
     IN \/ /\ sent
           /\ fork' = [fork EXCEPT ![s] = Here(p).head]
           /\ clone' = [clone EXCEPT ![s].seen = Here(p).head]
           /\ Goto(p, "bump") /\ Quiet
        \/ ~sent /\ Through(p) /\ Quiet /\ UNCHANGED <<fork, clone>>
        \/ /\ sent
           /\ fork' = [fork EXCEPT ![s] = Here(p).head]
           /\ GitFails(p) /\ UNCHANGED clone
        \/ GitFails(p) /\ UNCHANGED <<fork, clone>>
  /\ UNCHANGED <<rev, pins, built, patched>>

\* Slip: what rev-parse prints taken unchecked, nothing if the clone is gone.
BumpUnchecked(p) ==
  /\ At(p, "bump")
  /\ pins' = [pins EXCEPT ![This(p)] = IF Here(p).there THEN Here(p).head ELSE 0]
  /\ Goto(p, "install") /\ Quiet
  /\ UNCHANGED <<rev, fork, clone, built, patched>>

\* bump_source: a clone that is gone or not clean raises.
Bump(p) ==
  /\ At(p, "bump")
  /\ \/ /\ Here(p).there /\ ~Here(p).stray
        /\ pins' = [pins EXCEPT ![This(p)] = Here(p).head]
        /\ Goto(p, "install") /\ Quiet
     \/ (~Here(p).there \/ Here(p).stray) /\ Raise(p) /\ Quiet /\ UNCHANGED pins
     \/ Fault /\ Raise(p) /\ UNCHANGED pins
  /\ UNCHANGED <<rev, fork, clone, built, patched>>

\* install_runner, handed the entry from before the bump: in dev mode it
\* installs the working copy, else the pin of that entry.
Install(p) ==
  /\ At(p, "install")
  /\ LET s == This(p)
     IN \/ /\ Kind[s] = "cli_tool"
           /\ \/ /\ "dev" \in Modes /\ Here(p).there
                 /\ built' = [built EXCEPT ![s] = [rev |-> Here(p).head, from |-> "dir"]]
              \/ /\ "ci" \in Modes
                 /\ built' = [built EXCEPT ![s] = [rev |-> Pin(p), from |-> "vcs"]]
              \/ "dev" \in Modes /\ ~Here(p).there /\ UNCHANGED built
           /\ Through(p) /\ Quiet
        \/ Kind[s] # "cli_tool" /\ Through(p) /\ Quiet /\ UNCHANGED built
        \/ GitFails(p) /\ UNCHANGED built
  /\ UNCHANGED <<rev, fork, clone, pins, patched>>

-----------------------------------------------------------------------------
(* verify_source, and verify_all over the entries.  An exception is what    *)
(* a git timeout is, and a HEAD that is gone when it is read again.         *)

\* Slip: a tool's clone asked instead of its installation.
LookAtClone(p) ==
  /\ At(p, "look")
  /\ IF Here(p).there THEN Goto(p, "repo") ELSE Verdict(p, FALSE)
  /\ Quiet /\ UNCHANGED world

\* Slip: a tool installed from a directory has no commit_id, hence no SHA.
LookAtVcsOnly(p) ==
  /\ At(p, "look")
  /\ IF Kind[This(p)] = "external" /\ Here(p).there THEN Goto(p, "repo")
     ELSE Verdict(p, built[This(p)].from = "vcs" /\ built[This(p)].rev = Pin(p))
  /\ Quiet /\ UNCHANGED world

\* _verify_cli_tool, where vcs_info names the commit.
BuiltAt(tool, pin) == tool.from = "vcs" /\ tool.rev = pin

\* path.exists, or the direct_url.json of an installed tool: it names the
\* commit it was built from, or the directory.
Look(p) ==
  /\ At(p, "look")
  /\ LET kind == Kind[This(p)]
         tool == built[This(p)]
     IN IF \/ kind = "external" /\ Here(p).there
           \/ kind = "cli_tool" /\ tool.from = "dir"
        THEN Goto(p, "repo")
        ELSE Verdict(p, \/ kind = "none" /\ Here(p).there
                        \/ kind = "cli_tool" /\ BuiltAt(tool, Pin(p)))
  /\ Quiet /\ UNCHANGED world

\* is_git_repo
Repo(p) ==
  /\ At(p, "repo")
  /\ \/ Here(p).there /\ Goto(p, "head") /\ Quiet
     \/ ~Here(p).there /\ Verdict(p, FALSE) /\ Quiet
     \/ Fault /\ (Verdict(p, FALSE) \/ Raise(p))
  /\ UNCHANGED world

\* Only the verifier of tools catches what get_head_sha raises.
NoHead(p) == IF Kind[This(p)] = "cli_tool" THEN Verdict(p, FALSE) ELSE Raise(p)

\* get_head_sha
ReadHead(p) ==
  /\ At(p, "head")
  /\ \/ Here(p).there /\ Verdict(p, Here(p).head = Pin(p)) /\ Quiet
     \/ /\ (~Here(p).there /\ Quiet) \/ Fault
        /\ NoHead(p)
  /\ UNCHANGED world

Step(p) ==
  \/ Compare(p) \/ Reset(p) \/ Push(p) \/ Bump(p) \/ Install(p)
  \/ Look(p) \/ Repo(p) \/ ReadHead(p) \/ Finish(p)

-----------------------------------------------------------------------------
(* Upstream and people *)

UpstreamAdvance(s) ==
  /\ rev[s] < MaxRev
  /\ rev' = [rev EXCEPT ![s] = @ + 1]
  /\ UNCHANGED <<fork, clone, pins, built, patched>>

\* A file nobody committed appears or goes, the clone is removed or made
\* anew from the fork.
Mess(s) ==
  /\ \/ clone[s].there /\ clone' = [clone EXCEPT ![s].stray = ~@]
     \/ clone[s].there /\ clone' = [clone EXCEPT ![s].there = FALSE, ![s].stray = FALSE]
     \/ ~clone[s].there /\ clone' = [clone EXCEPT ![s] =
           [there |-> TRUE, head |-> fork[s], ref |-> rev[s], seen |-> fork[s],
            stray |-> FALSE]]
  /\ UNCHANGED <<rev, fork, pins, built, patched>>

\* git fetch origin, which no code of the project runs.
FetchOrigin(s) ==
  /\ clone[s].there
  /\ clone' = [clone EXCEPT ![s].seen = fork[s]]
  /\ UNCHANGED <<rev, fork, pins, built, patched>>

\* A patch yaml is written, or dropped.
Patch(s) ==
  /\ patched' = IF s \in patched THEN patched \ {s} ELSE patched \cup {s}
  /\ UNCHANGED <<rev, fork, clone, pins, built>>

People ==
  /\ \/ \E s \in Moving : UpstreamAdvance(s)
     \/ \E s \in Messy : Mess(s)
     \/ \E s \in Patchy : Patch(s)
     \/ \E s \in Sources : FetchOrigin(s)
  /\ UNCHANGED <<pass, faults>>

Next ==
  \/ \E p \in Consumers :
       \/ Load(p) \/ Step(p)
       \/ \E op \in Ops, names \in Asked : Start(p, op, names)
  \/ People

Spec == Init /\ [][Next]_fleetVars

\* Every consumer's scheduler keeps building facades, and starts each of its
\* operations over all the entries again and again.
Fairness ==
  \A p \in Consumers :
    /\ WF_fleetVars(Step(p))
    /\ SF_fleetVars(Load(p))
    /\ \A op \in Does[p] : SF_fleetVars(Start(p, op, Sources))

FairSpec == Spec /\ Fairness

-----------------------------------------------------------------------------
(* Properties *)

\* A source catches up with its upstream once its own clone and those of the
\* sources before it in the yaml are left in order, no patch holds it back
\* and its clone keeps learning where the fork is: whatever happens to the
\* sources after it, whether or not the pushes of those before it are refused
\* for ever, and whichever passes failed before, auto_sync_all (lifecycle.py
\* 340) gets to it.  Its clone learns from a push that is answered, and after
\* one that was not only from a fetch by the operator; without one the lease
\* (305) may refuse it for ever.
EarlierSourcesTrack ==
  \A s \in AutoSync :
    <>[](/\ s \notin patched
         /\ \A t \in Sources : t <= s => clone[t].there /\ ~clone[t].stray)
      => ([]<>(clone[s].seen = fork[s]) => <>[](pins[s] = rev[s]))

\* Of a tool installed from a directory nothing tells the commit; that the
\* clone is at the pin is all verify can mean.
Sound(s) ==
  CASE Kind[s] = "none"     -> clone[s].there
    [] Kind[s] \in {"library", "binary"} -> FALSE
    [] Kind[s] = "external" -> clone[s].there /\ clone[s].head = pins[s]
    [] Kind[s] = "cli_tool" ->
         \/ BuiltAt(built[s], pins[s])
         \/ built[s].from = "dir" /\ clone[s].there /\ clone[s].head = pins[s]
Verifiers     == {p \in Consumers : "verify" \in Does[p]}
Clears(p, s)  == At(p, "returned") /\ s \in pass[p].ok
Accuses(p, s) == At(p, "returned") /\ s \in pass[p].bad

\* No verify keeps vouching for a source that stays off its pin, such as a
\* tool whose reinstall from the fork failed after the pin had moved, or was
\* given the old pin (lifecycle.py 318), although its facade may be stale and
\* people and passes move the clone under it (verify.py 67-93, 130-182).
VerifyNoticesDrift ==
  \A s \in Sources, p \in Verifiers : <>[]~Sound(s) => <>[]~Clears(p, s)

\* Once a source stays on its pin, verify says so and goes on saying so,
\* whatever the other sources are found to be, as long as no clone is taken
\* away under it (verify.py 85).
VerifyClears ==
  \A s \in Sources, p \in Verifiers :
    <>[](Sound(s) /\ \A t \in Sources : clone[t].there)
      => <>[]~Accuses(p, s) /\ []<>Clears(p, s)

\* Every source keeps the promise of auto-sync by itself, whatever the pass
\* does to the others: its pin moves only to what its fork holds, which
\* moves only to what its upstream holds (lifecycle.py 294-316).
Promise(s) == INSTANCE PinnedFork
                WITH up <- rev[s], fork <- fork[s], pin <- pins[s]
EachPinFollowsItsFork ==
  [][\A s \in Sources : [Promise(s)!Next]_<<rev[s], fork[s], pins[s]>>]_fleetVars

-----------------------------------------------------------------------------
(* What the documentation says and the code does not do; refuted by a run.  *)

\* lifecycle.py 339, "Run auto-sync for every entry": with no command
\* failing, a pass comes to its end and has a result for every entry.
EveryEntryAnswered ==
  \A p \in Consumers : ~At(p, "raised")
=============================================================================
