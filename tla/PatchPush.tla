----------------------------- MODULE PatchPush -----------------------------
(***************************************************************************)
(* The patch yamls of one source (patches.py), the `push` and `drop`       *)
(* commands that read and rewrite them (push.py, patches.py), and the pull *)
(* requests upstream.  Every command runs against files that people and    *)
(* other commands change at the same time: each system call and each call  *)
(* of git or gh is a step of its own.                                      *)
(*                                                                         *)
(* A yaml is abstracted to the fields push and poll decide by.             *)
(* push_enabled stands for "push_enabled, and fork_branch set": push       *)
(* refuses alike when either is missing.                                   *)
(***************************************************************************)
EXTENDS Naturals, FiniteSets, FiniteSetsExt

CONSTANTS
  Patches,       \* PATCH-NNN of the source, as numbers: files are read in order
  Jobs,          \* processes running `push` or `drop`
  MaxPr,         \* bound: pull requests opened
  PushesSerial,  \* discipline: one push at a time
  RecordsAlone,  \* discipline: nobody touches a yaml while push rewrites it
  MaxFaults      \* bound: failures and crashes

ASSUME PatchPushAssumption ==
  /\ Patches \subseteq Nat /\ IsFiniteSet(Patches)
  /\ MaxPr \in Nat \ {0} /\ MaxFaults \in Nat
  /\ PushesSerial \in BOOLEAN /\ RecordsAlone \in BOOLEAN

VARIABLES
  disk,      \* the patch yamls
  autoPr,    \* auto_pr_push of the source's entry
  prs,       \* upstream: the pull requests, in order of number
  opened,    \* upstream: how many there are
  branches,  \* the fork: patch branches pushed to it
  job,       \* the command each process is running
  authored,  \* history: push_enabled as people last wrote it
  gone,      \* history: patches whose yaml was removed
  faults     \* failures and crashes so far

github == <<prs, opened, branches>>
people == <<authored, gone>>
pushVars == <<disk, autoPr, github, job, people, faults>>

Number == 0..MaxPr        \* 0: no pull request
\* "empty": truncated and not yet written.  "broken": a mapping that is no
\* PatchRecord, what push writes back after it read an empty file.
File == [kind : {"absent", "empty", "broken", "whole"},
         enabled : BOOLEAN, cites : Number, pushed : Number]
Pr   == [of : Patches \cup {0}, ours : BOOLEAN,
         state : {"none", "open", "closed", "merged"}]
Job  == [pc : {"idle", "read", "rails", "push", "create", "exists", "readback",
               "truncate", "write", "dropexists", "unlink", "done"},
         id : Patches \cup {0}, dry : BOOLEAN, todo : SUBSET Patches,
         seen : [Patches -> File], raw : File, url : Number,
         result : {"none", "ok", "failed", "error", "raised", "crashed"}]

Absent == [kind |-> "absent", enabled |-> FALSE, cites |-> 0, pushed |-> 0]
NoPr   == [of |-> 0, ours |-> FALSE, state |-> "none"]
NoJob  == [pc |-> "idle", id |-> 0, dry |-> FALSE, todo |-> {},
           seen |-> [p \in Patches |-> Absent], raw |-> Absent, url |-> 0,
           result |-> "none"]

PushTypeOK ==
  /\ disk \in [Patches -> File]
  /\ autoPr \in BOOLEAN
  /\ prs \in [1..MaxPr -> Pr] /\ opened \in Number
  /\ branches \in SUBSET Patches
  /\ job \in [Jobs -> Job]
  /\ authored \in [Patches -> BOOLEAN]
  /\ gone \in SUBSET Patches
  /\ faults \in 0..MaxFaults

PushInit ==
  /\ disk = [p \in Patches |-> Absent]
  /\ autoPr \in BOOLEAN
  /\ prs = [n \in 1..MaxPr |-> NoPr] /\ opened = 0
  /\ branches = {}
  /\ job = [j \in Jobs |-> NoJob]
  /\ authored = [p \in Patches |-> FALSE]
  /\ gone = {}
  /\ faults = 0

-----------------------------------------------------------------------------
At(j, l)        == job[j].pc = l
SetJob(j, r)    == job' = [job EXCEPT ![j] = r]
Goto(j, l)      == SetJob(j, [job[j] EXCEPT !.pc = l])
Return(j, r)    == SetJob(j, [NoJob EXCEPT !.pc = "done", !.result = r])
Fault           == faults < MaxFaults /\ faults' = faults + 1
Quiet           == faults' = faults
Whole(p)        == disk[p].kind = "whole"
OnDisk          == {p \in Patches : disk[p].kind # "absent"}
OpenPrOf(p)     == \E n \in 1..opened : prs[n] = [of |-> p, ours |-> TRUE, state |-> "open"]
Recording(j)    == job[j].pc \in {"readback", "truncate", "write"}
\* RecordsAlone: the yaml is left alone from _record_push's first look at it
\* to its last write.
MayTouch(p) ==
  RecordsAlone => \A k \in Jobs : ~(Recording(k) /\ job[k].id = p)

OpenPr(p, ours) ==
  /\ opened < MaxPr
  /\ opened' = opened + 1
  /\ prs' = [prs EXCEPT ![opened + 1] = [of |-> p, ours |-> ours, state |-> "open"]]

-----------------------------------------------------------------------------
(* push_patch *)

Pushing(j) == job[j].pc \notin {"idle", "dropexists", "unlink", "done"}

\* load_patches lists the directory, then reads one file after the other.
StartPush(j, p, dry) ==
  /\ At(j, "idle")
  /\ PushesSerial => \A k \in Jobs : ~Pushing(k)
  /\ SetJob(j, [NoJob EXCEPT !.pc = "read", !.id = p, !.dry = dry, !.todo = OnDisk])
  /\ Quiet /\ UNCHANGED <<disk, autoPr, github, people>>

\* One file that vanished or does not parse ends the whole load.
ReadFile(j) ==
  /\ At(j, "read")
  /\ IF job[j].todo = {} THEN Goto(j, "rails")
     ELSE LET p == Min(job[j].todo)
          IN CASE Whole(p) ->
                    SetJob(j, [job[j] EXCEPT !.todo = @ \ {p}, !.seen[p] = disk[p]])
               [] disk[p].kind = "absent" -> Return(j, "raised")
               [] OTHER -> Return(j, "error")
  /\ Quiet /\ UNCHANGED <<disk, autoPr, github, people>>

\* Slip: no check of `pushed`.
RailsTwice(j) ==
  /\ At(j, "rails")
  /\ LET rec == job[j].seen[job[j].id]
     IN IF rec.kind = "absent" \/ ~autoPr \/ ~rec.enabled THEN Return(j, "error")
        ELSE IF job[j].dry THEN Return(j, "ok")
        ELSE Goto(j, "push")
  /\ Quiet /\ UNCHANGED <<disk, autoPr, github, people>>

\* The safety rails, on the record as it was read; a fault is a clone that
\* is not there.
Rails(j) ==
  /\ At(j, "rails")
  /\ LET rec == job[j].seen[job[j].id]
     IN \/ /\ rec.kind = "absent" \/ ~autoPr \/ ~rec.enabled \/ rec.pushed # 0
           /\ Return(j, "error") /\ Quiet
        \/ /\ rec.kind # "absent" /\ autoPr /\ rec.enabled /\ rec.pushed = 0
           /\ IF job[j].dry THEN Return(j, "ok") ELSE Goto(j, "push")
           /\ Quiet
        \/ Fault /\ Return(j, "error")
  /\ UNCHANGED <<disk, autoPr, github, people>>

\* git push -u origin <fork_branch>; a fault is a push that failed.
GitPush(j) ==
  /\ At(j, "push")
  /\ \/ branches' = branches \cup {job[j].id} /\ Goto(j, "create") /\ Quiet
     \/ branches' = branches /\ Return(j, "failed") /\ Fault
  /\ UNCHANGED <<disk, autoPr, prs, opened, people>>

\* gh pr create.  gh refuses while a pull request of that branch is open.
CreatePr(j) ==
  /\ At(j, "create")
  /\ \/ /\ ~OpenPrOf(job[j].id)
        /\ OpenPr(job[j].id, TRUE)
        /\ SetJob(j, [job[j] EXCEPT !.pc = "exists", !.url = opened + 1])
        /\ Quiet
     \/ /\ OpenPrOf(job[j].id) /\ Return(j, "failed")
        /\ Quiet /\ UNCHANGED <<prs, opened>>
     \/ Fault /\ Return(j, "failed") /\ UNCHANGED <<prs, opened>>
  /\ UNCHANGED <<disk, autoPr, branches, people>>

\* The pull request is opened and its URL lost: gh printed none (the code
\* then records nothing and reports success), or the 120 s timeout struck.
CreateUnheard(j) ==
  /\ At(j, "create") /\ ~OpenPrOf(job[j].id)
  /\ Fault /\ OpenPr(job[j].id, TRUE)
  /\ Return(j, "ok") \/ Return(j, "crashed")
  /\ UNCHANGED <<disk, autoPr, branches, people>>

-----------------------------------------------------------------------------
(* _record_push *)

\* Slip: write back the record in hand instead of reading the file again.
RecordFromMemory(j) ==
  /\ At(j, "exists") /\ MayTouch(job[j].id)
  /\ SetJob(j, [job[j] EXCEPT !.pc = "truncate", !.raw = job[j].seen[job[j].id]])
  /\ Quiet /\ UNCHANGED <<disk, autoPr, github, people>>

RecordExists(j) ==
  /\ At(j, "exists") /\ MayTouch(job[j].id)
  /\ IF disk[job[j].id].kind = "absent" THEN Return(j, "ok")
     ELSE Goto(j, "readback")
  /\ Quiet /\ UNCHANGED <<disk, autoPr, github, people>>

\* An empty file reads as {}.
ReadBack(j) ==
  /\ At(j, "readback")
  /\ LET now == disk[job[j].id]
     IN IF now.kind = "absent" THEN Return(j, "raised")
        ELSE SetJob(j, [job[j] EXCEPT !.pc = "truncate", !.raw =
                 IF now.kind = "empty" THEN [Absent EXCEPT !.kind = "broken"] ELSE now])
  /\ Quiet /\ UNCHANGED <<disk, autoPr, github, people>>

\* write_text opens the file, which empties or creates it, ...
Truncate(j) ==
  /\ At(j, "truncate")
  /\ disk' = [disk EXCEPT ![job[j].id] = [Absent EXCEPT !.kind = "empty"]]
  /\ Goto(j, "write")
  /\ Quiet /\ UNCHANGED <<autoPr, github, people>>

\* Slip: write the two new keys and nothing else.
WriteKeysOnly(j) ==
  /\ At(j, "write")
  /\ disk' = [disk EXCEPT ![job[j].id] = [pushed |-> job[j].url]]
  /\ Return(j, "ok")
  /\ Quiet /\ UNCHANGED <<autoPr, github, people>>

\* ... and then writes; into nothing when the file was unlinked meanwhile.
Write(j) ==
  /\ At(j, "write")
  /\ disk' = IF disk[job[j].id].kind = "absent" THEN disk
             ELSE [disk EXCEPT ![job[j].id] = [job[j].raw EXCEPT !.pushed = job[j].url]]
  /\ Return(j, "ok")
  /\ Quiet /\ UNCHANGED <<autoPr, github, people>>

-----------------------------------------------------------------------------
(* drop_patch *)

StartDrop(j, p) ==
  /\ At(j, "idle")
  /\ SetJob(j, [NoJob EXCEPT !.pc = "dropexists", !.id = p])
  /\ Quiet /\ UNCHANGED <<disk, autoPr, github, people>>

DropExists(j) ==
  /\ At(j, "dropexists")
  /\ IF disk[job[j].id].kind = "absent" THEN Return(j, "error")
     ELSE Goto(j, "unlink")
  /\ Quiet /\ UNCHANGED <<disk, autoPr, github, people>>

Unlink(j) ==
  /\ At(j, "unlink") /\ MayTouch(job[j].id)
  /\ IF disk[job[j].id].kind = "absent"
     THEN Return(j, "raised") /\ UNCHANGED <<disk, gone>>
     ELSE /\ disk' = [disk EXCEPT ![job[j].id] = Absent]
          /\ gone' = gone \cup {job[j].id}
          /\ Return(j, "ok")
  /\ Quiet /\ UNCHANGED <<autoPr, github, authored>>

-----------------------------------------------------------------------------
Finish(j) ==
  /\ At(j, "done")
  /\ SetJob(j, NoJob)
  /\ Quiet /\ UNCHANGED <<disk, autoPr, github, people>>

Crash(j) ==
  /\ job[j].pc \notin {"idle", "done"}
  /\ Fault /\ Return(j, "crashed")
  /\ UNCHANGED <<disk, autoPr, github, people>>

JobStep(j) ==
  \/ \E p \in Patches : StartDrop(j, p) \/ \E dry \in BOOLEAN : StartPush(j, p, dry)
  \/ ReadFile(j) \/ Rails(j) \/ GitPush(j) \/ CreatePr(j) \/ CreateUnheard(j)
  \/ RecordExists(j) \/ ReadBack(j) \/ Truncate(j) \/ Write(j)
  \/ DropExists(j) \/ Unlink(j) \/ Finish(j) \/ Crash(j)

-----------------------------------------------------------------------------
(* People: the authors of the yamls, and upstream *)

\* A new patch gets a yaml; ids are not used again.
Author(p) ==
  /\ disk[p].kind = "absent" /\ p \notin gone
  /\ \E e \in BOOLEAN :
       /\ disk' = [disk EXCEPT ![p] = [Absent EXCEPT !.kind = "whole", !.enabled = e]]
       /\ authored' = [authored EXCEPT ![p] = e]
  /\ UNCHANGED gone

\* push_enabled is given or withdrawn.
EditEnabled(p) ==
  /\ Whole(p) /\ MayTouch(p)
  /\ disk' = [disk EXCEPT ![p].enabled = ~@]
  /\ authored' = [authored EXCEPT ![p] = ~disk[p].enabled]
  /\ UNCHANGED gone

\* upstream_pr_url: a pull request, ours or another's, with this fix.
EditCites(p) ==
  /\ Whole(p) /\ disk[p].cites = 0 /\ MayTouch(p)
  /\ \E n \in 1..opened : prs[n].of = p /\ disk' = [disk EXCEPT ![p].cites = n]
  /\ UNCHANGED people

Edit ==
  /\ \E p \in Patches : Author(p) \/ EditEnabled(p) \/ EditCites(p)
  /\ UNCHANGED <<autoPr, github, job, faults>>

Review(n) ==
  \/ prs[n].state = "open" /\ \E s \in {"closed", "merged"} : prs' = [prs EXCEPT ![n].state = s]
  \/ /\ prs[n].state = "closed" /\ ~(prs[n].ours /\ OpenPrOf(prs[n].of))
     /\ prs' = [prs EXCEPT ![n].state = "open"]

Upstream ==
  /\ \/ \E n \in 1..opened : Review(n) /\ opened' = opened
     \/ \E p \in Patches : OpenPr(p, FALSE)
  /\ UNCHANGED <<disk, autoPr, branches, job, people, faults>>

PushNext == (\E j \in Jobs : JobStep(j)) \/ Edit \/ Upstream

PushSpec == PushInit /\ [][PushNext]_pushVars

-----------------------------------------------------------------------------
(* Properties *)

\* push_enabled on disk is what people last wrote, however push's rewriting
\* of the record (push.py 182-191) falls between their edits.
EditsKept ==
  \A p \in Patches : Whole(p) => disk[p].enabled = authored[p]

\* A patch whose yaml was dropped never gets one again: push, half way when
\* the drop came, does not write its record back (push.py 186-187).
DroppedStaysGone == \A p \in gone : disk[p].kind = "absent"

\* One patch has one pull request of ours, ever: after it was closed push
\* refuses, as the yaml records it (push.py 105-108).
NoSecondPr ==
  faults = 0 =>
    \A m, n \in 1..opened : prs[m].ours /\ prs[n].ours /\ prs[m].of = prs[n].of => m = n

\* patch_record.py 15, "pushed: True iff we've opened our own upstream PR":
\* so it is for every yaml whenever no command is running.
PushedIffOpened ==
  (\A j \in Jobs : job[j].pc \in {"idle", "done"}) =>
    \A p \in Patches : Whole(p) =>
      ((disk[p].pushed # 0) <=> \E n \in 1..opened : prs[n].ours /\ prs[n].of = p)
=============================================================================
