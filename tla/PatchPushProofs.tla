-------------------------- MODULE PatchPushProofs --------------------------
(* Theorems about PatchPush for any number of patches, processes, pull      *)
(* requests and faults.                                                     *)
EXTENDS PatchPush, TLAPS

\* A running command has a patch to run on.
IdsOK == \A j \in Jobs : job[j].pc \notin {"idle", "done"} => job[j].id \in Patches

\* push never holds a record that differs from what people wrote.
OnRecord(j) ==
  LET p == job[j].id
  IN /\ disk[p].kind # "absent"
     /\ At(j, "write") => disk[p].kind = "empty"
     /\ job[j].pc \in {"truncate", "write"} /\ job[j].raw.kind = "whole"
          => job[j].raw.enabled = authored[p]

OneRecorder ==
  \A j, k \in Jobs : Recording(j) /\ Recording(k) /\ job[j].id = job[k].id => j = k

PushInv ==
  /\ PushTypeOK /\ IdsOK
  /\ EditsKept /\ DroppedStaysGone
  /\ OneRecorder
  /\ \A j \in Jobs : Recording(j) => OnRecord(j)

-----------------------------------------------------------------------------
(* The records *)

LEMMA Consts == Absent \in File /\ NoPr \in Pr /\ NoJob \in Job /\ 0 \in Number
BY PatchPushAssumption DEF Absent, NoPr, NoJob, File, Pr, Job, Number

LEMMA SetJobEffect ==
  ASSUME job \in [Jobs -> Job], NEW j \in Jobs, NEW r \in Job, SetJob(j, r)
  PROVE  /\ job' \in [Jobs -> Job] /\ job'[j] = r
         /\ \A k \in Jobs \ {j} : job'[k] = job[k]
BY DEF SetJob

LEMMA ReturnEffect ==
  ASSUME job \in [Jobs -> Job], NEW j \in Jobs,
         NEW s \in {"none", "ok", "failed", "error", "raised", "crashed"}, Return(j, s)
  PROVE  /\ job' \in [Jobs -> Job] /\ job'[j].pc = "done"
         /\ \A k \in Jobs \ {j} : job'[k] = job[k]
<1> DEFINE r == [NoJob EXCEPT !.pc = "done", !.result = s]
<1>1. r \in Job /\ r.pc = "done" BY Consts DEF NoJob, Job
<1>2. SetJob(j, r) BY DEF Return
<1> QED BY <1>1, <1>2, SetJobEffect

LEMMA GotoEffect ==
  ASSUME job \in [Jobs -> Job], NEW j \in Jobs, Goto(j, "rails") \/ Goto(j, "push")
           \/ Goto(j, "create") \/ Goto(j, "readback") \/ Goto(j, "write")
           \/ Goto(j, "unlink")
  PROVE  \E l \in {"rails", "push", "create", "readback", "write", "unlink"} :
           /\ Goto(j, l)
           /\ job' \in [Jobs -> Job] /\ job'[j] = [job[j] EXCEPT !.pc = l]
           /\ \A k \in Jobs \ {j} : job'[k] = job[k]
<1>1. PICK l \in {"rails", "push", "create", "readback", "write", "unlink"} : Goto(j, l)
  OBVIOUS
<1>2. [job[j] EXCEPT !.pc = l] \in Job BY DEF Job
<1>3. SetJob(j, [job[j] EXCEPT !.pc = l]) BY <1>1 DEF Goto
<1> QED BY <1>1, <1>2, <1>3, SetJobEffect

LEMMA FaultType ==
  ASSUME PushTypeOK, Fault \/ Quiet PROVE faults' \in 0..MaxFaults
BY PatchPushAssumption DEF PushTypeOK, Fault, Quiet

LEMMA OpenPrType ==
  ASSUME PushTypeOK, NEW p \in Patches \cup {0}, NEW ours \in BOOLEAN, OpenPr(p, ours)
  PROVE  prs' \in [1..MaxPr -> Pr] /\ opened' \in Number /\ opened + 1 \in Number
BY PatchPushAssumption DEF PushTypeOK, OpenPr, Pr, Number

-----------------------------------------------------------------------------
(* Steps that leave the yamls alone *)

\* What every step has to keep beside the yamls and the commands.
RestOK ==
  /\ autoPr \in BOOLEAN /\ prs \in [1..MaxPr -> Pr] /\ opened \in Number
  /\ branches \in SUBSET Patches /\ faults \in 0..MaxFaults

\* A command moves, nothing is written, and it is not about to write.
LEMMA ReadOnlyStep ==
  ASSUME PushInv, RestOK', UNCHANGED <<disk, people>>, NEW j \in Jobs,
         job' \in [Jobs -> Job], \A k \in Jobs \ {j} : job'[k] = job[k],
         job'[j].pc \notin {"idle", "done"} => job'[j].id \in Patches,
         ~Recording(j)'
  PROVE  PushInv'
<1>1. PushTypeOK' BY DEF PushInv, PushTypeOK, RestOK, people
<1>2. IdsOK' BY DEF PushInv, IdsOK
<1>3. EditsKept' /\ DroppedStaysGone'
  BY DEF PushInv, EditsKept, DroppedStaysGone, Whole, people
<1>4. \A k \in Jobs : Recording(k)' => k # j /\ job'[k] = job[k] /\ Recording(k)
  BY DEF Recording
<1>5. OneRecorder' BY <1>4 DEF PushInv, OneRecorder
<1>6. ASSUME NEW k \in Jobs, Recording(k)' PROVE OnRecord(k)'
  <2>1. OnRecord(k) BY <1>4, <1>6 DEF PushInv
  <2> QED BY <1>4, <1>6, <2>1 DEF OnRecord, At, people
<1> QED BY <1>1, <1>2, <1>3, <1>5, <1>6 DEF PushInv

LEMMA SameRest ==
  ASSUME PushTypeOK, Fault \/ Quiet, UNCHANGED <<autoPr, github>>
  PROVE  RestOK'
BY FaultType DEF PushTypeOK, RestOK, github

LEMMA StartPushKeeps ==
  ASSUME PushInv, NEW j \in Jobs, NEW p \in Patches, NEW dry \in BOOLEAN, StartPush(j, p, dry)
  PROVE  PushInv'
<1> DEFINE r == [NoJob EXCEPT !.pc = "read", !.id = p, !.dry = dry, !.todo = OnDisk]
<1>1. r \in Job /\ r.pc = "read" /\ r.id = p BY Consts DEF NoJob, Job, OnDisk
<1>2. SetJob(j, r) BY DEF StartPush
<1>3. job' \in [Jobs -> Job] /\ job'[j] = r /\ \A k \in Jobs \ {j} : job'[k] = job[k]
  BY <1>1, <1>2, SetJobEffect DEF PushInv, PushTypeOK
<1>4. RestOK' BY SameRest DEF StartPush, PushInv
<1>5. ~Recording(j)' BY <1>1, <1>3 DEF Recording
<1> QED BY <1>1, <1>3, <1>4, <1>5, ReadOnlyStep DEF StartPush

LEMMA StartDropKeeps ==
  ASSUME PushInv, NEW j \in Jobs, NEW p \in Patches, StartDrop(j, p) PROVE PushInv'
<1> DEFINE r == [NoJob EXCEPT !.pc = "dropexists", !.id = p]
<1>1. r \in Job /\ r.pc = "dropexists" /\ r.id = p BY Consts DEF NoJob, Job
<1>2. SetJob(j, r) BY DEF StartDrop
<1>3. job' \in [Jobs -> Job] /\ job'[j] = r /\ \A k \in Jobs \ {j} : job'[k] = job[k]
  BY <1>1, <1>2, SetJobEffect DEF PushInv, PushTypeOK
<1>4. RestOK' BY SameRest DEF StartDrop, PushInv
<1>5. ~Recording(j)' BY <1>1, <1>3 DEF Recording
<1> QED BY <1>1, <1>3, <1>4, <1>5, ReadOnlyStep DEF StartDrop

\* A command that returns, or goes to a step that does not write.
LEMMA ReturnKeeps ==
  ASSUME PushInv, RestOK', UNCHANGED <<disk, people>>, NEW j \in Jobs,
         NEW s \in {"none", "ok", "failed", "error", "raised", "crashed"}, Return(j, s)
  PROVE  PushInv'
<1>1. job' \in [Jobs -> Job] /\ job'[j].pc = "done" /\ \A k \in Jobs \ {j} : job'[k] = job[k]
  BY ReturnEffect DEF PushInv, PushTypeOK
<1>2. ~Recording(j)' BY <1>1 DEF Recording
<1> QED BY <1>1, <1>2, ReadOnlyStep

LEMMA GotoKeeps ==
  ASSUME PushInv, RestOK', UNCHANGED <<disk, people>>, NEW j \in Jobs,
         job[j].pc \notin {"idle", "done"},
         NEW l \in {"rails", "push", "create", "unlink"}, Goto(j, l)
  PROVE  PushInv'
<1> DEFINE r == [job[j] EXCEPT !.pc = l]
<1>1. job[j] \in Job /\ job[j].id \in Patches BY DEF PushInv, PushTypeOK, IdsOK
<1>2. r \in Job /\ r.pc = l /\ r.id = job[j].id BY <1>1 DEF Job
<1>3. job' \in [Jobs -> Job] /\ job'[j] = r /\ \A k \in Jobs \ {j} : job'[k] = job[k]
  BY <1>2, SetJobEffect DEF Goto, PushInv, PushTypeOK
<1>4. ~Recording(j)' BY <1>2, <1>3 DEF Recording
<1> QED BY <1>1, <1>2, <1>3, <1>4, ReadOnlyStep

LEMMA ReadFileKeeps ==
  ASSUME PushInv, NEW j \in Jobs, ReadFile(j) PROVE PushInv'
<1>1. RestOK' /\ UNCHANGED <<disk, people>>
  BY SameRest DEF ReadFile, PushInv
<1>2. CASE Goto(j, "rails") BY <1>1, <1>2, GotoKeeps DEF ReadFile, At
<1>3. CASE Return(j, "raised") \/ Return(j, "error") BY <1>1, <1>3, ReturnKeeps
<1>4. ASSUME NEW p, SetJob(j, [job[j] EXCEPT !.todo = @ \ {p}, !.seen[p] = disk[p]])
      PROVE  PushInv'
  <2> DEFINE r == [job[j] EXCEPT !.todo = @ \ {p}, !.seen[p] = disk[p]]
  <2>1. job[j] \in Job /\ job[j].id \in Patches /\ job[j].pc = "read"
    BY DEF PushInv, PushTypeOK, IdsOK, ReadFile, At
  <2>2. [job[j].seen EXCEPT ![p] = disk[p]] \in [Patches -> File]
    <3>1. job[j].seen \in [Patches -> File] BY <2>1 DEF Job
    <3>2. p \in Patches => disk[p] \in File BY DEF PushInv, PushTypeOK
    <3> QED BY <3>1, <3>2
  <2>3. r \in Job /\ r.pc = "read" /\ r.id = job[j].id BY <2>1, <2>2 DEF Job
  <2>4. job' \in [Jobs -> Job] /\ job'[j] = r /\ \A k \in Jobs \ {j} : job'[k] = job[k]
    BY <1>4, <2>3, SetJobEffect DEF PushInv, PushTypeOK
  <2>5. ~Recording(j)' BY <2>3, <2>4 DEF Recording
  <2> QED BY <1>1, <2>1, <2>3, <2>4, <2>5, ReadOnlyStep
<1> QED BY <1>2, <1>3, <1>4 DEF ReadFile

LEMMA RailsKeeps ==
  ASSUME PushInv, NEW j \in Jobs, Rails(j) PROVE PushInv'
<1>1. RestOK' /\ UNCHANGED <<disk, people>> BY SameRest DEF Rails, PushInv
<1>2. Return(j, "error") \/ Return(j, "ok") \/ Goto(j, "push") BY DEF Rails
<1> QED BY <1>1, <1>2, ReturnKeeps, GotoKeeps DEF Rails, At

LEMMA GitPushKeeps ==
  ASSUME PushInv, NEW j \in Jobs, GitPush(j) PROVE PushInv'
<1>1. job[j].id \in Patches BY DEF GitPush, At, PushInv, IdsOK
<1>2. RestOK' /\ UNCHANGED <<disk, people>>
  BY <1>1, FaultType DEF GitPush, PushInv, PushTypeOK, RestOK
<1>3. Return(j, "failed") \/ Goto(j, "create") BY DEF GitPush
<1> QED BY <1>2, <1>3, ReturnKeeps, GotoKeeps DEF GitPush, At

LEMMA CreateKeeps ==
  ASSUME PushInv, NEW j \in Jobs, CreatePr(j) \/ CreateUnheard(j) PROVE PushInv'
<1>1. job[j] \in Job /\ job[j].id \in Patches
  BY DEF CreatePr, CreateUnheard, At, PushInv, IdsOK, PushTypeOK
<1>2. OpenPr(job[j].id, TRUE) \/ UNCHANGED <<prs, opened>> BY DEF CreatePr, CreateUnheard
<1>3. prs' \in [1..MaxPr -> Pr] /\ opened' \in Number
  BY <1>1, <1>2, OpenPrType DEF PushInv, PushTypeOK
<1>4. RestOK' /\ UNCHANGED <<disk, people>>
  BY <1>3, FaultType DEF CreatePr, CreateUnheard, PushInv, PushTypeOK, RestOK
<1>5. CASE \E s \in {"ok", "failed", "crashed"} : Return(j, s) BY <1>4, <1>5, ReturnKeeps
<1>6. CASE /\ OpenPr(job[j].id, TRUE)
           /\ SetJob(j, [job[j] EXCEPT !.pc = "exists", !.url = opened + 1])
  <2> DEFINE r == [job[j] EXCEPT !.pc = "exists", !.url = opened + 1]
  <2>1. opened + 1 \in Number BY <1>1, <1>6, OpenPrType DEF PushInv
  <2>2. r \in Job /\ r.pc = "exists" /\ r.id = job[j].id BY <1>1, <2>1 DEF Job
  <2>3. job' \in [Jobs -> Job] /\ job'[j] = r /\ \A k \in Jobs \ {j} : job'[k] = job[k]
    BY <1>6, <2>2, SetJobEffect DEF PushInv, PushTypeOK
  <2>4. ~Recording(j)' BY <2>2, <2>3 DEF Recording
  <2> QED BY <1>1, <1>4, <2>2, <2>3, <2>4, ReadOnlyStep
<1> QED BY <1>5, <1>6 DEF CreatePr, CreateUnheard

LEMMA DropExistsKeeps ==
  ASSUME PushInv, NEW j \in Jobs, DropExists(j) PROVE PushInv'
<1>1. RestOK' /\ UNCHANGED <<disk, people>> BY SameRest DEF DropExists, PushInv
<1>2. Return(j, "error") \/ Goto(j, "unlink") BY DEF DropExists
<1> QED BY <1>1, <1>2, ReturnKeeps, GotoKeeps DEF DropExists, At

LEMMA FinishKeeps ==
  ASSUME PushInv, NEW j \in Jobs, Finish(j) PROVE PushInv'
<1>1. RestOK' /\ UNCHANGED <<disk, people>> BY SameRest DEF Finish, PushInv
<1>2. job' \in [Jobs -> Job] /\ job'[j] = NoJob /\ \A k \in Jobs \ {j} : job'[k] = job[k]
  BY Consts, SetJobEffect DEF Finish, PushInv, PushTypeOK
<1>3. job'[j].pc = "idle" BY <1>2 DEF NoJob
<1> QED BY <1>1, <1>2, <1>3, ReadOnlyStep DEF Recording

LEMMA CrashKeeps ==
  ASSUME PushInv, NEW j \in Jobs, Crash(j) PROVE PushInv'
<1>1. RestOK' /\ UNCHANGED <<disk, people>> BY SameRest DEF Crash, PushInv
<1> QED BY <1>1, ReturnKeeps DEF Crash

-----------------------------------------------------------------------------
(* Rewriting and removing a yaml, with nobody else at it (RecordsAlone) *)

LEMMA RecordExistsKeeps ==
  ASSUME RecordsAlone = TRUE, PushInv, NEW j \in Jobs, RecordExists(j) PROVE PushInv'
<1>1. RestOK' /\ UNCHANGED <<disk, people>> BY SameRest DEF RecordExists, PushInv
<1>2. CASE Return(j, "ok") BY <1>1, <1>2, ReturnKeeps
<1>3. CASE disk[job[j].id].kind # "absent" /\ Goto(j, "readback")
  <2> DEFINE p == job[j].id
             r == [job[j] EXCEPT !.pc = "readback"]
  <2>1. job[j] \in Job /\ p \in Patches /\ job[j].pc = "exists"
    BY DEF RecordExists, At, PushInv, IdsOK, PushTypeOK
  <2>2. r \in Job /\ r.pc = "readback" /\ r.id = p BY <2>1 DEF Job
  <2>3. job' \in [Jobs -> Job] /\ job'[j] = r /\ \A k \in Jobs \ {j} : job'[k] = job[k]
    BY <1>3, <2>2, SetJobEffect DEF Goto, PushInv, PushTypeOK
  <2>4. \A k \in Jobs : ~(Recording(k) /\ job[k].id = p) BY DEF RecordExists, MayTouch
  <2>5. PushTypeOK' BY <1>1, <2>3 DEF PushInv, PushTypeOK, RestOK, people
  <2>6. IdsOK' BY <2>1, <2>2, <2>3 DEF PushInv, IdsOK
  <2>7. EditsKept' /\ DroppedStaysGone'
    BY <1>1 DEF PushInv, EditsKept, DroppedStaysGone, Whole, people
  <2>8. \A k \in Jobs \ {j} : Recording(k)' => Recording(k) /\ job'[k] = job[k]
    BY <2>3 DEF Recording
  <2>9. OneRecorder'
    <3>1. ASSUME NEW a \in Jobs, NEW b \in Jobs, Recording(a)', Recording(b)',
                 job'[a].id = job'[b].id
          PROVE  a = b
      <4>1. CASE a # j /\ b # j
        <5>1. Recording(a) /\ Recording(b) /\ job[a].id = job[b].id
          BY <2>8, <3>1, <4>1
        <5> QED BY <5>1 DEF PushInv, OneRecorder
      <4>2. CASE a = j /\ b # j BY <2>2, <2>3, <2>4, <2>8, <3>1, <4>2
      <4>3. CASE a # j /\ b = j BY <2>2, <2>3, <2>4, <2>8, <3>1, <4>3
      <4> QED BY <4>1, <4>2, <4>3
    <3> QED BY <3>1 DEF OneRecorder
  <2>10. ASSUME NEW k \in Jobs, Recording(k)' PROVE OnRecord(k)'
    <3>1. CASE k = j BY <1>1, <1>3, <2>2, <2>3, <3>1 DEF OnRecord, At
    <3>2. CASE k # j
      <4>1. OnRecord(k) BY <2>8, <2>10, <3>2 DEF PushInv
      <4> QED BY <1>1, <2>8, <2>10, <3>2, <4>1 DEF OnRecord, At, people
    <3> QED BY <3>1, <3>2
  <2> QED BY <2>5, <2>6, <2>7, <2>9, <2>10 DEF PushInv
<1> QED BY <1>2, <1>3 DEF RecordExists

\* What is read back is what people wrote.
LEMMA ReadBackKeeps ==
  ASSUME PushInv, NEW j \in Jobs, ReadBack(j) PROVE PushInv'
<1> DEFINE p   == job[j].id
           raw == IF disk[p].kind = "empty" THEN [Absent EXCEPT !.kind = "broken"]
                  ELSE disk[p]
           r   == [job[j] EXCEPT !.pc = "truncate", !.raw = raw]
<1>1. RestOK' /\ UNCHANGED <<disk, people>> BY SameRest DEF ReadBack, PushInv
<1>2. CASE Return(j, "raised") BY <1>1, <1>2, ReturnKeeps
<1>3. CASE disk[p].kind # "absent" /\ SetJob(j, r)
  <2>1. job[j] \in Job /\ p \in Patches /\ job[j].pc = "readback" /\ disk[p] \in File
    BY DEF ReadBack, At, PushInv, IdsOK, PushTypeOK
  <2>2. raw \in File /\ (raw.kind = "whole" => disk[p].kind = "whole" /\ raw = disk[p])
    BY <2>1, Consts DEF Absent, File
  <2>3. r \in Job /\ r.pc = "truncate" /\ r.id = p /\ r.raw = raw BY <2>1, <2>2 DEF Job
  <2>4. job' \in [Jobs -> Job] /\ job'[j] = r /\ \A k \in Jobs \ {j} : job'[k] = job[k]
    BY <1>3, <2>3, SetJobEffect DEF PushInv, PushTypeOK
  <2>5. PushTypeOK' BY <1>1, <2>4 DEF PushInv, PushTypeOK, RestOK, people
  <2>6. IdsOK' BY <2>1, <2>3, <2>4 DEF PushInv, IdsOK
  <2>7. EditsKept' /\ DroppedStaysGone'
    BY <1>1 DEF PushInv, EditsKept, DroppedStaysGone, Whole, people
  <2>8. \A k \in Jobs : Recording(k)' => Recording(k) /\ job'[k].id = job[k].id
    BY <2>1, <2>3, <2>4 DEF Recording
  <2>9. OneRecorder' BY <2>8 DEF PushInv, OneRecorder
  <2>10. ASSUME NEW k \in Jobs, Recording(k)' PROVE OnRecord(k)'
    <3>1. CASE k = j
      <4>1. raw.kind = "whole" => raw.enabled = authored[p]
        BY <2>1, <2>2 DEF PushInv, EditsKept, Whole
      <4> QED BY <1>1, <1>3, <2>3, <2>4, <3>1, <4>1 DEF OnRecord, At, people
    <3>2. CASE k # j
      <4>1. OnRecord(k) BY <2>8, <2>10, <3>2 DEF PushInv
      <4> QED BY <1>1, <2>4, <2>10, <3>2, <4>1 DEF OnRecord, At, people
    <3> QED BY <3>1, <3>2
  <2> QED BY <2>5, <2>6, <2>7, <2>9, <2>10 DEF PushInv
<1> QED BY <1>2, <1>3 DEF ReadBack

LEMMA TruncateKeeps ==
  ASSUME PushInv, NEW j \in Jobs, Truncate(j) PROVE PushInv'
<1> DEFINE p == job[j].id
           e == [Absent EXCEPT !.kind = "empty"]
           r == [job[j] EXCEPT !.pc = "write"]
<1>1. RestOK' /\ UNCHANGED people BY SameRest DEF Truncate, PushInv
<1>2. job[j] \in Job /\ p \in Patches /\ job[j].pc = "truncate" /\ Recording(j)
  BY DEF Truncate, At, Recording, PushInv, IdsOK, PushTypeOK
<1>3. e \in File /\ e.kind = "empty" BY Consts DEF Absent, File
<1>4. disk' = [disk EXCEPT ![p] = e] /\ SetJob(j, r) BY DEF Truncate, Goto
<1>5. r \in Job /\ r.pc = "write" /\ r.id = p /\ r.raw = job[j].raw BY <1>2 DEF Job
<1>6. job' \in [Jobs -> Job] /\ job'[j] = r /\ \A k \in Jobs \ {j} : job'[k] = job[k]
  BY <1>4, <1>5, SetJobEffect DEF PushInv, PushTypeOK
<1>7. disk' \in [Patches -> File] /\ disk'[p] = e /\ \A q \in Patches \ {p} : disk'[q] = disk[q]
  BY <1>2, <1>3, <1>4 DEF PushInv, PushTypeOK
<1>8. OnRecord(j) BY <1>2 DEF PushInv
<1>9. PushTypeOK' BY <1>1, <1>6, <1>7 DEF PushInv, PushTypeOK, RestOK, people
<1>10. IdsOK' BY <1>2, <1>5, <1>6 DEF PushInv, IdsOK
<1>11. EditsKept' BY <1>1, <1>3, <1>7 DEF PushInv, EditsKept, Whole, people
<1>12. DroppedStaysGone'
  BY <1>1, <1>7, <1>8 DEF PushInv, PushTypeOK, DroppedStaysGone, OnRecord, people
<1>13. \A k \in Jobs : Recording(k)' => Recording(k) /\ job'[k].id = job[k].id
  BY <1>2, <1>5, <1>6 DEF Recording
<1>14. OneRecorder' BY <1>13 DEF PushInv, OneRecorder
<1>15. ASSUME NEW k \in Jobs, Recording(k)' PROVE OnRecord(k)'
  <2>1. CASE k = j BY <1>1, <1>2, <1>3, <1>5, <1>6, <1>7, <1>8, <2>1 DEF OnRecord, At, people
  <2>2. CASE k # j
    <3>1. OnRecord(k) /\ job[k].id # p /\ job[k].id \in Patches
      BY <1>2, <1>13, <1>15, <2>2 DEF PushInv, OneRecorder, IdsOK, Recording
    <3> QED BY <1>1, <1>6, <1>7, <1>15, <2>2, <3>1 DEF OnRecord, At, people
  <2> QED BY <2>1, <2>2
<1> QED BY <1>9, <1>10, <1>11, <1>12, <1>14, <1>15 DEF PushInv

LEMMA WriteKeeps ==
  ASSUME PushInv, NEW j \in Jobs, Write(j) PROVE PushInv'
<1> DEFINE p == job[j].id
           e == [job[j].raw EXCEPT !.pushed = job[j].url]
<1>1. RestOK' /\ UNCHANGED people BY SameRest DEF Write, PushInv
<1>2. job[j] \in Job /\ p \in Patches /\ job[j].pc = "write" /\ Recording(j)
  BY DEF Write, At, Recording, PushInv, IdsOK, PushTypeOK
<1>3. e \in File /\ e.kind = job[j].raw.kind /\ e.enabled = job[j].raw.enabled
  BY <1>2 DEF Job, File
<1>4. OnRecord(j) BY <1>2 DEF PushInv
<1>5. disk' = [disk EXCEPT ![p] = e] BY <1>2, <1>4 DEF Write, OnRecord
<1>6. disk' \in [Patches -> File] /\ disk'[p] = e /\ \A q \in Patches \ {p} : disk'[q] = disk[q]
  BY <1>2, <1>3, <1>5 DEF PushInv, PushTypeOK
<1>7. job' \in [Jobs -> Job] /\ job'[j].pc = "done" /\ \A k \in Jobs \ {j} : job'[k] = job[k]
  BY ReturnEffect DEF Write, PushInv, PushTypeOK
<1>8. PushTypeOK' BY <1>1, <1>6, <1>7 DEF PushInv, PushTypeOK, RestOK, people
<1>9. IdsOK' BY <1>7 DEF PushInv, IdsOK
<1>10. e.kind = "whole" => e.enabled = authored[p] BY <1>2, <1>3, <1>4 DEF OnRecord
<1>11. EditsKept' BY <1>1, <1>2, <1>6, <1>10 DEF PushInv, EditsKept, Whole, people
<1>12. DroppedStaysGone'
  BY <1>1, <1>4, <1>6 DEF PushInv, PushTypeOK, DroppedStaysGone, OnRecord, people
<1>13. \A k \in Jobs : Recording(k)' => k # j /\ Recording(k) /\ job'[k] = job[k]
  BY <1>7 DEF Recording
<1>14. OneRecorder' BY <1>13 DEF PushInv, OneRecorder
<1>15. ASSUME NEW k \in Jobs, Recording(k)' PROVE OnRecord(k)'
  <2>1. OnRecord(k) /\ job[k].id # p /\ job[k].id \in Patches
    BY <1>2, <1>13, <1>15 DEF PushInv, OneRecorder, IdsOK, Recording
  <2> QED BY <1>1, <1>6, <1>13, <1>15, <2>1 DEF OnRecord, At, people
<1> QED BY <1>8, <1>9, <1>11, <1>12, <1>14, <1>15 DEF PushInv

LEMMA UnlinkKeeps ==
  ASSUME RecordsAlone = TRUE, PushInv, NEW j \in Jobs, Unlink(j) PROVE PushInv'
<1> DEFINE p == job[j].id
<1>1. RestOK' /\ authored' = authored BY SameRest DEF Unlink, PushInv
<1>2. CASE Return(j, "raised") /\ UNCHANGED <<disk, gone>>
  BY <1>1, <1>2, ReturnKeeps DEF people
<1>3. CASE /\ disk' = [disk EXCEPT ![p] = Absent] /\ gone' = gone \cup {p}
           /\ Return(j, "ok")
  <2>1. p \in Patches /\ job[j].pc = "unlink" BY DEF Unlink, At, PushInv, IdsOK
  <2>2. /\ disk' \in [Patches -> File] /\ disk'[p] = Absent
        /\ \A q \in Patches \ {p} : disk'[q] = disk[q]
    BY <1>3, <2>1, Consts DEF PushInv, PushTypeOK
  <2>3. job' \in [Jobs -> Job] /\ job'[j].pc = "done" /\ \A k \in Jobs \ {j} : job'[k] = job[k]
    BY <1>3, ReturnEffect DEF PushInv, PushTypeOK
  <2>4. PushTypeOK' BY <1>1, <1>3, <2>1, <2>2, <2>3 DEF PushInv, PushTypeOK, RestOK
  <2>5. IdsOK' BY <2>3 DEF PushInv, IdsOK
  <2>6. EditsKept' BY <1>1, <2>2 DEF PushInv, EditsKept, Whole, Absent
  <2>7. DroppedStaysGone'
    BY <1>3, <2>2 DEF PushInv, PushTypeOK, DroppedStaysGone, Absent
  <2>8. \A k \in Jobs : Recording(k)' => /\ k # j /\ Recording(k) /\ job'[k] = job[k]
                                          /\ job[k].id # p
    BY <2>3 DEF Recording, Unlink, MayTouch
  <2>9. OneRecorder' BY <2>8 DEF PushInv, OneRecorder
  <2>10. ASSUME NEW k \in Jobs, Recording(k)' PROVE OnRecord(k)'
    <3>1. OnRecord(k) /\ job[k].id # p /\ job[k].id \in Patches
      BY <2>8, <2>10 DEF PushInv, IdsOK, Recording
    <3> QED BY <1>1, <2>2, <2>8, <2>10, <3>1 DEF OnRecord, At
  <2> QED BY <2>4, <2>5, <2>6, <2>7, <2>9, <2>10 DEF PushInv
<1> QED BY <1>2, <1>3 DEF Unlink

\* People write a whole record into a yaml no push is rewriting.
LEMMA PeopleWrite ==
  ASSUME PushInv, UNCHANGED <<autoPr, github, job, faults, gone>>,
         NEW p \in Patches \ gone, \A k \in Jobs : ~(Recording(k) /\ job[k].id = p),
         NEW f \in File, f.kind = "whole", disk' = [disk EXCEPT ![p] = f],
         authored' \in [Patches -> BOOLEAN], f.enabled = authored'[p],
         \A q \in Patches \ {p} : authored'[q] = authored[q]
  PROVE  PushInv'
<1>1. /\ disk' \in [Patches -> File] /\ disk'[p] = f
      /\ \A q \in Patches \ {p} : disk'[q] = disk[q]
  BY DEF PushInv, PushTypeOK
<1>2. PushTypeOK' BY <1>1 DEF PushInv, PushTypeOK, github
<1>3. IdsOK' /\ OneRecorder' BY DEF PushInv, IdsOK, OneRecorder, Recording
<1>4. EditsKept' BY <1>1 DEF PushInv, EditsKept, Whole
<1>5. DroppedStaysGone' BY <1>1 DEF PushInv, PushTypeOK, DroppedStaysGone
<1>6. ASSUME NEW k \in Jobs, Recording(k)' PROVE OnRecord(k)'
  <2>1. OnRecord(k) /\ job[k].id # p /\ job[k].id \in Patches
    BY <1>6 DEF PushInv, IdsOK, Recording
  <2> QED BY <1>1, <2>1 DEF OnRecord, At
<1> QED BY <1>2, <1>3, <1>4, <1>5, <1>6 DEF PushInv

LEMMA EditKeeps ==
  ASSUME RecordsAlone = TRUE, PushInv, Edit PROVE PushInv'
<1>1. UNCHANGED <<autoPr, github, job, faults, gone>>
  BY DEF Edit, Author, EditEnabled, EditCites, people
<1>2. ASSUME NEW p \in Patches, Author(p) PROVE PushInv'
  <2>1. PICK e \in BOOLEAN :
          /\ disk' = [disk EXCEPT ![p] = [Absent EXCEPT !.kind = "whole", !.enabled = e]]
          /\ authored' = [authored EXCEPT ![p] = e]
    BY <1>2 DEF Author
  <2> DEFINE f == [Absent EXCEPT !.kind = "whole", !.enabled = e]
  <2>2. f \in File /\ f.kind = "whole" /\ f.enabled = e BY Consts DEF Absent, File
  <2>3. \A k \in Jobs : ~(Recording(k) /\ job[k].id = p)
    BY <1>2 DEF Author, PushInv, OnRecord
  <2> QED BY <1>1, <1>2, <2>1, <2>2, <2>3, PeopleWrite DEF Author, PushInv, PushTypeOK
<1>3. ASSUME NEW p \in Patches, EditEnabled(p) \/ EditCites(p) PROVE PushInv'
  <2>1. disk[p] \in File /\ disk[p].kind = "whole" /\ p \notin gone
        /\ disk[p].enabled = authored[p]
    BY <1>3 DEF EditEnabled, EditCites, Whole, PushInv, PushTypeOK, DroppedStaysGone, EditsKept
  <2>2. \A k \in Jobs : ~(Recording(k) /\ job[k].id = p)
    BY <1>3 DEF EditEnabled, EditCites, MayTouch
  <2>3. CASE EditEnabled(p)
    <3> DEFINE f == [disk[p] EXCEPT !.enabled = ~disk[p].enabled]
    <3>1. f \in File /\ f.kind = "whole" /\ f.enabled = ~disk[p].enabled BY <2>1 DEF File
    <3>2. disk' = [disk EXCEPT ![p] = f] /\ authored' = [authored EXCEPT ![p] = ~disk[p].enabled]
      BY <2>3 DEF EditEnabled
    <3> QED BY <1>1, <2>1, <2>2, <3>1, <3>2, PeopleWrite DEF PushInv, PushTypeOK, File
  <2>4. CASE EditCites(p)
    <3>1. PICK n \in 1..opened : disk' = [disk EXCEPT ![p].cites = n] BY <2>4 DEF EditCites
    <3> DEFINE f == [disk[p] EXCEPT !.cites = n]
    <3>2. n \in Number BY PatchPushAssumption DEF PushInv, PushTypeOK, Number
    <3>3. f \in File /\ f.kind = "whole" /\ f.enabled = disk[p].enabled BY <2>1, <3>2 DEF File
    <3>4. disk' = [disk EXCEPT ![p] = f] /\ authored' = authored
      BY <2>4, <3>1 DEF EditCites, people
    <3> QED BY <1>1, <2>1, <2>2, <3>3, <3>4, PeopleWrite DEF PushInv, PushTypeOK
  <2> QED BY <1>3, <2>3, <2>4
<1> QED BY <1>2, <1>3 DEF Edit

LEMMA UpstreamKeeps ==
  ASSUME PushInv, Upstream PROVE PushInv'
<1>1. UNCHANGED <<disk, autoPr, branches, job, faults>> /\ authored' = authored /\ gone' = gone
  BY DEF Upstream, people
<1>2. prs' \in [1..MaxPr -> Pr] /\ opened' \in Number
  <2>1. ASSUME NEW p \in Patches, OpenPr(p, FALSE) PROVE prs' \in [1..MaxPr -> Pr] /\ opened' \in Number
    BY <2>1, OpenPrType DEF PushInv
  <2>2. ASSUME NEW n \in 1..opened, Review(n), opened' = opened
        PROVE  prs' \in [1..MaxPr -> Pr] /\ opened' \in Number
    <3>1. PICK s \in {"open", "closed", "merged"} : prs' = [prs EXCEPT ![n].state = s]
      BY <2>2 DEF Review
    <3>2. prs \in [1..MaxPr -> Pr] /\ opened \in Number /\ n \in 1..MaxPr
      BY PatchPushAssumption DEF PushInv, PushTypeOK, Number
    <3>3. [prs[n] EXCEPT !.state = s] \in Pr BY <3>2 DEF Pr
    <3> QED BY <2>2, <3>1, <3>2, <3>3
  <2> QED BY <2>1, <2>2 DEF Upstream
<1>3. PushTypeOK' BY <1>1, <1>2 DEF PushInv, PushTypeOK
<1>4. IdsOK' /\ OneRecorder' /\ EditsKept' /\ DroppedStaysGone'
  BY <1>1 DEF PushInv, IdsOK, OneRecorder, Recording, EditsKept, DroppedStaysGone, Whole
<1>5. \A k \in Jobs : Recording(k)' => OnRecord(k)'
  BY <1>1 DEF PushInv, OnRecord, Recording, At
<1> QED BY <1>3, <1>4, <1>5 DEF PushInv

LEMMA StutterKeeps ==
  ASSUME PushInv, UNCHANGED pushVars PROVE PushInv'
<1>1. UNCHANGED <<disk, autoPr, prs, opened, branches, job, authored, gone, faults>>
  BY DEF pushVars, github, people
<1>2. PushTypeOK' BY <1>1 DEF PushInv, PushTypeOK
<1>3. IdsOK' /\ OneRecorder' /\ EditsKept' /\ DroppedStaysGone'
  BY <1>1 DEF PushInv, IdsOK, OneRecorder, Recording, EditsKept, DroppedStaysGone, Whole
<1>4. \A k \in Jobs : Recording(k)' => OnRecord(k)'
  BY <1>1 DEF PushInv, OnRecord, Recording, At
<1> QED BY <1>2, <1>3, <1>4 DEF PushInv

-----------------------------------------------------------------------------
(* The theorems *)

LEMMA PushInvInit ==
  ASSUME RecordsAlone = TRUE PROVE PushInit => PushInv
<1> SUFFICES ASSUME PushInit PROVE PushInv OBVIOUS
<1>1. PushTypeOK
  BY Consts, PatchPushAssumption DEF PushInit, PushTypeOK, Number
<1>2. \A j \in Jobs : job[j].pc = "idle" BY DEF PushInit, NoJob
<1>3. IdsOK /\ OneRecorder /\ \A j \in Jobs : ~Recording(j)
  BY <1>2 DEF IdsOK, OneRecorder, Recording
<1>4. EditsKept /\ DroppedStaysGone
  BY DEF PushInit, EditsKept, DroppedStaysGone, Whole, Absent
<1> QED BY <1>1, <1>3, <1>4 DEF PushInv

LEMMA PushInvStep ==
  ASSUME RecordsAlone = TRUE, PushInv, [PushNext]_pushVars PROVE PushInv'
<1>1. ASSUME NEW j \in Jobs, JobStep(j) PROVE PushInv'
  <2>1. CASE \E p \in Patches : StartDrop(j, p) BY <2>1, StartDropKeeps
  <2>2. CASE \E p \in Patches, dry \in BOOLEAN : StartPush(j, p, dry) BY <2>2, StartPushKeeps
  <2>3. CASE ReadFile(j) \/ Rails(j) \/ GitPush(j)
    BY <2>3, ReadFileKeeps, RailsKeeps, GitPushKeeps
  <2>4. CASE CreatePr(j) \/ CreateUnheard(j) BY <2>4, CreateKeeps
  <2>5. CASE RecordExists(j) \/ ReadBack(j) BY <2>5, RecordExistsKeeps, ReadBackKeeps
  <2>6. CASE Truncate(j) \/ Write(j) BY <2>6, TruncateKeeps, WriteKeeps
  <2>7. CASE DropExists(j) \/ Unlink(j) BY <2>7, DropExistsKeeps, UnlinkKeeps
  <2>8. CASE Finish(j) \/ Crash(j) BY <2>8, FinishKeeps, CrashKeeps
  <2> QED BY <1>1, <2>1, <2>2, <2>3, <2>4, <2>5, <2>6, <2>7, <2>8 DEF JobStep
<1>2. CASE Edit BY <1>2, EditKeeps
<1>3. CASE Upstream BY <1>3, UpstreamKeeps
<1>4. CASE UNCHANGED pushVars BY <1>4, StutterKeeps
<1> QED BY <1>1, <1>2, <1>3, <1>4 DEF PushNext

\* As long as nobody touches a yaml while push rewrites it, push_enabled is
\* what people last wrote, for any number of commands, edits and crashes.
THEOREM EditsSafe ==
  ASSUME RecordsAlone = TRUE PROVE PushSpec => []EditsKept
<1>1. PushInv => EditsKept BY DEF PushInv
<1> QED BY <1>1, PushInvInit, PushInvStep, PTL DEF PushSpec

\* Under the same discipline no push brings a dropped yaml back, however long
\* it waited for gh meanwhile.
THEOREM DropsSafe ==
  ASSUME RecordsAlone = TRUE PROVE PushSpec => []DroppedStaysGone
<1>1. PushInv => DroppedStaysGone BY DEF PushInv
<1> QED BY <1>1, PushInvInit, PushInvStep, PTL DEF PushSpec

-----------------------------------------------------------------------------
(* Types, under no discipline at all *)

PushTypes == PushTypeOK /\ IdsOK

WorldOK ==
  /\ RestOK
  /\ disk \in [Patches -> File] /\ authored \in [Patches -> BOOLEAN]
  /\ gone \in SUBSET Patches

LEMMA JobTypes ==
  ASSUME PushTypes, WorldOK', NEW j \in Jobs, NEW r \in Job, SetJob(j, r),
         r.pc \notin {"idle", "done"} => r.id \in Patches
  PROVE  PushTypes'
<1>1. job' \in [Jobs -> Job] /\ job'[j] = r /\ \A k \in Jobs \ {j} : job'[k] = job[k]
  BY SetJobEffect DEF PushTypes, PushTypeOK
<1>2. PushTypeOK' BY <1>1 DEF PushTypeOK, WorldOK, RestOK
<1>3. IdsOK' BY <1>1 DEF PushTypes, IdsOK
<1> QED BY <1>2, <1>3 DEF PushTypes

LEMMA ReturnTypes ==
  ASSUME PushTypes, WorldOK', NEW j \in Jobs,
         NEW s \in {"none", "ok", "failed", "error", "raised", "crashed"}, Return(j, s)
  PROVE  PushTypes'
<1> DEFINE r == [NoJob EXCEPT !.pc = "done", !.result = s]
<1>1. r \in Job /\ r.pc = "done" BY Consts DEF NoJob, Job
<1> QED BY <1>1, JobTypes DEF Return

LEMMA GotoTypes ==
  ASSUME PushTypes, WorldOK', NEW j \in Jobs, job[j].pc \notin {"idle", "done"},
         NEW l \in {"rails", "push", "create", "readback", "write", "unlink"}, Goto(j, l)
  PROVE  PushTypes'
<1> DEFINE r == [job[j] EXCEPT !.pc = l]
<1>1. job[j] \in Job /\ job[j].id \in Patches BY DEF PushTypes, PushTypeOK, IdsOK
<1>2. r \in Job /\ r.id = job[j].id BY <1>1 DEF Job
<1> QED BY <1>1, <1>2, JobTypes DEF Goto

LEMMA SameWorld ==
  ASSUME PushTypes, Fault \/ Quiet, UNCHANGED <<disk, autoPr, github, people>>
  PROVE  WorldOK'
BY SameRest DEF PushTypes, PushTypeOK, WorldOK, people

\* The steps of a command that change no yaml.
LEMMA ReadOnlyTypes ==
  ASSUME PushTypes, NEW j \in Jobs,
         \/ \E p \in Patches : StartDrop(j, p) \/ \E dry \in BOOLEAN : StartPush(j, p, dry)
         \/ ReadFile(j) \/ Rails(j) \/ GitPush(j) \/ CreatePr(j) \/ CreateUnheard(j)
         \/ RecordExists(j) \/ ReadBack(j) \/ DropExists(j) \/ Finish(j) \/ Crash(j)
  PROVE  PushTypes'
<1>1. job[j] \in Job /\ (job[j].pc \notin {"idle", "done"} => job[j].id \in Patches)
      /\ \A p \in Patches : disk[p] \in File
  BY DEF PushTypes, PushTypeOK, IdsOK
<1>2. ASSUME NEW p \in Patches, StartDrop(j, p) PROVE PushTypes'
  <2> DEFINE r == [NoJob EXCEPT !.pc = "dropexists", !.id = p]
  <2>1. r \in Job /\ r.id = p BY Consts DEF NoJob, Job
  <2> QED BY <1>2, <2>1, JobTypes, SameWorld DEF StartDrop
<1>3. ASSUME NEW p \in Patches, NEW dry \in BOOLEAN, StartPush(j, p, dry) PROVE PushTypes'
  <2> DEFINE r == [NoJob EXCEPT !.pc = "read", !.id = p, !.dry = dry, !.todo = OnDisk]
  <2>1. r \in Job /\ r.id = p BY Consts DEF NoJob, Job, OnDisk
  <2> QED BY <1>3, <2>1, JobTypes, SameWorld DEF StartPush
<1>4. CASE ReadFile(j)
  <2>1. WorldOK' BY <1>4, SameWorld DEF ReadFile
  <2>2. ASSUME NEW p, Whole(p),
               SetJob(j, [job[j] EXCEPT !.todo = @ \ {p}, !.seen[p] = disk[p]])
        PROVE  PushTypes'
    <3> DEFINE r == [job[j] EXCEPT !.todo = @ \ {p}, !.seen[p] = disk[p]]
    <3>1. [job[j].seen EXCEPT ![p] = disk[p]] \in [Patches -> File] BY <1>1 DEF Job
    <3>2. r \in Job /\ r.id = job[j].id BY <1>1, <3>1 DEF Job
    <3> QED BY <1>1, <1>4, <2>1, <2>2, <3>2, JobTypes DEF ReadFile, At
  <2> QED BY <1>4, <2>1, <2>2, ReturnTypes, GotoTypes DEF ReadFile, At
<1>5. CASE Rails(j)
  <2>1. WorldOK' BY <1>5, SameWorld DEF Rails
  <2>2. Return(j, "error") \/ Return(j, "ok") \/ Goto(j, "push") BY <1>5 DEF Rails
  <2> QED BY <1>5, <2>1, <2>2, ReturnTypes, GotoTypes DEF Rails, At
<1>6. CASE GitPush(j)
  <2>1. WorldOK'
    BY <1>1, <1>6, FaultType DEF GitPush, At, PushTypes, PushTypeOK, WorldOK, RestOK, people
  <2> QED BY <1>6, <2>1, ReturnTypes, GotoTypes DEF GitPush, At
<1>7. CASE CreatePr(j) \/ CreateUnheard(j)
  <2>1. OpenPr(job[j].id, TRUE) \/ UNCHANGED <<prs, opened>>
    BY <1>7 DEF CreatePr, CreateUnheard
  <2>2. WorldOK'
    <3>1. prs' \in [1..MaxPr -> Pr] /\ opened' \in Number
      BY <1>1, <1>7, <2>1, OpenPrType DEF CreatePr, CreateUnheard, At, PushTypes, PushTypeOK
    <3> QED BY <1>7, <3>1, FaultType
          DEF CreatePr, CreateUnheard, PushTypes, PushTypeOK, WorldOK, RestOK, people
  <2>3. CASE \E s \in {"ok", "failed", "crashed"} : Return(j, s) BY <2>2, <2>3, ReturnTypes
  <2>4. CASE /\ OpenPr(job[j].id, TRUE)
             /\ SetJob(j, [job[j] EXCEPT !.pc = "exists", !.url = opened + 1])
    <3> DEFINE r == [job[j] EXCEPT !.pc = "exists", !.url = opened + 1]
    <3>1. job[j].id \in Patches BY <1>1, <1>7 DEF CreatePr, CreateUnheard, At
    <3>2. opened + 1 \in Number BY <2>4, <3>1, OpenPrType DEF PushTypes
    <3>3. r \in Job /\ r.id = job[j].id BY <1>1, <3>2 DEF Job
    <3> QED BY <2>2, <2>4, <3>1, <3>3, JobTypes
  <2> QED BY <1>7, <2>3, <2>4 DEF CreatePr, CreateUnheard
<1>8. CASE RecordExists(j)
  BY <1>8, SameWorld, ReturnTypes, GotoTypes DEF RecordExists, At
<1>9. CASE ReadBack(j)
  <2> DEFINE now == disk[job[j].id]
             raw == IF now.kind = "empty" THEN [Absent EXCEPT !.kind = "broken"] ELSE now
             r   == [job[j] EXCEPT !.pc = "truncate", !.raw = raw]
  <2>1. WorldOK' BY <1>9, SameWorld DEF ReadBack
  <2>2. job[j].id \in Patches BY <1>1, <1>9 DEF ReadBack, At
  <2>3. [Absent EXCEPT !.kind = "broken"] \in File BY Consts DEF Absent, File
  <2>4. raw \in File BY <1>1, <2>2, <2>3
  <2> HIDE DEF raw
  <2>5. r \in Job /\ r.id = job[j].id BY <1>1, <2>4 DEF Job
  <2>6. Return(j, "raised") \/ SetJob(j, r) BY <1>9 DEF ReadBack, raw
  <2> QED BY <2>1, <2>2, <2>5, <2>6, ReturnTypes, JobTypes
<1>10. CASE DropExists(j)
  BY <1>10, SameWorld, ReturnTypes, GotoTypes DEF DropExists, At
<1>11. CASE Finish(j)
  BY <1>11, SameWorld, Consts, JobTypes DEF Finish, NoJob
<1>12. CASE Crash(j) BY <1>12, SameWorld, ReturnTypes DEF Crash
<1> QED BY <1>2, <1>3, <1>4, <1>5, <1>6, <1>7, <1>8, <1>9, <1>10, <1>11, <1>12

\* The steps that write or remove one.
LEMMA WritingTypes ==
  ASSUME PushTypes, NEW j \in Jobs, Truncate(j) \/ Write(j) \/ Unlink(j)
  PROVE  PushTypes'
<1> DEFINE p == job[j].id
<1>1. job[j] \in Job /\ p \in Patches
  BY DEF PushTypes, PushTypeOK, IdsOK, Truncate, Write, Unlink, At
<1>2. /\ [Absent EXCEPT !.kind = "empty"] \in File
      /\ [job[j].raw EXCEPT !.pushed = job[j].url] \in File
  BY <1>1, Consts DEF Absent, File, Job
<1>3. disk' \in [Patches -> File]
  BY <1>2, Consts DEF Truncate, Write, Unlink, PushTypes, PushTypeOK
<1>4. WorldOK'
  <2>1. RestOK' BY SameRest DEF Truncate, Write, Unlink, PushTypes
  <2> QED BY <1>1, <1>3, <2>1
        DEF Truncate, Write, Unlink, PushTypes, PushTypeOK, WorldOK, people
<1> QED BY <1>4, ReturnTypes, GotoTypes DEF Truncate, Write, Unlink, At

\* People change no command.
LEMMA PeopleTypes ==
  ASSUME PushTypes, Edit \/ Upstream
  PROVE  PushTypes'
<1>1. UNCHANGED <<autoPr, branches, job, faults, gone>>
  BY DEF Edit, Author, EditEnabled, EditCites, Upstream, github, people
<1>2. CASE Edit
  <2>1. PICK p \in Patches : Author(p) \/ EditEnabled(p) \/ EditCites(p)
    BY <1>2 DEF Edit
  <2>2. disk[p] \in File /\ 1..opened \subseteq Number
    BY PatchPushAssumption DEF PushTypes, PushTypeOK, Number
  <2>3. /\ \A e \in BOOLEAN : [Absent EXCEPT !.kind = "whole", !.enabled = e] \in File
        /\ [disk[p] EXCEPT !.enabled = ~@] \in File
        /\ \A n \in 1..opened : [disk[p] EXCEPT !.cites = n] \in File
    BY <2>2, Consts DEF Absent, File
  <2>4. disk' \in [Patches -> File] /\ authored' \in [Patches -> BOOLEAN]
    <3>1. CASE Author(p)
      BY <2>3, <3>1 DEF Author, PushTypes, PushTypeOK
    <3>2. CASE EditEnabled(p)
      <4>1. disk' = [disk EXCEPT ![p] = [disk[p] EXCEPT !.enabled = ~@]]
        BY <3>2 DEF EditEnabled, PushTypes, PushTypeOK
      <4> QED BY <2>3, <3>2, <4>1 DEF EditEnabled, PushTypes, PushTypeOK
    <3>3. CASE EditCites(p)
      <4>1. \E n \in 1..opened : disk' = [disk EXCEPT ![p] = [disk[p] EXCEPT !.cites = n]]
        BY <3>3 DEF EditCites, PushTypes, PushTypeOK
      <4> QED BY <2>3, <3>3, <4>1 DEF EditCites, PushTypes, PushTypeOK, people
    <3> QED BY <2>1, <3>1, <3>2, <3>3
  <2>5. PushTypeOK' BY <1>1, <1>2, <2>4 DEF Edit, github, PushTypes, PushTypeOK
  <2> QED BY <1>1, <2>5 DEF PushTypes, IdsOK
<1>3. CASE Upstream
  <2>1. prs' \in [1..MaxPr -> Pr] /\ opened' \in Number
    <3>1. ASSUME NEW p \in Patches, OpenPr(p, FALSE)
          PROVE  prs' \in [1..MaxPr -> Pr] /\ opened' \in Number
      BY <3>1, OpenPrType DEF PushTypes
    <3>2. ASSUME NEW n \in 1..opened, Review(n), opened' = opened
          PROVE  prs' \in [1..MaxPr -> Pr] /\ opened' \in Number
      <4>1. PICK s \in {"open", "closed", "merged"} : prs' = [prs EXCEPT ![n].state = s]
        BY <3>2 DEF Review
      <4>2. prs \in [1..MaxPr -> Pr] /\ opened \in Number /\ n \in 1..MaxPr
        BY PatchPushAssumption DEF PushTypes, PushTypeOK, Number
      <4>3. [prs[n] EXCEPT !.state = s] \in Pr BY <4>2 DEF Pr
      <4> QED BY <3>2, <4>1, <4>2, <4>3
    <3> QED BY <1>3, <3>1, <3>2 DEF Upstream
  <2>2. PushTypeOK' BY <1>1, <1>3, <2>1 DEF Upstream, people, PushTypes, PushTypeOK
  <2> QED BY <1>1, <2>2 DEF PushTypes, IdsOK
<1> QED BY <1>2, <1>3

LEMMA PushTypesStep ==
  ASSUME PushTypes, [PushNext]_pushVars
  PROVE  PushTypes'
<1>1. ASSUME NEW j \in Jobs, JobStep(j) PROVE PushTypes'
  BY <1>1, ReadOnlyTypes, WritingTypes DEF JobStep
<1>2. CASE UNCHANGED pushVars
  BY <1>2 DEF pushVars, github, people, PushTypes, PushTypeOK, IdsOK
<1> QED BY <1>1, <1>2, PeopleTypes DEF PushNext

LEMMA PushTypesInit == PushInit => PushTypes
<1> SUFFICES ASSUME PushInit PROVE PushTypes OBVIOUS
<1>1. PushTypeOK BY Consts, PatchPushAssumption DEF PushInit, PushTypeOK, Number
<1> QED BY <1>1 DEF PushInit, NoJob, PushTypes, IdsOK

-----------------------------------------------------------------------------
(* One pull request of ours, as long as nothing fails and pushes are serial *)

OnePush == \A j, k \in Jobs : Pushing(j) /\ Pushing(k) => j = k

\* push has its pull request and has not written its number down yet.
Numbering(j) == job[j].pc \in {"exists", "readback", "truncate", "write"}
Deciding(j)  == job[j].pc \in {"push", "create"}
OursOf(p)    == {n \in 1..opened : prs[n].ours /\ prs[n].of = p}
Lost(p)      == disk[p].kind = "absent" /\ p \in gone

\* No push of p can open another pull request.
Taken(p) ==
  \/ \E j \in Jobs : Numbering(j) /\ job[j].id = p
  \/ disk[p].kind = "whole" /\ disk[p].pushed # 0
  \/ Lost(p)

\* The records a push has read: an id is not used again, and until push opens
\* a pull request itself `pushed` says all there is to know.
SeenOK(j) ==
  /\ \A p \in Patches : job[j].seen[p].kind # "absent" =>
       /\ disk[p].kind # "absent" \/ p \in gone
       /\ ~Numbering(j) /\ job[j].seen[p].pushed = 0 => OursOf(p) = {}
  /\ Deciding(j) \/ Numbering(j) => job[j].seen[job[j].id].kind # "absent"
  /\ Deciding(j) => job[j].seen[job[j].id].pushed = 0
  /\ Numbering(j) => job[j].url # 0
  /\ job[j].pc \in {"truncate", "write"} => job[j].raw.kind = "whole"

FileOK(p) ==
  /\ disk[p].kind # "broken"
  /\ disk[p].kind = "empty" => \E j \in Jobs : At(j, "write") /\ job[j].id = p
  /\ OursOf(p) # {} => Taken(p)

OneEach == \A m, n \in 1..opened : prs[m].ours /\ prs[n].ours /\ prs[m].of = prs[n].of => m = n

Calm ==
  /\ \A p \in Patches : FileOK(p)
  /\ \A j \in Jobs : Pushing(j) => SeenOK(j)
  /\ OneEach

OnePrInv == PushTypes /\ OnePush /\ (faults = 0 => Calm)

\* A push is one of the first few steps, or has its number in hand.
LEMMA PushingSteps ==
  ASSUME PushTypes, NEW j \in Jobs
  PROVE  /\ Pushing(j) <=> (job[j].pc \in {"read", "rails", "push", "create"} \/ Numbering(j))
         /\ job[j] \in Job /\ (Pushing(j) => job[j].id \in Patches)
BY DEF PushTypes, PushTypeOK, IdsOK, Pushing, Numbering, Job

LEMMA OthersStay ==
  ASSUME PushTypes, NEW j \in Jobs, JobStep(j)
  PROVE  \A k \in Jobs \ {j} : job'[k] = job[k]
<1>1. \E r : SetJob(j, r)
  BY DEF JobStep, StartDrop, StartPush, ReadFile, Rails, GitPush, CreatePr, CreateUnheard,
         RecordExists, ReadBack, Truncate, Write, DropExists, Unlink, Finish, Crash,
         Return, Goto
<1> QED BY <1>1 DEF SetJob, PushTypes, PushTypeOK

\* What a command is after a step: through, or where it was sent.
LEMMA ReturnMove ==
  ASSUME PushTypes, NEW j \in Jobs,
         NEW s \in {"none", "ok", "failed", "error", "raised", "crashed"}, Return(j, s)
  PROVE  job'[j].pc = "done" /\ ~Pushing(j)'
BY ReturnEffect DEF PushTypes, PushTypeOK, Pushing

LEMMA GotoMove ==
  ASSUME PushTypes, NEW j \in Jobs,
         NEW l \in {"rails", "push", "create", "readback", "write", "unlink"}, Goto(j, l)
  PROVE  /\ job'[j].pc = l /\ job'[j].id = job[j].id /\ job'[j].seen = job[j].seen
         /\ job'[j].url = job[j].url /\ job'[j].raw = job[j].raw
<1> DEFINE r == [job[j] EXCEPT !.pc = l]
<1>1. job[j] \in Job BY DEF PushTypes, PushTypeOK
<1>2. /\ r.pc = l /\ r.id = job[j].id /\ r.seen = job[j].seen
      /\ r.url = job[j].url /\ r.raw = job[j].raw
  BY <1>1 DEF Job
<1>3. job'[j] = r BY DEF Goto, SetJob, PushTypes, PushTypeOK
<1> QED BY <1>2, <1>3

\* Pushes stay serial, faults or none.
LEMMA OnePushKeeps ==
  ASSUME PushesSerial = TRUE, PushTypes, OnePush, [PushNext]_pushVars
  PROVE  OnePush'
<1>1. ASSUME NEW j \in Jobs, JobStep(j) PROVE OnePush'
  <2>1. \A k \in Jobs \ {j} : Pushing(k)' => Pushing(k)
    BY <1>1, OthersStay DEF Pushing
  <2>2. Pushing(j)' => \A k \in Jobs \ {j} : ~Pushing(k)
    <3>1. CASE \E p \in Patches, dry \in BOOLEAN : StartPush(j, p, dry)
      BY <3>1 DEF StartPush
    <3>2. CASE Pushing(j) BY <3>2 DEF OnePush
    <3>3. CASE \E p \in Patches : StartDrop(j, p)
      <4>1. job'[j].pc = "dropexists"
        BY <3>3 DEF StartDrop, SetJob, NoJob, PushTypes, PushTypeOK
      <4> QED BY <4>1 DEF Pushing
    <3>4. CASE DropExists(j) \/ Unlink(j) \/ Finish(j) \/ Crash(j)
      <4>1. CASE Goto(j, "unlink") BY <4>1, GotoMove DEF Pushing
      <4>2. CASE \E s \in {"none", "ok", "failed", "error", "raised", "crashed"} : Return(j, s)
        BY <4>2, ReturnMove
      <4>3. CASE SetJob(j, NoJob) BY <4>3 DEF SetJob, NoJob, Pushing, PushTypes, PushTypeOK
      <4> QED BY <3>4, <4>1, <4>2, <4>3 DEF DropExists, Unlink, Finish, Crash
    <3> QED BY <1>1, <3>1, <3>2, <3>3, <3>4
          DEF JobStep, Pushing, At, ReadFile, Rails, GitPush, CreatePr, CreateUnheard,
              RecordExists, ReadBack, Truncate, Write
  <2> QED BY <2>1, <2>2 DEF OnePush
<1>2. CASE UNCHANGED job BY <1>2 DEF OnePush, Pushing
<1> QED BY <1>1, <1>2 DEF PushNext, Edit, Upstream, pushVars

\* A step that changes no yaml and opens nothing: the command keeps its number
\* in hand, or has none, or has lost the yaml it was for.
LEMMA MoveKeeps ==
  ASSUME PushTypes, OnePush, OnePush', Calm, NEW j \in Jobs,
         UNCHANGED <<disk, prs, opened, gone>>,
         \A k \in Jobs \ {j} : job'[k] = job[k],
         Pushing(j)' => SeenOK(j)',
         ~At(j, "write"),
         Numbering(j) => (Numbering(j)' /\ job'[j].id = job[j].id) \/ Lost(job[j].id)
  PROVE  Calm'
<1>1. ASSUME NEW p \in Patches PROVE FileOK(p)'
  <2>1. FileOK(p) BY DEF Calm
  <2>2. \A k \in Jobs \ {j} : /\ Numbering(k)' <=> Numbering(k)
                              /\ At(k, "write")' <=> At(k, "write")
    BY DEF Numbering, At
  <2>3. Taken(p) => Taken(p)' BY <2>2 DEF Taken, Lost
  <2> QED BY <2>1, <2>2, <2>3 DEF FileOK, OursOf
<1>2. ASSUME NEW k \in Jobs, Pushing(k)' PROVE SeenOK(k)'
  <2>1. CASE k # j
    <3>1. SeenOK(k) BY <1>2, <2>1 DEF Calm, Pushing
    <3> QED BY <2>1, <3>1 DEF SeenOK, Numbering, Deciding, OursOf
  <2> QED BY <1>2, <2>1
<1>3. OneEach' BY DEF Calm, OneEach
<1> QED BY <1>1, <1>2, <1>3 DEF Calm

LEMMA StartAndReadKeep ==
  ASSUME PushTypes, PushTypes', OnePush, OnePush', Calm, NEW j \in Jobs,
         \/ \E p \in Patches : StartDrop(j, p) \/ \E dry \in BOOLEAN : StartPush(j, p, dry)
         \/ ReadFile(j) \/ Rails(j) \/ DropExists(j) \/ Finish(j)
         \/ GitPush(j) /\ Quiet
  PROVE  Calm'
<1>1. UNCHANGED <<disk, prs, opened, gone>>
  BY DEF StartDrop, StartPush, ReadFile, Rails, GitPush, DropExists, Finish, github, people
<1>2. \A k \in Jobs \ {j} : job'[k] = job[k] BY OthersStay DEF JobStep
<1>3. ~At(j, "write") /\ ~Numbering(j)
  BY DEF StartDrop, StartPush, ReadFile, Rails, GitPush, DropExists, Finish, At, Numbering
<1>4. Pushing(j)' => SeenOK(j)'
  <2>1. CASE \E p \in Patches, dry \in BOOLEAN : StartPush(j, p, dry)
    <3>1. job'[j].pc = "read" /\ job'[j].seen = [p \in Patches |-> Absent]
      BY <2>1 DEF StartPush, SetJob, NoJob, PushTypes, PushTypeOK
    <3> QED BY <3>1 DEF SeenOK, Numbering, Deciding, Absent
  <2>2. CASE ReadFile(j)
    <3>1. SeenOK(j) /\ job[j].pc = "read" BY <2>2 DEF Calm, ReadFile, At, Pushing
    <3>2. ASSUME NEW p, Whole(p),
                 SetJob(j, [job[j] EXCEPT !.todo = @ \ {p}, !.seen[p] = disk[p]])
          PROVE  SeenOK(j)'
      <4>1. job[j] \in Job BY DEF PushTypes, PushTypeOK
      <4>2. job'[j] = [job[j] EXCEPT !.todo = @ \ {p}, !.seen[p] = disk[p]]
        BY <3>2 DEF SetJob, PushTypes, PushTypeOK
      <4>3. job'[j].pc = "read" /\ job'[j].seen = [job[j].seen EXCEPT ![p] = disk[p]]
        BY <3>1, <4>1, <4>2 DEF Job
      <4>4. ASSUME p \in Patches, disk[p].pushed = 0 PROVE OursOf(p) = {}
        <5>1. \A k \in Jobs : ~Numbering(k)
          BY <2>2, PushingSteps DEF OnePush, ReadFile, At, Numbering, Pushing
        <5>2. ~Taken(p) BY <3>2, <4>4, <5>1 DEF Taken, Lost, Whole
        <5> QED BY <4>4, <5>2 DEF Calm, FileOK
      <4>5. job[j].seen \in [Patches -> File] BY <4>1 DEF Job
      <4>6. ~Numbering(j)' /\ ~Deciding(j)' BY <4>3 DEF Numbering, Deciding
      <4>7. ASSUME NEW q \in Patches, job'[j].seen[q].kind # "absent"
            PROVE  /\ disk[q].kind # "absent" \/ q \in gone
                   /\ job'[j].seen[q].pushed = 0 => OursOf(q) = {}
        <5>1. CASE q = p BY <3>2, <4>3, <4>4, <4>5, <4>7, <5>1 DEF Whole
        <5>2. CASE q # p
          <6>1. job'[j].seen[q] = job[j].seen[q] BY <4>3, <4>5, <5>2
          <6> QED BY <3>1, <4>7, <6>1 DEF SeenOK, Numbering
        <5> QED BY <5>1, <5>2
      <4> QED BY <1>1, <4>3, <4>6, <4>7 DEF SeenOK, OursOf
    <3>3. Goto(j, "rails") => SeenOK(j)'
      BY <1>1, <3>1, GotoMove DEF SeenOK, Numbering, Deciding, OursOf
    <3> QED BY <2>2, <3>2, <3>3, ReturnMove DEF ReadFile
  <2>3. CASE Rails(j)
    <3>1. SeenOK(j) /\ job[j].pc = "rails" BY <2>3 DEF Calm, Rails, At, Pushing
    <3>2. ASSUME Goto(j, "push") PROVE SeenOK(j)'
      <4>1. job[j].seen[job[j].id].kind # "absent" /\ job[j].seen[job[j].id].pushed = 0
        BY <2>3, <3>2, GotoMove, ReturnMove DEF Rails, Pushing
      <4> QED BY <1>1, <3>1, <3>2, <4>1, GotoMove DEF SeenOK, Numbering, Deciding, OursOf
    <3> QED BY <2>3, <3>2, ReturnMove DEF Rails
  <2>4. CASE GitPush(j)
    <3>1. SeenOK(j) /\ job[j].pc = "push" BY <2>4 DEF Calm, GitPush, At, Pushing
    <3>2. Goto(j, "create") => SeenOK(j)'
      BY <1>1, <3>1, GotoMove DEF SeenOK, Numbering, Deciding, OursOf
    <3> QED BY <2>4, <3>2, ReturnMove DEF GitPush
  <2>5. CASE \E p \in Patches : StartDrop(j, p)
    <3>1. job'[j].pc = "dropexists"
      BY <2>5 DEF StartDrop, SetJob, NoJob, PushTypes, PushTypeOK
    <3> QED BY <3>1 DEF Pushing
  <2>6. CASE DropExists(j) BY <2>6, GotoMove, ReturnMove DEF DropExists, Pushing
  <2>7. CASE Finish(j)
    BY <2>7 DEF Finish, SetJob, NoJob, Pushing, PushTypes, PushTypeOK
  <2> QED BY <2>1, <2>2, <2>3, <2>4, <2>5, <2>6, <2>7
<1> QED BY <1>1, <1>2, <1>3, <1>4, MoveKeeps

\* The number is in hand from here on.
LEMMA CreateCalm ==
  ASSUME PushTypes, PushTypes', OnePush, OnePush', Calm, NEW j \in Jobs, CreatePr(j), Quiet
  PROVE  Calm'
<1> DEFINE p == job[j].id
<1>1. /\ job[j] \in Job /\ p \in Patches /\ job[j].pc = "create" /\ SeenOK(j)
      /\ opened \in Nat /\ prs \in [1..MaxPr -> Pr] /\ MaxPr \in Nat
  <2>1. job[j].pc = "create" BY DEF CreatePr, At
  <2>2. job[j] \in Job /\ p \in Patches BY <2>1 DEF PushTypes, PushTypeOK, IdsOK
  <2>3. SeenOK(j) BY <2>1 DEF Calm, Pushing
  <2>4. opened \in Nat /\ prs \in [1..MaxPr -> Pr] /\ MaxPr \in Nat
    BY PatchPushAssumption DEF PushTypes, PushTypeOK, Number
  <2> QED BY <2>1, <2>2, <2>3, <2>4
<1>2. \A k \in Jobs \ {j} : job'[k] = job[k] BY OthersStay DEF JobStep
<1>3. CASE Return(j, "failed") /\ UNCHANGED <<prs, opened>>
  <2>1. UNCHANGED <<disk, prs, opened, gone>> BY <1>3 DEF CreatePr, people
  <2> QED BY <1>1, <1>2, <1>3, <2>1, ReturnMove, MoveKeeps DEF At, Numbering
<1>4. CASE OpenPr(p, TRUE) /\ SetJob(j, [job[j] EXCEPT !.pc = "exists", !.url = opened + 1])
  <2>1. UNCHANGED <<disk, gone>> BY DEF CreatePr, people
  <2>2. job'[j] = [job[j] EXCEPT !.pc = "exists", !.url = opened + 1]
    BY <1>4 DEF SetJob, PushTypes, PushTypeOK
  <2>3. /\ job'[j].pc = "exists" /\ job'[j].url = opened + 1
        /\ job'[j].id = p /\ job'[j].seen = job[j].seen
    BY <1>1, <2>2 DEF Job
  <2>4. /\ opened' = opened + 1 /\ opened + 1 \in 1..MaxPr
        /\ prs'[opened + 1].of = p /\ prs'[opened + 1].ours
        /\ \A n \in 1..opened : prs'[n] = prs[n]
    BY <1>1, <1>4 DEF OpenPr
  <2>5. \A n \in 1..opened' : n = opened + 1 \/ n \in 1..opened BY <1>1, <2>4
  <2>6. OursOf(p) = {} BY <1>1 DEF SeenOK, Deciding, Numbering
  <2>7. \A q \in Patches \ {p} : OursOf(q)' = OursOf(q)
    BY <1>1, <2>4, <2>5 DEF OursOf
  <2>8. Numbering(j)' BY <2>3 DEF Numbering
  <2>9. ASSUME NEW q \in Patches PROVE FileOK(q)'
    <3>1. FileOK(q) BY DEF Calm
    <3>2. \A k \in Jobs : k # j => /\ Numbering(k)' <=> Numbering(k)
                                  /\ At(k, "write")' <=> At(k, "write")
      BY <1>2 DEF Numbering, At
    <3>3. ~Numbering(j) /\ ~At(j, "write") BY <1>1 DEF Numbering, At
    <3>4. Taken(q) \/ q = p => Taken(q)'
      <4>1. \A k \in Jobs : Numbering(k) => Numbering(k)' /\ job'[k].id = job[k].id
        BY <1>2, <3>3 DEF Numbering
      <4>2. Taken(q) => Taken(q)' BY <2>1, <4>1 DEF Taken, Lost
      <4>3. q = p => Taken(q)' BY <2>3, <2>8 DEF Taken
      <4> QED BY <4>2, <4>3
    <3>5. disk'[q].kind = "empty" => \E k \in Jobs : At(k, "write")' /\ job'[k].id = q
      BY <1>2, <2>1, <3>1, <3>2, <3>3 DEF FileOK
    <3> QED BY <2>1, <2>7, <3>1, <3>4, <3>5 DEF FileOK
  <2>10. ASSUME NEW k \in Jobs, Pushing(k)' PROVE SeenOK(k)'
    <3>1. k = j
      <4>1. Pushing(j)' BY <2>3 DEF Pushing
      <4> QED BY <2>10, <4>1 DEF OnePush
    <3>2. opened + 1 # 0 BY <1>1
    <3> QED BY <1>1, <2>1, <2>3, <2>8, <3>1, <3>2 DEF SeenOK, Deciding, Numbering
  <2>11. OneEach'
    <3>1. ASSUME NEW m \in 1..opened', NEW n \in 1..opened',
                 prs'[m].ours, prs'[n].ours, prs'[m].of = prs'[n].of
          PROVE  m = n
      <4>1. \A i \in 1..opened : ~(prs[i].ours /\ prs[i].of = p) BY <2>6 DEF OursOf
      <4>2. CASE m = opened + 1 BY <2>4, <2>5, <3>1, <4>1, <4>2
      <4>3. CASE n = opened + 1 BY <2>4, <2>5, <3>1, <4>1, <4>3
      <4>4. CASE m \in 1..opened /\ n \in 1..opened
        BY <2>4, <3>1, <4>4 DEF Calm, OneEach
      <4> QED BY <2>5, <4>2, <4>3, <4>4
    <3> QED BY <3>1 DEF OneEach
  <2> QED BY <2>9, <2>10, <2>11 DEF Calm
<1> QED BY <1>3, <1>4 DEF CreatePr, Fault, Quiet, PushTypes, PushTypeOK

\* _record_push up to its first write.
LEMMA RecordCalm ==
  ASSUME PushTypes, PushTypes', OnePush, OnePush', Calm, NEW j \in Jobs,
         RecordExists(j) \/ ReadBack(j)
  PROVE  Calm'
<1> DEFINE p == job[j].id
<1>1. UNCHANGED <<disk, prs, opened, gone>> /\ Numbering(j) /\ Pushing(j) /\ ~At(j, "write")
  BY DEF RecordExists, ReadBack, github, people, At, Numbering, Pushing
<1>2. \A k \in Jobs \ {j} : job'[k] = job[k] BY OthersStay DEF JobStep
<1>3. job[j] \in Job /\ p \in Patches /\ SeenOK(j) /\ FileOK(p)
  BY <1>1, PushingSteps DEF Calm
<1>4. disk[p].kind = "absent" => Lost(p) BY <1>1, <1>3 DEF SeenOK, Lost
<1>5. CASE \E s \in {"ok", "raised"} : Return(j, s) /\ disk[p].kind = "absent"
  BY <1>1, <1>2, <1>4, <1>5, ReturnMove, MoveKeeps
<1>6. CASE Goto(j, "readback")
  <2>1. Numbering(j)' /\ job'[j].id = job[j].id BY <1>6, GotoMove DEF Numbering
  <2>2. SeenOK(j)'
    BY <1>1, <1>3, <1>6, <2>1, GotoMove DEF SeenOK, Deciding, OursOf
  <2> QED BY <1>1, <1>2, <2>1, <2>2, MoveKeeps
<1>7. CASE ReadBack(j) /\ disk[p].kind # "absent"
  <2> DEFINE raw == IF disk[p].kind = "empty" THEN [Absent EXCEPT !.kind = "broken"]
                    ELSE disk[p]
  <2>1. disk[p].kind # "empty"
    BY <1>1, <1>3, PushingSteps DEF FileOK, OnePush, Numbering, At
  <2>2. disk[p].kind = "whole" BY <1>3, <1>7, <2>1 DEF FileOK, PushTypes, PushTypeOK, File
  <2>3. job' = [job EXCEPT ![j] = [job[j] EXCEPT !.pc = "truncate", !.raw = raw]]
    BY <1>7 DEF ReadBack, SetJob
  <2>4. job'[j] = [job[j] EXCEPT !.pc = "truncate", !.raw = disk[p]]
    BY <2>1, <2>3 DEF PushTypes, PushTypeOK
  <2>5. /\ job'[j].pc = "truncate" /\ job'[j].raw = disk[p] /\ job'[j].id = p
        /\ job'[j].seen = job[j].seen /\ job'[j].url = job[j].url
    BY <1>3, <2>4 DEF Job
  <2>6. Numbering(j)' BY <2>5 DEF Numbering
  <2>7. SeenOK(j)' BY <1>1, <1>3, <2>2, <2>5, <2>6 DEF SeenOK, Deciding, OursOf
  <2> QED BY <1>1, <1>2, <2>5, <2>6, <2>7, MoveKeeps
<1> QED BY <1>5, <1>6, <1>7 DEF RecordExists, ReadBack

\* What a write into, or the removal of, one yaml has to leave true.
LEMMA WriteCalm ==
  ASSUME PushTypes, OnePush, Calm, UNCHANGED <<prs, opened>>, NEW j \in Jobs, NEW p \in Patches,
         \A k \in Jobs \ {j} : job'[k] = job[k],
         \A q \in Patches \ {p} : disk'[q] = disk[q],
         gone \subseteq gone', disk'[p].kind = "absent" => p \in gone',
         Pushing(j)' => Pushing(j) /\ SeenOK(j)',
         Numbering(j) => job[j].id = p,
         FileOK(p)'
  PROVE  Calm'
<1>1. ASSUME NEW q \in Patches \ {p} PROVE FileOK(q)'
  <2>1. FileOK(q) BY DEF Calm
  <2>2. \A k \in Jobs : Numbering(k) /\ job[k].id = q
                        => Numbering(k)' /\ job'[k].id = q /\ (At(k, "write") => At(k, "write")')
    BY DEF Numbering, At
  <2>3. Taken(q) => Taken(q)' BY <2>2 DEF Taken, Lost
  <2>4. \A k \in Jobs : At(k, "write") => Numbering(k) BY DEF At, Numbering
  <2> QED BY <2>1, <2>2, <2>3, <2>4 DEF FileOK, OursOf
<1>2. ASSUME NEW k \in Jobs, Pushing(k)' PROVE SeenOK(k)'
  <2>1. CASE k # j
    <3>1. SeenOK(k) /\ job'[k] = job[k] BY <1>2, <2>1 DEF Calm, Pushing
    <3> QED BY <2>1, <3>1 DEF SeenOK, Numbering, Deciding, OursOf
  <2> QED BY <1>2, <2>1
<1>3. OneEach' BY DEF Calm, OneEach
<1> QED BY <1>1, <1>2, <1>3 DEF Calm

LEMMA TruncateCalm ==
  ASSUME PushTypes, OnePush, Calm, NEW j \in Jobs, Truncate(j)
  PROVE  Calm'
<1> DEFINE e == [Absent EXCEPT !.kind = "empty"]
<1>1. PICK p \in Patches : p = job[j].id BY DEF Truncate, At, PushTypes, IdsOK
<1>2. /\ job[j] \in Job /\ job[j].pc = "truncate" /\ Pushing(j) /\ Numbering(j) /\ SeenOK(j)
  BY DEF Truncate, At, Pushing, Numbering, PushTypes, PushTypeOK, Calm
<1>3. \A k \in Jobs \ {j} : job'[k] = job[k] BY OthersStay DEF JobStep
<1>4. UNCHANGED <<prs, opened, gone>> BY DEF Truncate, github, people
<1>5. e.kind = "empty" BY DEF Absent
<1>6. disk'[p] = e /\ \A q \in Patches \ {p} : disk'[q] = disk[q]
  BY <1>1 DEF Truncate, PushTypes, PushTypeOK
<1>7. /\ job'[j].pc = "write" /\ job'[j].id = p /\ job'[j].seen = job[j].seen
      /\ job'[j].url = job[j].url /\ job'[j].raw = job[j].raw
  BY <1>1, GotoMove DEF Truncate
<1>8. Numbering(j)' /\ At(j, "write")' BY <1>7 DEF Numbering, At
<1>9. FileOK(p)' BY <1>5, <1>6, <1>7, <1>8 DEF FileOK, Taken
<1>10. \A q \in Patches : disk[q].kind # "absent" => disk'[q].kind # "absent"
  BY <1>5, <1>6
<1>11. SeenOK(j)' BY <1>1, <1>2, <1>4, <1>7, <1>8, <1>10 DEF SeenOK, Deciding, OursOf
<1> QED BY <1>1, <1>2, <1>3, <1>4, <1>5, <1>6, <1>9, <1>11, WriteCalm

LEMMA WriteIsCalm ==
  ASSUME PushTypes, OnePush, Calm, NEW j \in Jobs, Write(j)
  PROVE  Calm'
<1> DEFINE e == [job[j].raw EXCEPT !.pushed = job[j].url]
<1>1. PICK p \in Patches : p = job[j].id BY DEF Write, At, PushTypes, IdsOK
<1>2. /\ job[j] \in Job /\ job[j].pc = "write" /\ Pushing(j) /\ Numbering(j) /\ SeenOK(j)
  BY DEF Write, At, Pushing, Numbering, PushTypes, PushTypeOK, Calm
<1>3. \A k \in Jobs \ {j} : job'[k] = job[k] BY OthersStay DEF JobStep
<1>4. UNCHANGED <<prs, opened, gone>> BY DEF Write, github, people
<1>5. e.kind = "whole" /\ e.pushed # 0 BY <1>2 DEF SeenOK, Job, File
<1>6. disk[p].kind = "absent" => p \in gone BY <1>1, <1>2 DEF SeenOK
<1>7. \A q \in Patches \ {p} : disk'[q] = disk[q]
  BY <1>1 DEF Write, PushTypes, PushTypeOK
<1>8. disk'[p] = e \/ (disk'[p].kind = "absent" /\ p \in gone)
  BY <1>1, <1>6 DEF Write, PushTypes, PushTypeOK
<1>9. FileOK(p)' BY <1>4, <1>5, <1>8 DEF FileOK, Taken, Lost
<1>10. ~Pushing(j)' BY ReturnMove DEF Write
<1> QED BY <1>1, <1>3, <1>4, <1>5, <1>7, <1>8, <1>9, <1>10, WriteCalm

LEMMA UnlinkCalm ==
  ASSUME PushTypes, OnePush, OnePush', Calm, NEW j \in Jobs, Unlink(j)
  PROVE  Calm'
<1>1. PICK p \in Patches : p = job[j].id BY DEF Unlink, At, PushTypes, IdsOK
<1>2. ~Pushing(j) /\ ~Numbering(j) /\ ~At(j, "write")
  BY DEF Unlink, At, Pushing, Numbering
<1>3. \A k \in Jobs \ {j} : job'[k] = job[k] BY OthersStay DEF JobStep
<1>4. UNCHANGED <<prs, opened>> BY DEF Unlink, github
<1>5. ~Pushing(j)' BY ReturnMove DEF Unlink
<1>6. CASE UNCHANGED <<disk, gone>> BY <1>2, <1>3, <1>4, <1>5, <1>6, MoveKeeps
<1>7. CASE disk' = [disk EXCEPT ![p] = Absent] /\ gone' = gone \cup {p}
  <2>1. disk'[p].kind = "absent" /\ \A q \in Patches \ {p} : disk'[q] = disk[q]
    BY <1>7 DEF PushTypes, PushTypeOK, Absent
  <2>2. FileOK(p)' BY <1>7, <2>1 DEF FileOK, Taken, Lost
  <2> QED BY <1>2, <1>3, <1>4, <1>5, <1>7, <2>1, <2>2, WriteCalm
<1> QED BY <1>1, <1>6, <1>7 DEF Unlink

\* A new patch has had no pull request of ours, and edits leave `pushed` alone.
LEMMA EditCalm ==
  ASSUME PushTypes, OnePush, Calm, Edit
  PROVE  Calm'
<1>1. UNCHANGED <<prs, opened, job, gone>>
  BY DEF Edit, Author, EditEnabled, EditCites, github, people
<1>2. PICK p \in Patches : Author(p) \/ EditEnabled(p) \/ EditCites(p) BY DEF Edit
<1>3. disk[p] \in File /\ FileOK(p) BY DEF PushTypes, PushTypeOK, Calm
<1>4. \A q \in Patches \ {p} : disk'[q] = disk[q]
  BY <1>2 DEF Author, EditEnabled, EditCites, PushTypes, PushTypeOK
<1>5. /\ disk'[p].kind = "whole"
      /\ disk[p].kind = "absent" => p \notin gone
      /\ disk[p].kind # "absent" =>
           disk[p].kind = "whole" /\ disk'[p].pushed = disk[p].pushed
  <2>1. CASE Author(p) BY <2>1 DEF Author, Absent, PushTypes, PushTypeOK
  <2>2. CASE EditEnabled(p)
    <3>1. disk'[p] = [disk[p] EXCEPT !.enabled = ~@]
      BY <2>2 DEF EditEnabled, PushTypes, PushTypeOK
    <3> QED BY <1>3, <2>2, <3>1 DEF EditEnabled, Whole, File
  <2>3. CASE EditCites(p)
    <3>1. \E n \in 1..opened : disk'[p] = [disk[p] EXCEPT !.cites = n]
      BY <2>3 DEF EditCites, PushTypes, PushTypeOK
    <3> QED BY <1>3, <2>3, <3>1 DEF EditCites, Whole, File
  <2> QED BY <1>2, <2>1, <2>2, <2>3
<1>6. ASSUME NEW k \in Jobs, Numbering(k), job[k].id = p PROVE disk[p].kind # "absent"
  BY <1>5, <1>6, PushingSteps DEF Calm, SeenOK
<1>7. FileOK(p)'
  <2>1. CASE disk[p].kind = "absent"
    <3>1. OursOf(p) = {} BY <1>3, <1>5, <1>6, <2>1 DEF FileOK, Taken, Lost
    <3> QED BY <1>1, <1>5, <3>1 DEF FileOK, OursOf
  <2>2. CASE disk[p].kind # "absent"
    <3>1. Taken(p) => Taken(p)' BY <1>1, <1>5, <2>2 DEF Taken, Lost, Numbering
    <3> QED BY <1>1, <1>3, <1>5, <2>2, <3>1 DEF FileOK, OursOf
  <2> QED BY <2>1, <2>2
<1>8. ASSUME NEW q \in Patches \ {p} PROVE FileOK(q)'
  <2>1. FileOK(q) BY DEF Calm
  <2> QED BY <1>1, <1>4, <2>1 DEF FileOK, Taken, Lost, OursOf, Numbering, At
<1>9. ASSUME NEW k \in Jobs, Pushing(k)' PROVE SeenOK(k)'
  <2>1. SeenOK(k) BY <1>1, <1>9 DEF Calm, Pushing
  <2>2. \A q \in Patches : disk'[q].kind = "absent" => disk[q].kind = "absent" BY <1>4, <1>5
  <2> QED BY <1>1, <2>1, <2>2 DEF SeenOK, Numbering, Deciding, OursOf
<1>10. OneEach' BY <1>1 DEF Calm, OneEach
<1> QED BY <1>7, <1>8, <1>9, <1>10 DEF Calm

\* Nothing upstream does is a pull request of ours.
LEMMA UpstreamCalm ==
  ASSUME PushTypes, OnePush, Calm, Upstream
  PROVE  Calm'
<1>1. UNCHANGED <<disk, job, gone>> BY DEF Upstream, people
<1>2. prs \in [1..MaxPr -> Pr] /\ opened \in Nat /\ opened <= MaxPr /\ MaxPr \in Nat
  BY PatchPushAssumption DEF PushTypes, PushTypeOK, Number
<1>3. /\ opened' \in Nat
      /\ \A n \in 1..opened' : prs'[n].ours =>
           n \in 1..opened /\ prs[n].ours /\ prs'[n].of = prs[n].of
  <2>1. ASSUME NEW p \in Patches, OpenPr(p, FALSE) PROVE <1>3!1 /\ <1>3!2
    <3>1. /\ opened' = opened + 1 /\ opened + 1 \in 1..MaxPr /\ ~prs'[opened + 1].ours
          /\ \A n \in 1..opened : prs'[n] = prs[n]
      BY <1>2, <2>1 DEF OpenPr
    <3>2. \A n \in 1..opened' : n = opened + 1 \/ n \in 1..opened BY <1>2, <3>1
    <3> QED BY <1>2, <3>1, <3>2
  <2>2. ASSUME NEW n \in 1..opened, Review(n), opened' = opened PROVE <1>3!1 /\ <1>3!2
    <3>1. PICK s \in {"open", "closed", "merged"} : prs' = [prs EXCEPT ![n].state = s]
      BY <2>2 DEF Review
    <3>2. \A m \in 1..opened : m \in 1..MaxPr /\ prs[m] \in Pr BY <1>2
    <3>3. \A m \in 1..opened : prs'[m].ours = prs[m].ours /\ prs'[m].of = prs[m].of
      BY <1>2, <3>1, <3>2 DEF Pr
    <3> QED BY <1>2, <2>2, <3>3
  <2> QED BY <2>1, <2>2 DEF Upstream
<1>4. \A p \in Patches : OursOf(p)' \subseteq OursOf(p) BY <1>3 DEF OursOf
<1>5. ASSUME NEW p \in Patches PROVE FileOK(p)'
  <2>1. FileOK(p) BY DEF Calm
  <2> QED BY <1>1, <1>4, <2>1 DEF FileOK, Taken, Lost, Numbering, At
<1>6. ASSUME NEW k \in Jobs, Pushing(k)' PROVE SeenOK(k)'
  <2>1. SeenOK(k) BY <1>1, <1>6 DEF Calm, Pushing
  <2>2. \A p \in Patches : OursOf(p) = {} => OursOf(p)' = {} BY <1>4
  <2> QED BY <1>1, <2>1, <2>2 DEF SeenOK, Numbering, Deciding
<1>7. OneEach' BY <1>3 DEF Calm, OneEach
<1> QED BY <1>5, <1>6, <1>7 DEF Calm

LEMMA OnePrStep ==
  ASSUME PushesSerial = TRUE, OnePrInv, [PushNext]_pushVars
  PROVE  OnePrInv'
<1>1. PushTypes' /\ OnePush' BY PushTypesStep, OnePushKeeps DEF OnePrInv
<1>2. ASSUME faults' = 0 PROVE Calm'
  <2>1. faults \in Nat BY PatchPushAssumption DEF OnePrInv, PushTypes, PushTypeOK
  <2>2. ASSUME NEW j \in Jobs, JobStep(j) PROVE Calm'
    <3>1. ~Fault BY <1>2, <2>1 DEF Fault
    <3>2. Quiet
      BY <2>2, <3>1 DEF JobStep, StartDrop, StartPush, ReadFile, Rails, GitPush, CreatePr,
           CreateUnheard, RecordExists, ReadBack, Truncate, Write, DropExists, Unlink,
           Finish, Crash
    <3>3. PushTypes /\ OnePush /\ Calm BY <1>2, <3>2 DEF OnePrInv, Quiet
    <3> QED BY <1>1, <2>2, <3>1, <3>2, <3>3, StartAndReadKeep, CreateCalm, RecordCalm,
              TruncateCalm, WriteIsCalm, UnlinkCalm DEF JobStep, CreateUnheard, Crash
  <2>3. CASE Edit \/ Upstream
    BY <1>2, <2>3, EditCalm, UpstreamCalm DEF OnePrInv, Edit, Upstream
  <2>4. CASE UNCHANGED pushVars
    <3>1. Calm /\ UNCHANGED <<disk, prs, opened, job, gone>>
      BY <1>2, <2>4 DEF OnePrInv, pushVars, github, people
    <3> QED BY <3>1 DEF Calm, FileOK, SeenOK, OneEach, Taken, Lost, OursOf, Numbering,
                        Deciding, Pushing, At
  <2> QED BY <2>2, <2>3, <2>4 DEF PushNext
<1> QED BY <1>1, <1>2 DEF OnePrInv

\* As long as one push runs at a time and nothing fails, a patch never gets a
\* second pull request, for any number of patches and programs: not after the
\* first was closed, not when its yaml is edited or dropped under the push.
THEOREM OnePrSafe ==
  ASSUME PushesSerial = TRUE PROVE PushSpec => []NoSecondPr
<1>1. PushInit => OnePrInv
  <2> SUFFICES ASSUME PushInit PROVE OnePrInv OBVIOUS
  <2>1. PushTypes BY PushTypesInit
  <2>2. OnePush /\ \A j \in Jobs : ~Pushing(j) BY DEF PushInit, NoJob, OnePush, Pushing
  <2>3. OneEach /\ \A p \in Patches : FileOK(p)
    BY DEF PushInit, OneEach, FileOK, OursOf, Absent
  <2> QED BY <2>1, <2>2, <2>3 DEF OnePrInv, Calm
<1>2. OnePrInv => NoSecondPr BY DEF OnePrInv, Calm, OneEach, NoSecondPr
<1> QED BY <1>1, <1>2, OnePrStep, PTL DEF PushSpec
=============================================================================
