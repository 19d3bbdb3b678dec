----------------------------- MODULE PollProofs -----------------------------
(* Theorems about Poll, next to pushes, drops and people that nothing holds *)
(* back, for any number of patches, pull requests and commits.              *)
EXTENDS Poll, PatchPushProofs, NaturalSets

\* A citation names a pull request there is, of that patch.
CitesOK(p, f) == f.cites # 0 => f.cites \in 1..opened /\ prs[f.cites].of = p

\* So it is on disk, and in what a push has read back to write again.
FilesCite ==
  /\ \A p \in Patches : CitesOK(p, disk[p])
  /\ \A j \in Jobs : CitesOK(job[j].id, job[j].raw)

Asking    == {"cited", "pushed"}
Loading   == {"idle", "read"}
Gathered  == {"cited", "pushed", "head", "files", "reconcile"}
EndedOK(r) == r.pc = "done" /\ r.result = "ok"

\* The questions are asked in order, and each patch still to be asked about
\* has not been.
Orderly(r) ==
  /\ \A p \in Patches : CitesOK(p, r.seen[p])
  /\ r.pc \in Loading => \A n \in 1..MaxPr : r.citedPrs[n] = "none"
  /\ r.pc \in Asking => r.todo # {} /\ \A p \in r.todo : r.seen[p].kind = "whole"
  /\ r.pc \in {"head", "files", "reconcile"} => r.todo = {}
  /\ r.pc \in Loading => \A p \in Patches : r.pushedPrs[p] = "none"
  /\ \A p \in r.todo : r.pushedPrs[p] = "none"

\* What was answered "merged" is, for good; and the later answer on the same
\* pull request does not belie it.
Truthful(r) ==
  /\ \A n \in 1..MaxPr : r.citedPrs[n] = "merged" => n \in 1..opened /\ prs[n].state = "merged"
  /\ \A p \in Patches : r.pushedPrs[p] = "closed" =>
       LET n == r.seen[p].pushed
       IN n # 0 /\ (r.seen[p].cites = n => r.citedPrs[n] # "merged")

\* A patch is through with its question about the pull request it cites.
Answered(r, p) ==
  (r.pc \in Gathered \/ EndedOK(r)) /\ (p \in r.todo => r.pc = "pushed" /\ p = Min(r.todo))

Dues(r) ==
  \A p \in r.due :
    LET n == r.seen[p].cites
    IN /\ r.seen[p].kind = "whole" /\ MergedBy(p, n)
       /\ r.pc = "read" => p \notin r.todo
       /\ r.citedPrs[n] \in {"none", "merged"}
       /\ Answered(r, p) => r.citedPrs[n] = "merged" \/ "pr" \in r.unanswered

\* base and head are revisions there are, and what had changed at the start
\* is in what is found to have changed.
Based(r) ==
  /\ r.base \in 0..Len(commits) /\ r.head \in 0..Len(commits)
  /\ r.outdated \subseteq Outdated(r.base) /\ r.changed \subseteq Outdated(r.base)
  /\ r.pc = "files" => r.base # 0 /\ r.outdated \subseteq Changed(r.base, r.head)
  /\ r.pc = "reconcile" \/ EndedOK(r) =>
       "files" \in r.unanswered \/ r.outdated \subseteq r.changed

\* The findings, by the snapshot they were made of, of every patch.
Reported(r) ==
  IF EndedOK(r)
  THEN /\ r.todo = {}
       /\ \A p \in Patches :
            LET whole == r.seen[p].kind = "whole"
                n     == r.seen[p].cites
            IN /\ <<p, "DROP_PATCH">> \in r.findings
                    <=> whole /\ n # 0 /\ r.citedPrs[n] = "merged"
               /\ <<p, "REBASE_PATCH">> \in r.findings <=> whole /\ p \in r.changed
               /\ <<p, "REVIEW_REQUEST_ABANDONED">> \in r.findings => r.pushedPrs[p] = "closed"
  ELSE r.findings = {}

PollOK(r) == Orderly(r) /\ Truthful(r) /\ Dues(r) /\ Based(r) /\ Reported(r)

PollInv ==
  /\ PollTypeOK /\ IdsOK
  /\ FilesCite
  /\ \A k \in Pollers : PollOK(poll[k])

-----------------------------------------------------------------------------
(* The records *)

LEMMA RecordConsts ==
  NoPoll \in Poll /\ 0 \in Revision
BY Consts, PollAssumption DEF NoPoll, Poll, Revision, Answer

LEMMA TypesOfPoll ==
  ASSUME PollTypeOK
  PROVE  /\ commits \in Seq(SUBSET Patches) /\ Len(commits) \in Nat
         /\ Len(commits) <= MaxCommits + 1 /\ MaxCommits \in Nat
         /\ \A i \in 0..Len(commits) : i \in Revision
         /\ opened \in Nat /\ MaxPr \in Nat /\ opened <= MaxPr
         /\ prs \in [1..MaxPr -> Pr] /\ \A p \in Patches : disk[p] \in File
         /\ \A k \in Pollers : poll[k] \in Poll
BY PollAssumption, PatchPushAssumption DEF PollTypeOK, PushTypeOK, Number, Revision

\* A step of a poll leaves a record in order behind, and the rest alone.
LEMMA PollSteps ==
  ASSUME PollInv, UNCHANGED <<pushVars, commits, base>>,
         NEW k \in Pollers, NEW r \in Poll, Become(k, r), PollOK(r)
  PROVE  PollInv'
<1>1. poll' \in [Pollers -> Poll] /\ \A i \in Pollers : poll'[i] = r \/ poll'[i] = poll[i]
  BY DEF PollInv, PollTypeOK, Become
<1>2. UNCHANGED <<disk, autoPr, prs, opened, branches, job, authored, gone, faults>>
  BY DEF pushVars, github, people
<1>3. PollTypeOK' /\ IdsOK' /\ FilesCite'
  BY <1>1, <1>2 DEF PollInv, PollTypeOK, PushTypeOK, IdsOK, FilesCite, CitesOK
<1>4. ASSUME NEW c \in Poll, PollOK(c) PROVE PollOK(c)'
  BY <1>2, <1>4 DEF PollOK, Orderly, Truthful, Dues, Based, Reported, CitesOK, MergedBy,
                    Outdated, Changed
<1>5. \A i \in Pollers : PollOK(poll'[i])
  BY <1>1 DEF PollInv
<1>6. ASSUME NEW i \in Pollers PROVE PollOK(poll[i])'
  <2>1. PICK c \in Poll : c = poll'[i] BY <1>1
  <2>2. PollOK(c)' BY <1>4, <1>5, <2>1
  <2> QED BY <2>1, <2>2 DEF PollOK, Orderly, Truthful, Dues, Based, Reported, Answered,
                            EndedOK, CitesOK, MergedBy
<1> QED BY <1>3, <1>6 DEF PollInv

\* The first of the patches still to be looked at is one of them.
LEMMA FirstIsThere ==
  ASSUME NEW S \in SUBSET Patches, S # {}
  PROVE  Min(S) \in S
BY PatchPushAssumption, MinIsIn

-----------------------------------------------------------------------------
(* Loading the yamls *)

LEMMA StartPollKeeps ==
  ASSUME PollInv, UNCHANGED <<pushVars, commits, base>>, NEW k \in Pollers, StartPoll(k)
  PROVE  PollInv'
<1>1. base \in 0..Len(commits) /\ base \in Revision /\ Len(commits) \in Nat
      /\ commits \in Seq(SUBSET Patches)
  BY TypesOfPoll DEF PollInv, PollTypeOK
<1>2. Outdated(base) \in SUBSET Patches BY <1>1 DEF Outdated, Changed
<1>3. PICK r \in Poll : r = [NoPoll EXCEPT !.pc = "read", !.todo = OnDisk, !.base = base,
                                           !.outdated = Outdated(base)]
  BY <1>1, <1>2, RecordConsts DEF Poll, OnDisk
<1>4. /\ r.pc = "read" /\ r.base = base /\ r.outdated = Outdated(base) /\ r.head = 0
      /\ r.changed = {} /\ r.due = {} /\ r.findings = {}
      /\ r.seen = [p \in Patches |-> Absent] /\ r.citedPrs = [n \in 1..MaxPr |-> "none"]
      /\ r.pushedPrs = [p \in Patches |-> "none"] /\ r.todo \in SUBSET Patches
  BY <1>3 DEF NoPoll, OnDisk
<1>5. Orderly(r) BY <1>4 DEF Orderly, CitesOK, Absent, Asking, Loading
<1>6. Truthful(r) /\ Dues(r) BY <1>4 DEF Truthful, Dues
<1>7. Based(r) /\ Reported(r) BY <1>1, <1>4 DEF Based, Reported, EndedOK
<1> QED BY <1>3, <1>5, <1>6, <1>7, PollSteps DEF StartPoll, PollOK

LEMMA PollReadKeeps ==
  ASSUME PollInv, UNCHANGED <<pushVars, commits, base>>, NEW k \in Pollers, PollRead(k)
  PROVE  PollInv'
<1>1. PICK c \in Poll : c = poll[k] /\ PollOK(c) /\ c.pc = "read" /\ c.todo # {}
  BY TypesOfPoll DEF PollInv, PollRead, On
<1>2. PICK p \in c.todo : p = Next1(k) BY <1>1, FirstIsThere DEF Next1, Poll
<1>3. p \in Patches /\ disk[p] \in File /\ CitesOK(p, disk[p])
  BY <1>1, <1>2, TypesOfPoll DEF Poll, PollInv, FilesCite
<1>4. ASSUME Whole(p) PROVE PollInv'
  <2> DEFINE due == IF MergedBy(p, disk[p].cites) THEN c.due \cup {p} ELSE c.due
  <2>1. [c.seen EXCEPT ![p] = disk[p]] \in [Patches -> File] /\ due \in SUBSET Patches
    BY <1>1, <1>3 DEF Poll
  <2>2. PICK r \in Poll : r = [c EXCEPT !.todo = @ \ {p}, !.seen[p] = disk[p], !.due = due]
    BY <2>1 DEF Poll
  <2>3. /\ r.pc = "read" /\ r.todo = c.todo \ {p} /\ r.due = due
        /\ r.seen[p] = disk[p] /\ \A q \in Patches \ {p} : r.seen[q] = c.seen[q]
        /\ r.citedPrs = c.citedPrs /\ r.pushedPrs = c.pushedPrs
        /\ r.base = c.base /\ r.head = c.head /\ r.outdated = c.outdated
        /\ r.changed = c.changed /\ r.findings = c.findings /\ r.unanswered = c.unanswered
    BY <1>1, <1>3, <2>2 DEF Poll
  <2>4. Orderly(r)
    BY <1>1, <1>3, <2>3 DEF PollOK, Orderly, CitesOK, Asking, Loading
  <2>5. Truthful(r) BY <1>1, <2>3 DEF PollOK, Orderly, Truthful, Loading
  <2>6. Dues(r)
    <3>1. ASSUME NEW q \in r.due PROVE
            /\ r.seen[q].kind = "whole" /\ MergedBy(q, r.seen[q].cites)
            /\ q \notin r.todo /\ r.citedPrs[r.seen[q].cites] \in {"none", "merged"}
      <4>1. CASE q = p /\ p \notin c.due
        <5>1. MergedBy(p, disk[p].cites) BY <2>3, <3>1, <4>1
        <5>2. disk[p].cites \in 1..MaxPr
          BY <1>3, <5>1, TypesOfPoll DEF PollInv, MergedBy, File, Number
        <5> QED BY <1>1, <1>4, <2>3, <4>1, <5>1, <5>2
              DEF Whole, PollOK, Orderly, Loading
      <4>2. CASE q \in c.due
        <5>1. q # p /\ q \in Patches BY <1>1, <1>2, <4>2 DEF PollOK, Dues, Poll
        <5> QED BY <1>1, <2>3, <4>2, <5>1 DEF PollOK, Dues
      <4> QED BY <2>3, <3>1, <4>1, <4>2
    <3> QED BY <2>3, <3>1 DEF Dues, Answered, Gathered, EndedOK
  <2>7. Based(r) /\ Reported(r) BY <1>1, <2>3 DEF PollOK, Based, Reported, EndedOK
  <2> QED BY <1>1, <1>2, <1>4, <2>2, <2>4, <2>5, <2>6, <2>7, PollSteps DEF PollRead, PollOK
<1>5. ASSUME ~Whole(p) PROVE PollInv'
  <2>1. PICK s \in {"raised", "error"} : Become(k, [c EXCEPT !.pc = "done", !.result = s])
    BY <1>1, <1>2, <1>5 DEF PollRead
  <2>2. PICK r \in Poll : r = [c EXCEPT !.pc = "done", !.result = s] BY DEF Poll
  <2>3. /\ r.pc = "done" /\ r.result = s /\ r.todo = c.todo /\ r.due = c.due
        /\ r.seen = c.seen /\ r.citedPrs = c.citedPrs /\ r.pushedPrs = c.pushedPrs
        /\ r.base = c.base /\ r.head = c.head /\ r.outdated = c.outdated
        /\ r.changed = c.changed /\ r.findings = c.findings /\ r.unanswered = c.unanswered
    BY <1>1, <2>2 DEF Poll
  <2>4. ~EndedOK(r) /\ ~EndedOK(c) BY <1>1, <2>3 DEF EndedOK
  <2>5. Orderly(r) BY <1>1, <2>3 DEF PollOK, Orderly, Asking, Loading
  <2>6. Truthful(r) BY <1>1, <2>3 DEF PollOK, Truthful
  <2>7. Dues(r) BY <1>1, <2>3, <2>4 DEF PollOK, Dues, Answered, Gathered
  <2>8. Based(r) /\ Reported(r) BY <1>1, <2>3, <2>4 DEF PollOK, Based, Reported
  <2> QED BY <2>1, <2>2, <2>5, <2>6, <2>7, <2>8, PollSteps DEF PollOK
<1> QED BY <1>4, <1>5

LEMMA PollLoadedKeeps ==
  ASSUME PollInv, UNCHANGED <<pushVars, commits, base>>, NEW k \in Pollers, PollLoaded(k)
  PROVE  PollInv'
<1>1. PICK c \in Poll : c = poll[k] /\ PollOK(c) /\ c.pc = "read"
  BY TypesOfPoll DEF PollInv, PollLoaded, On
<1>2. PICK S \in SUBSET Patches : S = Loaded(k) BY DEF Loaded
<1>3. \A p \in Patches : p \in S <=> c.seen[p].kind = "whole" BY <1>1, <1>2 DEF Loaded
<1>4. PICK l \in {"head", "cited"} : l = IF S = {} THEN "head" ELSE "cited" OBVIOUS
<1>5. PICK r \in Poll : r = [c EXCEPT !.todo = S, !.pc = l] BY DEF Poll
<1>6. /\ r.pc = l /\ r.todo = S /\ r.due = c.due
      /\ r.seen = c.seen /\ r.citedPrs = c.citedPrs /\ r.pushedPrs = c.pushedPrs
      /\ r.base = c.base /\ r.head = c.head /\ r.outdated = c.outdated
      /\ r.changed = c.changed /\ r.findings = c.findings /\ r.unanswered = c.unanswered
  BY <1>5 DEF Poll
<1>7. ~EndedOK(r) /\ ~EndedOK(c) BY <1>1, <1>6 DEF EndedOK
<1>8. Orderly(r) BY <1>1, <1>3, <1>4, <1>6 DEF PollOK, Orderly, Asking, Loading
<1>9. Truthful(r) BY <1>1, <1>6 DEF PollOK, Truthful
<1>10. Dues(r)
  <2>1. \A p \in c.due : p \in S BY <1>1, <1>3 DEF PollOK, Dues, Poll
  <2>2. \A p \in c.due : ~Answered(r, p)
    BY <1>4, <1>6, <1>7, <2>1 DEF Answered
  <2> QED BY <1>1, <1>4, <1>6, <2>2 DEF PollOK, Dues
<1>11. Based(r) /\ Reported(r) BY <1>1, <1>4, <1>6, <1>7 DEF PollOK, Based, Reported
<1> QED BY <1>1, <1>2, <1>4, <1>5, <1>8, <1>9, <1>10, <1>11, PollSteps DEF PollLoaded, PollOK

-----------------------------------------------------------------------------
(* Asking *)

\* What gh answers is the state of the pull request, or nothing.
LEMMA AnswerTypes ==
  ASSUME PollTypeOK, NEW n \in 1..MaxPr, NEW a \in Answers(n)
  PROVE  /\ a \in Answer /\ NoAnswer(a) \in SUBSET {"pr"}
         /\ a = prs[n].state \/ a = "none"
         /\ a = "none" <=> "pr" \in NoAnswer(a)
BY TypesOfPoll DEF Answers, NoAnswer, Answer, Pr

LEMMA AskCitedKeeps ==
  ASSUME PollInv, UNCHANGED <<pushVars, commits, base>>, NEW k \in Pollers, AskCited(k)
  PROVE  PollInv'
<1>1. PICK c \in Poll : c = poll[k] /\ PollOK(c) /\ c.pc = "cited"
  BY TypesOfPoll DEF PollInv, AskCited, On
<1>2. c.todo # {} /\ c.todo \in SUBSET Patches
  BY <1>1 DEF PollOK, Orderly, Asking, Poll
<1>3. PICK p \in c.todo : p = Next1(k) /\ p = Min(c.todo)
  BY <1>1, <1>2, FirstIsThere DEF Next1
<1>4. PICK n \in Number : n = c.seen[p].cites
  BY <1>1, <1>2, <1>3 DEF Poll, File
<1>5. /\ p \in Patches /\ c.pushedPrs[p] = "none"
      /\ (n # 0 => n \in 1..opened /\ n \in 1..MaxPr /\ prs[n].of = p)
  BY <1>1, <1>2, <1>3, <1>4, TypesOfPoll DEF PollInv, PollOK, Orderly, CitesOK
\* Both ways on: the next question, with one more answer or without.
<1>6. ASSUME NEW prs2 \in [1..MaxPr -> Answer], NEW un \in SUBSET {"pr", "files"},
             c.unanswered \subseteq un, "files" \in un => "files" \in c.unanswered,
             \A m \in 1..MaxPr : prs2[m] = c.citedPrs[m] \/
               (m = n /\ c.citedPrs[n] = "none" /\ prs2[n] \in {prs[n].state, "none"}),
             n # 0 => prs2[n] # "none" \/ "pr" \in un,
             Become(k, [c EXCEPT !.pc = "pushed", !.citedPrs = prs2, !.unanswered = un])
      PROVE  PollInv'
  <2>1. PICK r \in Poll :
          r = [c EXCEPT !.pc = "pushed", !.citedPrs = prs2, !.unanswered = un]
    BY DEF Poll
  <2>2. /\ r.pc = "pushed" /\ r.todo = c.todo /\ r.due = c.due
        /\ r.seen = c.seen /\ r.citedPrs = prs2 /\ r.pushedPrs = c.pushedPrs
        /\ r.base = c.base /\ r.head = c.head /\ r.outdated = c.outdated
        /\ r.changed = c.changed /\ r.findings = c.findings /\ r.unanswered = un
    BY <2>1 DEF Poll
  <2>3. ~EndedOK(r) /\ ~EndedOK(c) BY <1>1, <2>2 DEF EndedOK
  <2>4. Orderly(r) BY <1>1, <2>2 DEF PollOK, Orderly, Asking, Loading
  <2>5. Truthful(r)
    <3>1. ASSUME NEW m \in 1..MaxPr, prs2[m] = "merged"
          PROVE  m \in 1..opened /\ prs[m].state = "merged"
      BY <1>1, <1>5, <1>6, <3>1 DEF PollOK, Truthful
    <3>2. ASSUME NEW q \in Patches, c.pushedPrs[q] = "closed", c.seen[q].cites = c.seen[q].pushed
          PROVE  prs2[c.seen[q].pushed] # "merged"
      <4>1. /\ c.seen[q].pushed # 0 /\ c.citedPrs[c.seen[q].pushed] # "merged"
            /\ c.seen[q].pushed \in 1..MaxPr /\ prs[c.seen[q].pushed].of = q
        <5>1. CitesOK(q, c.seen[q]) /\ c.seen[q].pushed # 0
              /\ c.citedPrs[c.seen[q].pushed] # "merged"
          BY <1>1, <3>2 DEF PollOK, Truthful, Orderly
        <5> QED BY <3>2, <5>1, TypesOfPoll DEF PollInv, CitesOK
      <4>2. q # p BY <1>5, <3>2
      <4>3. c.seen[q].pushed # n BY <1>5, <4>1, <4>2
      <4> QED BY <1>6, <4>1, <4>3
    <3> QED BY <1>1, <2>2, <3>1, <3>2 DEF PollOK, Truthful
  <2>6. Dues(r)
    <3>1. ASSUME NEW q \in c.due
          PROVE  /\ prs2[c.seen[q].cites] \in {"none", "merged"}
                 /\ Answered(r, q) => prs2[c.seen[q].cites] = "merged" \/ "pr" \in un
      <4>1. PICK m \in 1..MaxPr : m = c.seen[q].cites
        <5>1. q \in Patches /\ c.seen[q].cites # 0 /\ CitesOK(q, c.seen[q])
          BY <1>1, <3>1 DEF PollOK, Dues, MergedBy, Orderly, Poll
        <5> QED BY <5>1, TypesOfPoll DEF PollInv, CitesOK
      <4>2. /\ prs[m].state = "merged" /\ prs[m].of = q /\ c.citedPrs[m] \in {"none", "merged"}
            /\ Answered(c, q) => c.citedPrs[m] = "merged" \/ "pr" \in c.unanswered
        BY <1>1, <3>1, <4>1 DEF PollOK, Dues, MergedBy
      <4>3. prs2[m] \in {"none", "merged"} BY <1>6, <4>2
      <4>4. CASE m = n BY <1>6, <4>1, <4>3, <4>4 DEF Number
      <4>5. CASE m # n
        <5>1. q # p BY <1>4, <4>1, <4>5
        <5>2. prs2[m] = c.citedPrs[m] BY <1>6, <4>5
        <5>3. Answered(r, q) => Answered(c, q)
          BY <1>1, <1>3, <2>2, <5>1 DEF Answered, Gathered
        <5> QED BY <1>6, <4>1, <4>2, <5>2, <5>3
      <4> QED BY <4>4, <4>5
    <3> QED BY <1>1, <2>2, <3>1 DEF PollOK, Dues
  <2>7. Based(r) BY <1>1, <2>2, <2>3 DEF PollOK, Based
  <2>8. Reported(r) BY <1>1, <2>2, <2>3 DEF PollOK, Reported
  <2> QED BY <1>6, <2>1, <2>4, <2>5, <2>6, <2>7, <2>8, PollSteps DEF PollOK
<1>7. CASE n = 0 \/ c.citedPrs[n] # "none"
  <2>1. Become(k, [c EXCEPT !.pc = "pushed"]) BY <1>1, <1>3, <1>4, <1>7 DEF AskCited
  <2>2. [c EXCEPT !.pc = "pushed"]
          = [c EXCEPT !.pc = "pushed", !.citedPrs = c.citedPrs, !.unanswered = c.unanswered]
    BY DEF Poll
  <2>3. c.citedPrs \in [1..MaxPr -> Answer] /\ c.unanswered \in SUBSET {"pr", "files"}
    BY DEF Poll
  <2> QED BY <1>6, <1>7, <2>1, <2>2, <2>3
<1>8. CASE n # 0 /\ c.citedPrs[n] = "none"
  <2>1. PICK a \in Answers(n) : Become(k, [c EXCEPT !.pc = "pushed", !.citedPrs[n] = a,
                                                    !.unanswered = @ \cup NoAnswer(a)])
    BY <1>1, <1>3, <1>4, <1>8 DEF AskCited
  <2>2. /\ a \in Answer /\ NoAnswer(a) \in SUBSET {"pr"}
        /\ a \in {prs[n].state, "none"} /\ (a = "none" => "pr" \in NoAnswer(a))
    BY <1>5, <1>8, AnswerTypes DEF PollInv
  <2> DEFINE prs2 == [c.citedPrs EXCEPT ![n] = a]
             un   == c.unanswered \cup NoAnswer(a)
  <2>3. c.citedPrs \in [1..MaxPr -> Answer] /\ c.unanswered \in SUBSET {"pr", "files"}
    BY DEF Poll
  <2>4. prs2 \in [1..MaxPr -> Answer] /\ un \in SUBSET {"pr", "files"} BY <2>2, <2>3
  <2>5. prs2[n] = a /\ \A m \in 1..MaxPr : m # n => prs2[m] = c.citedPrs[m]
    BY <1>5, <1>8, <2>3
  <2>6. Become(k, [c EXCEPT !.pc = "pushed", !.citedPrs = prs2, !.unanswered = un]) BY <2>1
  <2>7. c.unanswered \subseteq un /\ ("files" \in un => "files" \in c.unanswered) BY <2>2
  <2>8. n # 0 => prs2[n] # "none" \/ "pr" \in un BY <2>2, <2>5
  <2>9. \A m \in 1..MaxPr : prs2[m] = c.citedPrs[m] \/
          (m = n /\ c.citedPrs[n] = "none" /\ prs2[n] \in {prs[n].state, "none"})
    BY <1>8, <2>2, <2>5
  <2> HIDE DEF prs2, un
  <2> QED BY <1>6, <2>4, <2>6, <2>7, <2>8, <2>9
<1> QED BY <1>7, <1>8

LEMMA AskPushedKeeps ==
  ASSUME PollInv, UNCHANGED <<pushVars, commits, base>>, NEW k \in Pollers, AskPushed(k)
  PROVE  PollInv'
<1>1. PICK c \in Poll : c = poll[k] /\ PollOK(c) /\ c.pc = "pushed"
  BY TypesOfPoll DEF PollInv, AskPushed, On
<1>2. c.todo # {} /\ c.todo \in SUBSET Patches
  BY <1>1 DEF PollOK, Orderly, Asking, Poll
<1>3. PICK p \in c.todo : p = Next1(k) /\ p = Min(c.todo)
  BY <1>1, <1>2, FirstIsThere DEF Next1
<1>4. PICK n \in Number : n = c.seen[p].pushed
  BY <1>1, <1>2, <1>3 DEF Poll, File
<1>5. p \in Patches /\ (n # 0 => n \in 1..MaxPr)
  BY <1>2, <1>3, <1>4, TypesOfPoll DEF PollInv, Number
<1> DEFINE rest == c.todo \ {p}
           l    == IF rest = {} THEN "head" ELSE "cited"
<1>6. PICK a \in (IF n = 0 THEN {"none"} ELSE Answers(n)) :
        \E d \in Ages \cup {0}, un \in {c.unanswered, c.unanswered \cup NoAnswer(a)} :
          Become(k, [c EXCEPT !.pushedPrs[p] = a, !.age[p] = d, !.todo = rest,
                              !.unanswered = un, !.pc = l])
  <2>1. PICK a \in (IF n = 0 THEN {"none"} ELSE Answers(n)) :
          \E d \in (IF a = "open" THEN Ages ELSE {0}) :
            Become(k, [c EXCEPT !.pushedPrs[p] = a, !.age[p] = d, !.todo = rest,
              !.unanswered = IF n = 0 THEN @ ELSE @ \cup NoAnswer(a), !.pc = l])
    BY <1>1, <1>3, <1>4 DEF AskPushed
  <2>2. PICK d \in (IF a = "open" THEN Ages ELSE {0}) :
          Become(k, [c EXCEPT !.pushedPrs[p] = a, !.age[p] = d, !.todo = rest,
            !.unanswered = IF n = 0 THEN @ ELSE @ \cup NoAnswer(a), !.pc = l])
    BY <2>1
  <2>3. PICK un \in {c.unanswered, c.unanswered \cup NoAnswer(a)} :
          un = IF n = 0 THEN c.unanswered ELSE c.unanswered \cup NoAnswer(a)
    OBVIOUS
  <2>4. Become(k, [c EXCEPT !.pushedPrs[p] = a, !.age[p] = d, !.todo = rest,
                            !.unanswered = un, !.pc = l])
    BY <2>2, <2>3
  <2>5. d \in Ages \cup {0} OBVIOUS
  <2> QED BY <2>4, <2>5
<1>7. PICK d \in Ages \cup {0}, un \in {c.unanswered, c.unanswered \cup NoAnswer(a)} :
        Become(k, [c EXCEPT !.pushedPrs[p] = a, !.age[p] = d, !.todo = rest,
                            !.unanswered = un, !.pc = l])
  BY <1>6
<1>8. a \in Answer /\ (a = "closed" => n # 0 /\ prs[n].state = "closed")
      /\ NoAnswer(a) \in SUBSET {"pr"}
  BY <1>5, <1>6, AnswerTypes DEF PollInv, Answer, NoAnswer
<1> DEFINE pp == [c.pushedPrs EXCEPT ![p] = a]
           ag == [c.age EXCEPT ![p] = d]
<1>9. PICK r \in Poll :
        /\ Become(k, r)
        /\ r = [c EXCEPT !.pushedPrs = pp, !.age = ag, !.todo = rest,
                         !.unanswered = un, !.pc = l]
  <2>1. Become(k, [c EXCEPT !.pushedPrs = pp, !.age = ag, !.todo = rest,
                            !.unanswered = un, !.pc = l])
    BY <1>7
  <2>2. pp \in [Patches -> Answer] /\ ag \in [Patches -> Ages \cup {0}] BY <1>8 DEF Poll
  <2>3. rest \in SUBSET Patches /\ l \in {"head", "cited"} BY <1>2
  <2>4. un \in SUBSET {"pr", "files"} BY <1>7, <1>8 DEF Poll
  <2> HIDE DEF pp, ag, rest, l
  <2> QED BY <2>1, <2>2, <2>3, <2>4 DEF Poll
<1>10. /\ r.pc = l /\ r.todo = rest /\ r.due = c.due
       /\ r.seen = c.seen /\ r.citedPrs = c.citedPrs
       /\ r.pushedPrs[p] = a /\ \A q \in Patches \ {p} : r.pushedPrs[q] = c.pushedPrs[q]
       /\ r.base = c.base /\ r.head = c.head /\ r.outdated = c.outdated
       /\ r.changed = c.changed /\ r.findings = c.findings /\ c.unanswered \subseteq r.unanswered
  <2>1. pp[p] = a /\ \A q \in Patches \ {p} : pp[q] = c.pushedPrs[q] BY <1>5 DEF Poll
  <2> HIDE DEF pp, ag, rest, l
  <2>2. /\ r.pc = l /\ r.todo = rest /\ r.due = c.due /\ r.pushedPrs = pp
        /\ r.seen = c.seen /\ r.citedPrs = c.citedPrs /\ r.unanswered = un
        /\ r.base = c.base /\ r.head = c.head /\ r.outdated = c.outdated
        /\ r.changed = c.changed /\ r.findings = c.findings
    BY <1>9 DEF Poll
  <2> QED BY <1>7, <2>1, <2>2
<1>11. ~EndedOK(r) /\ ~EndedOK(c) BY <1>1, <1>10 DEF EndedOK
<1>12. Orderly(r) BY <1>1, <1>2, <1>10 DEF PollOK, Orderly, Asking, Loading
<1>13. Truthful(r)
  <2>1. ASSUME NEW q \in Patches, r.pushedPrs[q] = "closed"
        PROVE  /\ c.seen[q].pushed # 0
               /\ c.seen[q].cites = c.seen[q].pushed => c.citedPrs[c.seen[q].pushed] # "merged"
    <3>1. CASE q = p
      <4>1. c.citedPrs[n] = "merged" => prs[n].state = "merged"
        BY <1>1, <1>5, <1>8, <1>10, <2>1, <3>1 DEF PollOK, Truthful
      <4> QED BY <1>4, <1>8, <1>10, <2>1, <3>1, <4>1
    <3>2. CASE q # p BY <1>1, <1>10, <2>1, <3>2 DEF PollOK, Truthful
    <3> QED BY <3>1, <3>2
  <2> QED BY <1>1, <1>10, <2>1 DEF PollOK, Truthful
<1>14. Dues(r)
  <2>1. \A q \in c.due : Answered(r, q) => Answered(c, q)
    BY <1>1, <1>3, <1>10, <1>11 DEF Answered, Gathered
  <2> QED BY <1>1, <1>10, <2>1 DEF PollOK, Dues
<1>15. Based(r) BY <1>1, <1>10, <1>11 DEF PollOK, Based
<1>16. Reported(r) BY <1>1, <1>10, <1>11 DEF PollOK, Reported
<1> HIDE DEF pp, ag, rest, l
<1> QED BY <1>9, <1>12, <1>13, <1>14, <1>15, <1>16, PollSteps DEF PollOK

\* More of the branch holds more changes, and none at all no change.
LEMMA ChangedGrows ==
  ASSUME NEW b \in Nat, NEW h \in Nat, NEW i \in Nat, h <= i
  PROVE  Changed(b, h) \subseteq Changed(b, i) /\ Changed(b, b) = {}
BY DEF Changed

LEMMA AskHeadKeeps ==
  ASSUME PollInv, UNCHANGED <<pushVars, commits, base>>, NEW k \in Pollers, AskHead(k)
  PROVE  PollInv'
<1>1. PICK c \in Poll : c = poll[k] /\ PollOK(c) /\ c.pc = "head"
  BY TypesOfPoll DEF PollInv, AskHead, On
<1>2. /\ Len(commits) \in Nat /\ c.base \in 0..Len(commits)
      /\ \A i \in 0..Len(commits) : i \in Revision
  BY <1>1, TypesOfPoll DEF PollInv, PollOK, Based
\* All three ways on.
<1>3. ASSUME NEW h \in {0, Len(commits)}, NEW l \in {"files", "reconcile"},
             NEW un \in {c.unanswered, c.unanswered \cup {"files"}},
             l = "files" => c.base # 0 /\ h = Len(commits),
             l = "reconcile" => c.base = 0 \/ "files" \in un \/ Len(commits) = c.base,
             Become(k, [c EXCEPT !.head = h, !.unanswered = un, !.pc = l])
      PROVE  PollInv'
  <2>1. PICK r \in Poll : r = [c EXCEPT !.head = h, !.unanswered = un, !.pc = l]
    <3>1. h \in Revision BY <1>2
    <3>2. un \in SUBSET {"pr", "files"} BY DEF Poll
    <3> QED BY <3>1, <3>2 DEF Poll
  <2>2. /\ r.pc = l /\ r.todo = c.todo /\ r.due = c.due /\ r.unanswered = un
        /\ r.seen = c.seen /\ r.citedPrs = c.citedPrs /\ r.pushedPrs = c.pushedPrs
        /\ r.base = c.base /\ r.head = h /\ r.outdated = c.outdated
        /\ r.changed = c.changed /\ r.findings = c.findings
    BY <2>1 DEF Poll
  <2>3. ~EndedOK(r) /\ ~EndedOK(c) BY <1>1, <2>2 DEF EndedOK
  <2>4. Orderly(r) BY <1>1, <2>2 DEF PollOK, Orderly, Asking, Loading
  <2>5. Truthful(r) BY <1>1, <2>2 DEF PollOK, Truthful
  <2>6. Dues(r)
    <3>1. \A q \in c.due : Answered(r, q) => Answered(c, q)
      BY <1>1, <2>2, <2>3 DEF PollOK, Orderly, Answered, Gathered
    <3> QED BY <1>1, <1>3, <2>2, <3>1 DEF PollOK, Dues
  <2>7. Based(r)
    <3>1. CASE l = "files"
      <4>1. c.outdated \subseteq Changed(c.base, h)
        BY <1>1, <1>3, <3>1 DEF PollOK, Based, Outdated
      <4> QED BY <1>1, <1>2, <1>3, <2>2, <2>3, <3>1, <4>1 DEF PollOK, Based
    <3>2. CASE l = "reconcile"
      <4>1. c.base = 0 \/ Len(commits) = c.base => c.outdated = {}
        BY <1>1, <1>2, ChangedGrows DEF PollOK, Based, Outdated
      <4> QED BY <1>1, <1>2, <1>3, <2>2, <2>3, <3>2, <4>1 DEF PollOK, Based
    <3> QED BY <3>1, <3>2
  <2>8. Reported(r) BY <1>1, <2>2, <2>3 DEF PollOK, Reported
  <2> QED BY <1>3, <2>1, <2>4, <2>5, <2>6, <2>7, <2>8, PollSteps DEF PollOK
<1>4. CASE c.base = 0
  <2>1. Become(k, [c EXCEPT !.pc = "reconcile"]) BY <1>1, <1>4 DEF AskHead
  <2>2. [c EXCEPT !.pc = "reconcile"]
          = [c EXCEPT !.head = c.head, !.unanswered = c.unanswered, !.pc = "reconcile"]
    BY DEF Poll
  <2>3. PICK r \in Poll : r = [c EXCEPT !.pc = "reconcile"] BY DEF Poll
  <2>4. /\ r.pc = "reconcile" /\ r.todo = c.todo /\ r.due = c.due
        /\ r.unanswered = c.unanswered
        /\ r.seen = c.seen /\ r.citedPrs = c.citedPrs /\ r.pushedPrs = c.pushedPrs
        /\ r.base = c.base /\ r.head = c.head /\ r.outdated = c.outdated
        /\ r.changed = c.changed /\ r.findings = c.findings
    BY <2>3 DEF Poll
  <2>5. ~EndedOK(r) /\ ~EndedOK(c) BY <1>1, <2>4 DEF EndedOK
  <2>6. Orderly(r) /\ Truthful(r)
    BY <1>1, <2>4 DEF PollOK, Orderly, Truthful, Asking, Loading
  <2>7. Dues(r)
    <3>1. \A q \in c.due : Answered(r, q) => Answered(c, q)
      BY <1>1, <2>4, <2>5 DEF PollOK, Orderly, Answered, Gathered
    <3> QED BY <1>1, <2>4, <3>1 DEF PollOK, Dues
  <2>8. Based(r)
    <3>1. c.outdated = {} BY <1>1, <1>4 DEF PollOK, Based, Outdated
    <3> QED BY <1>1, <2>4, <2>5, <3>1 DEF PollOK, Based
  <2>9. Reported(r) BY <1>1, <2>4, <2>5 DEF PollOK, Reported
  <2> QED BY <2>1, <2>3, <2>6, <2>7, <2>8, <2>9, PollSteps DEF PollOK
<1>5. CASE c.base # 0
  <2>1. PICK h \in Heads :
          Become(k, [c EXCEPT !.head = h,
                       !.unanswered = IF h = 0 THEN @ \cup {"files"} ELSE @,
                       !.pc = IF h \in {0, c.base} THEN "reconcile" ELSE "files"])
    BY <1>1, <1>5 DEF AskHead
  <2>2. h \in {0, Len(commits)} BY DEF Heads
  <2>3. PICK un \in {c.unanswered, c.unanswered \cup {"files"}},
             l \in {"files", "reconcile"} :
          /\ un = IF h = 0 THEN c.unanswered \cup {"files"} ELSE c.unanswered
          /\ l = IF h \in {0, c.base} THEN "reconcile" ELSE "files"
    <3>1. (IF h = 0 THEN c.unanswered \cup {"files"} ELSE c.unanswered)
             \in {c.unanswered, c.unanswered \cup {"files"}} OBVIOUS
    <3>2. (IF h \in {0, c.base} THEN "reconcile" ELSE "files") \in {"files", "reconcile"}
      OBVIOUS
    <3> QED BY <3>1, <3>2
  <2>4. Become(k, [c EXCEPT !.head = h, !.unanswered = un, !.pc = l]) BY <2>1, <2>3
  <2>5. l = "files" => h = Len(commits) /\ c.base # 0 BY <1>5, <2>2, <2>3
  <2>6. l = "reconcile" => "files" \in un \/ Len(commits) = c.base BY <2>2, <2>3
  <2> QED BY <1>3, <2>2, <2>4, <2>5, <2>6
<1> QED BY <1>4, <1>5

LEMMA AskFilesKeeps ==
  ASSUME PollInv, UNCHANGED <<pushVars, commits, base>>, NEW k \in Pollers, AskFiles(k)
  PROVE  PollInv'
<1>1. PICK c \in Poll : c = poll[k] /\ PollOK(c) /\ c.pc = "files"
  BY TypesOfPoll DEF PollInv, AskFiles, On
<1>2. /\ c.base # 0 /\ c.base \in Nat /\ c.head \in Nat /\ c.head <= Len(commits)
      /\ Len(commits) \in Nat /\ commits \in Seq(SUBSET Patches)
  BY <1>1, TypesOfPoll DEF PollInv, PollOK, Based
<1>3. ASSUME NEW ch \in SUBSET Patches, NEW un \in {c.unanswered, c.unanswered \cup {"files"}},
             ch \subseteq Outdated(c.base), "files" \in un \/ c.outdated \subseteq ch,
             Become(k, [c EXCEPT !.changed = ch, !.unanswered = un, !.pc = "reconcile"])
      PROVE  PollInv'
  <2>1. PICK r \in Poll :
          r = [c EXCEPT !.changed = ch, !.unanswered = un, !.pc = "reconcile"]
    BY DEF Poll
  <2>2. /\ r.pc = "reconcile" /\ r.todo = c.todo /\ r.due = c.due /\ r.unanswered = un
        /\ r.seen = c.seen /\ r.citedPrs = c.citedPrs /\ r.pushedPrs = c.pushedPrs
        /\ r.base = c.base /\ r.head = c.head /\ r.outdated = c.outdated
        /\ r.changed = ch /\ r.findings = c.findings
    BY <2>1 DEF Poll
  <2>3. ~EndedOK(r) /\ ~EndedOK(c) BY <1>1, <2>2 DEF EndedOK
  <2>4. Orderly(r) BY <1>1, <2>2 DEF PollOK, Orderly, Asking, Loading
  <2>5. Truthful(r) BY <1>1, <2>2 DEF PollOK, Truthful
  <2>6. Dues(r)
    <3>1. \A q \in c.due : Answered(r, q) => Answered(c, q)
      BY <1>1, <2>2, <2>3 DEF PollOK, Orderly, Answered, Gathered
    <3> QED BY <1>1, <1>3, <2>2, <3>1 DEF PollOK, Dues
  <2>7. Based(r) BY <1>1, <1>3, <2>2, <2>3 DEF PollOK, Based
  <2>8. Reported(r) BY <1>1, <2>2, <2>3 DEF PollOK, Reported
  <2> QED BY <1>3, <2>1, <2>4, <2>5, <2>6, <2>7, <2>8, PollSteps DEF PollOK
<1>4. CASE Become(k, [c EXCEPT !.changed = Changed(c.base, c.head), !.pc = "reconcile"])
  <2>1. PICK ch \in SUBSET Patches : ch = Changed(c.base, c.head)
    <3>1. \A i \in c.base + 1..c.head : commits[i] \in SUBSET Patches BY <1>2
    <3>2. Changed(c.base, c.head) \in SUBSET Patches BY <3>1 DEF Changed
    <3> QED BY <3>2
  <2>2. ch \subseteq Outdated(c.base) BY <1>2, <2>1, ChangedGrows DEF Outdated
  <2>3. c.outdated \subseteq ch BY <1>1, <2>1 DEF PollOK, Based
  <2>4. [c EXCEPT !.changed = ch, !.pc = "reconcile"]
          = [c EXCEPT !.changed = ch, !.unanswered = c.unanswered, !.pc = "reconcile"]
    BY DEF Poll
  <2> QED BY <1>3, <1>4, <2>1, <2>2, <2>3, <2>4
<1>5. CASE Become(k, [c EXCEPT !.unanswered = @ \cup {"files"}, !.pc = "reconcile"])
  <2>1. c.changed \in SUBSET Patches /\ c.changed \subseteq Outdated(c.base)
    BY <1>1 DEF PollOK, Based, Poll
  <2>2. [c EXCEPT !.unanswered = @ \cup {"files"}, !.pc = "reconcile"]
          = [c EXCEPT !.changed = c.changed, !.unanswered = @ \cup {"files"}, !.pc = "reconcile"]
    BY DEF Poll
  <2> QED BY <1>3, <1>5, <2>1, <2>2
<1> QED BY <1>1, <1>4, <1>5 DEF AskFiles

-----------------------------------------------------------------------------
(* The findings *)

LEMMA ReconcileKeeps ==
  ASSUME PollInv, UNCHANGED <<pushVars, commits, base>>, NEW k \in Pollers, Reconcile(k)
  PROVE  PollInv'
<1>1. PICK c \in Poll : c = poll[k] /\ PollOK(c) /\ c.pc = "reconcile"
  BY TypesOfPoll DEF PollInv, Reconcile, On
<1>2. PICK zone \in -1..1, late \in SUBSET Patches :
        Become(k, [c EXCEPT !.pc = "done", !.result = "ok",
          !.findings = (Drops(k) \X {"DROP_PATCH"}) \cup (Rebases(k) \X {"REBASE_PATCH"})
                         \cup (Pushes(k) \X {"PUSH_PATCH"})
                         \cup (Stale(k, zone, late) \X {"STALE_REVIEW"})
                         \cup (Abandoned(k) \X {"REVIEW_REQUEST_ABANDONED"})])
  BY <1>1 DEF Reconcile
<1> DEFINE all == (Drops(k) \X {"DROP_PATCH"}) \cup (Rebases(k) \X {"REBASE_PATCH"})
                    \cup (Pushes(k) \X {"PUSH_PATCH"})
                    \cup (Stale(k, zone, late) \X {"STALE_REVIEW"})
                    \cup (Abandoned(k) \X {"REVIEW_REQUEST_ABANDONED"})
<1>3. \A p : /\ p \in Loaded(k) <=> p \in Patches /\ c.seen[p].kind = "whole"
             /\ p \in Drops(k) <=> /\ p \in Loaded(k) /\ c.seen[p].cites # 0
                                   /\ c.citedPrs[c.seen[p].cites] = "merged"
             /\ p \in Rebases(k) <=> p \in Loaded(k) /\ p \in c.changed
             /\ p \in Abandoned(k) <=> p \in Loaded(k) /\ c.pushedPrs[p] = "closed"
             /\ p \in Stale(k, zone, late) \cup Pushes(k) => p \in Loaded(k)
  BY <1>1 DEF Loaded, Drops, Rebases, Abandoned, Stale, Pushes
<1>4. \A p \in Patches :
        /\ <<p, "DROP_PATCH">> \in all <=> p \in Drops(k)
        /\ <<p, "REBASE_PATCH">> \in all <=> p \in Rebases(k)
        /\ <<p, "REVIEW_REQUEST_ABANDONED">> \in all <=> p \in Abandoned(k)
  OBVIOUS
<1>5. all \in SUBSET (Patches \X Suggestion) BY <1>3 DEF Suggestion
<1> HIDE DEF all
<1>6. PICK r \in Poll : /\ Become(k, r)
                        /\ r = [c EXCEPT !.pc = "done", !.result = "ok", !.findings = all]
  BY <1>2, <1>5 DEF Poll, all
<1>7. /\ r.pc = "done" /\ r.result = "ok" /\ r.findings = all
      /\ r.todo = c.todo /\ r.due = c.due /\ r.unanswered = c.unanswered
      /\ r.seen = c.seen /\ r.citedPrs = c.citedPrs /\ r.pushedPrs = c.pushedPrs
      /\ r.base = c.base /\ r.head = c.head /\ r.outdated = c.outdated
      /\ r.changed = c.changed
  BY <1>6 DEF Poll
<1>8. EndedOK(r) BY <1>7 DEF EndedOK
<1>9. Orderly(r) BY <1>1, <1>7 DEF PollOK, Orderly, Asking, Loading
<1>10. Truthful(r) BY <1>1, <1>7 DEF PollOK, Truthful
<1>11. Dues(r)
  <2>1. \A q \in c.due : Answered(c, q) BY <1>1 DEF PollOK, Orderly, Answered, Gathered
  <2> QED BY <1>1, <1>7, <2>1 DEF PollOK, Dues
<1>12. Based(r) BY <1>1, <1>7 DEF PollOK, Based
<1>13. Reported(r)
  <2>1. r.todo = {} BY <1>1, <1>7 DEF PollOK, Orderly
  <2> QED BY <1>3, <1>4, <1>7, <1>8, <2>1 DEF Reported
<1> QED BY <1>6, <1>9, <1>10, <1>11, <1>12, <1>13, PollSteps DEF PollOK

LEMMA NoPollOK ==
  ASSUME PollTypeOK PROVE PollOK(NoPoll)
BY TypesOfPoll
   DEF NoPoll, PollOK, Orderly, Truthful, Dues, Based, Reported, EndedOK, CitesOK, Absent,
       Asking, Loading

LEMMA FinishPollKeeps ==
  ASSUME PollInv, UNCHANGED <<pushVars, commits, base>>, NEW k \in Pollers, FinishPoll(k)
  PROVE  PollInv'
BY NoPollOK, RecordConsts, PollSteps DEF FinishPoll, PollInv

-----------------------------------------------------------------------------
(* Around a poll: pushes, drops, people and upstream *)

\* Pull requests are opened and reviewed; a merged one stays merged.
PrsGrow ==
  /\ opened <= opened'
  /\ \A n \in 1..opened : /\ prs'[n].of = prs[n].of
                          /\ prs[n].state = "merged" => prs'[n].state = "merged"

\* The branch gets more commits.
CommitsGrow ==
  /\ Len(commits) <= Len(commits')
  /\ \A i \in 1..Len(commits) : commits'[i] = commits[i]

LEMMA OpenPrGrows ==
  ASSUME PushTypeOK, NEW p, NEW ours, OpenPr(p, ours) PROVE PrsGrow
BY PatchPushAssumption DEF PushTypeOK, Number, OpenPr, PrsGrow

LEMMA PrsStable ==
  ASSUME PushTypeOK, [PushNext]_pushVars PROVE PrsGrow
<1>1. opened \in Nat /\ opened <= MaxPr /\ MaxPr \in Nat /\ prs \in [1..MaxPr -> Pr]
  BY PatchPushAssumption DEF PushTypeOK, Number
<1>2. CASE UNCHANGED <<prs, opened>> BY <1>1, <1>2 DEF PrsGrow
<1>3. ASSUME NEW j \in Jobs, JobStep(j) PROVE PrsGrow
  <2>1. UNCHANGED <<prs, opened>> \/ \E p : OpenPr(p, TRUE)
    BY <1>3 DEF JobStep, StartDrop, StartPush, ReadFile, Rails, GitPush, CreatePr,
                CreateUnheard, RecordExists, ReadBack, Truncate, Write, DropExists, Unlink,
                Finish, Crash, github
  <2> QED BY <1>2, <2>1, OpenPrGrows
<1>4. ASSUME NEW n \in 1..opened, Review(n), opened' = opened PROVE PrsGrow
  <2>1. PICK s \in {"open", "closed", "merged"} :
          prs[n].state # "merged" /\ prs' = [prs EXCEPT ![n].state = s]
    BY <1>4 DEF Review
  <2>2. prs[n] \in Pr /\ prs' = [prs EXCEPT ![n] = [prs[n] EXCEPT !.state = s]]
    BY <1>1, <2>1
  <2>3. [prs[n] EXCEPT !.state = s].of = prs[n].of BY <2>2 DEF Pr
  <2> QED BY <1>1, <1>4, <2>1, <2>2, <2>3 DEF PrsGrow
<1>5. CASE Upstream BY <1>4, <1>5, OpenPrGrows DEF Upstream
<1>6. CASE Edit BY <1>2, <1>6 DEF Edit, github
<1>7. CASE UNCHANGED pushVars BY <1>2, <1>7 DEF pushVars, github
<1> QED BY <1>3, <1>5, <1>6, <1>7 DEF PushNext

\* What a command holds to write is what it held, or what it finds on disk.
LEMMA HeldCites ==
  ASSUME PushTypes, FilesCite, NEW j \in Jobs, JobStep(j), NEW i \in Jobs
  PROVE  CitesOK(job'[i].id, job'[i].raw)
<1>1. job \in [Jobs -> Job] /\ CitesOK(job[i].id, job[i].raw)
  BY DEF PushTypes, PushTypeOK, FilesCite
<1>2. CASE i # j
  <2>1. job'[i] = job[i]
    BY <1>1, <1>2 DEF JobStep, StartDrop, StartPush, ReadFile, Rails, GitPush, CreatePr,
          CreateUnheard, RecordExists, ReadBack, Truncate, Write, DropExists, Unlink,
          Finish, Crash, SetJob, Goto, Return
  <2> QED BY <1>1, <2>1
<1>3. ASSUME i = j, NEW r, r.id = job[j].id, r.raw = job[j].raw, SetJob(j, r)
      PROVE  CitesOK(job'[i].id, job'[i].raw)
  BY <1>1, <1>3 DEF SetJob
<1>4. ASSUME i = j, NEW r, r.raw = Absent, SetJob(j, r)
      PROVE  CitesOK(job'[i].id, job'[i].raw)
  BY <1>1, <1>4 DEF SetJob, CitesOK, Absent
<1>5. ASSUME i = j, NEW s, Return(j, s) PROVE CitesOK(job'[i].id, job'[i].raw)
  <2>1. [NoJob EXCEPT !.pc = "done", !.result = s].raw = Absent BY DEF NoJob
  <2> QED BY <1>4, <1>5, <2>1 DEF Return
<1>6. ASSUME i = j, NEW l, Goto(j, l) PROVE CitesOK(job'[i].id, job'[i].raw)
  <2>1. [job[j] EXCEPT !.pc = l].id = job[j].id /\ [job[j] EXCEPT !.pc = l].raw = job[j].raw
    BY <1>1 DEF Job
  <2> QED BY <1>3, <1>6, <2>1 DEF Goto
<1>7. CASE i = j /\ ((\E p \in Patches : StartDrop(j, p) \/ \E dry \in BOOLEAN : StartPush(j, p, dry))
                     \/ Finish(j))
  BY <1>4, <1>7 DEF StartDrop, StartPush, Finish, NoJob
<1>8. CASE i = j /\ ReadFile(j)
  <2>1. ASSUME NEW p, SetJob(j, [job[j] EXCEPT !.todo = @ \ {p}, !.seen[p] = disk[p]])
        PROVE  CitesOK(job'[i].id, job'[i].raw)
    <3> DEFINE r == [job[j] EXCEPT !.todo = @ \ {p}, !.seen[p] = disk[p]]
    <3>1. r.id = job[j].id /\ r.raw = job[j].raw BY <1>1 DEF Job
    <3> QED BY <1>3, <1>8, <2>1, <3>1
  <2> QED BY <1>5, <1>6, <1>8, <2>1 DEF ReadFile
<1>9. CASE i = j /\ (CreatePr(j) \/ CreateUnheard(j))
  <2> DEFINE r == [job[j] EXCEPT !.pc = "exists", !.url = opened + 1]
  <2>1. r.id = job[j].id /\ r.raw = job[j].raw BY <1>1 DEF Job
  <2> QED BY <1>3, <1>5, <1>9, <2>1 DEF CreatePr, CreateUnheard
<1>10. CASE i = j /\ ReadBack(j)
  <2>1. PICK p \in Patches : p = job[j].id
    BY <1>10 DEF ReadBack, At, PushTypes, IdsOK
  <2> DEFINE raw == IF disk[p].kind = "empty" THEN [Absent EXCEPT !.kind = "broken"]
                    ELSE disk[p]
             r   == [job[j] EXCEPT !.pc = "truncate", !.raw = raw]
  <2>2. r.id = p /\ r.raw = raw BY <1>1, <2>1 DEF Job
  <2>3. CitesOK(p, raw) BY <2>1 DEF FilesCite, CitesOK, Absent
  <2>4. Return(j, "raised") \/ SetJob(j, r) BY <1>10, <2>1 DEF ReadBack
  <2> HIDE DEF r, raw
  <2>5. SetJob(j, r) => job'[i].id = p /\ job'[i].raw = raw
    BY <1>1, <1>10, <2>2 DEF SetJob
  <2> QED BY <1>5, <1>10, <2>3, <2>4, <2>5
<1>11. CASE i = j /\ (Rails(j) \/ GitPush(j) \/ RecordExists(j) \/ Truncate(j) \/ Write(j)
                      \/ DropExists(j) \/ Unlink(j) \/ Crash(j))
  BY <1>5, <1>6, <1>11
     DEF Rails, GitPush, RecordExists, Truncate, Write, DropExists, Unlink, Crash
<1> QED BY <1>2, <1>7, <1>8, <1>9, <1>10, <1>11 DEF JobStep

\* What is written cites what was held, or a pull request of that patch.
LEMMA WrittenCites ==
  ASSUME PushTypes, FilesCite, PushNext, NEW p \in Patches
  PROVE  CitesOK(p, disk'[p])
<1>1. disk \in [Patches -> File] /\ disk[p] \in File /\ CitesOK(p, disk[p])
      /\ job \in [Jobs -> Job]
  BY DEF PushTypes, PushTypeOK, FilesCite
<1>2. CASE disk' = disk BY <1>1, <1>2
<1>3. ASSUME NEW j \in Jobs, JobStep(j) PROVE CitesOK(p, disk'[p])
  <2>1. CASE Truncate(j) BY <1>1, <2>1 DEF Truncate, CitesOK, Absent
  <2>2. CASE Unlink(j) BY <1>1, <2>2 DEF Unlink, CitesOK, Absent
  <2>3. CASE Write(j)
    <3>1. PICK f \in File : f = job[j].raw BY <1>1 DEF Job
    <3>2. [f EXCEPT !.pushed = job[j].url].cites = f.cites BY DEF File
    <3>3. CitesOK(job[j].id, f) BY <3>1 DEF FilesCite
    <3>4. disk' = disk \/ disk' = [disk EXCEPT ![job[j].id] = [f EXCEPT !.pushed = job[j].url]]
      BY <2>3, <3>1 DEF Write
    <3> QED BY <1>1, <3>2, <3>3, <3>4 DEF CitesOK
  <2> QED BY <1>2, <1>3, <2>1, <2>2, <2>3
        DEF JobStep, StartDrop, StartPush, ReadFile, Rails, GitPush, CreatePr,
            CreateUnheard, RecordExists, ReadBack, DropExists, Finish, Crash
<1>4. ASSUME NEW q \in Patches, Author(q) \/ EditEnabled(q) \/ EditCites(q)
      PROVE  CitesOK(p, disk'[p])
  <2>1. CASE q # p BY <1>1, <1>4, <2>1 DEF Author, EditEnabled, EditCites
  <2>2. CASE q = p /\ Author(q) BY <1>1, <2>2 DEF Author, CitesOK, Absent
  <2>3. CASE q = p /\ EditEnabled(q)
    <3>1. disk'[p] = [disk[p] EXCEPT !.enabled = ~@] BY <1>1, <2>3 DEF EditEnabled
    <3>2. disk'[p].cites = disk[p].cites BY <1>1, <3>1 DEF File
    <3> QED BY <1>1, <3>2 DEF CitesOK
  <2>4. CASE q = p /\ EditCites(q)
    <3>1. PICK n \in 1..opened : prs[n].of = p /\ disk' = [disk EXCEPT ![p].cites = n]
      BY <2>4 DEF EditCites
    <3>2. disk'[p] = [disk[p] EXCEPT !.cites = n] BY <1>1, <3>1
    <3>3. disk'[p].cites = n BY <1>1, <3>2 DEF File
    <3> QED BY <3>1, <3>3 DEF CitesOK
  <2> QED BY <1>4, <2>1, <2>2, <2>3, <2>4
<1> QED BY <1>2, <1>3, <1>4 DEF PushNext, Edit, Upstream

LEMMA FilesCiteStep ==
  ASSUME PushTypes, FilesCite, [PushNext]_pushVars PROVE FilesCite'
<1>1. PrsGrow /\ opened \in Nat /\ opened' \in Nat
  <2>1. PushTypes' BY PushTypesStep
  <2> QED BY <2>1, PrsStable, PatchPushAssumption DEF PushTypes, PushTypeOK, Number
<1>2. ASSUME NEW p, NEW n, n # 0 => n \in 1..opened /\ prs[n].of = p
      PROVE  n # 0 => n \in 1..opened' /\ prs'[n].of = p
  BY <1>1, <1>2 DEF PrsGrow
<1>3. CASE UNCHANGED pushVars
  BY <1>3 DEF pushVars, github, FilesCite, CitesOK
<1>4. CASE PushNext
  <2>1. ASSUME NEW p \in Patches PROVE CitesOK(p, disk[p])'
    <3>1. CitesOK(p, disk'[p]) BY <1>4, WrittenCites
    <3> QED BY <1>2, <3>1 DEF CitesOK
  <2>2. ASSUME NEW i \in Jobs PROVE CitesOK(job[i].id, job[i].raw)'
    <3>1. CitesOK(job'[i].id, job'[i].raw)
      <4>1. CASE \E j \in Jobs : JobStep(j) BY <4>1, HeldCites
      <4>2. CASE job' = job BY <4>2 DEF FilesCite
      <4> QED BY <1>4, <4>1, <4>2 DEF PushNext, Edit, Upstream
    <3> QED BY <1>2, <3>1 DEF CitesOK
  <2> QED BY <2>1, <2>2 DEF FilesCite
<1> QED BY <1>3, <1>4

LEMMA CommitsStable ==
  ASSUME PollTypeOK, Commit \/ MoveBase
  PROVE  CommitsGrow /\ commits' \in Seq(SUBSET Patches) /\ Len(commits') <= MaxCommits + 1
         /\ base' \in 0..Len(commits')
<1>1. commits \in Seq(SUBSET Patches) /\ Len(commits) \in Nat /\ base \in 0..Len(commits)
      /\ Len(commits) <= MaxCommits + 1 /\ MaxCommits \in Nat
  BY TypesOfPoll DEF PollTypeOK
<1>2. CASE MoveBase BY <1>1, <1>2 DEF MoveBase, CommitsGrow
<1>3. CASE Commit
  <2>1. PICK touched \in SUBSET Patches : commits' = Append(commits, touched)
    BY <1>3 DEF Commit
  <2>2. Len(commits') = Len(commits) + 1 /\ Len(commits) <= MaxCommits /\ base' = base
    BY <1>1, <1>3, <2>1 DEF Commit
  <2> QED BY <1>1, <2>1, <2>2 DEF CommitsGrow
<1> QED BY <1>2, <1>3

\* A poll's record stays in order whatever happens around it.
LEMMA AroundAPoll ==
  ASSUME PollTypeOK, PollTypeOK', PrsGrow, CommitsGrow, NEW c \in Poll, PollOK(c)
  PROVE  PollOK(c)'
<1>1. /\ opened \in Nat /\ opened' \in Nat /\ Len(commits) \in Nat /\ Len(commits') \in Nat
      /\ MaxPr \in Nat /\ opened <= MaxPr /\ opened' <= MaxPr
  BY PatchPushAssumption DEF PollTypeOK, PushTypeOK, Number
<1>2. ASSUME NEW p, NEW n, n # 0 => n \in 1..opened /\ prs[n].of = p
      PROVE  n # 0 => n \in 1..opened' /\ prs'[n].of = p
  BY <1>1, <1>2 DEF PrsGrow
<1>3. Orderly(c)' BY <1>2 DEF PollOK, Orderly, CitesOK
<1>4. Truthful(c)' BY <1>1 DEF PollOK, Truthful, PrsGrow
<1>5. Dues(c)'
  <2>1. ASSUME NEW p \in c.due PROVE MergedBy(p, c.seen[p].cites)'
    <3>1. c.seen[p].cites \in 1..opened /\ MergedBy(p, c.seen[p].cites)
      BY <2>1 DEF PollOK, Orderly, Dues, CitesOK, MergedBy, Poll
    <3> QED BY <3>1 DEF PrsGrow, MergedBy
  <2> QED BY <2>1 DEF PollOK, Dues, Answered, EndedOK
<1>6. Based(c)'
  <2>1. c.base \in 0..Len(commits) /\ c.head \in 0..Len(commits) BY DEF PollOK, Based
  <2>2. Changed(c.base, c.head)' = Changed(c.base, c.head)
    <3>1. \A i \in c.base + 1..c.head : commits'[i] = commits[i]
      BY <1>1, <2>1 DEF CommitsGrow
    <3> QED BY <3>1 DEF Changed
  <2>3. Outdated(c.base) \subseteq Outdated(c.base)'
    <3>1. \A i \in c.base + 1..Len(commits) :
            i \in c.base + 1..Len(commits') /\ commits'[i] = commits[i]
      BY <1>1, <2>1 DEF CommitsGrow
    <3> QED BY <3>1 DEF Outdated, Changed
  <2> QED BY <1>1, <2>1, <2>2, <2>3 DEF PollOK, Based, CommitsGrow, EndedOK
<1>7. Reported(c)' BY DEF PollOK, Reported, EndedOK
<1> QED BY <1>3, <1>4, <1>5, <1>6, <1>7 DEF PollOK

LEMMA AroundKeeps ==
  ASSUME PollInv, poll' = poll,
         \/ [PushNext]_pushVars /\ UNCHANGED <<commits, base>>
         \/ (Commit \/ MoveBase) /\ UNCHANGED pushVars
  PROVE  PollInv'
<1>1. PushTypes /\ FilesCite /\ PollTypeOK BY DEF PollInv, PollTypeOK, PushTypes
<1>2. PushTypes' /\ FilesCite' /\ PrsGrow
  BY <1>1, PushTypesStep, FilesCiteStep, PrsStable DEF PushTypes
<1>3. CommitsGrow /\ commits' \in Seq(SUBSET Patches) /\ Len(commits') <= MaxCommits + 1
      /\ base' \in 0..Len(commits')
  <2>1. CASE UNCHANGED <<commits, base>>
    BY <1>1, <2>1, TypesOfPoll DEF CommitsGrow, PollTypeOK
  <2> QED BY <1>1, <2>1, CommitsStable
<1>4. PollTypeOK' BY <1>1, <1>2, <1>3 DEF PollTypeOK, PushTypes
<1>5. ASSUME NEW k \in Pollers PROVE PollOK(poll[k])'
  <2>1. PICK c \in Poll : c = poll[k] /\ c = poll'[k] BY <1>1, TypesOfPoll
  <2>2. PollOK(c)' BY <1>1, <1>2, <1>3, <1>4, <2>1, AroundAPoll DEF PollInv
  <2> QED BY <2>1, <2>2 DEF PollOK, Orderly, Truthful, Dues, Based, Reported, Answered,
                            EndedOK, CitesOK, MergedBy
<1> QED BY <1>2, <1>4, <1>5 DEF PollInv, PushTypes

-----------------------------------------------------------------------------
(* The theorems *)

LEMMA PollInvInit == Init => PollInv
<1> SUFFICES ASSUME Init PROVE PollInv OBVIOUS
<1>1. PushTypes BY PushTypesInit DEF Init
<1>2. PollTypeOK
  <2>1. commits \in Seq(SUBSET Patches) /\ Len(commits) = 1
        /\ \A k \in Pollers : poll[k] = NoPoll
    BY DEF Init
  <2> QED BY <1>1, <2>1, RecordConsts, PollAssumption DEF Init, PollTypeOK, PushTypes
<1>3. FilesCite BY DEF Init, PushInit, FilesCite, CitesOK, Absent, NoJob
<1>4. \A k \in Pollers : PollOK(poll[k]) BY <1>2, NoPollOK DEF Init
<1> QED BY <1>1, <1>2, <1>3, <1>4 DEF PollInv, PushTypes

LEMMA PollInvStep == PollInv /\ [Next]_pollVars => PollInv'
<1> SUFFICES ASSUME PollInv, [Next]_pollVars PROVE PollInv' OBVIOUS
<1>1. ASSUME NEW k \in Pollers, PollStep(k), UNCHANGED <<pushVars, commits, base>>
      PROVE  PollInv'
  BY <1>1, StartPollKeeps, PollReadKeeps, PollLoadedKeeps, AskCitedKeeps, AskPushedKeeps,
     AskHeadKeeps, AskFilesKeeps, ReconcileKeeps, FinishPollKeeps DEF PollStep
<1>2. CASE PushNext /\ UNCHANGED <<commits, base, poll>> BY <1>2, AroundKeeps
<1>3. CASE (Commit \/ MoveBase) /\ UNCHANGED <<pushVars, poll>> BY <1>3, AroundKeeps
<1>4. CASE UNCHANGED pollVars BY <1>4, AroundKeeps DEF pollVars
<1> QED BY <1>1, <1>2, <1>3, <1>4 DEF Next

LEMMA PollInvariant == Spec => []PollInv
<1>1. Init => PollInv BY PollInvInit
<1>2. PollInv /\ [Next]_pollVars => PollInv' BY PollInvStep
<1> QED BY <1>1, <1>2, PTL DEF Spec

\* Type correctness of the poll model, whatever runs beside it.
THEOREM PollTypeCorrect == Spec => []PollTypeOK
<1>1. PollInv => PollTypeOK BY DEF PollInv
<1> QED BY <1>1, PollInvariant, PTL

\* DropsAreRight: a patch is suggested for dropping only if what its yaml
\* cited is merged, and then always when poll got its answers, however many
\* polls, pushes, drops and edits run at the same time.
THEOREM DropsSound == Spec => []DropsAreRight
<1>1. ASSUME PollInv, NEW k \in Pollers, On(k, "done"), poll[k].result = "ok"
      PROVE  LET dropped == {p \in Patches : <<p, "DROP_PATCH">> \in poll[k].findings}
             IN /\ \A p \in dropped : MergedBy(p, poll[k].seen[p].cites)
                /\ "pr" \notin poll[k].unanswered => poll[k].due \subseteq dropped
  <2>1. PICK c \in Poll : c = poll[k] /\ PollOK(c) BY <1>1, TypesOfPoll DEF PollInv
  <2>2. EndedOK(c) BY <1>1, <2>1 DEF On, EndedOK
  <2>3. ASSUME NEW p \in Patches, <<p, "DROP_PATCH">> \in c.findings
        PROVE  MergedBy(p, c.seen[p].cites)
    <3>1. c.seen[p].cites # 0 /\ c.citedPrs[c.seen[p].cites] = "merged" /\ CitesOK(p, c.seen[p])
      BY <2>1, <2>2, <2>3 DEF PollOK, Orderly, Reported
    <3>2. c.seen[p].cites \in 1..MaxPr
      BY <1>1, <3>1, TypesOfPoll DEF PollInv, CitesOK
    <3> QED BY <2>1, <3>1, <3>2 DEF PollOK, Truthful, CitesOK, MergedBy
  <2>4. ASSUME NEW p \in c.due, "pr" \notin c.unanswered
        PROVE  <<p, "DROP_PATCH">> \in c.findings
    <3>1. p \in Patches /\ Answered(c, p)
      BY <2>1, <2>2, <2>4 DEF Answered, PollOK, Reported, Poll
    <3>2. /\ c.seen[p].kind = "whole" /\ c.seen[p].cites # 0
          /\ c.citedPrs[c.seen[p].cites] = "merged"
      BY <2>1, <2>4, <3>1 DEF PollOK, Dues, MergedBy
    <3> QED BY <2>1, <2>2, <3>1, <3>2 DEF PollOK, Reported
  <2> QED BY <2>1, <2>3, <2>4 DEF Poll
<1>2. PollInv => DropsAreRight BY <1>1 DEF DropsAreRight
<1> QED BY <1>2, PollInvariant, PTL

\* NoContradiction: the two answers about one pull request never make poll
\* say both that it was merged and that it was abandoned.
THEOREM NoContradictionSafe == Spec => []NoContradiction
<1>1. ASSUME PollInv, NEW k \in Pollers, NEW p \in Patches,
             {<<p, "DROP_PATCH">>, <<p, "REVIEW_REQUEST_ABANDONED">>} \subseteq poll[k].findings
      PROVE  poll[k].seen[p].cites # poll[k].seen[p].pushed
  <2>1. PICK c \in Poll : c = poll[k] /\ PollOK(c) BY <1>1, TypesOfPoll DEF PollInv
  <2>2. c.pushedPrs[p] = "closed" /\ c.citedPrs[c.seen[p].cites] = "merged"
    BY <1>1, <2>1 DEF PollOK, Reported
  <2> QED BY <2>1, <2>2 DEF PollOK, Truthful
<1>2. PollInv => NoContradiction BY <1>1 DEF NoContradiction
<1> QED BY <1>2, PollInvariant, PTL

\* RebasesAreRight: what poll suggests for rebasing did change after the
\* base it began with, and with all the answers nothing outdated is missed,
\* while upstream and base_commit move between its questions.
THEOREM RebasesSafe == Spec => []RebasesAreRight
<1>1. ASSUME PollInv, NEW k \in Pollers, Ended(k)
      PROVE  /\ Found(k, "REBASE_PATCH") \subseteq Outdated(poll[k].base)
             /\ "files" \notin poll[k].unanswered =>
                  poll[k].outdated \cap Loaded(k) \subseteq Found(k, "REBASE_PATCH")
  <2>1. PICK c \in Poll : c = poll[k] /\ PollOK(c) BY <1>1, TypesOfPoll DEF PollInv
  <2>2. EndedOK(c) BY <1>1, <2>1 DEF Ended, On, EndedOK
  <2>3. \A p \in Patches : p \in Found(k, "REBASE_PATCH") <=> p \in Loaded(k) /\ p \in c.changed
    BY <2>1, <2>2 DEF Found, Loaded, PollOK, Reported
  <2> QED BY <2>1, <2>2, <2>3 DEF Found, Loaded, PollOK, Based
<1>2. PollInv => RebasesAreRight BY <1>1 DEF RebasesAreRight
<1> QED BY <1>2, PollInvariant, PTL

\* A poll changes nothing of what push and drop work on, so what is proved
\* of PatchPush holds next to polls as well.
LEMMA PollsOnlyLook == Spec => PushSpec
<1>1. Init => PushInit BY DEF Init
<1>2. [Next]_pollVars => [PushNext]_pushVars BY DEF Next, pollVars
<1> QED BY <1>1, <1>2, PTL DEF Spec, PushSpec
=============================================================================
