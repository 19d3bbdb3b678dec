-------------------------------- MODULE Poll --------------------------------
(***************************************************************************)
(* poll.py on one source, next to PatchPush: a poll reads the patch yamls, *)
(* asks upstream about their pull requests one call at a time, and turns   *)
(* the snapshot into findings, while people review, edit, push and drop,   *)
(* upstream commits and the operator moves base_commit.                    *)
(*                                                                         *)
(* A commit is the set of patches with a touched file it changes; an age   *)
(* is the number of whole days, of 24 hours each, since the last activity. *)
(***************************************************************************)
EXTENDS PatchPush, Integers, Sequences

CONSTANTS
  Pollers,     \* processes running `poll`
  Client,      \* "gh", the default GhCliClient, or "other", one plugged in
  MaxCommits,  \* bound: commits upstream makes
  Ages         \* ages of the pull requests we opened

ASSUME PollAssumption ==
  Client \in {"gh", "other"} /\ MaxCommits \in Nat /\ Ages \subseteq Nat

VARIABLES
  commits,     \* upstream: the branch, oldest commit first
  base,        \* base_commit of the source's entry, 0 when it has none
  poll         \* the poll each process is running

pollVars == <<pushVars, commits, base, poll>>

Suggestion == {"DROP_PATCH", "REBASE_PATCH", "PUSH_PATCH", "STALE_REVIEW",
               "REVIEW_REQUEST_ABANDONED"}
Revision   == 0..MaxCommits + 1
Answer     == {"none", "open", "closed", "merged"}
Poll       == [pc : {"idle", "read", "cited", "pushed", "head", "files", "reconcile",
                     "done"},
               todo : SUBSET Patches, seen : [Patches -> File],
               citedPrs : [1..MaxPr -> Answer],
               pushedPrs : [Patches -> Answer],
               age : [Patches -> Ages \cup {0}],
               base : Revision, head : Revision, changed : SUBSET Patches,
               unanswered : SUBSET {"pr", "files"},
               due : SUBSET Patches,       \* history: merged when first read
               outdated : SUBSET Patches,  \* history: to rebase at the start
               findings : SUBSET (Patches \X Suggestion),
               result : {"none", "ok", "error", "raised"}]

NoPoll == [pc |-> "idle", todo |-> {}, seen |-> [p \in Patches |-> Absent],
           citedPrs |-> [n \in 1..MaxPr |-> "none"],
           pushedPrs |-> [p \in Patches |-> "none"],
           age |-> [p \in Patches |-> 0],
           base |-> 0, head |-> 0, changed |-> {},
           unanswered |-> {}, due |-> {}, outdated |-> {}, findings |-> {},
           result |-> "none"]

PollTypeOK ==
  /\ PushTypeOK
  /\ commits \in Seq(SUBSET Patches) /\ Len(commits) <= MaxCommits + 1
  /\ base \in 0..Len(commits)
  /\ poll \in [Pollers -> Poll]

Init ==
  /\ PushInit
  /\ commits = <<{}>> /\ base \in {0, 1}
  /\ poll = [k \in Pollers |-> NoPoll]

-----------------------------------------------------------------------------
On(k, l)       == poll[k].pc = l
Become(k, r)   == poll' = [poll EXCEPT ![k] = r]
Loaded(k)      == {p \in Patches : poll[k].seen[p].kind = "whole"}
Next1(k)       == Min(poll[k].todo)
MergedBy(p, n) == n # 0 /\ prs[n].of = p /\ prs[n].state = "merged"

\* The patches with a file that differs between two revisions.
Changed(b, h) == UNION {commits[i] : i \in b + 1..h}
Outdated(b)   == IF b = 0 THEN {} ELSE Changed(b, Len(commits))

StartPoll(k) ==
  /\ On(k, "idle")
  /\ Become(k, [NoPoll EXCEPT !.pc = "read", !.todo = OnDisk, !.base = base,
                              !.outdated = Outdated(base)])

\* load_patches, as in push: one bad file ends the poll.
PollRead(k) ==
  /\ On(k, "read") /\ poll[k].todo # {}
  /\ LET p == Next1(k)
     IN IF Whole(p)
        THEN Become(k, [poll[k] EXCEPT
               !.todo = @ \ {p}, !.seen[p] = disk[p],
               !.due = IF MergedBy(p, disk[p].cites) THEN @ \cup {p} ELSE @])
        ELSE Become(k, [poll[k] EXCEPT !.pc = "done", !.result =
               IF disk[p].kind = "absent" THEN "raised" ELSE "error"])

PollLoaded(k) ==
  /\ On(k, "read") /\ poll[k].todo = {}
  /\ Become(k, [poll[k] EXCEPT !.todo = Loaded(k),
                               !.pc = IF Loaded(k) = {} THEN "head" ELSE "cited"])

\* get_pr: the client answers None when gh fails, for whatever reason.
Answers(n)  == {prs[n].state, "none"}
NoAnswer(a) == IF a = "none" THEN {"pr"} ELSE {}

\* Slip: a pull request of ours stands for the one cited.
AskCitedOfUnpushed(k) ==
  /\ On(k, "cited")
  /\ LET n == poll[k].seen[Next1(k)].cites
     IN IF n = 0 \/ poll[k].seen[Next1(k)].pushed # 0 \/ poll[k].citedPrs[n] # "none"
        THEN Become(k, [poll[k] EXCEPT !.pc = "pushed"])
        ELSE \E a \in Answers(n) :
               Become(k, [poll[k] EXCEPT !.pc = "pushed", !.citedPrs[n] = a,
                                         !.unanswered = @ \cup NoAnswer(a)])

\* The pull request in upstream_pr_url, asked for once per number.
AskCited(k) ==
  /\ On(k, "cited")
  /\ LET n == poll[k].seen[Next1(k)].cites
     IN IF n = 0 \/ poll[k].citedPrs[n] # "none"
        THEN Become(k, [poll[k] EXCEPT !.pc = "pushed"])
        ELSE \E a \in Answers(n) :
               Become(k, [poll[k] EXCEPT !.pc = "pushed", !.citedPrs[n] = a,
                                         !.unanswered = @ \cup NoAnswer(a)])

\* The pull request we opened, then on to the next patch.
AskPushed(k) ==
  /\ On(k, "pushed")
  /\ LET p    == Next1(k)
         n    == poll[k].seen[p].pushed
         rest == poll[k].todo \ {p}
     IN \E a \in IF n = 0 THEN {"none"} ELSE Answers(n) :
          \E d \in IF a = "open" THEN Ages ELSE {0} :
            Become(k, [poll[k] EXCEPT !.pushedPrs[p] = a, !.age[p] = d, !.todo = rest,
                         !.unanswered = IF n = 0 THEN @ ELSE @ \cup NoAnswer(a),
                         !.pc = IF rest = {} THEN "head" ELSE "cited"])

\* latest_commit_sha: GhCliClient takes the bare SHA that `--jq .sha` prints
\* for JSON, which it is not, and answers None.
Heads == IF Client = "gh" THEN {0} ELSE {0, Len(commits)}

AskHead(k) ==
  /\ On(k, "head")
  /\ IF poll[k].base = 0 THEN Become(k, [poll[k] EXCEPT !.pc = "reconcile"])
     ELSE \E h \in Heads :
            Become(k, [poll[k] EXCEPT !.head = h,
                         !.unanswered = IF h = 0 THEN @ \cup {"files"} ELSE @,
                         !.pc = IF h \in {0, poll[k].base} THEN "reconcile" ELSE "files"])

\* Slip: base_commit read from the registry again.
AskFilesReread(k) ==
  /\ On(k, "files")
  /\ \/ Become(k, [poll[k] EXCEPT !.changed = Changed(base, poll[k].head),
                                   !.pc = "reconcile"])
     \/ Become(k, [poll[k] EXCEPT !.unanswered = @ \cup {"files"}, !.pc = "reconcile"])

\* files_changed_between: no files when gh fails.
AskFiles(k) ==
  /\ On(k, "files")
  /\ \/ Become(k, [poll[k] EXCEPT !.changed = Changed(poll[k].base, poll[k].head),
                                   !.pc = "reconcile"])
     \/ Become(k, [poll[k] EXCEPT !.unanswered = @ \cup {"files"}, !.pc = "reconcile"])

\* reconcile, on the records as loaded and the snapshot.
Drops(k)     == {p \in Loaded(k) : LET n == poll[k].seen[p].cites
                                   IN n # 0 /\ poll[k].citedPrs[n] = "merged"}
Pushes(k)    == {p \in Loaded(k) : LET rec == poll[k].seen[p]
                                   IN autoPr /\ rec.enabled /\ rec.pushed = 0}
\* Slip: "closed" taken for "closed or merged", and `merged` not consulted.
AbandonedAny(k) == {p \in Loaded(k) : poll[k].pushedPrs[p] \in {"closed", "merged"}}
Abandoned(k) == {p \in Loaded(k) : poll[k].pushedPrs[p] = "closed"}

Rebases(k)   == Loaded(k) \cap poll[k].changed

\* The difference of two dates, the one of the last activity in UTC, the
\* other today's where poll runs (242): of a pull request in `late` one day
\* more has begun in UTC than has gone by, and `zone` is how far the local
\* date is ahead of UTC's.
StaleReviewDays == 30
CalendarDays(k, p, zone, late) == poll[k].age[p] + zone + (IF p \in late THEN 1 ELSE 0)
Stale(k, zone, late) == {p \in Loaded(k) : /\ poll[k].pushedPrs[p] = "open"
                                          /\ CalendarDays(k, p, zone, late) > StaleReviewDays}

Reconcile(k) ==
  /\ On(k, "reconcile")
  /\ \E zone \in -1..1, late \in SUBSET Patches :
       Become(k, [poll[k] EXCEPT !.pc = "done", !.result = "ok",
         !.findings = (Drops(k) \X {"DROP_PATCH"}) \cup (Rebases(k) \X {"REBASE_PATCH"})
                        \cup (Pushes(k) \X {"PUSH_PATCH"})
                        \cup (Stale(k, zone, late) \X {"STALE_REVIEW"})
                        \cup (Abandoned(k) \X {"REVIEW_REQUEST_ABANDONED"})])

FinishPoll(k) == On(k, "done") /\ Become(k, NoPoll)

PollStep(k) ==
  \/ StartPoll(k) \/ PollRead(k) \/ PollLoaded(k)
  \/ AskCited(k) \/ AskPushed(k) \/ AskHead(k) \/ AskFiles(k)
  \/ Reconcile(k) \/ FinishPoll(k)

Commit ==
  /\ Len(commits) <= MaxCommits
  /\ \E touched \in SUBSET Patches : commits' = Append(commits, touched)
  /\ base' = base

\* The operator has rebased onto a newer revision and writes it down.
MoveBase == base' \in base + 1..Len(commits) /\ commits' = commits

Next ==
  \/ PushNext /\ UNCHANGED <<commits, base, poll>>
  \/ (Commit \/ MoveBase) /\ UNCHANGED <<pushVars, poll>>
  \/ \E k \in Pollers : PollStep(k) /\ UNCHANGED <<pushVars, commits, base>>

Spec == Init /\ [][Next]_pollVars

-----------------------------------------------------------------------------
(* Properties *)

\* A patch is suggested for dropping only when the pull request its yaml
\* cited is merged, and no poll that got all its answers misses one merged
\* before the yaml was read (poll.py 249-264).
DropsAreRight ==
  \A k \in Pollers : On(k, "done") /\ poll[k].result = "ok" =>
    LET dropped == {p \in Patches : <<p, "DROP_PATCH">> \in poll[k].findings}
    IN /\ \A p \in dropped : MergedBy(p, poll[k].seen[p].cites)
       /\ "pr" \notin poll[k].unanswered => poll[k].due \subseteq dropped

\* One poll never says of one pull request both that it was merged and that
\* it was abandoned, although it asks about it twice and it may be reopened
\* and merged in between (poll.py 203-214).
NoContradiction ==
  \A k \in Pollers, p \in Patches :
    {<<p, "DROP_PATCH">>, <<p, "REVIEW_REQUEST_ABANDONED">>} \subseteq poll[k].findings
      => poll[k].seen[p].cites # poll[k].seen[p].pushed

Found(k, sug) == {p \in Patches : <<p, sug>> \in poll[k].findings}
Ended(k)      == On(k, "done") /\ poll[k].result = "ok"

\* A patch is suggested for rebasing only if upstream did change its files
\* after the base_commit the poll began with, and each one that was outdated
\* by then is, unless an answer or its yaml is missing, although upstream and
\* base_commit move on between the two questions (poll.py 216-222).
RebasesAreRight ==
  \A k \in Pollers : Ended(k) =>
    /\ Found(k, "REBASE_PATCH") \subseteq Outdated(poll[k].base)
    /\ "files" \notin poll[k].unanswered =>
         poll[k].outdated \cap Loaded(k) \subseteq Found(k, "REBASE_PATCH")

-----------------------------------------------------------------------------
(* What the documentation says and the code does not do; refuted by a run.  *)

\* poll.py 11, "REBASE_PATCH -- upstream changed our touched_files": with the
\* client poll uses by default, a poll that gets all its answers suggests it
\* for every patch that was outdated when it began.
RebaseReported ==
  \A k \in Pollers : Ended(k) /\ poll[k].base # 0 =>
    poll[k].outdated \cap Loaded(k) \subseteq Found(k, "REBASE_PATCH")
=============================================================================
