--------------------------- MODULE GitCloneProofs ---------------------------
(* Lemmas about the git commands of GitClone, for every Patch and MaxRev.   *)
EXTENDS GitClone, TLAPS

\* Every command but reset --hard, and every step of the people around.
QuietStep ==
  \/ FetchUpstream \/ CheckoutBranch \/ CheckoutRefused
  \/ RebaseOk \/ RebaseConflict \/ RebaseKilled \/ RebaseRefused
  \/ TreeHalfWritten
  \/ ForcePushWithLease \/ PushRejected \/ PushAnswerLost
  \/ UpstreamAdvance \/ (\E p \in Patch : ForeignPush(p) \/ CommitFix(p))
  \/ (\E w \in {"tracked", "untracked"} : LeaveWork(w)) \/ TidyUp
  \/ SwitchToTopic \/ SwitchBack \/ FinishRebase \/ AbortRebase \/ QuitRebase
  \/ FetchOrigin
  \/ UNCHANGED gitVars

GitStep == QuietStep \/ ResetHard

LEMMA UpType == ASSUME NEW u \in 1..MaxRev PROVE Up(u) \in Commit
BY DEF Up, Commit

LEMMA ReplayType ==
  ASSUME NEW c \in Commit, NEW u \in 1..MaxRev PROVE Replay(c, u) \in Commit
BY DEF Replay, Commit

\* Replaying a commit onto a newer revision loses no fix: what it skips,
\* upstream has.
LEMMA ReplayContent ==
  ASSUME GitTypeOK, NEW c \in Commit, NEW u \in 1..MaxRev, c.base <= u
  PROVE  Content(c) \subseteq Content(Replay(c, u))
BY DEF Content, Replay, MergedBy, Commit, GitTypeOK

LEMMA GitInitType == ASSUME GitInit PROVE GitTypeOK
<1>1. Up(1) \in Commit BY MaxRevAssumption, UpType
<1>2. 1 \in 1..MaxRev /\ 0 \in 0..MaxRev BY MaxRevAssumption
<1> QED BY <1>1, <1>2 DEF GitInit, GitTypeOK, Branch, Work, Rebasing

\* Every git step keeps the types.
LEMMA GitTypeStep == ASSUME GitTypeOK, GitStep PROVE GitTypeOK'
<1> USE MaxRevAssumption
<1>0. rev \in 1..MaxRev /\ head \in Commit /\ upRef \in Commit
      /\ tip["branch"] \in Commit /\ tip["topic"] \in Commit /\ tip[on] \in Commit
      /\ head.base \in 1..MaxRev /\ upRef.base \in 1..MaxRev
  BY DEF GitTypeOK, Commit, Branch
<1>1. CASE FetchUpstream
  <2>1. Up(rev) \in Commit BY <1>0, UpType
  <2> QED BY <1>1, <2>1 DEF FetchUpstream, GitTypeOK, upstream, fork
<1>2. CASE CheckoutBranch
  BY <1>0, <1>2 DEF CheckoutBranch, GitTypeOK, upstream, fork, Branch, Rebasing
<1>3. CASE UNCHANGED gitVars
  BY <1>3 DEF gitVars, GitTypeOK, upstream, fork, clone
<1>4. CASE CheckoutRefused \/ RebaseRefused \/ PushRejected
  BY <1>3, <1>4 DEF CheckoutRefused, RebaseRefused, PushRejected
<1>5. CASE RebaseOk
  <2>1. Replay(head, upRef.base) \in Commit BY <1>0, ReplayType
  <2> QED BY <1>5, <2>1 DEF RebaseOk, GitTypeOK, upstream, fork
<1>6. CASE RebaseConflict
  <2>1. PICK done \in SUBSET head.fixes :
          head' = Replay([head EXCEPT !.fixes = done], upRef.base)
    BY <1>6 DEF RebaseConflict
  <2>2. [head EXCEPT !.fixes = done] \in Commit BY <1>0, <2>1 DEF Commit
  <2>3. head' \in Commit BY <1>0, <2>1, <2>2, ReplayType
  <2>4. work' \in Work BY <1>6 DEF RebaseConflict, GitTypeOK, Work
  <2> QED BY <1>6, <2>3, <2>4 DEF RebaseConflict, GitTypeOK, upstream, fork, Rebasing
<1>6a. CASE RebaseKilled
  <2>1. head' \in Commit /\ tip' \in [Branch -> Commit]
    <3>1. CASE KilledHalfWay
      <4>1. PICK done \in SUBSET head.fixes :
              head' = Replay([head EXCEPT !.fixes = done], upRef.base)
        BY <3>1 DEF KilledHalfWay
      <4>2. [head EXCEPT !.fixes = done] \in Commit BY <1>0, <4>1 DEF Commit
      <4>3. head' \in Commit BY <1>0, <4>1, <4>2, ReplayType
      <4> QED BY <3>1, <4>3 DEF KilledHalfWay, GitTypeOK
    <3>2. CASE KilledAtTheEnds
      <4>1. Replay(head, upRef.base) \in Commit BY <1>0, ReplayType
      <4> QED BY <3>2, <4>1 DEF KilledAtTheEnds, GitTypeOK
    <3> QED BY <1>6a, <3>1, <3>2 DEF RebaseKilled
  <2>2. work' \in Work /\ rebasing' \in Rebasing
    BY <1>6a DEF RebaseKilled, KilledHalfWay, KilledAtTheEnds, GitTypeOK, Work, Rebasing
  <2> QED BY <1>6a, <2>1, <2>2 DEF RebaseKilled, GitTypeOK, upstream, fork
<1>6b. CASE TreeHalfWritten
  BY <1>6b DEF TreeHalfWritten, GitTypeOK, upstream, fork, Work
<1>7. CASE ForcePushWithLease
  BY <1>0, <1>7 DEF ForcePushWithLease, GitTypeOK, upstream
<1>8. CASE PushAnswerLost
  BY <1>0, <1>8 DEF PushAnswerLost, GitTypeOK, upstream
<1>9. CASE UpstreamAdvance
  <2>1. rev + 1 \in 1..MaxRev BY <1>0, <1>9 DEF UpstreamAdvance
  <2>2. PICK M \in SUBSET Patch :
          mergedAt' = [p \in Patch |-> IF p \in M THEN rev + 1 ELSE mergedAt[p]]
    BY <1>9 DEF UpstreamAdvance
  <2>3. mergedAt' \in [Patch -> 0..MaxRev] BY <2>1, <2>2 DEF GitTypeOK
  <2> QED BY <1>9, <2>1, <2>3 DEF UpstreamAdvance, GitTypeOK, fork, clone
<1>10. ASSUME NEW p \in Patch, ForeignPush(p) PROVE GitTypeOK'
  <2>1. origin' \in Commit BY <1>10 DEF ForeignPush, GitTypeOK, Commit
  <2> QED BY <1>10, <2>1 DEF ForeignPush, GitTypeOK, upstream, clone
<1>11. ASSUME NEW p \in Patch, CommitFix(p) PROVE GitTypeOK'
  <2>1. [head EXCEPT !.fixes = @ \cup {p}] \in Commit BY <1>0 DEF Commit
  <2> QED BY <1>11, <2>1 DEF CommitFix, GitTypeOK, upstream, fork
<1>12. CASE (\E w \in {"tracked", "untracked"} : LeaveWork(w)) \/ TidyUp
  BY <1>12 DEF LeaveWork, TidyUp, GitTypeOK, upstream, fork, Work
<1>13. CASE SwitchToTopic
  BY <1>0, <1>13 DEF SwitchToTopic, GitTypeOK, upstream, fork, Branch
<1>14. CASE SwitchBack
  BY <1>0, <1>14 DEF SwitchBack, GitTypeOK, upstream, fork, Branch
<1>15. CASE FinishRebase
  <2>1. Replay(tip[on], head.base) \in Commit BY <1>0, ReplayType
  <2> QED BY <1>15, <2>1 DEF FinishRebase, GitTypeOK, upstream, fork, Work, Rebasing
<1>16. CASE AbortRebase \/ QuitRebase
  BY <1>0, <1>16
     DEF AbortRebase, QuitRebase, GitTypeOK, upstream, fork, Work, Rebasing
<1>17. CASE FetchOrigin
  BY <1>17 DEF FetchOrigin, GitTypeOK, upstream
<1>18. CASE ResetHard
  BY <1>0, <1>18 DEF ResetHard, GitTypeOK, upstream, fork, Work, Rebasing
<1> QED
  BY <1>1, <1>2, <1>3, <1>4, <1>5, <1>6, <1>6a, <1>6b, <1>7, <1>8, <1>9, <1>10, <1>11,
     <1>12, <1>13, <1>14, <1>15, <1>16, <1>17, <1>18 DEF GitStep, QuietStep

-----------------------------------------------------------------------------
\* Nothing in the clone is ahead of what was fetched, nor that of upstream;
\* HEAD is the tip of the branch checked out, or detached on the way of a
\* rebase onto something at least as new.
GitInv ==
  /\ \A p \in Patch : mergedAt[p] <= rev
  /\ upRef.base <= rev
  /\ head.base <= upRef.base
  /\ \A b \in Branch : tip[b].base <= upRef.base
  /\ ~Detached => head = tip[on]
  /\ Detached => tip[on].base <= head.base

LEMMA GitInvInit == ASSUME GitInit PROVE GitInv
BY MaxRevAssumption DEF GitInit, GitInv, Up, Branch, Detached

LEMMA GitInvStep == ASSUME GitTypeOK, GitInv, GitStep PROVE GitInv'
<1> USE DEF Detached
<1>0. /\ rev \in Nat /\ head \in Commit /\ upRef \in Commit /\ on \in Branch
      /\ tip["branch"] \in Commit /\ tip["topic"] \in Commit /\ tip[on] \in Commit
      /\ head.base \in Nat /\ upRef.base \in Nat
      /\ tip["branch"].base \in Nat /\ tip["topic"].base \in Nat
      /\ \A p \in Patch : mergedAt[p] \in Nat
  BY MaxRevAssumption DEF GitTypeOK, Commit, Branch
<1>1. CASE FetchUpstream
  <2>1. upRef'.base = rev BY <1>1 DEF FetchUpstream, Up
  <2>2. \A b \in Branch : tip[b].base <= rev
    BY <1>0 DEF GitInv, Branch
  <2> QED BY <1>0, <1>1, <2>1, <2>2 DEF FetchUpstream, GitInv, upstream, fork
<1>2. CASE CheckoutBranch
  BY <1>0, <1>2 DEF CheckoutBranch, GitInv, upstream, fork, Branch
<1>3. CASE UNCHANGED gitVars
  BY <1>3 DEF gitVars, GitInv, upstream, fork, clone
<1>4. CASE CheckoutRefused \/ RebaseRefused \/ PushRejected
  BY <1>3, <1>4 DEF CheckoutRefused, RebaseRefused, PushRejected
<1>5. CASE RebaseOk
  <2>1. Replay(head, upRef.base).base = upRef.base BY DEF Replay
  <2>2. \A b \in Branch : tip'[b] = IF b = on THEN head' ELSE tip[b]
    BY <1>5 DEF RebaseOk, GitTypeOK
  <2>3. head'.base = upRef.base BY <1>5, <2>1 DEF RebaseOk
  <2> QED
    BY <1>0, <1>5, <2>2, <2>3 DEF RebaseOk, CanRebase, GitInv, upstream, fork
<1>6. CASE RebaseConflict
  <2>1. head'.base = upRef.base BY <1>6 DEF RebaseConflict, Replay
  <2> QED BY <1>0, <1>6, <2>1 DEF RebaseConflict, GitInv, upstream, fork
<1>6a. CASE RebaseKilled
  <2>1. CASE KilledHalfWay
    <3>1. head'.base = upRef.base BY <2>1 DEF KilledHalfWay, Replay
    <3> QED BY <1>0, <1>6a, <2>1, <3>1 DEF RebaseKilled, KilledHalfWay, GitInv, upstream, fork
  <2>2. CASE KilledAtTheEnds
    <3>1. ~Detached /\ head = tip[on] BY <1>6a DEF RebaseKilled, CanRebase, GitInv
    <3>2. CASE UNCHANGED <<tip, head>>
      BY <1>0, <1>6a, <2>2, <3>1, <3>2 DEF RebaseKilled, KilledAtTheEnds, GitInv, upstream, fork
    <3>3. CASE /\ head' = Replay(head, upRef.base)
               /\ tip' = [tip EXCEPT ![on] = Replay(head, upRef.base)]
      <4>1. head'.base = upRef.base BY <3>3 DEF Replay
      <4>2. \A b \in Branch : tip'[b] = IF b = on THEN head' ELSE tip[b]
        BY <3>3 DEF GitTypeOK
      <4> QED
        BY <1>0, <1>6a, <2>2, <4>1, <4>2 DEF RebaseKilled, KilledAtTheEnds, GitInv, upstream, fork
    <3> QED BY <2>2, <3>2, <3>3 DEF KilledAtTheEnds
  <2> QED BY <1>6a, <2>1, <2>2 DEF RebaseKilled
<1>6b. CASE TreeHalfWritten
  BY <1>6b DEF TreeHalfWritten, GitInv, upstream, fork
<1>7. CASE ForcePushWithLease \/ PushAnswerLost \/ FetchOrigin
  BY <1>7 DEF ForcePushWithLease, PushAnswerLost, FetchOrigin, GitInv, upstream
<1>9. CASE UpstreamAdvance
  <2>1. PICK M \in SUBSET Patch :
          mergedAt' = [p \in Patch |-> IF p \in M THEN rev + 1 ELSE mergedAt[p]]
    BY <1>9 DEF UpstreamAdvance
  <2>2. \A p \in Patch : mergedAt'[p] <= rev + 1 BY <1>0, <2>1 DEF GitInv
  <2> QED BY <1>0, <1>9, <2>2 DEF UpstreamAdvance, GitInv, fork, clone
<1>10. ASSUME NEW p \in Patch, ForeignPush(p) PROVE GitInv'
  BY <1>10 DEF ForeignPush, GitInv, upstream, clone
<1>11. ASSUME NEW p \in Patch, CommitFix(p) PROVE GitInv'
  <2>1. head' = [head EXCEPT !.fixes = @ \cup {p}] /\ tip' = [tip EXCEPT ![on] = head']
    BY <1>11 DEF CommitFix
  <2>2. head'.base = head.base BY <1>0, <2>1 DEF Commit
  <2>3. \A b \in Branch : tip'[b] = IF b = on THEN head' ELSE tip[b]
    BY <2>1 DEF GitTypeOK
  <2> QED BY <1>0, <1>11, <2>2, <2>3 DEF CommitFix, GitInv, upstream, fork
<1>12. CASE (\E w \in {"tracked", "untracked"} : LeaveWork(w)) \/ TidyUp
  BY <1>12 DEF LeaveWork, TidyUp, GitInv, upstream, fork
<1>13. CASE SwitchToTopic
  <2>1. PICK c \in {tip["branch"], tip["topic"]} :
          head' = c /\ tip' = [tip EXCEPT !["topic"] = c]
    BY <1>13 DEF SwitchToTopic
  <2>2. tip'["topic"] = c /\ tip'["branch"] = tip["branch"]
    BY <2>1 DEF GitTypeOK, Branch
  <2> QED
    BY <1>0, <1>13, <2>1, <2>2 DEF SwitchToTopic, GitInv, upstream, fork, Branch
<1>14. CASE SwitchBack
  BY <1>0, <1>14 DEF SwitchBack, GitInv, upstream, fork, Branch
<1>15. CASE FinishRebase
  <2>1. head'.base = head.base BY <1>15 DEF FinishRebase, Replay
  <2>2. \A b \in Branch : tip'[b] = IF b = on THEN head' ELSE tip[b]
    BY <1>15 DEF FinishRebase, GitTypeOK
  <2> QED BY <1>0, <1>15, <2>1, <2>2 DEF FinishRebase, GitInv, upstream, fork
<1>16. CASE AbortRebase \/ QuitRebase
  BY <1>0, <1>16 DEF AbortRebase, QuitRebase, GitInv, upstream, fork
<1>17. CASE ResetHard
  <2>1. \A b \in Branch : tip'[b] \in {tip[b], upRef}
    BY <1>17 DEF ResetHard, GitTypeOK
  <2>2. ~Detached => tip'[on] = upRef BY <1>0, <1>17 DEF ResetHard, GitTypeOK
  <2> QED BY <1>0, <1>17, <2>1, <2>2 DEF ResetHard, GitInv, upstream, fork
<1> QED
  BY <1>1, <1>2, <1>3, <1>4, <1>5, <1>6, <1>6a, <1>6b, <1>7, <1>9, <1>10, <1>11, <1>12,
     <1>13, <1>14, <1>15, <1>16, <1>17 DEF GitStep, QuietStep

\* Only reset --hard takes content away from the branch.
LEMMA QuietStepKeeps ==
  ASSUME GitTypeOK, GitInv, QuietStep
  PROVE  Content(tip["branch"]) \subseteq Content(tip["branch"])'
<1>0. /\ rev \in Nat /\ head \in Commit /\ upRef \in Commit /\ on \in Branch
      /\ tip["branch"] \in Commit /\ tip["topic"] \in Commit /\ tip[on] \in Commit
      /\ head.base \in 1..MaxRev /\ upRef.base \in 1..MaxRev
      /\ tip["branch"].base \in 1..MaxRev
      /\ \A p \in Patch : mergedAt[p] \in Nat
  BY MaxRevAssumption DEF GitTypeOK, Commit, Branch
<1>1. ASSUME tip'["branch"] = tip["branch"], mergedAt' = mergedAt
      PROVE  Content(tip["branch"]) \subseteq Content(tip["branch"])'
  BY <1>1 DEF Content, MergedBy
<1>2. CASE \/ FetchUpstream \/ CheckoutBranch \/ RebaseConflict
           \/ ForcePushWithLease \/ PushAnswerLost \/ TidyUp \/ SwitchBack
           \/ AbortRebase \/ QuitRebase \/ TreeHalfWritten \/ FetchOrigin
           \/ UNCHANGED gitVars
  BY <1>1, <1>2 DEF FetchUpstream, CheckoutBranch, RebaseConflict,
     ForcePushWithLease, PushAnswerLost, TidyUp, SwitchBack, AbortRebase,
     QuitRebase, TreeHalfWritten, FetchOrigin, gitVars, upstream, fork, clone
<1>3. CASE CheckoutRefused \/ RebaseRefused \/ PushRejected
  BY <1>2, <1>3 DEF CheckoutRefused, RebaseRefused, PushRejected
<1>4. CASE \E w \in {"tracked", "untracked"} : LeaveWork(w)
  BY <1>1, <1>4 DEF LeaveWork, upstream
<1>5. CASE \E p \in Patch : ForeignPush(p)
  BY <1>1, <1>5 DEF ForeignPush, upstream, clone
<1>6. CASE SwitchToTopic
  BY <1>1, <1>6 DEF SwitchToTopic, upstream, GitTypeOK, Branch
<1>7. CASE RebaseOk \/ RebaseKilled
  <2>1. \/ tip'["branch"] = tip["branch"]
        \/ on = "branch" /\ tip'["branch"] = Replay(head, upRef.base)
    BY <1>7 DEF RebaseOk, RebaseKilled, KilledHalfWay, KilledAtTheEnds, GitTypeOK, Branch
  <2>2. mergedAt' = mergedAt BY <1>7 DEF RebaseOk, RebaseKilled, upstream
  <2>3. on = "branch" => head = tip["branch"]
    BY <1>7 DEF RebaseOk, RebaseKilled, CanRebase, GitInv, Detached
  <2>4. Content(head) \subseteq Content(Replay(head, upRef.base))
    BY <1>0, ReplayContent DEF GitInv
  <2> QED BY <2>1, <2>2, <2>3, <2>4 DEF Content, MergedBy
<1>8. CASE FinishRebase
  <2>1. tip'["branch"] = IF on = "branch" THEN Replay(tip[on], head.base)
                         ELSE tip["branch"]
    BY <1>8 DEF FinishRebase, GitTypeOK, Branch
  <2>2. mergedAt' = mergedAt BY <1>8 DEF FinishRebase, upstream
  <2>3. tip[on].base <= head.base BY <1>8 DEF FinishRebase, Detached, GitInv
  <2>4. Content(tip[on]) \subseteq Content(Replay(tip[on], head.base))
    BY <1>0, <2>3, ReplayContent
  <2> QED BY <2>1, <2>2, <2>4 DEF Content, MergedBy
<1>9. ASSUME NEW p \in Patch, CommitFix(p)
      PROVE  Content(tip["branch"]) \subseteq Content(tip["branch"])'
  <2>1. head' = [head EXCEPT !.fixes = @ \cup {p}] /\ tip' = [tip EXCEPT ![on] = head']
    BY <1>9 DEF CommitFix
  <2>2. head'.base = head.base /\ head.fixes \subseteq head'.fixes
    BY <1>0, <2>1 DEF Commit
  <2>3. tip'["branch"] = IF on = "branch" THEN head' ELSE tip["branch"]
    BY <2>1 DEF GitTypeOK, Branch
  <2>4. on = "branch" => head = tip["branch"] BY <1>9 DEF CommitFix, GitInv
  <2>5. mergedAt' = mergedAt BY <1>9 DEF CommitFix, upstream
  <2> QED BY <2>2, <2>3, <2>4, <2>5 DEF Content, MergedBy
<1>10. CASE UpstreamAdvance
  <2>1. PICK M \in SUBSET {p \in Patch : mergedAt[p] = 0} :
          mergedAt' = [p \in Patch |-> IF p \in M THEN rev + 1 ELSE mergedAt[p]]
    BY <1>10 DEF UpstreamAdvance
  <2>2. tip' = tip BY <1>10 DEF UpstreamAdvance, clone
  <2>3. \A p \in Patch : mergedAt[p] # 0 => mergedAt'[p] = mergedAt[p]
    BY <2>1
  <2> QED BY <1>0, <2>2, <2>3 DEF Content, MergedBy
<1> QED
  BY <1>2, <1>3, <1>4, <1>5, <1>6, <1>7, <1>8, <1>9, <1>10 DEF QuietStep

-----------------------------------------------------------------------------
\* What others pushed is on the fork, and none of it in what was last seen.
ForeignInv == foreign \subseteq origin.fixes /\ foreign \cap orRef.fixes = {}

LEMMA ForeignInit == ASSUME GitInit PROVE ForeignInv
BY DEF GitInit, ForeignInv, Up

\* With the lease a push finds nothing foreign to overwrite.
LEMMA LeaseProtects ==
  ASSUME ForeignInv, LeaseHolds PROVE foreign \ tip["branch"].fixes = {}
BY DEF ForeignInv, LeaseHolds

LEMMA ForeignStep == ASSUME GitTypeOK, ForeignInv, GitStep PROVE ForeignInv'
<1>1. CASE ForcePushWithLease \/ PushAnswerLost
  BY <1>1, LeaseProtects DEF ForcePushWithLease, PushAnswerLost, ForeignInv
<1>2. CASE FetchOrigin
  BY <1>2 DEF FetchOrigin, ForeignInv
<1>3. ASSUME NEW p \in Patch, ForeignPush(p) PROVE ForeignInv'
  <2>1. origin'.fixes = origin.fixes \cup {p}
    BY <1>3 DEF ForeignPush, GitTypeOK, Commit
  <2>2. p \notin orRef.fixes BY <1>3 DEF ForeignPush
  <2> QED BY <1>3, <2>1, <2>2 DEF ForeignPush, ForeignInv, clone
<1>4. CASE UNCHANGED <<fork, orRef>>
  BY <1>4 DEF ForeignInv, fork
<1> QED
  BY <1>1, <1>2, <1>3, <1>4 DEF GitStep, QuietStep, FetchUpstream,
     CheckoutBranch, CheckoutRefused, RebaseOk, RebaseConflict, RebaseKilled,
     RebaseRefused, TreeHalfWritten, PushRejected, UpstreamAdvance, CommitFix,
     LeaveWork, TidyUp, SwitchToTopic, SwitchBack, FinishRebase, AbortRebase,
     QuitRebase, ResetHard, gitVars, clone
=============================================================================
