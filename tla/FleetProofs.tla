---------------------------- MODULE FleetProofs ----------------------------
(* Theorems about Fleet for any registry, any number of programs and any    *)
(* number of failures.                                                      *)
EXTENDS Fleet, NaturalSets

Resting == {"idle", "returned", "raised"}
Syncing == {"compare", "reset", "push", "bump", "install"}
Looking == {"look", "repo", "head"}
Steps   == Resting \cup Syncing \cup Looking

\* A pass under way has an entry in hand, and only a program that syncs is
\* ever found between the steps of auto-sync.
PassOK(p) ==
  /\ pass[p].pc \notin Resting => pass[p].todo # {}
  /\ pass[p].pc \in Syncing => "auto" \in Does[p]

PassesOK == \A p \in Consumers : PassOK(p)

-----------------------------------------------------------------------------
(* The helpers *)

LEMMA StepNames == Pass = [pc : Steps, entries : [Sources -> Revs],
                           todo : SUBSET Sources, ok : SUBSET Sources, bad : SUBSET Sources]
BY DEF Pass, Steps, Resting, Syncing, Looking

LEMMA BecomeEffect ==
  ASSUME FleetTypeOK, NEW p \in Consumers, NEW r \in Pass, Become(p, r)
  PROVE  /\ pass' \in [Consumers -> Pass] /\ pass'[p] = r
         /\ \A q \in Consumers \ {p} : pass'[q] = pass[q]
BY DEF Become, FleetTypeOK

\* What a step does to the passes: its own goes to one of `to` and is in
\* order there, the others' stay.
Moves(p, to) ==
  /\ pass' \in [Consumers -> Pass]
  /\ \A q \in Consumers \ {p} : pass'[q] = pass[q]
  /\ pass'[p].pc \in to
  /\ pass'[p].pc \notin Resting => pass'[p].todo # {}

\* The entry in hand is one of the registry's.
LEMMA ThisIsSource ==
  ASSUME FleetTypeOK, PassesOK, NEW p \in Consumers, pass[p].pc \notin Resting
  PROVE  This(p) \in Sources /\ This(p) \in pass[p].todo
<1>1. pass[p].todo \in SUBSET Sources /\ pass[p].todo # {}
  BY DEF FleetTypeOK, Pass, PassesOK, PassOK
<1>2. pass[p].todo \in SUBSET Nat BY <1>1, FleetAssumption
<1> QED BY <1>1, <1>2, MinIsIn DEF This

LEMMA GotoEffect ==
  ASSUME FleetTypeOK, PassesOK, NEW p \in Consumers, pass[p].pc \notin Resting,
         NEW l \in Steps, Goto(p, l)
  PROVE  Moves(p, {l}) /\ pass'[p].todo = pass[p].todo
<1> DEFINE r == [pass[p] EXCEPT !.pc = l]
<1>1. pass[p] \in Pass /\ pass[p].todo # {} BY DEF FleetTypeOK, PassesOK, PassOK
<1>2. r \in Pass /\ r.pc = l /\ r.todo = pass[p].todo BY <1>1, StepNames
<1>3. Become(p, r) BY DEF Goto
<1> QED BY <1>1, <1>2, <1>3, BecomeEffect DEF Moves

LEMMA GoEffect ==
  ASSUME FleetTypeOK, NEW p \in Consumers, NEW l \in Steps, NEW r \in Pass, Go(p, l, r)
  PROVE  Moves(p, {l, "returned"})
<1> DEFINE rest == pass[p].todo \ {This(p)}
           pc   == IF rest = {} THEN "returned" ELSE l
           r2   == [r EXCEPT !.todo = rest, !.pc = pc]
<1>1. rest \in SUBSET Sources BY DEF FleetTypeOK, Pass
<1>2. pc \in Steps /\ pc \in {l, "returned"} /\ (pc # "returned" => rest # {})
  BY DEF Steps, Resting
<1>3. Become(p, r2) BY DEF Go
<1> HIDE DEF rest, pc
<1>4. r2 \in Pass /\ r2.pc = pc /\ r2.todo = rest BY <1>1, <1>2, StepNames
<1> QED BY <1>2, <1>3, <1>4, BecomeEffect DEF Moves, Resting

LEMMA ThroughEffect ==
  ASSUME FleetTypeOK, NEW p \in Consumers, Through(p)
  PROVE  Moves(p, {"compare", "returned"})
<1>1. pass[p] \in Pass /\ "compare" \in Steps BY DEF FleetTypeOK, Steps, Syncing
<1> QED BY <1>1, GoEffect DEF Through

LEMMA VerdictEffect ==
  ASSUME FleetTypeOK, PassesOK, NEW p \in Consumers, pass[p].pc \notin Resting,
         NEW ok, Verdict(p, ok)
  PROVE  Moves(p, {"look", "returned"})
<1> DEFINE good == [pass[p] EXCEPT !.ok  = @ \cup {This(p)}]
           bad  == [pass[p] EXCEPT !.bad = @ \cup {This(p)}]
           r    == IF ok THEN good ELSE bad
<1>1. pass[p] \in Pass /\ "look" \in Steps BY DEF FleetTypeOK, Steps, Looking
<1>2. This(p) \in Sources BY ThisIsSource
<1>3. good \in Pass BY <1>1, <1>2 DEF Pass
<1>4. bad \in Pass BY <1>1, <1>2 DEF Pass
<1>5. r \in Pass BY <1>3, <1>4
<1>6. Go(p, "look", r) BY DEF Verdict
<1> QED BY <1>1, <1>5, <1>6, GoEffect

LEMMA RaiseEffect ==
  ASSUME FleetTypeOK, NEW p \in Consumers, Raise(p)
  PROVE  Moves(p, {"raised"})
<1> DEFINE r == [NoPass(pass[p].entries) EXCEPT !.pc = "raised"]
<1>1. r \in Pass /\ r.pc = "raised" BY DEF FleetTypeOK, Pass, NoPass
<1>2. Become(p, r) BY DEF Raise
<1> QED BY <1>1, <1>2, BecomeEffect DEF Moves, Resting

-----------------------------------------------------------------------------
(* The invariant *)

\* The fork has nothing its clone's HEAD has not, HEAD nothing that was not
\* fetched, and what was fetched is upstream's.
InOrder(s) ==
  fork[s] <= clone[s].head /\ clone[s].head <= clone[s].ref /\ clone[s].ref <= rev[s]

\* When bump reads HEAD, the fork has it: this is what the order of reset,
\* push and bump is for.
PushedHead == \A p \in Consumers : At(p, "bump") => clone[This(p)].head = fork[This(p)]

FleetInv ==
  /\ FleetTypeOK /\ PassesOK
  /\ \A s \in Sources : InOrder(s)

\* auto-sync is never run by two programs at a time.
OneSyncer == \A p, q \in Consumers : "auto" \in Does[p] \cap Does[q] => p = q

\* One step of the promise, or none, for each source.
PromiseKept == \A s \in Sources : [Promise(s)!Next]_<<rev[s], fork[s], pins[s]>>

\* What every step has to do.  That bump finds its commit in the fork takes a
\* single syncer: a second one resets the clone between the first's push and
\* its bump.
Kept ==
  /\ FleetInv'
  /\ OneSyncer /\ PushedHead => PushedHead' /\ PromiseKept

LEMMA PassesKept ==
  ASSUME PassesOK, NEW p \in Consumers, NEW to, Moves(p, to),
         to \cap Syncing # {} => "auto" \in Does[p]
  PROVE  PassesOK'
BY DEF PassesOK, PassOK, Moves

LEMMA WorldTypes ==
  ASSUME FleetTypeOK
  PROVE  /\ \A s \in Sources : /\ rev[s] \in Revs /\ fork[s] \in Revs /\ pins[s] \in Revs
                               /\ clone[s] \in Clone /\ built[s] \in Build
         /\ \A r \in Revs : r \in Nat
BY FleetAssumption DEF FleetTypeOK, Revs

LEMMA FaultType ==
  ASSUME FleetTypeOK, Fault \/ Quiet PROVE faults' \in 0..MaxFaults
BY FleetAssumption DEF FleetTypeOK, Fault, Quiet

\* A step that moves nothing in the world, whatever it tells the pass.
LEMMA StillKeeps ==
  ASSUME FleetInv, NEW p \in Consumers, NEW to, Moves(p, to), "bump" \notin to,
         to \cap Syncing # {} => "auto" \in Does[p],
         UNCHANGED <<rev, fork, clone, pins, patched>>,
         built' \in [Sources -> Build], Fault \/ Quiet
  PROVE  Kept
<1>1. FleetTypeOK' BY FaultType DEF FleetInv, FleetTypeOK, Moves
<1>2. PassesOK' BY PassesKept DEF FleetInv
<1>3. \A s \in Sources : InOrder(s)' BY DEF FleetInv, InOrder
<1>4. PushedHead => PushedHead' BY DEF PushedHead, Moves, At, This
<1>5. PromiseKept BY DEF PromiseKept
<1> QED BY <1>1, <1>2, <1>3, <1>4, <1>5 DEF FleetInv, Kept

LEMMA GitFailsEffect ==
  ASSUME FleetInv, NEW p \in Consumers, GitFails(p)
  PROVE  Moves(p, {"compare", "returned", "raised"}) /\ Fault
BY ThroughEffect, RaiseEffect DEF GitFails, FleetInv, Moves

\* While one program is in auto-sync no other is.
LEMMA OneAtATime ==
  ASSUME OneSyncer, PassesOK, NEW p \in Consumers, pass[p].pc \in Syncing,
         NEW q \in Consumers \ {p}
  PROVE  pass[q].pc \notin Syncing
BY FleetAssumption DEF OneSyncer, PassesOK, PassOK

\* A step of auto-sync that changes the world, and then goes on, gives up
\* the entry or raises.
LEMMA SyncKeeps ==
  ASSUME FleetInv, NEW p \in Consumers, pass[p].pc \in Syncing,
         NEW to, Moves(p, to), Fault \/ Quiet, patched' = patched,
         rev' = rev, fork' \in [Sources -> Revs], pins' \in [Sources -> Revs],
         clone' \in [Sources -> Clone], built' \in [Sources -> Build],
         \A s \in Sources : InOrder(s)',
         At(p, "bump")' => (clone[This(p)].head = fork[This(p)])'
  PROVE  FleetInv' /\ (OneSyncer => PushedHead')
<1>1. FleetTypeOK' BY FaultType DEF FleetInv, FleetTypeOK, Moves
<1>2. PassesOK'
  BY PassesKept DEF FleetInv, PassesOK, PassOK
<1>3. ASSUME OneSyncer, NEW q \in Consumers \ {p} PROVE ~At(q, "bump")'
  BY <1>3, OneAtATime DEF FleetInv, Moves, At, Syncing
<1> QED BY <1>1, <1>2, <1>3 DEF FleetInv, PushedHead

LEMMA CompareKeeps ==
  ASSUME FleetInv, NEW p \in Consumers, Compare(p)
  PROVE  Kept
<1>1. PICK s \in Sources : s = This(p)
  BY ThisIsSource DEF FleetInv, Compare, At, Resting
<1> pass[p].pc \in Syncing /\ pass[p].pc \notin Resting
  BY DEF Compare, At, Resting, Syncing
<1>2. UNCHANGED <<rev, fork, pins, built, patched>> BY DEF Compare
<1>3. \E to \in {{"compare", "returned"}, {"reset"}, {"compare", "returned", "raised"}} :
        Moves(p, to) /\ (Fault \/ Quiet)
  <2>1. Goto(p, "reset") => Moves(p, {"reset"})
    BY GotoEffect DEF FleetInv, Steps, Syncing
  <2> QED BY <2>1, ThroughEffect, GitFailsEffect DEF Compare, FleetInv
<1>4. clone' = clone \/ clone' = [clone EXCEPT ![s].ref = rev[s]] BY <1>1 DEF Compare
<1>5. clone' \in [Sources -> Clone] /\ \A t \in Sources : InOrder(t)'
  <2>1. CASE clone' = clone BY <1>2, <2>1 DEF FleetInv, FleetTypeOK, InOrder
  <2>2. CASE clone' = [clone EXCEPT ![s].ref = rev[s]]
    <3> DEFINE c == [clone[s] EXCEPT !.ref = rev[s]]
    <3>1. c \in Clone /\ c.head = clone[s].head /\ c.ref = rev[s]
      BY <1>1, WorldTypes DEF FleetInv, Clone
    <3>2. /\ clone' \in [Sources -> Clone] /\ clone'[s] = c
          /\ \A t \in Sources \ {s} : clone'[t] = clone[t]
      BY <1>1, <2>2, <3>1 DEF FleetInv, FleetTypeOK
    <3>3. /\ rev[s] \in Nat /\ clone[s].head \in Nat /\ clone[s].ref \in Nat
          /\ InOrder(s)
      BY <1>1, WorldTypes DEF FleetInv, Clone
    <3>4. InOrder(s)' BY <1>2, <3>1, <3>2, <3>3 DEF InOrder
    <3> QED BY <1>2, <3>2, <3>4 DEF FleetInv, InOrder
  <2> QED BY <1>4, <2>1, <2>2
<1>6. ~At(p, "bump")' BY <1>3 DEF Moves, At
<1>7. FleetInv' /\ (OneSyncer => PushedHead')
  BY <1>2, <1>3, <1>5, <1>6, SyncKeeps DEF FleetInv, FleetTypeOK
<1> QED BY <1>2, <1>7 DEF PromiseKept, Kept

LEMMA ResetKeeps ==
  ASSUME FleetInv, NEW p \in Consumers, Reset(p)
  PROVE  Kept
<1>1. PICK s \in Sources : s = This(p)
  BY ThisIsSource DEF FleetInv, Reset, At, Resting
<1> pass[p].pc \in Syncing /\ pass[p].pc \notin Resting
  BY DEF Reset, At, Resting, Syncing
<1>2. UNCHANGED <<rev, fork, pins, built, patched>> BY DEF Reset
<1>3. \E to \in {{"compare", "returned"}, {"push"}, {"compare", "returned", "raised"}} :
        Moves(p, to) /\ (Fault \/ Quiet)
  <2>1. Goto(p, "push") => Moves(p, {"push"})
    BY GotoEffect DEF FleetInv, Steps, Syncing
  <2> QED BY <2>1, ThroughEffect, GitFailsEffect DEF Reset, FleetInv
<1>4. clone' = clone \/ clone' = [clone EXCEPT ![s].head = clone[s].ref]
  BY <1>1 DEF Reset, Here
<1>5. clone' \in [Sources -> Clone] /\ \A t \in Sources : InOrder(t)'
  <2>1. CASE clone' = clone BY <1>2, <2>1 DEF FleetInv, FleetTypeOK, InOrder
  <2>2. CASE clone' = [clone EXCEPT ![s].head = clone[s].ref]
    <3> DEFINE c == [clone[s] EXCEPT !.head = clone[s].ref]
    <3>1. c \in Clone /\ c.head = clone[s].ref /\ c.ref = clone[s].ref
      BY <1>1, WorldTypes DEF FleetInv, Clone
    <3>2. /\ clone' \in [Sources -> Clone] /\ clone'[s] = c
          /\ \A t \in Sources \ {s} : clone'[t] = clone[t]
      BY <1>1, <2>2, <3>1 DEF FleetInv, FleetTypeOK
    <3>3. /\ fork[s] \in Nat /\ clone[s].head \in Nat /\ clone[s].ref \in Nat
          /\ InOrder(s)
      BY <1>1, WorldTypes DEF FleetInv, Clone
    <3>4. InOrder(s)' BY <1>2, <3>1, <3>2, <3>3 DEF InOrder
    <3> QED BY <1>2, <3>2, <3>4 DEF FleetInv, InOrder
  <2> QED BY <1>4, <2>1, <2>2
<1>6. ~At(p, "bump")' BY <1>3 DEF Moves, At
<1>7. FleetInv' /\ (OneSyncer => PushedHead')
  BY <1>2, <1>3, <1>5, <1>6, SyncKeeps DEF FleetInv, FleetTypeOK
<1> QED BY <1>2, <1>7 DEF PromiseKept, Kept

\* The push is the promise's Publish, or nothing when the fork is there.
LEMMA PublishOrStay ==
  ASSUME NEW s \in Sources, rev[s] \in Nat, fork[s] \in Nat, fork'[s] \in Nat,
         fork[s] <= fork'[s], fork'[s] <= rev[s], UNCHANGED <<rev, pins>>
  PROVE  [Promise(s)!Next]_<<rev[s], fork[s], pins[s]>>
BY DEF Promise!Next, Promise!Publish

LEMMA PushKeeps ==
  ASSUME FleetInv, NEW p \in Consumers, Push(p)
  PROVE  Kept
<1>1. PICK s \in Sources : s = This(p)
  BY ThisIsSource DEF FleetInv, Push, At, Resting
<1> pass[p].pc \in Syncing /\ pass[p].pc \notin Resting
  BY DEF Push, At, Resting, Syncing
<1>2. UNCHANGED <<rev, pins, built, patched>> BY DEF Push
<1>3. /\ fork[s] \in Nat /\ clone[s].head \in Revs /\ clone[s].head \in Nat
      /\ clone[s].ref \in Nat /\ rev[s] \in Nat /\ InOrder(s)
  BY <1>1, WorldTypes DEF FleetInv, Clone
\* The server took it: the fork is where HEAD is, whether the clone hears of
\* it or not.
<1>4. ASSUME fork' = [fork EXCEPT ![s] = clone[s].head],
             clone' \in [Sources -> Clone],
             \A t \in Sources : clone'[t].head = clone[t].head /\ clone'[t].ref = clone[t].ref,
             NEW to, Moves(p, to), Fault \/ Quiet, At(p, "bump")' => This(p)' = s
      PROVE  Kept
  <2>1. /\ fork' \in [Sources -> Revs] /\ fork'[s] = clone[s].head
        /\ \A t \in Sources \ {s} : fork'[t] = fork[t]
    BY <1>1, <1>3, <1>4 DEF FleetInv, FleetTypeOK
  <2>2. \A t \in Sources : InOrder(t)'
    BY <1>2, <1>3, <1>4, <2>1 DEF FleetInv, InOrder
  <2>3. At(p, "bump")' => (clone[This(p)].head = fork[This(p)])'
    BY <1>4, <2>1
  <2>4. FleetInv' /\ (OneSyncer => PushedHead')
    BY <1>2, <1>4, <2>1, <2>2, <2>3, SyncKeeps DEF FleetInv, FleetTypeOK
  <2>5. [Promise(s)!Next]_<<rev[s], fork[s], pins[s]>>
    BY <1>2, <1>3, <2>1, PublishOrStay DEF InOrder
  <2>6. PromiseKept BY <1>2, <2>1, <2>5 DEF PromiseKept
  <2> QED BY <2>4, <2>6 DEF Kept
<1>5. CASE /\ fork' = [fork EXCEPT ![s] = clone[s].head]
           /\ clone' = [clone EXCEPT ![s].seen = clone[s].head]
           /\ Goto(p, "bump") /\ Quiet
  <2> DEFINE c == [clone[s] EXCEPT !.seen = clone[s].head]
  <2>1. c \in Clone /\ c.head = clone[s].head /\ c.ref = clone[s].ref
    BY <1>1, <1>3, WorldTypes DEF FleetInv, Clone
  <2>2. /\ clone' \in [Sources -> Clone] /\ clone'[s] = c
        /\ \A t \in Sources \ {s} : clone'[t] = clone[t]
    BY <1>1, <1>5, <2>1 DEF FleetInv, FleetTypeOK
  <2>3. Moves(p, {"bump"}) /\ This(p)' = s
    BY <1>1, <1>5, GotoEffect DEF FleetInv, Steps, Syncing, This
  <2> HIDE DEF c
  <2> QED BY <1>4, <1>5, <2>1, <2>2, <2>3
<1>6. CASE /\ fork' = [fork EXCEPT ![s] = clone[s].head]
           /\ clone' = clone /\ GitFails(p)
  <2>1. Moves(p, {"compare", "returned", "raised"}) /\ Fault
    BY <1>6, GitFailsEffect
  <2>2. ~At(p, "bump")' BY <2>1 DEF Moves, At
  <2>3. clone' \in [Sources -> Clone] BY <1>6 DEF FleetInv, FleetTypeOK
  <2> QED BY <1>4, <1>6, <2>1, <2>2, <2>3
<1>7. CASE fork' = fork /\ clone' = clone /\ ((Through(p) /\ Quiet) \/ GitFails(p))
  <2>1. Moves(p, {"compare", "returned", "raised"}) /\ (Fault \/ Quiet)
    BY <1>7, ThroughEffect, GitFailsEffect DEF FleetInv, Moves
  <2>2. built' \in [Sources -> Build] BY <1>2 DEF FleetInv, FleetTypeOK
  <2>3. "auto" \in Does[p] BY <1>1 DEF FleetInv, PassesOK, PassOK
  <2> QED BY <1>2, <1>7, <2>1, <2>2, <2>3, StillKeeps
<1> QED BY <1>1, <1>5, <1>6, <1>7 DEF Push, Here

\* What bump reads is in the fork: its write is the promise's PinFork.
LEMMA PinOrStay ==
  ASSUME NEW s \in Sources, pins'[s] = fork[s], UNCHANGED <<rev, fork>>
  PROVE  [Promise(s)!Next]_<<rev[s], fork[s], pins[s]>>
BY DEF Promise!Next, Promise!PinFork

LEMMA BumpKeeps ==
  ASSUME FleetInv, NEW p \in Consumers, Bump(p)
  PROVE  Kept
<1>1. PICK s \in Sources : s = This(p)
  BY ThisIsSource DEF FleetInv, Bump, At, Resting
<1> pass[p].pc \in Syncing /\ pass[p].pc \notin Resting
  BY DEF Bump, At, Resting, Syncing
<1>2. UNCHANGED <<rev, fork, clone, built, patched>> BY DEF Bump
<1>3. built \in [Sources -> Build] /\ "auto" \in Does[p]
  BY DEF FleetInv, FleetTypeOK, PassesOK, PassOK
<1>4. CASE pins' = [pins EXCEPT ![s] = clone[s].head] /\ Goto(p, "install") /\ Quiet
  <2>1. /\ pins' \in [Sources -> Revs] /\ pins'[s] = clone[s].head
        /\ \A t \in Sources \ {s} : pins'[t] = pins[t]
    BY <1>1, <1>4, WorldTypes DEF FleetInv, FleetTypeOK, Clone
  <2>2. Moves(p, {"install"})
    BY <1>4, GotoEffect DEF FleetInv, Steps, Syncing
  <2>3. \A t \in Sources : InOrder(t)' BY <1>2 DEF FleetInv, InOrder
  <2>4. FleetInv' /\ (OneSyncer => PushedHead')
    <3>1. ~At(p, "bump")' BY <2>2 DEF Moves, At
    <3> QED BY <1>2, <1>4, <2>1, <2>2, <2>3, <3>1, SyncKeeps DEF FleetInv, FleetTypeOK
  <2>5. PushedHead => [Promise(s)!Next]_<<rev[s], fork[s], pins[s]>>
    <3>1. PushedHead => clone[s].head = fork[s] BY <1>1 DEF PushedHead, Bump
    <3> QED BY <1>2, <2>1, <3>1, PinOrStay
  <2>6. PushedHead => PromiseKept BY <1>2, <2>1, <2>5 DEF PromiseKept
  <2> QED BY <2>4, <2>6 DEF Kept
<1>5. CASE pins' = pins /\ Raise(p) /\ (Fault \/ Quiet)
  BY <1>2, <1>3, <1>5, RaiseEffect, StillKeeps DEF FleetInv
<1> QED BY <1>1, <1>4, <1>5 DEF Bump, Here

LEMMA InstallKeeps ==
  ASSUME FleetInv, NEW p \in Consumers, Install(p)
  PROVE  Kept
<1>1. PICK s \in Sources : s = This(p)
  BY ThisIsSource DEF FleetInv, Install, At, Resting
<1> pass[p].pc \in Syncing BY DEF Install, At, Syncing
<1>2. UNCHANGED <<rev, fork, clone, pins, patched>> BY DEF Install
<1>3. Moves(p, {"compare", "returned", "raised"}) /\ (Fault \/ Quiet)
  BY ThroughEffect, GitFailsEffect DEF Install, FleetInv, Moves
<1>4. built' \in [Sources -> Build]
  <2>1. clone[s].head \in Revs /\ pass[p].entries[s] \in Revs
    BY <1>1, WorldTypes DEF FleetInv, FleetTypeOK, Clone, Pass
  <2>2. \E b \in Build : built' = built \/ built' = [built EXCEPT ![s] = b]
    BY <1>1, <2>1, WorldTypes DEF FleetInv, Install, Here, Pin, Build
  <2> QED BY <2>2 DEF FleetInv, FleetTypeOK
<1>5. "auto" \in Does[p] BY DEF FleetInv, PassesOK, PassOK
<1> QED BY <1>2, <1>3, <1>4, <1>5, StillKeeps

\* A step of verify changes the pass alone.
LEMMA LookingKeeps ==
  ASSUME FleetInv, NEW p \in Consumers, Look(p) \/ Repo(p) \/ ReadHead(p)
  PROVE  Kept
<1> pass[p].pc \in Looking /\ pass[p].pc \notin Resting
  BY DEF Look, Repo, ReadHead, At, Looking, Resting
<1>1. \A l \in Looking : Goto(p, l) => Moves(p, {l})
  BY GotoEffect DEF FleetInv, Steps
<1>2. \A ok \in BOOLEAN : Verdict(p, ok) => Moves(p, {"look", "returned"})
  BY VerdictEffect DEF FleetInv
<1>3. Raise(p) => Moves(p, {"raised"}) BY RaiseEffect DEF FleetInv
<1>4. \E to \in SUBSET (Resting \cup Looking) : Moves(p, to) /\ (Fault \/ Quiet)
  <2>1. Moves(p, Resting \cup Looking)
    <3>1. CASE Look(p)
      <4>1. Goto(p, "repo") \/ \E ok \in BOOLEAN : Verdict(p, ok)
        BY <3>1 DEF Look
      <4> QED BY <1>1, <1>2, <4>1 DEF Moves, Resting, Looking
    <3>2. CASE Repo(p)
      <4>1. Goto(p, "head") \/ Raise(p) \/ \E ok \in BOOLEAN : Verdict(p, ok)
        BY <3>2 DEF Repo
      <4> QED BY <1>1, <1>2, <1>3, <4>1 DEF Moves, Resting, Looking
    <3>3. CASE ReadHead(p)
      <4>1. Raise(p) \/ \E ok \in BOOLEAN : Verdict(p, ok)
        BY <3>3 DEF ReadHead, NoHead
      <4> QED BY <1>2, <1>3, <4>1 DEF Moves, Resting, Looking
    <3> QED BY <3>1, <3>2, <3>3
  <2> QED BY <2>1 DEF Look, Repo, ReadHead
<1>5. UNCHANGED world BY DEF Look, Repo, ReadHead
<1>6. PICK to \in SUBSET (Resting \cup Looking) : Moves(p, to) /\ (Fault \/ Quiet)
  BY <1>4
<1>7. to \cap Syncing = {} /\ "bump" \notin to BY DEF Resting, Looking, Syncing
<1> QED BY <1>5, <1>6, <1>7, StillKeeps DEF world, FleetInv, FleetTypeOK

\* A program builds a facade, starts an operation, or is through with one.
LEMMA FacadeKeeps ==
  ASSUME FleetInv, NEW p \in Consumers,
         \/ Load(p) \/ Finish(p)
         \/ \E op \in Ops, names \in Asked : Start(p, op, names)
  PROVE  Kept
<1>1. UNCHANGED world /\ Quiet /\ built' \in [Sources -> Build]
  BY DEF Load, Finish, Start, world, FleetInv, FleetTypeOK
<1>2. pass[p] \in Pass BY DEF FleetInv, FleetTypeOK
<1>3. CASE Load(p)
  <2> DEFINE r == [pass[p] EXCEPT !.entries = pins]
  <2>1. r \in Pass /\ r.pc = "idle"
    BY <1>2, <1>3 DEF Pass, Load, At, FleetInv, FleetTypeOK
  <2>2. Become(p, r) BY <1>3 DEF Load
  <2>3. Moves(p, {"idle"}) BY <2>1, <2>2, BecomeEffect DEF FleetInv, Moves, Resting
  <2> QED BY <1>1, <2>3, StillKeeps DEF world, Syncing
<1>4. CASE Finish(p)
  <2> DEFINE r == NoPass(pass[p].entries)
  <2>1. r \in Pass /\ r.pc = "idle" BY <1>2 DEF Pass, NoPass
  <2>2. Become(p, r) BY <1>4 DEF Finish
  <2>3. Moves(p, {"idle"}) BY <2>1, <2>2, BecomeEffect DEF FleetInv, Moves, Resting
  <2> QED BY <1>1, <2>3, StillKeeps DEF world, Syncing
<1>5. ASSUME NEW op \in Ops, NEW names \in Asked, Start(p, op, names) PROVE Kept
  <2> DEFINE pc == IF op = "auto" THEN "compare" ELSE "look"
             r  == [pass[p] EXCEPT !.todo = names, !.pc = pc]
  <2>1. names \in SUBSET Sources /\ names # {} BY <1>5, FleetAssumption
  <2>2. pc \in Steps /\ pc # "bump" /\ (pc \in Syncing => op = "auto")
    BY DEF Steps, Syncing, Looking
  <2>3. Become(p, r) /\ op \in Does[p] BY <1>5 DEF Start
  <2> HIDE DEF pc
  <2>4. r \in Pass /\ r.pc = pc /\ r.todo = names BY <1>2, <2>1, <2>2, StepNames
  <2>5. Moves(p, {pc}) BY <2>1, <2>3, <2>4, BecomeEffect DEF FleetInv, Moves
  <2> QED BY <1>1, <2>2, <2>3, <2>5, StillKeeps DEF world
<1> QED BY <1>3, <1>4, <1>5

LEMMA AdvanceOrStay ==
  ASSUME NEW s \in Sources, rev[s] < MaxRev, rev'[s] = rev[s] + 1, UNCHANGED <<fork, pins>>
  PROVE  [Promise(s)!Next]_<<rev[s], fork[s], pins[s]>>
BY DEF Promise!Next, Promise!Advance

LEMMA PeopleKeep ==
  ASSUME FleetInv, People
  PROVE  Kept
<1>1. UNCHANGED <<pass, faults, fork, pins, built>>
  BY DEF People, UpstreamAdvance, Mess, Patch, FetchOrigin
<1>2. PassesOK' BY <1>1 DEF FleetInv, PassesOK, PassOK
<1>3. MaxRev \in Nat /\ {Moving, Messy, Patchy} \subseteq SUBSET Sources
  BY FleetAssumption
<1>4. ASSUME NEW s \in Sources, UpstreamAdvance(s) PROVE Kept
  <2>1. UNCHANGED <<clone, patched>> BY <1>4 DEF UpstreamAdvance
  <2>2. rev[s] \in Revs /\ clone[s].ref \in Nat
    BY WorldTypes DEF FleetInv, Clone
  <2>3. /\ rev' \in [Sources -> Revs] /\ rev'[s] = rev[s] + 1
        /\ \A t \in Sources \ {s} : rev'[t] = rev[t]
    BY <1>3, <1>4, <2>2 DEF UpstreamAdvance, FleetInv, FleetTypeOK, Revs
  <2>4. FleetTypeOK' BY <1>1, <2>1, <2>3 DEF FleetInv, FleetTypeOK
  <2>5. InOrder(s)' BY <1>1, <2>1, <2>2, <2>3 DEF FleetInv, InOrder, Revs
  <2>6. FleetInv' BY <1>1, <1>2, <2>1, <2>3, <2>4, <2>5 DEF FleetInv, InOrder
  <2>7. PushedHead => PushedHead' BY <1>1, <2>1 DEF PushedHead, At, This
  <2>8. [Promise(s)!Next]_<<rev[s], fork[s], pins[s]>>
    BY <1>1, <1>4, <2>3, AdvanceOrStay DEF UpstreamAdvance
  <2>9. PromiseKept BY <1>1, <2>3, <2>8 DEF PromiseKept
  <2> QED BY <2>6, <2>7, <2>9 DEF Kept
<1>5. ASSUME NEW s \in Sources, Mess(s) \/ FetchOrigin(s) PROVE Kept
  <2>1. UNCHANGED <<rev, patched>> BY <1>5 DEF Mess, FetchOrigin
  <2>2. /\ clone[s] \in Clone /\ fork[s] \in Revs /\ rev[s] \in Revs
        /\ fork[s] \in Nat /\ rev[s] \in Nat /\ clone[s].head \in Nat /\ clone[s].ref \in Nat
    BY WorldTypes DEF FleetInv, Clone
  <2>3. PICK c \in Clone :
          /\ clone' = [clone EXCEPT ![s] = c]
          /\ \/ c.head = clone[s].head /\ c.ref = clone[s].ref
             \/ c.head = fork[s] /\ c.ref = rev[s]
    <3> DEFINE soiled == [clone[s] EXCEPT !.stray = ~@]
               gone   == [[clone[s] EXCEPT !.there = FALSE] EXCEPT !.stray = FALSE]
               anew   == [there |-> TRUE, head |-> fork[s], ref |-> rev[s],
                          seen |-> fork[s], stray |-> FALSE]
               told   == [clone[s] EXCEPT !.seen = fork[s]]
    <3>1. soiled \in Clone /\ soiled.head = clone[s].head /\ soiled.ref = clone[s].ref
      BY <2>2 DEF Clone
    <3>2. gone \in Clone /\ gone.head = clone[s].head /\ gone.ref = clone[s].ref
      BY <2>2 DEF Clone
    <3>3. anew \in Clone /\ anew.head = fork[s] /\ anew.ref = rev[s]
      BY <2>2 DEF Clone
    <3>4. told \in Clone /\ told.head = clone[s].head /\ told.ref = clone[s].ref
      BY <2>2 DEF Clone
    <3>5. \/ clone' = [clone EXCEPT ![s] = soiled]
          \/ clone' = [clone EXCEPT ![s] = gone]
          \/ clone' = [clone EXCEPT ![s] = anew]
          \/ clone' = [clone EXCEPT ![s] = told]
      BY <1>5 DEF Mess, FetchOrigin, FleetInv, FleetTypeOK
    <3> HIDE DEF soiled, gone, anew, told
    <3> QED BY <3>1, <3>2, <3>3, <3>4, <3>5
  <2>4. /\ clone' \in [Sources -> Clone] /\ clone'[s] = c
        /\ \A t \in Sources \ {s} : clone'[t] = clone[t]
    BY <2>3 DEF FleetInv, FleetTypeOK
  <2>5. FleetTypeOK' BY <1>1, <2>1, <2>4 DEF FleetInv, FleetTypeOK
  <2>6. InOrder(s) BY DEF FleetInv
  <2>7. InOrder(s)' BY <1>1, <2>1, <2>2, <2>3, <2>4, <2>6 DEF InOrder
  <2>8. FleetInv' BY <1>1, <1>2, <2>1, <2>4, <2>5, <2>7 DEF FleetInv, InOrder
  <2>9. PushedHead => PushedHead'
    <3>1. ASSUME PushedHead, NEW p \in Consumers, At(p, "bump")'
          PROVE  (clone[This(p)].head = fork[This(p)])'
      <4>1. PICK t \in Sources : t = This(p) /\ t = This(p)'
        BY <1>1, <3>1, ThisIsSource DEF FleetInv, At, Resting, This
      <4>2. clone[t].head = fork[t] BY <1>1, <3>1, <4>1 DEF PushedHead, At
      <4>3. CASE t = s BY <1>1, <2>3, <2>4, <4>1, <4>2, <4>3
      <4>4. CASE t # s BY <1>1, <2>4, <4>1, <4>2, <4>4
      <4> QED BY <4>3, <4>4
    <3> QED BY <3>1 DEF PushedHead
  <2>10. PromiseKept BY <1>1, <2>1 DEF PromiseKept
  <2> QED BY <2>8, <2>9, <2>10 DEF Kept
<1>6. ASSUME NEW s \in Sources, Patch(s) PROVE Kept
  <2>1. UNCHANGED <<rev, clone>> BY <1>6 DEF Patch
  <2>2. FleetTypeOK' BY <1>1, <1>6 DEF FleetInv, FleetTypeOK, Patch
  <2>3. FleetInv' BY <1>1, <1>2, <2>1, <2>2 DEF FleetInv, InOrder
  <2>4. PushedHead => PushedHead' BY <1>1, <2>1 DEF PushedHead, At, This
  <2>5. PromiseKept BY <1>1, <2>1 DEF PromiseKept
  <2> QED BY <2>3, <2>4, <2>5 DEF Kept
<1> QED BY <1>3, <1>4, <1>5, <1>6 DEF People

LEMMA NextKeeps ==
  ASSUME FleetInv, [Next]_fleetVars
  PROVE  Kept
<1>1. ASSUME NEW p \in Consumers, Step(p) PROVE Kept
  BY <1>1, CompareKeeps, ResetKeeps, PushKeeps, BumpKeeps, InstallKeeps,
     LookingKeeps, FacadeKeeps DEF Step
<1>2. CASE UNCHANGED fleetVars
  <2>1. FleetInv' /\ (PushedHead => PushedHead')
    BY <1>2 DEF fleetVars, world, FleetInv, FleetTypeOK, PassesOK, PassOK, InOrder,
                PushedHead, At, This
  <2>2. PromiseKept BY <1>2 DEF fleetVars, world, PromiseKept
  <2> QED BY <2>1, <2>2 DEF Kept
<1> QED BY <1>1, <1>2, FacadeKeeps, PeopleKeep DEF Next

LEMMA InitKeeps ==
  ASSUME Init PROVE FleetInv /\ PushedHead
<1>1. 1 \in Revs /\ 0 \in 0..MaxFaults BY FleetAssumption DEF Revs
<1>2. FleetTypeOK BY <1>1 DEF Init, FleetTypeOK, Clone, Build, Pass, NoPass
<1>3. PassesOK BY DEF Init, PassesOK, PassOK, NoPass, Resting, Syncing
<1>4. \A s \in Sources : InOrder(s) BY DEF Init, InOrder
<1>5. PushedHead BY DEF Init, PushedHead, At, NoPass
<1> QED BY <1>2, <1>3, <1>4, <1>5 DEF FleetInv

-----------------------------------------------------------------------------
(* The theorems *)

\* Whatever the programs run, however many of them and whatever fails, every
\* pass keeps entries, an order and results that are the registry's own, and
\* no pin, clone or installation is at a revision that does not exist.
THEOREM FleetTypeCorrect == Spec => []FleetTypeOK
<1>1. Init => FleetInv BY InitKeeps
<1>2. FleetInv /\ [Next]_fleetVars => FleetInv' BY NextKeeps DEF Kept
<1>3. FleetInv => FleetTypeOK BY DEF FleetInv
<1> QED BY <1>1, <1>2, <1>3, PTL DEF Spec

\* With one program that syncs, every source of the registry keeps the
\* promise of auto-sync by itself: the passes of the others, its own failed
\* pushes, people in its clone and passes of verify never pin a revision its
\* fork has not, nor take a fork or a pin back.
THEOREM EachSourceKeepsPromise ==
  ASSUME OneSyncer
  PROVE  Spec => EachPinFollowsItsFork
<1>1. Init => FleetInv /\ PushedHead BY InitKeeps
<1>2. FleetInv /\ PushedHead /\ [Next]_fleetVars
        => (FleetInv /\ PushedHead)' /\ PromiseKept
  BY NextKeeps DEF Kept
<1>3. Spec => [](FleetInv /\ PushedHead) BY <1>1, <1>2, PTL DEF Spec
<1>4. Spec => [][PromiseKept]_fleetVars BY <1>2, <1>3, PTL DEF Spec
<1> QED BY <1>4 DEF EachPinFollowsItsFork, PromiseKept
=============================================================================
