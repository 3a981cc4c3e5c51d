-------------------------- MODULE CompactionProofs --------------------------
(***************************************************************************)
(* Theorems about Compaction, for any number of runs, appends and versions *)
(* and any number of snapshots whose timestamp is behind.                  *)
(***************************************************************************)
EXTENDS Compaction, NumberFacts, SequenceTheorems

-----------------------------------------------------------------------------
(* The inductive invariant.                                                *)

\* The versions that removed data files.
Rewrites == {v \in Versions : v > 1 /\ history[v].removed > history[v - 1].removed}

\* The current snapshot by the clock always exists.
FirstInOrder == 1 \in Versions /\ ~history[1].behind

RowsGrow ==
  \A u, v \in Versions : u <= v => history[u].rows <= history[v].rows

AppendsRaiseRows ==
  \A u, v \in Versions : u < v /\ history[v].by = Loader => history[u].rows < history[v].rows

\* Every file that was ever there is there or was removed.
FilesAccounted ==
  \A u, v \in Versions :
    u <= v => history[u].files + history[u].removed <= history[v].files + history[v].removed

\* Between two versions of which the later has fewer files lies a rewrite.
OnlyRewritesShrink ==
  \A u, v \in Versions :
    u <= v /\ history[v].files < history[u].files => \E w \in u + 1 .. v : w \in Rewrites

RewritesAreRuns == \A v \in Rewrites : history[v].by \in Runs

HistoryInv ==
  /\ FirstInOrder
  /\ RowsGrow
  /\ AppendsRaiseRows
  /\ FilesAccounted
  /\ OnlyRewritesShrink
  /\ RewritesAreRuns

BeforeCommit ==
  {"preflight", "window", "passed", "measured", "fenced", "rewriting"}

AfterFence ==
  {"fenced", "rewriting", "rewritten", "compacted", "remeasured", "succeeded"}

\* What a run remembers of the table was true of some version it may have seen.
Remembers(metrics) ==
  /\ metrics.snapshot \in Versions
  /\ ~history[metrics.snapshot].behind
  /\ metrics.rows = history[metrics.snapshot].rows

\* The metrics before the rewrite. Their two halves may be of different
\* versions, but then somebody else has committed in between.
BeforeOf(r) ==
  /\ stage[r] \in AfterFence \cup {"measured"} => Remembers(pre[r])
  /\ stage[r] \in AfterFence =>
       /\ pre[r].snapshot = expected[r]
       /\ \/ pre[r].files = history[pre[r].snapshot].files
          \/ /\ pre[r].snapshot + 1 \in Versions
             /\ history[pre[r].snapshot + 1].by # r

\* The metrics after it, of no earlier version.
AfterOf(r) ==
  stage[r] \in {"remeasured", "succeeded"} =>
    Remembers(post[r]) /\ pre[r].snapshot <= post[r].snapshot

\* What a session has loaded only gets newer.
ViewOf(r) ==
  /\ stage[r] \in (AfterFence \cup {"measured"}) \ {"succeeded"} =>
       view[r] \in Versions /\ pre[r].snapshot <= view[r]
  /\ stage[r] = "remeasured" => post[r].snapshot <= view[r]

\* A run rewrites before everything else it commits, hence once.
CommitsOf(r) ==
  /\ stage[r] \in BeforeCommit => \A v \in Versions : history[v].by # r
  /\ \A v, w \in Versions :
       history[v].by = r /\ history[w].by = r /\ w \in Rewrites => w <= v

\* What the checks of main have established.
ReceiptOf(r) ==
  stage[r] = "succeeded" =>
    /\ post[r].snapshot # pre[r].snapshot
    /\ post[r].rows = pre[r].rows
    /\ post[r].files < pre[r].files
    /\ \E v \in post[r].snapshot .. Len(history) : history[v].files = post[r].files

RunOf(r) == BeforeOf(r) /\ AfterOf(r) /\ ViewOf(r) /\ CommitsOf(r) /\ ReceiptOf(r)

RunInv == \A r \in Runs : RunOf(r)

IInv == TypeOK /\ HistoryInv /\ RunInv

-----------------------------------------------------------------------------
(* Lemmas about the table.                                                 *)

\* The snapshot a batch takes for the current one is the last one in clock
\* order of the version it sees (snapshot_metrics, compact_table.py:29).
LEMMA NewestByClockIsLast ==
  ASSUME TypeOK, FirstInOrder, NEW v \in Versions
  PROVE  /\ NewestByClock(v) \in 1 .. v
         /\ ~history[NewestByClock(v)].behind
         /\ \A u \in 1 .. v : ~history[u].behind => u <= NewestByClock(v)
<1> DEFINE S == {u \in 1 .. v : ~history[u].behind}
<1>1. v \in Nat /\ 1 \in S
  BY DEF TypeOK, FirstInOrder, Versions
<1>2. Max(S) \in S /\ \A u \in S : u <= Max(S)
  BY <1>1, MaxIsGreatest
<1>3. QED
  BY <1>2 DEF NewestByClock

\* A commit adds one version and changes none of the others.
LEMMA CommitAppends ==
  ASSUME TypeOK, FirstInOrder,
         NEW by \in Runs \cup {Loader}, NEW rows \in Nat, NEW removed \in Nat, NEW added \in Nat,
         removed < Latest.files + added,
         Commit(by, rows, removed, added)
  PROVE  /\ history' \in Seq(Snapshots)
         /\ Len(history') = Len(history) + 1
         /\ \A v \in Versions : history'[v] = history[v]
         /\ history'[Len(history) + 1].by = by
         /\ history'[Len(history) + 1].rows = Latest.rows + rows
         /\ history'[Len(history) + 1].files = Latest.files - removed + added
         /\ history'[Len(history) + 1].removed = Latest.removed + removed
         /\ Latest \in Snapshots
<1>1. PICK behind \in BOOLEAN :
        history' = Append(history,
          Snapshot(by, Latest.rows + rows, Latest.files - removed + added,
                   Latest.removed + removed, behind))
  BY DEF Commit, Timestamps
<1> DEFINE s == Snapshot(by, Latest.rows + rows, Latest.files - removed + added,
                         Latest.removed + removed, behind)
<1>2. Latest \in Snapshots
  BY DEF TypeOK, FirstInOrder, Versions, Latest
<1>3. s \in Snapshots
  <2>1. /\ Latest.rows \in Nat \ {0}
        /\ Latest.files \in Nat
        /\ Latest.removed \in Nat
    BY <1>2 DEF Snapshots
  <2>2. Latest.files - removed + added \in Nat \ {0}
    BY <2>1
  <2>3. QED
    BY <2>1, <2>2 DEF Snapshot, Snapshots
<1>4. /\ s.by = by
      /\ s.rows = Latest.rows + rows
      /\ s.files = Latest.files - removed + added
      /\ s.removed = Latest.removed + removed
  BY DEF Snapshot
<1> HIDE DEF s
<1>5. /\ history' \in Seq(Snapshots)
      /\ Len(history') = Len(history) + 1
      /\ \A v \in 1 .. Len(history) : history'[v] = history[v]
      /\ history'[Len(history) + 1] = s
  BY <1>1, <1>3, AppendProperties DEF TypeOK, s
<1>6. QED
  BY <1>2, <1>4, <1>5 DEF Versions

\* What happened to the table stays so when a commit keeps at least one file,
\* when an append brings rows and when only runs remove files.
LEMMA CommitKeepsHistoryInv ==
  ASSUME TypeOK, HistoryInv,
         NEW by \in Runs \cup {Loader}, NEW rows \in Nat, NEW removed \in Nat, NEW added \in Nat,
         removed < Latest.files + added,
         by = Loader => rows > 0,
         removed > 0 => by \in Runs,
         Commit(by, rows, removed, added)
  PROVE  /\ HistoryInv'
         /\ Rewrites' = Rewrites \cup (IF removed > 0 THEN {Len(history) + 1} ELSE {})
<1> DEFINE n == Len(history)
<1>1. FirstInOrder
  BY DEF HistoryInv
<1>2. /\ history' \in Seq(Snapshots)
      /\ Len(history') = n + 1
      /\ \A v \in Versions : history'[v] = history[v]
      /\ history'[n + 1].by = by
      /\ history'[n + 1].rows = history[n].rows + rows
      /\ history'[n + 1].files = history[n].files - removed + added
      /\ history'[n + 1].removed = history[n].removed + removed
  BY <1>1, CommitAppends DEF Latest
<1>3. n \in Nat \ {0} /\ Versions = 1 .. n /\ Versions' = 1 .. (n + 1)
  BY <1>1, <1>2 DEF TypeOK, FirstInOrder, Versions
<1>4. \A v \in 1 .. n : /\ history[v].by \in Runs \cup {Loader}
                        /\ history[v].rows \in Nat
                        /\ history[v].files \in Nat
                        /\ history[v].removed \in Nat
  <2> TAKE v \in 1 .. n
  <2>1. history[v] \in Snapshots
    BY DEF TypeOK
  <2>2. QED
    BY <2>1 DEF Snapshots
<1> HIDE DEF n
<1>5. Rewrites' = Rewrites \cup (IF removed > 0 THEN {n + 1} ELSE {})
  <2>1. \A v \in 1 .. (n + 1) :
          v \in Rewrites' <=> v > 1 /\ history'[v].removed > history'[v - 1].removed
    BY <1>3 DEF Rewrites
  <2>2. \A v \in 1 .. n : v \in Rewrites' <=> v \in Rewrites
    BY <1>2, <1>3, <2>1 DEF Rewrites
  <2>3. n + 1 \in Rewrites' <=> removed > 0
    <3>1. n + 1 \in Rewrites' <=> history'[n + 1].removed > history'[n].removed
      BY <1>3, <2>1
    <3>2. history'[n].removed = history[n].removed /\ history[n].removed \in Nat
      BY <1>2, <1>3, <1>4
    <3>3. QED
      BY <1>2, <3>1, <3>2
  <2>4. Rewrites' \subseteq 1 .. (n + 1) /\ Rewrites \subseteq 1 .. n
    BY <1>3 DEF Rewrites
  <2>5. QED
    <3>1. \A v \in 1 .. (n + 1) : v \in 1 .. n \/ v = n + 1
      BY <1>3
    <3>2. n + 1 \notin Rewrites
      BY <1>3, <2>4
    <3>3. QED
      BY <2>2, <2>3, <2>4, <3>1, <3>2
<1>6. FirstInOrder'
  BY <1>1, <1>2, <1>3 DEF FirstInOrder
<1>7. RowsGrow'
  <2> SUFFICES ASSUME NEW u \in 1 .. (n + 1), NEW v \in 1 .. (n + 1), u <= v
               PROVE  history'[u].rows <= history'[v].rows
    BY <1>3 DEF RowsGrow
  <2>1. CASE v <= n
    BY <1>2, <1>3, <2>1 DEF HistoryInv, RowsGrow
  <2>2. CASE v = n + 1 /\ u <= n
    <3>1. history[u].rows <= history[n].rows
      BY <1>3, <2>2 DEF HistoryInv, RowsGrow
    <3>2. QED
      BY <1>2, <1>3, <1>4, <2>2, <3>1
  <2>3. CASE v = n + 1 /\ u = n + 1
    BY <1>2, <1>3, <1>4, <2>3
  <2>4. QED
    BY <1>3, <2>1, <2>2, <2>3
<1>8. AppendsRaiseRows'
  <2> SUFFICES ASSUME NEW u \in 1 .. (n + 1), NEW v \in 1 .. (n + 1), u < v,
                      history'[v].by = Loader
               PROVE  history'[u].rows < history'[v].rows
    BY <1>3 DEF AppendsRaiseRows
  <2>1. CASE v <= n
    BY <1>2, <1>3, <2>1 DEF HistoryInv, AppendsRaiseRows
  <2>2. CASE v = n + 1
    <3>1. u <= n /\ rows > 0
      BY <1>2, <1>3, <2>2
    <3>2. history[u].rows <= history[n].rows
      BY <1>3, <3>1 DEF HistoryInv, RowsGrow
    <3>3. history'[u].rows = history[u].rows
      BY <1>2, <1>3, <3>1
    <3>4. history[u].rows \in Nat /\ history[n].rows \in Nat
      BY <1>3, <1>4, <3>1
    <3>5. QED
      BY <1>2, <2>2, <3>1, <3>2, <3>3, <3>4
  <2>3. QED
    BY <1>3, <2>1, <2>2
<1>9. FilesAccounted'
  <2> SUFFICES ASSUME NEW u \in 1 .. (n + 1), NEW v \in 1 .. (n + 1), u <= v
               PROVE  history'[u].files + history'[u].removed
                        <= history'[v].files + history'[v].removed
    BY <1>3 DEF FilesAccounted
  <2>1. CASE v <= n
    BY <1>2, <1>3, <2>1 DEF HistoryInv, FilesAccounted
  <2>2. CASE v = n + 1 /\ u <= n
    <3>1. history[u].files + history[u].removed <= history[n].files + history[n].removed
      BY <1>3, <2>2 DEF HistoryInv, FilesAccounted
    <3>2. /\ {history[u].files, history[u].removed} \subseteq Nat
          /\ {history[n].files, history[n].removed} \subseteq Nat
      BY <1>3, <1>4, <2>2
    <3>3. history'[u] = history[u]
      BY <1>2, <1>3, <2>2
    <3>4. history'[n + 1].files + history'[n + 1].removed
            = history[n].files + history[n].removed + added
      BY <1>2, <3>2
    <3>5. history[n].files + history[n].removed
            <= history[n].files + history[n].removed + added
      BY <3>2
    <3>6. QED
      BY <2>2, <3>1, <3>2, <3>3, <3>4, <3>5
  <2>3. CASE v = n + 1 /\ u = n + 1
    BY <1>2, <1>3, <1>4, <2>3
  <2>4. QED
    BY <1>3, <2>1, <2>2, <2>3
<1>10. OnlyRewritesShrink'
  <2> SUFFICES ASSUME NEW u \in 1 .. (n + 1), NEW v \in 1 .. (n + 1), u <= v,
                      history'[v].files < history'[u].files
               PROVE  \E w \in u + 1 .. v : w \in Rewrites'
    BY <1>3 DEF OnlyRewritesShrink
  <2>1. CASE v <= n
    <3>1. \E w \in u + 1 .. v : w \in Rewrites
      BY <1>2, <1>3, <2>1 DEF HistoryInv, OnlyRewritesShrink
    <3>2. QED
      BY <1>5, <3>1
  <2>2. CASE v = n + 1 /\ removed > 0
    <3>1. u <= n
      BY <1>2, <1>3, <1>4, <2>2
    <3>2. QED
      BY <1>5, <1>3, <2>2, <3>1
  <2>3. CASE v = n + 1 /\ removed = 0
    <3>1. u <= n /\ history[n].files < history[u].files
      BY <1>2, <1>3, <1>4, <2>3
    <3>2. PICK w \in u + 1 .. n : w \in Rewrites
      BY <1>3, <3>1 DEF HistoryInv, OnlyRewritesShrink
    <3>3. QED
      BY <1>3, <1>5, <2>3, <3>2
  <2>4. QED
    BY <1>3, <2>1, <2>2, <2>3
<1>11. RewritesAreRuns'
  <2>1. \A v \in Rewrites : history'[v].by \in Runs
    BY <1>2, <1>3 DEF HistoryInv, RewritesAreRuns, Rewrites
  <2>2. QED
    BY <1>2, <1>5, <2>1 DEF RewritesAreRuns
<1>12. QED
  BY <1>5, <1>6, <1>7, <1>8, <1>9, <1>10, <1>11 DEF HistoryInv, n

-----------------------------------------------------------------------------
(* Lemmas about a step of a run.                                           *)

\* Nobody rewrites history, and what was a rewrite stays one.
HistoryGrows ==
  /\ history' \in Seq(Snapshots)
  /\ Len(history') >= Len(history)
  /\ \A v \in Versions : history'[v] = history[v]
  /\ \A v \in Versions : v \in Rewrites' <=> v \in Rewrites

NoCommitOf(r) == \A v \in Versions' : v \in Versions \/ history'[v].by # r

\* A step of r, which knows of itself what is given afterwards.
RunSets(r, st, e, v, b, a) ==
  /\ stage' = [stage EXCEPT ![r] = st]
  /\ expected' = [expected EXCEPT ![r] = e]
  /\ view' = [view EXCEPT ![r] = v]
  /\ pre' = [pre EXCEPT ![r] = b]
  /\ post' = [post EXCEPT ![r] = a]

RunKeeps(r) ==
  /\ stage'[r] = stage[r]
  /\ expected'[r] = expected[r]
  /\ view'[r] = view[r]
  /\ pre'[r] = pre[r]
  /\ post'[r] = post[r]

\* A step that commits nothing leaves history and commits of the runs alone.
LEMMA TableUnchanged ==
  ASSUME TypeOK, HistoryInv, history' = history
  PROVE  HistoryInv' /\ HistoryGrows /\ \A r \in Runs : NoCommitOf(r)
<1>1. Versions' = Versions /\ Rewrites' = Rewrites
  BY DEF Versions, Rewrites
<1>2. HistoryInv'
  BY <1>1 DEF HistoryInv, FirstInOrder, RowsGrow, AppendsRaiseRows, FilesAccounted,
              OnlyRewritesShrink, RewritesAreRuns
<1>3. Len(history) \in Nat
  BY DEF TypeOK
<1>4. QED
  BY <1>1, <1>2, <1>3 DEF HistoryGrows, NoCommitOf, TypeOK

\* A commit is one step of history, in the name of who makes it.
LEMMA CommitGrows ==
  ASSUME TypeOK, HistoryInv,
         NEW by \in Runs \cup {Loader}, NEW rows \in Nat, NEW removed \in Nat, NEW added \in Nat,
         removed < Latest.files + added,
         by = Loader => rows > 0,
         removed > 0 => by \in Runs,
         Commit(by, rows, removed, added)
  PROVE  /\ HistoryInv'
         /\ HistoryGrows
         /\ hint' = hint
         /\ Len(history') = Len(history) + 1
         /\ history'[Len(history) + 1].by = by
         /\ removed = 0 => Rewrites' = Rewrites
         /\ \A r \in Runs : r # by => NoCommitOf(r)
<1>1. FirstInOrder
  BY DEF HistoryInv
<1>2. /\ HistoryInv'
      /\ Rewrites' = Rewrites \cup (IF removed > 0 THEN {Len(history) + 1} ELSE {})
  BY CommitKeepsHistoryInv
<1>3. /\ history' \in Seq(Snapshots)
      /\ Len(history') = Len(history) + 1
      /\ \A v \in Versions : history'[v] = history[v]
      /\ history'[Len(history) + 1].by = by
  BY <1>1, CommitAppends
<1>4. Len(history) \in Nat
  BY DEF TypeOK
<1>5. \A v \in Versions : v # Len(history) + 1
  BY <1>4 DEF Versions
<1>6. \A v \in Versions : v \in Rewrites' <=> v \in Rewrites
  BY <1>2, <1>5
<1>7. HistoryGrows
  BY <1>3, <1>4, <1>6 DEF HistoryGrows
<1>8. \A v \in Versions' : v \in Versions \/ v = Len(history) + 1
  BY <1>3, <1>4 DEF Versions
<1>9. \A r \in Runs : r # by => NoCommitOf(r)
  BY <1>3, <1>8 DEF NoCommitOf
<1>10. removed = 0 => Rewrites' = Rewrites
  BY <1>2
<1>11. hint' = hint
  BY DEF Commit
<1>12. QED
  BY <1>2, <1>3, <1>7, <1>9, <1>10, <1>11

\* What a step of r leaves behind has its types and is none of the business
\* of another run.
LEMMA RunStepTypes ==
  ASSUME TypeOK, HistoryGrows, hint' \in 0 .. Len(history'), NEW r \in Runs,
         NEW st \in Stages, NEW e \in 0 .. Len(history'), NEW v \in 0 .. Len(history'),
         NEW b \in Metrics', NEW a \in Metrics', RunSets(r, st, e, v, b, a)
  PROVE  /\ TypeOK'
         /\ stage'[r] = st /\ expected'[r] = e /\ view'[r] = v /\ pre'[r] = b /\ post'[r] = a
         /\ \A q \in Runs \ {r} : RunKeeps(q)
<1>1. Len(history) \in Nat /\ Len(history') \in Nat /\ Len(history') >= Len(history)
  BY DEF TypeOK, HistoryGrows
<1>2. 0 .. Len(history) \subseteq 0 .. Len(history')
  BY <1>1
<1>3. Metrics \subseteq Metrics'
  BY <1>2 DEF Metrics
<1>4. /\ stage' \in [Runs -> Stages]
      /\ expected' \in [Runs -> 0 .. Len(history')]
      /\ view' \in [Runs -> 0 .. Len(history')]
  BY <1>2 DEF TypeOK, RunSets
<1>5. pre' \in [Runs -> Metrics'] /\ post' \in [Runs -> Metrics']
  BY <1>3 DEF TypeOK, RunSets
<1>6. TypeOK'
  BY <1>4, <1>5 DEF TypeOK, HistoryGrows, Snapshots
<1>7. stage'[r] = st /\ expected'[r] = e /\ view'[r] = v /\ pre'[r] = b /\ post'[r] = a
  BY DEF TypeOK, RunSets
<1>8. \A q \in Runs \ {r} : RunKeeps(q)
  BY DEF TypeOK, RunSets, RunKeeps
<1>9. QED
  BY <1>6, <1>7, <1>8

\* What is true of a run stays true while others act.
LEMMA RunUndisturbed ==
  ASSUME TypeOK, HistoryGrows, NEW r \in Runs, RunOf(r), RunKeeps(r), NoCommitOf(r)
  PROVE  RunOf(r)'
<1>1. Len(history) \in Nat /\ Len(history') \in Nat /\ Len(history') >= Len(history)
  BY DEF TypeOK, HistoryGrows
<1>2. Versions \subseteq Versions' /\ \A v \in Versions : v \in Nat \ {0}
  BY <1>1 DEF Versions
<1>3. \A v \in Versions : history'[v] = history[v] /\ (v \in Rewrites' <=> v \in Rewrites)
  BY DEF HistoryGrows
<1>4. \A v \in Versions' : history'[v].by = r => v \in Versions
  BY DEF NoCommitOf
<1>5. BeforeOf(r)'
  BY <1>2, <1>3 DEF RunOf, BeforeOf, RunKeeps, Remembers
<1>6. AfterOf(r)'
  BY <1>2, <1>3 DEF RunOf, AfterOf, RunKeeps, Remembers
<1>7. ViewOf(r)'
  BY <1>2 DEF RunOf, ViewOf, RunKeeps
<1>8. CommitsOf(r)'
  BY <1>3, <1>4 DEF RunOf, CommitsOf, RunKeeps
<1>9. ReceiptOf(r)'
  <2> SUFFICES ASSUME stage[r] = "succeeded"
               PROVE  /\ post[r].snapshot # pre[r].snapshot
                      /\ post[r].rows = pre[r].rows
                      /\ post[r].files < pre[r].files
                      /\ \E v \in post[r].snapshot .. Len(history') :
                           history'[v].files = post[r].files
    BY DEF ReceiptOf, RunKeeps
  <2>1. PICK v \in post[r].snapshot .. Len(history) : history[v].files = post[r].files
    BY DEF RunOf, ReceiptOf
  <2>2. post[r].snapshot \in Versions
    BY DEF RunOf, AfterOf, Remembers
  <2>3. v \in Versions /\ v \in post[r].snapshot .. Len(history')
    BY <1>1, <2>2 DEF Versions
  <2>4. QED
    BY <1>3, <2>1, <2>3 DEF RunOf, ReceiptOf
<1>10. QED
  BY <1>5, <1>6, <1>7, <1>8, <1>9 DEF RunOf

\* A step of r keeps the invariant if it keeps what concerns the table and r.
LEMMA RunStep ==
  ASSUME IInv, HistoryInv', HistoryGrows, hint' \in 0 .. Len(history'), NEW r \in Runs,
         NEW st \in Stages, NEW e \in 0 .. Len(history'), NEW v \in 0 .. Len(history'),
         NEW b \in Metrics', NEW a \in Metrics', RunSets(r, st, e, v, b, a),
         \A q \in Runs \ {r} : NoCommitOf(q),
         RunOf(r)'
  PROVE  IInv'
<1>1. TypeOK' /\ \A q \in Runs \ {r} : RunKeeps(q)
  BY RunStepTypes DEF IInv
<1>2. \A q \in Runs \ {r} : RunOf(q)'
  BY <1>1, RunUndisturbed DEF IInv, RunInv
<1>3. QED
  BY <1>1, <1>2 DEF IInv, RunInv

\* The values a run has are of the types a step may leave.
LEMMA ValuesOfRun ==
  ASSUME TypeOK, Len(history') >= Len(history), Len(history') \in Nat, NEW r \in Runs
  PROVE  /\ stage[r] \in Stages
         /\ expected[r] \in 0 .. Len(history')
         /\ view[r] \in 0 .. Len(history')
         /\ pre[r] \in Metrics' /\ post[r] \in Metrics'
         /\ NoMetrics \in Metrics'
         /\ expected = [expected EXCEPT ![r] = expected[r]]
         /\ view = [view EXCEPT ![r] = view[r]]
         /\ pre = [pre EXCEPT ![r] = pre[r]]
         /\ post = [post EXCEPT ![r] = post[r]]
<1>1. Len(history) \in Nat /\ 0 .. Len(history) \subseteq 0 .. Len(history')
  BY DEF TypeOK
<1>2. Metrics \subseteq Metrics' /\ NoMetrics \in Metrics'
  BY <1>1 DEF Metrics, NoMetrics
<1>3. QED
  BY <1>1, <1>2 DEF TypeOK

\* A run that reads, decides or ends leaves the table alone.
LEMMA ReadStep ==
  ASSUME IInv, UNCHANGED tableVars, NEW r \in Runs,
         NEW st \in Stages, NEW e \in 0 .. Len(history), NEW v \in 0 .. Len(history),
         NEW b \in Metrics, NEW a \in Metrics, RunSets(r, st, e, v, b, a),
         RunOf(r)'
  PROVE  IInv'
<1>1. history' = history /\ hint' = hint /\ Metrics' = Metrics
  BY DEF tableVars, Metrics
<1>2. HistoryInv' /\ HistoryGrows /\ \A q \in Runs : NoCommitOf(q)
  BY <1>1, TableUnchanged DEF IInv
<1>3. hint' \in 0 .. Len(history')
  BY <1>1 DEF IInv, TypeOK
<1>4. QED
  BY <1>1, <1>2, <1>3, RunStep

\* The version a batch measures is one that its session may see.
LEMMA MetricsAtVersion ==
  ASSUME TypeOK, FirstInOrder, NEW v \in Versions
  PROVE  /\ MetricsAt(v) \in Metrics
         /\ Remembers(MetricsAt(v))
         /\ MetricsAt(v).snapshot \in 1 .. v
         /\ \A u \in 1 .. v : ~history[u].behind => u <= MetricsAt(v).snapshot
<1> DEFINE s == NewestByClock(v)
<1>1. s \in 1 .. v /\ ~history[s].behind /\ \A u \in 1 .. v : ~history[u].behind => u <= s
  BY NewestByClockIsLast
<1>2. s \in Versions /\ s \in 0 .. Len(history)
  BY <1>1 DEF TypeOK, Versions
<1>3. history[s] \in Snapshots
  BY <1>2 DEF TypeOK, Versions
<1>4. history[s].rows \in Nat
  BY <1>3 DEF Snapshots
<1>5. /\ MetricsAt(v).snapshot = s
      /\ MetricsAt(v).rows = history[s].rows
      /\ MetricsAt(v) = [snapshot |-> s, rows |-> history[s].rows, files |-> 0]
  BY DEF MetricsAt
<1> HIDE DEF s
<1>6. MetricsAt(v) \in Metrics
  BY <1>2, <1>4, <1>5 DEF Metrics
<1>7. QED
  BY <1>1, <1>2, <1>5, <1>6 DEF Remembers

-----------------------------------------------------------------------------
(* One lemma for each kind of step.                                        *)

\* A run may end anywhere: its stage claims nothing any more.
LEMMA EndKeepsIInv ==
  ASSUME IInv, NEW r \in Runs, End(r)
  PROVE  IInv'
<1>1. RunSets(r, "ended", 0, 0, NoMetrics, NoMetrics) /\ UNCHANGED tableVars
  BY DEF End, Goto, RunSets
<1>2. history' = history /\ Versions' = Versions /\ Rewrites' = Rewrites
  BY <1>1 DEF tableVars, Versions, Rewrites
<1>3. stage'[r] = "ended"
  BY <1>1 DEF RunSets, IInv, TypeOK
<1>4. RunOf(r)'
  <2>1. BeforeOf(r)' /\ AfterOf(r)' /\ ViewOf(r)' /\ ReceiptOf(r)'
    BY <1>3 DEF BeforeOf, AfterOf, ViewOf, ReceiptOf, AfterFence
  <2>2. CommitsOf(r)'
    BY <1>2, <1>3 DEF CommitsOf, BeforeCommit, IInv, RunInv, RunOf
  <2>3. QED
    BY <2>1, <2>2 DEF RunOf
<1>5. Len(history) \in Nat /\ 0 \in 0 .. Len(history) /\ NoMetrics \in Metrics
  BY DEF IInv, TypeOK, NoMetrics, Metrics
<1>6. "ended" \in Stages
  BY DEF Stages
<1>7. QED
  BY <1>1, <1>4, <1>5, <1>6, ReadStep

\* The submitter and the steps of the batch that only decide how to go on.
LEMMA SubmitterKeepsIInv ==
  ASSUME IInv, NEW r \in Runs, Submitter(r)
  PROVE  IInv'
<1>1. CASE SampleDiffers(r) \/ DryRun(r)
  BY <1>1, EndKeepsIInv DEF SampleDiffers, DryRun
<1>2. CASE ReadFirst(r) \/ WindowOver(r)
  <2>1. PICK st \in {"passed", "window"} : stage' = [stage EXCEPT ![r] = st]
    BY <1>2 DEF ReadFirst, WindowOver, Goto
  <2>2. PICK e \in 0 .. Len(history) : expected' = [expected EXCEPT ![r] = e]
    <3>1. hint \in 0 .. Len(history) /\ expected[r] \in 0 .. Len(history)
      BY DEF IInv, TypeOK
    <3>2. expected = [expected EXCEPT ![r] = expected[r]]
      BY DEF IInv, TypeOK
    <3>3. QED
      BY <1>2, <3>1, <3>2 DEF ReadFirst, WindowOver
  <2>3. UNCHANGED tableVars
    BY <1>2 DEF ReadFirst, WindowOver
  <2>4. history' = history /\ Versions' = Versions /\ Rewrites' = Rewrites
    BY <2>3 DEF tableVars, Versions, Rewrites
  <2>5. RunSets(r, st, e, view[r], pre[r], post[r])
    BY <1>2, <2>1, <2>2 DEF ReadFirst, WindowOver, RunSets, IInv, TypeOK
  <2>6. stage'[r] = st /\ stage[r] \in BeforeCommit
    BY <1>2, <2>1 DEF IInv, TypeOK, ReadFirst, WindowOver, BeforeCommit
  <2>7. RunOf(r)'
    <3>1. BeforeOf(r)' /\ AfterOf(r)' /\ ViewOf(r)' /\ ReceiptOf(r)'
      BY <2>6 DEF BeforeOf, AfterOf, ViewOf, ReceiptOf, AfterFence
    <3>2. CommitsOf(r)'
      BY <2>4, <2>6 DEF CommitsOf, IInv, RunInv, RunOf
    <3>3. QED
      BY <3>1, <3>2 DEF RunOf
  <2>8. /\ st \in Stages /\ view[r] \in 0 .. Len(history)
        /\ pre[r] \in Metrics /\ post[r] \in Metrics
    BY DEF IInv, TypeOK, Stages
  <2>9. QED
    BY <2>2, <2>3, <2>5, <2>7, <2>8, ReadStep
<1>3. QED
  BY <1>1, <1>2 DEF Submitter

\* The first measurement is of the newest snapshot.
LEMMA ReadBeforeSnapshotKeepsIInv ==
  ASSUME IInv, NEW r \in Runs, ReadBeforeSnapshot(r)
  PROVE  IInv'
<1> DEFINE n == Len(history)
           b == MetricsAt(n)
<1>1. n \in Versions /\ n \in 0 .. Len(history) /\ n \in Nat
  BY DEF IInv, HistoryInv, FirstInOrder, TypeOK, Versions
<1>2. b \in Metrics /\ Remembers(b) /\ b.snapshot \in 1 .. n
  BY <1>1, MetricsAtVersion DEF IInv, HistoryInv
<1>3. /\ UNCHANGED tableVars
      /\ RunSets(r, "measured", expected[r], n, b, post[r])
  BY DEF ReadBeforeSnapshot, Goto, RunSets, IInv, TypeOK
<1>4. history' = history /\ Versions' = Versions /\ Rewrites' = Rewrites
  BY <1>3 DEF tableVars, Versions, Rewrites
<1> HIDE DEF n, b
<1>5. stage'[r] = "measured" /\ pre'[r] = b /\ view'[r] = n
  BY <1>3 DEF RunSets, IInv, TypeOK
<1>6. RunOf(r)'
  <2>1. BeforeOf(r)'
    BY <1>2, <1>4, <1>5 DEF BeforeOf, Remembers, AfterFence
  <2>2. ViewOf(r)'
    BY <1>1, <1>2, <1>4, <1>5 DEF ViewOf, AfterFence
  <2>3. AfterOf(r)' /\ ReceiptOf(r)'
    BY <1>5 DEF AfterOf, ReceiptOf
  <2>4. CommitsOf(r)'
    BY <1>4, <1>5 DEF CommitsOf, IInv, RunInv, RunOf, ReadBeforeSnapshot, BeforeCommit
  <2>5. QED
    BY <2>1, <2>2, <2>3, <2>4 DEF RunOf
<1>7. "measured" \in Stages /\ expected[r] \in 0 .. Len(history) /\ post[r] \in Metrics
  BY DEF IInv, TypeOK, Stages
<1>8. QED
  BY <1>1, <1>2, <1>3, <1>6, <1>7, ReadStep

\* Past the fence the number of files is that of the expected snapshot, or
\* somebody else has committed right after it.
LEMMA ReadBeforeFilesKeepsIInv ==
  ASSUME IInv, NEW r \in Runs, ReadBeforeFiles(r)
  PROVE  IInv'
<1>1. PICK v \in Visible(r) : /\ view' = [view EXCEPT ![r] = v]
                              /\ pre' = [pre EXCEPT ![r].files = history[v].files]
  BY DEF ReadBeforeFiles
<1> DEFINE b == [pre[r] EXCEPT !.files = history[v].files]
           p == pre[r].snapshot
<1>2. stage[r] = "measured" /\ p = expected[r] /\ UNCHANGED tableVars
  BY DEF ReadBeforeFiles, Fenced
<1>3. Remembers(pre[r]) /\ view[r] \in Versions /\ p <= view[r]
  BY <1>2 DEF IInv, RunInv, RunOf, BeforeOf, ViewOf, AfterFence
<1>4. v \in Versions /\ p <= v /\ p \in Versions /\ p \in Nat /\ v \in Nat /\ v <= Len(history)
  BY <1>3 DEF IInv, TypeOK, Versions, Visible, Remembers
<1>5. history[v].files \in Nat
  <2>1. history[v] \in Snapshots
    BY <1>4 DEF IInv, TypeOK, Versions
  <2>2. QED
    BY <2>1 DEF Snapshots
<1>6. pre[r] \in Metrics
  BY DEF IInv, TypeOK
<1>7. b \in Metrics /\ b.snapshot = p /\ b.rows = pre[r].rows /\ b.files = history[v].files
  BY <1>5, <1>6 DEF Metrics
<1>8. RunSets(r, "fenced", expected[r], v, b, post[r])
  BY <1>1 DEF ReadBeforeFiles, Goto, RunSets, IInv, TypeOK
<1>9. history' = history /\ Versions' = Versions /\ Rewrites' = Rewrites
  BY <1>2 DEF tableVars, Versions, Rewrites
<1> HIDE DEF b, p
<1>10. stage'[r] = "fenced" /\ expected'[r] = expected[r] /\ view'[r] = v /\ pre'[r] = b
  BY <1>8 DEF RunSets, IInv, TypeOK
<1>11. b.files = history[p].files \/ (p + 1 \in Versions /\ history[p + 1].by # r)
  <2>1. CASE v = p
    BY <1>7, <2>1
  <2>2. CASE v # p
    <3>1. p + 1 \in Versions
      BY <1>4, <2>2 DEF IInv, TypeOK, Versions
    <3>2. \A u \in Versions : history[u].by # r
      BY <1>2 DEF IInv, RunInv, RunOf, CommitsOf, BeforeCommit
    <3>3. QED
      BY <3>1, <3>2
  <2>3. QED
    BY <2>1, <2>2
<1>12. RunOf(r)'
  <2>1. BeforeOf(r)'
    <3>1. Remembers(b)
      BY <1>3, <1>7 DEF Remembers, p
    <3>2. QED
      BY <1>2, <1>7, <1>9, <1>10, <1>11, <3>1 DEF BeforeOf, Remembers, AfterFence
  <2>2. ViewOf(r)'
    BY <1>4, <1>7, <1>9, <1>10 DEF ViewOf, AfterFence
  <2>3. AfterOf(r)' /\ ReceiptOf(r)'
    BY <1>10 DEF AfterOf, ReceiptOf
  <2>4. CommitsOf(r)'
    BY <1>2, <1>9, <1>10 DEF CommitsOf, IInv, RunInv, RunOf, BeforeCommit
  <2>5. QED
    BY <2>1, <2>2, <2>3, <2>4 DEF RunOf
<1>13. /\ "fenced" \in Stages /\ expected[r] \in 0 .. Len(history) /\ post[r] \in Metrics
       /\ v \in 0 .. Len(history)
  BY <1>4 DEF IInv, TypeOK, Stages
<1>14. QED
  BY <1>2, <1>7, <1>8, <1>12, <1>13, ReadStep

\* A rewrite is planned on some later version, and may find nothing to do.
LEMMA PlanKeepsIInv ==
  ASSUME IInv, NEW r \in Runs, PlanRewrite(r) \/ RewriteNothing(r)
  PROVE  IInv'
<1>1. PICK v \in Visible(r) : view' = [view EXCEPT ![r] = v]
  <2>1. view[r] \in Visible(r) /\ view = [view EXCEPT ![r] = view[r]]
    BY DEF IInv, TypeOK, Visible
  <2>2. QED
    BY <2>1 DEF PlanRewrite, RewriteNothing
<1>2. PICK st \in {"rewriting", "rewritten"} :
        /\ stage' = [stage EXCEPT ![r] = st]
        /\ st = "rewriting" => stage[r] = "fenced"
  BY DEF PlanRewrite, RewriteNothing, Goto
<1>3. stage[r] \in {"fenced", "rewriting"} /\ UNCHANGED tableVars
  BY DEF PlanRewrite, RewriteNothing
<1>4. view[r] \in Versions /\ pre[r].snapshot <= view[r] /\ pre[r].snapshot \in Versions
  BY <1>3 DEF IInv, RunInv, RunOf, BeforeOf, ViewOf, AfterFence, Remembers
<1>5. v \in Versions /\ pre[r].snapshot <= v /\ v \in 0 .. Len(history)
  BY <1>4 DEF IInv, TypeOK, Versions, Visible
<1>6. RunSets(r, st, expected[r], v, pre[r], post[r])
  BY <1>1, <1>2 DEF PlanRewrite, RewriteNothing, RunSets, IInv, TypeOK
<1>7. history' = history /\ Versions' = Versions /\ Rewrites' = Rewrites
  BY <1>3 DEF tableVars, Versions, Rewrites
<1>8. stage'[r] = st /\ expected'[r] = expected[r] /\ view'[r] = v /\ pre'[r] = pre[r]
  BY <1>6 DEF RunSets, IInv, TypeOK
<1>9. RunOf(r)'
  <2>1. BeforeOf(r)'
    BY <1>3, <1>7, <1>8 DEF BeforeOf, Remembers, AfterFence, IInv, RunInv, RunOf
  <2>2. ViewOf(r)'
    BY <1>5, <1>7, <1>8 DEF ViewOf, AfterFence
  <2>3. AfterOf(r)' /\ ReceiptOf(r)'
    BY <1>8 DEF AfterOf, ReceiptOf
  <2>4. CommitsOf(r)'
    BY <1>2, <1>3, <1>7, <1>8 DEF CommitsOf, IInv, RunInv, RunOf, BeforeCommit
  <2>5. QED
    BY <2>1, <2>2, <2>3, <2>4 DEF RunOf
<1>10. /\ st \in Stages /\ expected[r] \in 0 .. Len(history)
       /\ pre[r] \in Metrics /\ post[r] \in Metrics
  BY DEF IInv, TypeOK, Stages
<1>11. QED
  BY <1>3, <1>5, <1>6, <1>9, <1>10, ReadStep

\* The files a rewrite removes are still there, so the table keeps one.
LEMMA FilesLeftAreThere ==
  ASSUME TypeOK, HistoryInv, NEW r \in Runs, view[r] \in Versions
  PROVE  FilesLeft(r) \in Int /\ FilesLeft(r) <= Latest.files
<1>1. Len(history) \in Versions /\ view[r] <= Len(history)
  BY DEF HistoryInv, FirstInOrder, TypeOK, Versions
<1>2. history[view[r]] \in Snapshots /\ Latest \in Snapshots
  BY <1>1 DEF TypeOK, Versions, Latest
<1>3. /\ history[view[r]].files \in Nat /\ history[view[r]].removed \in Nat
      /\ Latest.files \in Nat /\ Latest.removed \in Nat
  BY <1>2 DEF Snapshots
<1>4. history[view[r]].files + history[view[r]].removed <= Latest.files + Latest.removed
  BY <1>1 DEF HistoryInv, FilesAccounted, Latest
<1>5. QED
  BY <1>3, <1>4 DEF FilesLeft

\* A commit of r, of its rewrite or of its manifests: its session sees it.
LEMMA RunCommitKeepsIInv ==
  ASSUME IInv, NEW r \in Runs, NEW removed \in Nat, NEW added \in Nat,
         removed < Latest.files + added,
         Commit(r, 0, removed, added),
         NEW st \in {"rewritten", "compacted"},
         RunSets(r, st, expected[r], Len(history) + 1, pre[r], post[r]),
         stage[r] \in {"rewriting", "rewritten"},
         removed > 0 => stage[r] = "rewriting"
  PROVE  IInv'
<1> DEFINE n == Len(history)
<1>1. /\ HistoryInv' /\ HistoryGrows /\ hint' = hint
      /\ Len(history') = n + 1 /\ history'[n + 1].by = r
      /\ removed = 0 => Rewrites' = Rewrites
      /\ \A q \in Runs : q # r => NoCommitOf(q)
  <2>1. r \in Runs \cup {Loader} /\ r # Loader /\ 0 \in Nat
    BY CompactionAssumption
  <2>2. QED
    BY <2>1, CommitGrows DEF IInv
<1>2. n \in Nat /\ Versions = 1 .. n /\ Versions' = 1 .. (n + 1)
  BY <1>1 DEF IInv, TypeOK, Versions
<1>3. /\ \A v \in Versions : history'[v] = history[v] /\ (v \in Rewrites' <=> v \in Rewrites)
  BY <1>1 DEF HistoryGrows
<1>4. hint' \in 0 .. Len(history') /\ Len(history') >= Len(history)
  BY <1>1, <1>2 DEF IInv, TypeOK
<1> HIDE DEF n
<1>5. /\ expected[r] \in 0 .. Len(history') /\ n + 1 \in 0 .. Len(history')
      /\ pre[r] \in Metrics' /\ post[r] \in Metrics'
  BY <1>1, <1>2, <1>4, ValuesOfRun DEF IInv
<1>6. st \in Stages
  BY DEF Stages
<1>7. /\ stage'[r] = st /\ expected'[r] = expected[r] /\ view'[r] = n + 1
      /\ pre'[r] = pre[r]
  BY DEF RunSets, IInv, TypeOK, n
<1>8. RunOf(r)'
  <2>1. pre[r].snapshot \in Versions /\ BeforeOf(r)
    BY DEF IInv, RunInv, RunOf, BeforeOf, AfterFence, Remembers
  <2>2. BeforeOf(r)'
    BY <1>2, <1>3, <1>7, <2>1 DEF BeforeOf, Remembers, AfterFence
  <2>3. ViewOf(r)'
    BY <1>2, <1>7, <2>1 DEF ViewOf, AfterFence
  <2>4. AfterOf(r)' /\ ReceiptOf(r)'
    BY <1>7 DEF AfterOf, ReceiptOf
  <2>5. CommitsOf(r)'
    <3> SUFFICES ASSUME NEW v \in Versions', NEW w \in Versions',
                        history'[v].by = r, history'[w].by = r, w \in Rewrites'
                 PROVE  w <= v
      BY <1>7 DEF CommitsOf, BeforeCommit
    <3>1. CASE removed > 0
      <4>1. \A u \in Versions : history[u].by # r
        BY <3>1 DEF IInv, RunInv, RunOf, CommitsOf, BeforeCommit
      <4>2. v = n + 1 /\ w = n + 1
        BY <1>2, <1>3, <4>1
      <4>3. QED
        BY <1>2, <4>2
    <3>2. CASE removed = 0
      <4>1. w \in Versions /\ w \in Rewrites
        BY <1>1, <3>2 DEF Rewrites
      <4>2. CASE v \in Versions
        BY <1>3, <4>1, <4>2 DEF IInv, RunInv, RunOf, CommitsOf
      <4>3. CASE v = n + 1
        BY <1>2, <4>1, <4>3
      <4>4. QED
        BY <1>2, <4>2, <4>3
    <3>3. QED
      BY <3>1, <3>2
  <2>6. QED
    BY <2>2, <2>3, <2>4, <2>5 DEF RunOf
<1>9. QED
  BY <1>1, <1>4, <1>5, <1>6, <1>8, RunStep DEF n

\* The snapshot of a rewrite has the total of the one below it.
LEMMA CommitRewriteKeepsIInv ==
  ASSUME IInv, NEW r \in Runs, CommitRewrite(r)
  PROVE  IInv'
<1>1. stage[r] = "rewriting"
  BY DEF CommitRewrite
<1>2. view[r] \in Versions
  BY <1>1 DEF IInv, RunInv, RunOf, ViewOf, AfterFence
<1>3. PICK removed \in 1 .. FilesLeft(r) :
        \E added \in {1, removed + 1} : Commit(r, 0, removed, added)
  BY DEF CommitRewrite
<1> PICK added \in {1, removed + 1} : Commit(r, 0, removed, added)
  BY <1>3
<1>4. Latest.files \in Nat
  <2>1. Latest \in Snapshots
    BY DEF IInv, HistoryInv, FirstInOrder, TypeOK, Versions, Latest
  <2>2. QED
    BY <2>1 DEF Snapshots
<1>5. FilesLeft(r) \in Int /\ FilesLeft(r) <= Latest.files
  BY <1>2, FilesLeftAreThere DEF IInv
<1>6. removed \in Nat /\ added \in Nat /\ added > 0 /\ removed <= Latest.files
  BY <1>4, <1>5
<1>7. removed < Latest.files + added
  BY <1>4, <1>6
<1>8. RunSets(r, "rewritten", expected[r], Len(history) + 1, pre[r], post[r])
  BY DEF CommitRewrite, Goto, RunSets, IInv, TypeOK
<1>9. QED
  BY <1>1, <1>3, <1>6, <1>7, <1>8, RunCommitKeepsIInv

\* So has the snapshot of rewritten manifests.
LEMMA RewriteManifestsKeepsIInv ==
  ASSUME IInv, NEW r \in Runs, RewriteManifests(r)
  PROVE  IInv'
<1>1. stage[r] = "rewritten"
  BY DEF RewriteManifests
<1>2. CASE Commit(r, 0, 0, 0) /\ view' = [view EXCEPT ![r] = Len(history) + 1]
  <2>1. Latest.files \in Nat \ {0}
    <3>1. Latest \in Snapshots
      BY DEF IInv, HistoryInv, FirstInOrder, TypeOK, Versions, Latest
    <3>2. QED
      BY <3>1 DEF Snapshots
  <2>2. 0 \in Nat /\ 0 < Latest.files + 0
    BY <2>1
  <2>3. RunSets(r, "compacted", expected[r], Len(history) + 1, pre[r], post[r])
    BY <1>2 DEF RewriteManifests, Goto, RunSets, IInv, TypeOK
  <2>4. QED
    BY <1>1, <1>2, <2>2, <2>3, RunCommitKeepsIInv
<1>3. CASE UNCHANGED <<tableVars, view>>
  <2>1. RunSets(r, "compacted", expected[r], view[r], pre[r], post[r]) /\ UNCHANGED tableVars
    BY <1>3 DEF RewriteManifests, Goto, RunSets, IInv, TypeOK
  <2>2. history' = history /\ Versions' = Versions /\ Rewrites' = Rewrites
    BY <2>1 DEF tableVars, Versions, Rewrites
  <2>3. /\ stage'[r] = "compacted" /\ expected'[r] = expected[r] /\ view'[r] = view[r]
        /\ pre'[r] = pre[r]
    BY <2>1 DEF RunSets, IInv, TypeOK
  <2>4. RunOf(r)'
    <3>1. BeforeOf(r)'
      BY <1>1, <2>2, <2>3 DEF BeforeOf, Remembers, AfterFence, IInv, RunInv, RunOf
    <3>2. ViewOf(r)'
      BY <1>1, <2>2, <2>3 DEF ViewOf, AfterFence, IInv, RunInv, RunOf
    <3>3. AfterOf(r)' /\ ReceiptOf(r)'
      BY <2>3 DEF AfterOf, ReceiptOf
    <3>4. CommitsOf(r)'
      BY <2>2, <2>3 DEF CommitsOf, IInv, RunInv, RunOf, BeforeCommit
    <3>5. QED
      BY <3>1, <3>2, <3>3, <3>4 DEF RunOf
  <2>5. /\ "compacted" \in Stages /\ expected[r] \in 0 .. Len(history)
        /\ view[r] \in 0 .. Len(history) /\ pre[r] \in Metrics /\ post[r] \in Metrics
    BY DEF IInv, TypeOK, Stages
  <2>6. QED
    BY <2>1, <2>4, <2>5, ReadStep
<1>4. QED
  BY <1>2, <1>3 DEF RewriteManifests

\* The snapshot measured afterwards is none before the one measured first: it
\* is the last in clock order of a version at least as new.
LEMMA ReadAfterSnapshotKeepsIInv ==
  ASSUME IInv, NEW r \in Runs, ReadAfterSnapshot(r)
  PROVE  IInv'
<1>1. stage[r] = "compacted" /\ UNCHANGED tableVars
  BY DEF ReadAfterSnapshot
<1>2. PICK v \in Visible(r) : /\ view' = [view EXCEPT ![r] = v]
                              /\ post' = [post EXCEPT ![r] = MetricsAt(v)]
  BY DEF ReadAfterSnapshot
<1>3. view[r] \in Versions /\ pre[r].snapshot <= view[r] /\ Remembers(pre[r])
  BY <1>1 DEF IInv, RunInv, RunOf, BeforeOf, ViewOf, AfterFence
<1>4. v \in Versions /\ pre[r].snapshot \in 1 .. v /\ v \in 0 .. Len(history)
  BY <1>3 DEF IInv, TypeOK, Versions, Visible, Remembers
<1>5. /\ MetricsAt(v) \in Metrics /\ Remembers(MetricsAt(v))
      /\ MetricsAt(v).snapshot \in 1 .. v
      /\ pre[r].snapshot <= MetricsAt(v).snapshot
  BY <1>3, <1>4, MetricsAtVersion DEF IInv, HistoryInv, Remembers
<1> DEFINE a == MetricsAt(v)
<1>6. RunSets(r, "remeasured", expected[r], v, pre[r], a)
  BY <1>2 DEF ReadAfterSnapshot, Goto, RunSets, IInv, TypeOK
<1> HIDE DEF a
<1>7. history' = history /\ Versions' = Versions /\ Rewrites' = Rewrites
  BY <1>1 DEF tableVars, Versions, Rewrites
<1>8. /\ stage'[r] = "remeasured" /\ expected'[r] = expected[r] /\ view'[r] = v
      /\ pre'[r] = pre[r] /\ post'[r] = a
  BY <1>6 DEF RunSets, IInv, TypeOK
<1>9. RunOf(r)'
  <2>1. BeforeOf(r)'
    BY <1>1, <1>7, <1>8 DEF BeforeOf, Remembers, AfterFence, IInv, RunInv, RunOf
  <2>2. AfterOf(r)'
    BY <1>5, <1>7, <1>8 DEF AfterOf, Remembers, a
  <2>3. ViewOf(r)'
    BY <1>4, <1>5, <1>7, <1>8 DEF ViewOf, a
  <2>4. ReceiptOf(r)'
    BY <1>8 DEF ReceiptOf
  <2>5. CommitsOf(r)'
    BY <1>7, <1>8 DEF CommitsOf, IInv, RunInv, RunOf, BeforeCommit
  <2>6. QED
    BY <2>1, <2>2, <2>3, <2>4, <2>5 DEF RunOf
<1>10. /\ "remeasured" \in Stages /\ expected[r] \in 0 .. Len(history) /\ pre[r] \in Metrics
       /\ a \in Metrics
  BY <1>5 DEF IInv, TypeOK, Stages, a
<1>11. QED
  BY <1>1, <1>4, <1>6, <1>9, <1>10, ReadStep

\* The last measurement decides about the receipt.
LEMMA ReadAfterFilesKeepsIInv ==
  ASSUME IInv, NEW r \in Runs, ReadAfterFiles(r)
  PROVE  IInv'
<1>1. stage[r] = "remeasured"
  BY DEF ReadAfterFiles
<1>2. PICK v \in Visible(r) :
        \/ /\ Acceptable(r, history[v].files)
           /\ view' = [view EXCEPT ![r] = 0]
           /\ post' = [post EXCEPT ![r].files = history[v].files]
           /\ Goto(r, "succeeded")
           /\ UNCHANGED <<tableVars, expected, pre>>
        \/ End(r)
  BY DEF ReadAfterFiles
<1>3. CASE End(r)
  BY <1>3, EndKeepsIInv
<1>4. CASE /\ Acceptable(r, history[v].files)
           /\ view' = [view EXCEPT ![r] = 0]
           /\ post' = [post EXCEPT ![r].files = history[v].files]
           /\ Goto(r, "succeeded")
           /\ UNCHANGED <<tableVars, expected, pre>>
  <2> DEFINE a == [post[r] EXCEPT !.files = history[v].files]
  <2>1. /\ view[r] \in Versions /\ post[r].snapshot <= view[r]
        /\ Remembers(post[r]) /\ pre[r].snapshot <= post[r].snapshot
    BY <1>1 DEF IInv, RunInv, RunOf, AfterOf, ViewOf, AfterFence
  <2>2. v \in Versions /\ v \in post[r].snapshot .. Len(history)
    BY <2>1 DEF IInv, TypeOK, Versions, Visible, Remembers
  <2>3. history[v].files \in Nat
    <3>1. history[v] \in Snapshots
      BY <2>2 DEF IInv, TypeOK, Versions
    <3>2. QED
      BY <3>1 DEF Snapshots
  <2>4. post[r] \in Metrics
    BY DEF IInv, TypeOK
  <2>5. /\ a \in Metrics /\ a.snapshot = post[r].snapshot /\ a.rows = post[r].rows
        /\ a.files = history[v].files
    BY <2>3, <2>4 DEF Metrics
  <2>6. RunSets(r, "succeeded", expected[r], 0, pre[r], a)
    BY <1>4 DEF Goto, RunSets, IInv, TypeOK
  <2> HIDE DEF a
  <2>7. UNCHANGED tableVars /\ history' = history /\ Versions' = Versions /\ Rewrites' = Rewrites
    BY <1>4 DEF tableVars, Versions, Rewrites
  <2>8. /\ stage'[r] = "succeeded" /\ expected'[r] = expected[r]
        /\ pre'[r] = pre[r] /\ post'[r] = a
    BY <2>6 DEF RunSets, IInv, TypeOK
  <2>9. RunOf(r)'
    <3>1. BeforeOf(r)'
      BY <1>1, <2>7, <2>8 DEF BeforeOf, Remembers, AfterFence, IInv, RunInv, RunOf
    <3>2. AfterOf(r)'
      BY <2>1, <2>5, <2>7, <2>8 DEF AfterOf, Remembers
    <3>3. ViewOf(r)'
      BY <2>8 DEF ViewOf
    <3>4. ReceiptOf(r)'
      BY <1>4, <2>2, <2>5, <2>7, <2>8 DEF ReceiptOf, Acceptable
    <3>5. CommitsOf(r)'
      BY <2>7, <2>8 DEF CommitsOf, IInv, RunInv, RunOf, BeforeCommit
    <3>6. QED
      BY <3>1, <3>2, <3>3, <3>4, <3>5 DEF RunOf
  <2>10. /\ "succeeded" \in Stages /\ expected[r] \in 0 .. Len(history) /\ pre[r] \in Metrics
         /\ 0 \in 0 .. Len(history)
    BY DEF IInv, TypeOK, Stages
  <2>11. QED
    BY <2>5, <2>6, <2>7, <2>9, <2>10, ReadStep
<1>5. QED
  BY <1>2, <1>3, <1>4

\* The loader and whoever writes the hint.
LEMMA OthersKeepIInv ==
  ASSUME IInv, LoaderAppends \/ WriteHint
  PROVE  IInv'
<1>1. UNCHANGED <<stage, expected, view, pre, post>>
  BY DEF LoaderAppends, WriteHint
<1>2. /\ HistoryInv' /\ HistoryGrows /\ hint' \in 0 .. Len(history')
      /\ \A r \in Runs : NoCommitOf(r)
  <2>1. CASE LoaderAppends
    <3>1. Latest.files \in Nat
      <4>1. Latest \in Snapshots
        BY DEF IInv, HistoryInv, FirstInOrder, TypeOK, Versions, Latest
      <4>2. QED
        BY <4>1 DEF Snapshots
    <3>2. 0 < Latest.files + 1
      BY <3>1
    <3>3. Commit(Loader, 1, 0, 1)
      BY <2>1 DEF LoaderAppends
    <3>4. Loader \notin Runs /\ Loader \in Runs \cup {Loader}
      BY CompactionAssumption
    <3>5. /\ HistoryInv' /\ HistoryGrows /\ hint' = hint /\ Len(history') = Len(history) + 1
          /\ \A r \in Runs : r # Loader => NoCommitOf(r)
      BY <3>2, <3>3, <3>4, CommitGrows DEF IInv
    <3>6. QED
      BY <3>4, <3>5 DEF IInv, TypeOK
  <2>2. CASE WriteHint
    <3>1. history' = history /\ hint' = Len(history)
      BY <2>2 DEF WriteHint
    <3>2. HistoryInv' /\ HistoryGrows /\ \A r \in Runs : NoCommitOf(r)
      BY <3>1, TableUnchanged DEF IInv
    <3>3. QED
      BY <3>1, <3>2 DEF IInv, TypeOK
  <2>3. QED
    BY <2>1, <2>2
<1>3. TypeOK'
  <2>1. Len(history) \in Nat /\ Len(history') \in Nat /\ Len(history') >= Len(history)
    BY <1>2 DEF IInv, TypeOK, HistoryGrows
  <2>2. 0 .. Len(history) \subseteq 0 .. Len(history')
    BY <2>1
  <2>3. Metrics \subseteq Metrics'
    BY <2>2 DEF Metrics
  <2>4. {expected, view} \subseteq [Runs -> 0 .. Len(history')]
    BY <2>2 DEF IInv, TypeOK
  <2>5. {pre, post} \subseteq [Runs -> Metrics']
    BY <2>3 DEF IInv, TypeOK
  <2>6. QED
    BY <1>1, <1>2, <2>4, <2>5 DEF IInv, TypeOK, HistoryGrows, Snapshots
<1>4. \A r \in Runs : RunKeeps(r)
  BY <1>1 DEF RunKeeps
<1>5. \A r \in Runs : RunOf(r)'
  BY <1>2, <1>4, RunUndisturbed DEF IInv, RunInv
<1>6. QED
  BY <1>2, <1>3, <1>5 DEF IInv, RunInv

\* At first there is one snapshot, and no run.
LEMMA InitIInv == Init => IInv
<1> SUFFICES ASSUME Init PROVE IInv
  OBVIOUS
<1>1. PICK n \in 1 .. InitialFiles : history = <<Snapshot(Loader, n, n, 0, FALSE)>>
  BY DEF Init
<1>2. n \in Nat \ {0}
  BY CompactionAssumption
<1> DEFINE s == Snapshot(Loader, n, n, 0, FALSE)
<1>3. s \in Snapshots /\ ~s.behind
  BY <1>2 DEF Snapshot, Snapshots
<1> HIDE DEF s
<1>4. history \in Seq(Snapshots) /\ Len(history) = 1 /\ history[1] = s
  <2>1. history = <<s>>
    BY <1>1 DEF s
  <2>2. QED
    BY <1>3, <2>1
<1>5. Versions = {1}
  BY <1>4 DEF Versions
<1>6. HistoryInv
  <2>1. Rewrites = {}
    BY <1>5 DEF Rewrites
  <2>2. s.rows \in Nat /\ s.files \in Nat /\ s.removed \in Nat
    BY <1>3 DEF Snapshots
  <2>3. FirstInOrder
    BY <1>3, <1>4, <1>5 DEF FirstInOrder
  <2>4. RowsGrow /\ AppendsRaiseRows /\ FilesAccounted /\ OnlyRewritesShrink
    BY <1>4, <1>5, <2>2 DEF RowsGrow, AppendsRaiseRows, FilesAccounted, OnlyRewritesShrink
  <2>5. RewritesAreRuns
    BY <2>1 DEF RewritesAreRuns
  <2>6. QED
    BY <2>3, <2>4, <2>5 DEF HistoryInv
<1>7. TypeOK
  <2>1. NoMetrics \in Metrics
    BY <1>4 DEF NoMetrics, Metrics
  <2>2. 0 \in 0 .. Len(history)
    BY <1>4
  <2>3. /\ stage = [r \in Runs |-> "preflight"]
        /\ expected = [r \in Runs |-> 0] /\ view = [r \in Runs |-> 0]
        /\ pre = [r \in Runs |-> NoMetrics] /\ post = [r \in Runs |-> NoMetrics]
        /\ hint = 0
    BY DEF Init
  <2>4. "preflight" \in Stages
    BY DEF Stages
  <2>5. /\ stage \in [Runs -> Stages]
        /\ expected \in [Runs -> 0 .. Len(history)] /\ view \in [Runs -> 0 .. Len(history)]
        /\ pre \in [Runs -> Metrics] /\ post \in [Runs -> Metrics]
    BY <2>1, <2>2, <2>3, <2>4
  <2>6. QED
    BY <1>4, <2>2, <2>3, <2>5 DEF TypeOK
<1>8. RunInv
  <2> SUFFICES ASSUME NEW r \in Runs PROVE RunOf(r)
    BY DEF RunInv
  <2>1. stage[r] = "preflight"
    BY DEF Init
  <2>2. history[1].by # r /\ history[1].by = Loader
    BY <1>4, CompactionAssumption DEF s, Snapshot
  <2>3. CommitsOf(r)
    BY <1>5, <2>2 DEF CommitsOf
  <2>4. BeforeOf(r) /\ AfterOf(r) /\ ViewOf(r) /\ ReceiptOf(r)
    BY <2>1 DEF BeforeOf, AfterOf, ViewOf, ReceiptOf, AfterFence
  <2>5. QED
    BY <2>3, <2>4 DEF RunOf
<1>9. QED
  BY <1>6, <1>7, <1>8 DEF IInv

-----------------------------------------------------------------------------
(* Theorems.                                                               *)

\* The invariant the other theorems rest on, of every reachable state.
THEOREM InductiveInvariant == Spec => []IInv
<1>1. IInv /\ [Next]_vars => IInv'
  <2> SUFFICES ASSUME IInv, [Next]_vars PROVE IInv'
    OBVIOUS
  <2>1. CASE LoaderAppends \/ WriteHint
    BY <2>1, OthersKeepIInv
  <2>2. ASSUME NEW r \in Runs, Submitter(r) PROVE IInv'
    BY <2>2, SubmitterKeepsIInv
  <2>3. ASSUME NEW r \in Runs, Batch(r) PROVE IInv'
    BY <2>3, ReadBeforeSnapshotKeepsIInv, ReadBeforeFilesKeepsIInv, EndKeepsIInv,
       PlanKeepsIInv, CommitRewriteKeepsIInv, RewriteManifestsKeepsIInv,
       ReadAfterSnapshotKeepsIInv, ReadAfterFilesKeepsIInv
       DEF Batch, StopAtFence
  <2>4. ASSUME NEW r \in Runs, Fail(r) PROVE IInv'
    BY <2>4, EndKeepsIInv DEF Fail
  <2>5. CASE UNCHANGED vars
    <3>1. /\ UNCHANGED <<history, hint>> /\ Versions' = Versions /\ Rewrites' = Rewrites
          /\ Metrics' = Metrics
      BY <2>5 DEF vars, Versions, Rewrites, Metrics
    <3>2. TypeOK'
      BY <2>5, <3>1 DEF IInv, TypeOK, vars, Snapshots
    <3>3. /\ HistoryInv' /\ HistoryGrows /\ \A r \in Runs : NoCommitOf(r)
      BY <3>1, TableUnchanged DEF IInv
    <3>4. \A r \in Runs : RunKeeps(r)
      BY <2>5 DEF vars, RunKeeps
    <3>5. \A r \in Runs : RunOf(r)'
      BY <3>3, <3>4, RunUndisturbed DEF IInv, RunInv
    <3>6. QED
      BY <3>2, <3>3, <3>5 DEF IInv, RunInv
  <2>6. QED
    BY <2>1, <2>2, <2>3, <2>4, <2>5 DEF Next
<1>2. QED
  BY InitIInv, <1>1, PTL DEF Spec

\* In particular a table with rows keeps a data file, however many rewrites
\* overlap: the validation of a rewrite against those since its plan.
THEOREM TypeCorrectness == Spec => []TypeOK
<1>1. IInv => TypeOK
  BY DEF IInv
<1>2. QED
  BY <1>1, InductiveInvariant, PTL

\* No append lies between the snapshot expected and the one measured afterwards
\* when the totals agree.
LEMMA EqualTotals ==
  ASSUME IInv, NEW r \in Runs, stage[r] = "succeeded"
  PROVE  /\ expected[r] = pre[r].snapshot
         /\ pre[r].snapshot \in Versions /\ post[r].snapshot \in Versions
         /\ pre[r].snapshot < post[r].snapshot
         /\ \A v \in pre[r].snapshot + 1 .. post[r].snapshot : history[v].by # Loader
<1> DEFINE p == pre[r].snapshot
           q == post[r].snapshot
<1>1. /\ Remembers(pre[r]) /\ p = expected[r]
      /\ Remembers(post[r]) /\ p <= q /\ p # q /\ post[r].rows = pre[r].rows
  BY DEF IInv, RunInv, RunOf, BeforeOf, AfterOf, ReceiptOf, AfterFence
<1>2. p \in Versions /\ q \in Versions /\ p < q /\ history[p].rows = history[q].rows
  BY <1>1 DEF Remembers, Versions
<1>3. \A v \in p + 1 .. q : history[v].by # Loader
  <2> SUFFICES ASSUME NEW v \in p + 1 .. q, history[v].by = Loader
               PROVE  FALSE
    OBVIOUS
  <2>1. v \in Versions /\ p < v /\ v <= q
    BY <1>2 DEF IInv, TypeOK, Versions
  <2>2. history[p].rows < history[v].rows /\ history[v].rows <= history[q].rows
    BY <1>2, <2>1 DEF IInv, HistoryInv, AppendsRaiseRows, RowsGrow
  <2>3. history[p] \in Snapshots /\ history[v] \in Snapshots
    BY <1>2, <2>1 DEF IInv, TypeOK, Versions
  <2>4. history[p].rows \in Nat /\ history[v].rows \in Nat
    BY <2>3 DEF Snapshots
  <2>5. QED
    BY <1>2, <2>2, <2>4
<1>4. QED
  BY <1>1, <1>2, <1>3

\* A receipt vouches for a table nobody appended to between the snapshot the
\* preflight expected and the one it names (compact_table.py:88 and 110).
THEOREM ReceiptsMeanUndisturbed == Spec => []ReceiptMeansUndisturbed
<1>1. IInv => ReceiptMeansUndisturbed
  BY EqualTotals DEF ReceiptMeansUndisturbed
<1>2. QED
  BY <1>1, InductiveInvariant, PTL

\* A receipt names a snapshot with fewer files than the one it started from,
\* unless another run has committed in between.
THEOREM ReceiptsAreEarned == Spec => []ReceiptIsEarned
<1>1. IInv => ReceiptIsEarned
  <2> SUFFICES ASSUME IInv, NEW r \in Runs, stage[r] = "succeeded",
                      \A v \in pre[r].snapshot + 1 .. Len(history) : history[v].by \notin Runs \ {r}
               PROVE  history[post[r].snapshot].files < history[pre[r].snapshot].files
    BY DEF ReceiptIsEarned
  <2> DEFINE p == pre[r].snapshot
             q == post[r].snapshot
             n == Len(history)
  <2>1. p \in Versions /\ q \in Versions /\ p < q
    BY EqualTotals
  <2>2. n \in Nat /\ Versions = 1 .. n
    BY DEF IInv, TypeOK, Versions
  <2>3. \A v \in Versions : /\ history[v].by \in Runs \cup {Loader}
                            /\ history[v].files \in Nat
    <3> TAKE v \in Versions
    <3>1. history[v] \in Snapshots
      BY DEF IInv, TypeOK, Versions
    <3>2. QED
      BY <3>1 DEF Snapshots
  <2>4. p + 1 \in Versions /\ history[p + 1].by = r
    <3>1. p + 1 \in p + 1 .. q /\ p + 1 \in p + 1 .. n /\ p + 1 \in Versions
      BY <2>1, <2>2
    <3>2. history[p + 1].by # Loader
      BY <3>1, EqualTotals
    <3>3. QED
      BY <2>3, <3>1, <3>2
  <2>5. pre[r].files = history[p].files
    BY <2>4 DEF IInv, RunInv, RunOf, BeforeOf, AfterFence
  <2>6. PICK v \in q .. n : history[v].files = post[r].files
    BY DEF IInv, RunInv, RunOf, ReceiptOf
  <2>7. history[v].files < history[p].files
    BY <2>5, <2>6 DEF IInv, RunInv, RunOf, ReceiptOf
  <2>8. v \in Versions /\ v \in Nat /\ q \in Nat
    BY <2>1, <2>2
  <2> HIDE DEF p, q, n
  <2>9. SUFFICES ASSUME ~ (history[q].files < history[p].files) PROVE FALSE
    BY DEF p, q
  <2>10. history[v].files < history[q].files
    BY <2>1, <2>3, <2>7, <2>8, <2>9
  <2>11. PICK w \in q + 1 .. v : w \in Rewrites
    BY <2>1, <2>6, <2>8, <2>10 DEF IInv, HistoryInv, OnlyRewritesShrink
  <2>12. w \in p + 1 .. n /\ w \in Versions /\ w > p + 1
    BY <2>1, <2>2, <2>6, <2>8
  <2>13. history[w].by = r
    BY <2>11, <2>12 DEF IInv, HistoryInv, RewritesAreRuns, p, n
  <2>14. w <= p + 1
    BY <2>4, <2>11, <2>12, <2>13 DEF IInv, RunInv, RunOf, CommitsOf
  <2>15. QED
    BY <2>1, <2>2, <2>12, <2>14
<1>2. QED
  BY <1>1, InductiveInvariant, PTL
=============================================================================
