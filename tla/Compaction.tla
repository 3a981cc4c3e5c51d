----------------------------- MODULE Compaction -----------------------------
(***************************************************************************)
(* Ad hoc compaction: the preflight of scripts/submit_compaction.py and    *)
(* the Spark batch of iceberg-maintenance/compact_table.py, against a      *)
(* loader that appends whenever it likes and against each other: nothing   *)
(* stops an operator from submitting a second run.                         *)
(*                                                                         *)
(* Nothing is locked. The two fences and the checks after the rewrite are  *)
(* comparisons of values read earlier, and every read may be out of date:  *)
(*   - version-hint.text is written after the commit it announces, or not  *)
(*     at all if its writer dies first;                                    *)
(*   - a Spark session keeps the table it loaded for a while;              *)
(*   - the batch takes the snapshot with the latest committed_at for the   *)
(*     current one, and the clocks of two writers may differ;              *)
(*   - a snapshot and the number of its files come from two queries.       *)
(***************************************************************************)
EXTENDS Naturals, Sequences, FiniteSetsExt

CONSTANTS
  Runs,         \* submissions of a compaction
  Loader,       \* the writer that appends
  InitialFiles, \* bound: appends before
  MaxAppends,   \* bound: appends meanwhile
  MaxSnapshots, \* bound: versions of the table
  MaxBehind     \* bound: snapshots with a timestamp behind an earlier one

ASSUME CompactionAssumption ==
  /\ Loader \notin Runs
  /\ InitialFiles \in Nat \ {0}
  /\ {MaxAppends, MaxSnapshots, MaxBehind} \subseteq Nat

VARIABLES
  history,      \* the snapshots of the table; a version is an index into it
  hint,         \* version-hint.text, 0 before it is first written
  stage,        \* per run: where the submitter, then its batch, stands
  expected,     \* per run: expected-snapshot-id
  view,         \* per run: the version its Spark session has loaded
  pre, post     \* per run: what snapshot_metrics returned before and after

tableVars == <<history, hint>>
vars == <<history, hint, stage, expected, view, pre, post>>

Versions == 1 .. Len(history)

\* No metrics yet, or a snapshot whose files are not counted yet.
NoMetrics == [snapshot |-> 0, rows |-> 0, files |-> 0]

\* A run ends without a receipt when it is refused, dry or failed.
Stages == {"preflight", "window", "passed",
           "measured", "fenced", "rewriting", "rewritten", "compacted", "remeasured",
           "succeeded", "ended"}

-----------------------------------------------------------------------------
(* The table: HadoopCatalog.                                               *)

\* A snapshot says who committed it, how many appends its rows come from (an
\* append has at least one row, so totals differ exactly when these do), how
\* many data files it has, how many rewrites have removed up to it, and whether
\* its timestamp is behind that of an earlier snapshot.
Snapshot(by, rows, files, removed, behind) ==
  [by |-> by, rows |-> rows, files |-> files, removed |-> removed, behind |-> behind]

Latest == history[Len(history)]

Timestamps ==
  IF Cardinality({v \in Versions : history[v].behind}) < MaxBehind THEN BOOLEAN ELSE {FALSE}

\* A commit goes on top of the latest version, whatever its writer had read.
Commit(by, rows, removed, added) ==
  /\ Len(history) < MaxSnapshots
  /\ \E behind \in Timestamps :
       history' = Append(history,
         Snapshot(by, Latest.rows + rows, Latest.files - removed + added,
                  Latest.removed + removed, behind))
  /\ UNCHANGED hint

\* writer.append of the loader; an empty input commits nothing (IcebergWriter.java:62).
LoaderAppends ==
  /\ Cardinality({v \in Versions : v > 1 /\ history[v].by = Loader}) < MaxAppends
  /\ Commit(Loader, 1, 0, 1)
  /\ UNCHANGED <<stage, expected, view, pre, post>>

\* The writer of the latest version gets to this, unless it dies first.
WriteHint ==
  /\ hint' = Len(history)
  /\ UNCHANGED <<history, stage, expected, view, pre, post>>

-----------------------------------------------------------------------------
(* The submitter.                                                          *)

Goto(r, s) == stage' = [stage EXCEPT ![r] = s]

\* A process that ends without a receipt leaves nothing behind but its commits.
End(r) ==
  /\ Goto(r, "ended")
  /\ expected' = [expected EXCEPT ![r] = 0]
  /\ view' = [view EXCEPT ![r] = 0]
  /\ pre' = [pre EXCEPT ![r] = NoMetrics]
  /\ post' = [post EXCEPT ![r] = NoMetrics]
  /\ UNCHANGED tableVars

\* read() sees the version the hint names, however old.
ReadFirst(r) ==
  /\ stage[r] = "preflight"
  /\ hint > 0
  /\ expected' = [expected EXCEPT ![r] = hint]
  /\ \E next \in {"passed", "window"} : Goto(r, next)    \* run_now or not
  /\ UNCHANGED <<tableVars, view, pre, post>>

\* The deadline has not passed: sleep, read, compare. No change, no step.
SampleDiffers(r) ==
  /\ stage[r] = "window"
  /\ hint # expected[r]
  /\ End(r)

\* The deadline has passed, after samples that all agreed.
WindowOver(r) ==
  /\ stage[r] = "window"
  /\ Goto(r, "passed")
  /\ UNCHANGED <<tableVars, expected, view, pre, post>>

\* Without --confirm the preflight is all.
DryRun(r) ==
  /\ stage[r] = "passed"
  /\ End(r)

-----------------------------------------------------------------------------
(* The batch.                                                              *)

\* ORDER BY committed_at DESC LIMIT 1, of the table as of version v.
NewestByClock(v) == Max({u \in 1 .. v : ~history[u].behind})

\* What a session may see: what it has loaded, or anything since.
Visible(r) == view[r] .. Len(history)

MetricsAt(v) ==
  LET s == NewestByClock(v) IN [snapshot |-> s, rows |-> history[s].rows, files |-> 0]

\* With --confirm the batch is submitted. Its session loads the table as it is.
ReadBeforeSnapshot(r) ==
  /\ stage[r] = "passed"
  /\ view' = [view EXCEPT ![r] = Len(history)]
  /\ pre' = [pre EXCEPT ![r] = MetricsAt(Len(history))]
  /\ Goto(r, "measured")
  /\ UNCHANGED <<tableVars, expected, post>>

\* Mutant of Fenced: the batch trusts the preflight.
Unfenced(r) == TRUE

Fenced(r) == pre[r].snapshot = expected[r]

ReadBeforeFiles(r) ==
  /\ stage[r] = "measured"
  /\ Fenced(r)
  /\ \E v \in Visible(r) :
       /\ view' = [view EXCEPT ![r] = v]
       /\ pre' = [pre EXCEPT ![r].files = history[v].files]
  /\ Goto(r, "fenced")
  /\ UNCHANGED <<tableVars, expected, post>>

StopAtFence(r) ==
  /\ stage[r] = "measured"
  /\ ~Fenced(r)
  /\ End(r)

\* CALL rewrite_data_files plans on a snapshot ...
PlanRewrite(r) ==
  /\ stage[r] = "fenced"
  /\ \E v \in Visible(r) : view' = [view EXCEPT ![r] = v]
  /\ Goto(r, "rewriting")
  /\ UNCHANGED <<tableVars, expected, pre, post>>

\* Mutant of FilesLeft: the commit is not validated against the rewrites since.
FilesPlanned(r) == history[view[r]].files

\* Files of the plan that no rewrite has removed since; a rewrite is taken to
\* remove the oldest.
FilesLeft(r) == history[view[r]].files - (Latest.removed - history[view[r]].removed)

\* ... and replaces files of it, if they are all still there. The files that
\* were appended meanwhile stay. It writes one file, or one more than it replaces.
CommitRewrite(r) ==
  /\ stage[r] = "rewriting"
  /\ \E removed \in 1 .. FilesLeft(r) : \E added \in {1, removed + 1} :
       Commit(r, 0, removed, added)
  /\ view' = [view EXCEPT ![r] = Len(history) + 1]
  /\ Goto(r, "rewritten")
  /\ UNCHANGED <<expected, pre, post>>

\* No group of files is worth rewriting, or none could be.
RewriteNothing(r) ==
  /\ stage[r] = "rewriting"
  /\ Goto(r, "rewritten")
  /\ UNCHANGED <<tableVars, expected, view, pre, post>>

\* CALL rewrite_manifests: a snapshot of its own, unless there is nothing to do.
RewriteManifests(r) ==
  /\ stage[r] = "rewritten"
  /\ \/ /\ Commit(r, 0, 0, 0)
        /\ view' = [view EXCEPT ![r] = Len(history) + 1]
     \/ UNCHANGED <<tableVars, view>>
  /\ Goto(r, "compacted")
  /\ UNCHANGED <<expected, pre, post>>

ReadAfterSnapshot(r) ==
  /\ stage[r] = "compacted"
  /\ \E v \in Visible(r) :
       /\ view' = [view EXCEPT ![r] = v]
       /\ post' = [post EXCEPT ![r] = MetricsAt(v)]
  /\ Goto(r, "remeasured")
  /\ UNCHANGED <<tableVars, expected, pre>>

\* Mutant of Acceptable: the totals are not compared.
AcceptableAtAnyTotal(r, files) ==
  /\ post[r].snapshot # pre[r].snapshot
  /\ files < pre[r].files

\* Mutant of Acceptable: as many files as before will do.
AcceptableIfNotMore(r, files) ==
  /\ post[r].snapshot # pre[r].snapshot
  /\ post[r].rows = pre[r].rows
  /\ files <= pre[r].files

\* What main checks; failed files have ended the run by now.
Acceptable(r, files) ==
  /\ post[r].snapshot # pre[r].snapshot
  /\ post[r].rows = pre[r].rows
  /\ files < pre[r].files

\* The receipt is there exactly when the run has succeeded.
ReadAfterFiles(r) ==
  /\ stage[r] = "remeasured"
  /\ \E v \in Visible(r) :
       IF Acceptable(r, history[v].files)
       THEN /\ view' = [view EXCEPT ![r] = 0]
            /\ post' = [post EXCEPT ![r].files = history[v].files]
            /\ Goto(r, "succeeded")
            /\ UNCHANGED <<tableVars, expected, pre>>
       ELSE End(r)

\* An exception or the end of the machine, at any point: no hint yet, a
\* conflicting commit, files that could not be rewritten, a snapshot without
\* total-records, a receipt that cannot be written. What the run has committed
\* stays.
Fail(r) ==
  /\ stage[r] \notin {"succeeded", "ended"}
  /\ End(r)

-----------------------------------------------------------------------------

\* The loader has appended; no earlier snapshot matters.
Init ==
  /\ \E n \in 1 .. InitialFiles : history = <<Snapshot(Loader, n, n, 0, FALSE)>>
  /\ hint = 0
  /\ stage = [r \in Runs |-> "preflight"]
  /\ expected = [r \in Runs |-> 0]
  /\ view = [r \in Runs |-> 0]
  /\ pre = [r \in Runs |-> NoMetrics]
  /\ post = [r \in Runs |-> NoMetrics]

Submitter(r) ==
  ReadFirst(r) \/ SampleDiffers(r) \/ WindowOver(r) \/ DryRun(r)

Batch(r) ==
  \/ ReadBeforeSnapshot(r) \/ ReadBeforeFiles(r) \/ StopAtFence(r)
  \/ PlanRewrite(r) \/ CommitRewrite(r) \/ RewriteNothing(r) \/ RewriteManifests(r)
  \/ ReadAfterSnapshot(r) \/ ReadAfterFiles(r)

Next ==
  \/ LoaderAppends
  \/ WriteHint
  \/ \E r \in Runs : Submitter(r) \/ Batch(r) \/ Fail(r)

Spec == Init /\ [][Next]_vars

-----------------------------------------------------------------------------
(* Properties.                                                             *)

Snapshots == [by : Runs \cup {Loader}, rows : Nat \ {0}, files : Nat \ {0},
              removed : Nat, behind : BOOLEAN]

Metrics == [snapshot : 0 .. Len(history), rows : Nat, files : Nat]

\* Every field has its type. In particular a table with rows keeps a data file
\* however two rewrites overlap, which is the validation of the commit.
TypeOK ==
  /\ history \in Seq(Snapshots)
  /\ hint \in 0 .. Len(history)
  /\ stage \in [Runs -> Stages]
  /\ {expected, view} \subseteq [Runs -> 0 .. Len(history)]
  /\ {pre, post} \subseteq [Runs -> Metrics]

\* A receipt vouches for a table nobody appended to between the snapshot the
\* preflight expected and the one it names, although each was the newest only
\* in some outdated view: the promise of the two fences and of the total-records
\* check (compact_table.py:88 and 110), with lagging hints, caches and clocks.
ReceiptMeansUndisturbed ==
  \A r \in Runs : stage[r] = "succeeded" =>
    /\ expected[r] < post[r].snapshot
    /\ \A v \in expected[r] + 1 .. post[r].snapshot : history[v].by # Loader

\* A receipt was earned: the snapshot it names has fewer files than the one it
\* started from, though the numbers it compares were read by later queries than
\* the snapshots (compact_table.py:29 and 38). Only another run that commits
\* in between can spoil that.
ReceiptIsEarned ==
  \A r \in Runs : stage[r] = "succeeded" =>
    \/ history[post[r].snapshot].files < history[pre[r].snapshot].files
    \/ \E v \in pre[r].snapshot + 1 .. Len(history) : history[v].by \in Runs \ {r}
=============================================================================
