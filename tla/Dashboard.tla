------------------------------ MODULE Dashboard ------------------------------
(***************************************************************************)
(* dashboard/export_metrics.py: a run of the exporter asks the logs of the *)
(* extractor and of the loader four questions, one after the other, reads  *)
(* the metadata of the table, and publishes a document that says how the   *)
(* pipeline does. It keeps nothing from one run to the next.               *)
(*                                                                         *)
(* Meanwhile the pipeline goes on: an answer may hold entries that are     *)
(* younger than the run, or miss what another answer shows; each question  *)
(* returns its newest entries only, of the last hours only.                *)
(*                                                                         *)
(* A timestamp in a log tells entries apart, so an entry is named by its   *)
(* position. A published timestamp is cut to the second: what happens at   *)
(* one of the Instants happens in one second. Instants are minutes in UTC, *)
(* as in MarketClock.                                                      *)
(***************************************************************************)
EXTENDS MarketClock, Sequences, FiniteSetsExt

CONSTANTS
  Instants,      \* bound: the minutes at which something happens
  QueryLimits,   \* LOG_QUERY_LIMITS
  LookbackHours, \* --lookback-hours
  HistoryLimit,  \* settings.history_limit
  MaxEntries,    \* bound: entries of both logs, those of the extractor count twice
  MaxMeanwhile,  \* bound: entries of both logs while a run reads
  MaxSessions,   \* bound: sessions of the extractor
  MaxProcesses   \* bound: processes of the loader

ASSUME DashboardAssumption ==
  /\ Instants # {} /\ Instants \subseteq Nat \ {0}
  /\ QueryLimits \in [{"extractor", "loader_heartbeats", "loader_commits",
                       "loader_failures"} -> Nat \ {0}]
  /\ LookbackHours \in 1 .. 36
  /\ HistoryLimit \in Nat \ {0}
  /\ {MaxEntries, MaxMeanwhile, MaxSessions, MaxProcesses} \subseteq Nat

VARIABLES
  now,      \* the present
  log,      \* the entries of "extractor" and of "loader"
  session,  \* the extractor
  loader,   \* the loader
  table,    \* rows of the version that version-hint.text names
  exporter, \* a run of main
  site      \* what is published: at most one document, and what it is about

pipelineVars == <<log, session, loader, table>>
vars == <<now, pipelineVars, exporter, site>>

NoRun == [step |-> 0, now |-> 0, read |-> [extractor |-> {}, loader |-> {}],
          seen |-> [extractor |-> 0, loader |-> 0]]

Never == 0   \* None, of a timestamp
Unknown == 0 \* None, of a number of bars

-----------------------------------------------------------------------------
(* The pipeline.                                                           *)

\* An entry: when, what, which session or process, bars of its batch, the last
\* bar or the last commit it reports, and the state it reports.
Entry(event, origin, bars, stamp, state) ==
  [at |-> now, event |-> event, origin |-> origin, bars |-> bars,
   stamp |-> stamp, state |-> state]

Log(source, entry) ==
  /\ log' = [log EXCEPT ![source] = Append(@, entry)]
  /\ 2 * Len(log'.extractor) + Len(log'.loader) <= MaxEntries
  /\ exporter # NoRun =>
       Len(log'.extractor) + Len(log'.loader)
         <= exporter.seen.extractor + exporter.seen.loader + MaxMeanwhile

\* Whatever was on was killed, at the memory limit of the unit or the end of
\* TimeoutStopSec: it logged nothing more.
SessionStarts ==
  /\ session.id < MaxSessions
  /\ session' = [on |-> TRUE, id |-> session.id + 1, lastBar |-> Never, idle |-> FALSE]
  /\ UNCHANGED <<log, loader, table>>

\* The emitter, with or without a bar since it last ran.
Metrics ==
  /\ session.on
  /\ \E bar \in {session.lastBar, now} :
       /\ session' = [session EXCEPT !.lastBar = bar]
       /\ Log("extractor", Entry("metrics", session.id, Unknown, bar, "INFO"))
  /\ UNCHANGED <<loader, table>>

\* The watchdog logs a warning and cancels the token.
IdleWindow ==
  /\ session.on /\ ~session.idle
  /\ session' = [session EXCEPT !.idle = TRUE]
  /\ Log("extractor", Entry("idle window", session.id, Unknown, Never, "WARNING"))
  /\ UNCHANGED <<loader, table>>

ExtractorProblem ==
  /\ session.on
  /\ \E severity \in {"WARNING", "ERROR"} :
       Log("extractor", Entry("problem", session.id, Unknown, Never, severity))
  /\ UNCHANGED <<session, loader, table>>

\* After the watchdog, a signal or an error that ends the session.
FinalMetrics ==
  /\ session.on
  /\ session' = [session EXCEPT !.on = FALSE]
  /\ Log("extractor", Entry("final metrics", session.id, Unknown, session.lastBar, "INFO"))
  /\ UNCHANGED <<loader, table>>

Report(event, state) ==
  Log("loader", Entry(event, loader.id, Unknown, loader.lastCommit, state))

\* Mutant: the heartbeat of a new process still names the one before.
LoaderStartsUnnamed ==
  /\ loader.id < MaxProcesses
  /\ loader' = [stage |-> "running", id |-> loader.id + 1, lastCommit |-> Never, since |-> now,
                batch |-> 0]
  /\ Log("loader", Entry("heartbeat", loader.id, Unknown, Never, "starting"))
  /\ UNCHANGED <<session, table>>

\* Whatever ran before was stopped or killed, wherever it stood.
LoaderStarts ==
  /\ loader.id < MaxProcesses
  /\ loader' = [stage |-> "running", id |-> loader.id + 1, lastCommit |-> Never, since |-> now,
                batch |-> 0]
  /\ Log("loader", Entry("heartbeat", loader.id + 1, Unknown, Never, "starting"))
  /\ UNCHANGED <<session, table>>

\* LOADER_STALL_SECONDS
StallMinutes == 15

\* The lag of a loader without a commit for that long may have been positive all
\* along. The entry "stalled" that goes with a change to that state is asked for
\* by no query.
Heartbeat ==
  /\ loader.stage = "running"
  /\ \E state \in {"idle"} \cup (IF now - loader.since >= StallMinutes THEN {"stalled"} ELSE {}) :
       Report("heartbeat", state)
  /\ UNCHANGED <<session, loader, table>>

\* Every batch has another number of bars.
CommitStarted ==
  /\ loader.stage = "running"
  /\ LET bars == Len(log.loader) + 1
     IN  /\ loader' = [loader EXCEPT !.stage = "committing", !.batch = bars]
         /\ Log("loader", Entry("commit_started", loader.id, bars, loader.lastCommit,
                                "committing"))
  /\ UNCHANGED <<session, table>>

\* The Iceberg commit, up to version-hint.text.
Appends ==
  /\ loader.stage = "committing"
  /\ loader' = [loader EXCEPT !.stage = "appended"]
  /\ table' = table + loader.batch
  /\ UNCHANGED <<log, session>>

\* Mutant: success is reported before the Iceberg commit.
CommitSucceededEarly ==
  /\ loader.stage \in {"committing", "appended"}
  /\ loader' = [loader EXCEPT !.stage = "running", !.lastCommit = now, !.since = now]
  /\ Log("loader", Entry("commit_succeeded", loader.id, Unknown, now, "committing"))
  /\ UNCHANGED <<session, table>>

CommitSucceeded ==
  /\ loader.stage = "appended"
  /\ loader' = [loader EXCEPT !.stage = "running", !.lastCommit = now, !.since = now]
  /\ Log("loader", Entry("commit_succeeded", loader.id, Unknown, now, "committing"))
  /\ UNCHANGED <<session, table>>

\* A LoaderCommitException: of the data file, of Iceberg, of the offsets.
CommitFailed ==
  /\ loader.stage \in {"committing", "appended"}
  /\ loader' = [loader EXCEPT !.stage = "down"]
  /\ Report("commit_failed", "committing")
  /\ UNCHANGED <<session, table>>

\* Any other exception: of a poll, of a frame that does not decode.
LoaderFailed ==
  /\ loader.stage # "down"
  /\ loader' = [loader EXCEPT !.stage = "down"]
  /\ Report("loader_failed", IF loader.stage = "running" THEN "starting" ELSE "committing")
  /\ UNCHANGED <<session, table>>

\* A run takes less time than there is between two Instants.
Tick ==
  /\ exporter = NoRun
  /\ \E t \in Instants : t > now
  /\ now' = Min({t \in Instants : t > now})
  /\ UNCHANGED <<pipelineVars, exporter, site>>

Pipeline ==
  /\ \/ SessionStarts \/ Metrics \/ IdleWindow \/ ExtractorProblem
     \/ FinalMetrics
     \/ LoaderStarts \/ Heartbeat \/ CommitStarted \/ Appends
     \/ CommitSucceeded \/ CommitFailed \/ LoaderFailed
  /\ UNCHANGED <<now, exporter, site>>

-----------------------------------------------------------------------------
(* read_gcloud_logs: entries of a log by their positions.                  *)

Queries == <<"extractor", "loader_heartbeats", "loader_commits", "loader_failures">>

LogOf(query) == IF query = "extractor" THEN "extractor" ELSE "loader"

LoaderFailureEvents ==
  {"data_file_write_failed", "iceberg_commit_failed", "iceberg_commit_state_unknown",
   "offset_commit_failed", "loader_failed"}

\* fixed_log_filters. For the extractor: its two kinds of metrics, and all warnings.
Filter ==
  [extractor |-> {"metrics", "final metrics", "idle window", "problem"},
   loader_heartbeats |-> {"heartbeat"},
   loader_commits |-> {"commit_started", "commit_succeeded"},
   loader_failures |-> LoaderFailureEvents]

Newest(positions, limit) ==
  {p \in positions : Cardinality({q \in positions : q > p}) < limit}

Answer(query, entries, start) ==
  Newest({p \in DOMAIN entries : entries[p].event \in Filter[query] /\ entries[p].at >= start},
         QueryLimits[query])

\* datetime.now; "seen" is no part of the program: what the logs held then.
ExporterStarts ==
  /\ exporter = NoRun
  /\ exporter' = [NoRun EXCEPT !.step = 1, !.now = now,
                    !.seen = [source \in DOMAIN log |-> Len(log[source])]]
  /\ UNCHANGED <<now, pipelineVars, site>>

ReadLogs ==
  /\ exporter.step \in DOMAIN Queries
  /\ LET query == Queries[exporter.step]
         source == LogOf(query)
     IN  exporter' = [exporter EXCEPT !.step = @ + 1,
           !.read[source] = @ \cup Answer(query, log[source],
                                          exporter.now - LookbackHours * 60)]
  /\ UNCHANGED <<now, pipelineVars, site>>

\* gcloud fails, and with it the run: what is published stays.
ReadFails ==
  /\ exporter.step \in DOMAIN Queries
  /\ exporter' = NoRun
  /\ UNCHANGED <<now, pipelineVars, site>>

-----------------------------------------------------------------------------
(* build_snapshot: "events" are the positions read of a log.               *)

Latest(events) == Max(events \cup {0})

\* Mutant: any final metrics make a clean shutdown.
ExtractorSummaryOfAnySession(entries, events) ==
  LET metrics == {p \in events : entries[p].event \in {"metrics", "final metrics"}}
      latest == Latest(metrics)
      final == Latest({p \in events : entries[p].event = "final metrics"})
  IN  [status |-> IF final # 0 THEN "clean_shutdown" ELSE "observed",
       last_bar |-> IF latest = 0 THEN Never ELSE entries[latest].stamp,
       final_metrics_at |-> IF final # 0 THEN entries[final].at ELSE Never,
       shutdown_reason |-> "none"]

\* The position of the newest final metrics counts if no metrics are newer.
ExtractorSummary(entries, events) ==
  LET metrics == {p \in events : entries[p].event \in {"metrics", "final metrics"}}
      latest == Latest(metrics)
      final == Latest({p \in events : entries[p].event = "final metrics"})
      clean == final # 0 /\ final = latest
      idle == \E p \in events : entries[p].event = "idle window"
  IN  [status |-> CASE clean -> "clean_shutdown"
                    [] ~clean /\ latest # 0 -> "observed"
                    [] OTHER -> "no_recent_session",
       last_bar |-> IF latest = 0 THEN Never ELSE entries[latest].stamp,
       final_metrics_at |-> IF clean THEN entries[final].at ELSE Never,
       shutdown_reason |-> IF clean /\ idle THEN "idle_window" ELSE "none"]

\* Mutant: the events are not sorted, and come newest first.
PendingUnsorted(entries, events, success) ==
  LET met == {p \in events : /\ p > success
                             /\ entries[p].origin = entries[success].origin
                             /\ entries[p].event # "heartbeat"}
  IN  IF met # {} /\ entries[Min(met)].event = "commit_started"
      THEN entries[Min(met)].bars
      ELSE Unknown

\* What the loop over the sorted events has pending when it meets a success:
\* the last start of that process, unless an outcome came after it.
Pending(entries, events, success) ==
  LET earlier == {p \in events : /\ p < success
                                 /\ entries[p].origin = entries[success].origin
                                 /\ entries[p].event # "heartbeat"}
  IN  IF earlier # {} /\ entries[Latest(earlier)].event = "commit_started"
      THEN entries[Latest(earlier)].bars
      ELSE Unknown

LoaderSummary(entries, events) ==
  LET Of(kinds) == {p \in events : entries[p].event \in kinds}
      latest == Latest(events)
      process == IF latest = 0 THEN 0 ELSE entries[latest].origin
      heartbeat == Latest({p \in Of({"heartbeat"}) : entries[p].origin = process})
      successes == Of({"commit_succeeded"})
      failures == Of(LoaderFailureEvents)
      current == IF heartbeat # 0 THEN heartbeat ELSE latest
  IN  [status |-> IF current # 0 THEN "observed" ELSE "no_recent_signal",
       state |-> IF current # 0 THEN entries[current].state ELSE "none",
       process |-> process,
       latest_heartbeat |-> IF heartbeat # 0 THEN entries[heartbeat].at ELSE Never,
       last_commit |-> CASE successes # {} -> entries[Latest(successes)].stamp
                         [] successes = {} /\ current # 0 -> entries[current].stamp
                         [] OTHER -> Never,
       failure_count |-> Cardinality(failures),
       failure_count_is_capped |-> Cardinality(failures) = QueryLimits["loader_failures"],
       recent_commits |-> [p \in Newest(successes, HistoryLimit) |->
                             Pending(entries, events, p)]]

Alert(component, severity, position, at) ==
  [component |-> component, severity |-> severity, position |-> position, at |-> at]

\* _safe_alert, which leaves out the end of a session for want of bars, and _loader_alert.
Alerts(extractorLog, loaderLog, read) ==
  {Alert("extractor", extractorLog[p].state, p, extractorLog[p].at) :
     p \in {q \in read.extractor : extractorLog[q].event = "problem"}}
  \cup
  {Alert("loader", "ERROR", p, loaderLog[p].at) :
     p \in {q \in read.loader : loaderLog[q].event \in LoaderFailureEvents}}

-----------------------------------------------------------------------------
(* _health                                                                 *)

BarWarning == 5
BarUnhealthy == 10
CommitWarning == 10
CommitUnhealthy == 15
HeartbeatWarning == 5
HeartbeatUnhealthy == 10

\* Each of these judges: it takes a status with its reasons and returns another.
Verdict(status, reasons) == [status |-> status, reasons |-> reasons]

\* Mutant: what is aging hides what is stale.
ApplyFreshnessLast(verdict, name, value, t, warning, unhealthy) ==
  LET With(status, what) == Verdict(status, verdict.reasons \cup {<<what, name>>})
  IN  CASE value = Never -> With("unhealthy", "missing")
        [] value # Never /\ t - value > unhealthy -> With("unhealthy", "stale")
        [] value # Never /\ t - value \in warning + 1 .. unhealthy -> With("warning", "aging")
        [] OTHER -> verdict

ApplyFreshness(verdict, name, value, t, warning, unhealthy) ==
  LET With(status, what) == Verdict(status, verdict.reasons \cup {<<what, name>>})
  IN  CASE value = Never -> With("unhealthy", "missing")
        [] value # Never /\ t - value > unhealthy -> With("unhealthy", "stale")
        [] /\ value # Never /\ t - value \in warning + 1 .. unhealthy
           /\ verdict.status # "unhealthy" -> With("warning", "aging")
        [] OTHER -> verdict

MarketVerdict(state, t, extractor, loaded) ==
  CASE state = "market_open" ->
         ApplyFreshness(
           ApplyFreshness(Verdict("healthy", {}), "extractor_bar", extractor.last_bar, t,
                          BarWarning, BarUnhealthy),
           "loader_commit", loaded.last_commit, t, CommitWarning, CommitUnhealthy)
    [] state = "settling" /\ extractor.final_metrics_at = Never ->
         Verdict("warning", {<<"awaiting", "clean_shutdown">>})
    [] /\ state \in {"closed", "weekend", "pre_open"}
       /\ extractor.status = "no_recent_session" ->
         Verdict("unknown", {<<"no", "recent_session">>})
    [] OTHER -> Verdict("healthy", {})

\* Mutant: a heartbeat resolves a failure.
UnresolvedBeforeHeartbeat(alert, loaded) ==
  /\ alert.severity = "ERROR"
  /\ alert.component # "loader" \/ alert.at > loaded.latest_heartbeat

Unresolved(alert, loaded) ==
  /\ alert.severity = "ERROR"
  /\ \/ alert.component # "loader"
     \/ loaded.last_commit = Never
     \/ alert.at > loaded.last_commit

Health(state, t, extractor, loaded, alerts) ==
  LET heard == ApplyFreshness(MarketVerdict(state, t, extractor, loaded), "loader_heartbeat",
                              loaded.latest_heartbeat, t, HeartbeatWarning, HeartbeatUnhealthy)
      bad == (IF loaded.state = "stalled" THEN {<<"stalled", "loader">>} ELSE {})
             \cup (IF \E alert \in alerts : Unresolved(alert, loaded)
                   THEN {<<"recent", "error">>} ELSE {})
  IN  IF bad # {} THEN Verdict("unhealthy", heard.reasons \cup bad) ELSE heard

\* That the alerts are published, the newest of them, is left out.
BuildSnapshot(extractorLog, loaderLog, read, t, tableRows) ==
  LET extractor == ExtractorSummary(extractorLog, read.extractor)
      loaded == LoaderSummary(loaderLog, read.loader)
      alerts == Alerts(extractorLog, loaderLog, read)
  IN  [now |-> t,
       market |-> MarketAt(t),
       health |-> Health(MarketAt(t).state, t, extractor, loaded, alerts),
       extractor |-> extractor,
       loader |-> loaded,
       table |-> tableRows]

\* read_iceberg_table_metadata, through version-hint.text; it may fail.
ReadTable == {{table}, {}}

\* The table is read after the logs; a document without it is published as well.
Publish ==
  /\ exporter.step > Len(Queries)
  /\ \E rows \in ReadTable :
       site' = {[document |-> BuildSnapshot(log.extractor, log.loader, exporter.read,
                                            exporter.now, rows),
                 seen |-> exporter.seen]}
  /\ exporter' = NoRun
  /\ UNCHANGED <<now, pipelineVars>>

-----------------------------------------------------------------------------
Init ==
  /\ now = Min(Instants)
  /\ log = [source \in {"extractor", "loader"} |-> <<>>]
  /\ session = [on |-> FALSE, id |-> 0, lastBar |-> Never, idle |-> FALSE]
  /\ loader = [stage |-> "down", id |-> 0, lastCommit |-> Never, since |-> Never,
               batch |-> 0]
  /\ table = 0
  /\ exporter = NoRun
  /\ site = {}

Next ==
  \/ Tick
  \/ Pipeline
  \/ ExporterStarts
  \/ ReadLogs
  \/ ReadFails
  \/ Publish

Spec == Init /\ [][Next]_vars
-----------------------------------------------------------------------------
(* Properties. A snapshot is what a run publishes, with what the logs held *)
(* when the run began.                                                     *)

Stamps == Instants \cup {Never}

ExtractorEntries ==
  [at : Instants, event : {"metrics", "final metrics", "idle window", "problem"},
   origin : 1 .. MaxSessions, bars : {Unknown}, stamp : Stamps,
   state : {"INFO", "WARNING", "ERROR"}]

LoaderEntries ==
  [at : Instants,
   event : {"heartbeat", "commit_started", "commit_succeeded", "commit_failed", "loader_failed"},
   origin : 1 .. MaxProcesses, bars : 0 .. MaxEntries, stamp : Stamps,
   state : {"starting", "idle", "stalled", "committing"}]

\* The type of every variable; the exporter holds positions that exist.
TypeOK ==
  /\ now \in Instants
  /\ log.extractor \in Seq(ExtractorEntries)
  /\ log.loader \in Seq(LoaderEntries)
  /\ session \in [on : BOOLEAN, id : 0 .. MaxSessions, lastBar : Stamps, idle : BOOLEAN]
  /\ loader \in [stage : {"down", "running", "committing", "appended"},
                 id : 0 .. MaxProcesses, lastCommit : Stamps,
                 since : Stamps, batch : 0 .. MaxEntries]
  /\ table \in Nat
  /\ exporter.step \in 0 .. Len(Queries) + 1 /\ exporter.now \in Instants \cup {0}
  /\ \A source \in DOMAIN log :
       /\ exporter.read[source] \subseteq DOMAIN log[source]
       /\ exporter.seen[source] \in 0 .. Len(log[source])
  /\ Cardinality(site) <= 1

Documents == {snapshot.document : snapshot \in site}

\* The badge (public-dashboard.md:81-94) is never better than the pipeline: a
\* document that does not say unhealthy stands on a heartbeat of the last ten
\* minutes and, while the market is open, on a bar of the last ten and a commit
\* of the last fifteen minutes that really took place; one that says healthy, on
\* a heartbeat and a bar of the last five and a commit of the last ten.
BadgeIsEarned ==
  \A d \in Documents :
    LET Since(source, kinds, minutes) ==
          \E p \in DOMAIN log[source] :
            /\ log[source][p].event \in kinds
            /\ (IF source = "loader" THEN log[source][p].at ELSE log[source][p].stamp)
                 >= d.now - minutes
        Within(heartbeat, bar, commit) ==
          /\ Since("loader", {"heartbeat"}, heartbeat)
          /\ d.market.state = "market_open" =>
               /\ Since("extractor", {"metrics", "final metrics"}, bar)
               /\ Since("loader", {"commit_succeeded"}, commit)
    IN  /\ d.health.status # "unhealthy" => Within(10, 10, 15)
        /\ d.health.status = "healthy" => Within(5, 5, 10)

\* A failure that the exporter asks for, which was in the log when the run
\* began and is not too old, makes the document unhealthy until a durable commit
\* is reported after it, or in the same second before it.
NoFailureHidden ==
  \A snapshot \in site : \A p \in 1 .. snapshot.seen.loader :
    LET d == snapshot.document
        failure == log.loader[p]
    IN  /\ failure.event \in LoaderFailureEvents
        /\ failure.at >= d.now - LookbackHours * 60
        => \/ d.health.status = "unhealthy"
           \/ \E q \in DOMAIN log.loader :
                /\ log.loader[q].event = "commit_succeeded"
                /\ q > p \/ log.loader[q].at = failure.at

\* The commit history pairs each success with its own batch, through crashes,
\* restarts, truncated answers and entries that arrive between two questions:
\* the bars shown are those of the commit, only the oldest commit shown may lack
\* them, and none is of a process younger than the one the document describes.
CommitHistoryIsTrue ==
  \A d \in Documents : \A p \in DOMAIN d.loader.recent_commits :
    LET entries == log.loader
        batch == entries[Max({q \in 1 .. p : /\ entries[q].event = "commit_started"
                                             /\ entries[q].origin = entries[p].origin})].bars
        oldest == Min(DOMAIN d.loader.recent_commits)
    IN  /\ \/ d.loader.recent_commits[p] = batch
           \/ p = oldest /\ d.loader.recent_commits[p] = Unknown
        /\ entries[p].origin <= d.loader.process

\* clean_shutdown, with its last bar, is of the newest session that has reported
\* any metrics (the comment of export_metrics.py:380-381).
CleanShutdownIsOfLatestSession ==
  \A snapshot \in site :
    snapshot.document.extractor.status = "clean_shutdown" =>
      \E p \in DOMAIN log.extractor :
        /\ log.extractor[p].event = "final metrics"
        /\ log.extractor[p].at = snapshot.document.extractor.final_metrics_at
        /\ log.extractor[p].stamp = snapshot.document.extractor.last_bar
        /\ \A q \in p + 1 .. snapshot.seen.extractor :
             log.extractor[q].event \notin {"metrics", "final metrics"}

\* The table a document shows, if it shows one, holds the rows of every commit it lists.
TableCoversCommits ==
  \A d \in Documents : \A rows \in d.table :
    rows >= MapThenSumSet(LAMBDA p : d.loader.recent_commits[p],
                           DOMAIN d.loader.recent_commits)

\* The market state and the next opening of a document follow the calendar of New
\* York (MarketDay of MarketClock), as they would at every minute of the days
\* before and after a change of the hour.
MarketDayIsRight ==
  \A d \in Documents : d.market = MarketAt(d.now) /\ MarketDay(d.now) /\ EveryMinuteIsRight

\* "Classified failures remain visible" (public-dashboard.md:92): a failed commit
\* that was in the log when the run began, and is not too old, is counted.
FailuresAreVisible ==
  \A snapshot \in site : \A p \in 1 .. snapshot.seen.loader :
    /\ log.loader[p].event \in LoaderFailureEvents \cup {"commit_failed"}
    /\ log.loader[p].at >= snapshot.document.now - LookbackHours * 60
    => snapshot.document.loader.failure_count > 0
=============================================================================
