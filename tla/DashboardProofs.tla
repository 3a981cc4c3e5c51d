--------------------------- MODULE DashboardProofs ---------------------------
(***************************************************************************)
(* Theorems about Dashboard and MarketClock, for any instants, limits of   *)
(* the queries, lengths of the window and of the history, and any number   *)
(* of entries, sessions and processes.                                     *)
(***************************************************************************)
EXTENDS Dashboard, NumberFacts

Sources == {"extractor", "loader"}

Entries == ExtractorEntries \cup LoaderEntries

LogShape ==
  /\ log \in [Sources -> Seq(Entries)]
  /\ log.extractor \in Seq(ExtractorEntries)
  /\ log.loader \in Seq(LoaderEntries)

\* Who logs has an identity.
PipelineShape ==
  /\ now \in Instants
  /\ session \in [on : BOOLEAN, id : 0 .. MaxSessions, lastBar : Stamps, idle : BOOLEAN]
  /\ session.on => session.id >= 1
  /\ loader \in [stage : {"down", "running", "committing", "appended"},
                 id : 0 .. MaxProcesses, lastCommit : Stamps,
                 since : Stamps, batch : 0 .. MaxEntries]
  /\ loader.stage # "down" => loader.id >= 1
  /\ table \in Nat

Reads == [Sources -> SUBSET Nat]

Lengths == [Sources -> Nat]

Runs == [step : 0 .. 5, now : Instants \cup {0}, read : Reads, seen : Lengths]

ExporterShape ==
  /\ exporter \in Runs
  /\ exporter.step = 0 => exporter = NoRun

\* Positions that exist.
PositionShape ==
  \A source \in Sources :
    /\ exporter.read[source] \subseteq DOMAIN log[source]
    /\ exporter.seen[source] <= Len(log[source])
    /\ \A snapshot \in site : snapshot.seen[source] \in 0 .. Len(log[source])

SiteShape == site = {} \/ \E snapshot \in site : site = {snapshot}

TypeInv == LogShape /\ PipelineShape /\ ExporterShape /\ PositionShape /\ SiteShape

\* Logs are written in the order of time, and a run sees one present.
TimeInv ==
  /\ \A source \in Sources : \A p \in DOMAIN log[source] :
       /\ log[source][p].at <= now
       /\ \A q \in DOMAIN log[source] : p <= q => log[source][p].at <= log[source][q].at
  /\ exporter.step # 0 => exporter.now = now

\* A commit was reported at that time.
Reported(t) ==
  \E q \in DOMAIN log.loader :
    log.loader[q].event = "commit_succeeded" /\ log.loader[q].at = t

\* The last commit that anything reports is the time of a reported one.
StampInv ==
  /\ loader.lastCommit # Never => Reported(loader.lastCommit)
  /\ \A p \in DOMAIN log.loader : log.loader[p].stamp # Never => Reported(log.loader[p].stamp)

\* Processes log one after the other, and nothing between the start of a commit
\* and its success.
PairInv ==
  /\ \A p \in DOMAIN log.loader :
       /\ log.loader[p].origin <= loader.id
       /\ \A q \in DOMAIN log.loader : p <= q => log.loader[p].origin <= log.loader[q].origin
       /\ log.loader[p].event = "commit_succeeded" =>
            /\ p - 1 \in DOMAIN log.loader
            /\ log.loader[p - 1].event = "commit_started"
            /\ log.loader[p - 1].origin = log.loader[p].origin
  /\ loader.stage \in {"committing", "appended"} =>
       /\ Len(log.loader) # 0
       /\ log.loader[Len(log.loader)].event = "commit_started"
       /\ log.loader[Len(log.loader)].origin = loader.id

\* What a query asks for, and what of it was read.
Of(query) ==
  {p \in DOMAIN log[LogOf(query)] : log[LogOf(query)][p].event \in Filter[query]}

ReadOf(query) == exporter.read[LogOf(query)] \cap Of(query)

\* An answer reaches as far back as it may, without a hole: of what was there
\* when the run began it leaves nothing out that is younger than what it holds,
\* and something that is not younger than any entry of the window.
Answered(query) ==
  LET source == LogOf(query) IN
  /\ \A p \in Of(query) :
       /\ p <= exporter.seen[source]
       /\ log[source][p].at >= exporter.now - LookbackHours * 60
       => \E q \in ReadOf(query) : p <= q
  /\ \A p \in ReadOf(query), q \in Of(query) :
       p < q /\ q <= exporter.seen[source] => q \in ReadOf(query)
  /\ \A p \in ReadOf(query), q \in Of(query), r \in ReadOf(query) :
       p < q /\ q < r => q \in ReadOf(query)

ReadInv ==
  \A i \in 1 .. 4 :
    /\ i < exporter.step => Answered(Queries[i])
    /\ i >= exporter.step => ReadOf(Queries[i]) = {}

-----------------------------------------------------------------------------
(* Types.                                                                  *)

\* The log only grows: what is at a position stays there.
Grows ==
  \A source \in Sources :
    /\ Len(log[source]) <= Len(log'[source])
    /\ \A p \in DOMAIN log[source] : p \in DOMAIN log'[source] /\ log'[source][p] = log[source][p]

\* What the assumptions say of the constants, number by number.
LEMMA Constants ==
  /\ Instants \subseteq Nat
  /\ 0 \notin Instants
  /\ Stamps \subseteq Nat
  /\ MaxEntries \in Nat /\ MaxSessions \in Nat /\ MaxProcesses \in Nat /\ LookbackHours \in Nat
PROOF BY DashboardAssumption DEF DashboardAssumption, Stamps, Never

\* The parts of a run.
LEMMA RunParts ==
  ASSUME ExporterShape
  PROVE  /\ exporter.step \in 0 .. 5 /\ exporter.now \in Instants \cup {0}
         /\ exporter.read \in Reads /\ exporter.seen \in Lengths
         /\ exporter.read \in [Sources -> SUBSET Nat]
         /\ \A source \in Sources :
              exporter.read[source] \subseteq Nat /\ exporter.seen[source] \in Nat
PROOF BY DEF ExporterShape, Runs, Reads, Lengths

\* A run that has asked one question more.
LEMMA RunNext ==
  ASSUME NEW run \in Runs, NEW other, NEW read \in Reads, NEW step \in 0 .. 5,
         other = [run EXCEPT !.step = step, !.read = read]
  PROVE  other \in Runs
PROOF BY DEF Runs

\* A run that begins.
LEMMA RunFirst ==
  ASSUME NEW run \in Runs, NEW other, NEW t \in Instants, NEW seen \in Lengths,
         other = [run EXCEPT !.step = 1, !.now = t, !.seen = seen]
  PROVE  other \in Runs
PROOF
<1>1. other = [step |-> 1, now |-> t, read |-> run.read, seen |-> seen]
  BY DEF Runs
<1>2. run.read \in Reads
  BY DEF Runs
<1>3. t \in Instants \cup {0}
  OBVIOUS
<1> QED BY <1>1, <1>2, <1>3 DEF Runs

\* The record that stands for no run.
LEMMA NoRunIs ==
  /\ NoRun \in Runs /\ NoRun.step = 0
  /\ NoRun.read["extractor"] = {} /\ NoRun.read["loader"] = {}
  /\ NoRun.seen["extractor"] = 0 /\ NoRun.seen["loader"] = 0
PROOF
<1>1. [extractor |-> {}, loader |-> {}] \in Reads
  BY DEF Reads, Sources
<1>2. [extractor |-> 0, loader |-> 0] \in Lengths
  BY DEF Lengths, Sources
<1> QED BY <1>1, <1>2 DEF NoRun, Runs

\* The four questions, in their order.
LEMMA QuestionsAre ==
  /\ Len(Queries) = 4 /\ DOMAIN Queries = 1 .. 4
  /\ Queries[1] = "extractor" /\ Queries[2] = "loader_heartbeats"
  /\ Queries[3] = "loader_commits" /\ Queries[4] = "loader_failures"
PROOF BY DEF Queries

\* The two logs, field by field.
LEMMA LogIs ==
  ASSUME LogShape
  PROVE  /\ \A source \in Sources : /\ log[source] \in Seq(Entries)
                                    /\ Len(log[source]) \in Nat
                                    /\ DOMAIN log[source] = 1 .. Len(log[source])
         /\ log.extractor = log["extractor"] /\ log.loader = log["loader"]
         /\ DOMAIN log = Sources
         /\ "extractor" \in Sources /\ "loader" \in Sources
PROOF
<1> HIDE DEF Entries, ExtractorEntries, LoaderEntries
<1> QED BY DEF LogShape, Sources

\* What appending an entry does to the logs.
LEMMA LogStep ==
  ASSUME LogShape, NEW source \in Sources, NEW entry, Log(source, entry),
         source = "extractor" => entry \in ExtractorEntries,
         source = "loader" => entry \in LoaderEntries
  PROVE  /\ LogShape'
         /\ log'[source] = Append(log[source], entry)
         /\ \A other \in Sources \ {source} : log'[other] = log[other]
         /\ Grows
         /\ 2 * Len(log'["extractor"]) + Len(log'["loader"]) <= MaxEntries
PROOF
<1> HIDE DEF Entries, ExtractorEntries, LoaderEntries
<1>1. log' = [log EXCEPT ![source] = Append(@, entry)]
  BY DEF Log
<1>2. entry \in Entries
  BY DEF Sources, Entries
<1>3. /\ log[source] \in Seq(Entries)
      /\ Append(log[source], entry) \in Seq(Entries)
  BY <1>2, LogIs
<1>4. /\ log' \in [Sources -> Seq(Entries)]
      /\ log'[source] = Append(log[source], entry)
      /\ \A other \in Sources \ {source} : log'[other] = log[other]
  BY <1>1, <1>3 DEF LogShape
<1>5. log'["extractor"] \in Seq(ExtractorEntries)
  <2>1. CASE source = "extractor"
    BY <2>1, <1>4 DEF LogShape
  <2>2. CASE source = "loader"
    BY <2>2, <1>4 DEF LogShape, Sources
  <2> QED BY <2>1, <2>2 DEF Sources
<1>6. log'["loader"] \in Seq(LoaderEntries)
  <2>1. CASE source = "extractor"
    BY <2>1, <1>4 DEF LogShape, Sources
  <2>2. CASE source = "loader"
    BY <2>2, <1>4 DEF LogShape
  <2> QED BY <2>1, <2>2 DEF Sources
<1>7. LogShape'
  BY <1>4, <1>5, <1>6 DEF LogShape
<1>8. Grows
  <2> SUFFICES ASSUME NEW s \in Sources
               PROVE  /\ Len(log[s]) <= Len(log'[s])
                      /\ \A p \in DOMAIN log[s] : p \in DOMAIN log'[s] /\ log'[s][p] = log[s][p]
    BY DEF Grows
  <2>1. CASE s = source
    BY <2>1, <1>3, <1>4, <1>2
  <2>2. CASE s # source
    BY <2>2, <1>4, LogIs
  <2> QED BY <2>1, <2>2
<1>9. 2 * Len(log'["extractor"]) + Len(log'["loader"]) <= MaxEntries
  BY DEF Log
<1> QED BY <1>4, <1>7, <1>8, <1>9

\* A step that logs nothing leaves the logs as they are.
LEMMA LogStays ==
  ASSUME LogShape, UNCHANGED log
  PROVE  LogShape' /\ Grows
PROOF
<1> HIDE DEF Entries, ExtractorEntries, LoaderEntries
<1>1. LogShape' BY DEF LogShape
<1>2. Grows BY LogIs DEF Grows
<1> QED BY <1>1, <1>2

\* There is a first instant among any of them.
LEMMA FirstInstant ==
  ASSUME NEW T, T \subseteq Instants, T # {}
  PROVE  Min(T) \in T /\ \A t \in T : Min(T) <= t
PROOF
<1>1. PICK first \in T : \A t \in T : first <= t
  BY LeastNumber, Constants
<1> QED BY <1>1 DEF Min

\* Positions in a log stay positions of it when it grows.
LEMMA GrownPositions ==
  ASSUME TypeInv, LogShape', Grows, UNCHANGED <<exporter, site>>
  PROVE  PositionShape'
PROOF
<1> SUFFICES ASSUME NEW source \in Sources
             PROVE  /\ exporter.read[source] \subseteq DOMAIN log'[source]
                    /\ exporter.seen[source] <= Len(log'[source])
                    /\ \A snapshot \in site : snapshot.seen[source] \in 0 .. Len(log'[source])
  BY DEF PositionShape
<1>1. Len(log[source]) \in Nat /\ Len(log'[source]) \in Nat
  <2> HIDE DEF Entries
  <2>1. log[source] \in Seq(Entries) /\ log'[source] \in Seq(Entries)
    BY DEF TypeInv, LogShape
  <2> QED BY <2>1
<1>2. exporter.seen[source] \in Nat
  BY RunParts DEF TypeInv
<1> QED BY <1>1, <1>2 DEF TypeInv, PositionShape, Grows

\* No entry, no run, no document.
LEMMA TypeInit == Init => TypeInv
PROOF
<1> SUFFICES ASSUME Init PROVE TypeInv
  OBVIOUS
<1> USE Constants DEF Init
<1>1. LogShape
  <2> HIDE DEF Entries, ExtractorEntries, LoaderEntries
  <2> QED BY DEF LogShape, Sources
<1>2. now \in Instants
  BY FirstInstant, DashboardAssumption DEF DashboardAssumption
<1>3. PipelineShape
  BY <1>2 DEF PipelineShape, Stamps, Never
<1>4. ExporterShape
  BY NoRunIs DEF ExporterShape
<1>5. PositionShape
  <2> HIDE DEF Entries, ExtractorEntries, LoaderEntries
  <2> QED BY <1>1, LogIs DEF PositionShape, NoRun, Sources
<1>6. SiteShape
  BY DEF SiteShape
<1> QED BY <1>1, <1>3, <1>4, <1>5, <1>6 DEF TypeInv

\* What the extractor and the loader log are entries.
LEMMA ExtractorLogs ==
  ASSUME PipelineShape, session.on, NEW bar \in Stamps,
         NEW event \in Filter.extractor, NEW severity \in {"INFO", "WARNING", "ERROR"}
  PROVE  Entry(event, session.id, Unknown, bar, severity) \in ExtractorEntries
PROOF
<1>1. now \in Instants /\ session.id \in 1 .. MaxSessions
  BY Constants DEF PipelineShape
<1>2. event \in {"metrics", "final metrics", "idle window", "problem"}
  BY DEF Filter
<1> QED BY <1>1, <1>2 DEF Entry, ExtractorEntries

\* What a loader process logs is an entry.
LEMMA LoaderLogs ==
  ASSUME PipelineShape, NEW id \in 1 .. MaxProcesses, NEW bars \in 0 .. MaxEntries,
         NEW stamp \in Stamps,
         NEW event \in {"heartbeat", "commit_started", "commit_succeeded", "commit_failed",
                        "loader_failed"},
         NEW state \in {"starting", "idle", "stalled", "committing"}
  PROVE  Entry(event, id, bars, stamp, state) \in LoaderEntries
PROOF
<1>1. now \in Instants
  BY DEF PipelineShape
<1> QED BY <1>1 DEF Entry, LoaderEntries

\* The processes that log, and what they know, are of their types.
LEMMA WhoLogs ==
  ASSUME PipelineShape
  PROVE  /\ session.on => session.id \in 1 .. MaxSessions
         /\ session.lastBar \in Stamps /\ loader.lastCommit \in Stamps
         /\ now \in Stamps /\ Never \in Stamps
         /\ loader.stage # "down" => loader.id \in 1 .. MaxProcesses
         /\ loader.id < MaxProcesses => loader.id + 1 \in 1 .. MaxProcesses
         /\ Unknown \in 0 .. MaxEntries
PROOF BY Constants DEF PipelineShape, Stamps, Never, Unknown

\* A step of the pipeline, which leaves the run and the document alone.
LEMMA PipelineType ==
  ASSUME TypeInv, Pipeline
  PROVE  TypeInv' /\ Grows
PROOF
<1> USE Constants DEF Sources, Never, Unknown
<1> HIDE DEF Entries, ExtractorEntries, LoaderEntries
<1>1. LogShape' /\ Grows /\ PipelineShape'
  <2> USE DEF TypeInv, Pipeline
  <2> HIDE DEF LogShape, Grows
  <2>1. CASE SessionStarts
    BY <2>1, LogStays DEF SessionStarts, PipelineShape, Stamps
  <2>2. CASE Metrics
    <3>1. PICK bar \in {session.lastBar, now} :
            /\ session' = [session EXCEPT !.lastBar = bar]
            /\ Log("extractor", Entry("metrics", session.id, Unknown, bar, "INFO"))
      BY <2>2 DEF Metrics
    <3>2. Entry("metrics", session.id, Unknown, bar, "INFO") \in ExtractorEntries
      BY <2>2, <3>1, WhoLogs, ExtractorLogs DEF Metrics, Filter
    <3> QED BY <2>2, <3>1, <3>2, LogStep DEF Metrics, PipelineShape, Stamps
  <2>3. CASE IdleWindow
    <3>1. Entry("idle window", session.id, Unknown, Never, "WARNING") \in ExtractorEntries
      BY <2>3, WhoLogs, ExtractorLogs DEF IdleWindow, Filter
    <3> QED BY <2>3, <3>1, LogStep DEF IdleWindow, PipelineShape
  <2>4. CASE ExtractorProblem
    <3>1. \A severity \in {"WARNING", "ERROR"} :
            Entry("problem", session.id, Unknown, Never, severity) \in ExtractorEntries
      BY <2>4, WhoLogs, ExtractorLogs DEF ExtractorProblem, Filter
    <3> QED BY <2>4, <3>1, LogStep DEF ExtractorProblem, PipelineShape
  <2>5. CASE FinalMetrics
    <3>1. Entry("final metrics", session.id, Unknown, session.lastBar, "INFO")
            \in ExtractorEntries
      BY <2>5, WhoLogs, ExtractorLogs DEF FinalMetrics, Filter
    <3> QED BY <2>5, <3>1, LogStep DEF FinalMetrics, PipelineShape
  <2>6. CASE LoaderStarts
    <3>1. Entry("heartbeat", loader.id + 1, Unknown, Never, "starting") \in LoaderEntries
      BY <2>6, WhoLogs, LoaderLogs DEF LoaderStarts
    <3>2. LogShape' /\ Grows
      BY <2>6, <3>1, LogStep DEF LoaderStarts
    <3>3. PipelineShape'
      BY <2>6, WhoLogs DEF LoaderStarts, PipelineShape, Stamps
    <3> QED BY <3>2, <3>3
  <2>7. CASE Heartbeat
    <3>1. \A state \in {"idle", "stalled"} :
            Entry("heartbeat", loader.id, Unknown, loader.lastCommit, state) \in LoaderEntries
      BY <2>7, WhoLogs, LoaderLogs DEF Heartbeat
    <3> QED BY <2>7, <3>1, LogStep DEF Heartbeat, Report, PipelineShape
  <2>8. CASE CommitStarted
    <3> DEFINE bars == Len(log.loader) + 1
    <3>1. /\ loader' = [loader EXCEPT !.stage = "committing", !.batch = bars]
          /\ Log("loader", Entry("commit_started", loader.id, bars, loader.lastCommit,
                                 "committing"))
      BY <2>8 DEF CommitStarted
    <3>2. bars \in 0 .. MaxEntries
      <4>1. /\ log'["loader"] = Append(log["loader"], Entry("commit_started", loader.id, bars,
                                                         loader.lastCommit, "committing"))
            /\ 2 * Len(log'["extractor"]) + Len(log'["loader"]) <= MaxEntries
            /\ log'["extractor"] = log["extractor"]
        BY <3>1, LogIs DEF Log, LogShape
      <4>2. /\ Len(log["loader"]) \in Nat /\ Len(log["extractor"]) \in Nat
            /\ log.loader = log["loader"] /\ log["loader"] \in Seq(Entries)
        BY LogIs
      <4>3. Len(log'["loader"]) = Len(log["loader"]) + 1
        BY <4>1, <4>2
      <4>4. Len(log'["extractor"]) = Len(log["extractor"])
        BY <4>1
      <4>5. bars = Len(log["loader"]) + 1
        BY <4>2
      <4>6. bars \in Nat /\ bars <= MaxEntries
        <5>1. \A b, d \in Nat : 2 * d + (b + 1) <= MaxEntries => b + 1 <= MaxEntries
          OBVIOUS
        <5>2. 2 * Len(log["extractor"]) + (Len(log["loader"]) + 1) <= MaxEntries
          BY <4>1, <4>3, <4>4
        <5>3. Len(log["loader"]) + 1 <= MaxEntries
          BY <4>2, <5>1, <5>2
        <5> QED BY <4>2, <4>5, <5>3
      <4> QED BY <4>6
    <3>3. Entry("commit_started", loader.id, bars, loader.lastCommit, "committing")
            \in LoaderEntries
      BY <2>8, <3>2, WhoLogs, LoaderLogs DEF CommitStarted
    <3> HIDE DEF bars
    <3> QED BY <2>8, <3>1, <3>2, <3>3, LogStep DEF CommitStarted, PipelineShape
  <2>9. CASE Appends
    BY <2>9, LogStays DEF Appends, PipelineShape
  <2>10. CASE CommitSucceeded
    <3>1. Entry("commit_succeeded", loader.id, Unknown, now, "committing") \in LoaderEntries
      BY <2>10, WhoLogs, LoaderLogs DEF CommitSucceeded
    <3> QED BY <2>10, <3>1, LogStep DEF CommitSucceeded, PipelineShape, Stamps
  <2>11. CASE CommitFailed
    <3>1. Entry("commit_failed", loader.id, Unknown, loader.lastCommit, "committing")
            \in LoaderEntries
      BY <2>11, WhoLogs, LoaderLogs DEF CommitFailed
    <3> QED BY <2>11, <3>1, LogStep DEF CommitFailed, Report, PipelineShape
  <2>12. CASE LoaderFailed
    <3>1. \A state \in {"starting", "committing"} :
            Entry("loader_failed", loader.id, Unknown, loader.lastCommit, state)
              \in LoaderEntries
      BY <2>12, WhoLogs, LoaderLogs DEF LoaderFailed
    <3> QED BY <2>12, <3>1, LogStep DEF LoaderFailed, Report, PipelineShape
  <2> QED BY <2>1, <2>2, <2>3, <2>4, <2>5, <2>6, <2>7, <2>8, <2>9, <2>10, <2>11, <2>12
<1>2. PositionShape'
  BY <1>1, GrownPositions DEF TypeInv, Pipeline
<1>3. ExporterShape' /\ SiteShape'
  BY DEF TypeInv, Pipeline, ExporterShape, SiteShape
<1> QED BY <1>1, <1>2, <1>3 DEF TypeInv

\* An answer has entries of the log that was asked.
LEMMA AnswerExists ==
  ASSUME NEW query, NEW entries, NEW start
  PROVE  Answer(query, entries, start) \subseteq DOMAIN entries
PROOF BY DEF Answer, Newest

\* What a question adds to what was read.
LEMMA ReadStep ==
  ASSUME TypeInv, ReadLogs
  PROVE  LET query == Queries[exporter.step]
             source == LogOf(query)
             answer == Answer(query, log[source], exporter.now - LookbackHours * 60)
         IN  /\ exporter.step \in 1 .. 4
             /\ exporter'.step = exporter.step + 1
             /\ exporter'.now = exporter.now /\ exporter'.seen = exporter.seen
             /\ source \in Sources
             /\ answer \subseteq 1 .. Len(log[source])
             /\ exporter'.read[source] = exporter.read[source] \cup answer
             /\ \A other \in Sources \ {source} : exporter'.read[other] = exporter.read[other]
             /\ ExporterShape'
PROOF
<1> DEFINE query == Queries[exporter.step]
           source == LogOf(query)
           answer == Answer(query, log[source], exporter.now - LookbackHours * 60)
<1>1. exporter.step \in 1 .. 4
  BY QuestionsAre DEF ReadLogs
<1>2. source \in Sources
  BY DEF LogOf, Sources
<1>3. answer \subseteq 1 .. Len(log[source])
  BY <1>2, AnswerExists, LogIs DEF TypeInv
<1>4. exporter' = [exporter EXCEPT !.step = @ + 1, !.read[source] = @ \cup answer]
  BY DEF ReadLogs
<1> HIDE DEF query, source, answer
<1>5. exporter.read \in [Sources -> SUBSET Nat]
  BY RunParts DEF TypeInv
<1>6. exporter.read[source] \cup answer \in SUBSET Nat
  <2>1. Len(log[source]) \in Nat
    BY <1>2, LogIs DEF TypeInv
  <2>2. 1 .. Len(log[source]) \subseteq Nat
    BY <2>1
  <2>3. exporter.read[source] \subseteq Nat
    BY <1>2, <1>5
  <2> QED BY <1>3, <2>2, <2>3
<1>7. /\ exporter'.read \in [Sources -> SUBSET Nat]
      /\ exporter'.read[source] = exporter.read[source] \cup answer
      /\ \A other \in Sources \ {source} : exporter'.read[other] = exporter.read[other]
      /\ exporter'.step = exporter.step + 1
      /\ exporter'.now = exporter.now /\ exporter'.seen = exporter.seen
  BY <1>2, <1>4, <1>5, <1>6 DEF TypeInv, ExporterShape
<1>8. ExporterShape'
  <2>1. exporter' \in Runs
    <3> DEFINE more == [exporter.read EXCEPT ![source] = @ \cup answer]
    <3>1. exporter' = [exporter EXCEPT !.step = @ + 1, !.read = more]
      BY <1>4
    <3>2. more \in Reads
      BY <1>2, <1>5, <1>6 DEF Reads
    <3> HIDE DEF more
    <3>3. exporter.step + 1 \in 0 .. 5
      BY <1>1
    <3> QED BY <3>1, <3>2, <3>3, RunNext DEF TypeInv, ExporterShape
  <2>2. exporter'.step # 0
    BY <1>1, <1>7
  <2> QED BY <2>1, <2>2 DEF ExporterShape
<1> QED BY <1>1, <1>2, <1>3, <1>7, <1>8 DEF query, source, answer

\* A step of the clock or of the exporter, which leaves the pipeline alone.
LEMMA ExporterType ==
  ASSUME TypeInv, Tick \/ ExporterStarts \/ ReadLogs \/ ReadFails \/ Publish
  PROVE  TypeInv' /\ UNCHANGED log /\ Grows
PROOF
<1> USE DEF TypeInv, pipelineVars
<1>1. UNCHANGED <<log, session, loader, table>>
  BY DEF Tick, ExporterStarts, ReadLogs, ReadFails, Publish
<1>2. LogShape' /\ Grows
  BY <1>1, LogStays
<1>3. now' \in Instants
  <2>1. CASE Tick
    <3> DEFINE T == {t \in Instants : t > now}
    <3>1. T \subseteq Instants /\ T # {} /\ now' = Min(T)
      BY <2>1 DEF Tick
    <3> HIDE DEF T
    <3> QED BY <3>1, FirstInstant
  <2> QED BY <2>1 DEF PipelineShape, ExporterStarts, ReadLogs, ReadFails, Publish
<1>4. PipelineShape'
  BY <1>1, <1>3 DEF PipelineShape
<1>5. NoRun \in Runs
  BY NoRunIs
<1>6. /\ DOMAIN log = Sources
      /\ \A source \in Sources : Len(log[source]) \in Nat /\ 0 \in 0 .. Len(log[source])
  BY LogIs
<1>7. NoRun.read["extractor"] = {} /\ NoRun.read["loader"] = {}
      /\ NoRun.seen["extractor"] = 0 /\ NoRun.seen["loader"] = 0
  BY NoRunIs
<1> HIDE DEF LogShape, PipelineShape
<1>8. CASE Tick \/ ReadFails
  <2>1. exporter' = NoRun /\ UNCHANGED site
    BY <1>8 DEF Tick, ReadFails
  <2>2. ExporterShape'
    BY <1>5, <2>1 DEF ExporterShape
  <2>3. PositionShape'
    BY <1>1, <1>6, <1>7, <2>1 DEF PositionShape, Sources
  <2> QED BY <1>1, <1>2, <1>4, <2>1, <2>2, <2>3 DEF SiteShape
<1>9. CASE ExporterStarts
  <2>1. /\ exporter' = [NoRun EXCEPT !.step = 1, !.now = now,
                          !.seen = [source \in Sources |-> Len(log[source])]]
        /\ UNCHANGED site
    BY <1>6, <1>9 DEF ExporterStarts
  <2>2. [source \in Sources |-> Len(log[source])] \in Lengths
    BY <1>6 DEF Lengths
  <2>3. ExporterShape'
    <3> DEFINE lengths == [source \in Sources |-> Len(log[source])]
    <3>1. now \in Instants
      BY DEF PipelineShape
    <3> HIDE DEF lengths
    <3>2. /\ exporter' = [NoRun EXCEPT !.step = 1, !.now = now, !.seen = lengths]
          /\ lengths \in Lengths
      BY <2>1, <2>2 DEF lengths
    <3>3. exporter'.step = 1
      BY <3>2 DEF NoRun
    <3>4. exporter' \in Runs
      BY <1>5, <3>1, <3>2, RunFirst
    <3> QED BY <3>3, <3>4 DEF ExporterShape
  <2>4. PositionShape'
    <3>1. exporter'.read = NoRun.read
          /\ \A source \in Sources : exporter'.seen[source] = Len(log[source])
      BY <2>1 DEF NoRun
    <3> QED BY <1>1, <1>6, <1>7, <2>1, <3>1 DEF PositionShape, Sources
  <2> QED BY <1>1, <1>2, <1>4, <2>1, <2>3, <2>4 DEF SiteShape
<1>10. CASE ReadLogs
  <2>1. UNCHANGED site
    BY <1>10 DEF ReadLogs
  <2>2. PositionShape'
    <3> SUFFICES ASSUME NEW source \in Sources
                 PROVE  exporter'.read[source] \subseteq DOMAIN log[source]
      BY <1>1, <1>10, <2>1, ReadStep DEF PositionShape
    <3>1. exporter.read[source] \subseteq DOMAIN log[source]
      BY DEF PositionShape
    <3>2. DOMAIN log[source] = 1 .. Len(log[source])
      BY LogIs
    <3>3. CASE source = LogOf(Queries[exporter.step])
      BY <1>10, <3>1, <3>2, <3>3, ReadStep
    <3>4. CASE source # LogOf(Queries[exporter.step])
      BY <1>10, <3>1, <3>4, ReadStep
    <3> QED BY <3>3, <3>4
  <2> QED BY <1>1, <1>2, <1>4, <1>10, <2>1, <2>2, ReadStep DEF SiteShape
<1>11. CASE Publish
  <2>1. PICK rows \in ReadTable :
          site' = {[document |-> BuildSnapshot(log.extractor, log.loader, exporter.read,
                                               exporter.now, rows),
                    seen |-> exporter.seen]}
    BY <1>11 DEF Publish
  <2>2. exporter' = NoRun
    BY <1>11 DEF Publish
  <2>3. ExporterShape'
    BY <1>5, <2>2 DEF ExporterShape
  <2>4. PositionShape'
    <3>1. \A snapshot \in site' : snapshot.seen = exporter.seen
      BY <2>1
    <3>2. \A source \in Sources : exporter.seen[source] \in 0 .. Len(log[source])
      BY <1>6, RunParts DEF PositionShape
    <3> QED BY <1>1, <1>6, <1>7, <2>2, <3>1, <3>2 DEF PositionShape, Sources
  <2>5. SiteShape'
    BY <2>1 DEF SiteShape
  <2> QED BY <1>2, <1>4, <1>1, <2>3, <2>4, <2>5
<1> QED BY <1>8, <1>9, <1>10, <1>11

\* Every step keeps the types, and only adds to the logs.
LEMMA TypeStep ==
  ASSUME TypeInv, [Next]_vars
  PROVE  TypeInv' /\ Grows
PROOF
<1>1. CASE UNCHANGED vars
  <2>1. LogShape' /\ Grows
    BY <1>1, LogStays DEF TypeInv, vars, pipelineVars
  <2>2. UNCHANGED <<now, session, loader, table, exporter, site, log>>
    BY <1>1 DEF vars, pipelineVars
  <2> QED BY <2>1, <2>2
    DEF TypeInv, PipelineShape, ExporterShape, PositionShape, SiteShape
<1> QED BY <1>1, PipelineType, ExporterType DEF Next

\* The types hold in every reachable state.
LEMMA TypeInvariant == Spec => []TypeInv
PROOF
<1>1. TypeInv /\ [Next]_vars => TypeInv'
  BY TypeStep
<1> QED BY <1>1, TypeInit, PTL DEF Spec

\* Every variable has its type, and the exporter holds positions that exist in
\* logs which grow while it asks.
THEOREM TypeCorrectness == Spec => []TypeOK
PROOF
<1>1. ASSUME TypeInv PROVE TypeOK
  <2> USE <1>1 DEF TypeInv
  <2>1. Cardinality(site) <= 1
    <3>1. Cardinality(site) = 0 \/ Cardinality(site) = 1
      BY FS_EmptySet, FS_Singleton, Zenon DEF SiteShape
    <3> QED BY <3>1
  <2>2. exporter.step \in 0 .. Len(Queries) + 1 /\ exporter.now \in Instants \cup {0}
    BY QuestionsAre, RunParts
  <2>3. \A source \in DOMAIN log :
          /\ exporter.read[source] \subseteq DOMAIN log[source]
          /\ exporter.seen[source] \in 0 .. Len(log[source])
    BY LogIs, RunParts DEF PositionShape
  <2>4. /\ log.extractor \in Seq(ExtractorEntries)
        /\ log.loader \in Seq(LoaderEntries)
    BY DEF LogShape
  <2> QED BY <2>1, <2>2, <2>3, <2>4 DEF TypeOK, PipelineShape
<1> QED BY <1>1, TypeInvariant, PTL

-----------------------------------------------------------------------------
(* The order of the logs.                                                  *)

\* The numbers in an entry.
LEMMA EntryParts ==
  ASSUME LogShape
  PROVE  /\ \A source \in Sources : \A p \in DOMAIN log[source] :
              p \in Nat \ {0} /\ log[source][p].at \in Nat /\ log[source][p].stamp \in Nat
         /\ \A p \in DOMAIN log.loader :
              /\ p \in Nat \ {0} /\ log.loader[p].at \in Nat
              /\ log.loader[p].origin \in Nat /\ log.loader[p].stamp \in Nat
              /\ log.loader[p].event \in {"heartbeat", "commit_started", "commit_succeeded",
                                          "commit_failed", "loader_failed"}
PROOF
<1>1. \A e \in Entries : e.at \in Nat /\ e.stamp \in Nat
  BY Constants DEF Entries, ExtractorEntries, LoaderEntries
<1>2. ASSUME NEW e \in LoaderEntries
      PROVE  /\ e.at \in Nat /\ e.origin \in Nat /\ e.stamp \in Nat
             /\ e.event \in {"heartbeat", "commit_started", "commit_succeeded",
                             "commit_failed", "loader_failed"}
  <2>1. e.at \in Nat /\ e.stamp \in Nat
    BY <1>1 DEF Entries
  <2>2. e.origin \in 1 .. MaxProcesses
    BY DEF LoaderEntries
  <2>3. e.event \in {"heartbeat", "commit_started", "commit_succeeded",
                     "commit_failed", "loader_failed"}
    BY DEF LoaderEntries
  <2>4. e.origin \in Nat
    BY <2>2, Constants
  <2> QED BY <2>1, <2>3, <2>4
<1> HIDE DEF Entries, ExtractorEntries, LoaderEntries
<1>3. \A source \in Sources : \A p \in DOMAIN log[source] :
        p \in Nat \ {0} /\ log[source][p] \in Entries
  BY LogIs
<1>4. \A p \in DOMAIN log.loader : p \in Nat \ {0} /\ log.loader[p] \in LoaderEntries
  BY DEF LogShape
<1> QED BY <1>1, <1>2, <1>3, <1>4

\* What is appended to a log stands at its end.
LEMMA Appended ==
  ASSUME LogShape, NEW source \in Sources, NEW entry,
         log'[source] = Append(log[source], entry)
  PROVE  LET n == Len(log[source]) IN
         /\ n \in Nat /\ DOMAIN log[source] = 1 .. n
         /\ DOMAIN log'[source] = 1 .. n + 1
         /\ Len(log'[source]) = n + 1
         /\ log'[source][n + 1] = entry
         /\ \A p \in 1 .. n : log'[source][p] = log[source][p]
PROOF
<1> HIDE DEF Entries
<1> QED BY LogIs

\* What a step of the pipeline logs, at the end of one of the logs.
LEMMA PipelineLogs ==
  ASSUME TypeInv, Pipeline
  PROVE  \/ UNCHANGED log
         \/ \E source \in Sources, entry \in Entries :
              /\ entry.at = now
              /\ log'[source] = Append(log[source], entry)
              /\ \A other \in Sources \ {source} : log'[other] = log[other]
PROOF
<1> DEFINE Logs(source) == \E event, origin, bars, stamp, state :
                             Log(source, Entry(event, origin, bars, stamp, state))
<1>1. UNCHANGED log \/ Logs("extractor") \/ Logs("loader")
  <2>1. CASE SessionStarts \/ Appends
    BY <2>1 DEF SessionStarts, Appends
  <2>2. CASE Metrics \/ IdleWindow \/ ExtractorProblem \/ FinalMetrics
    <3>1. Logs("extractor")
      BY <2>2 DEF Metrics, IdleWindow, ExtractorProblem, FinalMetrics
    <3> QED BY <3>1
  <2>3. CASE LoaderStarts \/ Heartbeat \/ CommitStarted \/ CommitSucceeded \/ CommitFailed
             \/ LoaderFailed
    <3>1. Logs("loader")
      BY <2>3 DEF LoaderStarts, Heartbeat, CommitStarted, CommitSucceeded, CommitFailed,
                  LoaderFailed, Report
    <3> QED BY <3>1
  <2> QED BY <2>1, <2>2, <2>3 DEF Pipeline
<1> HIDE DEF Entries, ExtractorEntries, LoaderEntries
<1>2. ASSUME NEW source \in Sources, Logs(source)
      PROVE  \E entry \in Entries :
               /\ entry.at = now
               /\ log'[source] = Append(log[source], entry)
               /\ \A other \in Sources \ {source} : log'[other] = log[other]
  <2>1. PICK event, origin, bars, stamp, state :
          Log(source, Entry(event, origin, bars, stamp, state))
    BY <1>2
  <2> DEFINE entry == Entry(event, origin, bars, stamp, state)
  <2>2. entry.at = now
    BY DEF Entry
  <2>3. log' = [log EXCEPT ![source] = Append(@, entry)]
    BY <2>1 DEF Log
  <2> HIDE DEF entry
  <2>4. /\ log'[source] = Append(log[source], entry)
        /\ \A other \in Sources \ {source} : log'[other] = log[other]
    BY <2>3 DEF TypeInv, LogShape
  <2>5. entry \in Entries
    <3>1. LogShape'
      BY PipelineType DEF TypeInv
    <3>2. log'[source] \in Seq(Entries)
      BY <3>1 DEF LogShape
    <3>3. log[source] \in Seq(Entries)
      BY LogIs DEF TypeInv
    <3>4. Len(log[source]) + 1 \in DOMAIN log'[source]
          /\ log'[source][Len(log[source]) + 1] = entry
      BY <2>4, <3>3
    <3> QED BY <3>2, <3>4
  <2> QED BY <2>2, <2>4, <2>5
<1> HIDE DEF Logs
<1> QED BY <1>1, <1>2 DEF Sources

\* Entries are appended now, and now does not go back.
LEMMA TimeStep ==
  ASSUME TypeInv, TimeInv, [Next]_vars
  PROVE  TimeInv'
PROOF
<1> USE DEF TypeInv
<1> HIDE DEF LogShape, PipelineShape
<1>0. now \in Nat
  BY Constants DEF PipelineShape
<1>1. CASE Pipeline
  <2>1. now' = now /\ exporter' = exporter
    BY <1>1 DEF Pipeline
  <2>2. CASE UNCHANGED log
    BY <2>1, <2>2 DEF TimeInv
  <2>3. CASE ~ UNCHANGED log
    <3>1. PICK source \in Sources, entry \in Entries :
            /\ entry.at = now
            /\ log'[source] = Append(log[source], entry)
            /\ \A other \in Sources \ {source} : log'[other] = log[other]
      BY <1>1, <2>3, PipelineLogs
    <3> HIDE DEF Entries
    <3> SUFFICES ASSUME NEW s \in Sources, NEW p \in DOMAIN log'[s], NEW q \in DOMAIN log'[s]
                 PROVE  /\ log'[s][p].at <= now
                        /\ p <= q => log'[s][p].at <= log'[s][q].at
      BY <2>1 DEF TimeInv
    <3>2. CASE s # source
      BY <3>1, <3>2 DEF TimeInv
    <3>3. CASE s = source
      <4> DEFINE n == Len(log[source])
      <4>1. /\ n \in Nat /\ DOMAIN log[source] = 1 .. n /\ DOMAIN log'[source] = 1 .. n + 1
            /\ log'[source][n + 1] = entry
            /\ \A i \in 1 .. n : log'[source][i] = log[source][i]
        BY <3>1, Appended
      <4>2. \A i, j \in 1 .. n : /\ log[source][i].at <= now
                                 /\ i <= j => log[source][i].at <= log[source][j].at
        BY <4>1 DEF TimeInv
      <4> HIDE DEF n
      <4>3. p \in 1 .. n \/ p = n + 1
        BY <3>3, <4>1
      <4>4. q \in 1 .. n \/ q = n + 1
        BY <3>3, <4>1
      <4>5. CASE p \in 1 .. n /\ q \in 1 .. n
        BY <3>3, <4>1, <4>2, <4>5
      <4>6. CASE p \in 1 .. n /\ q = n + 1
        BY <3>1, <3>3, <4>1, <4>2, <4>6
      <4>7. CASE p = n + 1 /\ q \in 1 .. n
        BY <1>0, <3>1, <3>3, <4>1, <4>7
      <4>8. CASE p = n + 1 /\ q = n + 1
        BY <1>0, <3>1, <3>3, <4>1, <4>8
      <4> QED BY <4>3, <4>4, <4>5, <4>6, <4>7, <4>8
    <3> QED BY <3>2, <3>3
  <2> QED BY <2>2, <2>3
<1>2. CASE Tick
  <2> DEFINE T == {t \in Instants : t > now}
  <2>1. T \subseteq Instants /\ T # {} /\ now' = Min(T)
    BY <1>2 DEF Tick
  <2>2. now' \in T
    <3> HIDE DEF T
    <3> QED BY <2>1, FirstInstant
  <2>3. now' \in Nat /\ now <= now'
    BY <1>0, <2>2, Constants
  <2>4. exporter' = NoRun /\ UNCHANGED log
    BY <1>2 DEF Tick, pipelineVars
  <2> HIDE DEF T
  <2>5. \A source \in Sources : \A p \in DOMAIN log[source] : log[source][p].at <= now'
    BY <1>0, <2>3, EntryParts DEF TimeInv
  <2> QED BY <2>4, <2>5, NoRunIs DEF TimeInv
<1>3. CASE ExporterStarts
  <2>1. now' = now /\ log' = log /\ exporter'.now = now
    BY <1>3 DEF ExporterStarts, pipelineVars, NoRun
  <2> QED BY <2>1 DEF TimeInv
<1>4. CASE ReadLogs
  <2>1. now' = now /\ log' = log
    BY <1>4 DEF ReadLogs, pipelineVars
  <2>2. exporter'.now = exporter.now /\ exporter.step # 0
    BY <1>4, ReadStep
  <2> QED BY <2>1, <2>2 DEF TimeInv
<1>5. CASE ReadFails \/ Publish
  <2>1. now' = now /\ log' = log /\ exporter' = NoRun
    BY <1>5 DEF ReadFails, Publish, pipelineVars
  <2> QED BY <2>1, NoRunIs DEF TimeInv
<1>6. CASE UNCHANGED vars
  BY <1>6 DEF TimeInv, vars, pipelineVars
<1> QED BY <1>1, <1>2, <1>3, <1>4, <1>5, <1>6 DEF Next

-----------------------------------------------------------------------------
(* What the loader logs.                                                   *)

\* The end of the log of a loader that appends an entry.
LEMMA LoaderAppend ==
  ASSUME LogShape, NEW entry, log'["loader"] = Append(log["loader"], entry)
  PROVE  LET n == Len(log.loader) IN
         /\ n \in Nat /\ DOMAIN log.loader = 1 .. n
         /\ DOMAIN log'.loader = 1 .. n + 1 /\ Len(log'.loader) = n + 1
         /\ log'.loader[n + 1] = entry
         /\ \A p \in 1 .. n : log'.loader[p] = log.loader[p]
PROOF
<1> HIDE DEF Entries
<1>1. "loader" \in Sources
  BY LogIs
<1> QED BY <1>1, Appended

\* A last commit is either an earlier one or that of the entry itself.
LEMMA StampAppend ==
  ASSUME TypeInv, StampInv, NEW entry, log'["loader"] = Append(log["loader"], entry),
         \/ entry.stamp \in {Never, loader.lastCommit}
         \/ entry.event = "commit_succeeded" /\ entry.stamp = entry.at,
         \/ loader'.lastCommit \in {Never, loader.lastCommit}
         \/ entry.event = "commit_succeeded" /\ loader'.lastCommit = entry.at
  PROVE  StampInv'
PROOF
<1> DEFINE n == Len(log.loader)
<1>1. /\ n \in Nat /\ DOMAIN log.loader = 1 .. n /\ DOMAIN log'.loader = 1 .. n + 1
      /\ log'.loader[n + 1] = entry
      /\ \A p \in 1 .. n : log'.loader[p] = log.loader[p]
  BY LoaderAppend DEF TypeInv
<1> HIDE DEF n
<1> DEFINE Later(t) == \E q \in DOMAIN log'.loader :
                         /\ log'.loader[q].event = "commit_succeeded"
                         /\ log'.loader[q].at = t
<1>2. ASSUME NEW t, Reported(t) PROVE Later(t)
  <2>1. PICK q \in 1 .. n : log.loader[q].event = "commit_succeeded" /\ log.loader[q].at = t
    BY <1>1, <1>2 DEF Reported
  <2>2. q \in 1 .. n + 1
    BY <1>1
  <2> QED BY <1>1, <2>1, <2>2
<1>3. entry.event = "commit_succeeded" => Later(entry.at)
  <2>1. n + 1 \in DOMAIN log'.loader
    BY <1>1
  <2> QED BY <1>1, <2>1
<1> HIDE DEF Later
<1>4. loader'.lastCommit # Never => Later(loader'.lastCommit)
  BY <1>2, <1>3 DEF StampInv
<1>5. ASSUME NEW p \in DOMAIN log'.loader, log'.loader[p].stamp # Never
      PROVE  Later(log'.loader[p].stamp)
  <2>1. CASE p \in 1 .. n
    BY <1>1, <1>2, <1>5, <2>1 DEF StampInv
  <2>2. CASE p = n + 1
    BY <1>1, <1>2, <1>3, <1>5, <2>2 DEF StampInv
  <2> QED BY <1>1, <2>1, <2>2
<1> QED BY <1>4, <1>5 DEF StampInv, Reported, Later

\* A success follows its own start, with nothing between.
LEMMA PairAppend ==
  ASSUME TypeInv, PairInv, NEW entry, log'["loader"] = Append(log["loader"], entry),
         entry.origin = loader'.id, loader'.id \in Nat, loader.id <= loader'.id,
         entry.event = "commit_succeeded" =>
           loader.stage = "appended" /\ entry.origin = loader.id,
         loader'.stage \in {"committing", "appended"} => entry.event = "commit_started"
  PROVE  PairInv'
PROOF
<1> DEFINE n == Len(log.loader)
<1>1. /\ n \in Nat /\ DOMAIN log.loader = 1 .. n /\ DOMAIN log'.loader = 1 .. n + 1
      /\ Len(log'.loader) = n + 1
      /\ log'.loader[n + 1] = entry
      /\ \A p \in 1 .. n : log'.loader[p] = log.loader[p]
  BY LoaderAppend DEF TypeInv
<1>2. loader.id \in Nat
  BY Constants DEF TypeInv, PipelineShape
<1>3. \A p \in 1 .. n : log.loader[p].origin \in Nat /\ log.loader[p].origin <= loader'.id
  BY <1>1, <1>2, EntryParts DEF TypeInv, PairInv
<1>4. loader.stage = "appended" =>
        n # 0 /\ log.loader[n].event = "commit_started" /\ log.loader[n].origin = loader.id
  BY DEF PairInv
<1> HIDE DEF n
<1>5. ASSUME NEW p \in DOMAIN log'.loader
      PROVE  /\ log'.loader[p].origin <= loader'.id
             /\ \A q \in DOMAIN log'.loader :
                  p <= q => log'.loader[p].origin <= log'.loader[q].origin
             /\ log'.loader[p].event = "commit_succeeded" =>
                  /\ p - 1 \in DOMAIN log'.loader
                  /\ log'.loader[p - 1].event = "commit_started"
                  /\ log'.loader[p - 1].origin = log'.loader[p].origin
  <2>1. CASE p \in 1 .. n
    <3>1. log'.loader[p] = log.loader[p] /\ log.loader[p].origin <= loader'.id
      BY <1>1, <1>3, <2>1
    <3>2. ASSUME NEW q \in DOMAIN log'.loader, p <= q
          PROVE  log.loader[p].origin <= log'.loader[q].origin
      <4>1. CASE q \in 1 .. n
        BY <1>1, <2>1, <3>2, <4>1 DEF PairInv
      <4>2. CASE q = n + 1
        BY <1>1, <3>1, <4>2
      <4> QED BY <1>1, <4>1, <4>2
    <3>3. ASSUME log.loader[p].event = "commit_succeeded"
          PROVE  /\ p - 1 \in 1 .. n
                 /\ log.loader[p - 1].event = "commit_started"
                 /\ log.loader[p - 1].origin = log.loader[p].origin
      BY <1>1, <2>1, <3>3 DEF PairInv
    <3>4. 1 .. n \subseteq 1 .. n + 1
      BY <1>1
    <3> QED BY <1>1, <3>1, <3>2, <3>3, <3>4
  <2>2. CASE p = n + 1
    <3>1. log'.loader[p] = entry
      BY <1>1, <2>2
    <3>2. ASSUME NEW q \in DOMAIN log'.loader, p <= q
          PROVE  q = p
      BY <1>1, <2>2, <3>2
    <3>3. ASSUME entry.event = "commit_succeeded"
          PROVE  /\ p - 1 = n /\ n \in 1 .. n /\ n \in 1 .. n + 1
                 /\ log.loader[n].event = "commit_started"
                 /\ log.loader[n].origin = entry.origin
      BY <1>1, <1>4, <2>2, <3>3
    <3>4. entry.origin <= loader'.id /\ entry.origin <= entry.origin
      OBVIOUS
    <3> QED BY <1>1, <3>1, <3>2, <3>3, <3>4
  <2> QED BY <1>1, <2>1, <2>2
<1>6. loader'.stage \in {"committing", "appended"} =>
        /\ Len(log'.loader) # 0
        /\ log'.loader[Len(log'.loader)].event = "commit_started"
        /\ log'.loader[Len(log'.loader)].origin = loader'.id
  BY <1>1
<1> QED BY <1>5, <1>6 DEF PairInv

\* Neither is touched by what leaves the loader and its log alone.
LEMMA LoaderStays ==
  ASSUME StampInv, PairInv, log'["loader"] = log["loader"], UNCHANGED loader
  PROVE  StampInv' /\ PairInv'
PROOF
<1>1. log'.loader = log.loader
  OBVIOUS
<1>2. \A t : Reported(t)' <=> Reported(t)
  BY <1>1 DEF Reported
<1> QED BY <1>1, <1>2 DEF StampInv, PairInv

\* Both hold of whatever the loader logs, in every step.
LEMMA LoaderStep ==
  ASSUME TypeInv, StampInv, PairInv, [Next]_vars
  PROVE  StampInv' /\ PairInv'
PROOF
<1>0. loader.id \in Nat
  BY Constants DEF TypeInv, PipelineShape
<1>1. ASSUME NEW entry, Log("loader", entry)
      PROVE  log'["loader"] = Append(log["loader"], entry)
  BY <1>1, LogIs DEF Log, TypeInv, LogShape
<1>2. ASSUME NEW entry, Log("extractor", entry)
      PROVE  log'["loader"] = log["loader"]
  BY <1>2, LogIs DEF Log, TypeInv, LogShape
<1>3. CASE Tick \/ ExporterStarts \/ ReadLogs \/ ReadFails \/ Publish \/ UNCHANGED vars
  <2>1. UNCHANGED <<log, loader>>
    BY <1>3 DEF Tick, ExporterStarts, ReadLogs, ReadFails, Publish, vars, pipelineVars
  <2> QED BY <2>1, LoaderStays
<1>4. CASE SessionStarts \/ Metrics \/ IdleWindow \/ ExtractorProblem \/ FinalMetrics
  <2>1. UNCHANGED loader /\ log'["loader"] = log["loader"]
    BY <1>2, <1>4 DEF SessionStarts, Metrics, IdleWindow, ExtractorProblem, FinalMetrics
  <2> QED BY <2>1, LoaderStays
<1>5. CASE LoaderStarts
  <2> DEFINE entry == Entry("heartbeat", loader.id + 1, Unknown, Never, "starting")
  <2>1. Log("loader", entry)
    BY <1>5 DEF LoaderStarts
  <2>2. /\ loader'.id = loader.id + 1 /\ loader'.stage = "running"
        /\ loader'.lastCommit = Never
    BY <1>5 DEF LoaderStarts
  <2>3. /\ entry.origin = loader.id + 1 /\ entry.event = "heartbeat"
        /\ entry.stamp = Never
    BY DEF Entry
  <2> HIDE DEF entry
  <2>4. StampInv'
    BY <1>1, <2>1, <2>2, <2>3, StampAppend
  <2>5. PairInv'
    BY <1>0, <1>1, <2>1, <2>2, <2>3, PairAppend
  <2> QED BY <2>4, <2>5
<1>6. CASE Heartbeat
  <2>1. PICK state : Log("loader", Entry("heartbeat", loader.id, Unknown, loader.lastCommit, state))
    BY <1>6 DEF Heartbeat, Report
  <2> DEFINE entry == Entry("heartbeat", loader.id, Unknown, loader.lastCommit, state)
  <2>2. loader' = loader /\ loader.stage = "running"
    BY <1>6 DEF Heartbeat
  <2>3. /\ entry.origin = loader.id /\ entry.event = "heartbeat"
        /\ entry.stamp = loader.lastCommit
    BY DEF Entry
  <2> HIDE DEF entry
  <2>4. StampInv'
    BY <1>1, <2>1, <2>2, <2>3, StampAppend DEF entry
  <2>5. PairInv'
    BY <1>0, <1>1, <2>1, <2>2, <2>3, PairAppend DEF entry
  <2> QED BY <2>4, <2>5
<1>7. CASE CommitStarted
  <2>1. PICK bars : /\ loader' = [loader EXCEPT !.stage = "committing", !.batch = bars]
                    /\ Log("loader", Entry("commit_started", loader.id, bars,
                                           loader.lastCommit, "committing"))
    BY <1>7 DEF CommitStarted
  <2> DEFINE entry == Entry("commit_started", loader.id, bars, loader.lastCommit, "committing")
  <2>2. loader'.id = loader.id /\ loader'.lastCommit = loader.lastCommit
    BY <2>1 DEF TypeInv, PipelineShape
  <2>3. /\ entry.origin = loader.id /\ entry.event = "commit_started"
        /\ entry.stamp = loader.lastCommit
    BY DEF Entry
  <2> HIDE DEF entry
  <2>4. StampInv'
    BY <1>1, <2>1, <2>2, <2>3, StampAppend DEF entry
  <2>5. PairInv'
    BY <1>0, <1>1, <2>1, <2>2, <2>3, PairAppend DEF entry
  <2> QED BY <2>4, <2>5
<1>8. CASE Appends
  <2>1. /\ loader.stage = "committing" /\ loader' = [loader EXCEPT !.stage = "appended"]
        /\ UNCHANGED log
    BY <1>8 DEF Appends
  <2>2. loader'.id = loader.id /\ loader'.lastCommit = loader.lastCommit
    BY <2>1 DEF TypeInv, PipelineShape
  <2>3. StampInv'
    BY <2>1, <2>2 DEF StampInv, Reported
  <2>4. PairInv'
    BY <2>1, <2>2 DEF PairInv
  <2> QED BY <2>3, <2>4
<1>9. CASE CommitSucceeded
  <2> DEFINE entry == Entry("commit_succeeded", loader.id, Unknown, now, "committing")
  <2>1. /\ loader.stage = "appended"
        /\ loader' = [loader EXCEPT !.stage = "running", !.lastCommit = now, !.since = now]
        /\ Log("loader", entry)
    BY <1>9 DEF CommitSucceeded
  <2>2. loader'.id = loader.id /\ loader'.lastCommit = now /\ loader'.stage = "running"
    BY <2>1 DEF TypeInv, PipelineShape
  <2>3. /\ entry.origin = loader.id /\ entry.event = "commit_succeeded"
        /\ entry.stamp = now /\ entry.at = now
    BY DEF Entry
  <2> HIDE DEF entry
  <2>4. StampInv'
    BY <1>1, <2>1, <2>2, <2>3, StampAppend
  <2>5. PairInv'
    BY <1>0, <1>1, <2>1, <2>2, <2>3, PairAppend
  <2> QED BY <2>4, <2>5
<1>10. CASE CommitFailed \/ LoaderFailed
  <2>1. PICK event \in {"commit_failed", "loader_failed"}, state \in {"starting", "committing"} :
          /\ loader' = [loader EXCEPT !.stage = "down"]
          /\ Log("loader", Entry(event, loader.id, Unknown, loader.lastCommit, state))
    BY <1>10 DEF CommitFailed, LoaderFailed, Report
  <2> DEFINE entry == Entry(event, loader.id, Unknown, loader.lastCommit, state)
  <2>2. /\ loader'.id = loader.id /\ loader'.lastCommit = loader.lastCommit
        /\ loader'.stage = "down"
    BY <2>1 DEF TypeInv, PipelineShape
  <2>3. /\ entry.origin = loader.id /\ entry.event # "commit_succeeded"
        /\ entry.stamp = loader.lastCommit
    BY DEF Entry
  <2> HIDE DEF entry
  <2>4. StampInv'
    BY <1>1, <2>1, <2>2, <2>3, StampAppend DEF entry
  <2>5. PairInv'
    BY <1>0, <1>1, <2>1, <2>2, <2>3, PairAppend DEF entry
  <2> QED BY <2>4, <2>5
<1> QED BY <1>3, <1>4, <1>5, <1>6, <1>7, <1>8, <1>9, <1>10 DEF Next, Pipeline

-----------------------------------------------------------------------------
(* What a run has read.                                                    *)

\* Every question may be answered with at least one entry.
LEMMA LimitsAre ==
  ASSUME NEW i \in 1 .. 4
  PROVE  QueryLimits[Queries[i]] \in Nat \ {0}
PROOF
<1>1. Queries[i] \in {"extractor", "loader_heartbeats", "loader_commits", "loader_failures"}
  BY QuestionsAre
<1> QED BY <1>1, DashboardAssumption DEF DashboardAssumption

\* What two questions to one log ask for has nothing in common.
LEMMA QuestionsDiffer ==
  ASSUME NEW i \in 1 .. 4, NEW j \in 1 .. 4, i # j, LogOf(Queries[i]) = LogOf(Queries[j])
  PROVE  Filter[Queries[i]] \cap Filter[Queries[j]] = {}
PROOF
<1>1. /\ Filter["loader_heartbeats"] = {"heartbeat"}
      /\ Filter["loader_commits"] = {"commit_started", "commit_succeeded"}
      /\ Filter["loader_failures"] = LoaderFailureEvents
  BY DEF Filter
<1>2. i \in 2 .. 4 /\ j \in 2 .. 4
  BY QuestionsAre DEF LogOf
<1>3. /\ "heartbeat" \notin LoaderFailureEvents /\ "commit_started" \notin LoaderFailureEvents
      /\ "commit_succeeded" \notin LoaderFailureEvents
  BY DEF LoaderFailureEvents
<1>4. i \in {2, 3, 4} /\ j \in {2, 3, 4}
  BY <1>2
<1> QED BY <1>1, <1>3, <1>4, QuestionsAre

\* The newest entries hold the last one, and every one that is younger than one
\* of them.
LEMMA NewestFacts ==
  ASSUME NEW n \in Nat, NEW M, M \subseteq 1 .. n, NEW limit \in Nat \ {0}
  PROVE  /\ Newest(M, limit) \subseteq M
         /\ \A x \in Newest(M, limit), y \in M : x < y => y \in Newest(M, limit)
         /\ \A x \in M : \E y \in Newest(M, limit) : x <= y
PROOF
<1> DEFINE After(p) == {q \in M : q > p}
<1>0. \A q \in M : q \in Nat
  OBVIOUS
<1>1. IsFiniteSet(M)
  <2>1. 1 \in Int /\ n \in Int
    OBVIOUS
  <2>2. IsFiniteSet(1 .. n)
    BY <2>1, FS_Interval
  <2> QED BY <2>2, FS_Subset
<1>2. \A p : IsFiniteSet(After(p)) /\ Cardinality(After(p)) \in Nat
  BY <1>1, FS_Subset, FS_CardinalityType
<1>3. Newest(M, limit) = {p \in M : Cardinality(After(p)) < limit}
  BY DEF Newest
<1>4. ASSUME NEW x \in Newest(M, limit), NEW y \in M, x < y
      PROVE  y \in Newest(M, limit)
  <2>1. After(y) \in SUBSET After(x)
    <3>1. x \in M
      BY <1>3
    <3>2. \A q \in M : q > y => q > x
      BY <1>0, <1>4, <3>1
    <3> QED BY <3>2
  <2> HIDE DEF After
  <2>2. Cardinality(After(y)) <= Cardinality(After(x))
    BY <1>2, <2>1, FS_Subset
  <2>3. Cardinality(After(x)) < limit
    BY <1>3
  <2>4. Cardinality(After(y)) < limit
    BY <1>2, <2>2, <2>3
  <2> QED BY <1>3, <2>4
<1>5. ASSUME NEW x \in M
      PROVE  \E y \in Newest(M, limit) : x <= y
  <2>1. PICK last \in M : \A m \in M : m <= last
    BY MaxIsGreatest
  <2>2. After(last) = {}
    <3>1. \A q \in M : ~ (q > last)
      BY <1>0, <2>1
    <3> QED BY <3>1
  <2> HIDE DEF After
  <2>3. Cardinality(After(last)) = 0
    BY <2>2, FS_EmptySet
  <2> QED BY <1>3, <2>1, <2>3
<1> QED BY <1>3, <1>4, <1>5

\* The log of a question.
LEMMA LogOfIs ==
  ASSUME NEW i \in 1 .. 4, LogShape
  PROVE  /\ LogOf(Queries[i]) \in Sources
         /\ Of(Queries[i]) \subseteq 1 .. Len(log[LogOf(Queries[i])])
         /\ Len(log[LogOf(Queries[i])]) \in Nat
PROOF
<1>1. LogOf(Queries[i]) \in Sources
  BY DEF LogOf, Sources
<1> QED BY <1>1, LogIs DEF Of

\* What comes later in a log changes nothing.
LEMMA ReadGrows ==
  ASSUME TypeInv, LogShape', Grows, UNCHANGED exporter, ReadInv
  PROVE  ReadInv'
PROOF
<1> SUFFICES ASSUME NEW i \in 1 .. 4
             PROVE  /\ i < exporter.step => Answered(Queries[i])'
                    /\ i >= exporter.step => ReadOf(Queries[i])' = {}
  BY DEF ReadInv
<1> DEFINE query == Queries[i]
           source == LogOf(query)
<1>1. /\ source \in Sources /\ Of(query) \subseteq 1 .. Len(log[source])
      /\ Len(log[source]) \in Nat
  BY LogOfIs DEF TypeInv
<1>2. /\ DOMAIN log[source] = 1 .. Len(log[source])
      /\ Len(log'[source]) \in Nat
      /\ DOMAIN log'[source] = 1 .. Len(log'[source])
      /\ Len(log[source]) <= Len(log'[source])
      /\ \A p \in 1 .. Len(log[source]) : log'[source][p] = log[source][p]
  <2>1. DOMAIN log[source] = 1 .. Len(log[source])
    BY <1>1, LogIs DEF TypeInv
  <2>2. Len(log'[source]) \in Nat /\ DOMAIN log'[source] = 1 .. Len(log'[source])
    <3> HIDE DEF Entries
    <3>1. log'[source] \in Seq(Entries)
      BY <1>1 DEF LogShape
    <3> QED BY <3>1
  <2> QED BY <1>1, <2>1, <2>2 DEF Grows
<1>3. \A p \in 1 .. Len(log[source]) : p \in Of(query)' <=> p \in Of(query)
  BY <1>1, <1>2 DEF Of
<1>4. exporter.read[source] \subseteq 1 .. Len(log[source])
  BY <1>1, <1>2 DEF TypeInv, PositionShape
<1>5. ReadOf(query)' = ReadOf(query)
  BY <1>3, <1>4 DEF ReadOf
<1>6. \A p \in ReadOf(query) : p \in 1 .. Len(log[source]) /\ p \in Nat
  BY <1>1, <1>4 DEF ReadOf
<1>7. /\ exporter.seen[source] \in Nat /\ exporter.seen[source] <= Len(log[source])
  BY <1>1, RunParts DEF TypeInv, PositionShape
<1>8. \A p \in Of(query)' : p \in 1 .. Len(log'[source]) /\ p \in Nat
  BY <1>2 DEF Of
<1> HIDE DEF query, source
<1>9. ASSUME Answered(query)
      PROVE  Answered(query)'
  <2> DEFINE start == exporter.now - LookbackHours * 60
  <2>1. ASSUME NEW p \in Of(query)', p <= exporter.seen[source],
               log'[source][p].at >= start
        PROVE  \E q \in ReadOf(query)' : p <= q
    <3>1. p \in 1 .. Len(log[source])
      BY <1>1, <1>7, <1>8, <2>1
    <3>2. p \in Of(query) /\ log[source][p].at >= start
      BY <1>2, <1>3, <2>1, <3>1
    <3> QED BY <1>5, <1>9, <2>1, <3>2 DEF Answered, source
  <2>2. ASSUME NEW p \in ReadOf(query)', NEW q \in Of(query)', p < q, q <= exporter.seen[source]
        PROVE  q \in ReadOf(query)'
    <3>1. q \in 1 .. Len(log[source])
      BY <1>1, <1>7, <1>8, <2>2
    <3> QED BY <1>3, <1>5, <1>9, <2>2, <3>1 DEF Answered, source
  <2>3. ASSUME NEW p \in ReadOf(query)', NEW q \in Of(query)', NEW r \in ReadOf(query)',
               p < q, q < r
        PROVE  q \in ReadOf(query)'
    <3>1. q \in 1 .. Len(log[source])
      BY <1>1, <1>5, <1>6, <1>8, <2>3
    <3> QED BY <1>3, <1>5, <1>9, <2>3, <3>1 DEF Answered
  <2> QED BY <2>1, <2>2, <2>3 DEF Answered, source
<1>10. /\ i < exporter.step => Answered(query)
       /\ i >= exporter.step => ReadOf(query) = {}
  BY DEF ReadInv, query
<1> QED BY <1>5, <1>9, <1>10 DEF query

\* A run that has asked nothing yet.
LEMMA ReadNone ==
  ASSUME exporter'.step <= 1, exporter'.step \in Nat,
         exporter'.read["extractor"] = {}, exporter'.read["loader"] = {}
  PROVE  ReadInv'
PROOF
<1> SUFFICES ASSUME NEW i \in 1 .. 4
             PROVE  ~ (i < exporter'.step) /\ ReadOf(Queries[i])' = {}
  BY DEF ReadInv
<1>1. ~ (i < exporter'.step)
  OBVIOUS
<1>2. exporter'.read[LogOf(Queries[i])] = {}
  BY DEF LogOf
<1> QED BY <1>1, <1>2 DEF ReadOf

\* A run that asks a question.
LEMMA ReadAsk ==
  ASSUME TypeInv, TimeInv, ReadInv, ReadLogs
  PROVE  ReadInv'
PROOF
<1> SUFFICES ASSUME NEW i \in 1 .. 4
             PROVE  /\ i < exporter'.step => Answered(Queries[i])'
                    /\ i >= exporter'.step => ReadOf(Queries[i])' = {}
  BY DEF ReadInv
<1> DEFINE step == exporter.step
           asked == LogOf(Queries[step])
           start == exporter.now - LookbackHours * 60
           answer == Answer(Queries[step], log[asked], start)
           query == Queries[i]
           source == LogOf(query)
           M == {p \in Of(query) : log[source][p].at >= start}
<1>1. /\ step \in 1 .. 4
      /\ exporter'.step = step + 1
      /\ exporter'.now = exporter.now /\ exporter'.seen = exporter.seen
      /\ asked \in Sources
      /\ answer \subseteq 1 .. Len(log[asked])
      /\ exporter'.read[asked] = exporter.read[asked] \cup answer
      /\ \A other \in Sources \ {asked} : exporter'.read[other] = exporter.read[other]
  BY ReadStep
<1>2. UNCHANGED log
  BY DEF ReadLogs, pipelineVars
<1>3. /\ source \in Sources /\ Of(query) \subseteq 1 .. Len(log[source])
      /\ Len(log[source]) \in Nat
  BY LogOfIs DEF TypeInv
<1>4. Of(query)' = Of(query)
  BY <1>2 DEF Of
<1>5. answer = Newest({p \in Of(Queries[step]) : log[asked][p].at >= start},
                      QueryLimits[Queries[step]])
  <2>1. {p \in DOMAIN log[asked] : /\ log[asked][p].event \in Filter[Queries[step]]
                                   /\ log[asked][p].at >= start}
          = {p \in Of(Queries[step]) : log[asked][p].at >= start}
    BY DEF Of
  <2> QED BY <2>1 DEF Answer
<1>6. CASE i # step
  <2>1. ReadOf(query)' = ReadOf(query)
    <3>1. CASE source # asked
      BY <1>1, <1>3, <1>4, <3>1 DEF ReadOf
    <3>2. CASE source = asked
      <4>1. Filter[query] \cap Filter[Queries[step]] = {}
        BY <1>1, <1>6, <3>2, QuestionsDiffer
      <4>2. answer \subseteq Of(Queries[step])
        BY <1>5 DEF Newest
      <4>3. Of(query) \cap Of(Queries[step]) = {}
        BY <3>2, <4>1 DEF Of
      <4> HIDE DEF answer, query, asked
      <4> QED BY <1>1, <1>4, <3>2, <4>2, <4>3 DEF ReadOf
    <3> QED BY <3>1, <3>2
  <2>2. /\ i < step => Answered(query)
        /\ i >= step => ReadOf(query) = {}
    BY DEF ReadInv
  <2>3. /\ i < step + 1 => i < step
        /\ i >= step + 1 => i >= step
    BY <1>1, <1>6
  <2> HIDE DEF query, step
  <2>4. Answered(query) => Answered(query)'
    BY <1>1, <1>2, <1>4, <2>1 DEF Answered, query
  <2> QED BY <1>1, <2>1, <2>2, <2>3, <2>4 DEF query
<1>7. CASE i = step
  <2>1. source = asked /\ query = Queries[step]
    BY <1>7
  <2>2. M \subseteq 1 .. Len(log[source]) /\ QueryLimits[query] \in Nat \ {0}
    BY <1>3, LimitsAre
  <2>3. answer = Newest(M, QueryLimits[query])
    BY <1>5, <1>7
  <2>4. ReadOf(query) = {}
    BY <1>1, <1>7 DEF ReadInv
  <2> HIDE DEF M
  <2>5. /\ answer \subseteq M
        /\ \A x \in answer, y \in M : x < y => y \in answer
        /\ \A x \in M : \E y \in answer : x <= y
    <3> DEFINE n == Len(log[source])
               limit == QueryLimits[query]
    <3>1. n \in Nat /\ limit \in Nat \ {0} /\ M \subseteq 1 .. n /\ answer = Newest(M, limit)
      BY <1>3, <2>2, <2>3
    <3> HIDE DEF n, limit, answer
    <3> QED BY <3>1, NewestFacts
  <2>6. M \subseteq Of(query)
    BY DEF M
  <2> HIDE DEF answer, query, asked
  <2>7. ReadOf(query)' = answer
    <3>1. ReadOf(query) = exporter.read[source] \cap Of(query)
      BY DEF ReadOf, source
    <3>2. ReadOf(query)' = exporter'.read[source] \cap Of(query)
      BY <1>4 DEF ReadOf, source
    <3> HIDE DEF source
    <3>3. exporter'.read[source] = exporter.read[source] \cup answer
      BY <1>1, <2>1
    <3>4. answer \subseteq Of(query)
      BY <2>5, <2>6
    <3> QED BY <2>4, <3>1, <3>2, <3>3, <3>4
  <2>8. ASSUME NEW x \in answer, NEW y \in Of(query), x < y
        PROVE  y \in answer
    <3>1. /\ x \in DOMAIN log[source] /\ y \in DOMAIN log[source]
          /\ log[source][x].at >= start
      BY <2>5 DEF M, Of, source
    <3>2. /\ x \in Nat /\ y \in Nat /\ log[source][x].at \in Nat /\ log[source][y].at \in Nat
      BY <1>3, <3>1, EntryParts DEF TypeInv
    <3>3. log[source][x].at <= log[source][y].at
      BY <1>3, <2>8, <3>1, <3>2 DEF TimeInv
    <3>4. start \in Int
      <4>1. exporter.now \in Int /\ LookbackHours \in Int
        <5>1. exporter.now \in Instants \cup {0}
          BY RunParts DEF TypeInv
        <5>2. \A t \in Instants \cup {0} : t \in Int
          BY Constants
        <5>3. LookbackHours \in Int
          BY Constants
        <5> QED BY <5>1, <5>2, <5>3
      <4> QED BY <4>1
    <3> HIDE DEF start, source
    <3>5. log[source][y].at >= start
      BY <3>1, <3>2, <3>3, <3>4
    <3>6. y \in M
      BY <3>5 DEF M
    <3> QED BY <2>5, <2>8, <3>6
  <2>9. Answered(query)'
    <3>1. ASSUME NEW p \in Of(query), log[source][p].at >= start
          PROVE  \E q \in answer : p <= q
      BY <2>5, <3>1 DEF M
    <3>2. \A p \in answer, q \in Of(query), r \in answer : p < q /\ q < r => q \in answer
      BY <2>8
    <3> QED BY <1>1, <1>2, <1>4, <2>7, <2>8, <3>1, <3>2 DEF Answered, source
  <2>10. ~ (i >= exporter'.step)
    BY <1>1, <1>7
  <2> QED BY <2>9, <2>10 DEF query
<1> QED BY <1>6, <1>7

\* What was read stays what it is worth while the logs grow.
LEMMA ReadStays ==
  ASSUME TypeInv, TimeInv, ReadInv, [Next]_vars
  PROVE  ReadInv'
PROOF
<1>1. LogShape' /\ Grows
  BY TypeStep DEF TypeInv
<1>2. CASE Pipeline \/ UNCHANGED vars
  <2>1. UNCHANGED exporter
    BY <1>2 DEF Pipeline, vars
  <2> QED BY <1>1, <2>1, ReadGrows
<1>3. CASE Tick \/ ReadFails \/ Publish
  <2>1. exporter' = NoRun
    BY <1>3 DEF Tick, ReadFails, Publish
  <2> QED BY <2>1, NoRunIs, ReadNone
<1>4. CASE ExporterStarts
  <2>1. exporter'.step = 1 /\ exporter'.read = NoRun.read
    BY <1>4 DEF ExporterStarts, NoRun
  <2> QED BY <2>1, NoRunIs, ReadNone
<1>5. CASE ReadLogs
  BY <1>5, ReadAsk
<1> QED BY <1>2, <1>3, <1>4, <1>5 DEF Next

-----------------------------------------------------------------------------
(* The invariant, and a run that publishes.                                *)

DashboardInv == TypeInv /\ TimeInv /\ StampInv /\ PairInv /\ ReadInv

\* Where nothing was read there is nothing to show.
LEMMA DashboardInit == Init => DashboardInv
PROOF
<1> SUFFICES ASSUME Init PROVE DashboardInv
  OBVIOUS
<1>1. TypeInv
  BY TypeInit
<1>2. /\ DOMAIN log["extractor"] = {} /\ DOMAIN log["loader"] = {}
      /\ log.loader = <<>> /\ exporter = NoRun /\ loader.lastCommit = Never
      /\ loader.stage = "down"
  BY DEF Init
<1>3. TimeInv
  BY <1>2, NoRunIs DEF TimeInv, Sources
<1>4. StampInv
  BY <1>2 DEF StampInv
<1>5. PairInv
  BY <1>2 DEF PairInv
<1>6. ReadInv
  <2> SUFFICES ASSUME NEW i \in 1 .. 4
               PROVE  ~ (i < exporter.step) /\ ReadOf(Queries[i]) = {}
    BY DEF ReadInv
  <2>1. exporter.read[LogOf(Queries[i])] = {} /\ exporter.step = 0
    BY <1>2, NoRunIs DEF LogOf
  <2> QED BY <2>1 DEF ReadOf
<1> QED BY <1>1, <1>3, <1>4, <1>5, <1>6 DEF DashboardInv

\* One step of the whole.
LEMMA DashboardStep ==
  ASSUME DashboardInv, [Next]_vars
  PROVE  DashboardInv' /\ Grows
PROOF BY TypeStep, TimeStep, LoaderStep, ReadStays DEF DashboardInv

\* The invariant holds in every reachable state.
LEMMA DashboardInvariant == Spec => []DashboardInv
PROOF
<1>1. DashboardInv /\ [Next]_vars => DashboardInv'
  BY DashboardStep
<1> QED BY <1>1, DashboardInit, PTL DEF Spec

\* Latest is the greatest of some positions, or 0 if there are none.
LEMMA LatestFacts ==
  ASSUME NEW n \in Nat, NEW events, events \subseteq 1 .. n
  PROVE  /\ Latest(events) \in Nat
         /\ Latest(events) # 0 => Latest(events) \in events
         /\ \A p \in events : p <= Latest(events)
         /\ Latest(events) = 0 => events = {}
PROOF
<1> DEFINE S == events \cup {0}
<1>1. \A p \in events : p \in Nat /\ p # 0
  OBVIOUS
<1>2. \E m \in S : \A p \in S : m >= p
  <2>1. CASE events = {}
    BY <2>1
  <2>2. CASE events # {}
    <3>1. PICK m \in events : \A p \in events : p <= m
      BY <2>2, MaxIsGreatest
    <3>2. m \in S /\ \A p \in S : m >= p
      BY <1>1, <3>1
    <3> QED BY <3>2
  <2> QED BY <2>1, <2>2
<1>3. Max(S) \in S /\ \A p \in S : Max(S) >= p
  BY <1>2 DEF Max
<1>4. Latest(events) = Max(S)
  BY DEF Latest
<1>0. S \subseteq Nat
  BY <1>1
<1> HIDE DEF S
<1>5. Latest(events) \in Nat
  BY <1>0, <1>3, <1>4
<1>6. \A p \in events : p \in S
  BY DEF S
<1>7. \A p \in events : p <= Latest(events)
  BY <1>1, <1>3, <1>4, <1>5, <1>6
<1>8. Latest(events) # 0 => Latest(events) \in events
  BY <1>3, <1>4 DEF S
<1>9. Latest(events) = 0 => events = {}
  BY <1>1, <1>7
<1> QED BY <1>5, <1>7, <1>8, <1>9

\* What a run publishes.
LEMMA Published ==
  ASSUME DashboardInv, Publish
  PROVE  /\ UNCHANGED log
         /\ exporter.step = 5 /\ exporter.now = now /\ now \in Nat
         /\ \A i \in 1 .. 4 : Answered(Queries[i])
         /\ exporter.read.extractor \subseteq DOMAIN log.extractor
         /\ exporter.read.loader \subseteq DOMAIN log.loader
         /\ \A snapshot \in site' :
              LET d == snapshot.document
                  extractor == ExtractorSummary(log.extractor, exporter.read.extractor)
                  loaded == LoaderSummary(log.loader, exporter.read.loader)
              IN  /\ snapshot.seen = exporter.seen
                  /\ d.now = now /\ d.market = MarketAt(now)
                  /\ d.health = Health(MarketAt(now).state, now, extractor, loaded,
                                       Alerts(log.extractor, log.loader, exporter.read))
                  /\ d.extractor = extractor /\ d.loader = loaded
PROOF
<1>1. UNCHANGED log
  BY DEF Publish, pipelineVars
<1>2. exporter.step = 5
  BY QuestionsAre, RunParts DEF Publish, DashboardInv, TypeInv
<1>3. exporter.now = now /\ now \in Nat
  BY <1>2, Constants DEF DashboardInv, TypeInv, TimeInv, PipelineShape
<1>4. \A i \in 1 .. 4 : Answered(Queries[i])
  BY <1>2 DEF DashboardInv, ReadInv
<1>5. /\ exporter.read.extractor \subseteq DOMAIN log.extractor
      /\ exporter.read.loader \subseteq DOMAIN log.loader
  BY DEF DashboardInv, TypeInv, PositionShape, Sources
<1>6. PICK rows \in ReadTable :
        site' = {[document |-> BuildSnapshot(log.extractor, log.loader, exporter.read,
                                             exporter.now, rows),
                  seen |-> exporter.seen]}
  BY DEF Publish
<1>7. ASSUME NEW snapshot \in site'
      PROVE  LET d == snapshot.document
                 extractor == ExtractorSummary(log.extractor, exporter.read.extractor)
                 loaded == LoaderSummary(log.loader, exporter.read.loader)
             IN  /\ snapshot.seen = exporter.seen
                 /\ d.now = now /\ d.market = MarketAt(now)
                 /\ d.health = Health(MarketAt(now).state, now, extractor, loaded,
                                      Alerts(log.extractor, log.loader, exporter.read))
                 /\ d.extractor = extractor /\ d.loader = loaded
  <2>1. /\ snapshot.seen = exporter.seen
        /\ snapshot.document = BuildSnapshot(log.extractor, log.loader, exporter.read, now, rows)
    BY <1>3, <1>6
  <2> QED BY <2>1 DEF BuildSnapshot
<1> QED BY <1>1, <1>2, <1>3, <1>4, <1>5, <1>7

\* The positions of the two logs.
LEMMA LogLengths ==
  ASSUME DashboardInv
  PROVE  /\ Len(log.extractor) \in Nat /\ DOMAIN log.extractor = 1 .. Len(log.extractor)
         /\ Len(log.loader) \in Nat /\ DOMAIN log.loader = 1 .. Len(log.loader)
         /\ exporter.seen.extractor \in 0 .. Len(log.extractor)
         /\ exporter.seen.loader \in 0 .. Len(log.loader)
         /\ \A snapshot \in site : /\ snapshot.seen.extractor \in 0 .. Len(log.extractor)
                                   /\ snapshot.seen.loader \in 0 .. Len(log.loader)
PROOF
<1>1. /\ Len(log.extractor) \in Nat /\ DOMAIN log.extractor = 1 .. Len(log.extractor)
      /\ Len(log.loader) \in Nat /\ DOMAIN log.loader = 1 .. Len(log.loader)
  BY LogIs DEF DashboardInv, TypeInv
<1> QED BY <1>1, RunParts DEF DashboardInv, TypeInv, PositionShape, Sources

-----------------------------------------------------------------------------
(* The extractor of a document.                                            *)

\* A clean shutdown rests on final metrics after which no metrics were read.
LEMMA ExtractorFacts ==
  ASSUME NEW n \in Nat, NEW entries, NEW events, events \subseteq 1 .. n
  PROVE  LET summary == ExtractorSummary(entries, events) IN
         /\ summary.status = "clean_shutdown" =>
              \E p \in events :
                /\ entries[p].event = "final metrics"
                /\ summary.final_metrics_at = entries[p].at
                /\ summary.last_bar = entries[p].stamp
                /\ \A q \in events :
                     entries[q].event \in {"metrics", "final metrics"} => q <= p
PROOF
<1> DEFINE metrics == {p \in events : entries[p].event \in {"metrics", "final metrics"}}
           finals == {p \in events : entries[p].event = "final metrics"}
           latest == Latest(metrics)
           final == Latest(finals)
           summary == ExtractorSummary(entries, events)
<1>1. /\ metrics \subseteq 1 .. n /\ finals \subseteq 1 .. n
  OBVIOUS
<1>2. /\ latest \in Nat /\ (latest # 0 => latest \in metrics)
      /\ \A p \in metrics : p <= latest
  <2> HIDE DEF metrics
  <2> QED BY <1>1, LatestFacts
<1>3. final \in Nat /\ (final # 0 => final \in finals)
  <2> HIDE DEF finals
  <2> QED BY <1>1, LatestFacts
<1>4. /\ summary.status = CASE final # 0 /\ final = latest -> "clean_shutdown"
                            [] ~ (final # 0 /\ final = latest) /\ latest # 0 -> "observed"
                            [] OTHER -> "no_recent_session"
      /\ summary.last_bar = IF latest = 0 THEN Never ELSE entries[latest].stamp
      /\ summary.final_metrics_at = IF final # 0 /\ final = latest THEN entries[final].at
                                    ELSE Never
  BY DEF ExtractorSummary
<1> HIDE DEF summary, latest, final
<1>5. ASSUME summary.status = "clean_shutdown"
      PROVE  final # 0 /\ final = latest
  BY <1>4, <1>5
<1>6. ASSUME summary.status = "clean_shutdown"
      PROVE  /\ final \in events /\ entries[final].event = "final metrics"
             /\ summary.final_metrics_at = entries[final].at
             /\ summary.last_bar = entries[final].stamp
             /\ \A q \in events : entries[q].event \in {"metrics", "final metrics"} => q <= final
  BY <1>2, <1>3, <1>4, <1>5, <1>6
<1> QED BY <1>6 DEF summary

\* clean_shutdown, with its last bar, is of the newest session that has reported
\* any metrics when a run begins (the comment of export_metrics.py:380-381),
\* although the answer is cut to the newest entries and others arrive meanwhile.
THEOREM CleanShutdownIsNewest == Spec => []CleanShutdownIsOfLatestSession
PROOF
<1>1. Init => CleanShutdownIsOfLatestSession
  BY DEF Init, CleanShutdownIsOfLatestSession
<1>2. ASSUME DashboardInv, CleanShutdownIsOfLatestSession, [Next]_vars
      PROVE  CleanShutdownIsOfLatestSession'
  <2>1. Grows
    BY <1>2, DashboardStep
  <2>2. /\ \A p \in DOMAIN log.extractor :
             p \in DOMAIN log'.extractor /\ log'.extractor[p] = log.extractor[p]
        /\ Len(log.extractor) \in Nat /\ DOMAIN log.extractor = 1 .. Len(log.extractor)
    BY <1>2, <2>1, LogLengths DEF Grows, Sources
  <2>3. CASE Publish
    <3> DEFINE events == exporter.read.extractor
               summary == ExtractorSummary(log.extractor, events)
    <3>1. ASSUME summary.status = "clean_shutdown"
          PROVE  \E p \in DOMAIN log.extractor :
                   /\ log.extractor[p].event = "final metrics"
                   /\ log.extractor[p].at = summary.final_metrics_at
                   /\ log.extractor[p].stamp = summary.last_bar
                   /\ \A q \in p + 1 .. exporter.seen.extractor :
                        log.extractor[q].event \notin {"metrics", "final metrics"}
      <4>1. events \subseteq 1 .. Len(log.extractor) /\ Len(log.extractor) \in Nat
        BY <1>2, <2>2, <2>3, Published
      <4>2. PICK p \in events :
              /\ log.extractor[p].event = "final metrics"
              /\ summary.final_metrics_at = log.extractor[p].at
              /\ summary.last_bar = log.extractor[p].stamp
              /\ \A q \in events :
                   log.extractor[q].event \in {"metrics", "final metrics"} => q <= p
        <5> HIDE DEF events
        <5> QED BY <3>1, <4>1, ExtractorFacts
      <4> HIDE DEF summary
      <4>3. ASSUME NEW q \in p + 1 .. exporter.seen.extractor,
                   log.extractor[q].event \in {"metrics", "final metrics"}
            PROVE  FALSE
        <5>1. /\ p \in Nat /\ q \in Nat /\ p < q /\ q <= exporter.seen.extractor
              /\ q \in DOMAIN log.extractor /\ p \in DOMAIN log.extractor
          BY <1>2, <2>2, <4>1, LogLengths
        <5>2. /\ LogOf("extractor") = "extractor"
              /\ {"metrics", "final metrics"} \subseteq Filter["extractor"]
          BY DEF LogOf, Filter
        <5>3. p \in ReadOf("extractor") /\ q \in Of("extractor")
          BY <4>2, <4>3, <5>1, <5>2 DEF ReadOf, Of
        <5>4. Answered("extractor")
          BY <1>2, <2>3, Published, QuestionsAre
        <5>5. q \in ReadOf("extractor")
          <6>1. \A i \in ReadOf("extractor"), j \in Of("extractor") :
                  i < j /\ j <= exporter.seen["extractor"] => j \in ReadOf("extractor")
            BY <5>2, <5>4 DEF Answered
          <6> QED BY <5>1, <5>3, <6>1
        <5>6. q \in events
          BY <5>2, <5>5 DEF ReadOf
        <5>7. q <= p
          BY <4>2, <4>3, <5>6
        <5> QED BY <5>1, <5>7
      <4> QED BY <2>2, <4>1, <4>2, <4>3
    <3> HIDE DEF summary
    <3>2. /\ log' = log
          /\ \A snapshot \in site' : /\ snapshot.seen = exporter.seen
                                     /\ snapshot.document.extractor = summary
      BY <1>2, <2>3, Published DEF summary
    <3> QED BY <3>1, <3>2 DEF CleanShutdownIsOfLatestSession
  <2>4. CASE ~ Publish
    <3>1. site' = site
      BY <1>2, <2>4 DEF Next, Tick, Pipeline, ExporterStarts, ReadLogs, ReadFails, vars
    <3> SUFFICES ASSUME NEW snapshot \in site,
                        snapshot.document.extractor.status = "clean_shutdown"
                 PROVE  \E p \in DOMAIN log'.extractor :
                          /\ log'.extractor[p].event = "final metrics"
                          /\ log'.extractor[p].at = snapshot.document.extractor.final_metrics_at
                          /\ log'.extractor[p].stamp = snapshot.document.extractor.last_bar
                          /\ \A q \in p + 1 .. snapshot.seen.extractor :
                               log'.extractor[q].event \notin {"metrics", "final metrics"}
      BY <3>1 DEF CleanShutdownIsOfLatestSession
    <3>2. PICK p \in DOMAIN log.extractor :
            /\ log.extractor[p].event = "final metrics"
            /\ log.extractor[p].at = snapshot.document.extractor.final_metrics_at
            /\ log.extractor[p].stamp = snapshot.document.extractor.last_bar
            /\ \A q \in p + 1 .. snapshot.seen.extractor :
                 log.extractor[q].event \notin {"metrics", "final metrics"}
      BY <1>2 DEF CleanShutdownIsOfLatestSession
    <3>3. \A q \in p + 1 .. snapshot.seen.extractor : q \in DOMAIN log.extractor
      BY <1>2, <2>2, LogLengths
    <3> QED BY <2>2, <3>2, <3>3
  <2> QED BY <2>3, <2>4
<1> QED BY <1>1, <1>2, DashboardInvariant, PTL DEF Spec

-----------------------------------------------------------------------------
(* The badge of a document.                                                *)

\* What is not unhealthy after a timestamp was judged was not before, and the
\* timestamp is there and young enough; what is healthy, younger still.
LEMMA FreshnessFacts ==
  ASSUME NEW verdict, NEW name, NEW value \in Nat, NEW t \in Nat,
         NEW warning \in Nat, NEW unhealthy \in Nat, warning <= unhealthy
  PROVE  LET judged == ApplyFreshness(verdict, name, value, t, warning, unhealthy) IN
         /\ judged.status # "unhealthy" =>
              /\ verdict.status # "unhealthy"
              /\ value # Never /\ value >= t - unhealthy
         /\ judged.status = "healthy" =>
              /\ verdict.status = "healthy"
              /\ value # Never /\ value >= t - warning
PROOF
<1> DEFINE judged == ApplyFreshness(verdict, name, value, t, warning, unhealthy)
<1>1. CASE value = Never
  <2>1. judged.status = "unhealthy"
    BY <1>1 DEF ApplyFreshness, Verdict
  <2> QED BY <2>1
<1>2. CASE value # Never /\ t - value > unhealthy
  <2>1. judged.status = "unhealthy"
    BY <1>2 DEF ApplyFreshness, Verdict
  <2> QED BY <2>1
<1>3. CASE value # Never /\ t - value \in warning + 1 .. unhealthy
  <2>1. CASE verdict.status = "unhealthy"
    <3>1. judged = verdict
      BY <1>3, <2>1 DEF ApplyFreshness
    <3> QED BY <2>1, <3>1
  <2>2. CASE verdict.status # "unhealthy"
    <3>1. judged.status = "warning"
      BY <1>3, <2>2 DEF ApplyFreshness, Verdict
    <3>2. value >= t - unhealthy
      BY <1>3
    <3> QED BY <1>3, <2>2, <3>1, <3>2
  <2> QED BY <2>1, <2>2
<1>4. CASE value # Never /\ t - value <= warning
  <2>1. judged = verdict
    BY <1>4 DEF ApplyFreshness
  <2>2. value >= t - unhealthy /\ value >= t - warning
    BY <1>4
  <2> QED BY <1>4, <2>1, <2>2
<1> QED BY <1>1, <1>2, <1>3, <1>4

\* What a status says about the three ages, and what an unresolved alert does to it.
LEMMA HealthFacts ==
  ASSUME NEW state, NEW t \in Nat, NEW extractor, NEW loaded, NEW alerts,
         extractor.last_bar \in Nat, loaded.last_commit \in Nat,
         loaded.latest_heartbeat \in Nat
  PROVE  LET health == Health(state, t, extractor, loaded, alerts)
             Within(heartbeat, bar, commit) ==
               /\ loaded.latest_heartbeat # Never /\ loaded.latest_heartbeat >= t - heartbeat
               /\ state = "market_open" =>
                    /\ extractor.last_bar # Never /\ extractor.last_bar >= t - bar
                    /\ loaded.last_commit # Never /\ loaded.last_commit >= t - commit
         IN  /\ health.status # "unhealthy" => Within(10, 10, 15)
             /\ health.status = "healthy" => Within(5, 5, 10)
             /\ (\E alert \in alerts : Unresolved(alert, loaded)) => health.status = "unhealthy"
PROOF
<1> DEFINE market == MarketVerdict(state, t, extractor, loaded)
           heard == ApplyFreshness(market, "loader_heartbeat", loaded.latest_heartbeat, t, 5, 10)
           health == Health(state, t, extractor, loaded, alerts)
           bar == ApplyFreshness(Verdict("healthy", {}), "extractor_bar", extractor.last_bar, t,
                                 5, 10)
           commit == ApplyFreshness(bar, "loader_commit", loaded.last_commit, t, 10, 15)
<1>1. health = heard \/ health.status = "unhealthy"
  BY DEF Health, Verdict, HeartbeatWarning, HeartbeatUnhealthy
<1>2. (\E alert \in alerts : Unresolved(alert, loaded)) => health.status = "unhealthy"
  <2> HIDE DEF Unresolved, ApplyFreshness, MarketVerdict
  <2> QED BY DEF Health, Verdict
<1>3. state = "market_open" => market = commit
  BY DEF MarketVerdict, BarWarning, BarUnhealthy, CommitWarning, CommitUnhealthy
<1>4. /\ heard.status # "unhealthy" =>
           /\ market.status # "unhealthy"
           /\ loaded.latest_heartbeat # Never /\ loaded.latest_heartbeat >= t - 10
      /\ heard.status = "healthy" =>
           /\ market.status = "healthy"
           /\ loaded.latest_heartbeat # Never /\ loaded.latest_heartbeat >= t - 5
  <2> HIDE DEF market
  <2> QED BY FreshnessFacts
<1>5. /\ commit.status # "unhealthy" =>
           /\ bar.status # "unhealthy"
           /\ loaded.last_commit # Never /\ loaded.last_commit >= t - 15
      /\ commit.status = "healthy" =>
           /\ bar.status = "healthy"
           /\ loaded.last_commit # Never /\ loaded.last_commit >= t - 10
  <2> HIDE DEF bar
  <2> QED BY FreshnessFacts
<1>6. /\ bar.status # "unhealthy" =>
           extractor.last_bar # Never /\ extractor.last_bar >= t - 10
      /\ bar.status = "healthy" =>
           extractor.last_bar # Never /\ extractor.last_bar >= t - 5
  BY FreshnessFacts
<1> HIDE DEF health, heard, market, bar, commit
<1>7. "healthy" # "unhealthy"
  OBVIOUS
<1> QED BY <1>1, <1>2, <1>3, <1>4, <1>5, <1>6, <1>7 DEF health

\* The timestamps of the loader in a document are those of entries that were read.
LEMMA LoaderFacts ==
  ASSUME DashboardInv, NEW events, events \subseteq DOMAIN log.loader
  PROVE  LET loaded == LoaderSummary(log.loader, events) IN
         /\ loaded.last_commit \in Nat
         /\ loaded.last_commit # Never => Reported(loaded.last_commit)
         /\ loaded.latest_heartbeat \in Nat
         /\ loaded.latest_heartbeat # Never =>
              \E p \in DOMAIN log.loader : /\ log.loader[p].event = "heartbeat"
                                           /\ log.loader[p].at = loaded.latest_heartbeat
PROOF
<1> DEFINE entries == log.loader
           n == Len(log.loader)
           latest == Latest(events)
           process == IF latest = 0 THEN 0 ELSE entries[latest].origin
           heartbeats == {p \in {q \in events : entries[q].event \in {"heartbeat"}} :
                            entries[p].origin = process}
           heartbeat == Latest(heartbeats)
           successes == {p \in events : entries[p].event \in {"commit_succeeded"}}
           success == Latest(successes)
           current == IF heartbeat # 0 THEN heartbeat ELSE latest
           loaded == LoaderSummary(log.loader, events)
<1>1. n \in Nat /\ DOMAIN log.loader = 1 .. n /\ events \subseteq 1 .. n
  BY LogLengths
<1>2. /\ loaded.last_commit = CASE successes # {} -> entries[success].stamp
                                [] successes = {} /\ current # 0 -> entries[current].stamp
                                [] OTHER -> Never
      /\ loaded.latest_heartbeat = IF heartbeat # 0 THEN entries[heartbeat].at ELSE Never
  BY DEF LoaderSummary
<1>3. /\ heartbeats \subseteq events /\ successes \subseteq events
      /\ \A p \in heartbeats : entries[p].event = "heartbeat"
  OBVIOUS
<1> HIDE DEF n, heartbeats, successes, loaded
<1>4. latest # 0 => latest \in events
  BY <1>1, LatestFacts
<1>5. heartbeat # 0 => heartbeat \in heartbeats
  BY <1>1, <1>3, LatestFacts
<1>6. successes # {} => success \in successes
  BY <1>1, <1>3, LatestFacts
<1> HIDE DEF latest, heartbeat, success
<1>7. \A p \in events : /\ entries[p].stamp \in Nat /\ entries[p].at \in Nat
                        /\ entries[p].stamp # Never => Reported(entries[p].stamp)
  BY EntryParts DEF DashboardInv, TypeInv, StampInv
<1>8. Never \in Nat
  BY DEF Never
<1>9. /\ loaded.latest_heartbeat \in Nat
      /\ loaded.latest_heartbeat # Never =>
           \E p \in DOMAIN log.loader : /\ log.loader[p].event = "heartbeat"
                                        /\ log.loader[p].at = loaded.latest_heartbeat
  BY <1>2, <1>3, <1>5, <1>7, <1>8
<1>10. \/ loaded.last_commit = Never
       \/ \E p \in events : loaded.last_commit = entries[p].stamp
  <2>1. CASE successes # {}
    BY <1>2, <1>3, <1>6, <2>1
  <2>2. CASE successes = {} /\ current # 0
    <3>1. current \in events
      BY <1>3, <1>4, <1>5, <2>2
    <3> HIDE DEF current
    <3> QED BY <1>2, <2>2, <3>1
  <2>3. CASE successes = {} /\ current = 0
    BY <1>2, <2>3
  <2> QED BY <2>1, <2>2, <2>3
<1>11. /\ loaded.last_commit \in Nat
       /\ loaded.last_commit # Never => Reported(loaded.last_commit)
  BY <1>7, <1>8, <1>10
<1> QED BY <1>9, <1>11 DEF loaded

\* Any other step keeps the document and what it is about.
LEMMA NotPublished ==
  ASSUME DashboardInv, [Next]_vars, ~ Publish
  PROVE  /\ site' = site
         /\ \A p \in DOMAIN log.extractor :
              p \in DOMAIN log'.extractor /\ log'.extractor[p] = log.extractor[p]
         /\ \A p \in DOMAIN log.loader :
              p \in DOMAIN log'.loader /\ log'.loader[p] = log.loader[p]
PROOF
<1>1. site' = site
  BY DEF Next, Tick, Pipeline, ExporterStarts, ReadLogs, ReadFails, vars
<1>2. Grows
  BY DashboardStep
<1> QED BY <1>1, <1>2 DEF Grows, Sources

\* A failure that was in the log when the run began, or one after it, was read.
LEMMA FailureIsRead ==
  ASSUME DashboardInv, Publish, NEW p \in DOMAIN log.loader, p <= exporter.seen.loader,
         log.loader[p].event \in LoaderFailureEvents,
         log.loader[p].at >= now - LookbackHours * 60
  PROVE  \E q \in exporter.read.loader :
           /\ p <= q /\ q \in DOMAIN log.loader
           /\ log.loader[q].event \in LoaderFailureEvents
PROOF
<1>1. LogOf("loader_failures") = "loader" /\ Filter["loader_failures"] = LoaderFailureEvents
  BY DEF LogOf, Filter
<1>2. Answered("loader_failures") /\ exporter.now = now
  BY Published, QuestionsAre
<1>3. p \in Of("loader_failures")
  BY <1>1 DEF Of
<1>4. \A i \in Of("loader_failures") :
        /\ i <= exporter.seen["loader"]
        /\ log["loader"][i].at >= now - LookbackHours * 60
        => \E q \in ReadOf("loader_failures") : i <= q
  BY <1>1, <1>2 DEF Answered
<1>5. PICK q \in ReadOf("loader_failures") : p <= q
  BY <1>3, <1>4
<1>6. /\ q \in exporter.read.loader /\ q \in DOMAIN log.loader
      /\ log.loader[q].event \in LoaderFailureEvents
  BY <1>1 DEF ReadOf, Of
<1> QED BY <1>5, <1>6

\* A failure that the exporter asks for, which was in the log when the run
\* began and is not too old, makes the document unhealthy until a durable commit
\* is reported after it, or in the same second before it.
THEOREM FailuresAreNotHidden == Spec => []NoFailureHidden
PROOF
<1>1. Init => NoFailureHidden
  BY DEF Init, NoFailureHidden
<1>2. ASSUME DashboardInv, NoFailureHidden, [Next]_vars
      PROVE  NoFailureHidden'
  <2>0. DOMAIN log.loader = 1 .. Len(log.loader) /\ Len(log.loader) \in Nat
    BY <1>2, LogLengths
  <2>1. CASE Publish
    <3> SUFFICES ASSUME NEW snapshot \in site', NEW p \in 1 .. snapshot.seen.loader,
                        log'.loader[p].event \in LoaderFailureEvents,
                        log'.loader[p].at >= snapshot.document.now - LookbackHours * 60,
                        snapshot.document.health.status # "unhealthy"
                 PROVE  \E q \in DOMAIN log'.loader :
                          /\ log'.loader[q].event = "commit_succeeded"
                          /\ q > p \/ log'.loader[q].at = log'.loader[p].at
      BY DEF NoFailureHidden
    <3> DEFINE extractor == ExtractorSummary(log.extractor, exporter.read.extractor)
               loaded == LoaderSummary(log.loader, exporter.read.loader)
               alerts == Alerts(log.extractor, log.loader, exporter.read)
    <3>1. /\ log' = log /\ now \in Nat
          /\ exporter.read.loader \subseteq DOMAIN log.loader
          /\ exporter.read.extractor \subseteq DOMAIN log.extractor
      BY <1>2, <2>1, Published
    <3>2. /\ snapshot.seen = exporter.seen /\ snapshot.document.now = now
          /\ snapshot.document.health = Health(MarketAt(now).state, now, extractor, loaded, alerts)
      BY <1>2, <2>1, Published
    <3>3. p \in DOMAIN log.loader /\ p <= exporter.seen.loader /\ p \in Nat
      BY <1>2, <2>0, <3>2, LogLengths
    <3>4. PICK q \in exporter.read.loader :
            /\ p <= q /\ q \in DOMAIN log.loader
            /\ log.loader[q].event \in LoaderFailureEvents
      BY <1>2, <2>1, <3>1, <3>2, <3>3, FailureIsRead
    <3> DEFINE alert == Alert("loader", "ERROR", q, log.loader[q].at)
    <3>5. alert \in alerts
      BY <3>4 DEF Alerts
    <3>6. /\ alert.severity = "ERROR" /\ alert.component = "loader"
          /\ alert.at = log.loader[q].at
      BY DEF Alert
    <3> HIDE DEF extractor, loaded, alerts, alert
    <3>7. /\ loaded.last_commit \in Nat /\ loaded.latest_heartbeat \in Nat
          /\ loaded.last_commit # Never => Reported(loaded.last_commit)
      BY <1>2, <3>1, LoaderFacts DEF loaded
    <3>8. ~ Unresolved(alert, loaded)
      <4>1. Health(MarketAt(now).state, now, extractor, loaded, alerts).status # "unhealthy"
        BY <3>2
      <4>2. ASSUME Unresolved(alert, loaded)
            PROVE  Health(MarketAt(now).state, now, extractor, loaded, alerts).status = "unhealthy"
        BY <3>5, <4>2 DEF Health, Verdict
      <4> QED BY <4>1, <4>2
    <3>9. loaded.last_commit # Never /\ ~ (log.loader[q].at > loaded.last_commit)
      BY <3>6, <3>8 DEF Unresolved
    <3>10. PICK c \in DOMAIN log.loader :
             /\ log.loader[c].event = "commit_succeeded"
             /\ log.loader[c].at = loaded.last_commit
      BY <3>7, <3>9 DEF Reported
    <3>11. /\ log.loader[p].at \in Nat /\ log.loader[q].at \in Nat /\ log.loader[c].at \in Nat
           /\ c \in Nat /\ q \in Nat
      BY <1>2, <3>3, <3>4, <3>10, EntryParts DEF DashboardInv, TypeInv
    <3>12. \A i, j \in DOMAIN log.loader : i <= j => log.loader[i].at <= log.loader[j].at
      BY <1>2 DEF DashboardInv, TimeInv, Sources
    <3>13. log.loader[p].at <= log.loader[q].at /\ log.loader[q].at <= log.loader[c].at
      BY <3>3, <3>4, <3>7, <3>9, <3>10, <3>11, <3>12
    <3>14. CASE c > p
      BY <3>1, <3>10, <3>14
    <3>15. CASE ~ (c > p)
      <4>1. log.loader[c].at <= log.loader[p].at
        BY <3>3, <3>10, <3>11, <3>12, <3>15
      <4>2. log.loader[c].at = log.loader[p].at
        BY <3>11, <3>13, <4>1
      <4> QED BY <3>1, <3>10, <4>2
    <3> QED BY <3>14, <3>15
  <2>2. CASE ~ Publish
    <3>1. /\ site' = site
          /\ \A p \in DOMAIN log.loader :
               p \in DOMAIN log'.loader /\ log'.loader[p] = log.loader[p]
      BY <1>2, <2>2, NotPublished
    <3>2. \A snapshot \in site : \A p \in 1 .. snapshot.seen.loader : p \in DOMAIN log.loader
      BY <1>2, <2>0, LogLengths
    <3> QED BY <1>2, <3>1, <3>2 DEF NoFailureHidden
  <2> QED BY <2>1, <2>2
<1> QED BY <1>1, <1>2, DashboardInvariant, PTL DEF Spec

\* A signal of some kinds since a time.
Since(source, kinds, time) ==
  \E p \in DOMAIN log[source] :
    /\ log[source][p].event \in kinds
    /\ (IF source = "loader" THEN log[source][p].at ELSE log[source][p].stamp) >= time

\* What a document stands on.
Stands(d, heartbeat, bar, commit) ==
  /\ Since("loader", {"heartbeat"}, d.now - heartbeat)
  /\ d.market.state = "market_open" =>
       /\ Since("extractor", {"metrics", "final metrics"}, d.now - bar)
       /\ Since("loader", {"commit_succeeded"}, d.now - commit)

Earned(d) ==
  /\ d.health.status # "unhealthy" => Stands(d, 10, 10, 15)
  /\ d.health.status = "healthy" => Stands(d, 5, 5, 10)

\* Earned is BadgeIsEarned, document by document.
LEMMA EarnedMeans ==
  ASSUME \A snapshot \in site : Earned(snapshot.document)
  PROVE  BadgeIsEarned
PROOF
<1>1. \A d \in Documents : Earned(d)
  BY DEF Documents
<1> QED BY <1>1 DEF BadgeIsEarned, Earned, Stands, Since

\* An entry since some time stays one.
LEMMA SinceGrows ==
  ASSUME DashboardInv, [Next]_vars, NEW source \in Sources, NEW kinds, NEW time,
         Since(source, kinds, time)
  PROVE  Since(source, kinds, time)'
PROOF
<1>1. \A p \in DOMAIN log[source] : p \in DOMAIN log'[source] /\ log'[source][p] = log[source][p]
  BY DashboardStep DEF Grows
<1> QED BY <1>1 DEF Since

\* What a run publishes is earned.
LEMMA PublishedIsEarned ==
  ASSUME DashboardInv, Publish, NEW snapshot \in site'
  PROVE  Earned(snapshot.document)'
PROOF
<1> DEFINE d == snapshot.document
           events == exporter.read.extractor
           extractor == ExtractorSummary(log.extractor, events)
           loaded == LoaderSummary(log.loader, exporter.read.loader)
           alerts == Alerts(log.extractor, log.loader, exporter.read)
           state == MarketAt(now).state
<1>1. /\ log' = log /\ now \in Nat
      /\ exporter.read.loader \subseteq DOMAIN log.loader
      /\ events \subseteq DOMAIN log.extractor
  BY Published
<1>2. /\ d.now = now /\ d.market.state = state
      /\ d.health = Health(state, now, extractor, loaded, alerts)
  BY Published
<1>3. /\ loaded.last_commit \in Nat /\ loaded.latest_heartbeat \in Nat
      /\ loaded.last_commit # Never => Reported(loaded.last_commit)
      /\ loaded.latest_heartbeat # Never =>
           \E p \in DOMAIN log.loader : /\ log.loader[p].event = "heartbeat"
                                        /\ log.loader[p].at = loaded.latest_heartbeat
  BY <1>1, LoaderFacts
<1>4. extractor.last_bar # Never =>
        \E p \in events : /\ log.extractor[p].event \in {"metrics", "final metrics"}
                          /\ extractor.last_bar = log.extractor[p].stamp
  <2> DEFINE metrics == {p \in events : log.extractor[p].event \in {"metrics", "final metrics"}}
             latest == Latest(metrics)
  <2>1. metrics \subseteq 1 .. Len(log.extractor) /\ Len(log.extractor) \in Nat
    BY <1>1, LogLengths
  <2>2. latest # 0 => latest \in metrics
    <3> HIDE DEF metrics
    <3> QED BY <2>1, LatestFacts
  <2>3. extractor.last_bar = IF latest = 0 THEN Never ELSE log.extractor[latest].stamp
    BY DEF ExtractorSummary
  <2> HIDE DEF latest, extractor
  <2> QED BY <2>2, <2>3
<1> HIDE DEF extractor, loaded, alerts, state, events, d
<1>5. extractor.last_bar \in Nat
  <2>1. \A p \in DOMAIN log.extractor : log.extractor[p].stamp \in Nat
    BY EntryParts DEF DashboardInv, TypeInv, Sources
  <2>2. Never \in Nat
    BY DEF Never
  <2> QED BY <1>1, <1>4, <2>1, <2>2
<1> DEFINE Within(heartbeat, bar, commit) ==
             /\ loaded.latest_heartbeat # Never /\ loaded.latest_heartbeat >= now - heartbeat
             /\ state = "market_open" =>
                  /\ extractor.last_bar # Never /\ extractor.last_bar >= now - bar
                  /\ loaded.last_commit # Never /\ loaded.last_commit >= now - commit
<1>6. /\ d.health.status # "unhealthy" => Within(10, 10, 15)
      /\ d.health.status = "healthy" => Within(5, 5, 10)
  <2>1. /\ loaded.last_commit \in Nat /\ loaded.latest_heartbeat \in Nat
        /\ extractor.last_bar \in Nat /\ now \in Nat
    BY <1>1, <1>3, <1>5
  <2> DEFINE health == Health(state, now, extractor, loaded, alerts)
  <2>2. /\ health.status # "unhealthy" => Within(10, 10, 15)
        /\ health.status = "healthy" => Within(5, 5, 10)
    BY <2>1, HealthFacts
  <2> HIDE DEF Within
  <2> QED BY <1>2, <2>2
<1>7. ASSUME NEW heartbeat \in Nat, NEW bar \in Nat, NEW commit \in Nat,
             Within(heartbeat, bar, commit)
      PROVE  Stands(d, heartbeat, bar, commit)'
  <2>1. Since("loader", {"heartbeat"}, now - heartbeat)
    BY <1>3, <1>7 DEF Since
  <2>2. state = "market_open" => Since("extractor", {"metrics", "final metrics"}, now - bar)
    BY <1>1, <1>4, <1>7 DEF Since
  <2>3. state = "market_open" => Since("loader", {"commit_succeeded"}, now - commit)
    BY <1>3, <1>7 DEF Since, Reported
  <2> QED BY <1>1, <1>2, <2>1, <2>2, <2>3 DEF Stands, Since
<1> HIDE DEF Within
<1> QED BY <1>6, <1>7 DEF Earned, d

\* The badge is never better than the pipeline: what is not unhealthy stands on
\* a heartbeat, and in an open market on a bar and a commit that took place, of
\* the minutes that the thresholds name.
THEOREM TheBadgeIsEarned == Spec => []BadgeIsEarned
PROOF
<1> DEFINE Badge == \A snapshot \in site : Earned(snapshot.document)
<1>1. Init => Badge
  BY DEF Init
<1>2. ASSUME DashboardInv, Badge, [Next]_vars
      PROVE  Badge'
  <2>1. CASE Publish
    BY <1>2, <2>1, PublishedIsEarned
  <2>2. CASE ~ Publish
    <3>1. site' = site
      BY <1>2, <2>2, NotPublished
    <3>2. \A d, h, b, c : Stands(d, h, b, c) => Stands(d, h, b, c)'
      BY <1>2, SinceGrows DEF Stands, Sources
    <3> QED BY <1>2, <3>1, <3>2 DEF Earned
  <2> QED BY <2>1, <2>2
<1>3. Badge => BadgeIsEarned
  BY EarnedMeans
<1> QED BY <1>1, <1>2, <1>3, DashboardInvariant, PTL DEF Spec

-----------------------------------------------------------------------------
(* The history of commits in a document.                                   *)

\* A success belongs to the start right before it.
LEMMA StartOf ==
  ASSUME DashboardInv, NEW p \in DOMAIN log.loader,
         log.loader[p].event = "commit_succeeded"
  PROVE  LET entries == log.loader
             starts == {q \in 1 .. p : /\ entries[q].event = "commit_started"
                                       /\ entries[q].origin = entries[p].origin}
         IN  /\ p \in Nat /\ p - 1 \in DOMAIN entries
             /\ entries[p - 1].event = "commit_started"
             /\ entries[p - 1].origin = entries[p].origin
             /\ Max(starts) = p - 1
PROOF
<1> DEFINE entries == log.loader
           starts == {q \in 1 .. p : /\ entries[q].event = "commit_started"
                                     /\ entries[q].origin = entries[p].origin}
<1>1. p \in Nat
  BY LogLengths
<1>2. /\ p - 1 \in DOMAIN entries
      /\ entries[p - 1].event = "commit_started"
      /\ entries[p - 1].origin = entries[p].origin
  BY DEF DashboardInv, PairInv
<1>3. p - 1 \in starts /\ p \notin starts /\ starts \subseteq 1 .. p
  <2>1. p - 1 \in 1 .. p
    BY <1>1, <1>2, LogLengths
  <2> QED BY <1>2, <2>1
<1> HIDE DEF starts
<1>4. Max(starts) \in starts /\ \A q \in starts : q <= Max(starts)
  BY <1>1, <1>3, MaxIsGreatest
<1>5. Max(starts) = p - 1
  <2> DEFINE last == Max(starts)
  <2>1. last \in 1 .. p /\ last # p /\ p - 1 <= last
    BY <1>3, <1>4
  <2> HIDE DEF last
  <2>2. last = p - 1
    BY <1>1, <2>1
  <2> QED BY <2>2 DEF last
<1> QED BY <1>1, <1>2, <1>5 DEF starts

\* What is pending when the success is met: its own start, if that was read, and
\* nothing, if no start before it was.
LEMMA PendingFacts ==
  ASSUME NEW n \in Nat, NEW entries, NEW events, events \subseteq 1 .. n, NEW p \in events,
         entries[p - 1].event = "commit_started", entries[p - 1].origin = entries[p].origin
  PROVE  /\ p - 1 \in events => Pending(entries, events, p) = entries[p - 1].bars
         /\ (\A q \in events : q < p => entries[q].event # "commit_started")
              => Pending(entries, events, p) = Unknown
PROOF
<1> DEFINE earlier == {q \in events : /\ q < p
                                      /\ entries[q].origin = entries[p].origin
                                      /\ entries[q].event # "heartbeat"}
           latest == Latest(earlier)
<1>1. p \in Nat /\ \A q \in earlier : q \in Nat /\ q < p
  OBVIOUS
<1>2. /\ latest \in Nat
      /\ latest # 0 => latest \in earlier
      /\ \A q \in earlier : q <= latest
      /\ latest = 0 => earlier = {}
  <2>1. earlier \subseteq 1 .. n
    OBVIOUS
  <2> HIDE DEF earlier
  <2> QED BY <2>1, LatestFacts
<1>3. Pending(entries, events, p) =
        IF earlier # {} /\ entries[latest].event = "commit_started" THEN entries[latest].bars
        ELSE Unknown
  BY DEF Pending
<1> HIDE DEF latest
<1>4. ASSUME p - 1 \in events
      PROVE  Pending(entries, events, p) = entries[p - 1].bars
  <2>1. p - 1 \in earlier
    BY <1>1, <1>4
  <2> HIDE DEF earlier
  <2>2. latest = p - 1 /\ earlier # {}
    BY <1>1, <1>2, <2>1
  <2> QED BY <1>3, <2>2
<1>5. ASSUME \A q \in events : q < p => entries[q].event # "commit_started"
      PROVE  Pending(entries, events, p) = Unknown
  <2>1. \A q \in earlier : entries[q].event # "commit_started"
    BY <1>5
  <2> HIDE DEF earlier
  <2>2. earlier # {} => latest \in earlier
    BY <1>2
  <2> QED BY <1>3, <2>1, <2>2
<1> QED BY <1>4, <1>5

\* The bars shown of a commit are those of its start, unless it is the oldest.
Paired(document) ==
  LET shown == document.loader.recent_commits IN
  \A p \in DOMAIN shown :
    /\ p \in DOMAIN log.loader /\ log.loader[p].event = "commit_succeeded"
    /\ \/ shown[p] = log.loader[p - 1].bars
       \/ p = Min(DOMAIN shown) /\ shown[p] = Unknown
    /\ log.loader[p].origin <= document.loader.process

\* What a run shows of the commits: of a success whose start was not read, nothing
\* older was read either, since an answer has no holes.
LEMMA PublishedIsPaired ==
  ASSUME DashboardInv, Publish, NEW snapshot \in site'
  PROVE  Paired(snapshot.document)'
PROOF
<1> DEFINE entries == log.loader
           events == exporter.read.loader
           successes == {q \in events : entries[q].event \in {"commit_succeeded"}}
           loaded == LoaderSummary(entries, events)
           shown == loaded.recent_commits
           newest == Newest(successes, HistoryLimit)
<1>1. /\ log' = log /\ snapshot.document.loader = loaded
      /\ events \subseteq DOMAIN entries /\ Answered("loader_commits")
  BY Published, QuestionsAre
<1>2. /\ Len(entries) \in Nat /\ DOMAIN entries = 1 .. Len(entries)
      /\ events \subseteq 1 .. Len(entries)
  BY <1>1, LogLengths
<1>3. shown = [q \in newest |-> Pending(entries, events, q)] /\ newest \subseteq successes
  <2>1. newest \subseteq successes
    BY DEF Newest
  <2> QED BY <2>1 DEF LoaderSummary
<1>4. loaded.process = IF Latest(events) = 0 THEN 0 ELSE entries[Latest(events)].origin
  BY DEF LoaderSummary
<1> DEFINE commits == {q \in DOMAIN entries :
                         entries[q].event \in {"commit_started", "commit_succeeded"}}
           read == events \cap commits
<1>5. \A i \in read, j \in commits, k \in read : i < j /\ j < k => j \in read
  <2>1. /\ LogOf("loader_commits") = "loader"
        /\ Filter["loader_commits"] = {"commit_started", "commit_succeeded"}
    BY DEF LogOf, Filter
  <2>2. Of("loader_commits") = commits /\ ReadOf("loader_commits") = read
    BY <2>1 DEF Of, ReadOf
  <2> QED BY <1>1, <2>2 DEF Answered
<1>6. ASSUME NEW p \in newest
      PROVE  /\ p \in DOMAIN entries /\ entries[p].event = "commit_succeeded"
             /\ \/ shown[p] = entries[p - 1].bars
                \/ p = Min(newest) /\ shown[p] = Unknown
             /\ entries[p].origin <= loaded.process
  <2>1. /\ p \in events /\ p \in DOMAIN entries /\ entries[p].event = "commit_succeeded"
        /\ shown[p] = Pending(entries, events, p)
    BY <1>1, <1>3, <1>6
  <2>2. /\ p \in Nat /\ p - 1 \in DOMAIN entries
        /\ entries[p - 1].event = "commit_started"
        /\ entries[p - 1].origin = entries[p].origin
    BY <2>1, StartOf
  <2> HIDE DEF events, entries, newest, successes, shown, loaded
  <2>3. entries[p].origin <= loaded.process
    <3>1. /\ Latest(events) \in Nat
          /\ Latest(events) # 0 => Latest(events) \in events
          /\ \A q \in events : q <= Latest(events)
      BY <1>2, LatestFacts
    <3>2. Latest(events) # 0 /\ Latest(events) \in events /\ p <= Latest(events)
      BY <1>2, <2>1, <3>1
    <3>3. entries[p].origin <= entries[Latest(events)].origin
      BY <1>1, <2>1, <3>2 DEF DashboardInv, PairInv, entries
    <3> QED BY <1>4, <3>2, <3>3
  <2>4. /\ p - 1 \in events => shown[p] = entries[p - 1].bars
        /\ (\A q \in events : q < p => entries[q].event # "commit_started") => shown[p] = Unknown
    BY <1>2, <2>1, <2>2, PendingFacts
  <2>5. ASSUME p - 1 \notin events
        PROVE  p = Min(newest) /\ shown[p] = Unknown
    <3>1. \A q \in read : q >= p
      <4> SUFFICES ASSUME NEW q \in read, q < p PROVE FALSE
        BY <1>2, <2>2
      <4>1. q \in Nat /\ q # p - 1
        BY <1>2, <2>5
      <4>2. q < p - 1 /\ p - 1 < p
        BY <2>2, <4>1
      <4>3. p \in read /\ p - 1 \in commits
        BY <2>1, <2>2
      <4> HIDE DEF read, commits
      <4>4. p - 1 \in read
        BY <1>5, <4>2, <4>3
      <4> QED BY <2>5, <4>4 DEF read
    <3>2. \A q \in events : q < p => entries[q].event # "commit_started"
      <4> SUFFICES ASSUME NEW q \in events, q < p, entries[q].event = "commit_started"
                   PROVE  FALSE
        OBVIOUS
      <4>1. q \in read
        BY <1>1
      <4>2. q \in Nat
        BY <1>2
      <4> HIDE DEF read
      <4> QED BY <2>2, <3>1, <4>1, <4>2
    <3>3. \A q \in newest : q \in Nat /\ p <= q
      <4> SUFFICES ASSUME NEW q \in newest PROVE q \in Nat /\ p <= q
        OBVIOUS
      <4>1. q \in events /\ entries[q].event = "commit_succeeded"
        BY <1>3 DEF successes
      <4>2. q \in Nat /\ q \in read
        BY <1>1, <1>2, <4>1
      <4> HIDE DEF read
      <4> QED BY <2>2, <3>1, <4>2
    <3>4. Min(newest) = p
      <4>1. p \in newest /\ \A q \in newest : p <= q
        BY <1>6, <3>3
      <4>2. \A m \in newest : (\A q \in newest : m <= q) => m = p
        BY <2>2, <3>3, <4>1
      <4> QED BY <4>1, <4>2 DEF Min
    <3> QED BY <2>4, <3>2, <3>4
  <2> QED BY <2>1, <2>3, <2>4, <2>5
<1>7. DOMAIN shown = newest
  BY <1>3
<1> HIDE DEF events, newest, successes, shown, loaded
<1> QED BY <1>1, <1>6, <1>7 DEF Paired, shown

\* The commit history pairs each success with its own batch, through crashes,
\* restarts, answers that are cut to the newest entries, and entries that arrive
\* between two questions (_loader_summary, export_metrics.py).
THEOREM CommitHistoryHolds == Spec => []CommitHistoryIsTrue
PROOF
<1> DEFINE History == \A snapshot \in site : Paired(snapshot.document)
<1>1. Init => History
  BY DEF Init
<1>2. ASSUME DashboardInv, History, [Next]_vars
      PROVE  History'
  <2>1. CASE Publish
    BY <1>2, <2>1, PublishedIsPaired
  <2>2. CASE ~ Publish
    <3>1. /\ site' = site
          /\ \A p \in DOMAIN log.loader :
               p \in DOMAIN log'.loader /\ log'.loader[p] = log.loader[p]
      BY <1>2, <2>2, NotPublished
    <3>2. ASSUME NEW snapshot \in site
          PROVE  Paired(snapshot.document)'
      <4> DEFINE document == snapshot.document
                 shown == document.loader.recent_commits
      <4>1. ASSUME NEW p \in DOMAIN shown
            PROVE  /\ p \in DOMAIN log'.loader /\ log'.loader[p].event = "commit_succeeded"
                   /\ \/ shown[p] = log'.loader[p - 1].bars
                      \/ p = Min(DOMAIN shown) /\ shown[p] = Unknown
                   /\ log'.loader[p].origin <= document.loader.process
        <5>1. /\ p \in DOMAIN log.loader /\ log.loader[p].event = "commit_succeeded"
              /\ \/ shown[p] = log.loader[p - 1].bars
                 \/ p = Min(DOMAIN shown) /\ shown[p] = Unknown
              /\ log.loader[p].origin <= document.loader.process
          BY <1>2, <4>1 DEF Paired
        <5>2. p - 1 \in DOMAIN log.loader
          BY <1>2, <5>1, StartOf
        <5> QED BY <3>1, <5>1, <5>2
      <4> QED BY <4>1 DEF Paired
    <3> QED BY <3>1, <3>2
  <2> QED BY <2>1, <2>2
<1>3. ASSUME DashboardInv, History
      PROVE  CommitHistoryIsTrue
  <2> SUFFICES ASSUME NEW d \in Documents, NEW p \in DOMAIN d.loader.recent_commits
               PROVE  LET entries == log.loader
                          batch == entries[Max({q \in 1 .. p :
                                                  /\ entries[q].event = "commit_started"
                                                  /\ entries[q].origin = entries[p].origin})].bars
                          oldest == Min(DOMAIN d.loader.recent_commits)
                      IN  /\ \/ d.loader.recent_commits[p] = batch
                             \/ p = oldest /\ d.loader.recent_commits[p] = Unknown
                          /\ entries[p].origin <= d.loader.process
    BY DEF CommitHistoryIsTrue
  <2>1. Paired(d)
    BY <1>3 DEF Documents
  <2>2. p \in DOMAIN log.loader /\ log.loader[p].event = "commit_succeeded"
    BY <2>1 DEF Paired
  <2>3. Max({q \in 1 .. p : /\ log.loader[q].event = "commit_started"
                            /\ log.loader[q].origin = log.loader[p].origin}) = p - 1
    BY <1>3, <2>2, StartOf
  <2> QED BY <2>1, <2>3 DEF Paired
<1> HIDE DEF History
<1> QED BY <1>1, <1>2, <1>3, DashboardInvariant, PTL DEF Spec

-----------------------------------------------------------------------------
(* The rows of the table.                                                  *)

\* The bars that an entry reports to be durable: those of the start before it.
Durable(entries) ==
  [p \in DOMAIN entries |-> IF entries[p].event = "commit_succeeded" THEN entries[p - 1].bars
                            ELSE 0]

Unreported(state) == IF state.stage = "appended" THEN state.batch ELSE 0

\* The table holds the rows of every commit reported, and of the one not yet
\* reported; the end of the log tells the rows of the commit under way.
TableInv ==
  /\ SumOf(Durable(log.loader), DOMAIN log.loader) + Unreported(loader) <= table
  /\ loader.stage \in {"committing", "appended"} =>
       log.loader[Len(log.loader)].bars = loader.batch

\* Numbers of bars are numbers, in the log and in the sum over it.
LEMMA DurableType ==
  ASSUME TypeInv, PairInv
  PROVE  /\ IsFiniteSet(DOMAIN log.loader)
         /\ \A p \in DOMAIN log.loader :
              log.loader[p].bars \in Nat /\ Durable(log.loader)[p] \in Nat
         /\ SumOf(Durable(log.loader), DOMAIN log.loader) \in Nat
         /\ loader.batch \in Nat /\ Unreported(loader) \in Nat /\ table \in Nat
PROOF
<1>1. DOMAIN log.loader = 1 .. Len(log.loader) /\ Len(log.loader) \in Nat
  BY LogIs DEF TypeInv
<1>2. IsFiniteSet(DOMAIN log.loader)
  BY <1>1, FS_Interval
<1>3. \A p \in DOMAIN log.loader : log.loader[p].bars \in Nat
  <2>1. \A e \in LoaderEntries : e.bars \in 0 .. MaxEntries
    BY DEF LoaderEntries
  <2>2. \A p \in DOMAIN log.loader : log.loader[p] \in LoaderEntries
    <3> HIDE DEF Entries, ExtractorEntries, LoaderEntries
    <3> QED BY DEF TypeInv, LogShape
  <2> QED BY <2>1, <2>2, Constants
<1>4. \A p \in DOMAIN log.loader : Durable(log.loader)[p] \in Nat
  BY <1>3 DEF Durable, PairInv
<1>5. SumOf(Durable(log.loader), DOMAIN log.loader) \in Nat
  BY <1>2, <1>4, SumType
<1>6. loader.batch \in Nat /\ table \in Nat
  BY Constants DEF TypeInv, PipelineShape
<1>7. Unreported(loader) \in Nat
  BY <1>6 DEF Unreported
<1> QED BY <1>2, <1>3, <1>4, <1>5, <1>6, <1>7

\* An entry adds to the sum what the loader has appended, if it reports a success.
LEMMA TableAppend ==
  ASSUME TypeInv, PairInv, TableInv, NEW entry, log'["loader"] = Append(log["loader"], entry),
         UNCHANGED table, loader'.stage # "appended",
         loader'.stage = "committing" => entry.bars = loader'.batch,
         entry.event = "commit_succeeded" => loader.stage = "appended"
  PROVE  TableInv'
PROOF
<1> DEFINE n == Len(log.loader)
           old == log.loader
           new == log'.loader
           more == IF entry.event = "commit_succeeded" THEN loader.batch ELSE 0
<1>1. /\ n \in Nat /\ DOMAIN old = 1 .. n /\ DOMAIN new = 1 .. n + 1
      /\ Len(new) = n + 1 /\ new[n + 1] = entry
      /\ \A p \in 1 .. n : new[p] = old[p]
  BY LoaderAppend DEF TypeInv
<1>2. /\ IsFiniteSet(DOMAIN old) /\ loader.batch \in Nat /\ table \in Nat
      /\ \A p \in DOMAIN old : Durable(old)[p] \in Nat
      /\ SumOf(Durable(old), DOMAIN old) \in Nat
  BY DurableType
<1>3. \A p \in 1 .. n : Durable(new)[p] = Durable(old)[p]
  <2> TAKE p \in 1 .. n
  <2>1. p \in DOMAIN old /\ p \in DOMAIN new
    BY <1>1
  <2>2. old[p].event = "commit_succeeded" => p - 1 \in DOMAIN old
    BY <2>1 DEF PairInv
  <2> HIDE DEF old, new, n
  <2>3. old[p].event = "commit_succeeded" => new[p - 1] = old[p - 1]
    BY <1>1, <2>2
  <2> QED BY <1>1, <2>1, <2>3 DEF Durable
<1>4. Durable(new)[n + 1] = more
  <2>1. ASSUME entry.event = "commit_succeeded"
        PROVE  n \in 1 .. n /\ old[n].bars = loader.batch
    BY <1>1, <2>1 DEF TableInv, PairInv
  <2> HIDE DEF old, new, n
  <2>2. n + 1 \in DOMAIN new /\ (n + 1) - 1 = n
    BY <1>1
  <2>3. Durable(new)[n + 1] = IF entry.event = "commit_succeeded" THEN new[n].bars ELSE 0
    BY <1>1, <2>2 DEF Durable
  <2> QED BY <1>1, <2>1, <2>3
<1>5. more \in Nat /\ more <= Unreported(loader) /\ Unreported(loader) \in Nat
  BY <1>2 DEF Unreported
<1>6. SumOf(Durable(new), DOMAIN new) <= more + SumOf(Durable(old), DOMAIN old)
  <2> HIDE DEF old, new, n, more
  <2>1. 1 .. n + 1 = (1 .. n) \union {n + 1} /\ n + 1 \notin 1 .. n
    BY <1>1
  <2>2. \A p \in 1 .. n : Durable(new)[p] \in Nat /\ Durable(old)[p] \in Nat
    BY <1>1, <1>2, <1>3
  <2>3. \A p \in (1 .. n) \union {n + 1} : Durable(new)[p] \in Nat
    BY <1>4, <1>5, <2>2
  <2>4. IsFiniteSet(1 .. n)
    BY <1>1, <1>2
  <2>5. SumOf(Durable(new), 1 .. n + 1) = Durable(new)[n + 1] + SumOf(Durable(new), 1 .. n)
    BY <2>1, <2>3, <2>4, SumOfOneMore
  <2>6. \A p \in 1 .. n : Durable(new)[p] <= Durable(old)[p]
    BY <1>3, <2>2
  <2>7. SumOf(Durable(new), 1 .. n) <= SumOf(Durable(old), 1 .. n)
    BY <2>2, <2>4, <2>6, SumMonotone
  <2>8. SumOf(Durable(new), 1 .. n) \in Nat /\ SumOf(Durable(old), 1 .. n) \in Nat
    BY <2>2, <2>4, SumType
  <2> QED BY <1>1, <1>4, <1>5, <2>5, <2>7, <2>8
<1>7. SumOf(Durable(new), DOMAIN new) \in Nat
  <2> HIDE DEF old, new, n, more
  <2>1. IsFiniteSet(1 .. n + 1)
    BY <1>1, FS_Interval
  <2>2. \A p \in 1 .. n + 1 : Durable(new)[p] \in Nat
    <3> TAKE p \in 1 .. n + 1
    <3>1. p \in 1 .. n \/ p = n + 1
      BY <1>1
    <3> QED BY <1>1, <1>2, <1>3, <1>4, <1>5, <3>1
  <2> QED BY <1>1, <2>1, <2>2, SumType
<1>8. Unreported(loader)' = 0
  BY DEF Unreported
<1>9. SumOf(Durable(old), DOMAIN old) + Unreported(loader) <= table
  BY DEF TableInv
<1>10. SumOf(Durable(new), DOMAIN new) + 0 <= table
  <2> DEFINE total == SumOf(Durable(new), DOMAIN new)
             sum == SumOf(Durable(old), DOMAIN old)
  <2>1. total \in Nat /\ sum \in Nat
    BY <1>2, <1>7
  <2>2. total <= more + sum /\ sum + Unreported(loader) <= table
    BY <1>6, <1>9
  <2>3. more \in Nat /\ more <= Unreported(loader) /\ Unreported(loader) \in Nat /\ table \in Nat
    BY <1>2, <1>5
  <2> HIDE DEF total, sum, more
  <2>4. total + 0 <= table
    BY <2>1, <2>2, <2>3
  <2> QED BY <2>4 DEF total
<1>11. loader'.stage \in {"committing", "appended"} => new[Len(new)].bars = loader'.batch
  BY <1>1
<1> HIDE DEF more, n
<1> QED BY <1>8, <1>10, <1>11 DEF TableInv

\* A commit of the loader adds its bars; a report moves them from one part to the other.
LEMMA TableStep ==
  ASSUME TypeInv, PairInv, TableInv, [Next]_vars
  PROVE  TableInv'
PROOF
<1>1. ASSUME NEW entry, Log("loader", entry)
      PROVE  log'["loader"] = Append(log["loader"], entry)
  BY <1>1, LogIs DEF Log, TypeInv, LogShape
<1>2. ASSUME NEW entry, Log("extractor", entry)
      PROVE  log'["loader"] = log["loader"]
  BY <1>2, LogIs DEF Log, TypeInv, LogShape
<1>3. CASE Tick \/ ExporterStarts \/ ReadLogs \/ ReadFails \/ Publish \/ UNCHANGED vars
  <2>1. UNCHANGED <<log, loader, table>>
    BY <1>3 DEF Tick, ExporterStarts, ReadLogs, ReadFails, Publish, vars, pipelineVars
  <2> QED BY <2>1 DEF TableInv
<1>4. CASE SessionStarts \/ Metrics \/ IdleWindow \/ ExtractorProblem \/ FinalMetrics
  <2>1. UNCHANGED <<loader, table>> /\ log'["loader"] = log["loader"]
    BY <1>2, <1>4 DEF SessionStarts, Metrics, IdleWindow, ExtractorProblem, FinalMetrics
  <2>2. log'.loader = log.loader
    BY <2>1
  <2> QED BY <2>1, <2>2 DEF TableInv
<1>5. CASE LoaderStarts
  <2> DEFINE entry == Entry("heartbeat", loader.id + 1, Unknown, Never, "starting")
  <2>1. Log("loader", entry) /\ loader'.stage = "running" /\ UNCHANGED table
    BY <1>5 DEF LoaderStarts
  <2>2. entry.event = "heartbeat"
    BY DEF Entry
  <2> HIDE DEF entry
  <2> QED BY <1>1, <2>1, <2>2, TableAppend
<1>6. CASE Heartbeat
  <2>1. PICK state : Log("loader", Entry("heartbeat", loader.id, Unknown, loader.lastCommit, state))
    BY <1>6 DEF Heartbeat, Report
  <2> DEFINE entry == Entry("heartbeat", loader.id, Unknown, loader.lastCommit, state)
  <2>2. loader'.stage = "running" /\ UNCHANGED table
    BY <1>6 DEF Heartbeat
  <2>3. entry.event = "heartbeat"
    BY DEF Entry
  <2>4. log'["loader"] = Append(log["loader"], entry)
    BY <1>1, <2>1
  <2> HIDE DEF entry
  <2> QED BY <2>2, <2>3, <2>4, TableAppend
<1>7. CASE CommitStarted
  <2>1. PICK bars : /\ loader' = [loader EXCEPT !.stage = "committing", !.batch = bars]
                    /\ Log("loader", Entry("commit_started", loader.id, bars,
                                           loader.lastCommit, "committing"))
    BY <1>7 DEF CommitStarted
  <2> DEFINE entry == Entry("commit_started", loader.id, bars, loader.lastCommit, "committing")
  <2>2. loader'.stage = "committing" /\ loader'.batch = bars
    BY <2>1 DEF TypeInv, PipelineShape
  <2>3. entry.event = "commit_started" /\ entry.bars = bars
    BY DEF Entry
  <2>4. log'["loader"] = Append(log["loader"], entry) /\ UNCHANGED table
    BY <1>1, <1>7, <2>1 DEF CommitStarted
  <2> HIDE DEF entry
  <2> QED BY <2>2, <2>3, <2>4, TableAppend
<1>8. CASE Appends
  <2>1. /\ loader.stage = "committing" /\ UNCHANGED log /\ table' = table + loader.batch
        /\ loader'.stage = "appended" /\ loader'.batch = loader.batch
    BY <1>8 DEF Appends, TypeInv, PipelineShape
  <2> DEFINE sum == SumOf(Durable(log.loader), DOMAIN log.loader)
  <2>2. sum \in Nat /\ loader.batch \in Nat /\ table \in Nat
    BY DurableType
  <2>3. Unreported(loader) = 0 /\ Unreported(loader)' = loader.batch
    BY <2>1 DEF Unreported
  <2>4. sum + 0 <= table
    BY <2>3 DEF TableInv
  <2> HIDE DEF sum
  <2>5. sum + loader.batch <= table'
    BY <2>1, <2>2, <2>4
  <2>6. log'.loader[Len(log'.loader)].bars = loader'.batch
    BY <2>1 DEF TableInv
  <2>7. SumOf(Durable(log'.loader), DOMAIN log'.loader) + Unreported(loader)' <= table'
    BY <2>1, <2>3, <2>5 DEF sum
  <2> QED BY <2>6, <2>7 DEF TableInv
<1>9. CASE CommitSucceeded
  <2> DEFINE entry == Entry("commit_succeeded", loader.id, Unknown, now, "committing")
  <2>1. /\ loader.stage = "appended" /\ Log("loader", entry) /\ UNCHANGED table
        /\ loader'.stage = "running"
    BY <1>9 DEF CommitSucceeded, TypeInv, PipelineShape
  <2> HIDE DEF entry
  <2> QED BY <1>1, <2>1, TableAppend
<1>10. CASE CommitFailed \/ LoaderFailed
  <2>1. PICK event \in {"commit_failed", "loader_failed"}, state \in {"starting", "committing"} :
          /\ loader' = [loader EXCEPT !.stage = "down"]
          /\ Log("loader", Entry(event, loader.id, Unknown, loader.lastCommit, state))
    BY <1>10 DEF CommitFailed, LoaderFailed, Report
  <2> DEFINE entry == Entry(event, loader.id, Unknown, loader.lastCommit, state)
  <2>2. loader'.stage = "down" /\ UNCHANGED table
    BY <1>10, <2>1 DEF CommitFailed, LoaderFailed, TypeInv, PipelineShape
  <2>3. entry.event # "commit_succeeded"
    BY DEF Entry
  <2>4. log'["loader"] = Append(log["loader"], entry)
    BY <1>1, <2>1
  <2> HIDE DEF entry
  <2> QED BY <2>2, <2>3, <2>4, TableAppend
<1> QED BY <1>3, <1>4, <1>5, <1>6, <1>7, <1>8, <1>9, <1>10 DEF Next, Pipeline

\* The table of a document holds the rows of the commits it lists.
Covered(document) ==
  LET shown == document.loader.recent_commits IN
  \A rows \in document.table : SumOf(shown, DOMAIN shown) <= rows

\* What is shown of a commit is at most what it added, and the table is read last.
LEMMA PublishedIsCovered ==
  ASSUME DashboardInv, TableInv, Publish, NEW snapshot \in site'
  PROVE  Covered(snapshot.document)
PROOF
<1> DEFINE shown == snapshot.document.loader.recent_commits
           entries == log.loader
<1>1. \A rows \in snapshot.document.table : rows = table
  <2>1. PICK rows \in ReadTable :
          site' = {[document |-> BuildSnapshot(log.extractor, log.loader, exporter.read,
                                               exporter.now, rows),
                    seen |-> exporter.seen]}
    BY DEF Publish
  <2>2. snapshot.document.table = rows
    BY <2>1 DEF BuildSnapshot
  <2> QED BY <2>2 DEF ReadTable
<1>2. log' = log /\ Paired(snapshot.document)'
  BY Published, PublishedIsPaired
<1>3. /\ IsFiniteSet(DOMAIN entries) /\ table \in Nat /\ Unreported(loader) \in Nat
      /\ \A p \in DOMAIN entries : entries[p].bars \in Nat /\ Durable(entries)[p] \in Nat
      /\ SumOf(Durable(entries), DOMAIN entries) \in Nat
  BY DurableType DEF DashboardInv
<1>4. \A p \in DOMAIN shown :
        /\ p \in DOMAIN entries /\ entries[p].event = "commit_succeeded"
        /\ shown[p] = entries[p - 1].bars \/ shown[p] = 0
  BY <1>2 DEF Paired, Unknown
<1> HIDE DEF shown, entries
<1>5. DOMAIN shown \subseteq DOMAIN entries
  BY <1>4
<1>6. \A p \in DOMAIN shown : shown[p] \in Nat /\ shown[p] <= Durable(entries)[p]
  <2> TAKE p \in DOMAIN shown
  <2>1. Durable(entries)[p] = entries[p - 1].bars
    BY <1>4 DEF Durable
  <2>2. Durable(entries)[p] \in Nat
    BY <1>3, <1>4
  <2> QED BY <1>4, <2>1, <2>2
<1>7. IsFiniteSet(DOMAIN shown)
  BY <1>3, <1>5, FS_Subset
<1>8. SumOf(shown, DOMAIN shown) <= SumOf(Durable(entries), DOMAIN entries)
  BY <1>3, <1>5, <1>6, SumMonotone
<1>9. SumOf(shown, DOMAIN shown) \in Nat
  BY <1>6, <1>7, SumType
<1>10. SumOf(Durable(entries), DOMAIN entries) + Unreported(loader) <= table
  BY DEF TableInv, entries
<1>11. SumOf(shown, DOMAIN shown) <= table
  <2> DEFINE small == SumOf(shown, DOMAIN shown)
             large == SumOf(Durable(entries), DOMAIN entries)
  <2>1. small \in Nat /\ large \in Nat /\ small <= large
    BY <1>3, <1>8, <1>9
  <2>2. large + Unreported(loader) <= table
    BY <1>10
  <2> HIDE DEF small, large
  <2>3. small <= table
    BY <1>3, <2>1, <2>2
  <2> QED BY <2>3 DEF small
<1> QED BY <1>1, <1>11 DEF Covered, shown

\* The table a document shows, if it shows one, holds the rows of every commit it
\* lists: the loader reports a commit after Iceberg's, and the exporter reads the
\* table after the logs (build_snapshot and main, export_metrics.py).
THEOREM TableCoversTheCommits == Spec => []TableCoversCommits
PROOF
<1> DEFINE Cover == TableInv /\ \A snapshot \in site : Covered(snapshot.document)
<1>1. Init => Cover
  <2> SUFFICES ASSUME Init PROVE TableInv /\ site = {}
    OBVIOUS
  <2>1. /\ DOMAIN log.loader = {} /\ loader.stage = "down" /\ table = 0 /\ site = {}
    BY DEF Init
  <2>2. SumOf(Durable(log.loader), DOMAIN log.loader) = 0
    BY <2>1, SumOfNone
  <2> QED BY <2>1, <2>2 DEF TableInv, Unreported
<1>2. ASSUME DashboardInv, Cover, [Next]_vars
      PROVE  Cover'
  <2>1. TableInv'
    BY <1>2, TableStep DEF DashboardInv
  <2>2. \A snapshot \in site' : Covered(snapshot.document)
    <3>1. CASE Publish
      BY <1>2, <3>1, PublishedIsCovered
    <3>2. CASE ~ Publish
      BY <1>2, <3>2, NotPublished
    <3> QED BY <3>1, <3>2
  <2> QED BY <2>1, <2>2 DEF Covered
<1>3. Cover => TableCoversCommits
  <2> SUFFICES ASSUME Cover, NEW d \in Documents, NEW rows \in d.table
               PROVE  rows >= MapThenSumSet(LAMBDA p : d.loader.recent_commits[p],
                                            DOMAIN d.loader.recent_commits)
    BY DEF TableCoversCommits
  <2>1. rows >= SumOf(d.loader.recent_commits, DOMAIN d.loader.recent_commits)
    BY DEF Documents, Covered
  <2> QED BY <2>1 DEF SumOf
<1> HIDE DEF Cover
<1> QED BY <1>1, <1>2, <1>3, DashboardInvariant, PTL DEF Spec

-----------------------------------------------------------------------------
(* The clock of the market.                                                *)

Sunday == Day(Shift - OffsetBefore)

\* The day of a local time, and the time of that day.
LEMMA DayParts ==
  ASSUME NEW local \in Int
  PROVE  /\ Day(local) \in Int /\ TimeOfDay(local) \in 0 .. DayLength - 1
         /\ local = Day(local) * DayLength + TimeOfDay(local)
PROOF BY DEF Day, TimeOfDay, DayLength

\* The day and the time of day of a minute.
LEMMA DayOf ==
  ASSUME NEW day \in Int, NEW time \in 0 .. DayLength - 1
  PROVE  LET local == day * DayLength + time
         IN  local \in Int /\ Day(local) = day /\ TimeOfDay(local) = time
PROOF BY DEF Day, TimeOfDay, DayLength

\* The clocks change on that Sunday: before it one offset holds, after it the other.
LEMMA Offsets ==
  /\ Shift \in Int /\ OffsetBefore \in Int /\ OffsetAfter \in Int /\ Sunday \in Int
  /\ Weekday(Sunday) = 6
  /\ \A t \in Int :
       /\ t < Shift => Local(t) = t - OffsetBefore /\ Day(Local(t)) <= Sunday
       /\ t >= Shift => Local(t) = t - OffsetAfter /\ Day(Local(t)) >= Sunday
PROOF
<1>1. Shift \in Int /\ OffsetBefore \in Int /\ OffsetAfter \in Int
  BY MarketClockAssumption DEF MarketClockAssumption
<1>2. Sunday \in Int /\ Weekday(Sunday) = 6 /\ Day(Shift - OffsetAfter) = Sunday
  BY <1>1, ClockChangeAssumption DEF ClockChangeAssumption, Sunday, Day, DayLength
<1>3. ASSUME NEW t \in Int, t < Shift
      PROVE  Local(t) = t - OffsetBefore /\ Day(Local(t)) <= Sunday
  BY <1>1, <1>3 DEF Local, Day, DayLength, Sunday
<1>4. ASSUME NEW t \in Int, t >= Shift
      PROVE  Local(t) = t - OffsetAfter /\ Day(Local(t)) >= Sunday
  <2>1. Local(t) = t - OffsetAfter
    BY <1>1, <1>4 DEF Local
  <2>2. (t - OffsetAfter) \div DayLength >= (Shift - OffsetAfter) \div DayLength
    BY <1>1, <1>4 DEF DayLength
  <2> QED BY <1>2, <2>1, <2>2 DEF Day
<1> QED BY <1>1, <1>2, <1>3, <1>4

\* On every other day a local time is that of one instant.
LEMMA OnOtherDays ==
  ASSUME NEW day \in Int, day # Sunday, NEW time \in 0 .. DayLength - 1
  PROVE  LET local == day * DayLength + time
             t == ToUtc(local)
         IN  /\ t \in Int /\ Local(t) = local
             /\ day < Sunday => t < Shift /\ t = local + OffsetBefore
             /\ day > Sunday => t >= Shift /\ t = local + OffsetAfter
PROOF
<1> DEFINE local == day * DayLength + time
<1>1. local \in Int /\ Day(local) = day
  BY DayOf
<1> HIDE DEF local
<1>2. /\ Shift \in Int /\ OffsetBefore \in Int /\ OffsetAfter \in Int /\ Sunday \in Int
      /\ Sunday = (Shift - OffsetBefore) \div DayLength
      /\ Sunday = (Shift - OffsetAfter) \div DayLength
  BY Offsets, ClockChangeAssumption DEF ClockChangeAssumption, Sunday, Day
<1>3. day = local \div DayLength
  BY <1>1 DEF Day
<1>4. /\ day < Sunday => local < Shift - OffsetBefore
      /\ day > Sunday => local >= Shift - OffsetBefore
      /\ day > Sunday => local >= Shift - OffsetAfter
  BY <1>1, <1>2, <1>3 DEF DayLength
<1>5. /\ day < Sunday => ToUtc(local) = local + OffsetBefore /\ ToUtc(local) < Shift
      /\ day > Sunday => ToUtc(local) = local + OffsetAfter /\ ToUtc(local) >= Shift
  BY <1>1, <1>2, <1>4 DEF ToUtc
<1>6. ToUtc(local) \in Int /\ Local(ToUtc(local)) = local
  <2>1. CASE day < Sunday
    BY <1>1, <1>2, <1>5, <2>1 DEF Local
  <2>2. CASE day > Sunday
    BY <1>1, <1>2, <1>5, <2>2 DEF Local
  <2> QED BY <1>2, <2>1, <2>2
<1> QED BY <1>5, <1>6 DEF local

\* The day of the next opening: the first from "candidate" on that is no weekend.
LEMMA OpeningIsRight ==
  ASSUME NEW candidate \in Int
  PROVE  \E day \in Int :
           /\ Opening(candidate) = ToUtc(day * DayLength + PreOpen)
           /\ day >= candidate /\ Weekday(day) < 5 /\ day # Sunday
           /\ \A other \in candidate .. day - 1 : Weekday(other) >= 5
PROOF
<1>1. CASE Weekday(candidate) < 5
  <2>1. Opening(candidate) = ToUtc(candidate * DayLength + PreOpen)
    BY <1>1 DEF Opening
  <2>2. candidate # Sunday
    BY <1>1, Offsets
  <2> QED BY <1>1, <2>1, <2>2
<1>2. CASE ~ (Weekday(candidate) < 5)
  <2> DEFINE day == candidate + 7 - Weekday(candidate)
  <2>1. Opening(candidate) = ToUtc(day * DayLength + PreOpen)
    BY <1>2 DEF Opening
  <2>2. day \in Int /\ day >= candidate /\ Weekday(day) = 0
    BY <1>2 DEF Weekday
  <2>3. \A other \in candidate .. day - 1 : Weekday(other) >= 5
    BY <1>2 DEF Weekday
  <2>4. day # Sunday
    BY <2>2, Offsets
  <2> QED BY <2>1, <2>2, <2>3, <2>4
<1> QED BY <1>1, <1>2

\* An opening lies ahead of what is before it by the clock of New York, and
\* lies behind what is not.
LEMMA ByTheClock ==
  ASSUME NEW t \in Int, NEW day \in Int, day # Sunday
  PROVE  Local(t) < day * DayLength + PreOpen <=> t < ToUtc(day * DayLength + PreOpen)
PROOF
<1> DEFINE local == day * DayLength + PreOpen
           today == Day(Local(t))
<1>1. /\ Shift \in Int /\ OffsetBefore \in Int /\ OffsetAfter \in Int /\ Sunday \in Int
      /\ t < Shift => Local(t) = t - OffsetBefore /\ today <= Sunday
      /\ t >= Shift => Local(t) = t - OffsetAfter /\ today >= Sunday
  BY Offsets
<1>2. /\ day < Sunday => ToUtc(local) < Shift /\ ToUtc(local) = local + OffsetBefore
      /\ day > Sunday => ToUtc(local) >= Shift /\ ToUtc(local) = local + OffsetAfter
  <2>1. PreOpen \in 0 .. DayLength - 1
    BY DEF PreOpen, DayLength
  <2> QED BY <2>1, OnOtherDays
<1>3. local \in Int /\ Local(t) \in Int /\ today \in Int
  <2>1. local \in Int
    BY DEF PreOpen, DayLength
  <2>2. Local(t) \in Int
    BY <1>1
  <2> QED BY <2>1, <2>2, DayParts
<1>4. /\ today < day => Local(t) < local
      /\ day < today => local < Local(t)
  <2>1. Local(t) \div DayLength = today
    BY DEF Day
  <2> HIDE DEF today
  <2> QED BY <1>3, <2>1 DEF DayLength, PreOpen
<1> HIDE DEF local, today
<1>5. ASSUME day < Sunday PROVE Local(t) < local <=> t < ToUtc(local)
  BY <1>1, <1>2, <1>3, <1>4, <1>5
<1>6. ASSUME day > Sunday PROVE Local(t) < local <=> t < ToUtc(local)
  BY <1>1, <1>2, <1>3, <1>4, <1>6
<1>7. Local(t) < local <=> t < ToUtc(local)
  BY <1>1, <1>5, <1>6
<1> QED BY <1>7 DEF local

\* What market_state returns, by cases.
LEMMA MarketParts ==
  ASSUME NEW t \in Int
  PROVE  LET today == Day(Local(t))
             time == TimeOfDay(Local(t))
             market == MarketAt(t)
         IN  /\ Weekday(today) \in 0 .. 6
             /\ Weekday(today) >= 5 =>
                  market.state = "weekend" /\ market.next = Opening(today + 7 - Weekday(today))
             /\ Weekday(today) < 5 /\ time < PreOpen =>
                  market.state = "pre_open" /\ market.next = Opening(today)
             /\ Weekday(today) < 5 /\ time >= PreOpen =>
                  /\ market.next = Opening(today + 1)
                  /\ market.state = "market_open" <=> time < Close
PROOF
<1> DEFINE today == Day(Local(t))
           time == TimeOfDay(Local(t))
           market == MarketAt(t)
           late == CASE time < Close -> "market_open"
                     [] Close <= time /\ time < Settled -> "settling"
                     [] OTHER -> "closed"
<1>1. today \in Int /\ time \in Int
  BY Offsets, DayParts
<1>2. Weekday(today) \in 0 .. 6
  BY <1>1 DEF Weekday
<1>3. market = IF Weekday(today) >= 5
               THEN [state |-> "weekend", next |-> Opening(today + 7 - Weekday(today))]
               ELSE IF time < PreOpen THEN [state |-> "pre_open", next |-> Opening(today)]
               ELSE [state |-> late, next |-> Opening(today + 1)]
  BY DEF MarketAt
<1>4. PreOpen \in Int /\ Close \in Int /\ Settled \in Int
  BY DEF PreOpen, Close, Settled
<1>5. late = "market_open" <=> time < Close
  BY <1>1, <1>4
<1> HIDE DEF today, time, market, late
<1>6. ASSUME Weekday(today) >= 5
      PROVE  market.state = "weekend" /\ market.next = Opening(today + 7 - Weekday(today))
  <2>1. market = [state |-> "weekend", next |-> Opening(today + 7 - Weekday(today))]
    BY <1>3, <1>6
  <2> QED BY <2>1
<1>7. ASSUME Weekday(today) < 5, time < PreOpen
      PROVE  market.state = "pre_open" /\ market.next = Opening(today)
  <2>1. market = [state |-> "pre_open", next |-> Opening(today)]
    BY <1>2, <1>3, <1>7
  <2> QED BY <2>1
<1>8. ASSUME Weekday(today) < 5, time >= PreOpen
      PROVE  market.state = late /\ market.next = Opening(today + 1)
  <2>1. market = [state |-> late, next |-> Opening(today + 1)]
    BY <1>1, <1>2, <1>3, <1>4, <1>8
  <2> QED BY <2>1
<1> QED BY <1>2, <1>5, <1>6, <1>7, <1>8 DEF today, time, market

\* The clock of the code is right at every instant.
LEMMA MarketDays == \A t \in Int : MarketDay(t)
PROOF
<1> SUFFICES ASSUME NEW t \in Int PROVE MarketDay(t)
  OBVIOUS
<1> DEFINE today == Day(Local(t))
           time == TimeOfDay(Local(t))
           market == MarketAt(t)
<1>1. /\ Local(t) \in Int /\ today \in Int /\ time \in 0 .. DayLength - 1
      /\ Local(t) = today * DayLength + time
  <2>1. Local(t) \in Int
    BY Offsets
  <2> QED BY <2>1, DayParts
<1>2. PreOpen \in 0 .. DayLength - 1 /\ PreOpen < Close /\ Close < Settled
  BY DEF PreOpen, Close, Settled, DayLength
<1>3. \E candidate \in Int :
        /\ market.next = Opening(candidate) /\ candidate >= today
        /\ candidate = today /\ Weekday(today) < 5 => time < PreOpen
        /\ \A day \in today .. candidate - 1 :
             Weekday(day) < 5 => day = today /\ time >= PreOpen
  <2>1. CASE Weekday(today) >= 5
    <3>1. market.next = Opening(today + 7 - Weekday(today))
      BY <2>1, MarketParts
    <3> HIDE DEF market, today, time
    <3> DEFINE candidate == today + 7 - Weekday(today)
    <3>2. candidate \in Int /\ candidate > today
      BY <1>1 DEF Weekday
    <3>3. \A day \in today .. candidate - 1 : ~ (Weekday(day) < 5)
      BY <1>1, <2>1 DEF Weekday
    <3> HIDE DEF candidate
    <3>4. market.next = Opening(candidate)
      BY <3>1 DEF candidate
    <3>5. candidate >= today /\ candidate # today
      BY <1>1, <3>2
    <3> QED BY <3>2, <3>3, <3>4, <3>5
  <2>2. CASE Weekday(today) < 5 /\ time < PreOpen
    <3>1. market.next = Opening(today)
      BY <2>2, MarketParts
    <3> HIDE DEF market, today, time
    <3> QED BY <1>1, <2>2, <3>1
  <2>3. CASE Weekday(today) < 5 /\ time >= PreOpen
    <3>1. market.next = Opening(today + 1)
      BY <2>3, MarketParts
    <3> HIDE DEF market, today, time
    <3> QED BY <1>1, <1>2, <2>3, <3>1
  <2>4. Weekday(today) \in 0 .. 6
    BY MarketParts
  <2> HIDE DEF market, today, time
  <2> QED BY <1>1, <1>2, <2>1, <2>2, <2>3, <2>4
<1>4. market.state = "market_open" <=> Weekday(today) < 5 /\ time \in PreOpen .. Close - 1
  <2>1. /\ Weekday(today) \in 0 .. 6
        /\ Weekday(today) >= 5 => market.state = "weekend"
        /\ Weekday(today) < 5 /\ time < PreOpen => market.state = "pre_open"
        /\ Weekday(today) < 5 /\ time >= PreOpen =>
             (market.state = "market_open" <=> time < Close)
    BY MarketParts
  <2>2. PreOpen \in Int /\ Close \in Int
    BY DEF PreOpen, Close
  <2> HIDE DEF today, time, market
  <2> QED BY <1>1, <2>1, <2>2
<1> HIDE DEF today, time, market
<1>5. PICK candidate \in Int :
        /\ market.next = Opening(candidate) /\ candidate >= today
        /\ candidate = today /\ Weekday(today) < 5 => time < PreOpen
        /\ \A day \in today .. candidate - 1 :
             Weekday(day) < 5 => day = today /\ time >= PreOpen
  BY <1>3
<1>6. PICK next \in Int :
        /\ market.next = ToUtc(next * DayLength + PreOpen)
        /\ next >= candidate /\ Weekday(next) < 5 /\ next # Sunday
        /\ \A other \in candidate .. next - 1 : Weekday(other) >= 5
  BY <1>5, OpeningIsRight
<1>7. /\ market.next \in Int /\ Local(market.next) = next * DayLength + PreOpen
      /\ Day(Local(market.next)) = next /\ TimeOfDay(Local(market.next)) = PreOpen
  <2>1. market.next \in Int /\ Local(market.next) = next * DayLength + PreOpen
    BY <1>2, <1>6, OnOtherDays
  <2>2. next * DayLength + PreOpen \in Int
    BY DEF DayLength, PreOpen
  <2> QED BY <1>2, <2>1, <2>2, DayOf
<1>8. market.next > t
  <2>1. Local(t) < next * DayLength + PreOpen
    <3>1. next > today \/ (next = today /\ time < PreOpen)
      BY <1>1, <1>5, <1>6
    <3> QED BY <1>1, <1>2, <3>1 DEF DayLength, PreOpen
  <2> QED BY <1>6, <1>7, <2>1, ByTheClock
<1>9. Opens(market.next)
  BY <1>6, <1>7 DEF Opens
<1>10. ASSUME NEW day \in today .. next - 1, Weekday(day) < 5
       PROVE  ToUtc(day * DayLength + PreOpen) <= t
  <2>1. day \in Int /\ day = today /\ time >= PreOpen
    <3>1. day \in today .. candidate - 1
      <4>1. day \notin candidate .. next - 1
        <5>1. Weekday(day) \in Int
          BY <1>1 DEF Weekday
        <5> QED BY <1>6, <1>10, <5>1
      <4> QED BY <1>1, <4>1
    <3> QED BY <1>1, <1>5, <1>10, <3>1
  <2>2. day # Sunday
    BY <1>10, Offsets
  <2>3. ~ (Local(t) < day * DayLength + PreOpen)
    BY <1>1, <1>2, <2>1 DEF DayLength, PreOpen
  <2>4. ToUtc(day * DayLength + PreOpen) \in Int
    BY <1>2, <2>1, <2>2, OnOtherDays
  <2> QED BY <2>1, <2>2, <2>3, <2>4, ByTheClock
<1> QED BY <1>4, <1>7, <1>8, <1>9, <1>10 DEF MarketDay, market, today, time

\* The market state and the next opening of every document follow the calendar
\* of New York, and so would those of every other minute before and after a change
\* of the hour: the next opening lies ahead, at half past nine of a weekday there,
\* and none comes before it (market_state, export_metrics.py:75-98).
THEOREM MarketClockIsRight == Spec => []MarketDayIsRight
PROOF
<1> DEFINE Right == \A snapshot \in site :
                      /\ snapshot.document.market = MarketAt(snapshot.document.now)
                      /\ MarketDay(snapshot.document.now)
<1>1. Init => Right
  BY DEF Init
<1>2. ASSUME DashboardInv, Right, [Next]_vars
      PROVE  Right'
  <2>1. CASE Publish
    <3>1. ASSUME NEW snapshot \in site'
          PROVE  /\ snapshot.document.market = MarketAt(snapshot.document.now)
                 /\ MarketDay(snapshot.document.now)
      <4>1. /\ snapshot.document.now = now /\ snapshot.document.market = MarketAt(now)
            /\ now \in Nat
        BY <1>2, <2>1, Published
      <4>2. MarketDay(now)
        BY <4>1, MarketDays
      <4> QED BY <4>1, <4>2
    <3> QED BY <3>1
  <2>2. CASE ~ Publish
    <3>1. site' = site
      BY <1>2, <2>2, NotPublished
    <3> QED BY <1>2, <3>1
  <2> QED BY <2>1, <2>2
<1>3. Right => MarketDayIsRight
  <2>1. EveryMinuteIsRight
    <3>1. Shift - 5 * DayLength \in Int /\ Shift + 5 * DayLength \in Int
      BY Offsets DEF DayLength
    <3> QED BY <3>1, MarketDays DEF EveryMinuteIsRight
  <2> QED BY <2>1 DEF MarketDayIsRight, Documents
<1> HIDE DEF Right
<1> QED BY <1>1, <1>2, <1>3, DashboardInvariant, PTL DEF Spec
=============================================================================
