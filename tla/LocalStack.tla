----------------------------- MODULE LocalStack ------------------------------
(***************************************************************************)
(* scripts/run_local_stack.py: acceptance runs that start a broker, a      *)
(* loader behind its writer lock, and a producer, wait until the loader    *)
(* reports a commit, and inspect the table. Runs may overlap, and may      *)
(* share a runtime directory (--runtime-dir); all share one port, and the  *)
(* name of the container follows from it.                                  *)
(*                                                                         *)
(* A loader is what run_local_loader.sh becomes: a flock(1) that takes the *)
(* lock of the directory, or exits, and waits for the java process it      *)
(* forks. The lock lives as long as java. What the script terminates is    *)
(* flock: java does not notice.                                            *)
(***************************************************************************)
EXTENDS Naturals, Sequences

CONSTANTS
  Runs,
  Directories,
  Directory,  \* the runtime directory of each run
  Source,     \* "synthetic" or "fakepaca-wsr", of each run
  NoOne,      \* no run, no process
  MaxFrames   \* bound: frames a WSR sends

Roles == {"loader", "duplicate", "probe"}

ASSUME LocalStackAssumption ==
  /\ Directory \in [Runs -> Directories]
  /\ Source \in [Runs -> {"synthetic", "fakepaca-wsr"}]
  /\ NoOne \notin Runs \cup (Runs \X Roles)
  /\ MaxFrames \in Nat

VARIABLES
  stage,      \* per run: where the script stands
  failing,    \* per run: an exception is on its way
  docker,     \* per run: its docker process
  container,  \* the run whose container has the name
  listening,  \* the broker in it has opened its listener
  frames,     \* per directory: the topic, by the runs that published
  committed,  \* per directory and consumer group: offset
  lock,       \* per directory: the process that holds loader.lock
  process,    \* the loaders and duplicates
  table,      \* per directory: the commits of the table, by their writers
  pipe,       \* per run: lines its loader has written to its standard output
  buffer      \* per run: lines read from there that readline has not returned

scriptVars == <<stage, failing>>
brokerVars == <<docker, container, listening>>
storeVars == <<frames, committed>>
loaderVars == <<lock, process, table, pipe>>
vars == <<scriptVars, brokerVars, storeVars, loaderVars, buffer>>

Processes == Runs \X {"loader", "duplicate"}

DirectoryOf(p) == Directory[p[1]]

Writing == {"polling", "appended", "reported"}

Stages == {"new", "broker", "topic", "lock", "probe", "duplicate", "refusal",
           "feed", "wait", "teardown", "inspect", "stop", "passed", "failed"}

Storage == Directory[container]

Goto(r, next) == stage' = [stage EXCEPT ![r] = next]

\* An exception: the finally clauses run from "next" on.
Raise(r, next) ==
  /\ Goto(r, next)
  /\ failing' = [failing EXCEPT ![r] = TRUE]

-----------------------------------------------------------------------------
(* Docker and the broker in the container.                                 *)

DockerRuns(r) ==
  /\ docker[r] = "requested"
  /\ IF container = NoOne
     THEN /\ container' = r
          /\ docker' = [docker EXCEPT ![r] = "running"]
     ELSE /\ docker' = [docker EXCEPT ![r] = "exited"]
          /\ UNCHANGED container
  /\ UNCHANGED <<scriptVars, listening, storeVars, loaderVars, buffer>>

BrokerListens ==
  /\ container # NoOne /\ ~listening
  /\ listening' = TRUE
  /\ UNCHANGED <<scriptVars, docker, container, storeVars, loaderVars, buffer>>

\* Mutant: the container is stopped and its docker process forgotten.
RemoveContainerOnly ==
  /\ container' = NoOne
  /\ listening' = FALSE
  /\ UNCHANGED docker

\* Whatever container has the name.
RemoveContainer ==
  /\ container' = NoOne
  /\ listening' = FALSE
  /\ docker' = [r \in Runs |-> IF r = container THEN "exited" ELSE docker[r]]

\* Later on the broker is lost when a run stops it.
BrokerExits ==
  /\ container # NoOne /\ ~listening
  /\ RemoveContainer
  /\ UNCHANGED <<scriptVars, storeVars, loaderVars, buffer>>

-----------------------------------------------------------------------------
(* run_local_loader.sh and the loader.                                     *)

\* Mutant: the lock is not taken.
FlockWithoutLock(p) ==
  /\ process[p] = "launched"
  /\ process' = [process EXCEPT ![p] = "polling"]
  /\ UNCHANGED <<scriptVars, brokerVars, storeVars, lock, table, pipe, buffer>>

\* flock -n, then java. What it prints before it commits is left out.
Flock(p) ==
  /\ process[p] = "launched"
  /\ IF lock[DirectoryOf(p)] = NoOne
     THEN /\ lock' = [lock EXCEPT ![DirectoryOf(p)] = p]
          /\ process' = [process EXCEPT ![p] = "polling"]
     ELSE /\ process' = [process EXCEPT ![p] = "refused"]
          /\ UNCHANGED lock
  /\ UNCHANGED <<scriptVars, brokerVars, storeVars, table, pipe, buffer>>

\* A frame is a full batch. The group is named after the directory, the offset
\* is kept where the broker stores.
LoaderAppends(p) ==
  /\ process[p] = "polling" /\ listening
  /\ committed[Storage][DirectoryOf(p)] < Len(frames[Storage])
  /\ table' = [table EXCEPT ![DirectoryOf(p)] = Append(@, p)]
  /\ process' = [process EXCEPT ![p] = "appended"]
  /\ UNCHANGED <<scriptVars, brokerVars, storeVars, lock, pipe, buffer>>

WriteLine(p, line) ==
  pipe' = IF p[2] = "loader" THEN [pipe EXCEPT ![p[1]] = Append(@, line)] ELSE pipe

LoaderCommitsOffset(p) ==
  /\ process[p] = "appended" /\ listening
  /\ committed' = [committed EXCEPT ![Storage][DirectoryOf(p)] =
                     IF @ < Len(frames[Storage]) THEN @ + 1 ELSE @]
  /\ process' = [process EXCEPT ![p] = "reported"]
  /\ WriteLine(p, "health")
  /\ UNCHANGED <<scriptVars, brokerVars, frames, lock, table, buffer>>

LoaderReports(p) ==
  /\ process[p] = "reported"
  /\ process' = [process EXCEPT ![p] = "polling"]
  /\ WriteLine(p, "received")
  /\ UNCHANGED <<scriptVars, brokerVars, storeVars, lock, table, buffer>>

\* Java ends, for whatever reason, and with it the lock.
LoaderEnds(p) ==
  /\ process[p] \in Writing
  /\ process' = [process EXCEPT ![p] = "ended"]
  /\ lock' = [lock EXCEPT ![DirectoryOf(p)] = NoOne]
  /\ UNCHANGED <<scriptVars, brokerVars, storeVars, table, pipe, buffer>>

\* The producer of run_local_stack.py, which runs from "wait" to "teardown".
WsrSends(r) ==
  /\ Source[r] = "fakepaca-wsr" /\ stage[r] = "wait"
  /\ listening /\ Len(frames[Storage]) < MaxFrames
  /\ frames' = [frames EXCEPT ![Storage] = Append(@, r)]
  /\ UNCHANGED <<scriptVars, brokerVars, committed, loaderVars, buffer>>

-----------------------------------------------------------------------------
(* TansuSqlite.start and stop.                                             *)

StartBroker(r) ==
  /\ stage[r] = "new"
  /\ docker' = [docker EXCEPT ![r] = "requested"]
  /\ Goto(r, "broker")
  /\ UNCHANGED <<failing, container, listening, storeVars, loaderVars, buffer>>

\* start raises within __enter__, so that nothing is stopped.
BrokerExitedEarly(r) ==
  /\ stage[r] = "broker" /\ docker[r] = "exited"
  /\ Raise(r, "failed")
  /\ UNCHANGED <<brokerVars, storeVars, loaderVars, buffer>>

\* Something listens on the port.
BrokerReady(r) ==
  /\ stage[r] = "broker" /\ docker[r] # "exited" /\ listening
  /\ Goto(r, "topic")
  /\ UNCHANGED <<failing, brokerVars, storeVars, loaderVars, buffer>>

BrokerTimeout(r) ==
  /\ stage[r] = "broker" /\ ~listening
  /\ Raise(r, "failed")
  /\ RemoveContainer
  /\ UNCHANGED <<storeVars, loaderVars, buffer>>

\* __exit__, and the end of the run.
StopBroker(r) ==
  /\ stage[r] = "stop"
  /\ Goto(r, IF failing[r] THEN "failed" ELSE "passed")
  /\ RemoveContainer
  /\ UNCHANGED <<failing, storeVars, loaderVars, buffer>>

-----------------------------------------------------------------------------
(* main                                                                    *)

\* ensure_topic, which raises when nothing listens and may do so when a broker
\* does (its limits are 15 and 20 seconds), and the loader.
EnsureTopic(r) ==
  /\ stage[r] = "topic"
  /\ \/ /\ listening
        /\ process' = [process EXCEPT ![<<r, "loader">>] = "launched"]
        /\ Goto(r, "lock") /\ UNCHANGED failing
     \/ Raise(r, "stop") /\ UNCHANGED process
  /\ UNCHANGED <<brokerVars, storeVars, lock, table, pipe, buffer>>

Duplicate(r) ==
  /\ stage[r] = "duplicate"
  /\ process' = [process EXCEPT ![<<r, "duplicate">>] = "launched"]
  /\ Goto(r, "refusal")
  /\ UNCHANGED <<failing, brokerVars, storeVars, lock, table, pipe, buffer>>

Exited(p) == process[p] \in {"refused", "ended"}

\* wait_for_writer_lock: a loader that is gone; a probe that takes the free lock
\* itself for a moment; a lock that somebody holds; the deadline.
WaitForWriterLock(r) ==
  /\ stage[r] = "lock"
  /\ \/ Exited(<<r, "loader">>) /\ Raise(r, "teardown") /\ UNCHANGED lock
     \/ /\ ~Exited(<<r, "loader">>) /\ lock[Directory[r]] = NoOne
        /\ lock' = [lock EXCEPT ![Directory[r]] = <<r, "probe">>]
        /\ Goto(r, "probe") /\ UNCHANGED failing
     \/ /\ ~Exited(<<r, "loader">>) /\ lock[Directory[r]] # NoOne
        /\ Goto(r, "duplicate") /\ UNCHANGED <<failing, lock>>
     \/ Raise(r, "teardown") /\ UNCHANGED lock
  /\ UNCHANGED <<brokerVars, storeVars, process, table, pipe, buffer>>

ProbeReleases(r) ==
  /\ stage[r] = "probe"
  /\ lock' = [lock EXCEPT ![Directory[r]] = NoOne]
  /\ Goto(r, "lock")
  /\ UNCHANGED <<failing, brokerVars, storeVars, process, table, pipe, buffer>>

\* Whatever the reason for which the duplicate has exited, with a status other
\* than 0, it counts as refused; one that runs is killed after ten seconds.
Refusal(r) ==
  /\ stage[r] = "refusal"
  /\ \/ Exited(<<r, "duplicate">>) /\ Goto(r, "feed") /\ UNCHANGED failing
     \/ process[<<r, "duplicate">>] \in Writing /\ Raise(r, "teardown")
  /\ UNCHANGED <<brokerVars, storeVars, loaderVars, buffer>>

\* publish: one frame with all bars of generate_bars, which may arrive although
\* flush gives up.
PublishBars(r) ==
  \/ /\ listening
     /\ frames' = [frames EXCEPT ![Storage] = Append(@, r)]
     /\ (Goto(r, "wait") /\ UNCHANGED failing) \/ Raise(r, "teardown")
  \/ ~listening /\ Raise(r, "teardown") /\ UNCHANGED frames

\* start_wsr, which may find neither keys nor image.
StartWsr(r) ==
  /\ (Goto(r, "wait") /\ UNCHANGED failing) \/ Raise(r, "teardown")
  /\ UNCHANGED frames

Feed(r) ==
  /\ stage[r] = "feed"
  /\ \/ Source[r] = "synthetic" /\ PublishBars(r)
     \/ Source[r] = "fakepaca-wsr" /\ StartWsr(r)
  /\ UNCHANGED <<brokerVars, committed, loaderVars, buffer>>

\* select looks at the pipe, readline at its buffer first: it fills the buffer
\* with all that is in the pipe and returns one line.
ReadLine(r) ==
  /\ stage[r] = "wait" /\ pipe[r] # <<>>
  /\ LET unread == IF buffer[r] # <<>> THEN buffer[r] ELSE pipe[r]
     IN  /\ buffer' = [buffer EXCEPT ![r] = Tail(unread)]
         /\ pipe' = IF buffer[r] # <<>> THEN pipe ELSE [pipe EXCEPT ![r] = <<>>]
         /\ IF Head(unread) = "received" THEN Goto(r, "teardown") ELSE UNCHANGED stage
  /\ UNCHANGED <<failing, brokerVars, storeVars, lock, process, table>>

\* At the end of the output readline still returns what its buffer holds.
LoaderExited(r) ==
  /\ stage[r] = "wait" /\ pipe[r] = <<>> /\ Exited(<<r, "loader">>)
  /\ IF buffer[r] # <<>>
     THEN /\ buffer' = [buffer EXCEPT ![r] = Tail(@)]
          /\ IF Head(buffer[r]) = "received" THEN Goto(r, "teardown") ELSE UNCHANGED stage
          /\ UNCHANGED failing
     ELSE Raise(r, "teardown") /\ UNCHANGED buffer
  /\ UNCHANGED <<brokerVars, storeVars, loaderVars>>

\* "loader did not commit the synthetic batch": the deadline.
CommitTimeout(r) ==
  /\ stage[r] = "wait"
  /\ Raise(r, "teardown")
  /\ UNCHANGED <<brokerVars, storeVars, loaderVars, buffer>>

\* A loader that has not reached flock yet does not get there.
Teardown(r) ==
  /\ stage[r] = "teardown"
  /\ process' = [process EXCEPT ![<<r, "loader">>] = IF @ = "launched" THEN "ended" ELSE @]
  /\ Goto(r, IF failing[r] THEN "stop" ELSE "inspect")
  /\ UNCHANGED <<failing, brokerVars, storeVars, lock, table, pipe, buffer>>

\* Mutant: the number of records is not compared.
InspectAnything(r) ==
  /\ stage[r] = "inspect"
  /\ Goto(r, "stop") /\ UNCHANGED <<failing, brokerVars, storeVars, loaderVars, buffer>>

\* TableInspector.
Inspect(r) ==
  /\ stage[r] = "inspect"
  /\ IF Len(table[Directory[r]]) = 1 THEN Goto(r, "stop") /\ UNCHANGED failing
                                     ELSE Raise(r, "stop")
  /\ UNCHANGED <<brokerVars, storeVars, loaderVars, buffer>>

-----------------------------------------------------------------------------
Init ==
  /\ stage = [r \in Runs |-> "new"]
  /\ failing = [r \in Runs |-> FALSE]
  /\ docker = [r \in Runs |-> "none"]
  /\ container = NoOne
  /\ listening = FALSE
  /\ frames = [d \in Directories |-> <<>>]
  /\ committed = [d \in Directories |-> [group \in Directories |-> 0]]
  /\ lock = [d \in Directories |-> NoOne]
  /\ process = [p \in Processes |-> "none"]
  /\ table = [d \in Directories |-> <<>>]
  /\ pipe = [r \in Runs |-> <<>>]
  /\ buffer = [r \in Runs |-> <<>>]

Script(r) ==
  \/ StartBroker(r) \/ BrokerExitedEarly(r) \/ BrokerReady(r) \/ BrokerTimeout(r)
  \/ EnsureTopic(r) \/ Duplicate(r) \/ WaitForWriterLock(r) \/ ProbeReleases(r)
  \/ Refusal(r) \/ Feed(r) \/ ReadLine(r) \/ LoaderExited(r) \/ CommitTimeout(r)
  \/ Teardown(r) \/ Inspect(r) \/ StopBroker(r)

Loader(p) ==
  \/ Flock(p) \/ LoaderAppends(p) \/ LoaderCommitsOffset(p) \/ LoaderReports(p)
  \/ LoaderEnds(p)

Next ==
  \/ \E r \in Runs : Script(r)
  \/ \E p \in Processes : Loader(p)
  \/ \E r \in Runs : DockerRuns(r) \/ WsrSends(r)
  \/ BrokerListens
  \/ BrokerExits

Spec == Init /\ [][Next]_vars

-----------------------------------------------------------------------------
(* Properties.                                                             *)

ScriptTypeOK ==
  /\ stage \in [Runs -> Stages]
  /\ failing \in [Runs -> BOOLEAN]

\* One docker process runs at most, that of the container, and nothing else listens.
BrokerTypeOK ==
  /\ docker \in [Runs -> {"none", "requested", "running", "exited"}]
  /\ container \in Runs \cup {NoOne}
  /\ listening \in BOOLEAN
  /\ listening => container # NoOne
  /\ \A r \in Runs : docker[r] = "running" <=> container = r

StoreTypeOK ==
  /\ frames \in [Directories -> Seq(Runs)]
  /\ committed \in [Directories -> [Directories -> Nat]]

LockTypeOK == lock \in [Directories -> (Runs \X Roles) \cup {NoOne}]

ProcessTypeOK ==
  process \in [Processes -> {"none", "launched", "refused", "ended"} \cup Writing]

TableTypeOK == table \in [Directories -> Seq(Processes)]

Lines == Seq({"health", "received"})

OutputTypeOK ==
  /\ pipe \in [Runs -> Lines]
  /\ buffer \in [Runs -> Lines]

\* The type of every variable.
TypeOK ==
  /\ ScriptTypeOK
  /\ BrokerTypeOK
  /\ StoreTypeOK
  /\ LockTypeOK
  /\ ProcessTypeOK
  /\ TableTypeOK
  /\ OutputTypeOK

\* "This advisory OS lock prevents a second local process ... from writing"
\* (run_local_loader.sh:22-23): no two processes write the table of a directory,
\* be they of overlapping runs, duplicates, or left behind by a run that ended.
OneWriter ==
  \A p, q \in Processes :
    /\ DirectoryOf(p) = DirectoryOf(q)
    /\ process[p] \in Writing /\ process[q] \in Writing
    => p = q

\* A run that passes has seen its own loader write: the table it found with the
\* records of one batch has them from the loader it started, not from its
\* duplicate, another run, or a loader left behind.
PassedMeansOwnLoader ==
  \A r \in Runs :
    stage[r] = "passed" => /\ table[Directory[r]] # <<>>
                           /\ table[Directory[r]][1] = <<r, "loader">>
=============================================================================
