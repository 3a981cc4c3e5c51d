--------------------------- MODULE LocalStackProofs --------------------------
(***************************************************************************)
(* Theorems about LocalStack, for any number of runs and directories and   *)
(* any assignment of directories and sources to runs.                      *)
(***************************************************************************)
EXTENDS LocalStack, TLAPS

\* TypeOK with what StartBroker needs: a run that is new has no docker process.
NewInv == \A r \in Runs : stage[r] = "new" => docker[r] = "none"

TypeInv == TypeOK /\ NewInv

\* Whoever writes holds the lock of its directory, and so does a probe until it
\* lets go of it.
LockInv ==
  /\ \A p \in Processes : process[p] \in Writing => lock[DirectoryOf(p)] = p
  /\ \A r \in Runs : stage[r] = "probe" => lock[Directory[r]] = <<r, "probe">>

\* The loader of r has committed to the table of its directory.
Wrote(r) ==
  \E i \in DOMAIN table[Directory[r]] : table[Directory[r]][i] = <<r, "loader">>

\* It has done so before anybody else.
WroteFirst(r) ==
  /\ table[Directory[r]] # <<>>
  /\ table[Directory[r]][1] = <<r, "loader">>

Holds(lines) == \E i \in DOMAIN lines : lines[i] = "received"

\* What a run concludes from a line "received" is so from the commit on that the
\* line reports: through the pipe, the buffer of readline and the inspection.
WitnessOf(r) ==
  /\ process[<<r, "loader">>] \in {"appended", "reported"} => Wrote(r)
  /\ Holds(pipe[r]) \/ Holds(buffer[r]) => Wrote(r)
  /\ stage[r] = "teardown" /\ ~failing[r] => Wrote(r)
  /\ stage[r] = "inspect" => Wrote(r)
  /\ stage[r] = "stop" /\ ~failing[r] => WroteFirst(r)
  /\ stage[r] = "passed" => WroteFirst(r)

WitnessInv == \A r \in Runs : WitnessOf(r)

-----------------------------------------------------------------------------
(* Types.                                                                  *)

\* Processes are pairs.
LEMMA ProcessParts ==
  \A p \in Processes :
    /\ p = <<p[1], p[2]>>
    /\ p[1] \in Runs
    /\ p[2] \in {"loader", "duplicate"}
    /\ DirectoryOf(p) \in Directories
    /\ p \in Runs \X Roles
    /\ p # NoOne
PROOF BY LocalStackAssumption DEF Processes, DirectoryOf, Roles, LocalStackAssumption

\* Before the first run there is nothing.
LEMMA TypeInit == Init => TypeInv
PROOF
<1> SUFFICES ASSUME Init PROVE TypeInv
  OBVIOUS
<1> USE LocalStackAssumption DEF LocalStackAssumption, Init
<1>1. ScriptTypeOK BY DEF ScriptTypeOK, Stages
<1>2. BrokerTypeOK BY DEF BrokerTypeOK
<1>3. StoreTypeOK BY DEF StoreTypeOK
<1>4. LockTypeOK BY DEF LockTypeOK
<1>5. ProcessTypeOK BY DEF ProcessTypeOK
<1>6. TableTypeOK BY DEF TableTypeOK
<1>7. OutputTypeOK BY DEF OutputTypeOK, Lines
<1>8. NewInv BY DEF NewInv
<1> QED BY <1>1, <1>2, <1>3, <1>4, <1>5, <1>6, <1>7, <1>8 DEF TypeInv, TypeOK

\* What a step leaves alone keeps its type.
LEMMA TypeUnchanged ==
  ASSUME TypeInv
  PROVE  /\ UNCHANGED scriptVars => ScriptTypeOK'
         /\ UNCHANGED brokerVars => BrokerTypeOK'
         /\ UNCHANGED storeVars => StoreTypeOK'
         /\ UNCHANGED lock => LockTypeOK'
         /\ UNCHANGED process => ProcessTypeOK'
         /\ UNCHANGED table => TableTypeOK'
         /\ UNCHANGED <<pipe, buffer>> => OutputTypeOK'
PROOF
<1> USE DEF TypeInv, TypeOK
<1>1. UNCHANGED scriptVars => ScriptTypeOK' BY DEF ScriptTypeOK, scriptVars
<1>2. UNCHANGED brokerVars => BrokerTypeOK' BY DEF BrokerTypeOK, brokerVars
<1>3. UNCHANGED storeVars => StoreTypeOK' BY DEF StoreTypeOK, storeVars
<1>4. UNCHANGED lock => LockTypeOK' BY DEF LockTypeOK
<1>5. UNCHANGED process => ProcessTypeOK' BY DEF ProcessTypeOK
<1>6. UNCHANGED table => TableTypeOK' BY DEF TableTypeOK
<1>7. UNCHANGED <<pipe, buffer>> => OutputTypeOK' BY DEF OutputTypeOK
<1> QED BY <1>1, <1>2, <1>3, <1>4, <1>5, <1>6, <1>7

\* A run that goes somewhere else, with an exception or without.
LEMMA GotoType ==
  ASSUME TypeInv, NEW r \in Runs, NEW next \in Stages \ {"new"},
         \/ Goto(r, next) /\ UNCHANGED failing
         \/ Raise(r, next)
  PROVE  ScriptTypeOK' /\ (UNCHANGED docker => NewInv')
PROOF BY DEF TypeInv, TypeOK, NewInv, ScriptTypeOK, Goto, Raise

\* Removing the container takes it from whoever had it.
LEMMA RemoveContainerType ==
  ASSUME TypeInv, RemoveContainer
  PROVE  BrokerTypeOK' /\ \A r \in Runs : docker[r] = "none" => docker'[r] = "none"
PROOF BY LocalStackAssumption
  DEF TypeInv, TypeOK, BrokerTypeOK, RemoveContainer, LocalStackAssumption

\* A broker that listens has the directory of its run.
LEMMA StorageType ==
  ASSUME TypeInv, listening PROVE Storage \in Directories
PROOF BY LocalStackAssumption
  DEF TypeInv, TypeOK, BrokerTypeOK, Storage, LocalStackAssumption

\* A publication of r, to whatever broker listens.
LEMMA PublishType ==
  ASSUME TypeInv, listening, NEW r \in Runs,
         frames' = [frames EXCEPT ![Storage] = Append(@, r)], UNCHANGED committed
  PROVE  StoreTypeOK'
PROOF
<1>1. Append(frames[Storage], r) \in Seq(Runs)
  BY StorageType DEF TypeInv, TypeOK, StoreTypeOK
<1> QED BY <1>1 DEF TypeInv, TypeOK, StoreTypeOK

\* Every step keeps the types.
LEMMA TypeStep == TypeInv /\ [Next]_vars => TypeInv'
PROOF
<1> SUFFICES ASSUME TypeInv, [Next]_vars PROVE TypeInv'
  OBVIOUS
<1> USE TypeUnchanged
<1>1. CASE UNCHANGED vars
  BY <1>1 DEF vars, scriptVars, brokerVars, storeVars, loaderVars, TypeInv, TypeOK, NewInv
<1>2. ASSUME NEW r \in Runs, Script(r) PROVE TypeInv'
  <2> USE GotoType DEF Stages, brokerVars, storeVars, loaderVars
  <2>1. CASE StartBroker(r)
    <3>1. ScriptTypeOK' BY <2>1 DEF StartBroker
    <3>2. BrokerTypeOK' /\ NewInv'
      BY <2>1, LocalStackAssumption
     
        DEF StartBroker, Goto, TypeInv, TypeOK, NewInv, BrokerTypeOK, ScriptTypeOK, LocalStackAssumption
    <3> QED BY <2>1, <3>1, <3>2 DEF StartBroker, TypeInv, TypeOK
  <2>2. CASE BrokerExitedEarly(r) BY <2>2 DEF BrokerExitedEarly, TypeInv, TypeOK
  <2>3. CASE BrokerReady(r) BY <2>3 DEF BrokerReady, TypeInv, TypeOK
  <2>4. CASE BrokerTimeout(r)
    <3>1. ScriptTypeOK' BY <2>4 DEF BrokerTimeout
    <3>2. BrokerTypeOK' BY <2>4, RemoveContainerType DEF BrokerTimeout
    <3>3. NewInv'
      BY <2>4, RemoveContainerType
        DEF BrokerTimeout, Raise, Goto, TypeInv, TypeOK, ScriptTypeOK, NewInv
    <3> QED BY <2>4, <3>1, <3>2, <3>3 DEF BrokerTimeout, TypeInv, TypeOK
  <2>5. CASE EnsureTopic(r)
    <3>1. ScriptTypeOK' /\ NewInv' BY <2>5 DEF EnsureTopic
    <3>2. ProcessTypeOK'
      BY <2>5 DEF EnsureTopic, ProcessTypeOK, TypeInv, TypeOK
    <3> QED BY <2>5, <3>1, <3>2 DEF EnsureTopic, TypeInv, TypeOK
  <2>6. CASE Duplicate(r)
    <3>1. ScriptTypeOK' /\ NewInv' BY <2>6 DEF Duplicate
    <3>2. ProcessTypeOK'
      BY <2>6 DEF Duplicate, ProcessTypeOK, TypeInv, TypeOK
    <3> QED BY <2>6, <3>1, <3>2 DEF Duplicate, TypeInv, TypeOK
  <2>7. CASE WaitForWriterLock(r)
    <3>1. ScriptTypeOK' /\ NewInv' BY <2>7 DEF WaitForWriterLock
    <3>2. LockTypeOK'
      BY <2>7 DEF WaitForWriterLock, LockTypeOK, Roles, TypeInv, TypeOK
    <3> QED BY <2>7, <3>1, <3>2 DEF WaitForWriterLock, TypeInv, TypeOK
  <2>8. CASE ProbeReleases(r)
    <3>1. ScriptTypeOK' /\ NewInv' BY <2>8 DEF ProbeReleases
    <3>2. LockTypeOK' BY <2>8 DEF ProbeReleases, LockTypeOK, TypeInv, TypeOK
    <3> QED BY <2>8, <3>1, <3>2 DEF ProbeReleases, TypeInv, TypeOK
  <2>9. CASE Refusal(r) BY <2>9 DEF Refusal, TypeInv, TypeOK
  <2>10. CASE Feed(r)
    <3>1. ScriptTypeOK' /\ NewInv' BY <2>10 DEF Feed, PublishBars, StartWsr
    <3>2. StoreTypeOK'
      BY <2>10, PublishType DEF Feed, PublishBars, StartWsr
    <3> QED BY <2>10, <3>1, <3>2 DEF Feed, PublishBars, StartWsr, TypeInv, TypeOK
  <2>11. CASE ReadLine(r)
    <3>1. ScriptTypeOK' /\ NewInv'
      BY <2>11 DEF ReadLine, scriptVars, TypeInv, NewInv
    <3>2. OutputTypeOK' BY <2>11 DEF ReadLine, OutputTypeOK, Lines, TypeInv, TypeOK
    <3> QED BY <2>11, <3>1, <3>2 DEF ReadLine, TypeInv, TypeOK
  <2>12. CASE LoaderExited(r)
    <3>1. ScriptTypeOK' /\ NewInv'
      BY <2>12 DEF LoaderExited, scriptVars, TypeInv, NewInv
    <3>2. buffer[r] \in Lines /\ pipe \in [Runs -> Lines] /\ buffer \in [Runs -> Lines]
      BY DEF OutputTypeOK, TypeInv, TypeOK
    <3>3. buffer[r] # <<>> => Tail(buffer[r]) \in Lines BY <3>2 DEF Lines
    <3>4. OutputTypeOK'
      BY <2>12, <3>2, <3>3 DEF LoaderExited, loaderVars, OutputTypeOK
    <3> QED BY <2>12, <3>1, <3>4 DEF LoaderExited, TypeInv, TypeOK
  <2>13. CASE CommitTimeout(r) BY <2>13 DEF CommitTimeout, TypeInv, TypeOK
  <2>14. CASE Teardown(r)
    <3>1. ScriptTypeOK' /\ NewInv' BY <2>14 DEF Teardown
    <3>2. ProcessTypeOK' BY <2>14 DEF Teardown, ProcessTypeOK, TypeInv, TypeOK
    <3> QED BY <2>14, <3>1, <3>2 DEF Teardown, TypeInv, TypeOK
  <2>15. CASE Inspect(r) BY <2>15 DEF Inspect, TypeInv, TypeOK
  <2>16. CASE StopBroker(r)
    <3>1. ScriptTypeOK' BY <2>16 DEF StopBroker
    <3>2. BrokerTypeOK' BY <2>16, RemoveContainerType DEF StopBroker
    <3>3. NewInv'
      BY <2>16, RemoveContainerType DEF StopBroker, Goto, TypeInv, TypeOK, ScriptTypeOK, NewInv
    <3> QED BY <2>16, <3>1, <3>2, <3>3 DEF StopBroker, TypeInv, TypeOK
  <2> QED
    BY <1>2, <2>1, <2>2, <2>3, <2>4, <2>5, <2>6, <2>7, <2>8, <2>9, <2>10, <2>11,
       <2>12, <2>13, <2>14, <2>15, <2>16 DEF Script
<1>3. ASSUME NEW p \in Processes, Loader(p) PROVE TypeInv'
  <2>1. NewInv' /\ ScriptTypeOK' /\ BrokerTypeOK'
    BY <1>3 DEF Loader, Flock, LoaderAppends, LoaderCommitsOffset, LoaderReports, LoaderEnds,
                scriptVars, brokerVars, NewInv, TypeInv
  <2>2. StoreTypeOK'
    <3>1. CASE LoaderCommitsOffset(p)
      <4>1. /\ committed[Storage][DirectoryOf(p)] \in Nat
            /\ committed[Storage] \in [Directories -> Nat]
        BY <3>1, StorageType, ProcessParts DEF LoaderCommitsOffset, TypeInv, TypeOK, StoreTypeOK
      <4> QED
        BY <3>1, <4>1, StorageType, ProcessParts
        DEF LoaderCommitsOffset, StoreTypeOK, TypeInv, TypeOK
    <3> QED
      BY <1>3, <3>1 DEF Loader, Flock, LoaderAppends, LoaderReports, LoaderEnds, storeVars
  <2>3. LockTypeOK'
    BY <1>3, ProcessParts DEF Loader, Flock, LoaderAppends, LoaderCommitsOffset, LoaderReports,
                LoaderEnds, LockTypeOK, TypeInv, TypeOK
  <2>4. ProcessTypeOK'
    BY <1>3 DEF Loader, Flock, LoaderAppends, LoaderCommitsOffset, LoaderReports,
                LoaderEnds, ProcessTypeOK, Writing, TypeInv, TypeOK
  <2>5. TableTypeOK'
    <3>1. CASE LoaderAppends(p)
      <4>1. Append(table[DirectoryOf(p)], p) \in Seq(Processes)
        BY ProcessParts DEF TableTypeOK, TypeInv, TypeOK
      <4> QED BY <3>1, <4>1 DEF LoaderAppends, TableTypeOK, TypeInv, TypeOK
    <3> QED
      BY <1>3, <3>1 DEF Loader, Flock, LoaderCommitsOffset, LoaderReports, LoaderEnds
  <2>6. OutputTypeOK'
    <3>1. ASSUME NEW line \in {"health", "received"}, WriteLine(p, line), UNCHANGED buffer
          PROVE  OutputTypeOK'
      <4>1. Append(pipe[p[1]], line) \in Lines
        BY ProcessParts DEF OutputTypeOK, Lines, TypeInv, TypeOK
      <4> QED BY <3>1, <4>1 DEF WriteLine, OutputTypeOK, TypeInv, TypeOK
    <3> QED
      BY <1>3, <3>1 DEF Loader, Flock, LoaderAppends, LoaderCommitsOffset, LoaderReports,
                        LoaderEnds
  <2> QED BY <2>1, <2>2, <2>3, <2>4, <2>5, <2>6 DEF TypeInv, TypeOK
<1>4. ASSUME NEW r \in Runs, DockerRuns(r) PROVE TypeInv'
  <2>1. BrokerTypeOK' /\ NewInv'
    BY <1>4, LocalStackAssumption
      DEF DockerRuns, scriptVars, BrokerTypeOK, NewInv, TypeInv, TypeOK, LocalStackAssumption
  <2> QED BY <1>4, <2>1 DEF DockerRuns, storeVars, loaderVars, TypeInv, TypeOK
<1>5. ASSUME NEW r \in Runs, WsrSends(r) PROVE TypeInv'
  <2>1. StoreTypeOK'
    BY <1>5, PublishType DEF WsrSends
  <2> QED
    BY <1>5, <2>1 DEF WsrSends, scriptVars, brokerVars, loaderVars, NewInv, TypeInv, TypeOK
<1>6. CASE BrokerListens
  <2>1. BrokerTypeOK' /\ NewInv'
    BY <1>6 DEF BrokerListens, scriptVars, BrokerTypeOK, NewInv, TypeInv, TypeOK
  <2> QED BY <1>6, <2>1 DEF BrokerListens, storeVars, loaderVars, TypeInv, TypeOK
<1>7. CASE BrokerExits
  <2>1. BrokerTypeOK' /\ NewInv'
    BY <1>7, RemoveContainerType DEF BrokerExits, scriptVars, NewInv, TypeInv
  <2> QED BY <1>7, <2>1 DEF BrokerExits, storeVars, loaderVars, TypeInv, TypeOK
<1> QED BY <1>1, <1>2, <1>3, <1>4, <1>5, <1>6, <1>7 DEF Next

\* The types hold in every reachable state.
THEOREM TypeCorrectness == Spec => []TypeOK
PROOF
<1>1. Spec => []TypeInv
  BY TypeInit, TypeStep, PTL DEF Spec
<1>2. TypeInv => TypeOK
  BY DEF TypeInv
<1> QED BY <1>1, <1>2, PTL

-----------------------------------------------------------------------------
(* The lock. A directory is free or held by one; a process begins to write *)
(* when it takes the lock of its directory, and gives it up when it ends.  *)

\* Nobody has a lock.
LEMMA LockInit == Init => LockInv
PROOF BY DEF Init, LockInv, Writing

\* Every step keeps the writers behind their locks.
LEMMA LockStep == TypeInv /\ LockInv /\ [Next]_vars => LockInv'
PROOF
<1> SUFFICES ASSUME TypeInv, LockInv, [Next]_vars PROVE LockInv'
  OBVIOUS
<1> USE ProcessParts, LocalStackAssumption
    DEF TypeInv, TypeOK, ScriptTypeOK, LockTypeOK, ProcessTypeOK, LocalStackAssumption
<1>1. ASSUME UNCHANGED <<lock, process>>,
             \A r \in Runs : stage'[r] = "probe" => stage[r] = "probe"
      PROVE  LockInv'
  BY <1>1 DEF LockInv
<1>2. CASE UNCHANGED vars
  BY <1>1, <1>2 DEF vars, scriptVars, loaderVars
<1>3. ASSUME NEW r \in Runs, Script(r) PROVE LockInv'
  <2> USE DEF Goto, Raise
  <2>1. ASSUME UNCHANGED lock, NEW next \in Stages \ {"probe"}, Goto(r, next),
               \A p \in Processes : process'[p] \in Writing => process[p] \in Writing
        PROVE  LockInv'
    BY <2>1 DEF LockInv
  <2>2. CASE EnsureTopic(r) BY <2>1, <2>2 DEF EnsureTopic, Stages, Writing
  <2>3. CASE Duplicate(r) BY <2>1, <2>3 DEF Duplicate, Stages, Writing
  <2>4. CASE Teardown(r) BY <2>1, <2>4 DEF Teardown, Stages, Writing
  <2>5. CASE WaitForWriterLock(r)
    <3>1. CASE UNCHANGED lock
      <4>1. <<r, "probe">> # NoOne
        BY DEF Roles
      <4>2. lock' # [lock EXCEPT ![Directory[r]] = <<r, "probe">>] \/ lock[Directory[r]] # NoOne
        BY <3>1, <4>1
      <4>3. \E next \in Stages \ {"probe"} : Goto(r, next)
        BY <2>5, <4>2 DEF WaitForWriterLock, Stages
      <4>4. UNCHANGED process
        BY <2>5 DEF WaitForWriterLock
      <4> QED BY <2>1, <3>1, <4>3, <4>4
    <3>2. CASE lock # lock'
      <4>1. /\ lock[Directory[r]] = NoOne
            /\ lock' = [lock EXCEPT ![Directory[r]] = <<r, "probe">>]
            /\ stage' = [stage EXCEPT ![r] = "probe"]
            /\ UNCHANGED process
        BY <2>5, <3>2 DEF WaitForWriterLock
      <4>2. NoOne # <<r, "probe">> /\ \A s \in Runs : <<s, "probe">> # NoOne
        BY DEF Roles
      <4>3. \A p \in Processes : process'[p] \in Writing => lock'[DirectoryOf(p)] = p
        BY <4>1, <4>2 DEF LockInv, DirectoryOf
      <4>4. \A s \in Runs : stage'[s] = "probe" => lock'[Directory[s]] = <<s, "probe">>
        BY <4>1, <4>2 DEF LockInv
      <4> QED BY <4>3, <4>4 DEF LockInv, DirectoryOf
    <3> QED BY <3>1, <3>2
  <2>6. CASE ProbeReleases(r)
    <3>1. /\ lock[Directory[r]] = <<r, "probe">>
          /\ lock' = [lock EXCEPT ![Directory[r]] = NoOne]
          /\ stage' = [stage EXCEPT ![r] = "lock"]
          /\ UNCHANGED process
      BY <2>6 DEF ProbeReleases, LockInv
    <3>2. \A p \in Processes : process'[p] \in Writing => lock'[DirectoryOf(p)] = p
      BY <3>1 DEF LockInv, DirectoryOf
    <3>3. \A s \in Runs : stage'[s] = "probe" => lock'[Directory[s]] = <<s, "probe">>
      BY <3>1 DEF LockInv
    <3> QED BY <3>2, <3>3 DEF LockInv, DirectoryOf
  <2>7. CASE \/ StartBroker(r) \/ BrokerExitedEarly(r) \/ BrokerReady(r) \/ BrokerTimeout(r)
             \/ Refusal(r) \/ Feed(r) \/ ReadLine(r) \/ LoaderExited(r) \/ CommitTimeout(r)
             \/ Inspect(r) \/ StopBroker(r)
    <3>1. UNCHANGED <<lock, process>>
      BY <2>7 DEF StartBroker, BrokerExitedEarly, BrokerReady, BrokerTimeout, Refusal,
                  Feed, PublishBars, StartWsr,
                  ReadLine, LoaderExited, CommitTimeout, Inspect, StopBroker, loaderVars
    <3>2. \/ UNCHANGED stage
          \/ \E next \in Stages \ {"probe"} : Goto(r, next)
      BY <2>7 DEF StartBroker, BrokerExitedEarly, BrokerReady, BrokerTimeout, Refusal,
                  Feed, PublishBars, StartWsr,
                  ReadLine, LoaderExited, CommitTimeout, Inspect, StopBroker, Stages
    <3> QED BY <1>1, <3>1, <3>2
  <2> QED BY <1>3, <2>2, <2>3, <2>4, <2>5, <2>6, <2>7 DEF Script
<1>4. ASSUME NEW p \in Processes, Loader(p) PROVE LockInv'
  <2>1. UNCHANGED stage
    BY <1>4 DEF Loader, Flock, LoaderAppends, LoaderCommitsOffset, LoaderReports, LoaderEnds,
                scriptVars
  <2>2. CASE Flock(p)
    <3>1. CASE lock[DirectoryOf(p)] # NoOne
      BY <2>1, <2>2, <3>1 DEF Flock, LockInv, Writing
    <3>2. CASE lock[DirectoryOf(p)] = NoOne
      <4>1. /\ lock' = [lock EXCEPT ![DirectoryOf(p)] = p]
            /\ process' = [process EXCEPT ![p] = "polling"]
        BY <2>2, <3>2 DEF Flock
      <4>2. \A q \in Processes : process'[q] \in Writing => lock'[DirectoryOf(q)] = q
        BY <3>2, <4>1 DEF LockInv
      <4>3. \A r \in Runs : stage'[r] = "probe" => lock'[Directory[r]] = <<r, "probe">>
        BY <2>1, <3>2, <4>1 DEF LockInv, Roles
      <4> QED BY <4>2, <4>3 DEF LockInv, DirectoryOf
    <3> QED BY <3>1, <3>2
  <2>3. CASE LoaderAppends(p) \/ LoaderCommitsOffset(p) \/ LoaderReports(p)
    <3>1. UNCHANGED lock /\ \A q \in Processes : process'[q] \in Writing => process[q] \in Writing
      BY <2>3 DEF LoaderAppends, LoaderCommitsOffset, LoaderReports, Writing
    <3> QED BY <2>1, <3>1 DEF LockInv
  <2>4. CASE LoaderEnds(p)
    <3>1. /\ process[p] \in Writing
          /\ process' = [process EXCEPT ![p] = "ended"]
          /\ lock' = [lock EXCEPT ![DirectoryOf(p)] = NoOne]
          /\ lock[DirectoryOf(p)] = p
      BY <2>4 DEF LoaderEnds, LockInv
    <3>2. \A q \in Processes : process'[q] \in Writing => lock'[DirectoryOf(q)] = q
      BY <3>1 DEF LockInv, Writing
    <3>3. \A r \in Runs : stage'[r] = "probe" => lock'[Directory[r]] = <<r, "probe">>
      BY <2>1, <3>1 DEF LockInv
    <3> QED BY <3>2, <3>3 DEF LockInv, DirectoryOf
  <2> QED BY <1>4, <2>2, <2>3, <2>4 DEF Loader
<1>5. CASE \/ \E r \in Runs : DockerRuns(r) \/ WsrSends(r)
           \/ BrokerListens \/ BrokerExits
  BY <1>1, <1>5 DEF DockerRuns, WsrSends, BrokerListens, BrokerExits, scriptVars, loaderVars
<1> QED BY <1>2, <1>3, <1>4, <1>5 DEF Next

\* Whatever the runs, their directories and the moment at which one ends: no two
\* processes write one table.
THEOREM OnlyOneWriter == Spec => []OneWriter
PROOF
<1>1. Spec => [](TypeInv /\ LockInv)
  BY TypeInit, TypeStep, LockInit, LockStep, PTL DEF Spec
<1>2. LockInv => OneWriter
  BY DEF LockInv, OneWriter
<1> QED BY <1>1, <1>2, PTL

-----------------------------------------------------------------------------
(* What a passing run has seen.                                            *)

\* What is read from a buffer was in it, and reading adds nothing.
LEMMA ReadFromBuffer ==
  ASSUME NEW lines \in Lines, lines # <<>>
  PROVE  /\ Head(lines) = "received" => Holds(lines)
         /\ Holds(Tail(lines)) => Holds(lines)
PROOF
<1>1. Len(lines) \in Nat /\ Len(lines) >= 1 /\ DOMAIN lines = 1 .. Len(lines)
  BY DEF Lines
<1>2. Head(lines) = lines[1]
  BY DEF Lines
<1>3. /\ DOMAIN Tail(lines) = 1 .. Len(lines) - 1
      /\ \A i \in 1 .. Len(lines) - 1 : Tail(lines)[i] = lines[i + 1]
  BY <1>1 DEF Lines
<1> QED BY <1>1, <1>2, <1>3 DEF Holds

\* The table only grows, at its end.
LEMMA WroteForGood ==
  ASSUME TypeInv, Next, NEW r \in Runs
  PROVE  /\ Wrote(r) => Wrote(r)'
         /\ WroteFirst(r) => WroteFirst(r)'
PROOF
<1>1. \/ UNCHANGED table
      \/ \E p \in Processes : table' = [table EXCEPT ![DirectoryOf(p)] = Append(@, p)]
  BY DEF Next, Script, Loader, StartBroker, BrokerExitedEarly, BrokerReady, BrokerTimeout,
         EnsureTopic, Duplicate, WaitForWriterLock, ProbeReleases, Refusal,
         Feed, PublishBars, StartWsr, ReadLine,
         LoaderExited, CommitTimeout, Teardown, Inspect, StopBroker, Flock, LoaderAppends,
         LoaderCommitsOffset, LoaderReports, LoaderEnds, DockerRuns, WsrSends, BrokerListens,
         BrokerExits, loaderVars
<1>2. CASE UNCHANGED table
  BY <1>2 DEF Wrote, WroteFirst
<1>3. ASSUME NEW p \in Processes, table' = [table EXCEPT ![DirectoryOf(p)] = Append(@, p)]
      PROVE  (Wrote(r) => Wrote(r)') /\ (WroteFirst(r) => WroteFirst(r)')
  <2> DEFINE rows == table[Directory[r]]
  <2>1. rows \in Seq(Processes) /\ Directory[r] \in Directories
    BY LocalStackAssumption DEF TypeInv, TypeOK, TableTypeOK, LocalStackAssumption
  <2>2. table'[Directory[r]] \in {rows, Append(rows, p)}
    BY <1>3, <2>1 DEF TypeInv, TypeOK, TableTypeOK
  <2>3. /\ Append(rows, p) # <<>>
        /\ DOMAIN rows \subseteq DOMAIN Append(rows, p)
        /\ \A i \in DOMAIN rows : Append(rows, p)[i] = rows[i]
        /\ rows # <<>> => 1 \in DOMAIN rows
    <3>1. Len(rows) \in Nat /\ DOMAIN rows = 1 .. Len(rows)
      BY <2>1
    <3>2. /\ Len(Append(rows, p)) = Len(rows) + 1
          /\ DOMAIN Append(rows, p) = 1 .. Len(rows) + 1
          /\ \A i \in 1 .. Len(rows) : Append(rows, p)[i] = rows[i]
      BY <2>1
    <3>3. rows # <<>> => Len(rows) >= 1
      BY <2>1
    <3>4. Append(rows, p) # <<>>
      <4>1. Len(<<>>) = 0
        OBVIOUS
      <4>2. Len(Append(rows, p)) # 0
        BY <3>1, <3>2
      <4> QED BY <4>1, <4>2
    <3> HIDE DEF rows
    <3> QED BY <3>1, <3>2, <3>3, <3>4
  <2> HIDE DEF rows
  <2>4. /\ DOMAIN rows \subseteq DOMAIN table'[Directory[r]]
        /\ \A i \in DOMAIN rows : table'[Directory[r]][i] = rows[i]
        /\ rows # <<>> => table'[Directory[r]] # <<>>
    BY <2>2, <2>3
  <2> QED BY <2>3, <2>4 DEF Wrote, WroteFirst, rows
<1> QED BY <1>1, <1>2, <1>3

\* A run of which a step touches nothing but, perhaps, the table.
LEMMA WitnessUntouched ==
  ASSUME TypeInv, WitnessInv, Next, NEW r \in Runs,
         stage'[r] = stage[r], failing'[r] = failing[r],
         process'[<<r, "loader">>] = process[<<r, "loader">>],
         pipe'[r] = pipe[r], buffer'[r] = buffer[r]
  PROVE  WitnessOf(r)'
PROOF BY WroteForGood DEF WitnessInv, WitnessOf

\* A step of the script of r that leads to none of the stages that mean success.
LEMMA WitnessNotYet ==
  ASSUME TypeInv, WitnessInv, Next, NEW r \in Runs,
         stage'[r] \notin {"inspect", "passed"},
         stage'[r] \in {"teardown", "stop"} => failing'[r],
         process'[<<r, "loader">>] \in {"appended", "reported"}
           => process[<<r, "loader">>] \in {"appended", "reported"},
         pipe'[r] = pipe[r], buffer'[r] = buffer[r]
  PROVE  WitnessOf(r)'
PROOF BY WroteForGood DEF WitnessInv, WitnessOf

\* No output, no evidence.
LEMMA WitnessInit == Init => WitnessInv
PROOF
<1> SUFFICES ASSUME Init, NEW r \in Runs PROVE WitnessOf(r)
  BY DEF WitnessInv
<1>1. process[<<r, "loader">>] = "none"
  BY DEF Init, Processes
<1>2. pipe[r] = <<>> /\ buffer[r] = <<>> /\ stage[r] = "new"
  BY DEF Init
<1>3. ~Holds(<<>>)
  BY DEF Holds
<1> QED BY <1>1, <1>2, <1>3 DEF WitnessOf

\* Every step keeps the evidence true, wherever it has got to.
LEMMA WitnessStep == TypeInv /\ WitnessInv /\ [Next]_vars => WitnessInv'
PROOF
<1> SUFFICES ASSUME TypeInv, WitnessInv, [Next]_vars, NEW r \in Runs PROVE WitnessOf(r)'
  BY DEF WitnessInv
<1> USE DEF TypeInv, TypeOK, ScriptTypeOK, ProcessTypeOK, OutputTypeOK
<1>1. CASE UNCHANGED vars
  BY <1>1 DEF vars, scriptVars, loaderVars, WitnessInv, WitnessOf, Wrote, WroteFirst
<1> SUFFICES ASSUME Next PROVE WitnessOf(r)'
  BY <1>1
<1>2. <<r, "loader">> \in Processes
  BY DEF Processes
<1>3. ASSUME NEW s \in Runs, s # r, Script(s) PROVE WitnessOf(r)'
  <2>1. stage'[r] = stage[r] /\ failing'[r] = failing[r]
    BY <1>3 DEF Script, StartBroker, BrokerExitedEarly, BrokerReady, BrokerTimeout,
         EnsureTopic, Duplicate, WaitForWriterLock, ProbeReleases, Refusal,
         Feed, PublishBars, StartWsr, ReadLine,
         LoaderExited, CommitTimeout, Teardown, Inspect, StopBroker, Goto, Raise
  <2>2. pipe'[r] = pipe[r] /\ buffer'[r] = buffer[r]
    BY <1>3 DEF Script, StartBroker, BrokerExitedEarly, BrokerReady, BrokerTimeout,
         EnsureTopic, Duplicate, WaitForWriterLock, ProbeReleases, Refusal,
         Feed, PublishBars, StartWsr, ReadLine,
         LoaderExited, CommitTimeout, Teardown, Inspect, StopBroker, loaderVars
  <2>3. process'[<<r, "loader">>] = process[<<r, "loader">>]
    BY <1>2, <1>3 DEF Script, StartBroker, BrokerExitedEarly, BrokerReady, BrokerTimeout,
         EnsureTopic, Duplicate, WaitForWriterLock, ProbeReleases, Refusal,
         Feed, PublishBars, StartWsr, ReadLine,
         LoaderExited, CommitTimeout, Teardown, Inspect, StopBroker, loaderVars
  <2> QED BY <2>1, <2>2, <2>3, WitnessUntouched
<1>4. CASE Script(r)
  <2> USE DEF Goto, Raise, loaderVars
  <2>1. CASE \/ StartBroker(r) \/ BrokerExitedEarly(r) \/ BrokerReady(r) \/ BrokerTimeout(r)
             \/ WaitForWriterLock(r) \/ ProbeReleases(r) \/ Refusal(r) \/ Feed(r)
             \/ CommitTimeout(r)
    <3>1. /\ stage'[r] \notin {"inspect", "passed"}
          /\ stage'[r] \in {"teardown", "stop"} => failing'[r]
          /\ UNCHANGED <<process, pipe, buffer>>
      BY <2>1 DEF StartBroker, BrokerExitedEarly, BrokerReady, BrokerTimeout,
                  WaitForWriterLock, ProbeReleases, Refusal,
                  Feed, PublishBars, StartWsr, CommitTimeout
    <3> QED BY <3>1, WitnessNotYet
  <2>2. CASE EnsureTopic(r) \/ Duplicate(r)
    <3>1. /\ stage'[r] \notin {"inspect", "passed"}
          /\ stage'[r] \in {"teardown", "stop"} => failing'[r]
          /\ UNCHANGED <<pipe, buffer>>
      BY <2>2 DEF EnsureTopic, Duplicate
    <3>2. process'[<<r, "loader">>] \in {"launched", process[<<r, "loader">>]}
      BY <1>2, <2>2 DEF EnsureTopic, Duplicate
    <3> QED BY <3>1, <3>2, WitnessNotYet
  <2>3. CASE ReadLine(r)
    <3> DEFINE unread == IF buffer[r] # <<>> THEN buffer[r] ELSE pipe[r]
    <3>1. /\ unread \in Lines /\ unread # <<>>
          /\ Holds(unread) => Wrote(r)
      BY <2>3 DEF ReadLine, WitnessInv, WitnessOf
    <3>2. /\ Head(unread) = "received" => Wrote(r)
          /\ Holds(Tail(unread)) => Wrote(r)
      BY <3>1, ReadFromBuffer
    <3>3. /\ buffer'[r] = Tail(unread)
          /\ pipe'[r] \in {pipe[r], <<>>}
          /\ \/ stage'[r] = stage[r]
             \/ stage'[r] = "teardown" /\ Head(unread) = "received"
          /\ UNCHANGED <<failing, process>>
          /\ stage[r] = "wait"
      BY <2>3 DEF ReadLine
    <3>4. ~Holds(<<>>)
      BY DEF Holds
    <3> HIDE DEF unread
    <3>5. (Holds(pipe'[r]) \/ Holds(buffer'[r])) => Wrote(r)
      BY <3>2, <3>3, <3>4 DEF WitnessInv, WitnessOf
    <3> QED BY <3>2, <3>3, <3>5, WroteForGood DEF WitnessInv, WitnessOf
  <2>4. CASE LoaderExited(r)
    <3>1. CASE buffer[r] = <<>>
      BY <2>4, <3>1, WitnessNotYet DEF LoaderExited
    <3>2. CASE buffer[r] # <<>>
      <4>1. /\ Head(buffer[r]) = "received" => Wrote(r)
            /\ Holds(Tail(buffer[r])) => Wrote(r)
        BY <3>2, ReadFromBuffer DEF WitnessInv, WitnessOf
      <4>2. /\ buffer'[r] = Tail(buffer[r])
            /\ pipe'[r] = pipe[r]
            /\ \/ stage'[r] = stage[r]
               \/ stage'[r] = "teardown" /\ Head(buffer[r]) = "received"
            /\ UNCHANGED <<failing, process>>
            /\ stage[r] = "wait"
        BY <2>4, <3>2 DEF LoaderExited
      <4>3. (Holds(pipe'[r]) \/ Holds(buffer'[r])) => Wrote(r)
        BY <4>1, <4>2 DEF WitnessInv, WitnessOf
      <4> QED BY <4>1, <4>2, <4>3, WroteForGood DEF WitnessInv, WitnessOf
    <3> QED BY <3>1, <3>2
  <2>5. CASE Teardown(r)
    <3>1. /\ stage'[r] = IF failing[r] THEN "stop" ELSE "inspect"
          /\ stage[r] = "teardown"
          /\ UNCHANGED <<failing, pipe, buffer>>
      BY <2>5 DEF Teardown
    <3>2. process'[<<r, "loader">>] \in {"ended", process[<<r, "loader">>]}
      BY <1>2, <2>5 DEF Teardown
    <3> QED BY <3>1, <3>2, WroteForGood DEF WitnessInv, WitnessOf
  <2>6. CASE Inspect(r)
    <3>1. /\ stage[r] = "inspect" /\ stage'[r] = "stop"
          /\ UNCHANGED <<process, pipe, buffer, table>>
          /\ failing'[r] \/ Len(table[Directory[r]]) = 1
      BY <2>6 DEF Inspect
    <3>2. /\ Directory[r] \in Directories
          /\ table[Directory[r]] \in Seq(Processes)
      BY LocalStackAssumption DEF LocalStackAssumption, TableTypeOK
    <3>3. Len(table[Directory[r]]) = 1 /\ Wrote(r) => WroteFirst(r)
      BY <3>2 DEF Wrote, WroteFirst
    <3> QED BY <3>1, <3>3, WroteForGood DEF WitnessInv, WitnessOf
  <2>7. CASE StopBroker(r)
    <3>1. /\ stage[r] = "stop" /\ stage'[r] = IF failing[r] THEN "failed" ELSE "passed"
          /\ UNCHANGED <<failing, process, pipe, buffer>>
      BY <2>7 DEF StopBroker
    <3> QED BY <3>1, WroteForGood DEF WitnessInv, WitnessOf
  <2> QED BY <1>4, <2>1, <2>2, <2>3, <2>4, <2>5, <2>6, <2>7 DEF Script
<1>5. ASSUME NEW p \in Processes, Loader(p) PROVE WitnessOf(r)'
  <2>1. UNCHANGED <<stage, failing, buffer>>
    BY <1>5 DEF Loader, Flock, LoaderAppends, LoaderCommitsOffset, LoaderReports, LoaderEnds,
                scriptVars
  <2>2. CASE p # <<r, "loader">>
    <3>1. process'[<<r, "loader">>] = process[<<r, "loader">>]
      BY <1>2, <1>5, <2>2 DEF Loader, Flock, LoaderAppends, LoaderCommitsOffset,
                              LoaderReports, LoaderEnds
    <3>2. p[2] = "loader" => p[1] # r
      BY <2>2, ProcessParts
    <3>3. pipe'[r] = pipe[r]
      BY <1>5, <3>2, ProcessParts DEF Loader, Flock, LoaderAppends, LoaderCommitsOffset,
                              LoaderReports, LoaderEnds, WriteLine
    <3> QED BY <2>1, <3>1, <3>3, WitnessUntouched
  <2>3. CASE p = <<r, "loader">>
    <3>1. CASE LoaderAppends(p)
      <4>1. Append(table[Directory[r]], p) = table'[Directory[r]]
        BY <2>3, <3>1, LocalStackAssumption
        DEF LoaderAppends, DirectoryOf, TableTypeOK, LocalStackAssumption
      <4>2. Wrote(r)'
        <5>1. table[Directory[r]] \in Seq(Processes)
          BY LocalStackAssumption DEF TableTypeOK, LocalStackAssumption
        <5>2. table'[Directory[r]][Len(table[Directory[r]]) + 1] = <<r, "loader">>
              /\ Len(table[Directory[r]]) + 1 \in DOMAIN table'[Directory[r]]
          BY <2>3, <4>1, <5>1
        <5> QED BY <5>2 DEF Wrote
      <4>3. UNCHANGED pipe
        BY <3>1 DEF LoaderAppends
      <4> QED BY <2>1, <4>2, <4>3, WroteForGood DEF WitnessInv, WitnessOf
    <3>2. CASE LoaderCommitsOffset(p)
      <4>1. process[<<r, "loader">>] = "appended" /\ pipe'[r] = Append(pipe[r], "health")
        BY <2>3, <3>2 DEF LoaderCommitsOffset, WriteLine
      <4> QED BY <2>1, <4>1, WroteForGood DEF WitnessInv, WitnessOf
    <3>3. CASE LoaderReports(p)
      <4>1. process[<<r, "loader">>] = "reported"
        BY <2>3, <3>3 DEF LoaderReports
      <4> QED BY <2>1, <4>1, WroteForGood DEF WitnessInv, WitnessOf
    <3>4. CASE Flock(p) \/ LoaderEnds(p)
      <4>1. process'[<<r, "loader">>] \notin {"appended", "reported"} /\ UNCHANGED pipe
        BY <1>2, <2>3, <3>4 DEF Flock, LoaderEnds
      <4> QED BY <2>1, <4>1, WroteForGood DEF WitnessInv, WitnessOf
    <3> QED BY <1>5, <3>1, <3>2, <3>3, <3>4 DEF Loader
  <2> QED BY <2>2, <2>3
<1>6. CASE \/ \E s \in Runs : DockerRuns(s) \/ WsrSends(s)
           \/ BrokerListens \/ BrokerExits
  <2>1. UNCHANGED <<stage, failing, process, pipe, buffer>>
    BY <1>6 DEF DockerRuns, WsrSends, BrokerListens, BrokerExits, scriptVars, loaderVars
  <2> QED BY <2>1, WitnessUntouched
<1> QED BY <1>3, <1>4, <1>5, <1>6 DEF Next

\* A run that passes has seen its own loader commit, and nobody before it.
THEOREM PassingRunsAreGenuine == Spec => []PassedMeansOwnLoader
PROOF
<1>1. Spec => [](TypeInv /\ WitnessInv)
  BY TypeInit, TypeStep, WitnessInit, WitnessStep, PTL DEF Spec
<1>2. WitnessInv => PassedMeansOwnLoader
  BY DEF WitnessInv, WitnessOf, WroteFirst, PassedMeansOwnLoader
<1> QED BY <1>1, <1>2, PTL
=============================================================================
